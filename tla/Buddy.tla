------------------------------- MODULE Buddy -------------------------------
(***************************************************************************)
(* The buddy allocator of the DPU runtime (dpu-rt/src/syslib/buddy_alloc.c *)
(* and buddy_realloc.c).  The heap is a binary tree of blocks with no      *)
(* headers: one bit per block, in words of 32, says whether the block is   *)
(* free.  Levels 0 to 4 share word 0, each further level has words of its  *)
(* own.  A bit is 0 when the block is allocated or when part of it is; the *)
(* two are told apart by the bits below, and a free block under a free     *)
(* block has its bit at 1.                                                 *)
(*                                                                         *)
(* Every entry point works under one lock, so a call is one step.  The     *)
(* words are kept as the set of the bits that are 0.  live is what the     *)
(* callers hold: the pointers they were given and the sizes they asked.    *)
(***************************************************************************)
EXTENDS FiniteSets, FiniteSetsExt, Integers

CONSTANTS Levels,   \* __BUDDY_NUMBER_OF_LEVELS__
          Sizes,    \* sizes given to buddy_alloc and buddy_realloc
          Pointers, \* what is given to buddy_free, as offsets in the heap
          MaxLive   \* bound: blocks held at a time

ASSUME BuddyAssumption ==
  /\ Levels \in 6..28    \* an unsigned int holds the size; Outside says why not 5
  /\ Sizes \subseteq Nat
  /\ Pointers \subseteq Int
  /\ MaxLive \in Nat

VARIABLES zero,  \* the bits <<word, position>> of __buddy_blocks that are 0
          live,  \* a function from the pointers held to the sizes asked
          errno

vars == <<zero, live, errno>>

-----------------------------------------------------------------------------
(***************************************************************************)
(* The layout.  The smallest block is 16 bytes: 2 ^ (3 + 1).               *)
(***************************************************************************)

MaxPower == Levels + 3

HeapSize == 2 ^ MaxPower

BlockSize(level) == 2 ^ (MaxPower - level)

Indices(level) == 0..2 ^ level - 1

(* The word and the bit of a block: highlight_target_bit and real_index.   *)
Bit(level, index) ==
  IF level < 5 THEN <<0, index + 32 - 2 ^ (level + 1)>>
  ELSE <<2 ^ (level - 5) + index \div 32, index % 32>>

(* The other bit of the pair.  Bit 31 of word 0, next to the root, is 0.   *)
BuddyBit(level, index) ==
  LET bit == Bit(level, index) IN
  <<bit[1], IF bit[2] % 2 = 1 THEN bit[2] - 1 ELSE bit[2] + 1>>

(* buddy_init and buddy_reset: every bit is 1 but the one that is unused.  *)
AllFree == {<<0, 31>>}

Init == zero = AllFree /\ live = <<>> /\ errno = "none"

-----------------------------------------------------------------------------
(***************************************************************************)
(* buddy_alloc.                                                            *)
(***************************************************************************)

(* next_power_of_2, for a size that is not 0.                              *)
NextPower(size) == CHOOSE p \in 0..31 : 2 ^ p >= size /\ (p = 0 \/ 2 ^ (p - 1) < size)

(* The level of the blocks for a size: never below the smallest block.     *)
LevelOf(size) == Min({MaxPower - NextPower(size), Levels - 1})

(* A block that can be given without cutting a larger one: it is free and  *)
(* its buddy is not.  Two free buddies belong to a larger free block.  z   *)
(* is the set of the bits that are 0.                                      *)
Free(z, level) ==
  {i \in Indices(level) : Bit(level, i) \notin z /\ BuddyBit(level, i) \in z}

(* The levels that have one, among those whose blocks are large enough.    *)
Source(z, level) == {l \in 0..level : Free(z, l) # {}}

(* The last such block of the nearest level, and the first of its parts.   *)
Given(z, level) ==
  LET from == Max(Source(z, level)) IN Max(Free(z, from)) * 2 ^ (level - from)

(* The search of safe_buddy_alloc, word by word.  The mask of the bits of  *)
(* a level in its words.                                                   *)
CaseMask(level) == IF level < 5 THEN 32 - 2 ^ (level + 1)..31 - 2 ^ level ELSE 0..31

LastWord(level) == IF level < 5 THEN 0 ELSE 2 ^ (level - 5) - 1

(* loaded_case: the bits of the level that are 1 in its k-th word.         *)
LoadedCase(z, level, k) ==
  {b \in CaseMask(level) : <<(2 ^ level) \div 32 + k, b>> \notin z}

(* ((loaded_case << 1) ^ loaded_case) & 0xAAAAAAAA.                        *)
FirstPairs(case) == {b \in 0..31 : b % 2 = 1 /\ ((b \in case) # (b - 1 \in case))}

(* The words of the level in which the search stops.                       *)
Stops(z, level) == {k \in 0..LastWord(level) : FirstPairs(LoadedCase(z, level, k)) # {}}

(* Mutant: the mask is shifted at level 4 too.                             *)
MaskShiftLate(level) == IF level < 5 THEN 30 - 2 ^ level ELSE 0

(* How far highlight_target_bit is shifted.                                *)
MaskShift(level) == IF level < 4 THEN 32 - 2 ^ (level + 1) ELSE 0

(* index_in_level, from the leading zeros, and highlight_target_bit, as    *)
(* the place of the bit; shifts are modulo 32.  When the bit is 0 the free *)
(* block is the other one of the pair.                                     *)
SearchLevel(z, level) ==
  LET k     == Max(Stops(z, level))
      case  == LoadedCase(z, level, k)
      lz    == 31 - Max(FirstPairs(case))
      start == 2 ^ level - 32 * (LastWord(level) - k)
      index == start - lz - 1 + (IF level < 5 THEN 2 ^ level ELSE 0)
      bit   == (index % 32) + MaskShift(level)
      back  == IF bit \in case THEN 0 ELSE 1
  IN  [index |-> index - back, bit |-> <<(2 ^ level) \div 32 + k, bit - back>>]

(* Mutant: the blocks between the one that is cut and the one that is      *)
(* given are not marked.                                                   *)
CutEndsOnly(z, level) ==
  {Bit(l, Given(z, level) \div 2 ^ (level - l)) : l \in {Max(Source(z, level)), level}}

(* The bits cleared: the block taken and its first parts, down to level.   *)
Cut(z, level) ==
  {Bit(l, Given(z, level) \div 2 ^ (level - l)) : l \in Max(Source(z, level))..level}

Invalid(size) == size = 0 \/ size > HeapSize

Full(z, size) == Source(z, LevelOf(size)) = {}

(* live once p is held for size bytes.                                     *)
Held(f, p, size) == [q \in DOMAIN f \union {p} |-> IF q = p THEN size ELSE f[q]]

Dropped(f, P) == [q \in DOMAIN f \ P |-> f[q]]

(* safe_buddy_alloc on the words z, when f is held.                        *)
SafeAlloc(z, f, size) ==
  \/ Invalid(size) /\ zero' = z /\ live' = f /\ errno' = "EINVAL"
  \/ ~Invalid(size) /\ Full(z, size) /\ zero' = z /\ live' = f /\ errno' = "ENOMEM"
  \/ LET level == LevelOf(size) IN
     /\ ~Invalid(size) /\ ~Full(z, size)
     /\ zero' = z \union Cut(z, level)
     /\ live' = Held(f, Given(z, level) * BlockSize(level), size)
     /\ UNCHANGED errno

buddy_alloc(size) ==
  /\ Cardinality(DOMAIN live) < MaxLive
  /\ SafeAlloc(zero, live, size)

-----------------------------------------------------------------------------
(***************************************************************************)
(* buddy_free.                                                             *)
(***************************************************************************)

(* The block of a level that holds the address.                            *)
Index(level, p) == p \div BlockSize(level)

(* Not aligned to 64 bits, or outside of the heap, whose start mem_alloc   *)
(* and the words before it align to 8 bytes; with one word only, Levels =  *)
(* 5, it would be 4 bytes off and every pointer refused.                   *)
Outside(p) == p % 8 # 0 \/ p < 0 \/ p > HeapSize - 1

(* buddy_search_for_pointer climbs from the smallest block to the first    *)
(* one that is not free; at the root it stops whatever the bit.            *)
TargetLevel(z, p) ==
  Max({0} \union {l \in 0..Levels - 1 : Bit(l, Index(l, p)) \in z})

(* Mutant: the condition that avoids an unwanted release is left out.      *)
NeverRefused(z, p) == Outside(p)

(* On the way, a free block whose buddy is not free: nothing is allocated  *)
(* at this address.                                                        *)
Refused(z, p) ==
  \/ Outside(p)
  \/ \E l \in TargetLevel(z, p) + 1..Levels - 1 : BuddyBit(l, Index(l, p)) \in z

(* Mutant: the block is freed and not fused with its buddy.                *)
FreedOnly(z, p) == {Bit(TargetLevel(z, p), Index(TargetLevel(z, p), p))}

(* The bits set: the block found and, as long as both buddies are free,    *)
(* the block they make up.                                                 *)
Freed(z, p) ==
  LET t == TargetLevel(z, p) IN
  {Bit(l, Index(l, p)) :
     l \in {m \in 0..t : \A k \in m + 1..t : BuddyBit(k, Index(k, p)) \notin z}}

(* The callers that hold a block in the part of the heap that is freed.    *)
Losers(z, f, p) ==
  LET t == TargetLevel(z, p) IN {q \in DOMAIN f : Index(t, q) = Index(t, p)}

(* safe_buddy_free of an address.                                          *)
buddy_free(p) ==
  \/ /\ Refused(zero, p)
     /\ errno' = "EINVAL"
     /\ UNCHANGED <<zero, live>>
  \/ /\ ~Refused(zero, p)
     /\ zero' = zero \ Freed(zero, p)
     /\ live' = Dropped(live, Losers(zero, live, p))
     /\ UNCHANGED errno

buddy_reset ==
  /\ zero' = AllFree
  /\ live' = <<>>
  /\ UNCHANGED errno

-----------------------------------------------------------------------------
(***************************************************************************)
(* buddy_realloc of a block that is held and a size that is not 0; with a  *)
(* null pointer or size 0 it is buddy_alloc or buddy_free.                 *)
(***************************************************************************)

(* buddy_sizeofblock: 1 << (12 - index), where index is the place of the   *)
(* block in its level, not its level.  The hardware shifts modulo 32; the  *)
(* last exponent is cut, it is larger than any heap either way.            *)
SizeOfBlock(z, p) ==
  LET shift == (12 - Index(TargetLevel(z, p), p)) % 32
  IN  2 ^ (IF shift = 31 THEN 30 ELSE shift)

buddy_realloc(p, size) ==
  \/ /\ Refused(zero, p)
     /\ errno' = "EINVAL"
     /\ UNCHANGED <<zero, live>>
  \/ /\ ~Refused(zero, p)
     /\ size > SizeOfBlock(zero, p) \div 2 /\ size <= SizeOfBlock(zero, p)
     /\ live' = Held(live, p, size)
     /\ UNCHANGED <<zero, errno>>
  \/ /\ ~Refused(zero, p)
     /\ size <= SizeOfBlock(zero, p) \div 2 \/ size > SizeOfBlock(zero, p)
     /\ SafeAlloc(zero \ Freed(zero, p), Dropped(live, Losers(zero, live, p)), size)

-----------------------------------------------------------------------------
Next ==
  \/ \E size \in Sizes : buddy_alloc(size)
  \/ \E p \in Pointers : buddy_free(p)
  \/ buddy_reset

Spec == Init /\ [][Next]_vars

(* With calls of buddy_realloc too.                                        *)
ReallocSpec ==
  Init /\ [][Next \/ \E p \in DOMAIN live, size \in Sizes \ {0} :
                        buddy_realloc(p, size)]_vars

-----------------------------------------------------------------------------
(***************************************************************************)
(* Properties.                                                             *)
(***************************************************************************)

(* A block that is held is aligned on its size and inside the heap, and no *)
(* two blocks that are held overlap.                                       *)
Disjoint ==
  \A p \in DOMAIN live :
    LET size == BlockSize(LevelOf(live[p])) IN
    /\ p % size = 0 /\ p + size <= HeapSize /\ live[p] <= size
    /\ \A q \in DOMAIN live :
         p < q => p + size <= q

(* The tree is exactly what is held: a bit is 0 if and only if some held   *)
(* block is that block or part of it.  Nothing leaks, a block and its      *)
(* buddy that are both free are one free block again, and a wrong or       *)
(* repeated buddy_free changes nothing.                                    *)
TreeExact ==
  zero = AllFree \union
           UNION {{Bit(l, Index(l, p)) : l \in 0..LevelOf(live[p])} : p \in DOMAIN live}

(* buddy_alloc finds a block whenever an aligned one of that size is not   *)
(* touched by any held block: it never fails with ENOMEM before.           *)
Complete ==
  \A level \in 0..Levels - 1 :
    Source(zero, level) # {} <=>
      \E i \in Indices(level) :
        \A p \in DOMAIN live :
          LET size == BlockSize(LevelOf(live[p])) IN
          \/ p + size <= i * BlockSize(level)
          \/ p >= (i + 1) * BlockSize(level)

(* The search by masks, xor and leading zeros stops at a level if and only *)
(* if the level has a block that can be given, at the last one of them,    *)
(* and clears the bit of that block and no other.                          *)
SearchExact ==
  \A level \in 0..Levels - 1 :
    /\ Stops(zero, level) # {} <=> Free(zero, level) # {}
    /\ Stops(zero, level) # {} =>
         LET found == SearchLevel(zero, level) IN
         found.index = Max(Free(zero, level)) /\ found.bit = Bit(level, found.index)

(* What is held after buddy_realloc has the size that was asked: the tree  *)
(* has a block of that size, or a larger one, at the pointer.              *)
ReallocGivesSize ==
  \A p \in DOMAIN live :
    TargetLevel(zero, p) <= LevelOf(live[p])
=============================================================================
