---------------------------- MODULE RankHandler ----------------------------
(***************************************************************************)
(* The life of a rank on the host: dpu_get_rank_of_type and dpu_free_rank  *)
(* of dpu_management.c, the backend library they share and the global list *)
(* of ranks of dpu_rank_handler_allocator.c, the rank numbers of           *)
(* dpu_rank_id_allocator.h, and the polling threads that walk the list.    *)
(*                                                                         *)
(* A rank is the address of a struct dpu_rank_t: calloc may return an      *)
(* address that was freed before, so an old pointer may come to designate  *)
(* a new rank.  A step is a critical section, or one access to state that  *)
(* the code changes outside the lock.  One backend type is modelled.       *)
(***************************************************************************)
EXTENDS Integers, Sequences, FiniteSets, FiniteSetsExt, SequencesExt

CONSTANTS Client,        \* threads that allocate and free ranks
          Calls,         \* Calls[c]: "get" if its profile names the backend, "probe" if not
          Rank,          \* addresses of struct dpu_rank_t
          Poller,        \* polling threads, one per NUMA node in use
          PollerOf,      \* PollerOf[r]: the thread that polls rank r
          Null,
          MaxRanks,      \* MAX_NUMBER_OF_RANKS: the size of the bitfield of rank numbers
          MaxOpens,      \* bound: dlopen of the library is not taken beyond this count
          Faults         \* which of {"load", "backend", "list", "profile", "buffer"} may fail

ASSUME RankHandlerAssumption ==
    /\ MaxRanks \in Nat \ {0} /\ MaxOpens \in Nat \ {0}
    /\ PollerOf \in [Rank -> Poller]
    /\ Calls \in [Client -> {"probe", "get"}]
    /\ Faults \subseteq {"load", "backend", "list", "profile", "buffer"}
    /\ Null \notin Rank \cup Client \cup Poller
    /\ Client \cap Poller = {}

VARIABLES
    handler,    \* handler_context.handler is not NULL
    refcount,   \* handler_context.handler_refcount
    opens,      \* how often the library is open, as dlopen and dlclose count
    list,       \* dpu_rank_handler_dpu_rank_list
    next,       \* the index dpu_rank_handler_next_dpu_rank points to
    bits,       \* the rank numbers taken in rank_id_allocator_bitfield
    rank,       \* rank[r]: the fields of the structure at address r
    pc, me,     \* where each client is, and the rank it works on
    phase,      \* the call that uses the library: "probe", "get" or "free"
    owned,      \* owned[c]: ranks that were returned to c
    poll,       \* poll[p]: where the polling thread p is in its walk of the list
    dead        \* the process has followed a NULL or unmapped handler

context == <<handler, refcount, opens>>
ranks == <<list, next>>
clients == <<pc, me, phase, owned>>
vars == <<context, ranks, bits, rank, clients, poll, dead>>

(***************************************************************************)
(* struct dpu_rank_t: memory is allocated, dpus is allocated, the mutex is *)
(* initialised and has an owner, DPUs run, the number and whether the      *)
(* backend has the rank.  calloc gives Blank.                              *)
(***************************************************************************)
Gone == [live |-> FALSE, dpus |-> FALSE, mutex |-> FALSE, owner |-> Null,
         running |-> FALSE, id |-> -1, backed |-> FALSE]
Blank == [Gone EXCEPT !.live = TRUE]

NotPolling == [at |-> "out", i |-> 0, r |-> Null]

(* A list of one empty slot, set up by the constructor. *)
Init ==
    /\ handler = FALSE /\ refcount = 0 /\ opens = 0
    /\ list = <<Null>> /\ next = 1
    /\ bits = {}
    /\ rank = [r \in Rank |-> Gone]
    /\ pc = [c \in Client |-> "idle"]
    /\ me = [c \in Client |-> Null]
    /\ phase = [c \in Client |-> "get"]
    /\ owned = [c \in Client |-> {}]
    /\ poll = [p \in Poller |-> NotPolling]
    /\ dead = FALSE

At(c, l) == ~dead /\ pc[c] = l
Goto(c, l) == pc' = [pc EXCEPT ![c] = l]

(***************************************************************************)
(* static_handler_lock.  The pollers hold it to read during a whole walk;  *)
(* what writers do under it is one step, taken when nobody reads.          *)
(***************************************************************************)
exclusively == \A p \in Poller : poll[p].at = "out"

(* A call through handler_context->handler. *)
Usable == handler /\ opens > 0

Crash ==
    /\ ~Usable
    /\ dead' = TRUE
    /\ UNCHANGED <<context, ranks, bits, rank, clients, poll>>

-----------------------------------------------------------------------------
(***************************************************************************)
(* The library is loaded for the rank, and for a probe before it.          *)
(***************************************************************************)

(* dpu_get_rank_of_type: calloc.  A profile without a backend has the library
   loaded, asked for its number of ranks and released before it is loaded
   for the rank. *)
dpu_get_rank_of_type(c, r) ==
    /\ At(c, "idle") /\ ~rank[r].live
    /\ rank' = [rank EXCEPT ![r] = Blank]
    /\ me' = [me EXCEPT ![c] = r]
    /\ phase' = [phase EXCEPT ![c] = Calls[c]]
    /\ Goto(c, "instantiate")
    /\ UNCHANGED <<context, ranks, bits, owned, poll, dead>>

(* dpu_rank_handler_instantiate, under the lock: load the library if it is not
   loaded.  What has to be undone after a failure comes after the unlock. *)
instantiate(c) ==
    /\ At(c, "instantiate") /\ exclusively
    /\ IF handler
       THEN Goto(c, "get") /\ UNCHANGED context
       ELSE \/ /\ opens < MaxOpens
               /\ handler' = TRUE /\ opens' = opens + 1 /\ refcount' = 0
               /\ Goto(c, "get")
            \/ "load" \in Faults /\ Goto(c, "unloaded") /\ UNCHANGED context
    /\ UNCHANGED <<ranks, bits, rank, me, phase, owned, poll, dead>>

(* free(rank), and the call returns. *)
FreeStructure(c) ==
    /\ rank' = [rank EXCEPT ![me[c]] = Gone]
    /\ me' = [me EXCEPT ![c] = Null]
    /\ Goto(c, "idle")

(* handler_context[type].handler = NULL after exclusively_end.  Without the
   library the call fails; after a probe the rank is one of the simulator. *)
NotLoaded(c) ==
    /\ At(c, "unloaded")
    /\ handler' = FALSE
    /\ FreeStructure(c)
    /\ UNCHANGED <<refcount, opens, ranks, bits, phase, owned, poll, dead>>

(* dpu_rank_handler_get, and the use each caller makes of the handler. *)
dpu_rank_handler_get(c) ==
    /\ At(c, "get")
    /\ refcount' = refcount + 1
    /\ Goto(c, IF phase[c] = "get" THEN "number" ELSE "ask")
    /\ UNCHANGED <<handler, opens, ranks, bits, rank, me, phase, owned, poll, dead>>

(* get_nr_dpu_ranks of determine_default_backend_type, then release. *)
Ask(c) ==
    /\ At(c, "ask")
    /\ \/ Crash
       \/ /\ Usable
          /\ Goto(c, "put")
          /\ UNCHANGED <<context, ranks, bits, rank, me, phase, owned, poll, dead>>

-----------------------------------------------------------------------------
(***************************************************************************)
(* dpu_rank_handler_get_rank.                                              *)
(***************************************************************************)

(* dpu_get_next_rank_id: the lowest number that is free. *)
FreeNumbers == (0..MaxRanks - 1) \ bits

dpu_get_next_rank_id(c) ==
    /\ At(c, "number")
    /\ IF FreeNumbers = {}
       THEN Goto(c, "put") /\ UNCHANGED <<bits, rank>>
       ELSE /\ bits' = bits \cup {Min(FreeNumbers)}
            /\ rank' = [rank EXCEPT ![me[c]].id = Min(FreeNumbers)]
            /\ Goto(c, "allocate")
    /\ UNCHANGED <<context, ranks, me, phase, owned, poll, dead>>

(* Mutant: the bit of the number is not cleared. *)
dpu_release_rank_idNot(r) ==
    /\ rank' = [rank EXCEPT ![r].id = -1, ![r].backed = FALSE]
    /\ UNCHANGED bits

(* dpu_release_rank_id, where the backend gives the rank up. *)
dpu_release_rank_id(r) ==
    /\ bits' = bits \ {rank[r].id}
    /\ rank' = [rank EXCEPT ![r].id = -1, ![r].backed = FALSE]

(* The description, the array of DPUs and the backend's allocate.  A backend
   whose DPUs are all disabled is told to free the rank, and dpus is not
   freed: either way the backend does not have the rank. *)
Allocate(c) ==
    /\ At(c, "allocate")
    /\ \/ Crash
       \/ /\ Usable
          /\ \/ /\ rank' = [rank EXCEPT ![me[c]].dpus = TRUE, ![me[c]].backed = TRUE]
                /\ Goto(c, "add")
                /\ UNCHANGED bits
             \/ /\ "backend" \in Faults
                /\ dpu_release_rank_id(me[c])
                /\ Goto(c, "put")
          /\ UNCHANGED <<context, ranks, me, phase, owned, poll, dead>>

(* dpu_rank_list_update_next: the first empty slot, or the first of the slots
   that growing the list adds. *)
EmptySlots(l) == {i \in DOMAIN l : l[i] = Null}
Grown(l) == l \o [i \in 1..Len(l) + 1 |-> Null]

(* Mutant: the last of the old slots after the list has grown. *)
NextSlotLast(l) == IF EmptySlots(l) # {} THEN Min(EmptySlots(l)) ELSE Len(l)

NextSlot(l) == IF EmptySlots(l) # {} THEN Min(EmptySlots(l)) ELSE Len(l) + 1

(* dpu_rank_list_add.  When the list cannot be grown the call fails and the
   rank stays in the list; the size counts the new slots all the same, so that
   a walk reads whatever the memory behind the array holds (an address that is
   no rank's is left out). *)
dpu_rank_list_add(c) ==
    /\ At(c, "add") /\ exclusively
    /\ LET l == [list EXCEPT ![next] = me[c]] IN
       \/ /\ list' = IF EmptySlots(l) # {} THEN l ELSE Grown(l)
          /\ next' = NextSlot(l)
          /\ Goto(c, "finish")
       \/ /\ "list" \in Faults /\ EmptySlots(l) = {}
          /\ \E behind \in [1..Len(l) + 1 -> Rank \cup {Null}] : list' = l \o behind
          /\ Goto(c, "put") /\ UNCHANGED next
    /\ UNCHANGED <<context, bits, rank, me, phase, owned, poll, dead>>

(* The rest of dpu_get_rank_of_type: the properties of the profile, and the
   mutex.  The error path frees dpus and not what get_rank did; without memory
   for the debug commands the call just returns. *)
Finish(c) ==
    /\ At(c, "finish")
    /\ \/ /\ rank' = [rank EXCEPT ![me[c]].mutex = TRUE]
          /\ owned' = [owned EXCEPT ![c] = @ \cup {me[c]}]
          /\ me' = [me EXCEPT ![c] = Null]
          /\ Goto(c, "idle")
       \/ /\ "profile" \in Faults
          /\ rank' = [rank EXCEPT ![me[c]].dpus = FALSE]
          /\ Goto(c, "put") /\ UNCHANGED <<owned, me>>
       \/ /\ "buffer" \in Faults
          /\ me' = [me EXCEPT ![c] = Null]
          /\ Goto(c, "idle") /\ UNCHANGED <<rank, owned>>
    /\ UNCHANGED <<context, ranks, bits, phase, poll, dead>>

-----------------------------------------------------------------------------
(***************************************************************************)
(* dpu_rank_handler_put and dpu_rank_handler_free: three accesses, none    *)
(* under the lock.                                                         *)
(***************************************************************************)

(* After the release: a probe goes on with the rank; a failed allocation frees
   the structure, and so does dpu_free_rank after it has given the mutex back
   and destroyed it. *)
Released(c) ==
    IF phase[c] = "probe"
    THEN /\ phase' = [phase EXCEPT ![c] = "get"] /\ Goto(c, "instantiate")
         /\ UNCHANGED <<rank, me>>
    ELSE FreeStructure(c) /\ UNCHANGED phase

dpu_rank_handler_put(c) ==
    /\ At(c, "put")
    /\ refcount' = refcount - 1
    /\ IF refcount' = 0
       THEN Goto(c, "clear") /\ UNCHANGED <<rank, me, phase>>
       ELSE Released(c)
    /\ UNCHANGED <<handler, opens, ranks, bits, owned, poll, dead>>

ClearHandler(c) ==
    /\ At(c, "clear")
    /\ handler' = FALSE
    /\ Goto(c, "dlclose")
    /\ UNCHANGED <<refcount, opens, ranks, bits, rank, me, phase, owned, poll, dead>>

(* dlclose of a library that is not open fails and changes nothing. *)
CloseLibrary(c) ==
    /\ At(c, "dlclose")
    /\ opens' = IF opens > 0 THEN opens - 1 ELSE 0
    /\ Released(c)
    /\ UNCHANGED <<handler, refcount, ranks, bits, owned, poll, dead>>

-----------------------------------------------------------------------------
(***************************************************************************)
(* dpu_free_rank and dpu_rank_handler_free_rank, under the mutex of the    *)
(* rank.                                                                   *)
(***************************************************************************)
dpu_free_rank(c, r) ==
    /\ At(c, "idle") /\ r \in owned[c]
    /\ owned' = [owned EXCEPT ![c] = @ \ {r}]
    /\ me' = [me EXCEPT ![c] = r]
    /\ phase' = [phase EXCEPT ![c] = "free"]
    /\ Goto(c, "lock")
    /\ UNCHANGED <<context, ranks, bits, rank, poll, dead>>

dpu_lock_rank(c) ==
    /\ At(c, "lock") /\ rank[me[c]].owner = Null
    /\ rank' = [rank EXCEPT ![me[c]].owner = c, ![me[c]].dpus = FALSE]
    /\ Goto(c, "remove")
    /\ UNCHANGED <<context, ranks, bits, me, phase, owned, poll, dead>>

(* Mutant: the list is changed while the polling threads walk it. *)
dpu_rank_list_removeUnlocked(c) ==
    /\ At(c, "remove")
    /\ list' = [i \in DOMAIN list |-> IF list[i] = me[c] THEN Null ELSE list[i]]
    /\ Goto(c, "free")
    /\ UNCHANGED <<context, next, bits, rank, me, phase, owned, poll, dead>>

(* dpu_rank_list_remove: the first slot that holds the rank. *)
dpu_rank_list_remove(c) ==
    /\ At(c, "remove") /\ exclusively
    /\ LET slots == {i \in DOMAIN list : list[i] = me[c]} IN
       list' = IF slots = {} THEN list ELSE [list EXCEPT ![Min(slots)] = Null]
    /\ Goto(c, "free")
    /\ UNCHANGED <<context, next, bits, rank, me, phase, owned, poll, dead>>

FreeBackend(c) ==
    /\ At(c, "free")
    /\ \/ Crash
       \/ /\ Usable
          /\ dpu_release_rank_id(me[c])
          /\ Goto(c, "put")
          /\ UNCHANGED <<context, ranks, me, phase, owned, poll, dead>>

-----------------------------------------------------------------------------
(***************************************************************************)
(* The DPUs of a rank are launched by its user, and the polling threads    *)
(* walk the list while they hold the lock for reading.                     *)
(***************************************************************************)
Launch(c, r) ==
    /\ At(c, "idle") /\ r \in owned[c]
    /\ rank[r].owner = Null /\ ~rank[r].running
    /\ rank' = [rank EXCEPT ![r].running = TRUE]
    /\ UNCHANGED <<context, ranks, bits, clients, poll, dead>>

(* The first entry from slot i on that holds a rank, and the one after the
   entry p is at; 0 when there is none.  The list does not change during a
   walk. *)
EntryFrom(i) ==
    LET slots == {j \in DOMAIN list : j >= i /\ list[j] # Null} IN
    [at |-> "look", i |-> IF slots = {} THEN 0 ELSE Min(slots), r |-> Null]
NextEntry(p) == EntryFrom(poll[p].i + 1)

(* dpu_rank_handler_start_iteration.  When a polling thread sleeps is the
   subject of Polling: here it may walk the list at any time. *)
start_iteration(p) ==
    /\ ~dead /\ poll[p].at = "out"
    /\ poll' = [poll EXCEPT ![p] = EntryFrom(1)]
    /\ UNCHANGED <<context, ranks, bits, rank, clients, dead>>

(* One entry of the list: its queue and its number of running DPUs are read
   without the mutex of the rank. *)
Look(p) ==
    /\ ~dead /\ poll[p].at = "look" /\ poll[p].i # 0
    /\ LET r == list[poll[p].i] IN
       poll' = [poll EXCEPT ![p] =
                   IF PollerOf[r] = p /\ rank[r].running
                   THEN [at |-> "try", i |-> @.i, r |-> r] ELSE NextEntry(p)]
    /\ UNCHANGED <<context, ranks, bits, rank, clients, dead>>

(* Mutant: the polling thread waits for the mutex. *)
TryLockWaiting(p) ==
    /\ ~dead /\ poll[p].at = "try" /\ rank[poll[p].r].owner = Null
    /\ rank' = [rank EXCEPT ![poll[p].r].owner = p]
    /\ poll' = [poll EXCEPT ![p].at = "poll"]
    /\ UNCHANGED <<context, ranks, bits, clients, dead>>

(* dpu_trylock_rank: a rank whose mutex is taken is skipped. *)
TryLock(p) ==
    /\ ~dead /\ poll[p].at = "try"
    /\ LET r == poll[p].r IN
       IF rank[r].owner = Null
       THEN /\ rank' = [rank EXCEPT ![r].owner = p]
            /\ poll' = [poll EXCEPT ![p].at = "poll"]
       ELSE poll' = [poll EXCEPT ![p] = NextEntry(p)] /\ UNCHANGED rank
    /\ UNCHANGED <<context, ranks, bits, clients, dead>>

(* dpu_poll_rank reads the DPUs of the rank and may find that they have
   stopped. *)
PollRank(p) ==
    /\ ~dead /\ poll[p].at = "poll"
    /\ \E b \in BOOLEAN : rank' = [rank EXCEPT ![poll[p].r].owner = Null, ![poll[p].r].running = b]
    /\ poll' = [poll EXCEPT ![p] = NextEntry(p)]
    /\ UNCHANGED <<context, ranks, bits, clients, dead>>

end_iteration(p) ==
    /\ ~dead /\ poll[p].at = "look" /\ poll[p].i = 0
    /\ poll' = [poll EXCEPT ![p] = NotPolling]
    /\ UNCHANGED <<context, ranks, bits, rank, clients, dead>>

(* The steps that wait for a lock. *)
Locking(c) ==
    instantiate(c) \/ dpu_rank_list_add(c) \/ dpu_lock_rank(c) \/ dpu_rank_list_remove(c)

ClientStep(c) ==
    \/ Locking(c)
    \/ NotLoaded(c) \/ dpu_rank_handler_get(c) \/ Ask(c)
    \/ dpu_get_next_rank_id(c) \/ Allocate(c) \/ Finish(c)
    \/ dpu_rank_handler_put(c) \/ ClearHandler(c) \/ CloseLibrary(c)
    \/ FreeBackend(c)

ClientCall(c) ==
    \E r \in Rank : dpu_get_rank_of_type(c, r) \/ dpu_free_rank(c, r) \/ Launch(c, r)

PollerStep(p) == Look(p) \/ TryLock(p) \/ PollRank(p) \/ end_iteration(p)

Next == \/ \E c \in Client : ClientStep(c) \/ ClientCall(c)
        \/ \E p \in Poller : start_iteration(p) \/ PollerStep(p)

Spec == Init /\ [][Next]_vars

(***************************************************************************)
(* A thread that has begun goes on.  A lock that is free again and again   *)
(* is obtained: the last reader that leaves hands it to a waiting writer.  *)
(***************************************************************************)
FairSpec ==
    /\ Spec
    /\ \A c \in Client : WF_vars(ClientStep(c)) /\ SF_vars(Locking(c))
    /\ \A p \in Poller : WF_vars(PollerStep(p))

-----------------------------------------------------------------------------
Listed == Range(list) \ {Null}

(* Clients between dpu_rank_list_add and dpu_rank_list_remove. *)
InList(c) == \/ phase[c] = "get" /\ pc[c] = "finish"
             \/ phase[c] = "free" /\ pc[c] \in {"lock", "remove"}

(* The list of ranks holds each rank that was added and not yet removed in
   exactly one slot, and the next rank has an empty slot of the array waiting
   for it: dpu_rank_list_add writes where an earlier call decided, and
   dpu_rank_list_remove empties slots without telling it. *)
ListExact ==
    /\ next \in DOMAIN list /\ list[next] = Null
    /\ \A i, j \in DOMAIN list : list[i] = list[j] /\ list[i] # Null => i = j
    /\ Listed = (UNION {owned[c] : c \in Client}) \cup {me[c] : c \in {c \in Client : InList(c)}}

(* A polling thread that walks the list only meets ranks that exist: the entry
   it reads without the mutex of the rank is not freed, the mutex it tries is
   initialised and not destroyed, and the DPUs it polls are allocated, whatever
   the threads that free and allocate ranks at the same addresses do. *)
NoStaleRank ==
    \A p \in Poller :
       /\ poll[p].at = "look" /\ poll[p].i # 0
             => list[poll[p].i] \in Rank /\ rank[list[poll[p].i]].live
       /\ poll[p].at \in {"try", "poll"}
             => rank[poll[p].r].live /\ rank[poll[p].r].mutex
       /\ poll[p].at = "poll" => rank[poll[p].r].dpus /\ rank[poll[p].r].owner = p

(* Rank numbers are neither shared nor lost: the bitfield holds exactly the
   numbers of the ranks that have one, no two ranks have the same, and a rank
   the backend holds has one, also after allocations that failed half way. *)
NumbersExact ==
    /\ bits = {rank[r].id : r \in Rank} \ {-1}
    /\ \A r, s \in Rank : rank[r].id = rank[s].id /\ rank[r].id # -1 => r = s
    /\ \A r \in Rank : rank[r].backed => rank[r].id \in bits

(* Every call of dpu_get_rank_of_type and dpu_free_rank returns: the caller
   waits for the lock of the list while it holds the mutex of its rank, and a
   polling thread looks for that mutex while it holds the lock. *)
RankCallReturns == \A c \in Client : pc[c] # "idle" ~> (pc[c] = "idle" \/ dead)

(* "To ensure that there is no concurrent allocation/release of DPU handlers"
   (dpu_rank_handler_allocator.c:111): from the moment a thread has counted
   itself as a user of the library until it releases it, the handler is there
   and the library is open. *)
Using(c) == \/ pc[c] \in {"number", "ask", "allocate", "add", "finish"}
            \/ phase[c] = "free" /\ pc[c] \in {"lock", "remove", "free"}
HandlerHeld == \A c \in Client : Using(c) \/ owned[c] # {} => Usable
====
