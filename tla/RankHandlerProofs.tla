-------------------------- MODULE RankHandlerProofs --------------------------
(***************************************************************************)
(* As long as an allocation fails in the library or in the backend only,   *)
(* the list of ranks and the rank numbers stay exact and the polling       *)
(* threads meet no freed rank, for every number of clients, ranks and      *)
(* polling threads.  A failure after the backend has the rank breaks the   *)
(* three of them: the error paths do not undo what get_rank did.           *)
(***************************************************************************)
EXTENDS RankHandler, SequenceTheorems, WellFoundedInduction, TLAPS

(* The faults whose error paths give everything back. *)
EarlyFaultsOnly == Faults \subseteq {"load", "backend"}

Number == 0..MaxRanks - 1

RankRecord ==
    [live : BOOLEAN, dpus : BOOLEAN, mutex : BOOLEAN, owner : Client \cup Poller \cup {Null},
     running : BOOLEAN, id : Number \cup {-1}, backed : BOOLEAN]

Label == {"idle", "instantiate", "unloaded", "get", "ask", "number", "allocate", "add",
          "finish", "put", "clear", "dlclose", "lock", "remove", "free"}

Walk == [at : {"out", "look", "try", "poll"}, i : Nat, r : Rank \cup {Null}]

(* The types of the variables that the list and the numbers depend on. *)
TypeInv ==
    /\ list \in Seq(Rank \cup {Null})
    /\ bits \subseteq Number
    /\ rank \in [Rank -> RankRecord]
    /\ pc \in [Client -> Label]
    /\ me \in [Client -> Rank \cup {Null}]
    /\ phase \in [Client -> {"probe", "get", "free"}]
    /\ owned \in [Client -> SUBSET Rank]
    /\ poll \in [Poller -> Walk]

(* A client works on a rank while a call lasts. *)
Holds(c, r) == r \in owned[c] \/ me[c] = r

(* A rank is in the hands of one client, which has it once, and exists. *)
HoldInv ==
    /\ \A c \in Client : pc[c] = "idle" <=> me[c] = Null
    /\ \A c \in Client : me[c] \notin owned[c]
    /\ \A c, d \in Client, r \in Rank : Holds(c, r) /\ Holds(d, r) => c = d
    /\ \A c \in Client, r \in Rank : Holds(c, r) => rank[r].live
    /\ \A r \in Rank : ~rank[r].live => rank[r] = Gone

(* Before the backend has the rank, and after it has given it up. *)
Outside == {"instantiate", "unloaded", "get", "ask", "number", "put", "clear", "dlclose"}

(* What a client has done to its rank when it is at a step of a call. *)
CallOf(c) ==
    /\ pc[c] \in {"lock", "remove", "free"} => phase[c] = "free"
    /\ pc[c] \in {"number", "allocate", "add", "finish"} => phase[c] = "get"
    /\ pc[c] \in Outside => rank[me[c]].id = -1 /\ ~rank[me[c]].backed
    /\ pc[c] = "allocate" => rank[me[c]].id # -1
    /\ pc[c] \in {"add", "finish", "lock"} => rank[me[c]].dpus
    /\ pc[c] = "remove" => rank[me[c]].owner = c
    /\ \A r \in owned[c] : rank[r].dpus /\ rank[r].mutex

CallInv == \A c \in Client : CallOf(c)

(* The rank is in the list because of c. *)
Added(c, r) == r \in owned[c] \/ (InList(c) /\ me[c] = r)

ListInv ==
    /\ next \in DOMAIN list /\ list[next] = Null
    /\ \A i, j \in DOMAIN list : list[i] = list[j] /\ list[i] # Null => i = j
    /\ \A i \in DOMAIN list : list[i] # Null => \E c \in Client : Added(c, list[i])
    /\ \A c \in Client, r \in Rank : Added(c, r) => \E i \in DOMAIN list : list[i] = r

(* A polling thread is at an entry of the list that holds a rank, and owns *)
(* the mutex of the rank it polls.                                         *)
PollOf(p) ==
    /\ poll[p].at = "look" /\ poll[p].i # 0 =>
          poll[p].i \in DOMAIN list /\ list[poll[p].i] # Null
    /\ poll[p].at \in {"try", "poll"} =>
          /\ poll[p].i \in DOMAIN list
          /\ poll[p].r # Null /\ list[poll[p].i] = poll[p].r
          /\ rank[poll[p].r].mutex
    /\ poll[p].at = "poll" => rank[poll[p].r].owner = p /\ rank[poll[p].r].dpus

PollInv ==
    /\ \A p \in Poller : PollOf(p)
    /\ \A r \in Rank : rank[r].running => rank[r].mutex

(* The strengthening that is inductive. *)
IInv ==
    /\ TypeInv
    /\ HoldInv
    /\ CallInv
    /\ ListInv
    /\ PollInv
    /\ NumbersExact

-----------------------------------------------------------------------------

(* A set of natural numbers that is not empty has a minimum. *)
LEMMA MinIn ==
    ASSUME NEW S \in SUBSET Nat, S # {}
    PROVE  Min(S) \in S
<1> DEFINE R == OpToRel(<, Nat)
<1>1. PICK x \in S : \A y \in S : <<y, x>> \notin R
  BY NatLessThanWellFounded, WFMin
<1>2. \A y \in S : <<y, x>> \in Nat \X Nat /\ <<y, x>>[1] < <<y, x>>[2] => <<y, x>> \in R
  BY Zenon DEF OpToRel
<1> HIDE DEF R
<1>3. \A y \in S : <<y, x>> \in Nat \X Nat /\ <<y, x>>[1] = y /\ <<y, x>>[2] = x
  OBVIOUS
<1>4. \A y \in S : ~(y < x)
  BY <1>1, <1>2, <1>3
<1>5. \A y \in S : x =< y
  BY <1>4
<1>6. QED
  BY <1>5 DEF Min

(* What each step writes in a structure. *)
LEMMA Records ==
    /\ Gone \in RankRecord /\ Blank \in RankRecord
    /\ \A x \in RankRecord :
          /\ \A n \in Number \cup {-1} : [x EXCEPT !.id = n] \in RankRecord
          /\ [x EXCEPT !.id = -1, !.backed = FALSE] \in RankRecord
          /\ [x EXCEPT !.dpus = TRUE, !.backed = TRUE] \in RankRecord
          /\ [x EXCEPT !.mutex = TRUE] \in RankRecord
          /\ [x EXCEPT !.running = TRUE] \in RankRecord
          /\ \A o \in Client \cup Poller \cup {Null} : [x EXCEPT !.owner = o] \in RankRecord
          /\ \A c \in Client : [x EXCEPT !.owner = c, !.dpus = FALSE] \in RankRecord
          /\ \A b \in BOOLEAN : [x EXCEPT !.owner = Null, !.running = b] \in RankRecord
<1>1. Gone \in RankRecord
  BY DEF Gone, RankRecord
<1>2. Blank \in RankRecord
  BY Zenon, <1>1 DEF Blank, RankRecord
<1>3. QED
  BY ZenonT(60), <1>1, <1>2 DEF RankRecord

(* The bitfield does not change as long as the numbers do not. *)
LEMMA NumbersKept ==
    ASSUME TypeInv, NumbersExact, bits' = bits,
           \A r \in Rank : rank'[r].id = rank[r].id /\ (rank'[r].backed => rank[r].backed)
    PROVE  NumbersExact'
<1>1. {rank'[r].id : r \in Rank} = {rank[r].id : r \in Rank}
  OBVIOUS
<1>2. QED
  BY <1>1 DEF NumbersExact

(* A rank in the list is in the hands of the client that added it. *)
LEMMA ListedHeld ==
    ASSUME IInv, NEW i \in DOMAIN list, list[i] # Null
    PROVE  /\ list[i] \in Rank /\ rank[list[i]].live
           /\ \A c \in Client : me[c] = list[i] => InList(c)
<1>1. list[i] \in Rank
  BY DEF IInv, TypeInv
<1>2. PICK d \in Client : Added(d, list[i])
  BY DEF IInv, ListInv
<1>3. Holds(d, list[i])
  BY <1>2 DEF Added, Holds
<1>4. ASSUME NEW c \in Client, me[c] = list[i]
      PROVE  InList(c)
  <2>1. c = d
    BY <1>1, <1>3, <1>4 DEF IInv, HoldInv, Holds
  <2>2. QED
    BY <1>2, <1>4, <2>1 DEF Added, IInv, HoldInv
<1>5. QED
  BY <1>1, <1>3, <1>4 DEF IInv, HoldInv

(* Nothing but a step of a call that does not touch the rank. *)
LEMMA MoveInv ==
    ASSUME IInv, NEW c \in Client, NEW l \in Outside,
           pc[c] \in Outside, pc' = [pc EXCEPT ![c] = l],
           l = "number" => phase[c] = "get",
           UNCHANGED <<ranks, bits, rank, me, phase, owned, poll>>
    PROVE  IInv'
<1>1. TypeInv'
  BY DEF IInv, TypeInv, Label, Outside, ranks
<1>2. pc \in [Client -> Label] /\ pc'[c] = l /\ \A d \in Client \ {c} : pc'[d] = pc[d]
  BY DEF IInv, TypeInv
<1>3. HoldInv'
  BY <1>2 DEF IInv, HoldInv, Holds, Outside
<1>4. CallInv'
  BY <1>2 DEF IInv, CallInv, CallOf, Outside
<1>5. \A d \in Client : InList(d)' = InList(d)
  BY <1>2 DEF InList, Outside
<1>6. \A d \in Client, r \in Rank : Added(d, r)' = Added(d, r)
  BY <1>5 DEF Added
<1>7. ListInv'
  BY <1>6 DEF IInv, ListInv, TypeInv, ranks
<1>8. PollInv' /\ NumbersExact'
  BY DEF IInv, PollInv, PollOf, NumbersExact, ranks
<1>9. QED
  BY <1>1, <1>3, <1>4, <1>7, <1>8 DEF IInv

(* The structure of a rank that nobody has listed is freed. *)
LEMMA FreeInv ==
    ASSUME IInv, NEW c \in Client, pc[c] \in {"unloaded", "put", "dlclose"},
           FreeStructure(c), UNCHANGED <<ranks, bits, phase, owned, poll>>
    PROVE  IInv'
<1> DEFINE m == me[c]
<1>1. m \in Rank /\ rank[m].live /\ rank[m].id = -1 /\ ~rank[m].backed
  BY DEF IInv, TypeInv, HoldInv, Holds, CallInv, CallOf, Outside
<1>2. ~InList(c)
  BY DEF InList
<1>3. /\ rank' \in [Rank -> RankRecord]
      /\ rank'[m] = Gone /\ \A r \in Rank \ {m} : rank'[r] = rank[r]
  BY <1>1, Records DEF IInv, TypeInv, FreeStructure
<1>4. /\ pc' \in [Client -> Label] /\ me' \in [Client -> Rank \cup {Null}]
      /\ pc'[c] = "idle" /\ me'[c] = Null
      /\ \A d \in Client \ {c} : pc'[d] = pc[d] /\ me'[d] = me[d]
  BY DEF IInv, TypeInv, FreeStructure, Goto, Label
<1>5. TypeInv'
  BY <1>3, <1>4 DEF IInv, TypeInv, ranks
<1>6. \A d \in Client, r \in Rank : Holds(d, r)' => Holds(d, r) /\ r # m
  <2>1. SUFFICES ASSUME NEW d \in Client, NEW r \in Rank, Holds(d, r)'
                 PROVE  Holds(d, r) /\ r # m
    OBVIOUS
  <2>2. Holds(d, r) /\ (d = c => r \in owned[c])
    BY <1>4, <2>1, RankHandlerAssumption DEF Holds
  <2>3. Holds(c, m) /\ m \notin owned[c]
    BY DEF Holds, IInv, HoldInv
  <2>4. QED
    BY <1>1, <2>2, <2>3 DEF IInv, HoldInv
<1>7. Gone.live = FALSE /\ Gone.id = -1 /\ Gone.backed = FALSE /\ Gone.running = FALSE
  BY DEF Gone
<1>8. HoldInv'
  <2>1. \A d \in Client : (pc'[d] = "idle" <=> me'[d] = Null) /\ me'[d] \notin owned[d]
    <3>1. Null \notin owned[c]
      BY RankHandlerAssumption DEF IInv, TypeInv
    <3>2. \A d \in Client : (pc[d] = "idle" <=> me[d] = Null) /\ me[d] \notin owned[d]
      BY DEF IInv, HoldInv
    <3>3. QED
      BY <1>4, <3>1, <3>2
  <2>2. \A r \in Rank : ~rank'[r].live => rank'[r] = Gone
    BY <1>3, <1>7 DEF IInv, HoldInv
  <2>3. \A d \in Client, r \in Rank : Holds(d, r)' => rank'[r].live
    BY <1>3, <1>6 DEF IInv, HoldInv
  <2>4. \A d, e \in Client, r \in Rank : Holds(d, r)' /\ Holds(e, r)' => d = e
    BY <1>6 DEF IInv, HoldInv
  <2>5. QED
    BY <2>1, <2>2, <2>3, <2>4 DEF HoldInv
<1>9. CallInv'
  <2>1. SUFFICES ASSUME NEW d \in Client
                 PROVE  CallOf(d)'
    BY DEF CallInv
  <2>2. CallOf(d) /\ \A r \in owned[d] : r \in Rank /\ rank'[r] = rank[r]
    BY <1>3, <1>6 DEF IInv, CallInv, TypeInv, Holds
  <2>3. CASE d = c
    BY <1>4, <2>2, <2>3 DEF CallOf, Outside
  <2>4. CASE d # c
    <3>1. pc'[d] # "idle" => me[d] \in Rank /\ rank'[me[d]] = rank[me[d]]
      BY <1>3, <1>4, <1>6, <2>4 DEF IInv, HoldInv, TypeInv, Holds
    <3>2. QED
      BY <1>4, <2>2, <2>4, <3>1 DEF CallOf, Outside
  <2>5. QED
    BY <2>3, <2>4
<1>10. \A d \in Client, r \in Rank : Added(d, r)' = Added(d, r)
  BY <1>2, <1>4 DEF Added, InList
<1>11. ListInv'
  BY <1>10 DEF IInv, ListInv, TypeInv, ranks
<1>12. PollInv'
  <2>1. \A r \in Rank : rank'[r].running => rank'[r].mutex
    BY <1>3, <1>7 DEF IInv, PollInv
  <2>2. ASSUME NEW p \in Poller, poll[p].at \in {"try", "poll"}
        PROVE  rank'[poll[p].r] = rank[poll[p].r]
    BY <1>1, <1>2, <1>3, <2>2, ListedHeld DEF IInv, PollInv, PollOf
  <2>3. QED
    BY <2>1, <2>2 DEF IInv, PollInv, PollOf, ranks
<1>13. NumbersExact'
  BY <1>1, <1>3, <1>7, NumbersKept DEF IInv
<1>14. QED
  BY <1>5, <1>8, <1>9, <1>11, <1>12, <1>13 DEF IInv

(* After a probe the library is loaded for the rank. *)
LEMMA ProbeInv ==
    ASSUME IInv, NEW c \in Client, pc[c] \in {"put", "dlclose"}, phase[c] = "probe",
           phase' = [phase EXCEPT ![c] = "get"], pc' = [pc EXCEPT ![c] = "instantiate"],
           UNCHANGED <<ranks, bits, rank, me, owned, poll>>
    PROVE  IInv'
<1>1. TypeInv'
  BY DEF IInv, TypeInv, Label, ranks
<1>2. /\ pc'[c] = "instantiate" /\ phase'[c] = "get"
      /\ \A d \in Client \ {c} : pc'[d] = pc[d] /\ phase'[d] = phase[d]
  BY DEF IInv, TypeInv
<1>3. HoldInv'
  BY <1>2 DEF IInv, HoldInv, Holds
<1>4. CallInv'
  BY <1>2 DEF IInv, CallInv, CallOf, Outside
<1>5. \A d \in Client : InList(d)' = InList(d)
  BY <1>2 DEF InList
<1>6. \A d \in Client, r \in Rank : Added(d, r)' = Added(d, r)
  BY <1>5 DEF Added
<1>7. ListInv'
  BY <1>6 DEF IInv, ListInv, TypeInv, ranks
<1>8. PollInv' /\ NumbersExact'
  BY DEF IInv, PollInv, PollOf, NumbersExact, ranks
<1>9. QED
  BY <1>1, <1>3, <1>4, <1>7, <1>8 DEF IInv

(* A client writes in the structure of the rank it works on, and the rank  *)
(* neither enters the list nor leaves it.                                  *)
LEMMA WriteInv ==
    ASSUME IInv, NEW c \in Client, NEW l \in Label \ {"idle"}, pc[c] # "idle",
           pc' = [pc EXCEPT ![c] = l],
           UNCHANGED <<ranks, me, phase, owned, poll>>,
           rank' \in [Rank -> RankRecord],
           \A r \in Rank \ {me[c]} : rank'[r] = rank[r],
           rank'[me[c]].live = rank[me[c]].live,
           rank'[me[c]].running = rank[me[c]].running,
           rank'[me[c]].mutex = rank[me[c]].mutex,
           rank[me[c]].owner \in Poller =>
              rank'[me[c]].owner = rank[me[c]].owner /\ (rank[me[c]].dpus => rank'[me[c]].dpus),
           InList(c)' = InList(c), CallOf(c)', bits' \subseteq Number, NumbersExact'
    PROVE  IInv'
<1> DEFINE m == me[c]
<1>1. m \in Rank /\ rank[m].live /\ Holds(c, m) /\ m \notin owned[c]
  BY DEF IInv, TypeInv, HoldInv, Holds
<1>2. pc' \in [Client -> Label] /\ pc'[c] = l /\ \A d \in Client \ {c} : pc'[d] = pc[d]
  BY DEF IInv, TypeInv
<1>3. TypeInv'
  BY <1>2 DEF IInv, TypeInv, ranks
<1>4. HoldInv'
  <2>1. \A r \in Rank : rank'[r].live = rank[r].live
    OBVIOUS
  <2>2. \A r \in Rank : ~rank'[r].live => rank'[r] = Gone
    BY <1>1 DEF IInv, HoldInv
  <2>3. QED
    BY <1>2, <2>1, <2>2 DEF IInv, HoldInv, Holds
<1>5. CallInv'
  <2>1. SUFFICES ASSUME NEW d \in Client, d # c
                 PROVE  CallOf(d)'
    BY DEF CallInv
  <2>2. CallOf(d) /\ pc'[d] = pc[d]
    BY <1>2, <2>1 DEF IInv, CallInv
  <2>3. \A r \in Rank : Holds(d, r) => rank'[r] = rank[r]
    BY <1>1, <2>1 DEF IInv, HoldInv
  <2>4. \A r \in owned[d] : rank'[r] = rank[r]
    BY <2>3 DEF IInv, TypeInv, Holds
  <2>5. pc[d] # "idle" => rank'[me[d]] = rank[me[d]]
    BY <2>3 DEF IInv, TypeInv, HoldInv, Holds
  <2>6. QED
    BY <2>2, <2>4, <2>5 DEF CallOf, Outside
<1>6. \A d \in Client, r \in Rank : Added(d, r)' = Added(d, r)
  BY <1>2 DEF Added, InList
<1>7. ListInv'
  BY <1>6 DEF IInv, ListInv, TypeInv, ranks
<1>8. PollInv'
  <2>1. \A r \in Rank : rank'[r].mutex = rank[r].mutex /\ rank'[r].running = rank[r].running
    OBVIOUS
  <2>2. ASSUME NEW p \in Poller
        PROVE  PollOf(p)'
    <3>1. PollOf(p) /\ (poll[p].at \in {"try", "poll"} => poll[p].r \in Rank)
      BY DEF IInv, PollInv, PollOf, TypeInv, Walk
    <3>2. poll[p].at = "poll" => rank'[poll[p].r].owner = p /\ rank'[poll[p].r].dpus
      BY <3>1 DEF PollOf
    <3>3. QED
      BY <2>1, <3>1, <3>2 DEF PollOf, ranks
  <2>3. QED
    BY <2>1, <2>2 DEF PollInv, IInv
<1>9. QED
  BY <1>3, <1>4, <1>5, <1>7, <1>8 DEF IInv

(* dpu_get_next_rank_id takes a number that no rank has. *)
LEMMA NumberInv ==
    ASSUME IInv, NEW c \in Client, dpu_get_next_rank_id(c)
    PROVE  IInv'
<1> DEFINE m == me[c]
           n == Min(FreeNumbers)
<1>1. pc[c] = "number" /\ m \in Rank /\ phase[c] = "get" /\ rank[m].id = -1 /\ ~rank[m].backed
  BY DEF IInv, TypeInv, HoldInv, CallInv, CallOf, Outside, At, dpu_get_next_rank_id
<1>2. CASE FreeNumbers = {}
  BY <1>1, <1>2, MoveInv DEF dpu_get_next_rank_id, At, Goto, Outside, context
<1>3. CASE FreeNumbers # {}
  <2>1. n \in Number /\ n \notin bits /\ n # -1
    <3>1. FreeNumbers \in SUBSET Nat
      BY RankHandlerAssumption DEF FreeNumbers
    <3>2. n \in FreeNumbers
      BY <1>3, <3>1, MinIn
    <3>3. QED
      BY <3>1, <3>2 DEF FreeNumbers, Number
  <2>2. bits' = bits \cup {n} /\ pc' = [pc EXCEPT ![c] = "allocate"]
        /\ UNCHANGED <<ranks, me, phase, owned, poll>>
    BY <1>3 DEF dpu_get_next_rank_id, Goto
  <2> HIDE DEF n
  <2>3. rank' = [rank EXCEPT ![m] = [rank[m] EXCEPT !.id = n]]
    BY <1>3 DEF dpu_get_next_rank_id, n
  <2>4. rank[m] \in RankRecord /\ rank \in [Rank -> RankRecord]
    BY <1>1 DEF IInv, TypeInv
  <2>5. /\ rank' \in [Rank -> RankRecord]
        /\ rank'[m] = [rank[m] EXCEPT !.id = n] /\ \A r \in Rank \ {m} : rank'[r] = rank[r]
    BY <1>1, <2>1, <2>3, <2>4, Records
  <2>6. rank'[m].id = n /\ rank'[m].live = rank[m].live /\ rank'[m].dpus = rank[m].dpus
        /\ rank'[m].mutex = rank[m].mutex /\ rank'[m].owner = rank[m].owner
        /\ rank'[m].running = rank[m].running /\ rank'[m].backed = rank[m].backed
    BY <2>4, <2>5 DEF RankRecord
  <2>7. pc'[c] = "allocate"
    BY <2>2 DEF IInv, TypeInv
  <2>8. InList(c)' = InList(c)
    BY <1>1, <2>2, <2>7 DEF InList
  <2>9. CallOf(c)'
    <3>1. \A r \in owned[c] : r \in Rank \ {m}
      BY DEF IInv, TypeInv, HoldInv
    <3>2. QED
      BY <1>1, <2>1, <2>2, <2>5, <2>6, <2>7, <3>1 DEF IInv, CallInv, CallOf, Outside
  <2>10. NumbersExact'
    <3>1. bits = {rank[r].id : r \in Rank} \ {-1}
      BY DEF IInv, NumbersExact
    <3>2. ASSUME NEW x, x \in bits'
          PROVE  x # -1 /\ \E r \in Rank : rank'[r].id = x
      <4>1. CASE x = n
        BY <1>1, <2>1, <2>6, <4>1
      <4>2. CASE x \in bits
        BY <1>1, <2>5, <3>1, <4>2
      <4>3. QED
        BY <2>2, <3>2, <4>1, <4>2
    <3>3. ASSUME NEW r \in Rank, rank'[r].id # -1
          PROVE  rank'[r].id \in bits'
      BY <2>2, <2>5, <2>6, <3>1, <3>3
    <3>4. \A r \in Rank : rank[r].id # n
      BY <2>1, <3>1
    <3>5. bits' = {rank'[r].id : r \in Rank} \ {-1}
      BY <3>2, <3>3
    <3>6. \A r, s \in Rank : rank'[r].id = rank'[s].id /\ rank'[r].id # -1 => r = s
      <4>1. \A r, s \in Rank : rank[r].id = rank[s].id /\ rank[r].id # -1 => r = s
        BY DEF IInv, NumbersExact
      <4>2. \A r \in Rank : rank'[r].id = IF r = m THEN n ELSE rank[r].id
        BY <2>5, <2>6
      <4>3. QED
        BY <3>4, <4>1, <4>2
    <3>7. \A r \in Rank : rank'[r].backed => rank'[r].id \in bits'
      BY <1>1, <2>2, <2>5, <2>6 DEF IInv, NumbersExact
    <3>8. QED
      BY <3>5, <3>6, <3>7 DEF NumbersExact
  <2>11. bits' \subseteq Number
    BY <2>1, <2>2 DEF IInv, TypeInv
  <2>12. QED
    BY <1>1, <2>2, <2>5, <2>6, <2>8, <2>9, <2>10, <2>11, WriteInv DEF Label
<1>4. QED
  BY <1>2, <1>3

(* The backend has the rank. *)
LEMMA AllocateInv ==
    ASSUME IInv, NEW c \in Client, pc[c] = "allocate",
           rank' = [rank EXCEPT ![me[c]].dpus = TRUE, ![me[c]].backed = TRUE],
           pc' = [pc EXCEPT ![c] = "add"],
           UNCHANGED <<ranks, bits, me, phase, owned, poll>>
    PROVE  IInv'
<1> DEFINE m == me[c]
           x == [rank[m] EXCEPT !.dpus = TRUE, !.backed = TRUE]
<1>1. m \in Rank /\ rank[m].id # -1 /\ phase[c] = "get"
  BY DEF IInv, TypeInv, HoldInv, CallInv, CallOf
<1>2. rank[m] \in RankRecord /\ rank \in [Rank -> RankRecord]
  BY <1>1 DEF IInv, TypeInv
<1>3. rank' = [rank EXCEPT ![m] = x]
  BY <1>1, <1>2
<1>4. rank' \in [Rank -> RankRecord] /\ rank'[m] = x /\ \A r \in Rank \ {m} : rank'[r] = rank[r]
  BY <1>1, <1>2, <1>3, Records
<1>5. /\ rank'[m].id = rank[m].id /\ rank'[m].backed /\ rank'[m].live = rank[m].live
      /\ rank'[m].dpus /\ rank'[m].mutex = rank[m].mutex
      /\ rank'[m].owner = rank[m].owner /\ rank'[m].running = rank[m].running
  BY <1>2, <1>4 DEF RankRecord
<1>6. pc'[c] = "add"
  BY DEF IInv, TypeInv
<1>7. InList(c)' = InList(c)
  BY <1>6 DEF InList
<1>8. CallOf(c)'
  <2>1. \A r \in owned[c] : r \in Rank \ {m}
    BY DEF IInv, TypeInv, HoldInv
  <2>2. QED
    BY <1>1, <1>4, <1>5, <1>6, <2>1 DEF IInv, CallInv, CallOf, Outside
<1>9. NumbersExact'
  <2>1. \A r \in Rank : rank'[r].id = rank[r].id
    BY <1>4, <1>5
  <2>2. {rank'[r].id : r \in Rank} = {rank[r].id : r \in Rank}
    BY <2>1
  <2>3. rank[m].id \in bits
    BY <1>1 DEF IInv, NumbersExact
  <2>4. \A r \in Rank : rank'[r].backed => rank'[r].id \in bits
    BY <1>4, <2>1, <2>3 DEF IInv, NumbersExact
  <2>5. QED
    BY <2>1, <2>2, <2>4 DEF IInv, NumbersExact
<1>10. bits' \subseteq Number
  BY DEF IInv, TypeInv
<1>11. QED
  BY <1>4, <1>5, <1>7, <1>8, <1>9, <1>10, WriteInv DEF Label

(* dpu_release_rank_id where the backend gives the rank up. *)
LEMMA ReleaseInv ==
    ASSUME IInv, NEW c \in Client, pc[c] \in {"allocate", "free"},
           dpu_release_rank_id(me[c]), pc' = [pc EXCEPT ![c] = "put"],
           UNCHANGED <<ranks, me, phase, owned, poll>>
    PROVE  IInv'
<1> DEFINE m == me[c]
           x == [rank[m] EXCEPT !.id = -1, !.backed = FALSE]
<1>1. m \in Rank /\ Holds(c, m)
  BY DEF IInv, TypeInv, HoldInv, Holds
<1>2. rank[m] \in RankRecord /\ rank \in [Rank -> RankRecord]
  BY <1>1 DEF IInv, TypeInv
<1>3. rank' = [rank EXCEPT ![m] = x] /\ bits' = bits \ {rank[m].id}
  BY <1>1, <1>2 DEF dpu_release_rank_id
<1>4. rank' \in [Rank -> RankRecord] /\ rank'[m] = x /\ \A r \in Rank \ {m} : rank'[r] = rank[r]
  BY <1>1, <1>2, <1>3, Records
<1>5. /\ rank'[m].id = -1 /\ ~rank'[m].backed /\ rank'[m].live = rank[m].live
      /\ rank'[m].dpus = rank[m].dpus /\ rank'[m].mutex = rank[m].mutex
      /\ rank'[m].owner = rank[m].owner /\ rank'[m].running = rank[m].running
  BY <1>2, <1>4 DEF RankRecord
<1>6. pc'[c] = "put"
  BY DEF IInv, TypeInv
<1>7. InList(c)' = InList(c)
  BY <1>6 DEF InList
<1>8. CallOf(c)'
  <2>1. \A r \in owned[c] : r \in Rank \ {m}
    BY DEF IInv, TypeInv, HoldInv
  <2>2. QED
    BY <1>4, <1>5, <1>6, <2>1 DEF IInv, CallInv, CallOf, Outside
<1>9. NumbersExact'
  <2>1. /\ bits = {rank[r].id : r \in Rank} \ {-1}
        /\ \A r, s \in Rank : rank[r].id = rank[s].id /\ rank[r].id # -1 => r = s
    BY DEF IInv, NumbersExact
  <2>2. ASSUME NEW y, y \in bits'
        PROVE  y # -1 /\ \E r \in Rank : rank'[r].id = y
    BY <1>1, <1>3, <1>4, <2>1, <2>2
  <2>3. ASSUME NEW r \in Rank, rank'[r].id # -1
        PROVE  rank'[r].id \in bits'
    BY <1>1, <1>3, <1>4, <1>5, <2>1, <2>3
  <2>4. bits' = {rank'[r].id : r \in Rank} \ {-1}
    BY <2>2, <2>3
  <2>5. \A r, s \in Rank : rank'[r].id = rank'[s].id /\ rank'[r].id # -1 => r = s
    <3>1. \A r \in Rank : rank'[r].id = IF r = m THEN -1 ELSE rank[r].id
      BY <1>4, <1>5
    <3>2. QED
      BY <2>1, <3>1
  <2>6. \A r \in Rank : rank[r].backed => rank[r].id # -1
    BY DEF IInv, NumbersExact
  <2>7. \A r \in Rank : rank'[r].backed => rank'[r].id \in bits'
    BY <1>4, <1>5, <2>3, <2>6
  <2>8. QED
    BY <2>4, <2>5, <2>7 DEF NumbersExact
<1>10. bits' \subseteq Number
  BY <1>3 DEF IInv, TypeInv
<1>11. QED
  BY <1>4, <1>5, <1>7, <1>8, <1>9, <1>10, WriteInv DEF Label

(* dpu_free_rank takes the mutex of the rank. *)
LEMMA LockInv ==
    ASSUME IInv, NEW c \in Client, dpu_lock_rank(c)
    PROVE  IInv'
<1> DEFINE m == me[c]
           x == [rank[m] EXCEPT !.owner = c, !.dpus = FALSE]
<1>1. m \in Rank /\ pc[c] = "lock" /\ phase[c] = "free" /\ rank[m].owner = Null
  BY DEF IInv, TypeInv, HoldInv, CallInv, CallOf, dpu_lock_rank, At
<1>2. rank[m] \in RankRecord /\ rank \in [Rank -> RankRecord]
  BY <1>1 DEF IInv, TypeInv
<1>3. /\ rank' = [rank EXCEPT ![m] = x] /\ pc' = [pc EXCEPT ![c] = "remove"]
      /\ UNCHANGED <<ranks, bits, me, phase, owned, poll>>
  BY <1>1, <1>2 DEF dpu_lock_rank, Goto
<1>4. rank' \in [Rank -> RankRecord] /\ rank'[m] = x /\ \A r \in Rank \ {m} : rank'[r] = rank[r]
  BY <1>1, <1>2, <1>3, Records
<1>5. /\ rank'[m].id = rank[m].id /\ rank'[m].backed = rank[m].backed
      /\ rank'[m].live = rank[m].live /\ rank'[m].mutex = rank[m].mutex
      /\ rank'[m].owner = c /\ rank'[m].running = rank[m].running
  BY <1>2, <1>4 DEF RankRecord
<1>6. pc'[c] = "remove" /\ phase'[c] = "free" /\ me'[c] = m /\ owned'[c] = owned[c]
  BY <1>1, <1>3 DEF IInv, TypeInv
<1>7. InList(c)' = InList(c)
  BY <1>1, <1>6 DEF InList
<1>8. CallOf(c)'
  <2>1. \A r \in owned[c] : r \in Rank \ {m}
    BY DEF IInv, TypeInv, HoldInv
  <2>2. QED
    BY <1>4, <1>5, <1>6, <2>1 DEF IInv, CallInv, CallOf, Outside
<1>9. NumbersExact'
  BY <1>3, <1>4, <1>5, NumbersKept DEF IInv
<1>10. bits' \subseteq Number
  BY <1>3 DEF IInv, TypeInv
<1>11. QED
  BY <1>1, <1>3, <1>4, <1>5, <1>7, <1>8, <1>9, <1>10, RankHandlerAssumption, WriteInv DEF Label

(* calloc gives an address that nobody has. *)
LEMMA GetInv ==
    ASSUME IInv, NEW c \in Client, NEW m \in Rank, dpu_get_rank_of_type(c, m)
    PROVE  IInv'
<1>1. /\ pc[c] = "idle" /\ me[c] = Null /\ ~rank[m].live /\ rank[m] = Gone
      /\ \A d \in Client : ~Holds(d, m)
  BY DEF IInv, HoldInv, dpu_get_rank_of_type, At
<1>2. /\ Gone.id = -1 /\ Gone.backed = FALSE /\ Blank.live = TRUE /\ Blank.id = -1
      /\ Blank.backed = FALSE /\ Blank.running = FALSE
  BY DEF Gone, Blank
<1>3. /\ rank' \in [Rank -> RankRecord] /\ rank'[m] = Blank
      /\ \A r \in Rank \ {m} : rank'[r] = rank[r]
  BY Records DEF IInv, TypeInv, dpu_get_rank_of_type
<1>4. /\ pc' \in [Client -> Label] /\ me' \in [Client -> Rank \cup {Null}]
      /\ pc'[c] = "instantiate" /\ me'[c] = m
      /\ \A d \in Client \ {c} : pc'[d] = pc[d] /\ me'[d] = me[d] /\ phase'[d] = phase[d]
  BY DEF IInv, TypeInv, dpu_get_rank_of_type, Goto, Label
<1>5. phase' \in [Client -> {"probe", "get", "free"}]
  BY RankHandlerAssumption DEF IInv, TypeInv, dpu_get_rank_of_type
<1>6. UNCHANGED <<ranks, bits, owned, poll>>
  BY DEF dpu_get_rank_of_type
<1>7. TypeInv'
  BY <1>3, <1>4, <1>5, <1>6 DEF IInv, TypeInv, ranks
<1>8. \A d \in Client, r \in Rank : Holds(d, r)' <=> Holds(d, r) \/ (d = c /\ r = m)
  BY <1>1, <1>4, <1>6, RankHandlerAssumption DEF Holds
<1>9. HoldInv'
  <2>1. \A d \in Client : (pc'[d] = "idle" <=> me'[d] = Null) /\ me'[d] \notin owned'[d]
    <3>1. m \notin owned[c] /\ m # Null
      BY <1>1, RankHandlerAssumption DEF Holds
    <3>2. \A d \in Client : (pc[d] = "idle" <=> me[d] = Null) /\ me[d] \notin owned[d]
      BY DEF IInv, HoldInv
    <3>3. QED
      BY <1>4, <1>6, <3>1, <3>2
  <2>2. \A d, e \in Client, r \in Rank : Holds(d, r)' /\ Holds(e, r)' => d = e
    BY <1>1, <1>8 DEF IInv, HoldInv
  <2>3. \A d \in Client, r \in Rank : Holds(d, r)' => rank'[r].live
    BY <1>1, <1>2, <1>3, <1>8 DEF IInv, HoldInv
  <2>4. \A r \in Rank : ~rank'[r].live => rank'[r] = Gone
    BY <1>2, <1>3 DEF IInv, HoldInv
  <2>5. QED
    BY <2>1, <2>2, <2>3, <2>4 DEF HoldInv
<1>10. CallInv'
  <2>1. SUFFICES ASSUME NEW d \in Client
                 PROVE  CallOf(d)'
    BY DEF CallInv
  <2>2. CallOf(d) /\ \A r \in owned[d] : r \in Rank /\ rank'[r] = rank[r]
    BY <1>1, <1>3 DEF IInv, CallInv, TypeInv, Holds
  <2>3. CASE d = c
    BY <1>2, <1>3, <1>4, <1>6, <2>2, <2>3 DEF CallOf, Outside
  <2>4. CASE d # c
    <3>1. pc[d] # "idle" => me[d] \in Rank /\ rank'[me[d]] = rank[me[d]]
      BY <1>1, <1>3 DEF IInv, HoldInv, TypeInv, Holds
    <3>2. QED
      BY <1>4, <1>6, <2>2, <2>4, <3>1 DEF CallOf, Outside
  <2>5. QED
    BY <2>3, <2>4
<1>11. \A d \in Client, r \in Rank : Added(d, r)' = Added(d, r)
  BY <1>1, <1>4, <1>6 DEF Added, InList
<1>12. ListInv'
  BY <1>6, <1>11 DEF IInv, ListInv, TypeInv, ranks
<1>13. PollInv'
  <2>1. \A r \in Rank : rank'[r].running => rank'[r].mutex
    BY <1>2, <1>3 DEF IInv, PollInv
  <2>2. ASSUME NEW p \in Poller, poll[p].at \in {"try", "poll"}
        PROVE  rank'[poll[p].r] = rank[poll[p].r]
    BY <1>1, <1>3, <2>2, ListedHeld DEF IInv, PollInv, PollOf
  <2>3. QED
    BY <1>6, <2>1, <2>2 DEF IInv, PollInv, PollOf, ranks
<1>14. NumbersExact'
  BY <1>1, <1>2, <1>3, <1>6, NumbersKept DEF IInv
<1>15. QED
  BY <1>7, <1>9, <1>10, <1>12, <1>13, <1>14 DEF IInv

(* Who has the rank that is freed has not changed. *)
LEMMA FreeRankInv ==
    ASSUME IInv, NEW c \in Client, NEW m \in Rank, dpu_free_rank(c, m)
    PROVE  IInv'
<1>1. /\ pc[c] = "idle" /\ me[c] = Null /\ m \in owned[c] /\ m # Null
      /\ rank[m].dpus
  BY RankHandlerAssumption DEF IInv, HoldInv, CallInv, CallOf, dpu_free_rank, At
<1>2. /\ pc' \in [Client -> Label] /\ me' \in [Client -> Rank \cup {Null}]
      /\ phase' \in [Client -> {"probe", "get", "free"}] /\ owned' \in [Client -> SUBSET Rank]
      /\ pc'[c] = "lock" /\ me'[c] = m /\ phase'[c] = "free" /\ owned'[c] = owned[c] \ {m}
      /\ \A d \in Client \ {c} : /\ pc'[d] = pc[d] /\ me'[d] = me[d] /\ phase'[d] = phase[d]
                                 /\ owned'[d] = owned[d]
  BY DEF IInv, TypeInv, dpu_free_rank, Goto, Label
<1>3. UNCHANGED <<ranks, bits, rank, poll>>
  BY DEF dpu_free_rank
<1>4. TypeInv'
  BY <1>2, <1>3 DEF IInv, TypeInv, ranks
<1>5. \A d \in Client, r \in Rank : Holds(d, r)' = Holds(d, r)
  BY <1>1, <1>2, RankHandlerAssumption DEF Holds
<1>6. HoldInv'
  <2>1. \A d \in Client : (pc'[d] = "idle" <=> me'[d] = Null) /\ me'[d] \notin owned'[d]
    BY <1>1, <1>2 DEF IInv, HoldInv
  <2>2. QED
    BY <1>3, <1>5, <2>1 DEF IInv, HoldInv
<1>7. CallInv'
  BY <1>1, <1>2, <1>3 DEF IInv, CallInv, CallOf, Outside
<1>8. \A d \in Client, r \in Rank : Added(d, r)' = Added(d, r)
  BY <1>1, <1>2, RankHandlerAssumption DEF Added, InList
<1>9. ListInv'
  BY <1>3, <1>8 DEF IInv, ListInv, TypeInv, ranks
<1>10. PollInv' /\ NumbersExact'
  BY <1>3 DEF IInv, PollInv, PollOf, NumbersExact, ranks
<1>11. QED
  BY <1>4, <1>6, <1>7, <1>9, <1>10 DEF IInv

(* The rank is returned to the client that allocated it. *)
LEMMA FinishInv ==
    ASSUME IInv, EarlyFaultsOnly, NEW c \in Client, Finish(c)
    PROVE  IInv'
<1> DEFINE m == me[c]
           x == [rank[m] EXCEPT !.mutex = TRUE]
<1>1. /\ pc[c] = "finish" /\ m \in Rank /\ rank[m].live /\ rank[m].dpus /\ phase[c] = "get"
      /\ m \notin owned[c]
  BY DEF IInv, TypeInv, HoldInv, Holds, CallInv, CallOf, Finish, At
<1>2. rank[m] \in RankRecord /\ rank \in [Rank -> RankRecord]
  BY <1>1 DEF IInv, TypeInv
<1>3. /\ rank' = [rank EXCEPT ![m] = x]
      /\ owned' = [owned EXCEPT ![c] = owned[c] \cup {m}]
      /\ me' = [me EXCEPT ![c] = Null]
      /\ pc' = [pc EXCEPT ![c] = "idle"]
      /\ UNCHANGED <<ranks, bits, phase, poll>>
  BY <1>1, <1>2 DEF Finish, Goto, EarlyFaultsOnly, IInv, TypeInv
<1>4. rank' \in [Rank -> RankRecord] /\ rank'[m] = x /\ \A r \in Rank \ {m} : rank'[r] = rank[r]
  BY <1>1, <1>2, <1>3, Records
<1>5. /\ rank'[m].id = rank[m].id /\ rank'[m].backed = rank[m].backed
      /\ rank'[m].live = rank[m].live /\ rank'[m].dpus = rank[m].dpus
      /\ rank'[m].mutex /\ rank'[m].owner = rank[m].owner
  BY <1>2, <1>4 DEF RankRecord
<1>6. /\ pc' \in [Client -> Label] /\ me' \in [Client -> Rank \cup {Null}]
      /\ owned' \in [Client -> SUBSET Rank]
      /\ pc'[c] = "idle" /\ me'[c] = Null /\ owned'[c] = owned[c] \cup {m}
      /\ \A d \in Client \ {c} : pc'[d] = pc[d] /\ me'[d] = me[d] /\ owned'[d] = owned[d]
  BY <1>1, <1>3 DEF IInv, TypeInv, Label
<1>7. TypeInv'
  BY <1>3, <1>4, <1>6 DEF IInv, TypeInv, ranks
<1>8. \A d \in Client, r \in Rank : Holds(d, r)' = Holds(d, r)
  BY <1>6, RankHandlerAssumption DEF Holds
<1>9. HoldInv'
  <2>1. Null \notin owned'[c]
    BY <1>1, <1>6, RankHandlerAssumption
  <2>2. \A d \in Client : (pc'[d] = "idle" <=> me'[d] = Null) /\ me'[d] \notin owned'[d]
    BY <1>6, <2>1 DEF IInv, HoldInv
  <2>3. \A r \in Rank : rank'[r].live = rank[r].live
    BY <1>4, <1>5
  <2>4. \A r \in Rank : ~rank'[r].live => rank'[r] = Gone
    BY <1>1, <1>4, <1>5 DEF IInv, HoldInv
  <2>5. QED
    BY <1>8, <2>2, <2>3, <2>4 DEF IInv, HoldInv
<1>10. CallInv'
  <2>1. SUFFICES ASSUME NEW d \in Client
                 PROVE  CallOf(d)'
    BY DEF CallInv
  <2>2. CallOf(d) /\ owned[d] \subseteq Rank
    BY DEF IInv, CallInv, TypeInv
  <2>3. CASE d = c
    BY <1>1, <1>4, <1>5, <1>6, <2>2, <2>3 DEF CallOf, Outside
  <2>4. CASE d # c
    <3>1. pc[d] # "idle" => me[d] \in Rank \ {m}
      BY <1>1, <2>4 DEF IInv, HoldInv, TypeInv, Holds
    <3>2. \A r \in owned[d] : r \in Rank \ {m}
      BY <1>1, <2>2, <2>4 DEF IInv, HoldInv, Holds
    <3>3. QED
      BY <1>3, <1>4, <1>6, <2>2, <2>4, <3>1, <3>2 DEF CallOf, Outside
  <2>5. QED
    BY <2>3, <2>4
<1>11. \A d \in Client, r \in Rank : Added(d, r)' = Added(d, r)
  BY <1>1, <1>3, <1>6, RankHandlerAssumption DEF Added, InList
<1>12. ListInv'
  BY <1>3, <1>11 DEF IInv, ListInv, TypeInv, ranks
<1>13. PollInv'
  <2>1. \A r \in Rank : rank'[r].running => rank'[r].mutex
    BY <1>4, <1>5 DEF IInv, PollInv
  <2>2. \A r \in Rank : /\ rank'[r].owner = rank[r].owner /\ rank'[r].dpus = rank[r].dpus
                        /\ (rank[r].mutex => rank'[r].mutex)
    BY <1>4, <1>5
  <2>3. \A p \in Poller : poll[p].at \in {"try", "poll"} => poll[p].r \in Rank
    BY DEF IInv, PollInv, PollOf, TypeInv, Walk
  <2>4. QED
    BY <1>3, <2>1, <2>2, <2>3 DEF IInv, PollInv, PollOf, ranks
<1>14. NumbersExact'
  BY <1>3, <1>4, <1>5, NumbersKept DEF IInv
<1>15. QED
  BY <1>7, <1>9, <1>10, <1>12, <1>13, <1>14 DEF IInv

(* The list grows at its end, by empty slots. *)
LEMMA GrownEffect ==
    ASSUME NEW X, NEW e \in Seq(X), Null \in X
    PROVE  /\ Grown(e) \in Seq(X)
           /\ DOMAIN Grown(e) = 1..(Len(e) + Len(e) + 1)
           /\ \A i \in 1..Len(e) : Grown(e)[i] = e[i]
           /\ \A i \in (Len(e) + 1)..(Len(e) + Len(e) + 1) : Grown(e)[i] = Null
<1> DEFINE g == [i \in 1..Len(e) + 1 |-> Null]
<1>1. g \in Seq(X) /\ Len(g) = Len(e) + 1 /\ \A i \in 1..Len(g) : g[i] = Null
  OBVIOUS
<1>2. Grown(e) = e \o g /\ Len(e) \in Nat
  BY DEF Grown
<1> HIDE DEF g
<1>3. /\ e \o g \in Seq(X) /\ Len(e \o g) = Len(e) + Len(g)
      /\ \A i \in 1..Len(e) : (e \o g)[i] = e[i]
      /\ \A i \in (Len(e) + 1)..(Len(e) + Len(g)) : (e \o g)[i] = g[i - Len(e)]
  BY <1>1, ConcatProperties
<1>4. \A i \in (Len(e) + 1)..(Len(e) + Len(g)) : (e \o g)[i] = Null
  BY <1>1, <1>2, <1>3
<1>5. DOMAIN (e \o g) = 1..(Len(e) + Len(e) + 1)
  BY <1>1, <1>2, <1>3
<1>6. QED
  BY <1>1, <1>2, <1>3, <1>4, <1>5

(* What dpu_rank_list_add makes of the list once it has the rank. *)
LEMMA AddEffect ==
    ASSUME NEW X, NEW l \in Seq(X), Null \in X,
           NEW f, f = IF EmptySlots(l) # {} THEN l ELSE Grown(l)
    PROVE  /\ f \in Seq(X)
           /\ \A i \in DOMAIN l : i \in DOMAIN f /\ f[i] = l[i]
           /\ \A i \in DOMAIN f \ DOMAIN l : f[i] = Null
           /\ NextSlot(l) \in DOMAIN f /\ f[NextSlot(l)] = Null
<1>1. Len(l) \in Nat /\ DOMAIN l = 1..Len(l)
  BY LenProperties
<1>2. CASE EmptySlots(l) # {}
  <2>1. EmptySlots(l) \in SUBSET Nat
    BY <1>1 DEF EmptySlots
  <2>2. Min(EmptySlots(l)) \in EmptySlots(l)
    BY <1>2, <2>1, MinIn
  <2>3. QED
    BY <1>1, <1>2, <2>2 DEF EmptySlots, NextSlot
<1>3. CASE EmptySlots(l) = {}
  <2>1. f = Grown(l) /\ NextSlot(l) = Len(l) + 1
    BY <1>3 DEF NextSlot
  <2>2. QED
    BY <1>1, <2>1, GrownEffect
<1>4. QED
  BY <1>2, <1>3

(* The rank enters the list while no polling thread walks it. *)
LEMMA AddInv ==
    ASSUME IInv, EarlyFaultsOnly, NEW c \in Client, dpu_rank_list_add(c)
    PROVE  IInv'
<1>1. PICK m \in Rank :
           /\ m = me[c] /\ pc[c] = "add" /\ m # Null /\ phase[c] = "get" /\ ~InList(c)
           /\ rank[m].dpus /\ Holds(c, m) /\ m \notin owned[c]
  BY RankHandlerAssumption
     DEF IInv, TypeInv, HoldInv, Holds, CallInv, CallOf, dpu_rank_list_add, At, InList
<1>2. /\ pc' = [pc EXCEPT ![c] = "finish"] /\ exclusively
      /\ UNCHANGED <<bits, rank, me, phase, owned, poll>>
  BY DEF dpu_rank_list_add, Goto, EarlyFaultsOnly
<1>3. /\ list' \in Seq(Rank \cup {Null})
      /\ next \in DOMAIN list' /\ list'[next] = m
      /\ \A i \in DOMAIN list \ {next} : i \in DOMAIN list' /\ list'[i] = list[i]
      /\ \A i \in DOMAIN list' \ DOMAIN list : list'[i] = Null
      /\ next' \in DOMAIN list' /\ list'[next'] = Null
  <2> DEFINE l == [list EXCEPT ![next] = m]
  <2>1. list' = (IF EmptySlots(l) # {} THEN l ELSE Grown(l)) /\ next' = NextSlot(l)
    BY <1>1 DEF dpu_rank_list_add, EarlyFaultsOnly
  <2>2. list \in Seq(Rank \cup {Null}) /\ next \in DOMAIN list
    BY DEF IInv, TypeInv, ListInv
  <2>3. /\ l \in Seq(Rank \cup {Null}) /\ DOMAIN l = DOMAIN list
        /\ l[next] = m /\ \A i \in DOMAIN list \ {next} : l[i] = list[i]
    BY <2>2, ExceptSeq
  <2> HIDE DEF l
  <2>4. /\ list' \in Seq(Rank \cup {Null})
        /\ \A i \in DOMAIN l : i \in DOMAIN list' /\ list'[i] = l[i]
        /\ \A i \in DOMAIN list' \ DOMAIN l : list'[i] = Null
        /\ NextSlot(l) \in DOMAIN list' /\ list'[NextSlot(l)] = Null
    BY <2>1, <2>3, AddEffect
  <2>5. QED
    BY <2>1, <2>2, <2>3, <2>4
<1>4. pc' \in [Client -> Label] /\ pc'[c] = "finish" /\ \A d \in Client \ {c} : pc'[d] = pc[d]
  BY <1>2 DEF IInv, TypeInv, Label
<1>5. TypeInv'
  BY <1>2, <1>3, <1>4 DEF IInv, TypeInv
<1>6. HoldInv'
  BY <1>1, <1>2, <1>4 DEF IInv, HoldInv, Holds
<1>7. CallInv'
  BY <1>1, <1>2, <1>4 DEF IInv, CallInv, CallOf, Outside
<1>8. \A d \in Client, r \in Rank : Added(d, r)' <=> Added(d, r) \/ (d = c /\ r = m)
  BY <1>1, <1>2, <1>4 DEF Added, InList
<1>9. \A i \in DOMAIN list : list[i] # m
  BY <1>1, ListedHeld
<1>10. ListInv'
  <2>1. list[next] = Null /\ next \in DOMAIN list
    BY DEF IInv, ListInv
  <2>2. \A i \in DOMAIN list' :
           list'[i] # Null => \/ i = next /\ list'[i] = m
                              \/ i \in DOMAIN list \ {next} /\ list'[i] = list[i]
    BY <1>3
  <2>3. \A i, j \in DOMAIN list' : list'[i] = list'[j] /\ list'[i] # Null => i = j
    BY <1>9, <2>2 DEF IInv, ListInv
  <2>4. \A i \in DOMAIN list' : list'[i] # Null => \E d \in Client : Added(d, list[i])'
    <3>1. SUFFICES ASSUME NEW i \in DOMAIN list', list'[i] # Null
                   PROVE  \E d \in Client : Added(d, list[i])'
      OBVIOUS
    <3>2. CASE list'[i] = m
      BY <1>1, <1>2, <1>4, <3>2 DEF Added, InList
    <3>3. CASE i \in DOMAIN list /\ list'[i] = list[i]
      <4>1. PICK d \in Client : Added(d, list[i])
        BY <3>1, <3>3 DEF IInv, ListInv
      <4>2. PICK r \in Rank : r = list[i]
        BY <3>1, <3>3, ListedHeld
      <4>3. Added(d, r)'
        BY <1>8, <4>1, <4>2
      <4>4. QED
        BY <3>3, <4>2, <4>3 DEF Added
    <3>4. QED
      BY <2>2, <3>1, <3>2, <3>3
  <2>5. \A d \in Client, r \in Rank : Added(d, r)' => \E i \in DOMAIN list' : list'[i] = r
    <3>1. SUFFICES ASSUME NEW d \in Client, NEW r \in Rank, Added(d, r)'
                   PROVE  \E i \in DOMAIN list' : list'[i] = r
      OBVIOUS
    <3>2. CASE r = m
      BY <1>3, <3>2
    <3>3. CASE Added(d, r)
      <4>1. PICK i \in DOMAIN list : list[i] = r
        BY <3>3 DEF IInv, ListInv
      <4>2. i # next
        BY <2>1, <4>1, RankHandlerAssumption
      <4>3. QED
        BY <1>3, <4>1, <4>2
    <3>4. QED
      BY <1>8, <3>1, <3>2, <3>3
  <2>6. QED
    BY <1>3, <2>3, <2>4, <2>5 DEF ListInv
<1>11. PollInv' /\ NumbersExact'
  BY <1>2 DEF IInv, PollInv, PollOf, NumbersExact, exclusively
<1>12. QED
  BY <1>5, <1>6, <1>7, <1>10, <1>11 DEF IInv

(* The rank leaves the list while no polling thread walks it. *)
LEMMA RemoveInv ==
    ASSUME IInv, NEW c \in Client, dpu_rank_list_remove(c)
    PROVE  IInv'
<1>1. PICK m \in Rank :
           /\ m = me[c] /\ pc[c] = "remove" /\ m # Null /\ phase[c] = "free"
           /\ Holds(c, m) /\ m \notin owned[c] /\ Added(c, m)
  BY RankHandlerAssumption
     DEF IInv, TypeInv, HoldInv, Holds, CallInv, CallOf, dpu_rank_list_remove, At, InList, Added
<1>2. /\ pc' = [pc EXCEPT ![c] = "free"] /\ exclusively
      /\ UNCHANGED <<next, bits, rank, me, phase, owned, poll>>
  BY DEF dpu_rank_list_remove, Goto
<1>3. PICK k \in DOMAIN list :
           /\ list[k] = m /\ list' \in Seq(Rank \cup {Null}) /\ DOMAIN list' = DOMAIN list
           /\ list'[k] = Null /\ \A i \in DOMAIN list \ {k} : list'[i] = list[i]
  <2> DEFINE slots == {i \in DOMAIN list : list[i] = m}
  <2>1. slots # {}
    BY <1>1 DEF IInv, ListInv
  <2>2. slots \in SUBSET Nat /\ list \in Seq(Rank \cup {Null})
    BY DEF IInv, TypeInv
  <2>3. Min(slots) \in slots
    BY <2>1, <2>2, MinIn
  <2>4. slots = {i \in DOMAIN list : list[i] = me[c]}
    BY <1>1
  <2>5. Min(slots) \in DOMAIN list /\ list[Min(slots)] = m
    BY <2>3
  <2> HIDE DEF slots
  <2>6. list' = [list EXCEPT ![Min(slots)] = Null]
    BY <2>1, <2>4 DEF dpu_rank_list_remove
  <2>7. QED
    BY <2>2, <2>5, <2>6, ExceptSeq
<1>4. pc' \in [Client -> Label] /\ pc'[c] = "free" /\ \A d \in Client \ {c} : pc'[d] = pc[d]
  BY <1>2 DEF IInv, TypeInv, Label
<1>5. TypeInv'
  BY <1>2, <1>3, <1>4 DEF IInv, TypeInv
<1>6. HoldInv'
  BY <1>1, <1>2, <1>4 DEF IInv, HoldInv, Holds
<1>7. CallInv'
  BY <1>1, <1>2, <1>4 DEF IInv, CallInv, CallOf, Outside
<1>8. \A d \in Client, r \in Rank : Added(d, r)' <=> Added(d, r) /\ r # m
  <2>1. SUFFICES ASSUME NEW d \in Client, NEW r \in Rank
                 PROVE  Added(d, r)' <=> Added(d, r) /\ r # m
    OBVIOUS
  <2>2. CASE d = c
    BY <1>1, <1>2, <1>4, <2>2 DEF Added, InList
  <2>3. CASE d # c
    <3>1. Added(d, r)' = Added(d, r)
      BY <1>2, <1>4, <2>3 DEF Added, InList
    <3>2. Added(d, r) => r # m
      BY <1>1, <2>3 DEF Added, Holds, IInv, HoldInv
    <3>3. QED
      BY <3>1, <3>2
  <2>4. QED
    BY <2>2, <2>3
<1>9. ListInv'
  <2>1. \A i \in DOMAIN list \ {k} : list[i] # m
    BY <1>1, <1>3 DEF IInv, ListInv
  <2>2. next' \in DOMAIN list' /\ list'[next'] = Null
    BY <1>1, <1>2, <1>3 DEF IInv, ListInv
  <2>3. \A i, j \in DOMAIN list' : list'[i] = list'[j] /\ list'[i] # Null => i = j
    BY <1>3 DEF IInv, ListInv
  <2>4. \A i \in DOMAIN list' : list'[i] # Null => \E d \in Client : Added(d, list[i])'
    <3>1. SUFFICES ASSUME NEW i \in DOMAIN list \ {k}, list[i] # Null, list'[i] = list[i]
                   PROVE  \E d \in Client : Added(d, list[i])'
      BY <1>3
    <3>2. PICK r \in Rank : r = list[i] /\ r # m
      BY <2>1, <3>1, ListedHeld
    <3>3. PICK d \in Client : Added(d, r)
      BY <3>1, <3>2 DEF IInv, ListInv
    <3>4. Added(d, r)'
      BY <1>8, <3>2, <3>3
    <3>5. QED
      BY <3>1, <3>2, <3>4 DEF Added
  <2>5. \A d \in Client, r \in Rank : Added(d, r)' => \E i \in DOMAIN list' : list'[i] = r
    <3>1. SUFFICES ASSUME NEW d \in Client, NEW r \in Rank, Added(d, r), r # m
                   PROVE  \E i \in DOMAIN list' : list'[i] = r
      BY <1>8
    <3>2. PICK i \in DOMAIN list : list[i] = r
      BY <3>1 DEF IInv, ListInv
    <3>3. QED
      BY <1>3, <3>1, <3>2
  <2>6. QED
    BY <2>2, <2>3, <2>4, <2>5 DEF ListInv
<1>10. PollInv' /\ NumbersExact'
  BY <1>2 DEF IInv, PollInv, PollOf, NumbersExact, exclusively
<1>11. QED
  BY <1>5, <1>6, <1>7, <1>9, <1>10 DEF IInv

(* What neither the clients nor the list depend on: the owner of the mutex *)
(* and whether DPUs run, of one rank.                                      *)
LEMMA MutexInv ==
    ASSUME IInv, NEW m \in Rank, NEW x \in RankRecord,
           rank' = [rank EXCEPT ![m] = x],
           x.live = rank[m].live, rank[m].live, x.dpus = rank[m].dpus, x.mutex = rank[m].mutex,
           x.id = rank[m].id, x.backed = rank[m].backed,
           rank[m].owner \in Client => x.owner = rank[m].owner,
           x.running => x.mutex,
           poll' \in [Poller -> Walk],
           \A p \in Poller : PollOf(p)',
           UNCHANGED <<ranks, bits, pc, me, phase, owned>>
    PROVE  IInv'
<1>1. /\ rank' \in [Rank -> RankRecord] /\ rank'[m] = x
      /\ \A r \in Rank \ {m} : rank'[r] = rank[r]
  BY DEF IInv, TypeInv
<1>2. TypeInv'
  BY <1>1 DEF IInv, TypeInv, ranks
<1>3. HoldInv'
  <2>1. \A r \in Rank : rank'[r].live = rank[r].live /\ (~rank'[r].live => rank'[r] = rank[r])
    BY <1>1
  <2>2. QED
    BY <2>1 DEF IInv, HoldInv, Holds
<1>4. CallInv'
  <2>1. SUFFICES ASSUME NEW c \in Client
                 PROVE  CallOf(c)'
    BY DEF CallInv
  <2>2. \A r \in Rank : /\ rank'[r].id = rank[r].id /\ rank'[r].backed = rank[r].backed
                        /\ rank'[r].dpus = rank[r].dpus /\ rank'[r].mutex = rank[r].mutex
                        /\ (rank[r].owner = c => rank'[r].owner = c)
    BY <1>1
  <2>3. CallOf(c) /\ owned[c] \subseteq Rank /\ (pc[c] # "idle" => me[c] \in Rank)
    BY DEF IInv, CallInv, TypeInv, HoldInv
  <2>4. QED
    BY <2>2, <2>3 DEF CallOf, Outside
<1>5. \A c \in Client, r \in Rank : Added(c, r)' = Added(c, r)
  BY DEF Added, InList
<1>6. ListInv'
  BY <1>5 DEF IInv, ListInv, TypeInv, ranks
<1>7. PollInv'
  BY <1>1 DEF IInv, PollInv
<1>8. NumbersExact'
  BY <1>1, NumbersKept DEF IInv
<1>9. QED
  BY <1>2, <1>3, <1>4, <1>6, <1>7, <1>8 DEF IInv

(* The user of a rank starts its DPUs. *)
LEMMA LaunchInv ==
    ASSUME IInv, NEW c \in Client, NEW m \in Rank, Launch(c, m)
    PROVE  IInv'
<1> DEFINE x == [rank[m] EXCEPT !.running = TRUE]
<1>1. rank[m].mutex /\ rank[m].live
  BY DEF Launch, IInv, CallInv, CallOf, HoldInv, Holds
<1>2. rank[m] \in RankRecord
  BY DEF IInv, TypeInv
<1>3. /\ x \in RankRecord
      /\ x.live = rank[m].live /\ x.dpus = rank[m].dpus /\ x.mutex = rank[m].mutex
      /\ x.id = rank[m].id /\ x.backed = rank[m].backed /\ x.owner = rank[m].owner
  <2>1. x \in RankRecord
    BY <1>2, Records
  <2>2. QED
    BY <1>2, <2>1 DEF RankRecord
<1>4. rank' = [rank EXCEPT ![m] = x] /\ UNCHANGED <<ranks, bits, clients, poll>>
  BY DEF Launch
<1> HIDE DEF x
<1>5. /\ rank'[m] = x /\ \A r \in Rank \ {m} : rank'[r] = rank[r]
  BY <1>4 DEF IInv, TypeInv
<1>6. \A p \in Poller : PollOf(p)'
  <2>1. \A r \in Rank : /\ rank'[r].owner = rank[r].owner /\ rank'[r].dpus = rank[r].dpus
                        /\ rank'[r].mutex = rank[r].mutex
    BY <1>3, <1>5
  <2>2. \A p \in Poller : poll[p].at \in {"try", "poll"} => poll[p].r \in Rank
    BY DEF IInv, PollInv, PollOf, TypeInv, Walk
  <2>3. QED
    BY <1>4, <2>1, <2>2 DEF IInv, PollInv, PollOf, ranks
<1>7. UNCHANGED <<ranks, bits, pc, me, phase, owned>>
  BY <1>4 DEF clients
<1>8. poll' \in [Poller -> Walk]
  BY <1>4 DEF IInv, TypeInv
<1>9. x.running => x.mutex
  BY <1>1, <1>3
<1>10. QED
  BY <1>1, <1>3, <1>4, <1>6, <1>7, <1>8, <1>9, MutexInv

(* A walk goes on at an entry that holds a rank, or ends. *)
LEMMA EntryEffect ==
    ASSUME IInv, NEW k \in Nat
    PROVE  /\ EntryFrom(k) \in Walk /\ EntryFrom(k).at = "look"
           /\ EntryFrom(k).i # 0 =>
                 EntryFrom(k).i \in DOMAIN list /\ list[EntryFrom(k).i] # Null
<1> DEFINE slots == {j \in DOMAIN list : j >= k /\ list[j] # Null}
<1>1. slots \in SUBSET Nat
  BY DEF IInv, TypeInv
<1>2. slots # {} => Min(slots) \in slots
  BY <1>1, MinIn
<1>3. slots # {} => Min(slots) \in DOMAIN list /\ list[Min(slots)] # Null /\ Min(slots) \in Nat
  BY <1>1, <1>2
<1>4. EntryFrom(k) = [at |-> "look", i |-> IF slots = {} THEN 0 ELSE Min(slots), r |-> Null]
  BY DEF EntryFrom
<1> HIDE DEF slots
<1>5. QED
  BY <1>3, <1>4 DEF Walk

(* A polling thread moves along the list. *)
LEMMA WalkInv ==
    ASSUME IInv, NEW p \in Poller, NEW e \in Walk,
           poll' = [poll EXCEPT ![p] = e],
           e.at = "look" /\ e.i # 0 => e.i \in DOMAIN list /\ list[e.i] # Null,
           e.at \in {"try", "poll"} =>
              /\ e.i \in DOMAIN list /\ e.r # Null /\ list[e.i] = e.r /\ rank[e.r].mutex,
           e.at # "poll",
           UNCHANGED <<ranks, bits, rank, pc, me, phase, owned>>
    PROVE  IInv'
<1>1. poll' \in [Poller -> Walk] /\ poll'[p] = e /\ \A q \in Poller \ {p} : poll'[q] = poll[q]
  BY DEF IInv, TypeInv
<1>2. \A q \in Poller : PollOf(q)'
  BY <1>1 DEF IInv, PollInv, PollOf, ranks
<1>3. TypeInv'
  BY <1>1 DEF IInv, TypeInv, ranks
<1>4. HoldInv' /\ CallInv' /\ NumbersExact'
  BY DEF IInv, HoldInv, Holds, CallInv, CallOf, NumbersExact
<1>5. \A c \in Client, r \in Rank : Added(c, r)' = Added(c, r)
  BY DEF Added, InList
<1>6. ListInv'
  BY <1>5 DEF IInv, ListInv, TypeInv, ranks
<1>7. PollInv'
  BY <1>2 DEF IInv, PollInv
<1>8. QED
  BY <1>3, <1>4, <1>6, <1>7 DEF IInv

(* The steps of a polling thread that change no rank. *)
LEMMA NextEntryInv ==
    ASSUME IInv, NEW p \in Poller, poll' = [poll EXCEPT ![p] = NextEntry(p)],
           UNCHANGED <<ranks, bits, rank, clients>>
    PROVE  IInv'
<1>1. poll[p].i + 1 \in Nat
  BY DEF IInv, TypeInv, Walk
<1>2. QED
  BY <1>1, EntryEffect, WalkInv DEF NextEntry, clients

(* A rank whose mutex is free is polled: its DPUs are still there, for     *)
(* dpu_free_rank owns the mutex when it frees them.                        *)
LEMMA TryLockInv ==
    ASSUME IInv, NEW p \in Poller, TryLock(p)
    PROVE  IInv'
<1>1. PICK m \in Rank :
           /\ m = poll[p].r /\ m # Null /\ poll[p].i \in DOMAIN list /\ list[poll[p].i] = m
           /\ rank[m].mutex /\ poll[p].at = "try"
  BY DEF IInv, PollInv, PollOf, TypeInv, Walk, TryLock
<1>2. UNCHANGED <<ranks, bits, clients>>
  BY DEF TryLock
<1>3. CASE rank[m].owner = Null
  <2> DEFINE x == [rank[m] EXCEPT !.owner = p]
             e == [poll[p] EXCEPT !.at = "poll"]
  <2>1. rank' = [rank EXCEPT ![m] = x] /\ poll' = [poll EXCEPT ![p] = e]
    BY <1>1, <1>3 DEF TryLock
  <2>2. rank[m].live /\ rank[m].dpus
    <3>1. rank[m].live
      BY <1>1, ListedHeld
    <3>2. PICK c \in Client : Added(c, m)
      BY <1>1 DEF IInv, ListInv
    <3>3. CASE m \in owned[c]
      BY <3>1, <3>3 DEF IInv, CallInv, CallOf
    <3>4. CASE InList(c) /\ me[c] = m
      <4>1. pc[c] # "remove"
        BY <1>3, <3>4, RankHandlerAssumption DEF IInv, CallInv, CallOf
      <4>2. pc[c] \in {"finish", "lock"}
        BY <3>4, <4>1 DEF InList
      <4>3. QED
        BY <3>1, <3>4, <4>2 DEF IInv, CallInv, CallOf
    <3>5. QED
      BY <3>2, <3>3, <3>4 DEF Added
  <2>3. rank[m] \in RankRecord /\ poll[p] \in Walk
    BY DEF IInv, TypeInv
  <2>4. x \in RankRecord
    BY <2>3, Records
  <2>5. /\ x.live = rank[m].live /\ x.dpus = rank[m].dpus /\ x.mutex = rank[m].mutex
        /\ x.id = rank[m].id /\ x.backed = rank[m].backed /\ x.running = rank[m].running
        /\ x.owner = p
    BY <2>3 DEF RankRecord
  <2>6. e \in Walk /\ e.at = "poll" /\ e.i = poll[p].i /\ e.r = poll[p].r
    BY <2>3 DEF Walk
  <2> HIDE DEF x, e
  <2>7. /\ poll' \in [Poller -> Walk] /\ poll'[p] = e
        /\ \A q \in Poller \ {p} : poll'[q] = poll[q]
        /\ rank'[m] = x /\ \A r \in Rank \ {m} : rank'[r] = rank[r]
    BY <2>1, <2>6 DEF IInv, TypeInv
  <2>8. ASSUME NEW q \in Poller
        PROVE  PollOf(q)'
    <3>1. CASE q = p
      BY ZenonT(60), <1>1, <1>2, <2>2, <2>5, <2>6, <2>7, <3>1 DEF PollOf, ranks
    <3>2. CASE q # p
      <4>1. PollOf(q) /\ (poll[q].at \in {"try", "poll"} => poll[q].r \in Rank)
        BY DEF IInv, PollInv, PollOf, TypeInv, Walk
      <4>2. poll[q].at = "poll" => poll[q].r # m
        BY <1>3, <4>1, RankHandlerAssumption DEF PollOf
      <4>3. poll[q].at \in {"try", "poll"} => rank'[poll[q].r].mutex
        BY <2>5, <2>7, <4>1 DEF PollOf
      <4>4. QED
        BY <1>2, <2>7, <3>2, <4>1, <4>2, <4>3 DEF PollOf, ranks
    <3>3. QED
      BY <3>1, <3>2
  <2>9. x.running => x.mutex
    BY <1>1, <2>5
  <2>10. ~(rank[m].owner \in Client)
    BY <1>3, RankHandlerAssumption
  <2>11. QED
    BY <1>2, <2>1, <2>2, <2>4, <2>5, <2>7, <2>8, <2>9, <2>10, MutexInv DEF clients
<1>4. CASE rank[m].owner # Null
  BY <1>1, <1>2, <1>4, NextEntryInv DEF TryLock
<1>5. QED
  BY <1>3, <1>4

(* The mutex is given back. *)
LEMMA PollRankInv ==
    ASSUME IInv, NEW p \in Poller, PollRank(p)
    PROVE  IInv'
<1>1. PICK m \in Rank :
           /\ m = poll[p].r /\ m # Null /\ poll[p].i \in DOMAIN list /\ list[poll[p].i] = m
           /\ rank[m].mutex /\ rank[m].owner = p /\ rank[m].dpus /\ poll[p].at = "poll"
  BY DEF IInv, PollInv, PollOf, TypeInv, Walk, PollRank
<1>2. UNCHANGED <<ranks, bits, clients>>
  BY DEF PollRank
<1>3. PICK b \in BOOLEAN :
           rank' = [rank EXCEPT ![poll[p].r].owner = Null, ![poll[p].r].running = b]
  BY DEF PollRank
<1> DEFINE x == [rank[m] EXCEPT !.owner = Null, !.running = b]
           e == EntryFrom(poll[p].i + 1)
<1>4. rank[m] \in RankRecord /\ poll[p] \in Walk /\ rank \in [Rank -> RankRecord]
  BY DEF IInv, TypeInv
<1>5. rank' = [rank EXCEPT ![m] = x] /\ poll' = [poll EXCEPT ![p] = e]
  <2>1. rank' = [[rank EXCEPT ![m].owner = Null] EXCEPT ![m].running = b]
    BY <1>1, <1>3
  <2>2. rank' = [rank EXCEPT ![m] = x]
    BY <1>4, <2>1
  <2>3. QED
    BY <2>2 DEF PollRank, NextEntry
<1>6. x \in RankRecord
  BY <1>4, Records
<1>7. /\ x.live = rank[m].live /\ x.dpus = rank[m].dpus /\ x.mutex = rank[m].mutex
      /\ x.id = rank[m].id /\ x.backed = rank[m].backed
  BY <1>4 DEF RankRecord
<1>8. /\ e \in Walk /\ e.at = "look"
      /\ e.i # 0 => e.i \in DOMAIN list /\ list[e.i] # Null
  <2>1. poll[p].i + 1 \in Nat
    BY <1>4 DEF Walk
  <2>2. QED
    BY <2>1, EntryEffect
<1> HIDE DEF x, e
<1>9. /\ poll' \in [Poller -> Walk] /\ poll'[p] = e
      /\ \A q \in Poller \ {p} : poll'[q] = poll[q]
      /\ rank'[m] = x /\ \A r \in Rank \ {m} : rank'[r] = rank[r]
  BY <1>5, <1>8 DEF IInv, TypeInv
<1>10. ASSUME NEW q \in Poller
       PROVE  PollOf(q)'
  <2>1. CASE q = p
    BY <1>2, <1>8, <1>9, <2>1 DEF PollOf, ranks
  <2>2. CASE q # p
    <3>1. PollOf(q) /\ (poll[q].at \in {"try", "poll"} => poll[q].r \in Rank)
      BY DEF IInv, PollInv, PollOf, TypeInv, Walk
    <3>2. poll[q].at = "poll" => poll[q].r # m
      BY <1>1, <2>2, <3>1 DEF PollOf
    <3>3. poll[q].at \in {"try", "poll"} => rank'[poll[q].r].mutex
      BY <1>7, <1>9, <3>1 DEF PollOf
    <3>4. QED
      BY <1>2, <1>9, <2>2, <3>1, <3>2, <3>3 DEF PollOf, ranks
  <2>3. QED
    BY <2>1, <2>2
<1>11. rank[m].live
  BY <1>1, ListedHeld
<1>12. ~(rank[m].owner \in Client)
  BY <1>1, RankHandlerAssumption
<1>13. x.running => x.mutex
  BY <1>1, <1>7
<1>14. QED
  BY <1>2, <1>5, <1>6, <1>7, <1>9, <1>10, <1>11, <1>12, <1>13, MutexInv DEF clients

-----------------------------------------------------------------------------

(* Nobody has a rank and the list is empty. *)
LEMMA InitInv == Init => IInv
<1> SUFFICES ASSUME Init
             PROVE  IInv
  OBVIOUS
<1>1. /\ list = <<Null>> /\ next = 1 /\ bits = {}
      /\ \A r \in Rank : rank[r] = Gone
      /\ \A c \in Client : pc[c] = "idle" /\ me[c] = Null /\ owned[c] = {}
      /\ \A p \in Poller : poll[p].at = "out"
  BY DEF Init, NotPolling
<1>2. TypeInv
  <2>1. NotPolling \in Walk
    BY DEF NotPolling, Walk
  <2>2. poll \in [Poller -> Walk] /\ rank \in [Rank -> RankRecord]
    BY <2>1, Records DEF Init
  <2>3. bits \subseteq Number /\ list \in Seq(Rank \cup {Null})
    BY <1>1
  <2>4. /\ pc \in [Client -> Label] /\ me \in [Client -> Rank \cup {Null}]
        /\ phase \in [Client -> {"probe", "get", "free"}] /\ owned \in [Client -> SUBSET Rank]
    BY DEF Init, Label
  <2>5. QED
    BY <2>2, <2>3, <2>4 DEF TypeInv
<1>3. /\ Gone.live = FALSE /\ Gone.running = FALSE /\ Gone.backed = FALSE /\ Gone.id = -1
  BY DEF Gone
<1>4. HoldInv /\ CallInv /\ PollInv
  BY <1>1, <1>3, RankHandlerAssumption
     DEF HoldInv, Holds, CallInv, CallOf, Outside, PollInv, PollOf
<1>5. ListInv
  BY <1>1, RankHandlerAssumption DEF ListInv, Added, InList
<1>6. NumbersExact
  BY <1>1, <1>3 DEF NumbersExact
<1>7. QED
  BY <1>2, <1>4, <1>5, <1>6 DEF IInv

(* The invariant is about what Crash, and a step that changes nothing,     *)
(* leave alone.                                                            *)
LEMMA SameInv ==
    ASSUME IInv, UNCHANGED <<ranks, bits, rank, clients, poll>>
    PROVE  IInv'
<1>1. TypeInv' /\ HoldInv' /\ CallInv' /\ PollInv' /\ NumbersExact'
  BY DEF IInv, TypeInv, HoldInv, Holds, CallInv, CallOf, PollInv, PollOf, NumbersExact,
         ranks, clients
<1>2. ListInv'
  <2>1. \A c \in Client, r \in Rank : Added(c, r)' = Added(c, r)
    BY DEF Added, InList, clients
  <2>2. QED
    BY <2>1 DEF IInv, ListInv, TypeInv, ranks, clients
<1>3. QED
  BY <1>1, <1>2 DEF IInv

(* What comes after the release of the library. *)
LEMMA ReleasedInv ==
    ASSUME IInv, NEW c \in Client, pc[c] \in {"put", "dlclose"}, Released(c),
           UNCHANGED <<ranks, bits, owned, poll>>
    PROVE  IInv'
<1>1. CASE phase[c] = "probe"
  BY <1>1, ProbeInv DEF Released, Goto
<1>2. CASE phase[c] # "probe"
  BY <1>2, FreeInv DEF Released
<1>3. QED
  BY <1>1, <1>2

(* Every step of a client keeps the invariant. *)
LEMMA ClientInv ==
    ASSUME IInv, EarlyFaultsOnly, NEW c \in Client, ClientStep(c) \/ ClientCall(c)
    PROVE  IInv'
<1>1. CASE instantiate(c)
  <2>1. /\ pc[c] = "instantiate" /\ UNCHANGED <<ranks, bits, rank, me, phase, owned, poll>>
        /\ \/ pc' = [pc EXCEPT ![c] = "get"]
           \/ pc' = [pc EXCEPT ![c] = "unloaded"]
    BY <1>1 DEF instantiate, At, Goto
  <2>2. QED
    BY <2>1, MoveInv DEF Outside
<1>2. CASE dpu_rank_list_add(c)
  BY <1>2, AddInv
<1>3. CASE dpu_lock_rank(c)
  BY <1>3, LockInv
<1>4. CASE dpu_rank_list_remove(c)
  BY <1>4, RemoveInv
<1>5. CASE NotLoaded(c)
  BY <1>5, FreeInv DEF NotLoaded, At
<1>6. CASE dpu_rank_handler_get(c)
  <2>1. /\ pc[c] = "get" /\ UNCHANGED <<ranks, bits, rank, me, phase, owned, poll>>
        /\ \/ phase[c] = "get" /\ pc' = [pc EXCEPT ![c] = "number"]
           \/ pc' = [pc EXCEPT ![c] = "ask"]
    BY <1>6 DEF dpu_rank_handler_get, At, Goto
  <2>2. QED
    BY <2>1, MoveInv DEF Outside
<1>7. CASE Ask(c)
  <2>1. CASE Crash
    BY <2>1, SameInv DEF Crash
  <2>2. CASE Usable
    BY <1>7, <2>2, MoveInv, SameInv DEF Ask, At, Goto, Outside, Crash
  <2>3. QED
    BY <1>7, <2>1, <2>2 DEF Ask
<1>8. CASE dpu_get_next_rank_id(c)
  BY <1>8, NumberInv
<1>9. CASE Allocate(c)
  <2>1. CASE Crash
    BY <2>1, SameInv DEF Crash
  <2>2. CASE Usable
    <3>1. pc[c] = "allocate" /\ UNCHANGED <<ranks, me, phase, owned, poll>>
      BY <1>9, <2>2 DEF Allocate, At, Crash
    <3>2. CASE /\ rank' = [rank EXCEPT ![me[c]].dpus = TRUE, ![me[c]].backed = TRUE]
               /\ Goto(c, "add") /\ UNCHANGED bits
      BY <3>1, <3>2, AllocateInv DEF Goto
    <3>3. CASE dpu_release_rank_id(me[c]) /\ Goto(c, "put")
      BY <3>1, <3>3, ReleaseInv DEF Goto
    <3>4. QED
      BY <1>9, <2>2, <3>2, <3>3 DEF Allocate, Crash
  <2>3. QED
    BY <1>9, <2>1, <2>2 DEF Allocate
<1>10. CASE Finish(c)
  BY <1>10, FinishInv
<1>11. CASE dpu_rank_handler_put(c)
  <2>1. pc[c] = "put" /\ UNCHANGED <<ranks, bits, owned, poll>>
    BY <1>11 DEF dpu_rank_handler_put, At
  <2>2. CASE Goto(c, "clear") /\ UNCHANGED <<rank, me, phase>>
    BY <2>1, <2>2, MoveInv DEF Goto, Outside
  <2>3. CASE Released(c)
    BY <2>1, <2>3, ReleasedInv
  <2>4. QED
    BY <1>11, <2>2, <2>3 DEF dpu_rank_handler_put
<1>12. CASE ClearHandler(c)
  BY <1>12, MoveInv DEF ClearHandler, At, Goto, Outside
<1>13. CASE CloseLibrary(c)
  BY <1>13, ReleasedInv DEF CloseLibrary, At
<1>14. CASE FreeBackend(c)
  <2>1. CASE Crash
    BY <2>1, SameInv DEF Crash
  <2>2. CASE Usable
    BY <1>14, <2>2, ReleaseInv DEF FreeBackend, At, Goto, Crash
  <2>3. QED
    BY <1>14, <2>1, <2>2 DEF FreeBackend
<1>15. CASE ClientCall(c)
  BY <1>15, GetInv, FreeRankInv, LaunchInv DEF ClientCall
<1>16. QED
  BY <1>1, <1>2, <1>3, <1>4, <1>5, <1>6, <1>7, <1>8, <1>9, <1>10, <1>11, <1>12, <1>13, <1>14,
     <1>15 DEF ClientStep, Locking

(* Every step of a polling thread keeps the invariant. *)
LEMMA PollerInv ==
    ASSUME IInv, NEW p \in Poller, start_iteration(p) \/ PollerStep(p)
    PROVE  IInv'
<1>1. CASE start_iteration(p)
  BY <1>1, EntryEffect, WalkInv DEF start_iteration, clients
<1>2. CASE Look(p)
  <2> DEFINE k == poll[p].i
             e == [at |-> "try", i |-> k, r |-> list[k]]
  <2>1. /\ k \in DOMAIN list /\ list[k] # Null /\ k \in Nat
        /\ UNCHANGED <<ranks, bits, rank, clients>>
    BY <1>2 DEF Look, IInv, PollInv, PollOf, TypeInv, Walk
  <2>2. CASE PollerOf[list[k]] = p /\ rank[list[k]].running
    <3>1. poll' = [poll EXCEPT ![p] = e]
      BY <1>2, <2>2 DEF Look
    <3>2. list[k] \in Rank /\ rank[list[k]].mutex
      BY <2>1, <2>2, ListedHeld DEF IInv, PollInv
    <3>3. e \in Walk
      BY <2>1, <3>2 DEF Walk
    <3>4. QED
      BY <2>1, <3>1, <3>2, <3>3, WalkInv DEF clients
  <2>3. CASE ~(PollerOf[list[k]] = p /\ rank[list[k]].running)
    <3>1. poll' = [poll EXCEPT ![p] = NextEntry(p)]
      BY <1>2, <2>3 DEF Look
    <3>2. QED
      BY <2>1, <3>1, NextEntryInv
  <2>4. QED
    BY <2>2, <2>3
<1>3. CASE TryLock(p)
  BY <1>3, TryLockInv
<1>4. CASE PollRank(p)
  BY <1>4, PollRankInv
<1>5. CASE end_iteration(p)
  <2>1. NotPolling \in Walk /\ NotPolling.at = "out"
    BY DEF NotPolling, Walk
  <2>2. QED
    BY <1>5, <2>1, WalkInv DEF end_iteration, clients
<1>6. QED
  BY <1>1, <1>2, <1>3, <1>4, <1>5 DEF PollerStep

(* Every step keeps the invariant. *)
LEMMA StepInv ==
    ASSUME IInv, EarlyFaultsOnly, [Next]_vars
    PROVE  IInv'
<1>1. CASE Next
  BY <1>1, ClientInv, PollerInv DEF Next
<1>2. CASE UNCHANGED vars
  BY <1>2, SameInv DEF vars
<1>3. QED
  BY <1>1, <1>2

(* The invariant of the module holds of dpu_get_rank_of_type,              *)
(* dpu_free_rank and the polling threads under every interleaving.         *)
THEOREM Inductive == EarlyFaultsOnly => (Spec => []IInv)
<1> SUFFICES ASSUME EarlyFaultsOnly
             PROVE  Spec => []IInv
  OBVIOUS
<1>1. IInv /\ [Next]_vars => IInv'
  BY StepInv
<1>2. QED
  BY InitInv, <1>1, PTL DEF Spec

(* The list has each rank that was added and not yet removed exactly once, *)
(* and an empty slot waits for the next one.                               *)
THEOREM ListStaysExact == EarlyFaultsOnly => (Spec => []ListExact)
<1>1. IInv => ListExact
  <2> SUFFICES ASSUME IInv
               PROVE  ListExact
    OBVIOUS
  <2> DEFINE Adding == {c \in Client : InList(c)}
  <2>1. ASSUME NEW r, r \in Listed
        PROVE  \E c \in Client : r \in owned[c] \/ (c \in Adding /\ r = me[c])
    <3>1. PICK i \in DOMAIN list : list[i] = r /\ r # Null
      BY <2>1 DEF Listed, Range
    <3>2. QED
      BY <3>1 DEF IInv, ListInv, Added
  <2>2. ASSUME NEW c \in Client, NEW r, r \in owned[c] \/ (c \in Adding /\ r = me[c])
        PROVE  r \in Listed
    <3>1. r \in Rank /\ Added(c, r)
      BY <2>2 DEF IInv, TypeInv, HoldInv, Added, InList
    <3>2. PICK i \in DOMAIN list : list[i] = r
      BY <3>1 DEF IInv, ListInv
    <3>3. QED
      BY <3>1, <3>2, RankHandlerAssumption DEF Listed, Range
  <2>3. Listed = (UNION {owned[c] : c \in Client}) \cup {me[c] : c \in Adding}
    BY <2>1, <2>2
  <2>4. QED
    BY <2>3 DEF ListExact, IInv, ListInv
<1>2. QED
  BY <1>1, Inductive, PTL

(* Polling threads meet no rank that dpu_free_rank has freed. *)
THEOREM PollersMeetLiveRanks == EarlyFaultsOnly => (Spec => []NoStaleRank)
<1>1. IInv => NoStaleRank
  <2> SUFFICES ASSUME IInv, NEW p \in Poller
               PROVE  /\ poll[p].at = "look" /\ poll[p].i # 0
                           => list[poll[p].i] \in Rank /\ rank[list[poll[p].i]].live
                      /\ poll[p].at \in {"try", "poll"}
                           => rank[poll[p].r].live /\ rank[poll[p].r].mutex
                      /\ poll[p].at = "poll" => rank[poll[p].r].dpus /\ rank[poll[p].r].owner = p
    BY DEF NoStaleRank
  <2>1. PollOf(p)
    BY DEF IInv, PollInv
  <2>2. QED
    BY <2>1, ListedHeld DEF PollOf
<1>2. QED
  BY <1>1, Inductive, PTL

(* Rank numbers are neither shared nor lost. *)
THEOREM NumbersStayExact == EarlyFaultsOnly => (Spec => []NumbersExact)
<1>1. IInv => NumbersExact
  BY DEF IInv
<1>2. QED
  BY <1>1, Inductive, PTL

====
