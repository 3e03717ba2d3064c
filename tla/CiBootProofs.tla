---------------------------- MODULE CiBootProofs ----------------------------
(***************************************************************************)
(* Theorems about the protocol of the control interfaces, continued: the   *)
(* frames that are sent again and the boots.                               *)
(***************************************************************************)
EXTENDS CiProofs

(***************************************************************************)
(* The boots of a reset.  They are left in none but the first steps of a   *)
(* reset, right after the selection of all the DPUs of the CIs that have   *)
(* one: the soft reset before it has forgotten the other selections.       *)
(***************************************************************************)
Reset4 == Tail(Reset3)
Reset5 == Tail(Reset4)
Reset6 == Tail(Reset5)
Resets == {Reset, Reset1, Reset2, Reset3, Reset4, Reset5}

HasReboot(s) == \E i \in 1..Len(s) : Reboots(s[i])

RebootPlan ==
    /\ HasReboot(calls) => calls \in Resets
    /\ calls = Reset3 => \A c \in Ci : target[c] = Empty
    /\ calls \in {Reset4, Reset5} => \A c \in mask : c \in Alive /\ target[c] = SelectAll

-----------------------------------------------------------------------------

LEMMA RebootWords == Reading.r = "frame" /\ Reboot.r = "frame" /\ Reboots(Reboot) /\ ~Reboots(Reading)
<1>1. PICK w, v : w = Word("read", 0) /\ v = Word("reboot", 0)
  OBVIOUS
<1>2. Reading.a = w /\ Reboot.a = v /\ Reading.r = "frame" /\ Reboot.r = "frame"
  BY <1>1, ReqFields DEF Reading, Reboot
<1>3. w.k = "read" /\ v.k = "reboot"
  BY <1>1, WordFields
<1> QED
  BY <1>2, <1>3 DEF Reboots

(* What is left of a reset. *)
LEMMA ResetParts ==
    /\ Reset3 # <<>> /\ Reset4 # <<>> /\ Reset5 # <<>> /\ Reset6 # <<>>
    /\ Head(Reset3) = Selecting(Ci) /\ Head(Reset4) = Reading /\ Head(Reset5) = Reboot /\ Head(Reset6) = Reading
    /\ Len(Reset) = 10 /\ Len(Reset1) = 9 /\ Len(Reset2) = 8 /\ Len(Reset3) = 7 /\ Len(Reset4) = 6 /\ Len(Reset5) = 5
    /\ Len(Reset6) = 4
    /\ Reset3[7].r = "restore" /\ Reset3[1].r = "select_all"
    /\ HasReboot(Reset3) /\ HasReboot(Reset4) /\ HasReboot(Reset5) /\ ~HasReboot(Reset6)
<1> DEFINE q1 == Req("save", 0, {})
           q2 == Req("soft_reset", 0, {})
           q4 == Selecting(Ci)
           q6 == Req("switch_rank", 1, {})
           q7 == Req("init_groups", 0, {})
           q8 == Req("restore", 0, {})
<1>1. q4.r = "select_all" /\ q6.r = "switch_rank" /\ q7.r = "init_groups" /\ q8.r = "restore"
  BY ReqFields DEF Selecting
<1>2. Reset = <<q1, q2, q2, q4, Reading, Reboot, Reading, q6, q7, q8>>
  BY DEF Reset
<1> HIDE DEF q1, q2, q4, q6, q7, q8
<1>3. Reset1 = <<q2, q2, q4, Reading, Reboot, Reading, q6, q7, q8>>
  BY <1>2 DEF Reset1
<1>4. Reset2 = <<q2, q4, Reading, Reboot, Reading, q6, q7, q8>>
  BY <1>3 DEF Reset2
<1>5. Reset3 = <<q4, Reading, Reboot, Reading, q6, q7, q8>>
  BY <1>4 DEF Reset3
<1>6. Reset4 = <<Reading, Reboot, Reading, q6, q7, q8>>
  BY <1>5 DEF Reset4
<1>7. Reset5 = <<Reboot, Reading, q6, q7, q8>>
  BY <1>6 DEF Reset5
<1>8. Reset6 = <<Reading, q6, q7, q8>>
  BY <1>7 DEF Reset6
<1>9. /\ Len(Reset) = 10 /\ Len(Reset1) = 9 /\ Len(Reset2) = 8 /\ Len(Reset3) = 7 /\ Len(Reset4) = 6 /\ Len(Reset5) = 5
      /\ Len(Reset6) = 4
  BY <1>2, <1>3, <1>4, <1>5, <1>6, <1>7, <1>8
<1>10. Reset3[3] = Reboot /\ Reset4[2] = Reboot /\ Reset5[1] = Reboot
  BY <1>5, <1>6, <1>7
<1>11. 3 \in 1..7 /\ 2 \in 1..6 /\ 1 \in 1..5
  OBVIOUS
<1>12. HasReboot(Reset3) /\ HasReboot(Reset4) /\ HasReboot(Reset5)
  BY <1>9, <1>10, <1>11, RebootWords DEF HasReboot
<1>13. ~HasReboot(Reset6)
  <2>1. Reset6[1] = Reading /\ Reset6[2] = q6 /\ Reset6[3] = q7 /\ Reset6[4] = q8
    BY <1>8
  <2>2. ~Reboots(q6) /\ ~Reboots(q7) /\ ~Reboots(q8)
    BY <1>1 DEF Reboots
  <2>3. \A i \in 1..4 : i \in {1, 2, 3, 4}
    OBVIOUS
  <2> QED
    BY <1>9, <2>1, <2>2, <2>3, RebootWords DEF HasReboot
<1>14. Head(Reset3) = q4 /\ Head(Reset4) = Reading /\ Head(Reset5) = Reboot /\ Head(Reset6) = Reading
  BY <1>5, <1>6, <1>7, <1>8
<1>15. Reset3[7] = q8 /\ Reset3[1] = q4
  BY <1>5
<1>16. Reset3 # <<>> /\ Reset4 # <<>> /\ Reset5 # <<>> /\ Reset6 # <<>>
  BY <1>5, <1>6, <1>7, <1>8
<1>17. q4 = Selecting(Ci)
  BY DEF q4
<1> QED
  BY <1>1, <1>9, <1>12, <1>13, <1>14, <1>15, <1>16, <1>17

LEMMA ResetApart ==
    /\ Reset \notin {Reset3, Reset4, Reset5} /\ Reset1 \notin {Reset3, Reset4, Reset5} /\ Reset2 \notin {Reset3, Reset4, Reset5}
    /\ Reset3 \notin {Reset4, Reset5} /\ Reset4 # Reset3 /\ Reset5 # Reset3
<1>1. /\ Len(Reset) = 10 /\ Len(Reset1) = 9 /\ Len(Reset2) = 8 /\ Len(Reset3) = 7 /\ Len(Reset4) = 6 /\ Len(Reset5) = 5
  BY ResetParts
<1>2. ASSUME NEW s, NEW t, Len(s) # Len(t)
      PROVE  s # t
  BY <1>2
<1>3. /\ Len(Reset) # Len(Reset3) /\ Len(Reset) # Len(Reset4) /\ Len(Reset) # Len(Reset5)
      /\ Len(Reset1) # Len(Reset3) /\ Len(Reset1) # Len(Reset4) /\ Len(Reset1) # Len(Reset5)
      /\ Len(Reset2) # Len(Reset3) /\ Len(Reset2) # Len(Reset4) /\ Len(Reset2) # Len(Reset5)
      /\ Len(Reset3) # Len(Reset4) /\ Len(Reset3) # Len(Reset5)
  BY <1>1
<1> QED
  BY <1>2, <1>3, Zenon

(* Without boots of a reset there is nothing to claim. *)
LEMMA QuietReboot ==
    ASSUME ~HasReboot(calls')
    PROVE  RebootPlan'
  BY ResetParts DEF RebootPlan

LEMMA SilentReboot ==
    ASSUME RebootPlan, UNCHANGED <<calls, mask, target, enabled>>
    PROVE  RebootPlan'
  BY DEF RebootPlan, Alive

LEMMA TailReboot ==
    ASSUME IInv, calls # <<>>, ~HasReboot(calls), calls' = Tail(calls)
    PROVE  RebootPlan'
<1>1. calls \in Seq(Request)
  BY CallsSeq DEF IInv
<1>2. \A j \in 1..Len(calls') : calls'[j] = calls[j + 1] /\ j + 1 \in 1..Len(calls)
  BY <1>1, TailCalls
<1>3. ~HasReboot(calls')
  BY <1>2 DEF HasReboot
<1> QED
  BY <1>3, QuietReboot

LEMMA MoreReboot ==
    ASSUME IInv, calls # <<>>, ~HasReboot(calls), NEW more \in Seq(Inner), calls' = more \o Tail(calls)
    PROVE  RebootPlan'
<1>1. calls \in Seq(Request)
  BY CallsSeq DEF IInv
<1>2. PICK t, n, l : t = calls' /\ n = Len(more) /\ l = Len(calls)
  OBVIOUS
<1>3. /\ t \in Seq(Request) /\ n \in Nat /\ l \in Nat
      /\ \A j \in 1..n : t[j] = more[j] /\ more[j] \in Inner
      /\ \A j \in 1..Len(t) : j > n => t[j] = calls[j - n + 1] /\ j - n + 1 \in 2..l
  BY <1>1, <1>2, MoreCallsLeft
<1>4. ASSUME NEW j \in 1..Len(t)
      PROVE  ~Reboots(t[j])
  <2>1. CASE j > n
    <3>1. PICK i : i = j - n + 1 /\ i \in 2..l /\ t[j] = calls[i]
      BY <1>3, <2>1
    <3>2. i \in 1..Len(calls)
      BY <1>2, <1>3, <3>1
    <3> QED
      BY <3>1, <3>2 DEF HasReboot
  <2>2. CASE ~(j > n)
    <3>1. Len(t) \in Nat
      BY <1>3
    <3>2. j \in 1..n
      BY <1>3, <2>2, <3>1
    <3> QED
      BY <1>3, <3>2 DEF Inner
  <2> QED
    BY <2>1, <2>2
<1>5. ~HasReboot(calls')
  BY <1>2, <1>4 DEF HasReboot
<1> QED
  BY <1>5, QuietReboot

LEMMA NoCallsLeft ==
    ASSUME calls' = <<>>
    PROVE  RebootPlan'
<1>1. Len(calls') = 0
  OBVIOUS
<1>2. 1..Len(calls') = {}
  BY <1>1
<1>3. ~HasReboot(calls')
  BY <1>2 DEF HasReboot
<1> QED
  BY <1>3, QuietReboot

(* The next request says where a reset is. *)
LEMMA RebootHeads ==
    ASSUME RebootPlan, calls # <<>>, HasReboot(calls)
    PROVE  \/ calls = Reset /\ Head(calls).r = "save"
           \/ calls \in {Reset1, Reset2} /\ Head(calls).r = "soft_reset"
           \/ calls = Reset3 /\ Head(calls).r = "select_all"
           \/ calls = Reset4 /\ Head(calls).r = "frame" /\ Head(calls) = Reading
           \/ calls = Reset5 /\ Head(calls).r = "frame" /\ Head(calls) = Reboot
<1>1. Selecting(Ci).r = "select_all"
  BY ReqFields DEF Selecting
<1> QED
  BY <1>1, ResetRest, ResetParts, RebootWords DEF RebootPlan, Resets

-----------------------------------------------------------------------------
(* The requests. *)

(* What a switch of the mux is made of. *)
LEMMA RankParts ==
    ASSUME dpu_switch_mux_for_rank
    PROVE  Busy \/ \E more \in Seq(Low) : Proceed(more) /\ UNCHANGED <<enabled, saved, running>>
<1> DEFINE all == IF Head(calls).a = 1 THEN Dpu ELSE {}
           cis == IF all = {} THEN {} ELSE Ci
           a == Req("select_all_even_disabled", 0, {})
           m == Req("set_mram_mux", 0, cis)
           first == <<a, m, a>>
           each == ForEachDpu([d \in Dpu |-> Inspecting(d)], [d \in Dpu |-> Reading])
           b == \E c \in Ci : mux[c] # all
<1>1. Busy \/ (Proceed(If(b, first \o each)) /\ UNCHANGED <<enabled, saved, running>>)
  BY DEF dpu_switch_mux_for_rank
<1>2. a \in Low /\ m \in Low
  BY Parts
<1>3. each \in Seq(Low)
  <2>1. \A d \in Dpu : Inspecting(d) \in Low /\ Reading \in Low
    BY CiAssumption, Parts DEF Inspecting, Dpu
  <2>2. [d \in Dpu |-> Inspecting(d)] \in [Dpu -> Low] /\ [d \in Dpu |-> Reading] \in [Dpu -> Low]
    BY <2>1
  <2> QED
    BY <2>2, ForEachDpuSeq
<1>4. first \in Seq(Low)
  BY <1>2
<1> HIDE DEF first, each, b
<1>5. first \o each \in Seq(Low) /\ <<>> \in Seq(Low)
  BY <1>3, <1>4, ConcatProperties
<1>6. PICK more : more = If(b, first \o each)
  OBVIOUS
<1>7. more \in Seq(Low)
  BY <1>5, <1>6 DEF If
<1> QED
  BY <1>1, <1>6, <1>7

LEMMA LineParts ==
    ASSUME IInv, NEW d \in Int, NEW cis \in SUBSET Ci, SwitchLine(d, cis)
    PROVE  Busy \/ \E more \in Seq(Low) : Proceed(more) /\ UNCHANGED <<enabled, saved, running>>
<1> DEFINE Asks(e) == <<Req("select_dpu_even_disabled", e, {}), Req("set_mram_mux", 0, cis)>>
           Line(e) == Asks(e) \o CheckDpu(e)
           lines == {e \in Pair(d) : {c \in Ci : e \in mux[c]} # cis}
           e0 == 2 * (d \div 2)
           e1 == 2 * (d \div 2) + 1
           Part(e) == If(e \in lines, Line(e))
<1>1. e0 \in Int /\ e1 \in Int
  OBVIOUS
<1>2. Busy \/ (Proceed(Part(e0) \o Part(e1)) /\ UNCHANGED <<enabled, saved, running>>)
  BY DEF SwitchLine
<1>3. ASSUME NEW e \in Int
      PROVE  Part(e) \in Seq(Low)
  <2> DEFINE x == Req("select_dpu_even_disabled", e, {})
             y == Req("set_mram_mux", 0, cis)
  <2>1. x \in Low /\ y \in Low /\ Reading \in Low
    BY Parts
  <2>2. Asks(e) = <<x, y>> /\ CheckDpu(e) = <<x, Reading>>
    BY DEF CheckDpu, Inspecting
  <2> HIDE DEF x, y
  <2>3. <<x, y>> \in Seq(Low) /\ <<x, Reading>> \in Seq(Low) /\ <<>> \in Seq(Low)
    BY <2>1
  <2>4. Line(e) \in Seq(Low)
    BY <2>2, <2>3, ConcatProperties
  <2> HIDE DEF Line, lines
  <2> QED
    BY <2>3, <2>4 DEF If
<1> HIDE DEF Part, e0, e1
<1>4. PICK more : more = Part(e0) \o Part(e1)
  OBVIOUS
<1>5. Part(e0) \in Seq(Low) /\ Part(e1) \in Seq(Low)
  BY <1>1, <1>3
<1>6. more \in Seq(Low)
  BY <1>4, <1>5, ConcatProperties
<1> QED
  BY <1>2, <1>4, <1>6

(* dpu_init_groups and its loop over the CIs.  A group is given right after *)
(* a selection of DPUs that all belong to it.                              *)
GivesTo(x, a) ==
    \/ x.r = "select_dpu" /\ \A c \in x.cis : a = EnabledGroup <=> x.a \in saved[c]
    \/ x.r = "select_all" /\ a = EnabledGroup /\ \A c \in x.cis : saved[c] = Dpu
Gives(s) ==
    \A j \in 1..Len(s) :
       /\ s[j].r \in {"ci_groups", "select_all", "select_dpu", "write_group"}
       /\ s[j].r = "write_group" => j # 1 /\ GivesTo(s[j - 1], s[j].a)
       /\ s[j].r = "select_dpu" => j # Len(s) /\ s[j + 1].r = "write_group"
GivesAll(s) == \A c \in Ci : \E j \in 1..Len(s) : s[j].r = "ci_groups" /\ s[j].a = c
GivesEach(s, c) ==
    /\ \A j \in 1..Len(s) : s[j].r # "ci_groups"
    /\ saved[c] \notin {{}, Dpu} => \A d \in Dpu : \E j \in 1..Len(s) : s[j].r = "select_dpu" /\ s[j].a = d /\ c \in s[j].cis

LEMMA InitParts ==
    ASSUME dpu_init_groups
    PROVE  \E more \in Seq(Inner) : Proceed(more) /\ Gives(more) /\ GivesAll(more)
<1> DEFINE full == {c \in Ci : saved[c] = Dpu}
           each == [i \in 1..NrCis |-> Req("ci_groups", i - 1, {})]
           x == Selecting(full)
           y == Req("write_group", EnabledGroup, {})
           all == <<x, y>>
<1>1. Proceed(each \o If(full # {}, all))
  BY DEF dpu_init_groups
<1>2. /\ each \in Seq(Tame) /\ Len(each) = NrCis /\ NrCis \in Nat
      /\ \A j \in 1..NrCis : each[j].r = "ci_groups" /\ each[j].a = j - 1
  <2>1. NrCis \in Nat /\ \A i \in 1..NrCis : i - 1 \in Ci
    BY CiAssumption DEF Ci
  <2>2. \A i \in 1..NrCis : LET q == Req("ci_groups", i - 1, {}) IN q \in Tame /\ q.r = "ci_groups" /\ q.a = i - 1
    BY <2>1, Parts, ReqFields
  <2>3. Len(each) = NrCis
    BY <2>1
  <2> QED
    BY <2>1, <2>2, <2>3
<1>3. /\ x \in Tame /\ y \in Tame /\ x.r = "select_all" /\ x.cis = full
      /\ y.r = "write_group" /\ y.a = EnabledGroup
  BY Parts, ReqFields DEF Selecting
<1>4. \A c \in full : saved[c] = Dpu
  OBVIOUS
<1> HIDE DEF each, x, y, full
<1>5. GivesTo(x, y.a)
  BY <1>3, <1>4 DEF GivesTo
<1>6. PICK part, n : part = If(full # {}, all) /\ n = NrCis
  OBVIOUS
<1>7. part \in Seq(Inner) /\ each \in Seq(Inner)
  BY <1>2, <1>3, <1>6 DEF If, Tame
<1>8. (part = <<>> /\ Len(part) = 0) \/ (Len(part) = 2 /\ part[1] = x /\ part[2] = y)
  <2>1. CASE full # {}
    BY <1>6, <2>1 DEF If
  <2>2. CASE full = {}
    BY <1>6, <2>2 DEF If
  <2> QED
    BY <2>1, <2>2
<1>9. PICK more, k : more = each \o part /\ k = Len(part)
  OBVIOUS
<1>10. /\ more \in Seq(Inner) /\ Len(more) = n + k /\ n \in Nat /\ k \in {0, 2}
       /\ \A j \in 1..n + k : more[j] = IF j <= n THEN each[j] ELSE part[j - n]
  <2>1. PICK S : S = Inner
    OBVIOUS
  <2>2. part \in Seq(S) /\ each \in Seq(S)
    BY <1>7, <2>1
  <2>3. /\ each \o part \in Seq(S) /\ Len(each \o part) = Len(each) + Len(part)
        /\ \A j \in 1..Len(each) + Len(part) : (each \o part)[j] = IF j <= Len(each) THEN each[j] ELSE part[j - Len(each)]
    BY <2>2, ConcatProperties
  <2> QED
    BY <1>2, <1>6, <1>8, <1>9, <2>1, <2>3
<1>11. \A j \in 1..n : more[j].r = "ci_groups" /\ more[j].a = j - 1
  <2>1. \A j \in 1..n : j \in 1..n + k /\ j <= n
    BY <1>10
  <2> QED
    BY <1>2, <1>6, <1>10, <2>1
<1>12. k = 2 => more[n + 1] = x /\ more[n + 2] = y
  <2>1. n + 1 \in 1..n + 2 /\ n + 2 \in 1..n + 2 /\ ~(n + 1 <= n) /\ ~(n + 2 <= n) /\ (n + 1) - n = 1 /\ (n + 2) - n = 2
    BY <1>10
  <2>2. ASSUME k = 2
        PROVE  more[n + 1] = part[(n + 1) - n] /\ more[n + 2] = part[(n + 2) - n]
    BY <1>10, <2>1, <2>2
  <2>3. k = 2 => part[1] = x /\ part[2] = y
    BY <1>8, <1>9
  <2> QED
    BY <2>1, <2>2, <2>3
<1>13. Gives(more)
  <2> SUFFICES ASSUME NEW j \in 1..n + k
               PROVE  /\ more[j].r \in {"ci_groups", "select_all", "select_dpu", "write_group"}
                      /\ more[j].r = "write_group" => j # 1 /\ GivesTo(more[j - 1], more[j].a)
                      /\ more[j].r = "select_dpu" => j # n + k /\ more[j + 1].r = "write_group"
    BY <1>10 DEF Gives
  <2>1. j \in 1..n \/ (k = 2 /\ j = n + 1) \/ (k = 2 /\ j = n + 2)
    BY <1>10
  <2>2. CASE j \in 1..n
    BY <1>11, <2>2
  <2>3. CASE k = 2 /\ j = n + 1
    BY <1>3, <1>12, <2>3
  <2>4. CASE k = 2 /\ j = n + 2
    <3>1. j # 1 /\ j - 1 = n + 1
      BY <1>10, <2>4
    <3> QED
      BY <1>3, <1>5, <1>12, <2>4, <3>1
  <2> QED
    BY <2>1, <2>2, <2>3, <2>4
<1>14. GivesAll(more)
  <2> SUFFICES ASSUME NEW c \in Ci
               PROVE  \E j \in 1..n + k : more[j].r = "ci_groups" /\ more[j].a = c
    BY <1>10 DEF GivesAll
  <2>1. c + 1 \in 1..n /\ c + 1 \in 1..n + k /\ (c + 1) - 1 = c
    BY <1>6, <1>10 DEF Ci
  <2>2. more[c + 1].r = "ci_groups" /\ more[c + 1].a = c
    BY <1>11, <2>1
  <2> QED
    BY <2>1, <2>2
<1> QED
  BY <1>1, <1>6, <1>9, <1>10, <1>13, <1>14

LEMMA CiParts ==
    ASSUME IInv, CiGroups
    PROVE  \E more \in Seq(Inner) : Proceed(more) /\ Gives(more) /\ GivesEach(more, Head(calls).a)
<1> DEFINE c == Head(calls).a
           first == [d \in Dpu |-> SelectingDpu(d, {c})]
           second == [d \in Dpu |-> Req("write_group", IF d \in saved[c] THEN EnabledGroup ELSE DisabledGroup, {})]
           b == saved[c] \notin {{}, Dpu}
<1>1. Proceed(If(b, ForEachDpu(first, second)))
  BY DEF CiGroups
<1>2. c \in Ci
  BY Plan DEF CiGroups, Asked, IInv, Request
<1>3. \A d \in Dpu : d \in Int
  BY CiAssumption DEF Dpu
<1>4. \A d \in Dpu : first[d] \in Inner /\ first[d].r = "select_dpu" /\ first[d].a = d /\ first[d].cis = {c}
  BY <1>2, <1>3, Parts, ReqFields DEF SelectingDpu, Tame
<1>5. \A d \in Dpu : second[d] \in Inner /\ second[d].r = "write_group" /\ (second[d].a = EnabledGroup <=> d \in saved[c])
  BY Parts, ReqFields DEF EnabledGroup, DisabledGroup
<1>6. first \in [Dpu -> Inner] /\ second \in [Dpu -> Inner]
  BY <1>4, <1>5
<1>7. \A j \in 1..2 * NrDpus : ForEachDpu(first, second)[j] = IF j % 2 = 1 THEN first[(j - 1) \div 2] ELSE second[(j - 1) \div 2]
  BY DEF ForEachDpu
<1>8. Len(ForEachDpu(first, second)) = 2 * NrDpus /\ 2 * NrDpus \in Nat
  BY CiAssumption DEF ForEachDpu
<1> HIDE DEF first, second, b
<1>9. PICK s, k : s = ForEachDpu(first, second) /\ k = 2 * NrDpus
  OBVIOUS
<1>10. s \in Seq(Inner)
  BY <1>6, <1>9, ForEachDpuSeq
<1>11. /\ Len(s) = k /\ k \in Nat /\ k % 2 = 0
       /\ \A j \in 1..k : s[j] = IF j % 2 = 1 THEN first[(j - 1) \div 2] ELSE second[(j - 1) \div 2]
  BY <1>7, <1>8, <1>9, CiAssumption
<1>12. \A d \in Dpu : 2 * d + 1 \in 1..k /\ s[2 * d + 1] = first[d] /\ 2 * d + 2 \in 1..k /\ s[2 * d + 2] = second[d]
  <2> SUFFICES ASSUME NEW d \in Dpu
               PROVE  2 * d + 1 \in 1..k /\ s[2 * d + 1] = first[d] /\ 2 * d + 2 \in 1..k /\ s[2 * d + 2] = second[d]
    OBVIOUS
  <2>1. /\ 2 * d + 1 \in 1..k /\ (2 * d + 1) % 2 = 1 /\ ((2 * d + 1) - 1) \div 2 = d
        /\ 2 * d + 2 \in 1..k /\ (2 * d + 2) % 2 = 0 /\ ((2 * d + 2) - 1) \div 2 = d
    BY <1>9, CiAssumption DEF Dpu
  <2>2. PICK u, v : u = 2 * d + 1 /\ v = 2 * d + 2
    OBVIOUS
  <2>3. u \in 1..k /\ u % 2 = 1 /\ (u - 1) \div 2 = d /\ v \in 1..k /\ v % 2 # 1 /\ (v - 1) \div 2 = d
    <3>1. 0 # 1
      OBVIOUS
    <3> QED
      BY <2>1, <2>2, <3>1
  <2>4. s[u] = first[(u - 1) \div 2] /\ s[v] = second[(v - 1) \div 2]
    BY <1>11, <2>3
  <2>5. s[u] = first[d] /\ s[v] = second[d]
    BY <2>3, <2>4
  <2> QED
    BY <2>2, <2>3, <2>5
<1>13. \A j \in 1..k : \E d \in Dpu : j = 2 * d + 1 \/ j = 2 * d + 2
  <2> SUFFICES ASSUME NEW j \in 1..k
               PROVE  \E d \in Dpu : j = 2 * d + 1 \/ j = 2 * d + 2
    OBVIOUS
  <2>1. (j - 1) \div 2 \in Dpu /\ (j = 2 * ((j - 1) \div 2) + 1 \/ j = 2 * ((j - 1) \div 2) + 2)
    BY <1>9, CiAssumption DEF Dpu
  <2> QED
    BY <2>1
<1>14. \A d \in Dpu : (2 * d + 1) + 1 = 2 * d + 2 /\ (2 * d + 2) - 1 = 2 * d + 1 /\ 2 * d + 2 # 1
  BY <1>3, CiAssumption DEF Dpu
<1>15. \A d \in Dpu : GivesTo(first[d], second[d].a)
  BY <1>4, <1>5 DEF GivesTo
<1>16. Gives(s)
  <2> SUFFICES ASSUME NEW j \in 1..k
               PROVE  /\ s[j].r \in {"ci_groups", "select_all", "select_dpu", "write_group"}
                      /\ s[j].r = "write_group" => j # 1 /\ GivesTo(s[j - 1], s[j].a)
                      /\ s[j].r = "select_dpu" => j # k /\ s[j + 1].r = "write_group"
    BY <1>11 DEF Gives
  <2>1. PICK d \in Dpu : j = 2 * d + 1 \/ j = 2 * d + 2
    BY <1>13
  <2>2. CASE j = 2 * d + 1
    <3>1. s[j] = first[d] /\ s[j + 1] = second[d]
      BY <1>12, <1>14, <2>2
    <3>2. j # k
      BY <1>3, <1>12, <1>11, <2>2
    <3> QED
      BY <1>4, <1>5, <3>1, <3>2
  <2>3. CASE j = 2 * d + 2
    <3>1. s[j] = second[d] /\ s[j - 1] = first[d] /\ j # 1
      BY <1>12, <1>14, <2>3
    <3> QED
      BY <1>5, <1>15, <3>1
  <2> QED
    BY <2>1, <2>2, <2>3
<1>17. \A j \in 1..k : s[j].r # "ci_groups"
  BY <1>4, <1>5, <1>12, <1>13
<1>18. GivesEach(s, c)
  <2>1. \A d \in Dpu : \E j \in 1..k : s[j].r = "select_dpu" /\ s[j].a = d /\ c \in s[j].cis
    <3> SUFFICES ASSUME NEW d \in Dpu
                 PROVE  \E j \in 1..k : s[j].r = "select_dpu" /\ s[j].a = d /\ c \in s[j].cis
      OBVIOUS
    <3>1. PICK j \in 1..k : s[j] = first[d]
      BY <1>12
    <3>2. s[j].r = "select_dpu" /\ s[j].a = d /\ c \in s[j].cis
      BY <1>4, <3>1
    <3> QED
      BY <3>2
  <2> QED
    BY <1>11, <1>17, <2>1 DEF GivesEach
<1>19. CASE b
  BY <1>1, <1>9, <1>10, <1>16, <1>18, <1>19 DEF If
<1>20. CASE ~b
  <2>1. PICK more : more = <<>>
    OBVIOUS
  <2>2. more \in Seq(Inner) /\ Len(more) = 0 /\ Proceed(more)
    BY <1>1, <1>20, <2>1 DEF If
  <2>3. 1..Len(more) = {}
    BY <2>2
  <2>4. saved[c] \in {{}, Dpu}
    BY <1>20 DEF b
  <2>5. Gives(more) /\ GivesEach(more, c)
    BY <2>3, <2>4 DEF Gives, GivesEach
  <2> QED
    BY <2>2, <2>5
<1> QED
  BY <1>19, <1>20

(* A request that is not one of the first of a reset. *)
LEMMA RestReboot ==
    ASSUME IInv, RebootPlan, calls # <<>>, Head(calls).r \notin {"save", "soft_reset", "select_all", "frame"},
           \/ calls' = <<>> \/ calls' = Tail(calls)
           \/ \E more \in Seq(Inner) : calls' = more \o Tail(calls)
    PROVE  RebootPlan'
<1>1. ~HasReboot(calls)
  BY RebootHeads
<1> QED
  BY <1>1, NoCallsLeft, TailReboot, MoreReboot

LEMMA ProceedReboot ==
    ASSUME IInv, RebootPlan, calls # <<>>, Head(calls).r \notin {"save", "soft_reset", "select_all", "frame"},
           Busy \/ \E more \in Seq(Inner) : Proceed(more)
    PROVE  RebootPlan'
  BY RestReboot DEF Busy, Proceed

LEMMA OverReboot ==
    ASSUME IInv, RebootPlan, calls # <<>>, Head(calls).r \notin {"save", "soft_reset", "select_all", "frame"},
           Proceed(<<>>)
    PROVE  RebootPlan'
  BY Over, RestReboot

LEMMA SelectsReboot ==
    ASSUME IInv, RebootPlan, ufi_select_all_even_disabled \/ ufi_select_dpu \/ ufi_select_dpu_even_disabled
    PROVE  RebootPlan'
<1>1. calls # <<>> /\ Head(calls).r \notin {"save", "soft_reset", "select_all", "frame"} /\ Proceed(<<>>)
  BY DEF ufi_select_all_even_disabled, ufi_select_dpu, ufi_select_dpu_even_disabled, Select, SelectDpu, Asked
<1> QED
  BY <1>1, OverReboot

LEMMA WritesReboot ==
    ASSUME IInv, RebootPlan, ufi_write_group \/ Launched \/ Polled \/ Disabled \/ RestoreEnabled
    PROVE  RebootPlan'
<1>1. calls # <<>> /\ Head(calls).r \notin {"save", "soft_reset", "select_all", "frame"} /\ Proceed(<<>>)
  BY DEF ufi_write_group, Launched, Polled, Disabled, RestoreEnabled, Asked
<1> QED
  BY <1>1, OverReboot

LEMMA SetMuxReboot ==
    ASSUME IInv, RebootPlan, ufi_set_mram_mux
    PROVE  RebootPlan'
<1> DEFINE clear == Req("frame", Word("clear", 0), {})
<1>1. calls # <<>> /\ Head(calls).r = "set_mram_mux" /\ Proceed(<<clear>>)
  BY DEF ufi_set_mram_mux, Asked
<1>2. clear \in Inner
  <2>1. PICK w : w = Word("clear", 0)
    OBVIOUS
  <2>2. w \in Payload /\ w.k = "clear"
    <3>1. w \in Payload
      BY <2>1, FrameWord
    <3>2. w.k = "clear"
      BY <2>1, WordFields
    <3> QED
      BY <3>1, <3>2
  <2>3. clear \in Harmless /\ clear.r = "frame" /\ clear.a = w
    BY <2>1, <2>2, FrameHarmless, ReqFields
  <2> HIDE DEF clear
  <2> QED
    BY <2>2, <2>3 DEF Inner, Reboots
<1> HIDE DEF clear
<1>3. <<clear>> \in Seq(Inner)
  BY <1>2
<1> QED
  BY <1>1, <1>3, ProceedReboot

LEMMA LowInner ==
    ASSUME NEW more \in Seq(Low)
    PROVE  more \in Seq(Inner)
<1>1. Low \subseteq Inner
  BY DEF Low, Inner, Harmless, Even, Reboots
<1> QED
  BY <1>1

LEMMA SwitchReboot ==
    ASSUME IInv, RebootPlan, dpu_switch_mux_for_rank \/ dpu_switch_mux_for_dpu_line \/ SwitchKeeping
    PROVE  RebootPlan'
<1>1. calls # <<>> /\ Head(calls).r \in {"switch_rank", "switch_line", "keep_line"}
  BY DEF dpu_switch_mux_for_rank, dpu_switch_mux_for_dpu_line, SwitchKeeping, Asked
<1>2. Busy \/ \E more \in Seq(Low) : Proceed(more)
  <2>1. CASE dpu_switch_mux_for_rank
    BY <2>1, RankParts
  <2>2. CASE dpu_switch_mux_for_dpu_line \/ SwitchKeeping
    <3>1. Head(calls) \in Request
      BY <1>1, Plan DEF IInv
    <3>2. Head(calls).a \in Int /\ Head(calls).cis \in SUBSET Ci
      BY <1>1, <3>1 DEF Request
    <3>3. \E cis \in SUBSET Ci : SwitchLine(Head(calls).a, cis)
      <4>1. {c \in Ci \ Head(calls).cis : Head(calls).a \in mux[c]} \in SUBSET Ci
        OBVIOUS
      <4> QED
        BY <2>2, <3>2, <4>1 DEF dpu_switch_mux_for_dpu_line, SwitchKeeping
    <3> QED
      BY <3>2, <3>3, LineParts
  <2> QED
    BY <2>1, <2>2
<1> QED
  BY <1>1, <1>2, LowInner, ProceedReboot

LEMMA MadeReboot ==
    ASSUME IInv, RebootPlan, ci_start_thread_rank \/ dpu_init_groups \/ CiGroups
    PROVE  RebootPlan'
<1>1. calls # <<>> /\ Head(calls).r \in {"start_rank", "init_groups", "ci_groups"}
  BY DEF ci_start_thread_rank, dpu_init_groups, CiGroups, Asked
<1>2. \A more \in Seq(Tame) : more \in Seq(Inner)
  BY DEF Tame
<1>3. \E more \in Seq(Inner) : Proceed(more)
  BY <1>2, StartParts, InitParts, CiParts
<1> QED
  BY <1>1, <1>3, ProceedReboot

(* The first requests of a reset. *)
LEMMA SendReboot ==
    ASSUME IInv, RebootPlan, SendFrame
    PROVE  RebootPlan'
<1>1. calls # <<>> /\ Head(calls).r = "frame" /\ calls' = Tail(calls) /\ UNCHANGED <<mask, target, enabled>>
  BY Over DEF SendFrame, Asked, config
<1>2. CASE ~HasReboot(calls)
  BY <1>1, <1>2, TailReboot
<1>3. CASE HasReboot(calls)
  <2>1. calls = Reset4 \/ calls = Reset5
    BY <1>1, <1>3, RebootHeads
  <2>2. CASE calls = Reset4
    <3>1. calls' = Reset5 /\ Reset5 # Reset3
      BY <1>1, <2>2, ResetApart DEF Reset5
    <3> QED
      BY <1>1, <2>2, <3>1 DEF RebootPlan, Resets, Alive
  <2>3. CASE calls = Reset5
    <3>1. calls' = Reset6
      BY <1>1, <2>3 DEF Reset6
    <3> QED
      BY <3>1, ResetParts, QuietReboot
  <2> QED
    BY <2>1, <2>2, <2>3
<1> QED
  BY <1>2, <1>3

LEMMA SaveReboot ==
    ASSUME IInv, RebootPlan, save_enabled_dpus
    PROVE  RebootPlan'
<1>1. calls # <<>> /\ Head(calls).r = "save" /\ calls' = Tail(calls)
  BY Over DEF save_enabled_dpus, Asked
<1>2. CASE ~HasReboot(calls)
  BY <1>1, <1>2, TailReboot
<1>3. CASE HasReboot(calls)
  <2>1. calls' = Reset1
    BY <1>1, <1>3, RebootHeads DEF Reset1
  <2>2. Reset1 \notin {Reset3, Reset4, Reset5}
    BY ResetApart
  <2> QED
    BY <2>1, <2>2 DEF RebootPlan, Resets
<1> QED
  BY <1>2, <1>3

LEMMA SoftResetReboot ==
    ASSUME IInv, RebootPlan, dpu_soft_reset, ~lost'
    PROVE  RebootPlan'
<1>1. calls # <<>> /\ Head(calls).r = "soft_reset" /\ calls' = Tail(calls) /\ target' = [c \in Ci |-> Empty]
  BY DEF dpu_soft_reset, Asked
<1>2. calls' \in {Reset2, Reset3}
  BY <1>1, Plan DEF IInv
<1>3. Reset2 \notin {Reset3, Reset4, Reset5} /\ Reset3 \notin {Reset4, Reset5}
  BY ResetApart
<1> QED
  BY <1>1, <1>2, <1>3 DEF RebootPlan, Resets

(* After the soft reset ufi_select_all selects all the DPUs of the CIs that have one. *)
LEMMA SelectAllReboot ==
    ASSUME IInv, Exact, RebootPlan, ufi_select_all
    PROVE  RebootPlan'
<1> DEFINE want == [c \in Ci |-> IF enabled[c] = Dpu THEN SelectAll ELSE SelectGroup]
           m == {c \in Head(calls).cis : enabled[c] # {} \/ target[c] = want[c]}
<1>1. calls # <<>> /\ Head(calls).r = "select_all" /\ Select(m, want)
  BY DEF ufi_select_all, Asked
<1>2. calls' = Tail(calls) /\ mask' = m /\ UNCHANGED <<enabled, saved>>
  BY <1>1, Over DEF Select, config
<1>3. CASE ~HasReboot(calls)
  BY <1>1, <1>2, <1>3, TailReboot
<1>4. CASE HasReboot(calls)
  <2>1. calls = Reset3
    BY <1>1, <1>4, RebootHeads
  <2>2. calls' = Reset4 /\ Reset4 # Reset3
    BY <1>2, <2>1, ResetApart DEF Reset4
  <2>3. Head(calls).cis = Ci /\ \A c \in Ci : target[c] = Empty
    BY <2>1, ResetParts, ReqFields DEF RebootPlan, Selecting
  <2>4. AllEnabled
    <3>1. Len(calls) = 7 /\ calls[7].r = "restore" /\ calls[1].r # "save" /\ 7 \in 1..Len(calls)
      BY <2>1, ResetParts
    <3> QED
      BY <3>1 DEF Exact, ResetPlan, AllEnabled
  <2>5. \A c \in Ci : want[c] # Empty
    BY WordFields
  <2>6. \A c \in m : c \in Ci /\ enabled[c] # {}
    BY <2>3, <2>5
  <2>7. \A c \in m : enabled[c] = Dpu /\ want[c] = SelectAll
    BY <2>4, <2>6 DEF AllEnabled
  <2>8. \A c \in m : target'[c] = SelectAll
    <3>1. target' = [c \in Ci |-> IF c \in {x \in m : target[x] # want[x]} THEN want[c] ELSE target[c]]
      BY <1>1 DEF Select
    <3> QED
      BY <2>3, <2>5, <2>6, <2>7, <3>1
  <2> HIDE DEF m, want
  <2>9. \A c \in mask' : c \in Alive' /\ target'[c] = SelectAll
    BY <1>2, <2>6, <2>8 DEF Alive
  <2> QED
    BY <2>2, <2>9 DEF RebootPlan, Resets
<1> QED
  BY <1>3, <1>4

(* Calls. *)
LEMMA CallReboot ==
    ASSUME IInv, RebootPlan, Call
    PROVE  RebootPlan'
<1>1. CASE calls' \in Seq(Tame)
  <2>1. \A j \in 1..Len(calls') : ~Reboots(calls'[j])
    BY <1>1 DEF Tame, Inner
  <2> QED
    BY <2>1, QuietReboot DEF HasReboot
<1>2. CASE calls' = Reset
  <2>1. Reset \notin {Reset3, Reset4, Reset5}
    BY ResetApart
  <2> QED
    BY <1>2, <2>1 DEF RebootPlan, Resets
<1>3. ASSUME NEW c \in Ci, NEW d \in Dpu, calls' = Disable(c, d)
      PROVE  RebootPlan'
  <2>1. PICK x, y, z : x = SelectingDpu(d, {c}) /\ y = Req("write_group", DisabledGroup, {}) /\ z = Req("disabled", d, {c})
    OBVIOUS
  <2>2. x.r = "select_dpu" /\ y.r = "write_group" /\ z.r = "disabled"
    BY <2>1, ReqFields DEF SelectingDpu
  <2>3. calls' = <<x, y, z>>
    BY <1>3, <2>1 DEF Disable
  <2>4. ~Reboots(x) /\ ~Reboots(y) /\ ~Reboots(z)
    BY <2>2 DEF Reboots
  <2>5. Len(calls') = 3 /\ calls'[1] = x /\ calls'[2] = y /\ calls'[3] = z /\ \A j \in 1..3 : j \in {1, 2, 3}
    BY <2>3
  <2>6. ~HasReboot(calls')
    BY <2>4, <2>5 DEF HasReboot
  <2> QED
    BY <2>6, QuietReboot
<1> QED
  BY <1>1, <1>2, <1>3, CallKinds

LEMMA NextReboot ==
    ASSUME IInv, Exact, RebootPlan, [Next]_vars, ~lost'
    PROVE  RebootPlan'
<1>1. CASE UNCHANGED vars
  BY <1>1, SilentReboot DEF vars, engine, caches, config
<1>2. CASE Done
  BY <1>1, <1>2 DEF Done
<1>3. ASSUME NEW c \in Ci, Execute(c)
      PROVE  RebootPlan'
  BY <1>3, SilentReboot DEF Execute, engine, caches, config
<1>4. CASE Commit \/ Update
  <2>1. UNCHANGED <<calls, mask, target, enabled>>
    BY <1>4 DEF Commit, Update, Fails, caches, config
  <2> QED
    BY <2>1, SilentReboot
<1> QED
  BY <1>1, <1>2, <1>3, <1>4, SelectsReboot, WritesReboot, SetMuxReboot, SwitchReboot, MadeReboot, SendReboot, SaveReboot,
     SoftResetReboot, SelectAllReboot, CallReboot
     DEF Next

LEMMA InitReboot == Init => RebootPlan
<1>1. Reset \notin {Reset3, Reset4, Reset5}
  BY ResetApart
<1> QED
  BY <1>1 DEF Init, RebootPlan, Resets

(* As long as no command has failed, the boots of dpu_reset_internal_state are
   still to be sent in none but the first steps of a reset, and the CIs they are
   for have then all their DPUs selected. *)
THEOREM StaysRebooting == Spec => [](~lost => RebootPlan)
<1>1. Init => RebootPlan
  BY InitReboot
<1>2. IInv /\ (~lost => Exact) /\ (~lost => RebootPlan) /\ [Next]_vars => (~lost => RebootPlan)'
  BY NextReboot, LostStays
<1> QED
  BY <1>1, <1>2, Inductive, StaysExact, PTL DEF Spec

-----------------------------------------------------------------------------
(***************************************************************************)
(* Replays.  A CI outside of the mask is handed its last frame again, and  *)
(* by ReplayIdle that changes nothing; what is left is that the frame is   *)
(* no boot.  It could be one only if the request is for some of the CIs    *)
(* that are alive, which happens within a reset and after its soft reset,  *)
(* or if the CI has lost its last DPU after it was booted; the frame that  *)
(* gives a DPU its group comes in between.                                 *)
(***************************************************************************)
Boots(q) == q.r = "frame" /\ q.a.k = "boot"

(* No CI would boot if its last frame were sent again; only one with DPUs  *)
(* would.                                                                  *)
NoBoot == \A c \in Ci : Final(c).k \notin {"boot", "reboot"}
BootAlive == \A c \in Ci : Final(c).k \in {"boot", "reboot"} => c \in Alive

(* ufi_select_all takes a CI without DPUs when it is already selected: it  *)
(* never is.                                                               *)
DeadTarget == \A c \in Ci : enabled[c] = {} => target[c].k # "select group"

(* The boots, the ends of dpu_disable_one_dpu and of the first part of     *)
(* ci_start_thread_rank, the selections of the calls, and their places.    *)
BootShape ==
    \A j \in 1..Len(calls) : Boots(calls[j]) =>
       /\ calls[Len(calls)].r = "launched"
       /\ j = 1 => mask \subseteq Alive
       /\ j # 1 => calls[j - 1].r \in {"select_all", "select_dpu"}

Apart(d, cis) == \A c \in cis : enabled[c] \subseteq {d} => target[c].k # "select group"
DisableShape ==
    \A j \in 1..Len(calls) : calls[j].r = "disabled" =>
       /\ j = 1 => NoBoot
       /\ j # 1 => calls[j - 1].r = "write_group"
       /\ j \in {1, 2} => Apart(calls[j].a, calls[j].cis)
       /\ j \notin {1, 2} => /\ calls[j - 2].r = "select_dpu"
                             /\ calls[j - 2].a = calls[j].a /\ calls[j - 2].cis = calls[j].cis

StartShape ==
    \A j \in 1..Len(calls) : calls[j].r = "start_rank" =>
       /\ j = Len(calls)
       /\ j = 1 => Alive \subseteq mask
       /\ j # 1 => calls[j - 1].r = "select_all" /\ Alive \subseteq calls[j - 1].cis

SelectShape ==
    \A j \in 1..Len(calls) :
       /\ calls[j].r = "select_all" => Alive \subseteq calls[j].cis \/ calls[Len(calls)].r = "restore"
       /\ calls[j].r = "init_groups" => calls[Len(calls)].r = "restore"

(* After the soft resets of ci_reset_rank nothing is booted but all DPUs,  *)
(* and the next command is a read.                                         *)
ResetQuiet ==
    (calls # <<>> /\ calls[Len(calls)].r = "restore" /\ calls \notin {Reset, Reset1, Reset2, Reset6}) => NoBoot

BootPlan == BootShape /\ DisableShape /\ StartShape /\ SelectShape /\ ResetQuiet

(* The words that are on their way to a CI outside of the mask.            *)
Still(x, w) == w = Empty \/ (w.k \notin {"boot", "reboot"} /\ Executed(x, w) = x)
WordsStill ==
    \A c \in Ci \ mask :
       /\ Still(State(hw[c]), hw[c].pending)
       /\ \A i \in 1..Len(queue) : Still(State(hw[c]), queue[i].words[c])

Replayable == DeadTarget /\ BootAlive /\ BootPlan /\ WordsStill

-----------------------------------------------------------------------------

(* A word that changes nothing of what matters changes nothing. *)
LEMMA StillDevice ==
    ASSUME NEW h \in Device, NEW w \in Words, Executed(State(h), w) = State(h)
    PROVE  Executed(h, w) = h
<1>1. PICK z : z = Executed(h, w)
  OBVIOUS
<1>2. z \in Device /\ State(z) = State(h)
  BY <1>1, ExecutedDevice, ExecutedState
<1>3. z.structure = h.structure /\ z.selected = h.selected /\ z.group = h.group /\ z.mux = h.mux
  BY <1>2 DEF State
<1>4. \/ z = h
      \/ \E x : z = [h EXCEPT !.structure = x]
      \/ \E x : z = [h EXCEPT !.selected = x]
      \/ \E x : z = [h EXCEPT !.group = x]
      \/ \E x : z = [h EXCEPT !.mux = x]
  BY <1>1 DEF Executed
<1>5. z.color = h.color /\ z.shown = h.shown /\ z.pending = h.pending
  BY <1>4 DEF Device
<1>6. z = h
  BY <1>2, <1>3, <1>5 DEF Device
<1> QED
  BY <1>1, <1>6

(* Nothing changes but the words on their way. *)
LEMMA SilentReplay ==
    ASSUME Replayable, UNCHANGED <<caches, config, calls, mask>>, WordsStill',
           \A c \in Ci : Final(c)' = Final(c)
    PROVE  Replayable'
<1>1. UNCHANGED <<target, enabled>>
  BY DEF caches, config
<1>2. Alive' = Alive /\ DeadTarget' /\ BootAlive'
  BY <1>1 DEF Alive, Replayable, DeadTarget, BootAlive
<1>3. NoBoot' <=> NoBoot
  BY DEF NoBoot
<1>4. BootShape'
  BY <1>2 DEF Replayable, BootPlan, BootShape
<1>5. DisableShape'
  BY <1>1, <1>3 DEF Replayable, BootPlan, DisableShape, Apart
<1>6. StartShape' /\ SelectShape'
  BY <1>2 DEF Replayable, BootPlan, StartShape, SelectShape
<1>7. ResetQuiet'
  BY <1>3 DEF Replayable, BootPlan, ResetQuiet
<1> QED
  BY <1>2, <1>4, <1>5, <1>6, <1>7 DEF Replayable, BootPlan

LEMMA ExecuteReplay ==
    ASSUME IInv, Exact, Replayable, NEW e \in Ci, Execute(e)
    PROVE  Replayable'
<1>1. /\ UNCHANGED <<queue, cmds, caches, config, calls, mask, failed, wait>>
      /\ \A c \in Ci : Final(c)' = Final(c)
      /\ hw'[e].pending = Empty /\ State(hw'[e]) = Reached(e) /\ \A c \in Ci : c # e => hw'[c] = hw[c]
  BY ExecuteSettled
<1>2. ASSUME NEW c \in Ci \ mask
      PROVE  State(hw'[c]) = State(hw[c]) /\ (hw'[c].pending = Empty \/ hw'[c].pending = hw[c].pending)
  <2>1. CASE c = e
    <3>1. Still(State(hw[e]), hw[e].pending)
      BY <1>2, <2>1 DEF Replayable, WordsStill
    <3>2. Reached(e) = State(hw[e])
      BY <3>1, EmptyIdle DEF Still, Reached
    <3> QED
      BY <1>1, <2>1, <3>2
  <2>2. CASE c # e
    BY <1>1, <2>2
  <2> QED
    BY <2>1, <2>2
<1>3. WordsStill'
  <2> SUFFICES ASSUME NEW c \in Ci \ mask
               PROVE  /\ Still(State(hw'[c]), hw'[c].pending)
                      /\ \A i \in 1..Len(queue) : Still(State(hw'[c]), queue[i].words[c])
    BY <1>1 DEF WordsStill
  <2>1. /\ Still(State(hw[c]), hw[c].pending)
        /\ \A i \in 1..Len(queue) : Still(State(hw[c]), queue[i].words[c])
    BY DEF Replayable, WordsStill
  <2>2. Still(State(hw[c]), Empty)
    BY DEF Still
  <2> QED
    BY <1>2, <2>1, <2>2
<1> QED
  BY <1>1, <1>3, SilentReplay

LEMMA CommitReplay ==
    ASSUME IInv, Exact, Replayable, Commit, ~lost'
    PROVE  Replayable'
<1>1. /\ UNCHANGED <<caches, config, calls, mask, failed>>
      /\ queue \in Seq(Cmd) /\ queue # <<>> /\ queue' = Tail(queue)
      /\ \A c \in Ci : Final(c)' = Final(c)
      /\ \A c \in Ci : State(hw'[c]) = State(hw[c]) /\ hw'[c].pending \in {Empty, queue[1].words[c]}
  BY CommitSettled
<1>2. PICK n, k : n = Len(queue) /\ k = Len(queue')
  OBVIOUS
<1>3. n \in Nat /\ 1 \in 1..n /\ \A i \in 1..k : i + 1 \in 1..n /\ queue'[i] = queue[i + 1]
  <2>1. Len(Tail(queue)) = Len(queue) - 1 /\ Len(queue) \in Nat /\ Len(queue) # 0
    BY <1>1
  <2>2. \A i \in 1..Len(Tail(queue)) : Tail(queue)[i] = queue[i + 1]
    BY <1>1
  <2>3. k = n - 1 /\ n \in Nat /\ n # 0
    BY <1>1, <1>2, <2>1
  <2> QED
    BY <1>1, <1>2, <2>2, <2>3
<1>4. WordsStill'
  <2> SUFFICES ASSUME NEW c \in Ci \ mask
               PROVE  /\ Still(State(hw'[c]), hw'[c].pending)
                      /\ \A i \in 1..k : Still(State(hw'[c]), queue'[i].words[c])
    BY <1>1, <1>2 DEF WordsStill
  <2>1. \A i \in 1..n : Still(State(hw[c]), queue[i].words[c])
    BY <1>2 DEF Replayable, WordsStill
  <2>2. Still(State(hw[c]), Empty)
    BY DEF Still
  <2> QED
    BY <1>1, <1>3, <2>1, <2>2
<1> QED
  BY <1>1, <1>4, SilentReplay

LEMMA UpdateReplay ==
    ASSUME IInv, Exact, Replayable, Update, ~lost'
    PROVE  Replayable'
<1>1. UNCHANGED <<caches, config, cmds, hw, calls, queue, mask>>
  BY DEF Update, Fails, count
<1>2. \A c \in Ci : Final(c)' = Final(c)
  BY <1>1, SettledSame
<1>3. WordsStill'
  BY <1>1 DEF Replayable, WordsStill
<1> QED
  BY <1>1, <1>2, <1>3, SilentReplay

(* The frames of a request: those of the CIs outside of the mask are still. *)
OthersStill(s, f) ==
    \A c \in Ci \ mask' :
       s.words[c] = Empty /\ (f.words[c] = Empty \/ (f.words[c] = cmds[c] /\ cmds[c].k \notin {"boot", "reboot"}))

LEMMA SentStill ==
    ASSUME IInv, Exact, queue = <<>>, ~wait.on, hw' = hw,
           NEW s, NEW f, NEW b \in BOOLEAN, queue' = If(b, <<s>>) \o <<f>>, OthersStill(s, f)
    PROVE  WordsStill' /\ \A c \in Ci : Final(c)' = f.words[c]
<1>1. /\ queue' # <<>> /\ queue'[Len(queue')] = f
      /\ \A i \in 1..Len(queue') : queue'[i] \in {s, f}
  <2>1. CASE b
    <3>1. PICK q : q = <<s>> \o <<f>>
      OBVIOUS
    <3>2. Len(q) = 2 /\ q # <<>> /\ q[1] = s /\ q[2] = f
      BY <3>1, TwoCommands
    <3>3. \A i \in 1..2 : i \in {1, 2}
      OBVIOUS
    <3>4. \A i \in 1..Len(q) : q[i] \in {s, f}
      BY <3>2, <3>3
    <3>5. queue' = q
      BY <2>1, <3>1 DEF If
    <3> QED
      BY <3>2, <3>4, <3>5
  <2>2. CASE ~b
    <3>1. PICK q : q = <<f>>
      OBVIOUS
    <3>2. Len(q) = 1 /\ q # <<>> /\ q[1] = f
      BY <3>1, OneCommand
    <3>3. \A i \in 1..1 : i = 1
      OBVIOUS
    <3>4. \A i \in 1..Len(q) : q[i] \in {s, f}
      BY <3>2, <3>3
    <3>5. queue' = q
      BY <2>2, <3>1, OneCommand DEF If
    <3> QED
      BY <3>2, <3>4, <3>5
  <2> QED
    BY <2>1, <2>2
<1>2. \A c \in Ci : Final(c)' = f.words[c]
  BY <1>1 DEF Final
<1>3. ASSUME NEW c \in Ci \ mask'
      PROVE  /\ Still(State(hw[c]), hw[c].pending)
             /\ \A i \in 1..Len(queue') : Still(State(hw[c]), queue'[i].words[c])
  <2>1. hw[c].pending = Empty /\ Settled(c) = State(hw[c]) /\ Final(c) = cmds[c]
    BY AtRequest
  <2>2. Executed(State(hw[c]), cmds[c]) = State(hw[c])
    BY <2>1 DEF Exact, ReplayIdle
  <2>3. Still(State(hw[c]), Empty)
    BY DEF Still
  <2>4. Still(State(hw[c]), s.words[c]) /\ Still(State(hw[c]), f.words[c])
    BY <2>2, <2>3 DEF Still, OthersStill
  <2> QED
    BY <1>1, <2>1, <2>3, <2>4
<1>4. WordsStill'
  BY <1>3 DEF WordsStill
<1> QED
  BY <1>2, <1>4

LEMMA NothingStill ==
    ASSUME IInv, Exact, queue = <<>>, ~wait.on, queue' = queue, hw' = hw
    PROVE  WordsStill'
<1>1. Len(queue') = 0
  OBVIOUS
<1>2. \A c \in Ci : hw[c].pending = Empty
  BY AtRequest
<1>3. 1..Len(queue') = {}
  BY <1>1
<1> QED
  BY <1>2, <1>3 DEF WordsStill, Still

(* UFI_exec_void_frame clears the words of the others. *)
LEMMA VoidFrameStill ==
    ASSUME IInv, Exact, queue = <<>>, ~wait.on, hw' = hw, NEW m \in SUBSET Ci, mask' = m, NEW w, VoidFrame(m, w)
    PROVE  WordsStill' /\ \A c \in Ci : Final(c)' = IF c \in m THEN w ELSE Empty
<1> DEFINE s == Command(Prepared(m, Structure(w)), TRUE)
           f == Command(Prepared(m, w), TRUE)
           b == Differing(m, [c \in m |-> w]) # {}
<1>1. b \in BOOLEAN /\ queue' = If(b, <<s>>) \o <<f>>
  BY DEF VoidFrame
<1>2. \A c \in Ci : s.words[c] = (IF c \in m THEN Structure(w) ELSE Empty) /\ f.words[c] = IF c \in m THEN w ELSE Empty
  BY DEF Command, Prepared
<1> HIDE DEF s, f, b
<1>3. OthersStill(s, f)
  BY <1>2 DEF OthersStill
<1>4. WordsStill' /\ \A c \in Ci : Final(c)' = f.words[c]
  BY <1>1, <1>3, SentStill
<1> QED
  BY <1>2, <1>4

(* What a request leaves behind it. *)
Quieter == \A c \in Ci : Final(c)'.k \in {"boot", "reboot"} => Final(c).k \in {"boot", "reboot"}
Leaves(q) ==
    /\ q.r \in {"select_all", "select_dpu"} => mask' \subseteq Alive'
    /\ q.r = "select_all" => Alive \cap q.cis \subseteq mask'
    /\ q.r = "select_dpu" => \A c \in q.cis : enabled'[c] \subseteq {q.a} => target'[c].k # "select group"
    /\ q.r = "write_group" => NoBoot' /\ UNCHANGED <<enabled, target>>
    /\ q.r = "soft_reset" => NoBoot'
    /\ calls = Reset6 => NoBoot'
    /\ Boots(q) \/ calls = Reset5 \/ Quieter

LEMMA NotReset6 ==
    ASSUME Head(calls).r # "frame"
    PROVE  calls # Reset6
  BY ResetParts, RebootWords

(* A request is over. *)
LEMMA TailBoot ==
    ASSUME IInv, BootPlan, calls # <<>>, calls' = Tail(calls), Alive' \subseteq Alive, Leaves(Head(calls))
    PROVE  BootPlan'
<1>1. calls \in Seq(Request)
  BY CallsSeq DEF IInv
<1>2. PICK t, n, k : t = calls' /\ n = Len(calls) /\ k = Len(calls')
  OBVIOUS
<1>3. /\ n \in Nat /\ k = n - 1 /\ 1 \in 1..n /\ Head(calls) = calls[1]
      /\ \A j \in 1..k : t[j] = calls[j + 1] /\ j + 1 \in 1..n
  BY <1>1, <1>2, TailCalls
<1>4. k # 0 => t[k] = calls[n]
  BY <1>3
<1>5. ASSUME NEW j \in 1..k, Boots(t[j])
      PROVE  /\ t[k].r = "launched" /\ (j = 1 => mask' \subseteq Alive')
             /\ j # 1 => t[j - 1].r \in {"select_all", "select_dpu"}
  <2>1. Boots(calls[j + 1]) /\ j + 1 \in 1..n /\ j + 1 # 1 /\ (j + 1) - 1 = j
    BY <1>3, <1>5
  <2>2. calls[n].r = "launched" /\ calls[(j + 1) - 1].r \in {"select_all", "select_dpu"}
    BY <1>2, <2>1 DEF BootPlan, BootShape
  <2>3. calls[j].r \in {"select_all", "select_dpu"}
    BY <2>1, <2>2
  <2>4. j # 1 => t[j - 1] = calls[j]
    BY <1>3
  <2>5. t[k].r = "launched"
    BY <1>3, <1>4, <2>2
  <2> QED
    BY <1>3, <2>3, <2>4, <2>5 DEF Leaves
<1>6. BootShape'
  BY <1>2, <1>5 DEF BootShape
<1>7. ASSUME NEW j \in 1..k, t[j].r = "disabled"
      PROVE  /\ j = 1 => NoBoot'
             /\ j # 1 => t[j - 1].r = "write_group"
             /\ j \in {1, 2} => \A c \in t[j].cis : enabled'[c] \subseteq {t[j].a} => target'[c].k # "select group"
             /\ j \notin {1, 2} => t[j - 2].r = "select_dpu" /\ t[j - 2].a = t[j].a /\ t[j - 2].cis = t[j].cis
  <2>1. /\ calls[j + 1].r = "disabled" /\ j + 1 \in 1..n /\ j + 1 # 1 /\ (j + 1) - 1 = j /\ (j + 1) - 2 = j - 1
        /\ t[j] = calls[j + 1]
    BY <1>3, <1>7
  <2>2. /\ calls[(j + 1) - 1].r = "write_group"
        /\ j + 1 \in {1, 2} => Apart(calls[j + 1].a, calls[j + 1].cis)
        /\ j + 1 \notin {1, 2} => /\ calls[(j + 1) - 2].r = "select_dpu"
                                  /\ calls[(j + 1) - 2].a = calls[j + 1].a /\ calls[(j + 1) - 2].cis = calls[j + 1].cis
    BY <1>2, <2>1 DEF BootPlan, DisableShape
  <2>3. calls[j].r = "write_group"
    BY <2>1, <2>2
  <2>4. CASE j = 1
    <3>1. NoBoot' /\ UNCHANGED <<enabled, target>>
      BY <1>3, <2>3, <2>4 DEF Leaves
    <3>2. Apart(t[j].a, t[j].cis)
      BY <2>1, <2>2, <2>4
    <3> QED
      BY <2>4, <3>1, <3>2 DEF Apart
  <2>5. CASE j # 1
    <3>1. t[j - 1] = calls[j] /\ j + 1 \notin {1, 2}
      BY <1>3, <2>5
    <3>2. calls[j - 1].r = "select_dpu" /\ calls[j - 1].a = t[j].a /\ calls[j - 1].cis = t[j].cis
      BY <2>1, <2>2, <3>1
    <3>3. ASSUME j = 2
          PROVE  \A c \in t[j].cis : enabled'[c] \subseteq {t[j].a} => target'[c].k # "select group"
      <4>1. Head(calls).r = "select_dpu" /\ Head(calls).a = t[j].a /\ Head(calls).cis = t[j].cis
        BY <1>3, <3>2, <3>3
      <4> QED
        BY <4>1 DEF Leaves
    <3>4. ASSUME j # 2
          PROVE  t[j - 2] = calls[j - 1]
      <4>1. j - 2 \in 1..k /\ (j - 2) + 1 = j - 1
        BY <1>3, <2>5, <3>4
      <4> QED
        BY <1>3, <4>1
    <3> QED
      BY <2>3, <2>5, <3>1, <3>2, <3>3, <3>4
  <2> QED
    BY <2>4, <2>5
<1>8. DisableShape'
  <2>1. calls' = t /\ Len(calls') = k
    BY <1>2
  <2> SUFFICES ASSUME NEW j \in 1..k, t[j].r = "disabled"
               PROVE  /\ j = 1 => NoBoot'
                      /\ j # 1 => t[j - 1].r = "write_group"
                      /\ j \in {1, 2} => Apart(t[j].a, t[j].cis)'
                      /\ j \notin {1, 2} => t[j - 2].r = "select_dpu" /\ t[j - 2].a = t[j].a /\ t[j - 2].cis = t[j].cis
    BY <2>1 DEF DisableShape
  <2>2. (\A c \in t[j].cis : enabled'[c] \subseteq {t[j].a} => target'[c].k # "select group") => Apart(t[j].a, t[j].cis)'
    BY DEF Apart
  <2> QED
    BY <1>7, <2>2
<1>9. ASSUME NEW j \in 1..k, t[j].r = "start_rank"
      PROVE  /\ j = k /\ (j = 1 => Alive' \subseteq mask')
             /\ j # 1 => t[j - 1].r = "select_all" /\ Alive' \subseteq t[j - 1].cis
  <2>1. calls[j + 1].r = "start_rank" /\ j + 1 \in 1..n /\ j + 1 # 1 /\ (j + 1) - 1 = j
    BY <1>3, <1>9
  <2>2. j + 1 = n /\ calls[(j + 1) - 1].r = "select_all" /\ Alive \subseteq calls[(j + 1) - 1].cis
    BY <1>2, <2>1 DEF BootPlan, StartShape
  <2>3. j = k /\ calls[j].r = "select_all" /\ Alive \subseteq calls[j].cis
    BY <1>3, <2>1, <2>2
  <2>4. j # 1 => t[j - 1] = calls[j]
    BY <1>3
  <2>5. j = 1 => Alive \cap Head(calls).cis \subseteq mask' /\ Alive \subseteq Head(calls).cis
    BY <1>3, <2>3 DEF Leaves
  <2> QED
    BY <2>3, <2>4, <2>5
<1>10. StartShape'
  BY <1>2, <1>9 DEF StartShape
<1>11. ASSUME NEW j \in 1..k
       PROVE  /\ t[j].r = "select_all" => Alive' \subseteq t[j].cis \/ t[k].r = "restore"
              /\ t[j].r = "init_groups" => t[k].r = "restore"
  <2>1. t[j] = calls[j + 1] /\ j + 1 \in 1..n /\ t[k] = calls[n]
    BY <1>3, <1>4
  <2>2. /\ calls[j + 1].r = "select_all" => Alive \subseteq calls[j + 1].cis \/ calls[n].r = "restore"
        /\ calls[j + 1].r = "init_groups" => calls[n].r = "restore"
    BY <1>2, <2>1 DEF BootPlan, SelectShape
  <2> QED
    BY <2>1, <2>2
<1>12. SelectShape'
  BY <1>2, <1>11 DEF SelectShape
<1>13. ResetQuiet'
  <2> SUFFICES ASSUME t # <<>>, t[k].r = "restore", t \notin {Reset, Reset1, Reset2, Reset6}
               PROVE  NoBoot'
    BY <1>2 DEF ResetQuiet
  <2>1. k # 0
    BY <1>1, <1>2, TailCalls, EmptySeq
  <2>2. calls[n].r = "restore"
    BY <1>4, <2>1
  <2>3. CASE calls \in {Reset, Reset1, Reset2}
    <3>1. calls = Reset2
      BY <1>2, <2>3 DEF Reset1, Reset2
    <3>2. Head(calls).r = "soft_reset"
      BY <3>1, ResetRest
    <3> QED
      BY <3>2 DEF Leaves
  <2>4. CASE calls = Reset6
    BY <2>4 DEF Leaves
  <2>5. calls # Reset5
    BY <1>2 DEF Reset6
  <2>6. CASE calls \notin {Reset, Reset1, Reset2, Reset6}
    <3>1. NoBoot
      BY <1>2, <2>2, <2>6 DEF BootPlan, ResetQuiet
    <3>2. ~Boots(Head(calls))
      <4>1. Boots(calls[1]) => calls[n].r = "launched"
        BY <1>2, <1>3 DEF BootPlan, BootShape
      <4> QED
        BY <1>3, <2>2, <4>1
    <3> QED
      BY <2>5, <3>1, <3>2 DEF Leaves, Quieter, NoBoot
  <2> QED
    BY <2>3, <2>4, <2>6
<1> QED
  BY <1>6, <1>8, <1>10, <1>12, <1>13 DEF BootPlan

(* A request makes way for others, which boot only after a selection, and  *)
(* at the end of a call, and select some of the CIs only within a reset.   *)
Orderly(s) ==
    \A j \in 1..Len(s) :
       /\ Boots(s[j]) => /\ j # 1 /\ s[j - 1].r \in {"select_all", "select_dpu"}
                         /\ s[Len(s)].r = "launched" /\ Len(calls) = 1
       /\ s[j].r \notin {"start_rank", "init_groups"}
       /\ s[j].r = "select_all" => Alive \subseteq s[j].cis \/ calls[Len(calls)].r = "restore"

LEMMA MoreBoot ==
    ASSUME IInv, BootPlan, calls # <<>>, NEW more \in Seq(Inner), calls' = more \o Tail(calls), Orderly(more),
           Head(calls).r \notin {"select_all", "select_dpu", "write_group", "save", "soft_reset", "restore", "frame"},
           ~Boots(Head(calls)), Quieter, UNCHANGED <<enabled, target, mask>>
    PROVE  BootPlan'
<1>1. calls \in Seq(Request)
  BY CallsSeq DEF IInv
<1>2. PICK t, n, k, l : t = calls' /\ n = Len(more) /\ k = Len(calls') /\ l = Len(calls)
  OBVIOUS
<1>3. /\ n \in Nat /\ l \in Nat /\ k = n + l - 1 /\ l >= 1 /\ Head(calls) = calls[1]
      /\ \A j \in 1..n : t[j] = more[j] /\ more[j] \in Inner
      /\ \A j \in 1..k : j > n => t[j] = calls[j - n + 1] /\ j - n + 1 \in 2..l
  <2>1. /\ t \in Seq(Request) /\ Len(t) = Len(more) + Len(calls) - 1 /\ Len(more) \in Nat /\ Len(calls) \in Nat
        /\ \A j \in 1..Len(more) : t[j] = more[j] /\ more[j] \in Inner
        /\ \A j \in 1..Len(t) : j > Len(more) => t[j] = calls[j - Len(more) + 1] /\ j - Len(more) + 1 \in 2..Len(calls)
    BY <1>1, <1>2, MoreCallsLeft
  <2>2. n \in Nat /\ l \in Nat /\ k = n + l - 1
    BY <1>2, <2>1
  <2>3. l >= 1 /\ Head(calls) = calls[1]
    BY <1>1, <1>2, TailCalls
  <2> QED
    BY <1>2, <2>1, <2>2, <2>3
<1>4. Alive' = Alive
  BY DEF Alive
<1>5. l # 1 => k > n /\ t[k] = calls[l] /\ k - n + 1 = l
  <2>1. ASSUME l # 1
        PROVE  k \in 1..k /\ k > n /\ k - n + 1 = l
    BY <1>3, <2>1
  <2> QED
    BY <1>3, <2>1
<1>6. l = 1 => k = n
  BY <1>3
<1>7. ASSUME NEW j \in 1..k, j > n
      PROVE  /\ t[j] = calls[j - n + 1] /\ j - n + 1 \in 1..l /\ j - n + 1 # 1 /\ (j - n + 1) - 1 = j - n /\ l # 1
             /\ j - n # 1 => j # 1 /\ t[j - 1] = calls[j - n]
             /\ j - n \notin {1, 2} => j \notin {1, 2} /\ t[j - 2] = calls[j - n - 1]
  <2>1. t[j] = calls[j - n + 1] /\ j - n + 1 \in 1..l /\ j - n + 1 # 1 /\ (j - n + 1) - 1 = j - n /\ l # 1
    BY <1>3, <1>7
  <2>2. ASSUME j - n # 1
        PROVE  j # 1 /\ t[j - 1] = calls[j - n]
    <3>1. j - 1 \in 1..k /\ j - 1 > n /\ (j - 1) - n + 1 = j - n
      BY <1>3, <1>7, <2>2
    <3>2. t[j - 1] = calls[(j - 1) - n + 1]
      BY <1>3, <3>1
    <3> QED
      BY <1>3, <3>1, <3>2
  <2>3. ASSUME j - n \notin {1, 2}
        PROVE  j \notin {1, 2} /\ t[j - 2] = calls[j - n - 1]
    <3>0. n \in Nat /\ k \in Int /\ j \in 1..k /\ j > n /\ j - n # 1 /\ j - n # 2
      BY <1>3, <1>7, <2>3
    <3>1. j - 2 \in 1..k /\ j - 2 > n /\ (j - 2) - n + 1 = j - n - 1
      BY <3>0
    <3>2. t[j - 2] = calls[(j - 2) - n + 1]
      BY <1>3, <3>1
    <3> QED
      BY <1>3, <3>1, <3>2
  <2> QED
    BY <2>1, <2>2, <2>3
<1>8. ASSUME NEW j \in 1..k, Boots(t[j])
      PROVE  t[k].r = "launched" /\ j # 1 /\ t[j - 1].r \in {"select_all", "select_dpu"}
  <2>1. CASE j > n
    <3>1. /\ t[j] = calls[j - n + 1] /\ j - n + 1 \in 1..l /\ j - n + 1 # 1 /\ (j - n + 1) - 1 = j - n /\ l # 1
          /\ j - n # 1 => j # 1 /\ t[j - 1] = calls[j - n]
      BY <1>7, <2>1
    <3>2. calls[l].r = "launched" /\ calls[(j - n + 1) - 1].r \in {"select_all", "select_dpu"}
      BY <1>2, <1>8, <3>1 DEF BootPlan, BootShape
    <3>3. calls[j - n].r \in {"select_all", "select_dpu"}
      BY <3>1, <3>2
    <3>4. j - n # 1
      BY <1>3, <3>3
    <3> QED
      BY <1>5, <3>1, <3>2, <3>3, <3>4
  <2>2. CASE ~(j > n)
    <3>1. j \in 1..n /\ t[j] = more[j]
      BY <1>3, <2>2
    <3>2. j # 1 /\ more[j - 1].r \in {"select_all", "select_dpu"} /\ more[n].r = "launched" /\ l = 1
      BY <1>2, <1>8, <3>1 DEF Orderly
    <3>3. t[j - 1] = more[j - 1] /\ t[n] = more[n]
      BY <1>3, <3>1, <3>2
    <3> QED
      BY <1>6, <3>2, <3>3
  <2> QED
    BY <2>1, <2>2
<1>9. BootShape'
  BY <1>2, <1>8 DEF BootShape
<1>10. ASSUME NEW j \in 1..k, t[j].r = "disabled"
       PROVE  /\ j \notin {1, 2} /\ t[j - 1].r = "write_group"
              /\ t[j - 2].r = "select_dpu" /\ t[j - 2].a = t[j].a /\ t[j - 2].cis = t[j].cis
  <2>1. j > n
    <3>1. \A q \in Inner : q.r # "disabled"
      BY DEF Inner
    <3>2. j \notin 1..n
      BY <1>3, <1>10, <3>1
    <3>3. n \in Nat /\ j \in Nat /\ 1 <= j
      BY <1>3, <1>10
    <3> QED
      BY <3>2, <3>3
  <2>2. /\ t[j] = calls[j - n + 1] /\ j - n + 1 \in 1..l /\ j - n + 1 # 1 /\ (j - n + 1) - 1 = j - n
        /\ j - n # 1 => j # 1 /\ t[j - 1] = calls[j - n]
        /\ j - n \notin {1, 2} => j \notin {1, 2} /\ t[j - 2] = calls[j - n - 1]
    BY <1>7, <2>1
  <2>3. /\ calls[(j - n + 1) - 1].r = "write_group"
        /\ j - n + 1 \notin {1, 2} =>
              /\ calls[(j - n + 1) - 2].r = "select_dpu" /\ calls[(j - n + 1) - 2].a = calls[j - n + 1].a
              /\ calls[(j - n + 1) - 2].cis = calls[j - n + 1].cis
    BY <1>2, <1>10, <2>2 DEF BootPlan, DisableShape
  <2>4. calls[j - n].r = "write_group"
    BY <2>2, <2>3
  <2>5. j - n # 1
    BY <1>3, <2>4
  <2>6. j - n + 1 \notin {1, 2} /\ (j - n + 1) - 2 = j - n - 1
    BY <1>3, <2>2, <2>5
  <2>7. calls[j - n - 1].r = "select_dpu" /\ calls[j - n - 1].a = t[j].a /\ calls[j - n - 1].cis = t[j].cis
    BY <2>2, <2>3, <2>6
  <2>8. j - n # 2
    <3>1. ASSUME j - n = 2
          PROVE  j - n - 1 = 1
      BY <3>1
    <3> QED
      BY <1>3, <2>7, <3>1
  <2> QED
    BY <2>2, <2>4, <2>5, <2>7, <2>8
<1>11. DisableShape'
  BY <1>2, <1>10 DEF DisableShape
<1>12. ASSUME NEW j \in 1..k, t[j].r = "start_rank"
       PROVE  j = k /\ j # 1 /\ t[j - 1].r = "select_all" /\ Alive \subseteq t[j - 1].cis
  <2>1. j > n
    BY <1>2, <1>3, <1>12 DEF Orderly
  <2>2. /\ t[j] = calls[j - n + 1] /\ j - n + 1 \in 1..l /\ j - n + 1 # 1 /\ (j - n + 1) - 1 = j - n
        /\ j - n # 1 => j # 1 /\ t[j - 1] = calls[j - n]
    BY <1>7, <2>1
  <2>3. j - n + 1 = l /\ calls[(j - n + 1) - 1].r = "select_all" /\ Alive \subseteq calls[(j - n + 1) - 1].cis
    BY <1>2, <1>12, <2>2 DEF BootPlan, StartShape
  <2>4. j = k /\ calls[j - n].r = "select_all" /\ Alive \subseteq calls[j - n].cis
    BY <1>3, <2>2, <2>3
  <2>5. j - n # 1
    BY <1>3, <2>4
  <2> QED
    BY <2>2, <2>4, <2>5
<1>13. StartShape'
  BY <1>2, <1>4, <1>12 DEF StartShape
<1>14. calls[l].r = "restore" => t[k].r = "restore"
  BY <1>3, <1>5
<1>15. ASSUME NEW j \in 1..k
       PROVE  /\ t[j].r = "select_all" => Alive \subseteq t[j].cis \/ t[k].r = "restore"
              /\ t[j].r = "init_groups" => t[k].r = "restore"
  <2>1. CASE j > n
    <3>1. t[j] = calls[j - n + 1] /\ j - n + 1 \in 1..l
      BY <1>7, <2>1
    <3> QED
      BY <1>2, <1>14, <3>1 DEF BootPlan, SelectShape
  <2>2. CASE ~(j > n)
    <3>1. j \in 1..n /\ t[j] = more[j]
      BY <1>3, <2>2
    <3> QED
      BY <1>2, <1>14, <3>1 DEF Orderly
  <2> QED
    BY <2>1, <2>2
<1>16. SelectShape'
  BY <1>2, <1>4, <1>15 DEF SelectShape
<1>17. ResetQuiet'
  <2> SUFFICES ASSUME k # 0, t[k].r = "restore"
               PROVE  NoBoot'
    <3>1. t # <<>> => k # 0
      <4>1. t \in Seq(Request)
        BY <1>1, <1>2, MoreCallsLeft
      <4> QED
        BY <1>2, <4>1
    <3> QED
      BY <1>2, <3>1 DEF ResetQuiet
  <2>1. l # 1
    <3>1. \A q \in Inner : q.r # "restore"
      BY DEF Inner
    <3>2. ASSUME l = 1
          PROVE  FALSE
      <4>1. k \in 1..n
        BY <1>3, <1>6, <3>2
      <4> QED
        BY <1>3, <3>1, <4>1
    <3> QED
      BY <3>2
  <2>2. calls[l].r = "restore"
    BY <1>5, <2>1
  <2>3. calls \notin {Reset, Reset1, Reset2, Reset6}
    BY ResetRest, NotReset6
  <2>4. NoBoot
    BY <1>2, <2>2, <2>3 DEF BootPlan, ResetQuiet
  <2> QED
    BY <2>4 DEF NoBoot, Quieter
<1> QED
  BY <1>9, <1>11, <1>13, <1>16, <1>17 DEF BootPlan

(* A selection of the CIs of m: none of the others would boot. *)
LEMMA SelectReplay ==
    ASSUME IInv, Exact, Replayable, calls # <<>>, queue = <<>>, ~wait.on,
           Head(calls).r \in {"select_all", "select_all_even_disabled"},
           NEW m \in SUBSET Alive, NEW want \in [Ci -> Selection], Select(m, want),
           \A c \in Ci \ m : Final(c).k \notin {"boot", "reboot"},
           Alive \cap Head(calls).cis \subseteq m
    PROVE  Replayable'
<1> DEFINE do == {c \in m : target[c] # want[c]}
           structs == [c \in Ci |-> IF c \in do THEN Structure(want[c]) ELSE Empty]
           frames == [c \in Ci |-> IF c \in do THEN want[c] ELSE cmds[c]]
           s == Command(structs, FALSE)
           f == Command(frames, TRUE)
           b == Differing(do, want) # {}
<1>1. /\ mask' = m /\ target' = [c \in Ci |-> IF c \in do THEN want[c] ELSE target[c]]
      /\ Proceed(<<>>) /\ UNCHANGED config
      /\ IF do = {} THEN UNCHANGED <<queue, cmds>>
         ELSE cmds' = frames /\ queue' = If(b, <<s>>) \o <<f>>
  BY DEF Select, VoidFrames
<1>2. calls' = Tail(calls) /\ hw' = hw
  BY <1>1, Over
<1>3. do \subseteq m /\ m \subseteq Ci /\ b \in BOOLEAN /\ enabled' = enabled /\ Alive' = Alive
  BY <1>1 DEF Alive, config
<1>4. \A c \in Ci : s.words[c] = (IF c \in do THEN Structure(want[c]) ELSE Empty)
                    /\ f.words[c] = IF c \in do THEN want[c] ELSE cmds[c]
  BY DEF Command
<1> HIDE DEF do, s, f, b, structs, frames
<1>5. \A c \in Ci : Final(c) = cmds[c]
  BY AtRequest
<1>6. WordsStill' /\ \A c \in Ci : Final(c)' = (IF c \in do THEN want[c] ELSE cmds[c])
  <2>1. CASE do = {}
    <3>1. UNCHANGED <<queue, cmds, hw>>
      BY <1>1, <1>2, <2>1
    <3>2. \A c \in Ci : Final(c)' = Final(c)
      BY <3>1, SettledSame
    <3>3. WordsStill'
      BY <3>1, NothingStill
    <3> QED
      BY <1>5, <2>1, <3>2, <3>3
  <2>2. CASE do # {}
    <3>1. queue' = If(b, <<s>>) \o <<f>>
      BY <1>1, <2>2
    <3>2. OthersStill(s, f)
      BY <1>1, <1>3, <1>4, <1>5 DEF OthersStill
    <3>3. WordsStill' /\ \A c \in Ci : Final(c)' = f.words[c]
      BY <1>2, <1>3, <3>1, <3>2, SentStill
    <3> QED
      BY <1>4, <3>3
  <2> QED
    BY <2>1, <2>2
<1>7. Quieter
  <2>1. \A w \in Selection : w.k \notin {"boot", "reboot"}
    BY DEF Selection
  <2> QED
    BY <1>5, <1>6, <2>1 DEF Quieter
<1>8. BootAlive'
  BY <1>3, <1>7 DEF Quieter, Replayable, BootAlive
<1>9. DeadTarget'
  <2>1. \A c \in do : enabled[c] # {}
    BY <1>3 DEF Alive
  <2> QED
    BY <1>1, <1>3, <2>1 DEF Replayable, DeadTarget
<1>10. Leaves(Head(calls))
  BY <1>1, <1>3, <1>7, NotReset6 DEF Leaves
<1>11. BootPlan'
  BY <1>2, <1>3, <1>10, TailBoot DEF Replayable
<1> QED
  BY <1>6, <1>8, <1>9, <1>11 DEF Replayable

(* ufi_select_all leaves out CIs that are alive only within a reset. *)
LEMMA SelectAllReplay ==
    ASSUME IInv, Exact, Replayable, ufi_select_all
    PROVE  Replayable'
<1> DEFINE want == [c \in Ci |-> IF enabled[c] = Dpu THEN SelectAll ELSE SelectGroup]
           m == {c \in Head(calls).cis : enabled[c] # {} \/ target[c] = want[c]}
<1>1. calls # <<>> /\ queue = <<>> /\ ~wait.on /\ Head(calls).r = "select_all" /\ Select(m, want)
  BY DEF ufi_select_all, Asked
<1>2. Head(calls).cis \in SUBSET Ci
  BY <1>1, Plan DEF IInv, Request
<1>3. want \in [Ci -> Selection]
  BY Selections
<1>4. ASSUME NEW c \in m
      PROVE  c \in Alive
  <2>1. c \in Ci
    BY <1>2
  <2>2. ASSUME enabled[c] = {}
        PROVE  FALSE
    <3>1. 0 \in Dpu
      BY CiAssumption DEF Dpu
    <3>2. target[c] = SelectGroup
      BY <2>1, <2>2, <3>1
    <3> QED
      BY <2>1, <2>2, <3>2, WordFields DEF Replayable, DeadTarget
  <2> QED
    BY <2>1, <2>2 DEF Alive
<1>5. Alive \cap Head(calls).cis \subseteq m
  BY DEF Alive
<1> HIDE DEF m, want
<1>6. ASSUME NEW c \in Ci \ m, Final(c).k \in {"boot", "reboot"}
      PROVE  FALSE
  <2>1. c \in Alive
    BY <1>6 DEF Replayable, BootAlive
  <2>2. ~(Alive \subseteq Head(calls).cis)
    BY <1>5, <2>1
  <2>3. Head(calls) = calls[1] /\ 1 \in 1..Len(calls)
    BY <1>1, CallsSeq, TailCalls DEF IInv
  <2>4. calls[Len(calls)].r = "restore"
    BY <1>1, <2>2, <2>3 DEF Replayable, BootPlan, SelectShape
  <2>5. calls \notin {Reset, Reset1, Reset2, Reset6}
    BY <1>1, ResetRest, NotReset6
  <2>6. NoBoot
    BY <1>1, <2>4, <2>5 DEF Replayable, BootPlan, ResetQuiet
  <2> QED
    BY <1>6, <2>6 DEF NoBoot
<1>7. m \in SUBSET Alive
  BY <1>4
<1>8. \A c \in Ci \ m : Final(c).k \notin {"boot", "reboot"}
  BY <1>6
<1>9. Head(calls).r \in {"select_all", "select_all_even_disabled"}
  BY <1>1
<1> QED
  BY <1>1, <1>3, <1>5, <1>7, <1>8, <1>9, SelectReplay

LEMMA SelectAllEvenReplay ==
    ASSUME IInv, Exact, Replayable, ufi_select_all_even_disabled
    PROVE  Replayable'
<1> DEFINE want == [c \in Ci |-> SelectAll]
<1>1. /\ calls # <<>> /\ queue = <<>> /\ ~wait.on /\ Head(calls).r \in {"select_all", "select_all_even_disabled"}
      /\ Select(Alive, want)
  BY DEF ufi_select_all_even_disabled, Asked, Alive
<1>2. Alive \in SUBSET Alive /\ want \in [Ci -> Selection]
  BY Selections
<1> HIDE DEF want
<1>3. \A c \in Ci \ Alive : Final(c).k \notin {"boot", "reboot"}
  BY DEF Replayable, BootAlive
<1>4. Alive \cap Head(calls).cis \subseteq Alive
  OBVIOUS
<1> QED
  BY <1>1, <1>2, <1>3, <1>4, SelectReplay

(* A selection of a DPU of the CIs of m. *)
LEMMA SelectDpuReplay ==
    ASSUME IInv, Exact, Replayable, calls # <<>>, queue = <<>>, ~wait.on,
           Head(calls).r \in {"select_dpu", "select_dpu_even_disabled"},
           NEW m \in SUBSET Alive, SelectDpu(m, Word("select dpu", Head(calls).a)),
           Head(calls).r = "select_dpu" => \A c \in Head(calls).cis : c \in Ci /\ (c \notin m => Head(calls).a \notin enabled[c])
    PROVE  Replayable'
<1>0. PICK w : w = Word("select dpu", Head(calls).a)
  OBVIOUS
<1>1. /\ mask' = m /\ target' = [c \in Ci |-> IF c \in m THEN w ELSE target[c]]
      /\ Proceed(<<>>) /\ UNCHANGED <<config, cmds>>
      /\ VoidFrame(m, w) \/ queue' = queue
  BY <1>0 DEF SelectDpu
<1>2. calls' = Tail(calls) /\ hw' = hw
  BY <1>1, Over
<1>3. m \in SUBSET Ci /\ enabled' = enabled /\ Alive' = Alive
  BY <1>1 DEF Alive, config
<1>4. w.k = "select dpu"
  BY <1>0, WordFields
<1>5. WordsStill' /\ Quieter
  <2>1. CASE VoidFrame(m, w)
    <3>1. WordsStill' /\ \A c \in Ci : Final(c)' = IF c \in m THEN w ELSE Empty
      BY <1>1, <1>2, <1>3, <2>1, VoidFrameStill
    <3> QED
      BY <1>4, <3>1, WordFields DEF Quieter
  <2>2. CASE queue' = queue
    <3>1. \A c \in Ci : Final(c)' = Final(c)
      BY <1>1, <1>2, <2>2, SettledSame
    <3>2. WordsStill'
      BY <1>2, <2>2, NothingStill
    <3> QED
      BY <3>1, <3>2 DEF Quieter
  <2> QED
    BY <1>1, <2>1, <2>2
<1>6. BootAlive'
  BY <1>3, <1>5 DEF Quieter, Replayable, BootAlive
<1>7. DeadTarget'
  BY <1>1, <1>3, <1>4 DEF Replayable, DeadTarget
<1>8. Leaves(Head(calls))
  <2>1. ASSUME Head(calls).r = "select_dpu", NEW c \in Head(calls).cis, enabled[c] \subseteq {Head(calls).a}
        PROVE  target'[c].k # "select group"
    <3>1. c \in Ci /\ (c \notin m => Head(calls).a \notin enabled[c])
      BY <2>1
    <3>2. CASE c \in m
      BY <1>1, <1>4, <3>1, <3>2
    <3>3. CASE c \notin m
      <4>1. enabled[c] = {}
        BY <2>1, <3>1, <3>3
      <4> QED
        BY <1>1, <3>1, <3>3, <4>1 DEF Replayable, DeadTarget
    <3> QED
      BY <3>2, <3>3
  <2> QED
    BY <1>1, <1>3, <1>5, <2>1, NotReset6 DEF Leaves
<1>9. BootPlan'
  BY <1>2, <1>3, <1>8, TailBoot DEF Replayable
<1> QED
  BY <1>5, <1>6, <1>7, <1>9 DEF Replayable

LEMMA SelectOneReplay ==
    ASSUME IInv, Exact, Replayable, ufi_select_dpu \/ ufi_select_dpu_even_disabled
    PROVE  Replayable'
<1>1. CASE ufi_select_dpu
  <2> DEFINE d == Head(calls).a
             one == {c \in Head(calls).cis : d \in enabled[c]}
  <2>1. /\ calls # <<>> /\ queue = <<>> /\ ~wait.on /\ Head(calls).r = "select_dpu"
        /\ SelectDpu(one, Word("select dpu", Head(calls).a))
    BY <1>1 DEF ufi_select_dpu, Asked
  <2>2. Head(calls).cis \in SUBSET Ci
    BY <2>1, Plan DEF IInv, Request
  <2>3. one \in SUBSET Alive
    BY <2>2 DEF Alive
  <2>4. \A c \in Head(calls).cis : c \in Ci /\ (c \notin one => Head(calls).a \notin enabled[c])
    BY <2>2
  <2>5. Head(calls).r \in {"select_dpu", "select_dpu_even_disabled"}
    BY <2>1
  <2> HIDE DEF one
  <2> QED
    BY <2>1, <2>3, <2>4, <2>5, SelectDpuReplay
<1>2. CASE ufi_select_dpu_even_disabled
  <2>1. /\ calls # <<>> /\ queue = <<>> /\ ~wait.on /\ Head(calls).r = "select_dpu_even_disabled"
        /\ SelectDpu(Alive, Word("select dpu", Head(calls).a))
    BY <1>2 DEF ufi_select_dpu_even_disabled, Asked, Alive
  <2>2. Alive \in SUBSET Alive
    OBVIOUS
  <2> QED
    BY <2>1, <2>2, SelectDpuReplay
<1> QED
  BY <1>1, <1>2

LEMMA ReadingCalm == ~Boots(Reading) /\ ~Boots(Reboot)
<1>1. PICK w, v : w = Word("read", 0) /\ v = Word("reboot", 0)
  OBVIOUS
<1>2. Reading.a = w /\ Reboot.a = v
  BY <1>1, ReqFields DEF Reading, Reboot
<1>3. w.k = "read" /\ v.k = "reboot"
  BY <1>1, WordFields
<1> QED
  BY <1>2, <1>3 DEF Boots

(* A frame for the mask; a boot is for CIs that are alive. *)
LEMMA FrameReplay ==
    ASSUME IInv, Exact, RebootPlan, Replayable, SendFrame \/ ufi_write_group
    PROVE  Replayable'
<1> DEFINE q == Head(calls)
<1>1. PICK w : w = IF q.r = "frame" THEN q.a ELSE Word("write group", q.a)
  OBVIOUS
<1>2. /\ calls # <<>> /\ queue = <<>> /\ ~wait.on /\ q.r \in {"frame", "write_group"}
      /\ VoidFrame(mask, w) /\ Proceed(<<>>) /\ UNCHANGED <<mask, target, cmds, config>>
  <2>1. CASE SendFrame
    <3>1. calls # <<>> /\ queue = <<>> /\ ~wait.on /\ q.r = "frame" /\ VoidFrame(mask, q.a)
          /\ Proceed(<<>>) /\ UNCHANGED <<mask, target, cmds, config>>
      BY <2>1 DEF SendFrame, Asked
    <3> QED
      BY <1>1, <3>1
  <2>2. CASE ufi_write_group
    <3>1. calls # <<>> /\ queue = <<>> /\ ~wait.on /\ q.r = "write_group" /\ VoidFrame(mask, Word("write group", q.a))
          /\ Proceed(<<>>) /\ UNCHANGED <<mask, target, cmds, config>>
      BY <2>2 DEF ufi_write_group, Asked
    <3> QED
      BY <1>1, <3>1
  <2> QED
    BY <2>1, <2>2
<1>3. calls' = Tail(calls) /\ hw' = hw
  BY <1>2, Over
<1>4. mask \in SUBSET Ci /\ enabled' = enabled /\ Alive' = Alive
  BY <1>2 DEF Alive, config, IInv, CiType
<1>5. WordsStill' /\ \A c \in Ci : Final(c)' = IF c \in mask THEN w ELSE Empty
  BY <1>2, <1>3, <1>4, VoidFrameStill
<1>6. (w.k = "boot" => Boots(q)) /\ (w.k = "reboot" => Reboots(q))
  <2>1. CASE q.r = "frame"
    BY <1>1, <2>1 DEF Boots, Reboots
  <2>2. CASE q.r = "write_group"
    <3>1. w = Word("write group", q.a)
      BY <1>1, <2>2
    <3>2. w.k = "write group"
      BY <3>1, WordFields
    <3> QED
      BY <3>2
  <2> QED
    BY <1>2, <2>1, <2>2
<1>7. Boots(q) => mask \subseteq Alive
  <2>1. q = calls[1] /\ 1 \in 1..Len(calls)
    BY <1>2, CallsSeq, TailCalls DEF IInv
  <2> QED
    BY <2>1 DEF Replayable, BootPlan, BootShape
<1>8. Reboots(q) => calls = Reset5 /\ mask \subseteq Alive
  <2>1. q = calls[1] /\ 1 \in 1..Len(calls)
    BY <1>2, CallsSeq, TailCalls DEF IInv
  <2>2. ASSUME Reboots(q)
        PROVE  calls = Reset5
    <3>1. HasReboot(calls)
      BY <2>1, <2>2 DEF HasReboot
    <3>2. q.r = "frame" /\ q # Reading
      BY <2>2, RebootWords DEF Reboots
    <3> QED
      BY <1>2, <3>1, <3>2, RebootHeads
  <2> QED
    BY <2>2 DEF RebootPlan
<1>9. calls = Reset6 => q = Reading
  BY ResetParts
<1> HIDE DEF q
<1>10. BootAlive'
  BY <1>4, <1>5, <1>6, <1>7, <1>8, WordFields DEF BootAlive
<1>11. DeadTarget'
  BY <1>2, <1>4 DEF Replayable, DeadTarget
<1>12. ~Boots(q) /\ ~Reboots(q) => NoBoot' /\ Quieter
  BY <1>5, <1>6, WordFields DEF NoBoot, Quieter
<1>13. Leaves(q)
  <2>1. calls = Reset6 => ~Boots(q) /\ ~Reboots(q)
    BY <1>9, ReadingCalm, RebootWords
  <2>2. q.r = "write_group" => ~Boots(q) /\ ~Reboots(q)
    BY DEF Boots, Reboots
  <2> QED
    BY <1>2, <1>4, <1>12, <1>8, <2>1, <2>2 DEF Leaves
<1>14. BootPlan'
  BY <1>2, <1>3, <1>4, <1>13, TailBoot DEF Replayable, q
<1> QED
  BY <1>5, <1>10, <1>11, <1>14 DEF Replayable

(* The words of the CIs without DPUs that ufi_set_mram_mux leaves. *)
LEMMA SetMuxReplay ==
    ASSUME IInv, Exact, Replayable, ufi_set_mram_mux
    PROVE  Replayable'
<1> DEFINE words == [c \in mask |-> Word("mux", IF c \in Head(calls).cis THEN 1 ELSE 0)]
           write == Differing(mask, words) # {}
           frames == [c \in Ci |-> IF c \in mask THEN words[c] ELSE IF write THEN Empty ELSE cmds[c]]
           s == Command(Prepared(mask, Word("structure", 3)), TRUE)
           f == Command(frames, TRUE)
           clear == Req("frame", Word("clear", 0), {})
<1>1. /\ calls # <<>> /\ queue = <<>> /\ ~wait.on /\ Head(calls).r = "set_mram_mux"
      /\ queue' = If(write, <<s>>) \o <<f>>
      /\ calls' = <<clear>> \o Tail(calls) /\ UNCHANGED <<mask, target, cmds, config, hw>>
  BY DEF ufi_set_mram_mux, Asked, Proceed
<1>2. \A c \in Ci : c \notin mask => s.words[c] = Empty /\ f.words[c] \in {Empty, cmds[c]}
  BY DEF Command, Prepared
<1>3. \A c \in Ci : c \in mask => f.words[c].k = "mux"
  <2>1. \A c \in mask : words[c].k = "mux"
    BY WordFields
  <2> HIDE DEF words
  <2> QED
    BY <2>1 DEF Command
<1>4. write \in BOOLEAN
  OBVIOUS
<1> HIDE DEF words, write, frames, s, f
<1>5. calls \in Seq(Request)
  BY CallsSeq DEF IInv
<1>6. mask = Alive
  <2>1. 1 \in Muxes
    BY <1>1, <1>5, TailCalls DEF Muxes
  <2> QED
    BY <2>1 DEF Exact, MuxShape
<1>7. Alive' = Alive /\ Alive \subseteq Ci /\ enabled' = enabled
  BY <1>1 DEF Alive, config
<1>8. \A c \in Ci : Final(c) = cmds[c]
  BY <1>1, AtRequest
<1>9. \A c \in Ci : c \notin mask => cmds[c].k \notin {"boot", "reboot"}
  BY <1>6, <1>8 DEF Replayable, BootAlive
<1>10. OthersStill(s, f)
  BY <1>1, <1>2, <1>9 DEF OthersStill
<1>11. WordsStill' /\ \A c \in Ci : Final(c)' = f.words[c]
  BY <1>1, <1>4, <1>10, SentStill
<1>12. \A c \in Ci : Final(c)'.k \notin {"boot", "reboot"}
  BY <1>2, <1>3, <1>9, <1>11, WordFields
<1>13. clear \in Inner /\ clear.r = "frame" /\ clear.a.k = "clear"
  <2>1. Word("clear", 0) \in Payload /\ Word("clear", 0).k = "clear"
    BY DEF Word, Frame, FrameKind, Payload
  <2>2. clear \in Harmless /\ clear.r = "frame" /\ clear.a = Word("clear", 0)
    BY <2>1, FrameHarmless DEF Req
  <2> QED
    BY <2>1, <2>2 DEF Inner, Reboots
<1> HIDE DEF clear
<1>14. PICK more : more = <<clear>>
  OBVIOUS
<1>15. more \in Seq(Inner) /\ Orderly(more)
  <2>1. more \in Seq(Inner) /\ Len(more) = 1 /\ more[1] = clear
    BY <1>13, <1>14
  <2>2. \A j \in 1..Len(more) : more[j] = clear
    BY <2>1
  <2> QED
    BY <1>13, <2>1, <2>2 DEF Orderly, Boots
<1>16. BootPlan'
  <2>1. Quieter /\ ~Boots(Head(calls)) /\ calls' = more \o Tail(calls) /\ UNCHANGED <<enabled, target, mask>>
    BY <1>1, <1>7, <1>12, <1>14 DEF Quieter, Boots
  <2>2. Head(calls).r \notin {"select_all", "select_dpu", "write_group", "save", "soft_reset", "restore", "frame"}
    BY <1>1
  <2> QED
    BY <1>1, <1>15, <2>1, <2>2, MoreBoot DEF Replayable
<1>17. DeadTarget' /\ BootAlive'
  BY <1>1, <1>7, <1>12 DEF Replayable, DeadTarget, BootAlive
<1> QED
  BY <1>11, <1>16, <1>17 DEF Replayable

(* A soft reset replaces the last frames. *)
LEMMA SoftResetReplay ==
    ASSUME IInv, Exact, Replayable, dpu_soft_reset, ~lost'
    PROVE  Replayable'
<1>1. /\ calls # <<>> /\ queue = <<>> /\ ~wait.on /\ Head(calls).r = "soft_reset" /\ calls' = Tail(calls)
      /\ cmds' = Prepared(Alive, Word("reset", 0))
      /\ UNCHANGED <<config, queue, mask>>
  BY DEF dpu_soft_reset, Asked, Alive
<1>2. /\ hw' = [c \in Ci |-> IF c \in Alive THEN ResetHw(hw[c]) ELSE hw[c]]
      /\ target' = [c \in Ci |-> Empty]
  BY DEF dpu_soft_reset, Alive
<1>3. Alive' = Alive /\ Alive \subseteq Ci /\ enabled' = enabled
  BY <1>1 DEF Alive, config
<1>4. \A c \in Ci : hw'[c].pending = Empty
  <2>1. \A c \in Ci : hw[c].pending = Empty /\ hw[c] \in Device
    BY <1>1, AtRequest DEF IInv, CiType
  <2>2. \A h \in Device : ResetHw(h).pending = Empty
    BY DEF ResetHw, Device
  <2> QED
    BY <1>2, <2>1, <2>2
<1>5. WordsStill'
  <2>1. Len(queue') = 0
    BY <1>1
  <2>2. 1..Len(queue') = {}
    BY <2>1
  <2> QED
    BY <1>4, <2>2 DEF WordsStill, Still
<1>6. \A c \in Ci : Final(c)'.k \notin {"boot", "reboot"}
  <2>1. \A c \in Ci : Final(c)' = IF c \in Alive THEN Word("reset", 0) ELSE Empty
    BY <1>1 DEF Final, Prepared
  <2>2. PICK w : w = Word("reset", 0)
    OBVIOUS
  <2>3. w.k \notin {"boot", "reboot"} /\ Empty.k \notin {"boot", "reboot"}
    BY <2>2, WordFields
  <2> QED
    BY <2>1, <2>2, <2>3
<1>7. DeadTarget' /\ BootAlive'
  BY <1>2, <1>6, WordFields DEF DeadTarget, BootAlive
<1>8. Leaves(Head(calls))
  BY <1>1, <1>6 DEF Leaves, Quieter, NoBoot
<1>9. BootPlan'
  BY <1>1, <1>3, <1>8, TailBoot DEF Replayable
<1> QED
  BY <1>5, <1>7, <1>9 DEF Replayable

(* Requests that send nothing. *)
LEMMA ComposedReplay ==
    ASSUME IInv, Exact, Replayable, calls # <<>>, queue = <<>>, ~wait.on, Head(calls).r \in Composite,
           NEW more \in Seq(Inner), Proceed(more), NoCommand, enabled' = enabled, Orderly(more)
    PROVE  Replayable'
<1>1. UNCHANGED <<queue, mask, cmds, target, hw>> /\ calls' = more \o Tail(calls)
  BY DEF NoCommand, caches, Proceed
<1>2. \A c \in Ci : Final(c)' = Final(c)
  BY <1>1, SettledSame
<1>3. WordsStill'
  BY <1>1, NothingStill
<1>4. Head(calls).r \notin {"select_all", "select_dpu", "write_group", "save", "soft_reset", "restore", "frame"}
      /\ ~Boots(Head(calls))
  BY DEF Composite, Boots
<1>5. BootPlan'
  BY <1>1, <1>2, <1>4, MoreBoot DEF Replayable, Quieter
<1>6. DeadTarget' /\ BootAlive'
  BY <1>1, <1>2 DEF Replayable, DeadTarget, BootAlive, Alive
<1> QED
  BY <1>3, <1>5, <1>6 DEF Replayable

LEMMA BusyReplay ==
    ASSUME IInv, Exact, Replayable, queue = <<>>, ~wait.on, Busy, NoCommand
    PROVE  Replayable'
<1>1. UNCHANGED <<queue, mask, cmds, target, hw, enabled>> /\ calls' = <<>>
  BY DEF NoCommand, caches, Busy, config
<1>2. \A c \in Ci : Final(c)' = Final(c)
  BY <1>1, SettledSame
<1>3. WordsStill'
  BY <1>1, NothingStill
<1>4. Len(calls') = 0
  BY <1>1
<1>5. 1..Len(calls') = {}
  BY <1>4
<1>6. BootPlan'
  BY <1>1, <1>5 DEF BootPlan, BootShape, DisableShape, StartShape, SelectShape, ResetQuiet
<1>7. DeadTarget' /\ BootAlive'
  BY <1>1, <1>2 DEF Replayable, DeadTarget, BootAlive, Alive
<1> QED
  BY <1>3, <1>6, <1>7 DEF Replayable

(* Requests that neither boot nor select the CIs of a call. *)
Calm == {q \in Inner : ~Boots(q) /\ q.r \notin {"start_rank", "init_groups", "select_all"}}

LEMMA CalmOrderly ==
    ASSUME NEW s \in Seq(Calm)
    PROVE  s \in Seq(Inner) /\ Orderly(s)
<1>1. Calm \subseteq Inner
  BY DEF Calm
<1>2. \A j \in 1..Len(s) : s[j] \in Calm
  OBVIOUS
<1> QED
  BY <1>1, <1>2 DEF Calm, Orderly

LEMMA LowCalm == Low \subseteq Calm
<1> SUFFICES ASSUME NEW q \in Low
             PROVE  q \in Calm
  OBVIOUS
<1>1. q \in Request /\ (q.r \in Even \cup {"set_mram_mux"} \/ (q.r = "frame" /\ q.a.k \notin {"boot", "reboot"}))
  BY DEF Low
<1> QED
  BY <1>1 DEF Calm, Inner, Harmless, Even, Boots, Reboots

LEMMA SwitchReplay ==
    ASSUME IInv, Exact, Replayable, calls # <<>>, queue = <<>>, ~wait.on, Head(calls).r \in Composite, NoCommand,
           Busy \/ \E more \in Seq(Low) : Proceed(more) /\ UNCHANGED <<enabled, saved, running>>
    PROVE  Replayable'
<1>1. CASE Busy
  BY <1>1, BusyReplay
<1>2. ASSUME NEW more \in Seq(Low), Proceed(more), enabled' = enabled
      PROVE  Replayable'
  <2>1. more \in Seq(Calm)
    BY LowCalm
  <2>2. more \in Seq(Inner) /\ Orderly(more)
    BY <2>1, CalmOrderly
  <2> QED
    BY <1>2, <2>2, ComposedReplay
<1> QED
  BY <1>1, <1>2

LEMMA SwitchRankReplay ==
    ASSUME IInv, Exact, Replayable, dpu_switch_mux_for_rank
    PROVE  Replayable'
<1>1. calls # <<>> /\ queue = <<>> /\ ~wait.on /\ Head(calls).r \in Composite /\ NoCommand
  BY DEF dpu_switch_mux_for_rank, Asked, Composite
<1>2. Busy \/ \E more \in Seq(Low) : Proceed(more) /\ UNCHANGED <<enabled, saved, running>>
  BY RankParts
<1> QED
  BY <1>1, <1>2, SwitchReplay

LEMMA SwitchLineReplay ==
    ASSUME IInv, Exact, Replayable, calls # <<>>, queue = <<>>, ~wait.on,
           Head(calls).r \in {"switch_line", "keep_line"}, NoCommand,
           NEW cis \in SUBSET Ci, SwitchLine(Head(calls).a, cis)
    PROVE  Replayable'
<1>1. Head(calls).a \in Int
  BY Plan DEF IInv, Request
<1>2. Head(calls).r \in Composite
  BY DEF Composite
<1>3. Busy \/ \E more \in Seq(Low) : Proceed(more) /\ UNCHANGED <<enabled, saved, running>>
  BY <1>1, LineParts
<1> QED
  BY <1>2, <1>3, SwitchReplay

LEMMA LineReplay ==
    ASSUME IInv, Exact, Replayable, dpu_switch_mux_for_dpu_line \/ SwitchKeeping
    PROVE  Replayable'
<1> DEFINE keep == {c \in Ci \ Head(calls).cis : Head(calls).a \in mux[c]}
<1>1. /\ calls # <<>> /\ queue = <<>> /\ ~wait.on /\ Head(calls).r \in {"switch_line", "keep_line"} /\ NoCommand
      /\ SwitchLine(Head(calls).a, Head(calls).cis) \/ SwitchLine(Head(calls).a, keep)
  BY DEF dpu_switch_mux_for_dpu_line, SwitchKeeping, Asked
<1>2. Head(calls).cis \in SUBSET Ci /\ keep \in SUBSET Ci
  BY <1>1, Plan DEF IInv, Request
<1> QED
  BY <1>1, <1>2, SwitchLineReplay

(* The boot of a rank comes after the selection of its CIs. *)
LEMMA BootOrderly ==
    ASSUME NEW s \in Seq(Calm), NEW x, NEW y, NEW z, x.r = "select_all", ~Boots(x), Alive \subseteq x.cis,
           Boots(y), z.r = "launched", Len(calls) = 1
    PROVE  Orderly(s \o <<x, y, z>>)
<1>1. PICK t, n, k : t = s \o <<x, y, z>> /\ n = Len(s) /\ k = Len(t)
  OBVIOUS
<1>2. n \in Nat /\ k = n + 3 /\ t[n + 1] = x /\ t[n + 2] = y /\ t[n + 3] = z /\ \A j \in 1..n : t[j] = s[j]
  <2>1. <<x, y, z>> \in Seq({x, y, z}) /\ Len(<<x, y, z>>) = 3
    OBVIOUS
  <2>2. Len(s) \in Nat /\ s \in Seq(Calm \cup {x, y, z}) /\ <<x, y, z>> \in Seq(Calm \cup {x, y, z})
    BY <2>1
  <2>3. PICK r : r = <<x, y, z>>
    OBVIOUS
  <2>4. r \in Seq(Calm \cup {x, y, z}) /\ Len(r) = 3 /\ r[1] = x /\ r[2] = y /\ r[3] = z
    BY <2>2, <2>3
  <2>5. /\ Len(s \o r) = Len(s) + Len(r)
        /\ \A j \in 1..Len(s) + Len(r) : (s \o r)[j] = IF j <= Len(s) THEN s[j] ELSE r[j - Len(s)]
    <3>1. PICK S : S = Calm \cup {x, y, z}
      OBVIOUS
    <3>2. s \in Seq(S) /\ r \in Seq(S)
      BY <2>2, <2>4, <3>1
    <3> QED
      BY <3>2, ConcatProperties
  <2>6. n \in Nat /\ k = n + 3 /\ \A j \in 1..n + 3 : t[j] = IF j <= n THEN s[j] ELSE r[j - n]
    BY <1>1, <2>2, <2>3, <2>4, <2>5
  <2>7. t[n + 1] = r[n + 1 - n] /\ t[n + 2] = r[n + 2 - n] /\ t[n + 3] = r[n + 3 - n] /\ \A j \in 1..n : t[j] = s[j]
    BY <2>6
  <2>8. n + 1 - n = 1 /\ n + 2 - n = 2 /\ n + 3 - n = 3
    BY <2>6
  <2> QED
    BY <2>4, <2>6, <2>7, <2>8
<1>3. ~Boots(z) /\ y.r = "frame"
  BY DEF Boots
<1>4. ASSUME NEW j \in 1..k
      PROVE  /\ Boots(t[j]) => /\ j # 1 /\ t[j - 1].r \in {"select_all", "select_dpu"}
                               /\ t[k].r = "launched" /\ Len(calls) = 1
             /\ t[j].r \notin {"start_rank", "init_groups"}
             /\ t[j].r = "select_all" => Alive \subseteq t[j].cis \/ calls[Len(calls)].r = "restore"
  <2>1. j \in 1..n \/ j = n + 1 \/ j = n + 2 \/ j = n + 3
    BY <1>2
  <2>2. CASE j \in 1..n
    <3>1. t[j] \in Calm
      BY <1>1, <1>2, <2>2
    <3> QED
      BY <3>1 DEF Calm
  <2>3. CASE j = n + 1
    BY <1>2, <2>3
  <2>4. CASE j = n + 2
    <3>1. j # 1 /\ j - 1 = n + 1
      BY <1>2, <2>4
    <3> QED
      BY <1>2, <1>3, <2>4, <3>1
  <2>5. CASE j = n + 3
    BY <1>2, <1>3, <2>5
  <2> QED
    BY <2>1, <2>2, <2>3, <2>4, <2>5
<1>5. Orderly(t)
  BY <1>1, <1>4 DEF Orderly
<1> QED
  BY <1>1, <1>5

LEMMA TameCalm ==
    ASSUME NEW q \in Tame, ~Boots(q), q.r \notin {"start_rank", "init_groups", "select_all"}
    PROVE  q \in Calm
  BY DEF Tame, Calm

(* ci_start_thread_rank boots the CIs that its first selection has kept. *)
LEMMA StartRankReplay ==
    ASSUME IInv, Exact, Replayable, ci_start_thread_rank
    PROVE  Replayable'
<1> DEFINE lines == [i \in 1..NrDpus |-> Req("keep_line", i - 1, mask)]
           first == IF mask = Ci THEN <<Req("switch_rank", 0, {})>> ELSE lines
           x == Selecting(mask)
           y == Req("frame", Word("boot", 0), {})
           z == Req("launched", 0, Ci)
<1>1. /\ calls # <<>> /\ queue = <<>> /\ ~wait.on /\ Head(calls).r = "start_rank" /\ NoCommand /\ UNCHANGED config
      /\ Proceed(first \o <<x, y, z>>)
  BY DEF ci_start_thread_rank, Asked
<1>2. mask \in SUBSET Ci
  BY DEF IInv, CiType
<1>3. lines \in Seq(Calm)
  <2>1. NrDpus \in Nat /\ \A i \in 1..NrDpus : Req("keep_line", i - 1, mask) \in Tame
    BY <1>2, Parts, CiAssumption
  <2>2. \A i \in 1..NrDpus : Req("keep_line", i - 1, mask) \in Calm
    BY <2>1, ReqFields, TameCalm DEF Boots
  <2> QED
    BY <2>1, <2>2
<1>4. Req("switch_rank", 0, {}) \in Calm
  <2>1. Req("switch_rank", 0, {}) \in Tame
    BY Parts
  <2> QED
    BY <2>1, ReqFields, TameCalm DEF Boots
<1>5. first \in Seq(Calm)
  BY <1>3, <1>4
<1>6. x \in Tame /\ y \in Tame /\ z \in Tame
  BY <1>2, Parts
<1>7. x.r = "select_all" /\ ~Boots(x) /\ x.cis = mask /\ Boots(y) /\ z.r = "launched"
  <2>1. x.r = "select_all" /\ x.cis = mask /\ y.r = "frame" /\ y.a = Word("boot", 0) /\ z.r = "launched"
    BY ReqFields DEF Selecting
  <2>2. Word("boot", 0).k = "boot"
    BY WordFields
  <2> QED
    BY <2>1, <2>2 DEF Boots
<1> HIDE DEF first, x, y, z
<1>8. Len(calls) = 1 /\ Alive \subseteq mask
  <2>1. 1 \in 1..Len(calls) /\ calls[1].r = "start_rank"
    BY <1>1, CallsSeq, TailCalls DEF IInv
  <2> QED
    BY <2>1 DEF Replayable, BootPlan, StartShape
<1>9. PICK more : more = first \o <<x, y, z>>
  OBVIOUS
<1>10. Orderly(more)
  BY <1>5, <1>7, <1>8, <1>9, BootOrderly
<1>11. more \in Seq(Inner)
  <2>1. Calm \subseteq Inner /\ Tame \subseteq Inner
    BY DEF Calm, Tame
  <2>2. first \in Seq(Inner) /\ <<x, y, z>> \in Seq(Inner)
    BY <1>5, <1>6, <2>1
  <2> QED
    BY <1>9, <2>2, ConcatProperties
<1>12. Head(calls).r \in Composite /\ enabled' = enabled
  BY <1>1 DEF Composite, config
<1> QED
  BY <1>1, <1>9, <1>10, <1>11, <1>12, ComposedReplay

(* dpu_init_groups selects some of the CIs, within a reset. *)
LEMMA GroupsReplay ==
    ASSUME IInv, Exact, Replayable, dpu_init_groups \/ CiGroups
    PROVE  Replayable'
<1>1. CASE dpu_init_groups
  <2> DEFINE full == {c \in Ci : saved[c] = Dpu}
             each == [i \in 1..NrCis |-> Req("ci_groups", i - 1, {})]
             x == Selecting(full)
             y == Req("write_group", EnabledGroup, {})
             all == <<x, y>>
  <2>1. /\ calls # <<>> /\ queue = <<>> /\ ~wait.on /\ Head(calls).r = "init_groups" /\ NoCommand /\ UNCHANGED config
        /\ Proceed(each \o If(full # {}, all))
    BY <1>1 DEF dpu_init_groups, Asked
  <2>2. each \in Seq(Tame) /\ \A j \in 1..Len(each) : each[j].r = "ci_groups"
    <3>1. NrCis \in Nat /\ \A i \in 1..NrCis : i - 1 \in Ci
      BY CiAssumption DEF Ci
    <3>2. \A i \in 1..NrCis : Req("ci_groups", i - 1, {}) \in Tame /\ Req("ci_groups", i - 1, {}).r = "ci_groups"
      BY <3>1, Parts, ReqFields
    <3>3. Len(each) = NrCis
      BY <3>1
    <3> QED
      BY <3>1, <3>2, <3>3
  <2>3. x \in Tame /\ y \in Tame /\ x.r = "select_all" /\ y.r = "write_group"
    BY Parts, ReqFields DEF Selecting
  <2> HIDE DEF each, x, y
  <2>4. Tame \subseteq Inner
    BY DEF Tame
  <2>5. PICK part : part = If(full # {}, all)
    OBVIOUS
  <2>6. part \in Seq(Inner) /\ each \in Seq(Inner)
    BY <2>2, <2>3, <2>4, <2>5 DEF If
  <2>7. \A j \in 1..Len(part) : part[j].r \in {"select_all", "write_group"}
    <3>1. CASE full # {}
      <4>1. part = <<x, y>>
        BY <2>5, <3>1 DEF If
      <4>2. Len(part) = 2 /\ part[1] = x /\ part[2] = y
        BY <4>1
      <4>3. \A j \in 1..2 : j \in {1, 2}
        OBVIOUS
      <4> QED
        BY <2>3, <4>2, <4>3
    <3>2. CASE full = {}
      <4>1. Len(part) = 0
        BY <2>5, <3>2 DEF If
      <4>2. 1..Len(part) = {}
        BY <4>1
      <4> QED
        BY <4>2
    <3> QED
      BY <3>1, <3>2
  <2>8. PICK more : more = each \o part
    OBVIOUS
  <2>9. more \in Seq(Inner) /\ \A j \in 1..Len(more) : more[j].r \in {"ci_groups", "select_all", "write_group"}
    <3>1. PICK n, k : n = Len(each) /\ k = Len(part)
      OBVIOUS
    <3>2. /\ more \in Seq(Inner) /\ Len(more) = Len(each) + Len(part) /\ Len(each) \in Nat /\ Len(part) \in Nat
          /\ \A j \in 1..Len(each) + Len(part) : more[j] = IF j <= Len(each) THEN each[j] ELSE part[j - Len(each)]
      BY <2>6, <2>8, ConcatProperties
    <3>3. /\ more \in Seq(Inner) /\ n \in Nat /\ k \in Nat
          /\ \A j \in 1..n + k : more[j] = IF j <= n THEN each[j] ELSE part[j - n]
      BY <3>1, <3>2
    <3>4. \A j \in 1..n + k : j \in 1..n \/ (~(j <= n) /\ j - n \in 1..k)
      BY <3>3
    <3>5. \A j \in 1..n : j <= n
      OBVIOUS
    <3>6. \A j \in 1..n + k : more[j].r \in {"ci_groups", "select_all", "write_group"}
      BY <2>2, <2>7, <3>1, <3>3, <3>4, <3>5
    <3> QED
      BY <3>1, <3>2, <3>6
  <2>10. calls[Len(calls)].r = "restore"
    <3>1. 1 \in 1..Len(calls) /\ calls[1].r = "init_groups"
      BY <2>1, CallsSeq, TailCalls DEF IInv
    <3> QED
      BY <3>1 DEF Replayable, BootPlan, SelectShape
  <2>11. Orderly(more)
    BY <2>9, <2>10 DEF Orderly, Boots
  <2>12. Head(calls).r \in Composite /\ enabled' = enabled
    BY <2>1 DEF Composite, config
  <2> QED
    BY <2>1, <2>5, <2>8, <2>9, <2>11, <2>12, ComposedReplay
<1>2. CASE CiGroups
  <2> DEFINE c == Head(calls).a
             first == [d \in Dpu |-> SelectingDpu(d, {c})]
             second == [d \in Dpu |-> Req("write_group", IF d \in saved[c] THEN EnabledGroup ELSE DisabledGroup, {})]
             b == saved[c] \notin {{}, Dpu}
  <2>1. /\ calls # <<>> /\ queue = <<>> /\ ~wait.on /\ Head(calls).r \in Composite /\ NoCommand /\ UNCHANGED config
        /\ Proceed(If(b, ForEachDpu(first, second)))
    BY <1>2 DEF CiGroups, Asked, Composite
  <2>2. c \in Ci
    BY <1>2, Plan DEF CiGroups, Asked, IInv, Request
  <2>3. \A d \in Dpu : d \in Int
    BY CiAssumption DEF Dpu
  <2>4. \A d \in Dpu : first[d] \in Inner /\ first[d].r = "select_dpu"
    BY <2>2, <2>3, Parts, ReqFields DEF SelectingDpu, Tame
  <2>5. \A d \in Dpu : second[d] \in Inner /\ second[d].r = "write_group"
    BY Parts, ReqFields DEF EnabledGroup, DisabledGroup
  <2>6. \A d \in Dpu : first[d] \in Calm /\ second[d] \in Calm
    BY <2>4, <2>5 DEF Calm, Boots
  <2>7. first \in [Dpu -> Calm] /\ second \in [Dpu -> Calm]
    BY <2>6
  <2> HIDE DEF first, second, b
  <2>8. PICK s : s = ForEachDpu(first, second)
    OBVIOUS
  <2>9. s \in Seq(Calm)
    BY <2>7, <2>8, ForEachDpuSeq
  <2>10. PICK more : more = If(b, s)
    OBVIOUS
  <2>11. more \in Seq(Calm)
    BY <2>9, <2>10 DEF If
  <2>12. more \in Seq(Inner) /\ Orderly(more)
    BY <2>11, CalmOrderly
  <2>13. enabled' = enabled /\ Proceed(more)
    BY <2>1, <2>8, <2>10 DEF config
  <2> QED
    BY <2>1, <2>12, <2>13, ComposedReplay
<1> QED
  BY <1>1, <1>2

(* What the host only records. *)
LEMMA RecordedReplay ==
    ASSUME IInv, Exact, Replayable, calls # <<>>, queue = <<>>, ~wait.on,
           Head(calls).r \in {"launched", "polled", "disabled", "save", "restore"},
           Proceed(<<>>), NoCommand, Alive' \subseteq Alive, DeadTarget', BootAlive'
    PROVE  Replayable'
<1>1. calls' = Tail(calls) /\ UNCHANGED <<queue, hw, cmds>>
  BY Over DEF NoCommand
<1>2. \A c \in Ci : Final(c)' = Final(c)
  BY <1>1, SettledSame
<1>3. WordsStill'
  BY <1>1, NothingStill
<1>4. Leaves(Head(calls))
  BY <1>2, NotReset6 DEF Leaves, Quieter
<1>5. BootPlan'
  BY <1>1, <1>4, TailBoot DEF Replayable
<1> QED
  BY <1>3, <1>5 DEF Replayable

LEMMA RecordReplay ==
    ASSUME IInv, Exact, Replayable, Launched \/ Polled \/ Disabled \/ RestoreEnabled \/ save_enabled_dpus
    PROVE  Replayable'
<1>1. /\ calls # <<>> /\ queue = <<>> /\ ~wait.on /\ Proceed(<<>>) /\ NoCommand
      /\ Head(calls).r \in {"launched", "polled", "disabled", "save", "restore"}
  BY DEF Launched, Polled, Disabled, RestoreEnabled, save_enabled_dpus, Asked
<1>2. UNCHANGED <<queue, hw, cmds, target>>
  BY <1>1 DEF NoCommand, caches, Proceed
<1>3. \A c \in Ci : Final(c)' = Final(c)
  BY <1>2, SettledSame
<1>4. Dpu # {}
  <2>1. 0 \in Dpu
    BY CiAssumption DEF Dpu
  <2> QED
    BY <2>1
<1>5. Head(calls) = calls[1] /\ 1 \in 1..Len(calls)
  BY <1>1, CallsSeq, TailCalls DEF IInv
<1>6. CASE Launched \/ Polled \/ RestoreEnabled \/ save_enabled_dpus
  <2>1. \A c \in Ci : enabled'[c] = {} <=> enabled[c] = {}
    <3>1. CASE Launched \/ Polled
      BY <3>1 DEF Launched, Polled
    <3>2. CASE RestoreEnabled
      <4>1. Head(calls).r = "restore" /\ enabled' = saved
        BY <3>2 DEF RestoreEnabled, Asked
      <4>2. \A c \in Ci : enabled[c] = IF saved[c] = {} THEN {} ELSE Dpu
        BY <1>5, <4>1 DEF Exact, ResetPlan
      <4> QED
        BY <1>4, <4>1, <4>2
    <3>3. CASE save_enabled_dpus
      BY <1>4, <3>3 DEF save_enabled_dpus
    <3> QED
      BY <1>6, <3>1, <3>2, <3>3
  <2>2. Alive' = Alive
    BY <2>1 DEF Alive
  <2>3. DeadTarget' /\ BootAlive'
    BY <1>2, <1>3, <2>1, <2>2 DEF Replayable, DeadTarget, BootAlive
  <2> QED
    BY <1>1, <2>2, <2>3, RecordedReplay
<1>7. CASE Disabled
  <2>1. /\ Head(calls).r = "disabled"
        /\ enabled' = [c \in Ci |-> IF c \in Head(calls).cis THEN enabled[c] \ {Head(calls).a} ELSE enabled[c]]
    BY <1>7 DEF Disabled, Asked
  <2>2. NoBoot /\ Apart(Head(calls).a, Head(calls).cis)
    BY <1>5, <2>1 DEF Replayable, BootPlan, DisableShape
  <2>3. BootAlive'
    BY <1>3, <2>2 DEF BootAlive, NoBoot
  <2>4. Alive' \subseteq Alive
    <3>1. \A c \in Ci : enabled'[c] \subseteq enabled[c]
      BY <2>1
    <3> QED
      BY <3>1 DEF Alive
  <2>5. DeadTarget'
    <3> SUFFICES ASSUME NEW c \in Ci, enabled'[c] = {}
                 PROVE  target[c].k # "select group"
      BY <1>2 DEF DeadTarget
    <3>1. CASE c \in Head(calls).cis
      <4>1. enabled[c] \subseteq {Head(calls).a}
        BY <2>1, <3>1
      <4> QED
        BY <2>2, <3>1, <4>1 DEF Apart
    <3>2. CASE c \notin Head(calls).cis
      <4>1. enabled[c] = {}
        BY <2>1, <3>2
      <4> QED
        BY <4>1 DEF Replayable, DeadTarget
    <3> QED
      BY <3>1, <3>2
  <2> QED
    BY <1>1, <2>3, <2>4, <2>5, RecordedReplay
<1> QED
  BY <1>6, <1>7

(* The calls as they are made. *)
Sound(s) ==
    /\ \A j \in 1..Len(s) :
          /\ Boots(s[j]) => s[Len(s)].r = "launched" /\ j # 1 /\ s[j - 1].r \in {"select_all", "select_dpu"}
          /\ s[j].r = "disabled" => /\ j \notin {1, 2} /\ s[j - 1].r = "write_group" /\ s[j - 2].r = "select_dpu"
                                    /\ s[j - 2].a = s[j].a /\ s[j - 2].cis = s[j].cis
          /\ s[j].r = "start_rank" => j = Len(s) /\ j # 1 /\ s[j - 1].r = "select_all" /\ s[j - 1].cis = Ci
          /\ s[j].r = "select_all" => s[j].cis = Ci
          /\ s[j].r = "init_groups" => s[Len(s)].r = "restore"
    /\ (s # <<>> /\ s[Len(s)].r = "restore") => s = Reset

LEMMA SoundReset == Sound(Reset)
<1>1. PICK s : s = Reset
  OBVIOUS
<1>2. /\ Len(s) = 10 /\ s[1].r = "save" /\ s[2].r = "soft_reset" /\ s[3].r = "soft_reset" /\ s[4] = Selecting(Ci)
      /\ s[5] = Reading /\ s[6] = Reboot /\ s[7] = Reading /\ s[8].r = "switch_rank" /\ s[9].r = "init_groups"
      /\ s[10].r = "restore"
  BY <1>1, ReqFields DEF Reset
<1>3. /\ Selecting(Ci).r = "select_all" /\ Selecting(Ci).cis = Ci /\ Reading.r = "frame" /\ ~Boots(Reading)
      /\ Reboot.r = "frame" /\ ~Boots(Reboot)
  BY ReqFields, ReadingCalm DEF Selecting, Reading, Reboot
<1>4. \A j \in 1..Len(s) : j \in {1, 2, 3, 4, 5, 6, 7, 8, 9, 10}
  BY <1>2
<1>5. \A j \in 1..Len(s) : /\ ~Boots(s[j]) /\ s[j].r \notin {"disabled", "start_rank"}
                           /\ s[j].r = "select_all" => s[j].cis = Ci
  BY <1>2, <1>3, <1>4 DEF Boots
<1> QED
  BY <1>1, <1>2, <1>5 DEF Sound

LEMMA SoundRank == Sound(PollRank) /\ Sound(LaunchRank) /\ Sound(AccessRank)
<1> DEFINE x == Selecting(Ci)
           y == Req("polled", 0, {})
           z == Req("start_rank", 0, {})
<1>1. /\ x.r = "select_all" /\ x.cis = Ci /\ Reading.r = "frame" /\ ~Boots(Reading)
      /\ y.r = "polled" /\ z.r = "start_rank"
  BY ReqFields, ReadingCalm DEF Selecting, Reading
<1>2. PollRank = <<x, Reading, y>>
  BY DEF PollRank
<1> HIDE DEF x, y, z
<1>3. Sound(PollRank)
  <2>1. PICK s : s = <<x, Reading, y>>
    OBVIOUS
  <2>2. Len(s) = 3 /\ s[1] = x /\ s[2] = Reading /\ s[3] = y
    BY <2>1
  <2>3. \A j \in 1..Len(s) : j \in {1, 2, 3}
    BY <2>2
  <2>4. \A j \in 1..Len(s) : /\ ~Boots(s[j]) /\ s[j].r \notin {"disabled", "start_rank", "init_groups"}
                             /\ s[j].r = "select_all" => s[j].cis = Ci
    BY <1>1, <2>2, <2>3 DEF Boots
  <2> QED
    BY <1>1, <1>2, <2>1, <2>2, <2>4 DEF Sound
<1>4. Sound(LaunchRank)
  <2>1. PICK s : s = LaunchRank
    OBVIOUS
  <2>2. Len(s) = 5 /\ s[1] = x /\ s[2] = Reading /\ s[3] = y /\ s[4] = x /\ s[5] = z
    <3>1. LaunchRank = <<x, Reading, y>> \o <<x, z>>
      BY <1>2 DEF LaunchRank, x, z
    <3> QED
      BY <2>1, <3>1
  <2>3. \A j \in 1..Len(s) : j \in {1, 2, 3, 4, 5}
    BY <2>2
  <2>4. \A j \in 1..Len(s) : /\ ~Boots(s[j]) /\ s[j].r \notin {"disabled", "init_groups"}
                             /\ s[j].r = "select_all" => s[j].cis = Ci
                             /\ s[j].r = "start_rank" => j = 5
    BY <1>1, <2>2, <2>3 DEF Boots
  <2>5. 5 - 1 = 4 /\ 5 # 1
    OBVIOUS
  <2> QED
    BY <1>1, <2>1, <2>2, <2>4, <2>5 DEF Sound
<1>5. Sound(AccessRank)
  <2>1. PICK s : s = AccessRank
    OBVIOUS
  <2>2. Len(s) = 1 /\ s[1].r = "switch_rank"
    BY <2>1, ReqFields DEF AccessRank
  <2>3. \A j \in 1..Len(s) : j = 1
    BY <2>2
  <2> QED
    BY <2>1, <2>2, <2>3 DEF Sound, Boots
<1> QED
  BY <1>3, <1>4, <1>5

LEMMA SoundDpu ==
    ASSUME NEW c \in Ci, NEW d \in Dpu
    PROVE  Sound(LaunchDpu(c, d)) /\ Sound(Disable(c, d))
<1> DEFINE x == SelectingDpu(d, {c})
           v == Selecting(Ci)
           b == Req("frame", Word("boot", d + 1), {})
           w == Req("write_group", DisabledGroup, {})
           e == Req("disabled", d, {c})
<1>1. /\ x.r = "select_dpu" /\ x.a = d /\ x.cis = {c} /\ b.r = "frame"
      /\ w.r = "write_group" /\ e.r = "disabled" /\ e.a = d /\ e.cis = {c}
  BY ReqFields DEF SelectingDpu
<1>2. Reading.r = "frame" /\ ~Boots(Reading) /\ v.r = "select_all" /\ v.cis = Ci
  BY ReqFields, ReadingCalm DEF Reading, Selecting
<1> HIDE DEF x, v, b, w, e
<1>3. Sound(LaunchDpu(c, d))
  <2>1. PICK s : s = LaunchDpu(c, d)
    OBVIOUS
  <2>2. /\ Len(s) = 7 /\ s[1] = v /\ s[2] = Reading /\ s[3].r = "polled" /\ s[4].r = "keep_line" /\ s[5] = x
        /\ s[6] = b /\ s[7].r = "launched"
    <3>1. LaunchDpu(c, d) = <<v, Reading, Req("polled", 0, {})>>
                            \o <<Req("keep_line", d, {c}), x, b, Req("launched", d + 1, {c})>>
      BY DEF LaunchDpu, PollRank, x, v, b
    <3> QED
      BY <2>1, <3>1, ReqFields
  <2>3. \A j \in 1..Len(s) : j \in {1, 2, 3, 4, 5, 6, 7}
    BY <2>2
  <2>4. \A j \in 1..Len(s) : /\ s[j].r \notin {"disabled", "init_groups", "start_rank"}
                             /\ s[j].r = "select_all" => s[j].cis = Ci
                             /\ Boots(s[j]) => j = 6
    BY <1>1, <1>2, <2>2, <2>3 DEF Boots
  <2>5. 6 - 1 = 5 /\ 6 # 1
    OBVIOUS
  <2> QED
    BY <1>1, <2>1, <2>2, <2>4, <2>5 DEF Sound
<1>4. Sound(Disable(c, d))
  <2>1. PICK s : s = Disable(c, d)
    OBVIOUS
  <2>2. Len(s) = 3 /\ s[1] = x /\ s[2] = w /\ s[3] = e
    BY <2>1 DEF Disable, x, w, e
  <2>3. \A j \in 1..Len(s) : j \in {1, 2, 3}
    BY <2>2
  <2>4. \A j \in 1..Len(s) : /\ s[j].r \notin {"init_groups", "start_rank", "select_all"} /\ ~Boots(s[j])
                             /\ s[j].r = "disabled" => j = 3
    BY <1>1, <2>2, <2>3 DEF Boots
  <2>5. 3 - 1 = 2 /\ 3 - 2 = 1 /\ 3 \notin {1, 2}
    OBVIOUS
  <2> QED
    BY <1>1, <2>1, <2>2, <2>4, <2>5 DEF Sound
<1> QED
  BY <1>3, <1>4

LEMMA SoundPair ==
    ASSUME NEW d, NEW cis
    PROVE  Sound(AccessPair(d, cis))
<1>1. PICK s : s = AccessPair(d, cis)
  OBVIOUS
<1>2. Len(s) = 2 /\ s[1].r = "switch_line" /\ s[2].r = "switch_line"
  BY <1>1, ReqFields DEF AccessPair
<1>3. \A j \in 1..Len(s) : j \in {1, 2}
  BY <1>2
<1>4. \A j \in 1..Len(s) : s[j].r = "switch_line"
  BY <1>2, <1>3
<1> QED
  BY <1>1, <1>2, <1>4 DEF Sound, Boots

LEMMA CallReplay ==
    ASSUME IInv, Exact, Replayable, Call
    PROVE  Replayable'
<1>1. calls = <<>> /\ UNCHANGED <<caches, config, mask, hw, queue, cmds>>
  BY DEF Call
<1>2. enabled \in [Ci -> SUBSET Dpu]
  BY DEF IInv, CiType
<1>3. Sound(calls')
  BY <1>2, SoundReset, SoundRank, SoundDpu, SoundPair DEF Call
<1>4. UNCHANGED <<target, enabled>>
  BY <1>1 DEF caches, config
<1>5. \A c \in Ci : Final(c)' = Final(c)
  BY <1>1, SettledSame
<1>6. Alive' \subseteq Ci
  BY DEF Alive
<1>7. BootShape' /\ DisableShape' /\ ResetQuiet'
  BY <1>3 DEF Sound, BootShape, DisableShape, ResetQuiet
<1>8. StartShape' /\ SelectShape'
  BY <1>3, <1>6 DEF Sound, StartShape, SelectShape
<1>9. WordsStill'
  BY <1>1 DEF Replayable, WordsStill
<1>10. DeadTarget' /\ BootAlive'
  BY <1>4, <1>5 DEF Replayable, DeadTarget, BootAlive, Alive
<1> QED
  BY <1>7, <1>8, <1>9, <1>10 DEF Replayable, BootPlan

(* Every step that is no error keeps the last frames harmless. *)
LEMMA NextReplay ==
    ASSUME IInv, Exact, RebootPlan, Replayable, [Next]_vars, ~lost'
    PROVE  Replayable'
<1>1. CASE UNCHANGED vars
  <2>1. UNCHANGED <<caches, config, calls, mask>> /\ UNCHANGED <<queue, hw, cmds>>
    BY <1>1 DEF vars, engine
  <2>2. \A c \in Ci : Final(c)' = Final(c)
    BY <2>1, SettledSame
  <2>3. WordsStill'
    BY <2>1 DEF Replayable, WordsStill
  <2> QED
    BY <2>1, <2>2, <2>3, SilentReplay
<1>2. CASE Done
  BY <1>1, <1>2 DEF Done
<1> QED
  BY <1>1, <1>2, ExecuteReplay, CommitReplay, UpdateReplay, SelectAllReplay, SelectAllEvenReplay, SelectOneReplay,
     FrameReplay, SetMuxReplay, SoftResetReplay, SwitchRankReplay, LineReplay, StartRankReplay, GroupsReplay,
     RecordReplay, CallReplay
     DEF Next

(* Nothing has been sent before the first reset. *)
LEMMA InitReplay == Init => Replayable
<1> SUFFICES ASSUME Init
             PROVE  Replayable
  OBVIOUS
<1>1. /\ queue = <<>> /\ calls = Reset /\ target = [c \in Ci |-> Empty] /\ cmds = [c \in Ci |-> Empty]
      /\ \A c \in Ci : hw[c].pending = Empty
  BY DEF Init
<1>2. \A c \in Ci : Final(c) = Empty /\ target[c] = Empty
  BY <1>1 DEF Final
<1>3. DeadTarget /\ BootAlive
  BY <1>2, WordFields DEF DeadTarget, BootAlive
<1>4. Len(queue) = 0
  BY <1>1
<1>5. 1..Len(queue) = {}
  BY <1>4
<1>6. WordsStill
  BY <1>1, <1>5 DEF WordsStill, Still
<1>7. Sound(calls)
  BY <1>1, SoundReset
<1>8. Alive \subseteq Ci
  BY DEF Alive
<1>9. BootShape /\ DisableShape /\ ResetQuiet
  BY <1>7 DEF Sound, BootShape, DisableShape, ResetQuiet
<1>10. StartShape /\ SelectShape
  BY <1>7, <1>8 DEF Sound, StartShape, SelectShape
<1> QED
  BY <1>3, <1>6, <1>9, <1>10 DEF Replayable, BootPlan

(* What the commands that are sent again rest on: as long as no command has
   failed, the last frame of a CI that a selection or a switch of the mux leaves
   out, and that ufi_select_all and ufi_write_dma_ctrl_datas commit again, is no
   boot and does nothing to that CI. *)
THEOREM StaysReplayable == Spec => [](~lost => Replayable)
<1>1. Init => Replayable
  BY InitReplay
<1>2. IInv /\ (~lost => Exact) /\ (~lost => RebootPlan) /\ (~lost => Replayable) /\ [Next]_vars => (~lost => Replayable)'
  BY NextReplay, LostStays
<1>3. Spec => []IInv
  BY Inductive
<1>4. Spec => [](~lost => Exact)
  BY StaysExact
<1>5. Spec => [](~lost => RebootPlan)
  BY StaysRebooting
<1> QED
  BY <1>1, <1>2, <1>3, <1>4, <1>5, PTL DEF Spec

(* ufi_select_all and ufi_write_dma_ctrl_datas do not clear the words of the CIs
   that they leave alone in rank->cmds, so these are handed the frame of an
   earlier command again, and execute it: it boots none of their DPUs and
   changes nothing, whatever calls came before, as long as no command has failed. *)
THEOREM ReplaysHarmless == Spec => []ReplayHarmless
<1>1. ASSUME IInv, ~lost => Replayable
      PROVE  ReplayHarmless
  <2> SUFFICES ASSUME ~lost, NEW c \in Ci \ mask, hw[c].pending # Empty
               PROVE  hw[c].pending.k \notin {"boot", "reboot"} /\ Executed(hw[c], hw[c].pending) = hw[c]
    BY DEF ReplayHarmless
  <2>1. hw[c] \in Device
    BY <1>1 DEF IInv, CiType
  <2>2. hw[c].pending \in Words
    BY <2>1 DEF Device
  <2>3. hw[c].pending.k \notin {"boot", "reboot"} /\ Executed(State(hw[c]), hw[c].pending) = State(hw[c])
    BY <1>1 DEF Replayable, WordsStill, Still
  <2> QED
    BY <2>1, <2>2, <2>3, StillDevice
<1>2. IInv /\ (~lost => Replayable) => ReplayHarmless
  BY <1>1
<1> QED
  BY <1>2, Inductive, StaysReplayable, PTL

-----------------------------------------------------------------------------
(***************************************************************************)
(* Boots.  The last frame that a CI will have been sent is aimed at the    *)
(* DPUs it is meant for: a boot at the DPUs to launch, whose MRAMs are     *)
(* theirs, that of a reset at all of them, a switch of the mux to the host *)
(* at DPUs that do not run.                                                *)
(***************************************************************************)

(* The DPUs that a boot, or a launch, is for. *)
Meant(a, c) == IF a = 0 THEN enabled[c] ELSE {a - 1}

Fit(c, x, w) ==
    /\ w.k = "boot" => x.selected = Meant(w.a, c) /\ x.selected \cap x.mux = {}
    /\ w.k = "reboot" => x.selected = Dpu
    /\ (w.k = "mux" /\ w.a = 1) => x.selected \cap running[c] = {}
FinalAimed == calls = Reset1 \/ \A c \in Ci : Fit(c, Settled(c), Final(c))

(* Between the save and the soft reset nothing is sent. *)
ResetStarts == calls = Reset1 => queue = <<>> /\ ~wait.on

(* A switch of the mux is followed by another frame for the same CIs. *)
Clears(q) == q.r = "frame" /\ q.a.k = "clear"
MuxNext == (\E c \in Ci : Final(c).k = "mux") => calls # <<>> /\ Clears(Head(calls))

(* A CI that holds a frame, not a structure, holds its last one. *)
Plain(w) == w.k \in {"empty", "structure"}
Flight ==
    \A c \in Ci : /\ ~Plain(hw[c].pending) => queue = <<>> /\ hw[c].pending = cmds[c]
                  /\ Len(queue) = 2 => Plain(queue[1].words[c])

Aims == FinalAimed /\ ResetStarts /\ MuxNext /\ Flight

-----------------------------------------------------------------------------
LEMMA PlainEmpty == Plain(Empty) /\ ~Plain(SelectAll)
  BY WordFields DEF Plain

(* Nothing changes but the words on their way. *)
LEMMA SilentAims ==
    ASSUME Aims, UNCHANGED <<config, calls>>, ResetStarts', Flight',
           \A c \in Ci : Settled(c)' = Settled(c) /\ Final(c)' = Final(c)
    PROVE  Aims'
<1>1. UNCHANGED <<enabled, running>>
  BY DEF config
<1>2. FinalAimed'
  BY <1>1 DEF Aims, FinalAimed, Fit, Meant
<1>3. MuxNext'
  BY DEF Aims, MuxNext
<1> QED
  BY <1>2, <1>3 DEF Aims

LEMMA ExecuteAims ==
    ASSUME IInv, Exact, Aims, NEW e \in Ci, Execute(e)
    PROVE  Aims'
<1>1. /\ UNCHANGED <<queue, cmds, config, calls, wait>>
      /\ \A c \in Ci : Settled(c)' = Settled(c) /\ Final(c)' = Final(c)
      /\ hw'[e].pending = Empty /\ \A c \in Ci : c # e => hw'[c] = hw[c]
  BY ExecuteSettled
<1>2. Flight'
  <2> SUFFICES ASSUME NEW c \in Ci
               PROVE  /\ ~Plain(hw'[c].pending) => queue = <<>> /\ hw'[c].pending = cmds[c]
                      /\ Len(queue) = 2 => Plain(queue[1].words[c])
    BY <1>1 DEF Flight
  <2>1. CASE c = e
    BY <1>1, <2>1, PlainEmpty DEF Aims, Flight
  <2>2. CASE c # e
    BY <1>1, <2>2 DEF Aims, Flight
  <2> QED
    BY <2>1, <2>2
<1>3. ResetStarts'
  BY <1>1 DEF Aims, ResetStarts
<1> QED
  BY <1>1, <1>2, <1>3, SilentAims

LEMMA CommitAims ==
    ASSUME IInv, Exact, Aims, Commit, ~lost'
    PROVE  Aims'
<1>1. /\ UNCHANGED <<config, calls>>
      /\ queue \in Seq(Cmd) /\ queue # <<>> /\ queue' = Tail(queue)
      /\ \A c \in Ci : Settled(c)' = Settled(c) /\ Final(c)' = Final(c)
      /\ \A c \in Ci : hw'[c].pending \in {Empty, queue[1].words[c]}
  BY CommitSettled
<1>2. ResetStarts'
  BY <1>1 DEF Aims, ResetStarts
<1>3. cmds' = IF queue[1].shared THEN queue[1].words ELSE cmds
  <2>1. Head(queue) = queue[1]
    BY <1>1
  <2> QED
    BY <2>1 DEF Commit
<1>4. Len(queue) \in {1, 2} /\ queue[Len(queue)].shared /\ Len(queue') = Len(queue) - 1
  <2>1. Len(queue) \in Nat /\ Len(queue) # 0 /\ Len(Tail(queue)) = Len(queue) - 1
    BY <1>1
  <2> QED
    BY <1>1, <2>1 DEF Exact, QueueInv
<1>5. Flight'
  <2> SUFFICES ASSUME NEW c \in Ci
               PROVE  /\ ~Plain(hw'[c].pending) => queue' = <<>> /\ hw'[c].pending = cmds'[c]
                      /\ Len(queue') = 2 => Plain(queue'[1].words[c])
    BY DEF Flight
  <2>1. CASE Len(queue) = 1
    <3>1. Len(queue') = 0 /\ queue[1].shared
      BY <1>4, <2>1
    <3>2. queue' = <<>>
      BY <1>1, <3>1
    <3>3. cmds'[c] = queue[1].words[c] /\ Len(queue') # 2
      BY <1>3, <3>1
    <3>4. hw'[c].pending \in {Empty, queue[1].words[c]}
      BY <1>1
    <3> QED
      BY <3>2, <3>3, <3>4, PlainEmpty
  <2>2. CASE Len(queue) = 2
    <3>1. Len(queue') = 1
      BY <1>4, <2>2
    <3>2. Plain(queue[1].words[c])
      BY <2>2 DEF Aims, Flight
    <3> QED
      BY <1>1, <3>1, <3>2, PlainEmpty
  <2> QED
    BY <1>4, <2>1, <2>2
<1> QED
  BY <1>1, <1>2, <1>5, SilentAims

LEMMA UpdateAims ==
    ASSUME IInv, Exact, Aims, Update, ~lost'
    PROVE  Aims'
<1>1. UNCHANGED <<config, cmds, hw, calls, queue>> /\ wait.on
  BY DEF Update, Fails, count
<1>2. \A c \in Ci : Settled(c)' = Settled(c) /\ Final(c)' = Final(c)
  BY <1>1, SettledSame
<1>3. Flight'
  BY <1>1 DEF Aims, Flight
<1>4. ResetStarts'
  BY <1>1 DEF Aims, ResetStarts
<1> QED
  BY <1>1, <1>2, <1>3, <1>4, SilentAims

(* The commands of a request. *)
LEMMA SentFlight ==
    ASSUME IInv, Exact, queue = <<>>, ~wait.on, hw' = hw,
           NEW s, NEW f, NEW b \in BOOLEAN, queue' = If(b, <<s>>) \o <<f>>, \A c \in Ci : Plain(s.words[c])
    PROVE  Flight' /\ \A c \in Ci : Final(c)' = f.words[c]
<1>1. queue' # <<>> /\ queue'[Len(queue')] = f /\ (Len(queue') = 2 => queue'[1] = s)
  <2>1. CASE b
    <3>1. queue' = <<s>> \o <<f>>
      BY <2>1 DEF If
    <3> QED
      BY <3>1, TwoCommands
  <2>2. CASE ~b
    <3>1. queue' = <<f>>
      BY <2>2, OneCommand DEF If
    <3> QED
      BY <3>1, OneCommand
  <2> QED
    BY <2>1, <2>2
<1>2. \A c \in Ci : hw[c].pending = Empty
  BY AtRequest
<1> QED
  BY <1>1, <1>2, PlainEmpty DEF Flight, Final

LEMMA KeptFlight ==
    ASSUME IInv, Exact, queue = <<>>, ~wait.on, hw' = hw, queue' = queue
    PROVE  Flight'
<1>1. \A c \in Ci : hw[c].pending = Empty
  BY AtRequest
<1>2. Len(queue') = 0
  OBVIOUS
<1> QED
  BY <1>1, <1>2, PlainEmpty DEF Flight

(* UFI_exec_void_frame. *)
LEMMA VoidFrameFlight ==
    ASSUME IInv, Exact, queue = <<>>, ~wait.on, hw' = hw, NEW m \in SUBSET Ci, NEW w, VoidFrame(m, w)
    PROVE  Flight' /\ \A c \in Ci : Final(c)' = IF c \in m THEN w ELSE Empty
<1> DEFINE s == Command(Prepared(m, Structure(w)), TRUE)
           f == Command(Prepared(m, w), TRUE)
           b == Differing(m, [c \in m |-> w]) # {}
<1>1. b \in BOOLEAN /\ queue' = If(b, <<s>>) \o <<f>>
  BY DEF VoidFrame
<1>2. \A c \in Ci : s.words[c] \in {Structure(w), Empty} /\ f.words[c] = IF c \in m THEN w ELSE Empty
  BY DEF Command, Prepared
<1>3. Plain(Structure(w))
  BY WordFields DEF Plain, Structure
<1> HIDE DEF s, f, b
<1>4. \A c \in Ci : Plain(s.words[c])
  BY <1>2, <1>3, PlainEmpty
<1>5. Flight' /\ \A c \in Ci : Final(c)' = f.words[c]
  BY <1>1, <1>4, SentFlight
<1> QED
  BY <1>2, <1>5

(* A reset does not start within a call. *)
LEMMA LaterCalls ==
    ASSUME IInv, calls # <<>>, Head(calls).r \notin {"save", "soft_reset"}, NEW more \in Seq(Inner), calls' = more \o Tail(calls)
    PROVE  calls' \in Seq(Harmless) /\ calls' \notin {Reset, Reset1, Reset2} /\ calls # Reset1
<1>1. Tail(calls) \in Seq(Harmless)
  BY Plan DEF IInv
<1>2. Inner \subseteq Harmless
  BY DEF Inner
<1>3. more \in Seq(Harmless)
  BY <1>2
<1>4. calls' \in Seq(Harmless)
  BY <1>1, <1>3, ConcatProperties
<1>5. Reset \notin Seq(Harmless)
  <2> SUFFICES ASSUME Reset \in Seq(Harmless)
               PROVE  FALSE
    OBVIOUS
  <2>1. Tail(Reset) \in Seq(Harmless)
    BY ResetRest
  <2> QED
    BY <2>1, ResetRest DEF Reset1
<1> QED
  BY <1>4, <1>5, ResetRest

LEMMA LaterTail ==
    ASSUME IInv, calls # <<>>, Head(calls).r \notin {"save", "soft_reset"}, calls' = Tail(calls)
    PROVE  calls' \in Seq(Harmless) /\ calls' \notin {Reset, Reset1, Reset2} /\ calls # Reset1
<1>1. <<>> \in Seq(Inner)
  OBVIOUS
<1>2. Tail(calls) \in Seq(Harmless)
  BY Plan DEF IInv
<1>3. calls' = <<>> \o Tail(calls)
  BY <1>2, ConcatEmptySeq
<1> QED
  BY <1>1, <1>3, LaterCalls

(* The last frames after a request that sends some. *)
Finals(m, want) ==
    /\ \A c \in m : Final(c)' = want[c] /\ want[c] \in Frame /\ Fit(c, Settled(c), want[c])
    /\ \A c \in Ci \ m : Final(c)' \in {Empty, Final(c)}

LEMMA SentAims ==
    ASSUME IInv, Exact, Aims, calls # Reset1, queue = <<>>, ~wait.on, UNCHANGED <<enabled, running>>,
           NEW m \in SUBSET Ci, NEW want, SentTo(m, want), Finals(m, want)
    PROVE  \A c \in Ci : Fit(c, Settled(c), Final(c))'
<1> SUFFICES ASSUME NEW c \in Ci
             PROVE  Fit(c, Settled(c), Final(c))'
  OBVIOUS
<1>1. CASE c \in m
  <2>1. PICK x, z, w : x = Settled(c) /\ z = Settled(c)' /\ w = want[c]
    OBVIOUS
  <2>2. x \in Core /\ w \in Frame /\ z = Sent(x, w) /\ Fit(c, x, w) /\ Final(c)' = w
    BY <1>1, <2>1, AtRequest DEF SentTo, Finals
  <2>3. Effect(x, w, z)
    BY <2>2, SentFacts
  <2>4. w.k \in {"boot", "reboot", "mux"} => z.selected = x.selected
    BY <2>3 DEF Effect
  <2>5. w.k = "boot" => z.mux = x.mux
    BY <2>3 DEF Effect
  <2>6. (w.k = "boot" => z.selected = Meant(w.a, c)' /\ z.selected \cap z.mux = {})
        /\ (w.k = "reboot" => z.selected = Dpu)
        /\ ((w.k = "mux" /\ w.a = 1) => z.selected \cap running'[c] = {})
    BY <2>2, <2>4, <2>5 DEF Fit, Meant
  <2> QED
    BY <2>1, <2>2, <2>6 DEF Fit
<1>2. CASE c \notin m
  <2>1. Settled(c)' = Settled(c) /\ Final(c)' \in {Empty, Final(c)}
    BY <1>2 DEF SentTo, Finals
  <2>2. Fit(c, Settled(c), Final(c))
    BY DEF Aims, FinalAimed
  <2>3. Empty.k = "empty"
    BY WordFields
  <2> QED
    BY <2>1, <2>2, <2>3 DEF Fit, Meant
<1> QED
  BY <1>1, <1>2

(* No mux is about to be switched, unless it is to be cleared next. *)
NoSwitch == \A c \in Ci : Final(c).k # "mux"

LEMMA NotSwitching ==
    ASSUME Aims, calls = <<>> \/ ~Clears(Head(calls))
    PROVE  NoSwitch
  BY DEF Aims, MuxNext, NoSwitch

(* What a request that sends frames leaves, if none of them switches the mux. *)
LEMMA FrameAims ==
    ASSUME IInv, Exact, Aims, calls # <<>>, Head(calls).r \notin {"save", "soft_reset"},
           calls' = Tail(calls), queue = <<>>, ~wait.on, UNCHANGED <<enabled, running>>,
           NEW m \in SUBSET Ci, NEW want, SentTo(m, want), Finals(m, want), Flight', NoSwitch'
    PROVE  Aims'
<1>1. calls' # Reset1 /\ calls # Reset1
  BY LaterTail
<1>2. FinalAimed'
  BY <1>1, SentAims DEF FinalAimed
<1>3. MuxNext'
  BY DEF MuxNext, NoSwitch
<1>4. ResetStarts'
  BY <1>1 DEF ResetStarts
<1> QED
  BY <1>2, <1>3, <1>4 DEF Aims

(* Nothing is sent: what is recorded does not matter to the last frames. *)
LEMMA RecordAims ==
    ASSUME IInv, Exact, Aims, calls = <<>> \/ ~Clears(Head(calls)), queue = <<>>, ~wait.on,
           UNCHANGED <<queue, cmds, hw, wait>>, calls # Reset1, enabled' = enabled \/ NoBoot
    PROVE  Aims'
<1>1. \A c \in Ci : Settled(c)' = Settled(c) /\ Final(c)' = Final(c)
  BY SettledSame
<1>2. NoSwitch
  BY NotSwitching
<1>3. FinalAimed'
  <2>1. \A c \in Ci : Fit(c, Settled(c), Final(c)) /\ Final(c).k # "mux"
    BY <1>2 DEF Aims, FinalAimed, NoSwitch
  <2>2. \A c \in Ci : Fit(c, Settled(c), Final(c))'
    <3> SUFFICES ASSUME NEW c \in Ci
                 PROVE  Fit(c, Settled(c), Final(c))'
      OBVIOUS
    <3>1. CASE enabled' = enabled
      BY <1>1, <2>1, <3>1 DEF Fit, Meant
    <3>2. CASE NoBoot
      BY <1>1, <2>1, <3>2 DEF Fit, NoBoot
    <3> QED
      BY <3>1, <3>2
  <2> QED
    BY <2>2 DEF FinalAimed
<1>4. MuxNext'
  BY <1>1, <1>2 DEF MuxNext, NoSwitch
<1>5. Flight'
  BY KeptFlight
<1> QED
  BY <1>3, <1>4, <1>5 DEF Aims, ResetStarts

(* The selections. *)
LEMMA SelectionFit ==
    ASSUME NEW w \in Selection, NEW c, NEW x
    PROVE  w \in Frame /\ w.k # "mux" /\ Fit(c, x, w)
  BY DEF Selection, Fit

LEMMA SelectAims ==
    ASSUME IInv, Exact, Aims, calls # <<>>, queue = <<>>, ~wait.on,
           Head(calls).r \in {"select_all", "select_all_even_disabled"},
           NEW m \in SUBSET Ci, NEW want \in [Ci -> Selection], Select(m, want)
    PROVE  Aims'
<1> DEFINE do == {c \in m : target[c] # want[c]}
           structs == [c \in Ci |-> IF c \in do THEN Structure(want[c]) ELSE Empty]
           frames == [c \in Ci |-> IF c \in do THEN want[c] ELSE cmds[c]]
           s == Command(structs, FALSE)
           f == Command(frames, TRUE)
           b == Differing(do, want) # {}
<1>1. /\ Proceed(<<>>) /\ UNCHANGED config
      /\ do = {} => UNCHANGED <<queue, cmds, structure>>
      /\ do # {} => VoidFrames(do, want) /\ queue' = If(b, <<s>>) \o <<f>>
  BY DEF Select, VoidFrames
<1>2. calls' = Tail(calls) /\ hw' = hw
  BY <1>1, Over
<1>3. do \in SUBSET Ci /\ b \in BOOLEAN /\ UNCHANGED <<enabled, running>>
  BY <1>1 DEF config
<1>4. \A c \in Ci : Plain(s.words[c]) /\ f.words[c] = IF c \in do THEN want[c] ELSE cmds[c]
  <2>1. \A c \in Ci : s.words[c] = (IF c \in do THEN Structure(want[c]) ELSE Empty)
                      /\ f.words[c] = IF c \in do THEN want[c] ELSE cmds[c]
    BY DEF Command
  <2>2. \A w : Plain(Structure(w))
    BY WordFields DEF Plain, Structure
  <2> HIDE DEF s, f, do
  <2> QED
    BY <2>1, <2>2, PlainEmpty
<1> HIDE DEF do, s, f, b, structs, frames
<1>5. \A c \in Ci : Final(c) = cmds[c]
  BY AtRequest
<1>6. NoSwitch
  <2>1. ~Clears(Head(calls))
    BY DEF Clears
  <2> QED
    BY <2>1, NotSwitching
<1>7. \A c \in Ci : want[c] \in Frame /\ want[c].k # "mux" /\ Fit(c, Settled(c), want[c])
  BY SelectionFit
<1>8. Head(calls).r \notin {"save", "soft_reset"}
  OBVIOUS
<1>9. CASE do = {}
  <2>1. UNCHANGED <<queue, cmds, hw, structure>>
    BY <1>1, <1>2, <1>9
  <2>2. \A c \in Ci : Final(c)' = Final(c)
    BY <2>1, SettledSame
  <2>3. Flight' /\ SentTo({}, want)
    BY <2>1, KeptFlight, NothingSent
  <2>4. Finals({}, want) /\ NoSwitch'
    BY <1>6, <2>2 DEF Finals, NoSwitch
  <2>5. {} \in SUBSET Ci
    OBVIOUS
  <2> QED
    BY <1>2, <1>3, <1>8, <2>3, <2>4, <2>5, FrameAims
<1>10. CASE do # {}
  <2>1. VoidFrames(do, want) /\ queue' = If(b, <<s>>) \o <<f>>
    BY <1>1, <1>10
  <2>2. Flight' /\ \A c \in Ci : Final(c)' = f.words[c]
    BY <1>2, <1>3, <1>4, <2>1, SentFlight
  <2>3. SentTo(do, want)
    <3>1. want \in [Ci -> Frame]
      BY SelectionWord
    <3> QED
      BY <1>2, <1>3, <2>1, <3>1, VoidFramesSent
  <2>4. \A c \in Ci : Final(c)' = IF c \in do THEN want[c] ELSE Final(c)
    BY <1>4, <1>5, <2>2
  <2>5. Finals(do, want) /\ NoSwitch'
    BY <1>3, <1>6, <1>7, <2>4 DEF Finals, NoSwitch
  <2> QED
    BY <1>2, <1>3, <1>8, <2>2, <2>3, <2>5, FrameAims
<1> QED
  BY <1>9, <1>10

(* UFI_exec_void_frame, for a frame that fits. *)
Fitting(m, w) == \A c \in m : Fit(c, Settled(c), w)

LEMMA VoidAims ==
    ASSUME IInv, Exact, Aims, calls # <<>>, Head(calls).r \notin {"save", "soft_reset"},
           calls' = Tail(calls), queue = <<>>, ~wait.on, UNCHANGED <<enabled, running, hw>>,
           NEW m \in SUBSET Ci, NEW w \in Frame, w.k # "mux", VoidFrame(m, w), Fitting(m, w)
    PROVE  Aims'
<1>1. Flight' /\ \A c \in Ci : Final(c)' = IF c \in m THEN w ELSE Empty
  BY VoidFrameFlight
<1>2. PICK want : want = [c \in m |-> w]
  OBVIOUS
<1>3. SentTo(m, want)
  BY <1>2, VoidFrameSent
<1>4. Finals(m, want)
  <2>1. \A c \in m : want[c] = w /\ c \in Ci
    BY <1>2
  <2> QED
    BY <1>1, <2>1 DEF Finals, Fitting
<1>5. NoSwitch'
  <2>1. Empty.k # "mux"
    BY WordFields
  <2> QED
    BY <1>1, <2>1 DEF NoSwitch
<1> QED
  BY <1>1, <1>3, <1>4, <1>5, FrameAims

LEMMA SelectDpuAims ==
    ASSUME IInv, Exact, Aims, calls # <<>>, queue = <<>>, ~wait.on,
           Head(calls).r \in {"select_dpu", "select_dpu_even_disabled"},
           NEW m \in SUBSET Ci, SelectDpu(m, Word("select dpu", Head(calls).a))
    PROVE  Aims'
<1>0. PICK w : w = Word("select dpu", Head(calls).a)
  OBVIOUS
<1>1. /\ Proceed(<<>>) /\ UNCHANGED <<config, cmds>>
      /\ VoidFrame(m, w) \/ (queue' = queue /\ structure' = structure)
  BY <1>0 DEF SelectDpu
<1>2. calls' = Tail(calls) /\ hw' = hw
  BY <1>1, Over
<1>3. UNCHANGED <<enabled, running>>
  BY <1>1 DEF config
<1>4. w \in Selection
  <2>1. Head(calls).a \in Int
    BY Plan DEF IInv, Request
  <2> QED
    BY <1>0, <2>1, Selections
<1>5. w \in Frame /\ w.k # "mux" /\ Fitting(m, w)
  BY <1>4, SelectionFit DEF Fitting
<1>6. Head(calls).r \notin {"save", "soft_reset"} /\ ~Clears(Head(calls))
  BY DEF Clears
<1>7. CASE VoidFrame(m, w)
  BY <1>2, <1>3, <1>5, <1>6, <1>7, VoidAims
<1>8. CASE queue' = queue /\ structure' = structure
  <2>1. UNCHANGED <<queue, cmds, hw, structure>>
    BY <1>1, <1>2, <1>8
  <2>2. \A c \in Ci : Final(c)' = Final(c)
    BY <2>1, SettledSame
  <2>3. PICK want : want = [c \in {} |-> w]
    OBVIOUS
  <2>4. Flight' /\ SentTo({}, want)
    BY <2>1, KeptFlight, NothingSent
  <2>5. NoSwitch
    BY <1>6, NotSwitching
  <2>6. Finals({}, want) /\ NoSwitch'
    BY <2>2, <2>5 DEF Finals, NoSwitch
  <2>7. {} \in SUBSET Ci
    OBVIOUS
  <2> QED
    BY <1>2, <1>3, <1>6, <2>4, <2>6, <2>7, FrameAims
<1> QED
  BY <1>1, <1>7, <1>8

LEMMA SelectsAims ==
    ASSUME IInv, Exact, Aims,
           ufi_select_all \/ ufi_select_all_even_disabled \/ ufi_select_dpu \/ ufi_select_dpu_even_disabled
    PROVE  Aims'
<1>1. CASE ufi_select_all
  <2>1. PICK want : want = [c \in Ci |-> IF enabled[c] = Dpu THEN SelectAll ELSE SelectGroup]
    OBVIOUS
  <2>2. PICK m : m = {c \in Head(calls).cis : enabled[c] # {} \/ target[c] = want[c]}
    OBVIOUS
  <2>3. calls # <<>> /\ queue = <<>> /\ ~wait.on /\ Head(calls).r = "select_all" /\ Select(m, want)
    BY <1>1, <2>1, <2>2 DEF ufi_select_all, Asked
  <2>4. Head(calls).cis \in SUBSET Ci
    BY <2>3, Plan DEF IInv, Request
  <2>5. m \in SUBSET Ci /\ want \in [Ci -> Selection]
    BY <2>1, <2>2, <2>4, Selections
  <2>6. Head(calls).r \in {"select_all", "select_all_even_disabled"}
    BY <2>3
  <2> QED
    BY <2>3, <2>5, <2>6, SelectAims
<1>2. CASE ufi_select_all_even_disabled
  <2>1. PICK want : want = [c \in Ci |-> SelectAll]
    OBVIOUS
  <2>2. calls # <<>> /\ queue = <<>> /\ ~wait.on /\ Head(calls).r = "select_all_even_disabled" /\ Select(Alive, want)
    BY <1>2, <2>1 DEF ufi_select_all_even_disabled, Asked, Alive
  <2>3. Alive \in SUBSET Ci /\ want \in [Ci -> Selection]
    BY <2>1, Selections DEF Alive
  <2>4. Head(calls).r \in {"select_all", "select_all_even_disabled"}
    BY <2>2
  <2> QED
    BY <2>2, <2>3, <2>4, SelectAims
<1>3. CASE ufi_select_dpu
  <2>1. PICK m : m = {c \in Head(calls).cis : Head(calls).a \in enabled[c]}
    OBVIOUS
  <2>2. calls # <<>> /\ queue = <<>> /\ ~wait.on /\ Head(calls).r = "select_dpu"
        /\ SelectDpu(m, Word("select dpu", Head(calls).a))
    BY <1>3, <2>1 DEF ufi_select_dpu, Asked
  <2>3. Head(calls).cis \in SUBSET Ci
    BY <2>2, Plan DEF IInv, Request
  <2>4. m \in SUBSET Ci /\ Head(calls).r \in {"select_dpu", "select_dpu_even_disabled"}
    BY <2>1, <2>2, <2>3
  <2> QED
    BY <2>2, <2>4, SelectDpuAims
<1>4. CASE ufi_select_dpu_even_disabled
  <2>1. calls # <<>> /\ queue = <<>> /\ ~wait.on /\ Head(calls).r = "select_dpu_even_disabled"
        /\ SelectDpu(Alive, Word("select dpu", Head(calls).a))
    BY <1>4 DEF ufi_select_dpu_even_disabled, Asked, Alive
  <2>2. Alive \in SUBSET Ci /\ Head(calls).r \in {"select_dpu", "select_dpu_even_disabled"}
    BY <2>1 DEF Alive
  <2> QED
    BY <2>1, <2>2, SelectDpuAims
<1> QED
  BY <1>1, <1>2, <1>3, <1>4

(* A soft reset replaces the last frames. *)
LEMMA SoftResetAims ==
    ASSUME IInv, Exact, Aims, dpu_soft_reset, ~lost'
    PROVE  Aims'
<1>1. /\ calls # <<>> /\ queue = <<>> /\ ~wait.on /\ Head(calls).r = "soft_reset" /\ calls' = Tail(calls)
      /\ cmds' = Prepared(Alive, Word("reset", 0))
      /\ UNCHANGED <<queue, wait>>
  BY DEF dpu_soft_reset, Asked, Alive
<1>2. hw' = [c \in Ci |-> IF c \in Alive THEN ResetHw(hw[c]) ELSE hw[c]]
  BY DEF dpu_soft_reset, Alive
<1>3. \A c \in Ci : hw'[c].pending = Empty
  <2>1. \A c \in Ci : hw[c].pending = Empty /\ hw[c] \in Device
    BY <1>1, AtRequest DEF IInv, CiType
  <2>2. \A h \in Device : ResetHw(h).pending = Empty
    BY DEF ResetHw, Device
  <2> QED
    BY <1>2, <2>1, <2>2
<1>4. Flight'
  <2>1. Len(queue') = 0
    BY <1>1
  <2> QED
    BY <1>3, <2>1, PlainEmpty DEF Flight
<1>5. \A c \in Ci : Final(c)'.k \in {"reset", "empty"}
  <2>1. \A c \in Ci : Final(c)' = IF c \in Alive THEN Word("reset", 0) ELSE Empty
    BY <1>1 DEF Final, Prepared
  <2>2. PICK w : w = Word("reset", 0)
    OBVIOUS
  <2>3. w.k = "reset" /\ Empty.k = "empty"
    BY <2>2, WordFields
  <2> QED
    BY <2>1, <2>2, <2>3
<1>6. FinalAimed' /\ MuxNext'
  BY <1>5 DEF FinalAimed, MuxNext, Fit
<1>7. ResetStarts'
  BY <1>1 DEF ResetStarts
<1> QED
  BY <1>4, <1>6, <1>7 DEF Aims

-----------------------------------------------------------------------------
(***************************************************************************)
(* Launches.  The last request of a launch records the DPUs that run; the  *)
(* requests before it take their MRAMs from the host, select them and boot *)
(* them.                                                                   *)
(***************************************************************************)
Exclusive == \A c \in Ci : mux[c] \cap running[c] = {}

Launching == calls # <<>> /\ calls[Len(calls)].r = "launched"
Goal == calls[Len(calls)]
Concerned(q) == IF q.a = 0 THEN Alive ELSE q.cis
Lines(a) == IF a = 0 THEN Dpu ELSE {a - 1}

(* The requests of a launch: a switch is to the DPUs that it is for. *)
LaunchKind == {"select_all", "select_dpu", "frame", "polled", "keep_line", "switch_rank", "launched", "set_mram_mux"} \cup Even
Allowed(x, q) ==
    /\ x.r \in LaunchKind
    /\ x.r = "switch_rank" => x.a = 0
    /\ x.r = "keep_line" => Concerned(q) \subseteq x.cis

(* A request that takes the MRAM of DPU d of CI c from the host. *)
Frees(x, c, d) == x.r = "switch_rank" \/ (x.r = "keep_line" /\ x.a = d /\ c \in x.cis)
Freed == \A c \in Concerned(Goal) : \A d \in Lines(Goal.a) :
            d \notin mux[c] \/ \E i \in 1..Len(calls) : Frees(calls[i], c, d)

(* The boot comes right before the end, after the selection of its DPUs. *)
SelectsFor(x, q) == \/ x.r = "select_all" /\ q.a = 0
                    \/ x.r = "select_dpu" /\ q.a # 0 /\ x.a = q.a - 1 /\ x.cis \subseteq q.cis
SelectedFor(q) == \A c \in mask : c \in Concerned(q) /\ Chosen(c) = Meant(q.a, c)
BootReady ==
    \A i \in 1..Len(calls) : Boots(calls[i]) =>
       /\ calls[i].a.a = Goal.a /\ i + 1 = Len(calls)
       /\ i = 1 => SelectedFor(Goal)
       /\ i # 1 => SelectsFor(calls[i - 1], Goal)

LaunchPlan == Launching => (\A i \in 1..Len(calls) : Allowed(calls[i], Goal)) /\ Freed /\ BootReady
LaunchLast == \A i \in 1..Len(calls) : calls[i].r = "launched" => i = Len(calls)

Launches == Exclusive /\ LaunchPlan /\ LaunchLast

-----------------------------------------------------------------------------
(* The mux is switched to the host for DPUs that do not run. *)
LEMMA SetMuxAims ==
    ASSUME IInv, Exact, Aims, Launches, ufi_set_mram_mux
    PROVE  Aims'
<1> DEFINE words == [c \in mask |-> Word("mux", IF c \in Head(calls).cis THEN 1 ELSE 0)]
           write == Differing(mask, words) # {}
           frames == [c \in Ci |-> IF c \in mask THEN words[c] ELSE IF write THEN Empty ELSE cmds[c]]
           s == Command(Prepared(mask, Word("structure", 3)), TRUE)
           f == Command(frames, TRUE)
           clear == Req("frame", Word("clear", 0), {})
<1>1. /\ calls # <<>> /\ queue = <<>> /\ ~wait.on /\ Head(calls).r = "set_mram_mux"
      /\ Cache(mask, words) /\ queue' = If(write, <<s>>) \o <<f>>
      /\ calls' = <<clear>> \o Tail(calls) /\ UNCHANGED <<mask, config, hw>>
  BY DEF ufi_set_mram_mux, Asked, Proceed
<1>2. mask \in SUBSET Ci /\ cmds \in [Ci -> Words]
  BY DEF IInv, CiType
<1>3. \A c \in mask : words[c] \in Frame /\ words[c].k = "mux" /\ words[c].a = IF c \in Head(calls).cis THEN 1 ELSE 0
  <2>1. Word("mux", 0) \in Frame /\ Word("mux", 1) \in Frame
    BY DEF Word, Frame, FrameKind
  <2>2. \A a : Word("mux", a).k = "mux" /\ Word("mux", a).a = a
    BY WordFields
  <2> QED
    BY <2>1, <2>2
<1>4. words \in [mask -> Frame]
  BY <1>3
<1>5. \A c \in mask : Structure(words[c]) = Word("structure", 3)
  BY <1>3 DEF Structure, StructureOf
<1>6. frames \in [Ci -> Words]
  BY <1>2, <1>3, FrameWords, EmptyWord
<1>7. s \in Cmd /\ f \in Cmd /\ f.shared /\ f.words = frames
  <2>1. Word("structure", 3) \in Words
    BY DEF Word, Words
  <2>2. s \in Cmd
    BY <1>2, <2>1, PreparedWords
  <2> QED
    BY <1>6, <2>2 DEF Command, Cmd
<1>8. \A c \in mask : s.words[c] = Structure(words[c]) /\ f.words[c] = words[c]
  BY <1>2, <1>5, <1>7 DEF Command, Prepared
<1>9. \A c \in Ci \ mask : s.words[c] = Empty /\ f.words[c] \in {Empty, cmds[c]}
  BY <1>7 DEF Command, Prepared
<1>10. queue' = If(Differing(mask, words) # {}, <<s>>) \o <<f>>
  BY <1>1
<1>11. \A c \in Ci : Plain(s.words[c])
  <2>1. \A c \in Ci : s.words[c] \in {Word("structure", 3), Empty}
    BY DEF Command, Prepared
  <2>2. PICK w : w = Word("structure", 3)
    OBVIOUS
  <2>3. Plain(w)
    BY <2>2, WordFields DEF Plain
  <2> HIDE DEF s
  <2> QED
    BY <2>1, <2>2, <2>3, PlainEmpty
<1>12. write \in BOOLEAN
  OBVIOUS
<1> HIDE DEF words, write, frames, s, f, clear
<1>13. SentTo(mask, words) /\ Flight' /\ \A c \in Ci : Final(c)' = f.words[c]
  <2>1. queue = <<>> /\ ~wait.on /\ hw' = hw /\ Cache(mask, words)
    BY <1>1
  <2>2. mask \in SUBSET Ci /\ words \in [mask -> Frame]
    BY <1>2, <1>4
  <2>3. s \in Cmd /\ f \in Cmd /\ f.shared
    BY <1>7
  <2>4. SentTo(mask, words)
    BY <1>8, <1>9, <1>10, <2>1, <2>2, <2>3, SentInv
  <2>5. queue' = If(write, <<s>>) \o <<f>>
    BY <1>1
  <2> QED
    BY <1>11, <1>12, <2>1, <2>4, <2>5, SentFlight
<1>14. Head(calls) = calls[1] /\ 1 \in 1..Len(calls) /\ 1 \in Muxes
  BY <1>1, CallsSeq, TailCalls DEF Muxes, IInv
<1>15. mask = Alive
  BY <1>14 DEF Exact, MuxShape
<1>16. ASSUME NEW c \in mask
       PROVE  Fit(c, Settled(c), words[c])
  <2>1. c \in Alive /\ c \in Ci
    BY <1>2, <1>15
  <2>2. Settled(c).selected = Chosen(c)
    BY <1>1, <2>1, MaskKept DEF Exact, TargetExact
  <2>3. Settled(c).selected \subseteq Int
    BY <1>1, <2>1, AtRequest DEF Core
  <2>4. c \in Head(calls).cis => \A d \in Settled(c).selected : d \in mux[c]
    BY <1>14, <2>1, <2>2, <2>3 DEF Exact, MuxPlanned, Aim
  <2>5. c \in Head(calls).cis => Settled(c).selected \cap running[c] = {}
    BY <2>1, <2>4 DEF Launches, Exclusive
  <2>6. words[c].k = "mux" /\ (words[c].a = 1 => c \in Head(calls).cis)
    BY <1>3
  <2> QED
    BY <2>5, <2>6 DEF Fit
<1>17. Finals(mask, words)
  <2>1. \A c \in Ci : Final(c) = cmds[c]
    BY <1>1, AtRequest
  <2> QED
    BY <1>2, <1>3, <1>8, <1>9, <1>13, <1>16, <2>1 DEF Finals
<1>18. UNCHANGED <<enabled, running>>
  BY <1>1 DEF config
<1>19. calls # Reset1
  BY <1>1, ResetRest
<1>20. FinalAimed'
  BY <1>1, <1>2, <1>13, <1>17, <1>18, <1>19, SentAims DEF FinalAimed
<1>21. clear \in Inner /\ Clears(clear)
  <2>1. Word("clear", 0) \in Payload /\ Word("clear", 0).k = "clear"
    BY DEF Word, Frame, FrameKind, Payload
  <2>2. clear \in Harmless /\ clear.r = "frame" /\ clear.a = Word("clear", 0)
    BY <2>1, FrameHarmless DEF Req, clear
  <2> QED
    BY <2>1, <2>2 DEF Inner, Clears, Reboots
<1>22. PICK more : more = <<clear>>
  OBVIOUS
<1>23. more \in Seq(Inner) /\ Len(more) = 1 /\ more[1] = clear
  BY <1>21, <1>22
<1>24. calls' = more \o Tail(calls)
  BY <1>1, <1>22
<1>25. calls' # Reset1
  BY <1>1, <1>23, <1>24, LaterCalls
<1>26. calls' # <<>> /\ Head(calls') = clear
  <2>1. calls \in Seq(Request)
    BY CallsSeq DEF IInv
  <2>2. Tail(calls) \in Seq(Request) /\ more \in Seq(Request)
    BY <1>1, <1>21, <1>23, <2>1 DEF Inner, Harmless
  <2>3. PICK t, S : t = Tail(calls) /\ S = Request
    OBVIOUS
  <2>4. t \in Seq(S) /\ more \in Seq(S)
    BY <2>2, <2>3
  <2>5. /\ Len(more \o t) = Len(more) + Len(t) /\ Len(t) \in Nat /\ more \o t \in Seq(S)
        /\ \A j \in 1..Len(more) + Len(t) : (more \o t)[j] = IF j <= Len(more) THEN more[j] ELSE t[j - Len(more)]
    BY <2>4, ConcatProperties
  <2>6. 1 \in 1..1 + Len(t) /\ 1 + Len(t) # 0
    BY <2>5
  <2>7. (more \o t)[1] = clear /\ more \o t # <<>>
    BY <1>23, <2>5, <2>6
  <2>8. Head(more \o t) = (more \o t)[1]
    BY <2>5, <2>7
  <2> QED
    BY <1>24, <2>3, <2>7, <2>8
<1>27. MuxNext' /\ ResetStarts'
  BY <1>21, <1>25, <1>26 DEF MuxNext, ResetStarts
<1> QED
  BY <1>13, <1>20, <1>27 DEF Aims

(* A boot finds its DPUs selected, and their MRAMs theirs. *)
LEMMA BootFits ==
    ASSUME IInv, Exact, Replayable, Launches, calls # <<>>, queue = <<>>, ~wait.on, Boots(Head(calls))
    PROVE  Fitting(mask, Head(calls).a)
<1>1. PICK l, q, w : l = Len(calls) /\ q = Goal /\ w = Head(calls).a
  OBVIOUS
<1>2. calls \in Seq(Request) /\ Head(calls) = calls[1] /\ 1 \in 1..Len(calls)
  BY CallsSeq, TailCalls DEF IInv
<1>3. Launching /\ mask \subseteq Alive
  BY <1>2 DEF Launching, Replayable, BootPlan, BootShape
<1>4. w.a = q.a /\ l = 2 /\ SelectedFor(q)
  <2>1. w.a = q.a /\ 1 + 1 = Len(calls) /\ SelectedFor(q)
    BY <1>1, <1>2, <1>3 DEF Launches, LaunchPlan, BootReady
  <2>2. 1 + 1 = l
    BY <1>1, <2>1
  <2>3. 1 + 1 = 2
    OBVIOUS
  <2> QED
    BY <2>1, <2>2, <2>3
<1>5. ASSUME NEW c \in Ci, NEW d, NEW i \in 1..Len(calls)
      PROVE  ~Frees(calls[i], c, d)
  <2>1. i = 1 \/ i = 2
    BY <1>1, <1>4
  <2>2. calls[2].r = "launched" /\ calls[1].r = "frame"
    BY <1>1, <1>2, <1>3, <1>4 DEF Launching, Boots
  <2> QED
    BY <2>1, <2>2 DEF Frees
<1>6. Head(calls) \notin Low
  BY DEF Low, Boots, Even
<1>7. \A c \in Alive : \A d \in Int : d \in mux[c] <=> d \in Settled(c).mux
  BY <1>6, NoMuxes
<1>8. \A d \in Dpu : d \in Int
  BY CiAssumption DEF Dpu
<1>9. \A c \in Ci : enabled[c] \subseteq Dpu
  BY DEF IInv, CiType
<1>10. q.a \in Int
  <2>1. q \in Request /\ q.r = "launched"
    BY <1>1, <1>2, <1>3 DEF Goal, Launching
  <2> QED
    BY <2>1 DEF Request
<1>11. ASSUME NEW c \in mask
       PROVE  Fit(c, Settled(c), w)
  <2>1. c \in Alive /\ c \in Ci /\ c \in Concerned(q) /\ Chosen(c) = Meant(q.a, c)
    BY <1>3, <1>4 DEF SelectedFor, Alive
  <2>2. target[c] # Empty
    <3>1. Head(calls).r \notin {"soft_reset", "select_all"}
      BY DEF Boots
    <3> QED
      BY <3>1, MaskKept
  <2>3. Settled(c).selected = Meant(q.a, c)
    BY <2>1, <2>2 DEF Exact, TargetExact
  <2>4. Meant(q.a, c) \subseteq Lines(q.a) /\ Lines(q.a) \subseteq Int
    BY <1>8, <1>9, <1>10, <2>1 DEF Meant, Lines
  <2>5. \A d \in Lines(q.a) : d \notin mux[c]
    BY <1>1, <1>3, <1>5, <2>1 DEF Launches, LaunchPlan, Freed
  <2>6. Settled(c).selected \cap Settled(c).mux = {}
    BY <1>7, <2>1, <2>3, <2>4, <2>5
  <2>7. w.k = "boot"
    BY <1>1 DEF Boots
  <2> QED
    BY <1>4, <2>3, <2>6, <2>7 DEF Fit
<1> QED
  BY <1>1, <1>11 DEF Fitting

(* The boots of a reset find all the DPUs selected. *)
LEMMA RebootFits ==
    ASSUME IInv, Exact, RebootPlan, calls # <<>>, Reboots(Head(calls))
    PROVE  Fitting(mask, Head(calls).a)
<1>1. calls = Reset5
  <2>1. Head(calls) = calls[1] /\ 1 \in 1..Len(calls)
    BY CallsSeq, TailCalls DEF IInv
  <2>2. HasReboot(calls)
    BY <2>1 DEF HasReboot
  <2>3. Head(calls).r = "frame" /\ Head(calls) # Reading
    BY RebootWords DEF Reboots
  <2> QED
    BY <2>2, <2>3, RebootHeads
<1>2. Head(calls).a.k = "reboot"
  BY DEF Reboots
<1>3. ASSUME NEW c \in mask
      PROVE  Settled(c).selected = Dpu
  <2>1. c \in Alive /\ target[c] = SelectAll
    BY <1>1 DEF RebootPlan
  <2>2. target[c] # Empty /\ Chosen(c) = Dpu
    BY <2>1, WordFields DEF Chosen
  <2> QED
    BY <2>1, <2>2 DEF Exact, TargetExact
<1> QED
  BY <1>2, <1>3 DEF Fitting, Fit

LEMMA SendAims ==
    ASSUME IInv, Exact, RebootPlan, Replayable, Aims, Launches, SendFrame \/ ufi_write_group
    PROVE  Aims'
<1> DEFINE q == Head(calls)
<1>1. PICK w : w = IF q.r = "frame" THEN q.a ELSE Word("write group", q.a)
  OBVIOUS
<1>2. /\ calls # <<>> /\ queue = <<>> /\ ~wait.on /\ q.r \in {"frame", "write_group"}
      /\ VoidFrame(mask, w) /\ Proceed(<<>>) /\ UNCHANGED config
  <2>1. CASE SendFrame
    <3>1. calls # <<>> /\ queue = <<>> /\ ~wait.on /\ q.r = "frame" /\ VoidFrame(mask, q.a)
          /\ Proceed(<<>>) /\ UNCHANGED config
      BY <2>1 DEF SendFrame, Asked
    <3> QED
      BY <1>1, <3>1
  <2>2. CASE ufi_write_group
    <3>1. calls # <<>> /\ queue = <<>> /\ ~wait.on /\ q.r = "write_group" /\ VoidFrame(mask, Word("write group", q.a))
          /\ Proceed(<<>>) /\ UNCHANGED config
      BY <2>2 DEF ufi_write_group, Asked
    <3> QED
      BY <1>1, <3>1
  <2> QED
    BY <2>1, <2>2
<1>3. calls' = Tail(calls) /\ hw' = hw
  BY <1>2, Over
<1>4. mask \in SUBSET Ci /\ UNCHANGED <<enabled, running>>
  BY <1>2 DEF config, IInv, CiType
<1>5. q \in Request
  BY <1>2, Plan DEF IInv
<1> HIDE DEF q
<1>6. /\ w \in Frame /\ w.k # "mux" /\ (w.k = "boot" => Boots(q) /\ w = q.a)
      /\ w.k = "reboot" => Reboots(q) /\ w = q.a
  <2>1. CASE q.r = "frame"
    BY <1>1, <1>5, <2>1 DEF Request, Payload, Boots, Reboots
  <2>2. CASE q.r = "write_group"
    <3>1. w = Word("write group", q.a) /\ q.a \in Int
      BY <1>1, <1>5, <2>2 DEF Request
    <3>2. w \in Frame /\ w.k = "write group"
      BY <3>1, Frames, WordFields
    <3> QED
      BY <3>2
  <2> QED
    BY <1>2, <2>1, <2>2
<1>7. Fitting(mask, w)
  <2>1. CASE w.k = "boot"
    BY <1>2, <1>6, <2>1, BootFits DEF q
  <2>2. CASE w.k = "reboot"
    BY <1>2, <1>6, <2>2, RebootFits DEF q
  <2>3. CASE w.k \notin {"boot", "reboot"}
    BY <1>6, <2>3 DEF Fitting, Fit
  <2> QED
    BY <2>1, <2>2, <2>3
<1>8. q.r \notin {"save", "soft_reset"}
  BY <1>2
<1> QED
  BY <1>2, <1>3, <1>4, <1>6, <1>7, <1>8, VoidAims DEF q

(* What is left of a call when a request makes way for others, n of them. *)
Shifted(more, n, l) ==
    /\ n = Len(more) /\ l = Len(calls) /\ l # 0 /\ Len(calls') = n + l - 1
    /\ calls \in Seq(Request) /\ calls' \in Seq(Request) /\ Head(calls) = calls[1]
    /\ \A j \in 1..n : calls'[j] = more[j] /\ more[j] \in Inner
    /\ \A j \in 1..n + l - 1 : j > n => calls'[j] = calls[j - n + 1] /\ j - n + 1 \in 2..l
    /\ \A k \in 2..l : k + n - 1 \in 1..n + l - 1 /\ calls'[k + n - 1] = calls[k]
    /\ l = 1 => calls' = more

LEMMA Remaining ==
    ASSUME IInv, calls # <<>>, NEW more \in Seq(Inner), calls' = more \o Tail(calls)
    PROVE  \E n, l \in Nat : Shifted(more, n, l)
<1>1. calls \in Seq(Request)
  BY CallsSeq DEF IInv
<1>2. PICK n, l, t : n = Len(more) /\ l = Len(calls) /\ t = calls'
  OBVIOUS
<1>3. /\ t \in Seq(Request) /\ Len(t) = Len(more) + Len(calls) - 1 /\ Len(more) \in Nat /\ Len(calls) \in Nat
      /\ \A j \in 1..Len(more) : t[j] = more[j] /\ more[j] \in Inner
      /\ \A j \in 1..Len(t) : j > Len(more) => t[j] = calls[j - Len(more) + 1] /\ j - Len(more) + 1 \in 2..Len(calls)
  BY <1>1, <1>2, MoreCallsLeft
<1>4. /\ t \in Seq(Request) /\ Len(t) = n + l - 1 /\ n \in Nat /\ l \in Nat
      /\ \A j \in 1..n : t[j] = more[j] /\ more[j] \in Inner
      /\ \A j \in 1..n + l - 1 : j > n => t[j] = calls[j - n + 1] /\ j - n + 1 \in 2..l
  BY <1>2, <1>3
<1>5. l # 0 /\ Head(calls) = calls[1]
  <2>1. 1 \in 1..Len(calls) /\ Head(calls) = calls[1]
    BY <1>1, TailCalls
  <2>2. 1 \in 1..l
    BY <1>2, <2>1
  <2> QED
    BY <1>4, <2>1, <2>2
<1>6. ASSUME NEW k \in 2..l
      PROVE  k + n - 1 \in 1..n + l - 1 /\ t[k + n - 1] = calls[k]
  <2>1. k + n - 1 \in 1..n + l - 1 /\ k + n - 1 > n /\ (k + n - 1) - n + 1 = k
    BY <1>4
  <2>2. t[k + n - 1] = calls[(k + n - 1) - n + 1]
    BY <1>4, <2>1
  <2> QED
    BY <2>1, <2>2
<1>7. ASSUME l = 1
      PROVE  calls' = more
  <2>1. Len(Tail(calls)) = 0 /\ Tail(calls) \in Seq(Request)
    <3>1. Len(Tail(calls)) = Len(calls) - 1 /\ Tail(calls) \in Seq(Request)
      BY <1>1, TailCalls
    <3>2. Len(Tail(calls)) = l - 1
      BY <1>2, <3>1
    <3>3. l - 1 = 0
      BY <1>7
    <3> QED
      BY <3>1, <3>2, <3>3
  <2>2. Tail(calls) = <<>>
    <3>1. PICK u : u = Tail(calls)
      OBVIOUS
    <3>2. u \in Seq(Request) /\ Len(u) = 0
      BY <2>1, <3>1
    <3>3. u = <<>>
      BY <3>2
    <3> QED
      BY <3>1, <3>3
  <2> QED
    BY <2>2, ConcatEmptySeq
<1>8. Shifted(more, n, l)
  BY <1>1, <1>2, <1>4, <1>5, <1>6, <1>7 DEF Shifted
<1> QED
  BY <1>4, <1>8

(* What a request does to the mux of the CIs it is for. *)
Yields(x) ==
    \A c \in Ci : (x.r = "keep_line" => c \in x.cis) =>
       \A d \in Int : (d \in mux'[c] => d \in mux[c]) /\ (Frees(x, c, d) => d \notin mux'[c])

(* What a selection before a boot leaves. *)
Readies(x, more) ==
    /\ enabled' = enabled /\ Yields(x) /\ more \in Seq(Low)
    /\ SelectsFor(x, Goal) => more = <<>> /\ SelectedFor(Goal)'

NotLaunched(more) == \A j \in 1..Len(more) : more[j].r # "launched"

LEMMA LowKind ==
    ASSUME NEW x \in Low
    PROVE  /\ x \in Inner /\ ~Boots(x) /\ x.r \in LaunchKind
           /\ x.r \notin {"launched", "switch_rank", "keep_line", "select_all", "select_dpu"}
<1>1. x \in Calm
  BY LowCalm
<1>2. x \in Inner /\ ~Boots(x)
  BY <1>1 DEF Calm
<1> QED
  BY <1>2 DEF Low, LaunchKind, Even

LEMMA MoreLaunches ==
    ASSUME IInv, Launches, Exclusive', calls # <<>>, NEW more \in Seq(Inner), calls' = more \o Tail(calls),
           NotLaunched(more), Launching => Readies(Head(calls), more)
    PROVE  Launches'
<1>1. PICK n \in Nat, l \in Nat : Shifted(more, n, l)
  BY Remaining
<1>2. \A j \in 1..n : calls'[j] = more[j] /\ more[j].r # "launched"
  BY <1>1 DEF Shifted, NotLaunched
<1>3. PICK z : z = n + l - 1
  OBVIOUS
<1>4. /\ l = Len(calls) /\ l # 0 /\ Len(calls') = z /\ z \in Nat /\ Head(calls) = calls[1] /\ calls \in Seq(Request)
      /\ \A j \in 1..z : j \in 1..n \/ (j > n /\ calls'[j] = calls[j - n + 1] /\ j - n + 1 \in 2..l)
      /\ \A k \in 2..l : k + n - 1 \in 1..z /\ calls'[k + n - 1] = calls[k]
      /\ l = 1 => calls' = more
  BY <1>1, <1>3 DEF Shifted
<1>5. LaunchLast'
  <2> SUFFICES ASSUME NEW i \in 1..z, calls'[i].r = "launched"
               PROVE  i = z
    BY <1>4 DEF LaunchLast
  <2>1. i > n /\ calls'[i] = calls[i - n + 1] /\ i - n + 1 \in 2..l
    BY <1>2, <1>4
  <2>2. i - n + 1 \in 1..l
    BY <2>1
  <2>3. i - n + 1 = l
    BY <1>4, <2>1, <2>2 DEF Launches, LaunchLast
  <2> QED
    BY <1>3, <2>3
<1>6. LaunchPlan'
  <2> SUFFICES ASSUME Launching'
               PROVE  (\A i \in 1..z : Allowed(calls[i], Goal)') /\ Freed' /\ BootReady'
    BY <1>4 DEF LaunchPlan
  <2>1. calls' # <<>> /\ z # 0 /\ calls'[z].r = "launched" /\ Goal' = calls'[z]
    <3>1. calls' # <<>> /\ calls'[z].r = "launched" /\ Goal' = calls'[z]
      BY <1>4 DEF Launching, Goal
    <3>2. calls' \in Seq(Request) /\ Len(calls') = z
      BY <1>1, <1>4 DEF Shifted
    <3> QED
      BY <3>1, <3>2
  <2>2. z \in 1..z
    BY <1>4, <2>1
  <2>3. l # 1
    <3> SUFFICES ASSUME l = 1
                 PROVE  FALSE
      OBVIOUS
    <3>1. z = n
      BY <1>3
    <3> QED
      BY <1>2, <2>1, <2>2, <3>1
  <2>4. Launching /\ Goal' = Goal /\ Goal = calls[l]
    <3>1. l \in 2..l /\ l + n - 1 = z
      BY <1>3, <1>4, <2>3
    <3>2. calls'[z] = calls[l]
      BY <1>4, <3>1
    <3>3. calls # <<>> /\ Goal = calls[l]
      BY <1>4 DEF Goal
    <3> QED
      BY <1>4, <2>1, <3>2, <3>3 DEF Launching
  <2>5. enabled' = enabled /\ Yields(Head(calls)) /\ more \in Seq(Low)
        /\ (SelectsFor(Head(calls), Goal) => more = <<>> /\ SelectedFor(Goal)')
    BY <2>4 DEF Readies
  <2>6. \A j \in 1..n : calls'[j] \in Low
    <3>1. n = Len(more)
      BY <1>1 DEF Shifted
    <3> QED
      BY <1>2, <2>5, <3>1
  <2>7. (\A i \in 1..l : Allowed(calls[i], Goal)) /\ Freed /\ BootReady
    BY <1>4, <2>4 DEF Launches, LaunchPlan
  <2>8. PICK g : g = Goal
    OBVIOUS
  <2>9. Alive' = Alive /\ Concerned(g)' = Concerned(g)
    BY <2>5 DEF Alive, Concerned
  <2>10. \A i \in 1..z : Allowed(calls'[i], g) /\ (i \in 1..n => ~Boots(calls'[i]))
    <3> SUFFICES ASSUME NEW i \in 1..z
                 PROVE  Allowed(calls'[i], g) /\ (i \in 1..n => ~Boots(calls'[i]))
      OBVIOUS
    <3>1. CASE i \in 1..n
      <4>1. /\ ~Boots(calls'[i]) /\ calls'[i].r \in LaunchKind
            /\ calls'[i].r \notin {"launched", "switch_rank", "keep_line", "select_all", "select_dpu"}
        BY <2>6, <3>1, LowKind
      <4> QED
        BY <4>1 DEF Allowed
    <3>2. CASE i \notin 1..n
      <4>1. calls'[i] = calls[i - n + 1] /\ i - n + 1 \in 2..l
        BY <1>4, <3>2
      <4>2. i - n + 1 \in 1..l
        BY <4>1
      <4> QED
        BY <2>7, <2>8, <3>2, <4>1, <4>2
    <3> QED
      BY <3>1, <3>2
  <2>11. \A i \in 1..z : Allowed(calls[i], Goal)'
    BY <2>4, <2>8, <2>9, <2>10 DEF Allowed
  <2>12. g \in Request /\ g.r = "launched"
    <3>1. l \in 1..l
      BY <1>4
    <3> QED
      BY <1>4, <2>4, <2>8, <3>1 DEF Launching, Goal
  <2>13. Freed'
    <3> SUFFICES ASSUME NEW c \in Concerned(g), NEW d \in Lines(g.a), d \in mux'[c]
                 PROVE  \E i \in 1..z : Frees(calls'[i], c, d)
      <4>1. \A c \in Concerned(g) : \A d \in Lines(g.a) : d \notin mux'[c] \/ \E i \in 1..z : Frees(calls'[i], c, d)
        OBVIOUS
      <4>2. Goal' = g /\ Concerned(g)' = Concerned(g) /\ Len(calls') = z
        BY <1>4, <2>4, <2>8, <2>9
      <4>3. Concerned(Goal)' = Concerned(g) /\ Lines(Goal.a)' = Lines(g.a)
        BY <4>2 DEF Concerned, Lines
      <4> QED
        BY <4>1, <4>2, <4>3 DEF Freed, Frees
    <3>1. c \in Ci /\ d \in Int
      <4>1. g.cis \subseteq Ci /\ g.a \in Int /\ Alive \subseteq Ci /\ Dpu \subseteq Int
        BY <2>12, CiAssumption DEF Request, Alive, Dpu
      <4>2. c \in Ci
        BY <4>1 DEF Concerned
      <4>3. d \in Dpu \/ d = g.a - 1
        BY DEF Lines
      <4>4. g.a - 1 \in Int
        BY <4>1
      <4> QED
        BY <4>1, <4>2, <4>3, <4>4
    <3>2. Head(calls).r = "keep_line" => c \in Head(calls).cis
      <4>1. 1 \in 1..l
        BY <1>4
      <4>2. Allowed(Head(calls), g)
        BY <1>4, <2>7, <2>8, <4>1
      <4> QED
        BY <4>2 DEF Allowed
    <3>3. d \in mux[c] /\ ~Frees(Head(calls), c, d)
      BY <2>5, <3>1, <3>2 DEF Yields
    <3>4. PICK k \in 1..l : Frees(calls[k], c, d)
      BY <1>4, <2>7, <2>8, <3>3 DEF Freed
    <3>5. k # 1
      BY <1>4, <3>3, <3>4
    <3>6. k \in 2..l
      BY <3>5
    <3>7. k + n - 1 \in 1..z /\ calls'[k + n - 1] = calls[k]
      BY <1>4, <3>6
    <3> QED
      BY <3>4, <3>7
  <2>14. BootReady'
    <3> SUFFICES ASSUME NEW i \in 1..z, Boots(calls'[i])
                 PROVE  /\ calls'[i].a.a = g.a /\ i + 1 = z
                        /\ i = 1 => SelectedFor(g)'
                        /\ i # 1 => SelectsFor(calls'[i - 1], g)
      BY <1>4, <2>4, <2>8 DEF BootReady, SelectsFor, Boots, SelectedFor, Concerned, Meant
    <3>1. i > n /\ calls'[i] = calls[i - n + 1] /\ i - n + 1 \in 2..l
      BY <1>4, <2>10
    <3>2. PICK k : k = i - n + 1
      OBVIOUS
    <3>3. k \in 2..l /\ k \in 1..l /\ k # 1 /\ calls'[i] = calls[k]
      <4>1. k \in 2..l /\ calls'[i] = calls[k]
        BY <3>1, <3>2
      <4>2. k \in 1..l /\ k # 1
        BY <4>1
      <4> QED
        BY <4>1, <4>2
    <3>4. calls[k].a.a = g.a /\ k + 1 = l /\ SelectsFor(calls[k - 1], g)
      BY <1>4, <2>7, <2>8, <3>1, <3>3 DEF BootReady
    <3>5. i + 1 = z
      BY <1>3, <3>2, <3>4
    <3>6. CASE k = 2
      <4>1. SelectsFor(Head(calls), g)
        <5>1. k - 1 = 1
          BY <3>6
        <5> QED
          BY <1>4, <3>4, <5>1
      <4>2. more = <<>> /\ SelectedFor(g)'
        BY <2>4, <2>5, <2>8, <4>1 DEF SelectedFor, Concerned, Meant
      <4>3. n = 0
        BY <1>1, <4>2 DEF Shifted
      <4>4. i = 1
        BY <3>2, <3>6, <4>3
      <4> QED
        BY <3>3, <3>4, <3>5, <4>2, <4>4
    <3>7. CASE k # 2
      <4>1. k - 1 \in 2..l /\ (k - 1) + n - 1 = i - 1 /\ i # 1
        BY <3>2, <3>3, <3>7
      <4>2. calls'[i - 1] = calls[k - 1]
        BY <1>4, <4>1
      <4> QED
        BY <3>3, <3>4, <3>5, <4>1, <4>2
    <3> QED
      BY <3>6, <3>7
  <2> QED
    BY <2>11, <2>13, <2>14
<1> QED
  BY <1>5, <1>6 DEF Launches

LEMMA SilentLaunches ==
    ASSUME Launches, UNCHANGED <<caches, config, calls, mask>>
    PROVE  Launches'
<1>1. UNCHANGED <<target, groups, enabled, mux, running>>
  BY DEF caches, config
<1>2. \A q : Concerned(q)' = Concerned(q) /\ SelectedFor(q)' = SelectedFor(q)
  BY <1>1 DEF Concerned, Alive, SelectedFor, Chosen, Meant
<1>3. Goal' = Goal /\ Launching' = Launching
  BY DEF Goal, Launching
<1>4. BootReady' = BootReady
  BY <1>2, <1>3 DEF BootReady, SelectsFor, Boots
<1>5. Freed' = Freed
  BY <1>1, <1>2, <1>3 DEF Freed, Frees, Lines
<1>6. LaunchPlan'
  BY <1>2, <1>3, <1>4, <1>5 DEF Launches, LaunchPlan, Allowed
<1> QED
  BY <1>1, <1>6 DEF Launches, Exclusive, LaunchLast

LEMMA MuxKept ==
    ASSUME mux' = mux, NEW x, x.r \notin {"switch_rank", "keep_line"}
    PROVE  Yields(x)
  BY DEF Yields, Frees

LEMMA OutOfLaunch ==
    ASSUME IInv, Launches, calls # <<>>, Head(calls).r \notin LaunchKind
    PROVE  ~Launching
<1>1. Head(calls) = calls[1] /\ 1 \in 1..Len(calls)
  BY CallsSeq, TailCalls DEF IInv
<1> QED
  BY <1>1 DEF Launches, LaunchPlan, Allowed

(* A request is over. *)
LEMMA TailLaunches ==
    ASSUME IInv, Launches, Exclusive', calls # <<>>, calls' = Tail(calls), Launching => Readies(Head(calls), <<>>)
    PROVE  Launches'
<1>1. calls \in Seq(Request)
  BY CallsSeq DEF IInv
<1>2. Tail(calls) \in Seq(Request)
  BY <1>1, TailCalls
<1>3. calls' = <<>> \o Tail(calls)
  BY <1>2, ConcatEmptySeq
<1>4. PICK more : more = <<>>
  OBVIOUS
<1>5. more \in Seq(Inner) /\ Len(more) = 0
  BY <1>4
<1>6. 1..Len(more) = {}
  BY <1>5
<1>7. NotLaunched(more)
  BY <1>6 DEF NotLaunched
<1>8. calls' = more \o Tail(calls) /\ (Launching => Readies(Head(calls), more))
  BY <1>3, <1>4
<1> QED
  BY <1>5, <1>7, <1>8, MoreLaunches

(* One that selects nothing and switches no mux. *)
LEMMA OverLaunches ==
    ASSUME IInv, Launches, Exclusive', calls # <<>>, calls' = Tail(calls), mux' = mux,
           Launching => enabled' = enabled,
           Head(calls).r \notin {"switch_rank", "keep_line", "select_all", "select_dpu"}
    PROVE  Launches'
<1>1. Yields(Head(calls))
  BY MuxKept
<1>2. ~SelectsFor(Head(calls), Goal)
  BY DEF SelectsFor
<1>3. <<>> \in Seq(Low)
  OBVIOUS
<1>4. Launching => Readies(Head(calls), <<>>)
  BY <1>1, <1>2, <1>3 DEF Readies
<1> QED
  BY <1>4, TailLaunches

LEMMA GoalKept ==
    ASSUME IInv, calls # <<>>, Launching, Head(calls).r # "launched", calls' = Tail(calls)
    PROVE  Goal' = Goal
<1>1. PICK l : l = Len(calls)
  OBVIOUS
<1>2. calls \in Seq(Request) /\ Len(calls) \in Nat /\ 1 \in 1..Len(calls) /\ Head(calls) = calls[1]
  BY CallsSeq, TailCalls DEF IInv
<1>3. l \in Nat /\ 1 \in 1..l /\ l # 1
  BY <1>1, <1>2 DEF Launching
<1>4. Len(calls') = l - 1 /\ \A j \in 1..l - 1 : calls'[j] = calls[j + 1]
  <2>1. Len(Tail(calls)) = Len(calls) - 1 /\ \A j \in 1..Len(Tail(calls)) : Tail(calls)[j] = calls[j + 1]
    BY <1>2, TailCalls
  <2> QED
    BY <1>1, <2>1
<1>5. l - 1 \in 1..l - 1 /\ (l - 1) + 1 = l
  BY <1>3
<1>6. calls'[l - 1] = calls[l]
  BY <1>4, <1>5
<1> QED
  BY <1>1, <1>4, <1>6 DEF Goal

(* The enabled DPUs are those of their group. *)
Known == \A c \in Alive : {d \in Dpu : groups[c][d] = EnabledGroup} = enabled[c]

LEMMA SelectsLaunches ==
    ASSUME IInv, Exact, Replayable, Launches, Launching => Known,
           ufi_select_all \/ ufi_select_all_even_disabled \/ ufi_select_dpu \/ ufi_select_dpu_even_disabled
    PROVE  Launches'
<1> DEFINE q == Head(calls)
<1>1. /\ calls # <<>> /\ Proceed(<<>>) /\ UNCHANGED <<config, groups>>
      /\ q.r \in {"select_all", "select_dpu"} \cup Even
  BY DEF ufi_select_all, ufi_select_all_even_disabled, ufi_select_dpu, ufi_select_dpu_even_disabled, Select, SelectDpu, Asked, Even
<1>2. calls' = Tail(calls) /\ UNCHANGED <<enabled, mux, running>>
  BY <1>1, Over DEF config
<1>3. Exclusive'
  BY <1>2 DEF Launches, Exclusive
<1>4. q = calls[1] /\ 1 \in 1..Len(calls) /\ q \in Request
  BY <1>1, CallsSeq, TailCalls, Plan DEF IInv
<1>5. CASE q.r \in Even
  BY <1>1, <1>2, <1>3, <1>5, OverLaunches DEF Even
<1>6. CASE q.r = "select_all"
  <2>1. PICK want : want = [c \in Ci |-> IF enabled[c] = Dpu THEN SelectAll ELSE SelectGroup]
    OBVIOUS
  <2>2. PICK m : m = {c \in q.cis : enabled[c] # {} \/ target[c] = want[c]}
    OBVIOUS
  <2>3. Select(m, want)
    BY <1>6, <2>1, <2>2 DEF ufi_select_all, ufi_select_all_even_disabled, ufi_select_dpu, ufi_select_dpu_even_disabled, Asked
  <2>4. m \subseteq Ci
    BY <1>4, <2>2 DEF Request
  <2>5. mask' = m /\ \A c \in m : target'[c] = want[c]
    BY <2>3, <2>4 DEF Select
  <2>6. ASSUME NEW c \in m
        PROVE  c \in Alive
    <3>1. c \in Ci
      BY <2>4
    <3>2. ASSUME enabled[c] = {}
          PROVE  FALSE
      <4>1. 0 \in Dpu
        BY CiAssumption DEF Dpu
      <4>2. target[c] = SelectGroup
        BY <2>1, <2>2, <3>1, <3>2, <4>1
      <4> QED
        BY <3>1, <3>2, <4>2, WordFields DEF Replayable, DeadTarget
    <3> QED
      BY <3>1, <3>2 DEF Alive
  <2>7. ASSUME Launching, SelectsFor(q, Goal)
        PROVE  SelectedFor(Goal)'
    <3>1. PICK g : g = Goal
      OBVIOUS
    <3>2. g.a = 0
      BY <1>6, <2>7, <3>1 DEF SelectsFor
    <3>3. Alive' = Alive
      BY <1>2 DEF Alive
    <3>4. ASSUME NEW c \in m
          PROVE  Chosen(c)' = enabled[c]
      <4>1. c \in Ci /\ c \in Alive /\ target'[c] = want[c] /\ groups' = groups
        BY <1>1, <2>4, <2>5, <2>6
      <4>2. CASE enabled[c] = Dpu
        <5>1. target'[c] = SelectAll
          BY <2>1, <4>1, <4>2
        <5>2. target'[c].k = "select all"
          BY <5>1, WordFields
        <5> QED
          BY <4>2, <5>2 DEF Chosen
      <4>3. CASE enabled[c] # Dpu
        <5>1. target'[c] = SelectGroup
          BY <2>1, <4>1, <4>3
        <5>2. target'[c].k = "select group" /\ target'[c].a = EnabledGroup
          BY <5>1, WordFields
        <5>3. Chosen(c)' = {d \in Dpu : groups[c][d] = EnabledGroup}
          BY <4>1, <5>2 DEF Chosen
        <5> QED
          BY <2>7, <4>1, <5>3 DEF Known
      <4> QED
        BY <4>2, <4>3
    <3>6. \A c \in m : c \in Concerned(g)' /\ Chosen(c)' = Meant(g.a, c)'
      BY <1>2, <2>6, <3>2, <3>3, <3>4 DEF Concerned, Meant
    <3>7. Goal' = Goal
      BY <1>1, <1>2, <1>6, <2>7, GoalKept
    <3> QED
      BY <2>5, <3>1, <3>6, <3>7 DEF SelectedFor, Concerned, Meant
  <2>8. Launching => Readies(q, <<>>)
    <3>1. Yields(q)
      BY <1>2, <1>6, MuxKept
    <3>2. <<>> \in Seq(Low)
      OBVIOUS
    <3> QED
      BY <1>2, <2>7, <3>1, <3>2 DEF Readies
  <2> QED
    BY <1>1, <1>2, <1>3, <2>8, TailLaunches
<1>7. CASE q.r = "select_dpu"
  <2>1. PICK w, m : w = Word("select dpu", q.a) /\ m = {c \in q.cis : q.a \in enabled[c]}
    OBVIOUS
  <2>2. SelectDpu(m, w)
    BY <1>7, <2>1 DEF ufi_select_all, ufi_select_all_even_disabled, ufi_select_dpu, ufi_select_dpu_even_disabled, Asked
  <2>3. m \subseteq Ci
    BY <1>4, <2>1 DEF Request
  <2>4. mask' = m /\ \A c \in m : target'[c] = w
    BY <2>2, <2>3 DEF SelectDpu
  <2>5. w.k = "select dpu" /\ w.a = q.a
    BY <2>1, WordFields
  <2>6. \A c \in m : Chosen(c)' = {q.a}
    BY <2>4, <2>5 DEF Chosen
  <2>7. ASSUME Launching, SelectsFor(q, Goal)
        PROVE  SelectedFor(Goal)'
    <3>1. PICK g : g = Goal
      OBVIOUS
    <3>2. g.a # 0 /\ q.a = g.a - 1 /\ q.cis \subseteq g.cis
      BY <1>7, <2>7, <3>1 DEF SelectsFor
    <3>3. \A c \in m : c \in Concerned(g)' /\ Chosen(c)' = Meant(g.a, c)'
      BY <2>1, <2>6, <3>2 DEF Concerned, Meant
    <3>4. Goal' = Goal
      BY <1>1, <1>2, <1>7, <2>7, GoalKept
    <3> QED
      BY <2>4, <3>1, <3>3, <3>4 DEF SelectedFor, Concerned, Meant
  <2>8. Launching => Readies(q, <<>>)
    <3>1. Yields(q)
      BY <1>2, <1>7, MuxKept
    <3>2. <<>> \in Seq(Low)
      OBVIOUS
    <3> QED
      BY <1>2, <2>7, <3>1, <3>2 DEF Readies
  <2> QED
    BY <1>1, <1>2, <1>3, <2>8, TailLaunches
<1> QED
  BY <1>1, <1>5, <1>6, <1>7

(* A call that is given up. *)
LEMMA BusyLaunches ==
    ASSUME Launches, Busy
    PROVE  Launches'
<1>1. UNCHANGED <<mux, running>> /\ calls' = <<>>
  BY DEF Busy, config
<1>2. Len(calls') = 0
  BY <1>1
<1>3. 1..Len(calls') = {}
  BY <1>2
<1> QED
  BY <1>1, <1>3 DEF Launches, Exclusive, LaunchPlan, Launching, LaunchLast

(* A switch of the mux: no DPU that runs loses its MRAM, those of a launch are given theirs. *)
LEMMA SwitchLaunches ==
    ASSUME IInv, Launches, calls # <<>>, Head(calls).r \in {"switch_rank", "switch_line", "keep_line"},
           Busy \/ \E more \in Seq(Low) : Proceed(more) /\ UNCHANGED <<enabled, saved, running>>,
           Busy \/ (Exclusive' /\ (Launching => Yields(Head(calls))))
    PROVE  Launches'
<1>1. CASE Busy
  BY <1>1, BusyLaunches
<1>2. CASE ~Busy
  <2>1. PICK more \in Seq(Low) : Proceed(more) /\ UNCHANGED <<enabled, saved, running>>
    BY <1>2
  <2>2. \A j \in 1..Len(more) : more[j] \in Low
    OBVIOUS
  <2>3. NotLaunched(more)
    BY <2>2, LowKind DEF NotLaunched
  <2>4. more \in Seq(Inner)
    BY LowKind
  <2>5. Launching => Readies(Head(calls), more)
    BY <1>2, <2>1 DEF Readies, SelectsFor
  <2>6. calls' = more \o Tail(calls)
    BY <2>1 DEF Proceed
  <2> QED
    BY <1>2, <2>3, <2>4, <2>5, <2>6, MoreLaunches
<1> QED
  BY <1>1, <1>2

LEMMA SwitchRankLaunches ==
    ASSUME IInv, Exact, Launches, dpu_switch_mux_for_rank
    PROVE  Launches'
<1>1. calls # <<>> /\ Head(calls).r = "switch_rank"
  BY DEF dpu_switch_mux_for_rank, Asked
<1>2. Busy \/ \E more \in Seq(Low) : Proceed(more) /\ UNCHANGED <<enabled, saved, running>>
  BY RankParts
<1>3. ASSUME ~Busy
      PROVE  Exclusive' /\ (Launching => Yields(Head(calls)))
  <2>1. PICK all : all = IF Head(calls).a = 1 THEN Dpu ELSE {}
    OBVIOUS
  <2>2. mux' = [c \in Ci |-> all] /\ running' = running /\ \A c \in Ci : running[c] = {}
    BY <1>3, <2>1 DEF dpu_switch_mux_for_rank
  <2>3. Exclusive'
    BY <2>2 DEF Exclusive
  <2>4. ASSUME Launching
        PROVE  Yields(Head(calls))
    <3>1. Head(calls) = calls[1] /\ 1 \in 1..Len(calls)
      BY <1>1, CallsSeq, TailCalls DEF IInv
    <3>2. Head(calls).a = 0
      BY <1>1, <2>4, <3>1 DEF Launches, LaunchPlan, Allowed
    <3>3. \A c \in Ci : mux'[c] = {}
      BY <2>1, <2>2, <3>2
    <3> QED
      BY <3>3 DEF Yields
  <2> QED
    BY <2>3, <2>4
<1> QED
  BY <1>1, <1>2, <1>3, SwitchLaunches

LEMMA SwitchLineLaunches ==
    ASSUME IInv, Exact, Launches, dpu_switch_mux_for_dpu_line \/ SwitchKeeping
    PROVE  Launches'
<1> DEFINE x == Head(calls)
           keep == {c \in Ci \ x.cis : x.a \in mux[c]}
<1>1. calls # <<>> /\ x.r \in {"switch_line", "keep_line"}
  BY DEF dpu_switch_mux_for_dpu_line, SwitchKeeping, Asked
<1>2. x.cis \in SUBSET Ci /\ keep \in SUBSET Ci /\ x.a \in Int
  BY <1>1, Plan DEF IInv, Request
<1>3. PICK cis \in SUBSET Ci : SwitchLine(x.a, cis) /\ (x.r = "keep_line" => cis = keep)
  BY <1>2 DEF dpu_switch_mux_for_dpu_line, SwitchKeeping, Asked
<1>4. Busy \/ \E more \in Seq(Low) : Proceed(more) /\ UNCHANGED <<enabled, saved, running>>
  BY <1>2, <1>3, LineParts
<1>5. ASSUME ~Busy
      PROVE  Exclusive' /\ (Launching => Yields(x))
  <2>1. PICK lines : lines = {e \in Pair(x.a) : {c \in Ci : e \in mux[c]} # cis}
    OBVIOUS
  <2>2. /\ mux' = [c \in Ci |-> IF c \in cis THEN mux[c] \cup lines ELSE mux[c] \ lines]
        /\ running' = running /\ \A c \in Ci : running[c] \cap lines = {}
    BY <1>3, <1>5, <2>1 DEF SwitchLine
  <2>3. Exclusive'
    BY <2>2 DEF Launches, Exclusive
  <2>4. ASSUME Launching
        PROVE  Yields(x)
    <3>1. x.r \in LaunchKind
      BY <1>1, <2>4, OutOfLaunch
    <3>2. x.r = "keep_line" /\ cis = keep
      BY <1>1, <1>3, <3>1 DEF LaunchKind, Even
    <3>3. ASSUME NEW c \in Ci, c \in x.cis, NEW d \in Int
          PROVE  (d \in mux'[c] => d \in mux[c]) /\ (Frees(x, c, d) => d \notin mux'[c])
      <4>1. mux'[c] = mux[c] \ lines
        BY <2>2, <3>2, <3>3
      <4>2. ASSUME d = x.a, d \in mux[c]
            PROVE  d \in lines
        <5>1. d \in Dpu
          BY <4>2 DEF Exact, CacheType
        <5>2. d \in {2 * (d \div 2), 2 * (d \div 2) + 1}
          BY <5>1, CiAssumption DEF Dpu
        <5>3. d \in Pair(x.a)
          BY <4>2, <5>1, <5>2 DEF Pair
        <5>4. c \in {e \in Ci : d \in mux[e]} /\ c \notin cis
          BY <3>2, <3>3, <4>2
        <5> QED
          BY <2>1, <5>3, <5>4
      <4> QED
        BY <3>2, <4>1, <4>2 DEF Frees
    <3> QED
      BY <3>2, <3>3 DEF Yields
  <2> QED
    BY <2>3, <2>4
<1>6. x.r \in {"switch_rank", "switch_line", "keep_line"}
  BY <1>1
<1> QED
  BY <1>1, <1>4, <1>5, <1>6, SwitchLaunches

(* ufi_set_mram_mux. *)
LEMMA SetMuxLaunches ==
    ASSUME IInv, Launches, ufi_set_mram_mux
    PROVE  Launches'
<1>1. PICK clear : clear = Req("frame", Word("clear", 0), {})
  OBVIOUS
<1>2. calls # <<>> /\ Head(calls).r = "set_mram_mux" /\ calls' = <<clear>> \o Tail(calls) /\ UNCHANGED config
  BY <1>1 DEF ufi_set_mram_mux, Asked, Proceed
<1>3. UNCHANGED <<enabled, mux, running>>
  BY <1>2 DEF config
<1>4. clear \in Low
  <2>1. Word("clear", 0) \in Payload /\ Word("clear", 0).k = "clear"
    BY DEF Word, Frame, FrameKind, Payload
  <2>2. clear \in Harmless /\ clear.r = "frame" /\ clear.a = Word("clear", 0)
    BY <1>1, <2>1, FrameHarmless, ReqFields
  <2> QED
    BY <2>1, <2>2 DEF Low, Harmless
<1>5. PICK more : more = <<clear>>
  OBVIOUS
<1>6. more \in Seq(Low) /\ \A j \in 1..Len(more) : more[j] \in Low
  BY <1>4, <1>5
<1>7. more \in Seq(Inner) /\ NotLaunched(more)
  BY <1>6, LowKind DEF NotLaunched
<1>8. Exclusive'
  BY <1>3 DEF Launches, Exclusive
<1>9. Readies(Head(calls), more)
  BY <1>2, <1>3, <1>6, MuxKept DEF Readies, SelectsFor
<1>10. calls' = more \o Tail(calls)
  BY <1>2, <1>5
<1> QED
  BY <1>2, <1>7, <1>8, <1>9, <1>10, MoreLaunches

(* Frames, soft resets and what is recorded. *)
LEMMA StepLaunches ==
    ASSUME IInv, Exact, Launches,
           SendFrame \/ ufi_write_group \/ dpu_soft_reset \/ Polled \/ Disabled \/ RestoreEnabled \/ save_enabled_dpus
    PROVE  Launches'
<1>1. /\ calls # <<>> /\ mux' = mux
      /\ Head(calls).r \in {"frame", "write_group", "soft_reset", "polled", "disabled", "restore", "save"}
      /\ Head(calls).r \notin {"disabled", "restore", "save"} => enabled' = enabled
      /\ Head(calls).r # "polled" => running' = running
  BY DEF SendFrame, ufi_write_group, dpu_soft_reset, Polled, Disabled, RestoreEnabled, save_enabled_dpus, Asked, config
<1>2. calls' = Tail(calls)
  <2>1. CASE dpu_soft_reset
    BY <2>1 DEF dpu_soft_reset
  <2>2. CASE ~dpu_soft_reset
    <3>1. Proceed(<<>>)
      BY <2>2 DEF SendFrame, ufi_write_group, Polled, Disabled, RestoreEnabled, save_enabled_dpus
    <3> QED
      BY <1>1, <3>1, Over
  <2> QED
    BY <2>1, <2>2
<1>3. \A c \in Ci : running'[c] \subseteq running[c]
  <2>1. CASE Head(calls).r = "polled"
    <3>1. Polled
      BY <2>1 DEF SendFrame, ufi_write_group, dpu_soft_reset, Disabled, RestoreEnabled, save_enabled_dpus, Asked
    <3> QED
      BY <3>1 DEF Polled
  <2> QED
    BY <1>1, <2>1
<1>4. Exclusive'
  BY <1>1, <1>3 DEF Launches, Exclusive
<1>5. Launching => enabled' = enabled
  <2>1. Head(calls).r \in {"disabled", "restore", "save"} => Head(calls).r \notin LaunchKind
    BY DEF LaunchKind, Even
  <2> QED
    BY <1>1, <2>1, OutOfLaunch
<1> QED
  BY <1>1, <1>2, <1>4, <1>5, OverLaunches

(* The DPUs that a launch marks as running have been given their MRAMs. *)
LEMMA LaunchedLaunches ==
    ASSUME IInv, Exact, Launches, Launched
    PROVE  Launches'
<1>1. PICK q : q = Head(calls)
  OBVIOUS
<1>2. /\ calls # <<>> /\ q.r = "launched" /\ Proceed(<<>>) /\ UNCHANGED <<enabled, mux>>
      /\ running' = [c \in Ci |-> IF q.a = 0 THEN enabled[c] ELSE IF c \in q.cis THEN running[c] \cup {q.a - 1} ELSE running[c]]
  BY <1>1 DEF Launched, Asked
<1>3. calls' = Tail(calls)
  BY <1>2, Over
<1>4. q = calls[1] /\ 1 \in 1..Len(calls)
  BY <1>1, <1>2, CallsSeq, TailCalls DEF IInv
<1>5. Len(calls) = 1
  BY <1>2, <1>4 DEF Launches, LaunchLast
<1>6. Launching /\ Goal = q
  BY <1>2, <1>4, <1>5 DEF Launching, Goal
<1>7. \A i \in 1..Len(calls) : i = 1
  BY <1>5
<1>8. \A c \in Concerned(q) : \A d \in Lines(q.a) : d \notin mux[c]
  BY <1>2, <1>4, <1>6, <1>7 DEF Launches, LaunchPlan, Freed, Frees
<1>9. \A c \in Ci : enabled[c] \subseteq Dpu /\ (enabled[c] # {} => c \in Alive)
  BY DEF IInv, CiType, Alive
<1>10. Exclusive'
  <2> SUFFICES ASSUME NEW c \in Ci
               PROVE  mux[c] \cap running'[c] = {}
    BY <1>2 DEF Exclusive
  <2>1. mux[c] \cap running[c] = {}
    BY DEF Launches, Exclusive
  <2>2. CASE q.a = 0
    <3>1. running'[c] = enabled[c]
      BY <1>2, <2>2
    <3>2. c \in Alive => \A d \in Dpu : d \notin mux[c]
      BY <1>8, <2>2 DEF Concerned, Lines
    <3> QED
      BY <1>9, <3>1, <3>2
  <2>3. CASE q.a # 0
    <3>1. c \in q.cis => q.a - 1 \notin mux[c]
      BY <1>8, <2>3 DEF Concerned, Lines
    <3>2. running'[c] = IF c \in q.cis THEN running[c] \cup {q.a - 1} ELSE running[c]
      BY <1>2, <2>3
    <3> QED
      BY <2>1, <3>1, <3>2
  <2> QED
    BY <2>2, <2>3
<1> QED
  BY <1>1, <1>2, <1>3, <1>10, OverLaunches

-----------------------------------------------------------------------------
LEMMA GroupsLaunches ==
    ASSUME IInv, Launches, dpu_init_groups \/ CiGroups
    PROVE  Launches'
<1>1. calls # <<>> /\ Head(calls).r \in {"init_groups", "ci_groups"} /\ UNCHANGED config
  BY DEF dpu_init_groups, CiGroups, Asked
<1>2. PICK more \in Seq(Inner) : Proceed(more) /\ Gives(more)
  BY InitParts, CiParts
<1>3. calls' = more \o Tail(calls) /\ NotLaunched(more)
  BY <1>2 DEF Proceed, Gives, NotLaunched
<1>4. Exclusive'
  BY <1>1 DEF Launches, Exclusive, config
<1>5. Head(calls).r \notin LaunchKind
  BY <1>1 DEF LaunchKind, Even
<1> QED
  BY <1>1, <1>3, <1>4, <1>5, OutOfLaunch, MoreLaunches

(* ci_start_thread_rank: the MRAMs, the selection, the boot. *)
LEMMA StartRankLaunches ==
    ASSUME IInv, Exact, Replayable, Launches, ci_start_thread_rank
    PROVE  Launches'
<1> DEFINE lines == [i \in 1..NrDpus |-> Req("keep_line", i - 1, mask)]
           one == <<Req("switch_rank", 0, {})>>
           first == IF mask = Ci THEN one ELSE lines
           x == Selecting(mask)
           y == Req("frame", Word("boot", 0), {})
           z == Req("launched", 0, Ci)
<1>1. /\ calls # <<>> /\ Head(calls).r = "start_rank" /\ UNCHANGED config
      /\ Proceed(first \o <<x, y, z>>)
  BY DEF ci_start_thread_rank, Asked
<1>2. mask \in SUBSET Ci
  BY DEF IInv, CiType
<1>3. /\ lines \in Seq(Inner) /\ Len(lines) = NrDpus /\ NrDpus \in Nat
      /\ \A i \in 1..NrDpus : lines[i].r = "keep_line" /\ lines[i].a = i - 1 /\ lines[i].cis = mask
  <2>1. NrDpus \in Nat /\ \A i \in 1..NrDpus : Req("keep_line", i - 1, mask) \in Inner
    BY <1>2, Parts, CiAssumption DEF Tame
  <2>2. \A i \in 1..NrDpus : LET q == Req("keep_line", i - 1, mask) IN q.r = "keep_line" /\ q.a = i - 1 /\ q.cis = mask
    BY ReqFields
  <2>3. Len(lines) = NrDpus
    BY <2>1
  <2> QED
    BY <2>1, <2>2, <2>3
<1>4. one \in Seq(Inner) /\ Len(one) = 1 /\ one[1].r = "switch_rank" /\ one[1].a = 0
  <2>1. Req("switch_rank", 0, {}) \in Inner
    BY Parts DEF Tame
  <2>2. PICK q : q = Req("switch_rank", 0, {})
    OBVIOUS
  <2>3. q.r = "switch_rank" /\ q.a = 0
    BY <2>2, ReqFields
  <2> QED
    BY <2>1, <2>2, <2>3
<1>5. x \in Inner /\ y \in Inner /\ z \in Inner
  <2>1. x \in Tame /\ y \in Tame /\ z \in Tame
    BY <1>2, Parts
  <2> QED
    BY <2>1 DEF Tame
<1>6. /\ x.r = "select_all" /\ ~Boots(x) /\ y.r = "frame" /\ y.a.a = 0
      /\ z.r = "launched" /\ z.a = 0 /\ ~Boots(z)
  <2>1. x.r = "select_all" /\ y.r = "frame" /\ y.a = Word("boot", 0) /\ z.r = "launched" /\ z.a = 0
    BY ReqFields DEF Selecting
  <2>2. PICK w : w = Word("boot", 0)
    OBVIOUS
  <2>3. w.a = 0
    BY <2>2, WordFields
  <2> QED
    BY <2>1, <2>2, <2>3 DEF Boots
<1> HIDE DEF lines, one, x, y, z
<1>7. Len(calls) = 1 /\ Alive \subseteq mask
  <2>1. 1 \in 1..Len(calls) /\ calls[1].r = "start_rank"
    BY <1>1, CallsSeq, TailCalls DEF IInv
  <2> QED
    BY <2>1 DEF Replayable, BootPlan, StartShape
<1>8. first \in Seq(Inner)
  BY <1>3, <1>4
<1>9. \A i \in 1..Len(first) : \/ first[i].r = "switch_rank" /\ first[i].a = 0
                               \/ first[i].r = "keep_line" /\ first[i].cis = mask
  <2>1. \A i \in 1..1 : i = 1
    OBVIOUS
  <2> QED
    BY <1>3, <1>4, <2>1
<1>10. \A d \in Dpu : \E i \in 1..Len(first) : \/ first[i].r = "switch_rank"
                                               \/ first[i].r = "keep_line" /\ first[i].cis = mask /\ first[i].a = d
  <2>1. CASE mask = Ci
    <3>1. 1 \in 1..1
      OBVIOUS
    <3> QED
      BY <1>4, <2>1, <3>1
  <2>2. CASE mask # Ci
    <3> SUFFICES ASSUME NEW d \in Dpu
                 PROVE  \E i \in 1..NrDpus : lines[i].r = "keep_line" /\ lines[i].cis = mask /\ lines[i].a = d
      BY <1>3, <2>2
    <3>1. d + 1 \in 1..NrDpus /\ (d + 1) - 1 = d
      BY <1>3 DEF Dpu
    <3> QED
      BY <1>3, <3>1
  <2> QED
    BY <2>1, <2>2
<1> HIDE DEF first
<1>11. PICK t, n, r : t = calls' /\ n = Len(first) /\ r = <<x, y, z>>
  OBVIOUS
<1>12. /\ n \in Nat /\ Len(t) = n + 3 /\ t[n + 1] = x /\ t[n + 2] = y /\ t[n + 3] = z
       /\ \A j \in 1..n : t[j] = first[j]
  <2>1. r \in Seq(Inner) /\ Len(r) = 3 /\ r[1] = x /\ r[2] = y /\ r[3] = z
    BY <1>5, <1>11
  <2>2. PICK S : S = Inner
    OBVIOUS
  <2>3. first \in Seq(S) /\ r \in Seq(S)
    BY <1>8, <2>1, <2>2
  <2>4. /\ first \o r \in Seq(S) /\ Len(first \o r) = Len(first) + Len(r) /\ Len(first) \in Nat
        /\ \A j \in 1..Len(first) + Len(r) : (first \o r)[j] = IF j <= Len(first) THEN first[j] ELSE r[j - Len(first)]
    BY <2>3, ConcatProperties
  <2>5. t = first \o r
    <3>1. first \o r \in Seq(Inner) /\ calls' = (first \o r) \o Tail(calls)
      BY <1>1, <1>11, <2>2, <2>4 DEF Proceed
    <3>2. PICK u : u = first \o r
      OBVIOUS
    <3>3. PICK k \in Nat, l \in Nat : Shifted(u, k, l)
      BY <1>1, <3>1, <3>2, Remaining
    <3>4. l = 1 => calls' = u
      BY <3>3 DEF Shifted
    <3>5. l = 1
      BY <1>7, <3>3 DEF Shifted
    <3> QED
      BY <1>11, <3>2, <3>4, <3>5
  <2>6. n \in Nat /\ Len(t) = n + 3 /\ \A j \in 1..n + 3 : t[j] = IF j <= n THEN first[j] ELSE r[j - n]
    BY <1>11, <2>1, <2>4, <2>5
  <2>7. t[n + 1] = r[n + 1 - n] /\ t[n + 2] = r[n + 2 - n] /\ t[n + 3] = r[n + 3 - n] /\ \A j \in 1..n : t[j] = first[j]
    BY <2>6
  <2>8. n + 1 - n = 1 /\ n + 2 - n = 2 /\ n + 3 - n = 3
    BY <2>6
  <2> QED
    BY <2>1, <2>6, <2>7, <2>8
<1>13. \A j \in 1..n + 3 : j \in 1..n \/ j = n + 1 \/ j = n + 2 \/ j = n + 3
  BY <1>12
<1>14. UNCHANGED <<enabled, mux, running>> /\ Alive' = Alive
  BY <1>1 DEF config, Alive
<1>15. Goal' = z /\ Concerned(z)' = Alive
  BY <1>6, <1>11, <1>12, <1>14 DEF Goal, Concerned
<1>16. LaunchLast'
  <2>1. \A j \in 1..n + 3 : t[j].r = "launched" => j = n + 3
    BY <1>6, <1>9, <1>11, <1>12, <1>13
  <2> QED
    BY <1>11, <1>12, <2>1 DEF LaunchLast
<1>17. \A j \in 1..n + 3 : Allowed(t[j], z)
  <2>1. Concerned(z) = Alive
    BY <1>6 DEF Concerned
  <2>2. \A j \in 1..n : Allowed(t[j], z)
    BY <1>7, <1>9, <1>11, <1>12, <2>1 DEF Allowed, LaunchKind
  <2>3. Allowed(x, z) /\ Allowed(y, z) /\ Allowed(z, z)
    BY <1>6 DEF Allowed, LaunchKind
  <2> QED
    BY <1>12, <1>13, <2>2, <2>3
<1>18. ASSUME NEW c \in Alive, NEW d \in Dpu
       PROVE  \E i \in 1..n + 3 : Frees(t[i], c, d)
  <2>1. PICK i \in 1..n : \/ first[i].r = "switch_rank"
                          \/ first[i].r = "keep_line" /\ first[i].cis = mask /\ first[i].a = d
    BY <1>10, <1>11
  <2>2. i \in 1..n + 3 /\ t[i] = first[i]
    BY <1>12
  <2> QED
    BY <1>7, <2>1, <2>2 DEF Frees
<1>19. Freed'
  BY <1>6, <1>11, <1>12, <1>15, <1>18 DEF Freed, Lines, Frees
<1>20. BootReady'
  <2> SUFFICES ASSUME NEW i \in 1..n + 3, Boots(t[i])
               PROVE  t[i].a.a = 0 /\ i + 1 = n + 3 /\ i # 1 /\ t[i - 1] = x
    BY <1>6, <1>11, <1>12, <1>15 DEF BootReady, Boots, SelectsFor
  <2>1. i = n + 2
    <3>1. \A j \in 1..n : ~Boots(t[j])
      BY <1>9, <1>11, <1>12 DEF Boots
    <3> QED
      BY <1>6, <1>12, <1>13, <3>1
  <2>2. i - 1 = n + 1 /\ i # 1 /\ i + 1 = n + 3
    BY <1>12, <2>1
  <2> QED
    BY <1>6, <1>12, <2>1, <2>2
<1>21. LaunchPlan'
  <2>1. \A i \in 1..Len(calls') : Allowed(calls[i], Goal)'
    <3>1. \A i \in 1..Len(calls') : Allowed(calls'[i], z)
      BY <1>11, <1>12, <1>17
    <3>2. Concerned(Goal)' = Alive /\ Concerned(z) = Alive
      BY <1>6, <1>14, <1>15 DEF Concerned
    <3> QED
      BY <3>1, <3>2 DEF Allowed
  <2> QED
    BY <1>19, <1>20, <2>1 DEF LaunchPlan
<1>22. Exclusive'
  BY <1>14 DEF Launches, Exclusive
<1> QED
  BY <1>16, <1>21, <1>22 DEF Launches

(* Calls that launch nothing yet. *)
LEMMA QuietLaunches ==
    ASSUME Launches, UNCHANGED <<mux, running>>, NotLaunched(calls'), calls' = <<>> \/ Len(calls') \in 1..Len(calls')
    PROVE  Launches'
  BY DEF Launches, Exclusive, NotLaunched, LaunchPlan, Launching, LaunchLast

LEMMA CallLaunches ==
    ASSUME IInv, Exact, Launches, Call
    PROVE  Launches'
<1>1. UNCHANGED <<config, mask>>
  BY DEF Call
<1>2. UNCHANGED <<enabled, mux, running>> /\ enabled \in [Ci -> SUBSET Dpu]
  BY <1>1 DEF config, IInv, CiType
<1>3. \/ calls' = LaunchRank \/ calls' = PollRank \/ calls' = AccessRank \/ calls' = Reset
      \/ (\E c \in Ci : \E d \in Dpu : calls' = LaunchDpu(c, d) \/ calls' = Disable(c, d))
      \/ \E d, cis : calls' = AccessPair(d, cis)
  BY <1>2 DEF Call
<1>4. CASE \E c \in Ci : \E d \in Dpu : calls' = LaunchDpu(c, d)
  <2>1. PICK c \in Ci, d \in Dpu : calls' = LaunchDpu(c, d)
    BY <1>4
  <2>2. PICK v, x, p, f, b, g, t :
          /\ v = Selecting(Ci) /\ x = SelectingDpu(d, {c}) /\ p = Req("polled", 0, {}) /\ f = Req("keep_line", d, {c})
          /\ b = Req("frame", Word("boot", d + 1), {}) /\ g = Req("launched", d + 1, {c}) /\ t = calls'
    OBVIOUS
  <2>3. t = <<v, Reading, p>> \o <<f, x, b, g>>
    BY <2>1, <2>2 DEF LaunchDpu, PollRank
  <2>4. Len(t) = 7 /\ t[1] = v /\ t[2] = Reading /\ t[3] = p /\ t[4] = f /\ t[5] = x /\ t[6] = b /\ t[7] = g
    BY <2>3
  <2>5. \A j \in 1..7 : j \in {1, 2, 3, 4, 5, 6, 7}
    OBVIOUS
  <2>6. /\ x.r = "select_dpu" /\ x.a = d /\ x.cis = {c} /\ p.r = "polled" /\ v.r = "select_all"
        /\ f.r = "keep_line" /\ f.a = d /\ f.cis = {c}
        /\ b.r = "frame" /\ b.a = Word("boot", d + 1) /\ g.r = "launched" /\ g.a = d + 1 /\ g.cis = {c}
        /\ Reading.r = "frame" /\ ~Boots(Reading)
    BY <2>2, ReqFields, ReadingCalm DEF Selecting, SelectingDpu, Reading
  <2>7. g.a # 0 /\ g.a - 1 = d
    BY <2>6, CiAssumption DEF Dpu
  <2>8. b.a.a = g.a
    <3>1. PICK w : w = Word("boot", d + 1)
      OBVIOUS
    <3>2. w.a = d + 1
      BY <3>1, WordFields
    <3> QED
      BY <2>6, <3>1, <3>2
  <2>9. Goal' = g /\ Len(calls') = 7 /\ Concerned(g)' = {c} /\ Lines(g.a) = {d}
    BY <2>2, <2>4, <2>6, <2>7 DEF Goal, Concerned, Lines
  <2>10. LaunchLast'
    BY <2>2, <2>4, <2>5, <2>6 DEF LaunchLast
  <2>11. \A i \in 1..Len(calls') : Allowed(calls[i], Goal)'
    <3>1. Allowed(v, g)' /\ Allowed(x, g)' /\ Allowed(Reading, g)' /\ Allowed(p, g)' /\ Allowed(f, g)' /\ Allowed(b, g)' /\ Allowed(g, g)'
      BY <2>6, <2>9 DEF Allowed, LaunchKind
    <3>2. \A i \in 1..7 : Allowed(t[i], g)'
      BY <2>4, <2>5, <3>1
    <3> QED
      BY <2>2, <2>9, <3>2 DEF Allowed, Concerned
  <2>12. Freed'
    <3>1. Frees(calls'[4], c, d)
      BY <2>2, <2>4, <2>6 DEF Frees
    <3>2. 4 \in 1..7
      OBVIOUS
    <3> QED
      BY <2>9, <3>1, <3>2 DEF Freed, Frees, Lines
  <2>13. BootReady'
    <3>1. \A i \in 1..7 : Boots(t[i]) => i = 6
      BY <2>4, <2>5, <2>6 DEF Boots
    <3>2. SelectsFor(x, g)
      BY <2>6, <2>7 DEF SelectsFor
    <3>3. 6 # 1 /\ 6 - 1 = 5 /\ 6 + 1 = 7
      OBVIOUS
    <3>4. \A i \in 1..7 : Boots(t[i]) => t[i].a.a = g.a /\ i + 1 = 7 /\ i # 1 /\ SelectsFor(t[i - 1], g)
      BY <2>4, <2>8, <3>1, <3>2, <3>3
    <3> QED
      BY <2>2, <2>9, <3>4 DEF BootReady, Boots, SelectsFor
  <2>14. Exclusive'
    BY <1>2 DEF Launches, Exclusive
  <2> QED
    BY <2>10, <2>11, <2>12, <2>13, <2>14 DEF Launches, LaunchPlan
<1>5. CASE ~\E c \in Ci : \E d \in Dpu : calls' = LaunchDpu(c, d)
  <2>1. PICK t : t = calls'
    OBVIOUS
  <2>2. NotLaunched(t) /\ Len(t) \in 1..Len(t)
    <3>1. Reading.r = "frame" /\ \A cis : Selecting(cis).r = "select_all"
      BY ReqFields DEF Reading, Selecting
    <3>2. CASE t = PollRank
      <4>1. Len(t) = 3 /\ t[1] = Selecting(Ci) /\ t[2] = Reading /\ t[3].r = "polled"
        BY <3>2, ReqFields DEF PollRank
      <4>2. \A j \in 1..3 : j \in {1, 2, 3}
        OBVIOUS
      <4> QED
        BY <3>1, <4>1, <4>2 DEF NotLaunched
    <3>3. CASE t = LaunchRank
      <4>1. Len(t) = 5 /\ t[1] = Selecting(Ci) /\ t[2] = Reading /\ t[3].r = "polled" /\ t[4] = Selecting(Ci) /\ t[5].r = "start_rank"
        BY <3>3, ReqFields DEF PollRank, LaunchRank
      <4>2. \A j \in 1..5 : j \in {1, 2, 3, 4, 5}
        OBVIOUS
      <4> QED
        BY <3>1, <4>1, <4>2 DEF NotLaunched
    <3>4. CASE t = AccessRank
      <4>1. Len(t) = 1 /\ t[1].r = "switch_rank"
        BY <3>4, ReqFields DEF AccessRank
      <4>2. \A j \in 1..1 : j = 1
        OBVIOUS
      <4> QED
        BY <4>1, <4>2 DEF NotLaunched
    <3>5. CASE t = Reset
      <4>1. /\ Len(t) = 10 /\ t[1].r = "save" /\ t[2].r = "soft_reset" /\ t[3].r = "soft_reset" /\ t[4] = Selecting(Ci)
            /\ t[5] = Reading /\ t[6].r = "frame" /\ t[7] = Reading /\ t[8].r = "switch_rank" /\ t[9].r = "init_groups"
            /\ t[10].r = "restore"
        BY <3>5, ReqFields DEF Reset, Reboot
      <4>2. \A j \in 1..10 : j \in {1, 2, 3, 4, 5, 6, 7, 8, 9, 10}
        OBVIOUS
      <4> QED
        BY <3>1, <4>1, <4>2 DEF NotLaunched
    <3>6. ASSUME NEW c, NEW d, t = Disable(c, d)
          PROVE  NotLaunched(t) /\ Len(t) \in 1..Len(t)
      <4>1. Len(t) = 3 /\ t[1].r = "select_dpu" /\ t[2].r = "write_group" /\ t[3].r = "disabled"
        BY <3>6, ReqFields DEF Disable, SelectingDpu
      <4>2. \A j \in 1..3 : j \in {1, 2, 3}
        OBVIOUS
      <4> QED
        BY <4>1, <4>2 DEF NotLaunched
    <3>7. ASSUME NEW d, NEW cis, t = AccessPair(d, cis)
          PROVE  NotLaunched(t) /\ Len(t) \in 1..Len(t)
      <4>1. Len(t) = 2 /\ t[1].r = "switch_line" /\ t[2].r = "switch_line"
        BY <3>7, ReqFields DEF AccessPair
      <4>2. \A j \in 1..2 : j \in {1, 2}
        OBVIOUS
      <4> QED
        BY <4>1, <4>2 DEF NotLaunched
    <3> QED
      BY <1>3, <1>5, <2>1, <3>2, <3>3, <3>4, <3>5, <3>6, <3>7
  <2> QED
    BY <1>2, <2>1, <2>2, QuietLaunches
<1> QED
  BY <1>4, <1>5

-----------------------------------------------------------------------------
(***************************************************************************)
(* Groups.  Outside of a reset the DPUs of the group that is selected to   *)
(* launch a rank are the enabled ones; a DPU that is disabled has left it  *)
(* just before.  A reset, which puts them all in that group, gives the     *)
(* saved ones theirs before it restores them.                              *)
(***************************************************************************)
Early == calls \in {Reset, Reset1}
Giving ==
    /\ calls # <<>> /\ calls[Len(calls)].r = "restore"
    /\ \A i \in 1..Len(calls) : calls[i].r # "init_groups"
Losing(c, d) == calls # <<>> /\ calls[1].r = "disabled" /\ c \in calls[1].cis /\ d = calls[1].a

GroupsKnown ==
    (~Early /\ ~Giving) =>
       \A c \in Alive : \A d \in Dpu : groups[c][d] = EnabledGroup <=> (d \in enabled[c] /\ ~Losing(c, d))

(* A group that is still to be given. *)
OwedBy(x, c, d) == \/ x.r = "ci_groups" /\ x.a = c /\ saved[c] # Dpu
                   \/ x.r = "select_dpu" /\ x.a = d /\ c \in x.cis
Owed(c, d) ==
    \/ \E j \in 1..Len(calls) : OwedBy(calls[j], c, d)
    \/ calls # <<>> /\ calls[1].r = "write_group" /\ c \in mask /\ d \in Chosen(c)
GroupsGiven ==
    Giving => \A c \in Alive : \A d \in Dpu : (groups[c][d] = EnabledGroup <=> d \in saved[c]) \/ Owed(c, d)

(* The requests that change a group come right after the selection of its DPUs. *)
GiveKind == {"ci_groups", "select_all", "select_dpu", "write_group", "restore"}
Given(j) ==
    /\ j = 1 => \A c \in mask : \A d \in Chosen(c) : calls[j].a = EnabledGroup <=> d \in saved[c]
    /\ j # 1 => GivesTo(calls[j - 1], calls[j].a)
Taken(j) ==
    /\ j # Len(calls) /\ calls[j + 1].r = "disabled" /\ calls[j].a = DisabledGroup
    /\ j = 1 => /\ mask \subseteq calls[2].cis /\ \A c \in mask : Chosen(c) = {calls[2].a}
                /\ \A c \in calls[2].cis : c \in mask <=> calls[2].a \in enabled[c]
GivePlan ==
    \A j \in 1..Len(calls) :
       /\ calls[j].r = "save" => calls = Reset
       /\ calls[j].r = "init_groups" => j + 1 = Len(calls)
       /\ calls[j].r = "ci_groups" => Giving
       /\ calls[j].r = "write_group" => IF Giving THEN Given(j) ELSE Taken(j)
       /\ Giving => calls[j].r \in GiveKind
       /\ (Giving /\ calls[j].r = "select_dpu") => j # Len(calls) /\ calls[j + 1].r = "write_group"

Grouped == GroupsKnown /\ GroupsGiven /\ GivePlan

-----------------------------------------------------------------------------

(* What a request makes way for: groups are given within a reset only. *)
Grants == Giving \/ Head(calls).r = "init_groups"
Granting(more) ==
    /\ Head(calls).r \in {"select_all", "select_dpu"} => more = <<>>
    /\ Grants => Gives(more)
    /\ ~Grants => \A j \in 1..Len(more) : more[j].r \notin {"init_groups", "ci_groups", "write_group"}

(* What a selection leaves. *)
Picks(x) ==
    /\ x.r \in {"select_all", "select_dpu"} => mask' \subseteq x.cis /\ enabled' = enabled
    /\ x.r = "select_all" => \A c \in mask' : Chosen(c)' \subseteq Dpu
    /\ x.r = "select_dpu" => /\ \A c \in mask' : Chosen(c)' = {x.a}
                             /\ \A c \in x.cis : c \in mask' <=> x.a \in enabled[c]

LEMMA StillGiving ==
    ASSUME IInv, Replayable, GivePlan, calls # <<>>, Head(calls).r # "restore",
           NEW more \in Seq(Inner), calls' = more \o Tail(calls), Granting(more)
    PROVE  Giving' <=> Grants
<1>1. PICK n \in Nat, l \in Nat : Shifted(more, n, l)
  BY Remaining
<1>2. PICK z, t : z = n + l - 1 /\ t = calls'
  OBVIOUS
<1>3. /\ l = Len(calls) /\ l # 0 /\ Len(t) = z /\ z \in Nat /\ Head(calls) = calls[1] /\ calls \in Seq(Request) /\ t \in Seq(Request)
      /\ \A j \in 1..z : j \in 1..n \/ (j > n /\ t[j] = calls[j - n + 1] /\ j - n + 1 \in 2..l)
      /\ \A k \in 2..l : k + n - 1 \in 1..z /\ t[k + n - 1] = calls[k]
      /\ \A j \in 1..n : t[j] = more[j] /\ more[j] \in Inner
      /\ n = Len(more)
  BY <1>1, <1>2 DEF Shifted
<1>4. \A j \in 1..n : more[j].r # "init_groups" /\ more[j].r # "restore"
  BY <1>3 DEF Granting, Gives, Inner
<1>5. Giving' <=> t # <<>> /\ t[z].r = "restore" /\ \A i \in 1..z : t[i].r # "init_groups"
  BY <1>2, <1>3 DEF Giving
<1>6. Giving <=> calls[l].r = "restore" /\ \A i \in 1..l : calls[i].r # "init_groups"
  BY <1>3 DEF Giving
<1>7. l # 1 => z # 0 /\ z \in 1..z /\ t[z] = calls[l] /\ t # <<>>
  <2> SUFFICES ASSUME l # 1
               PROVE  z # 0 /\ z \in 1..z /\ t[z] = calls[l] /\ t # <<>>
    OBVIOUS
  <2>1. l \in 2..l /\ l + n - 1 = z /\ z # 0
    BY <1>2, <1>3
  <2>2. t[z] = calls[l] /\ z \in 1..z
    BY <1>3, <2>1
  <2>3. t # <<>>
    BY <1>3, <2>1
  <2> QED
    BY <2>1, <2>2, <2>3
<1>8. 1 \in 1..l
  BY <1>3
<1>9. CASE Head(calls).r = "init_groups"
  <2>1. 1 + 1 = l /\ calls[l].r = "restore"
    BY <1>3, <1>8, <1>9 DEF GivePlan, Replayable, BootPlan, SelectShape
  <2>2. l = 2
    BY <2>1
  <2>3. \A i \in 1..z : t[i].r # "init_groups"
    <3> SUFFICES ASSUME NEW i \in 1..z
                 PROVE  t[i].r # "init_groups"
      OBVIOUS
    <3>1. CASE i \in 1..n
      BY <1>3, <1>4, <3>1
    <3>2. CASE i \notin 1..n
      <4>1. t[i] = calls[i - n + 1] /\ i - n + 1 \in 2..2
        BY <1>3, <2>2, <3>2
      <4>2. i - n + 1 = 2
        BY <4>1
      <4> QED
        BY <2>1, <2>2, <4>1, <4>2
    <3> QED
      BY <3>1, <3>2
  <2> QED
    BY <1>5, <1>7, <1>9, <2>1, <2>2, <2>3 DEF Grants
<1>10. CASE Head(calls).r # "init_groups"
  <2>1. CASE l = 1
    <3>1. ~Giving
      BY <1>3, <1>6, <2>1
    <3>2. ~Giving'
      <4> SUFFICES ASSUME t # <<>>
                   PROVE  t[z].r # "restore"
        BY <1>5
      <4>1. z # 0
        BY <1>3
      <4>2. z \in 1..n
        BY <1>2, <1>3, <2>1, <4>1
      <4> QED
        BY <1>3, <1>4, <4>2
    <3> QED
      BY <1>10, <3>1, <3>2 DEF Grants
  <2>2. CASE l # 1
    <3>1. ASSUME \A i \in 1..l : calls[i].r # "init_groups", NEW i \in 1..z
          PROVE  t[i].r # "init_groups"
      <4>1. CASE i \in 1..n
        BY <1>3, <1>4, <4>1
      <4>2. CASE i \notin 1..n
        <5>1. t[i] = calls[i - n + 1] /\ i - n + 1 \in 2..l
          BY <1>3, <4>2
        <5>2. i - n + 1 \in 1..l
          BY <5>1
        <5> QED
          BY <3>1, <5>1, <5>2
      <4> QED
        BY <4>1, <4>2
    <3>2. ASSUME \A i \in 1..z : t[i].r # "init_groups", NEW k \in 1..l
          PROVE  calls[k].r # "init_groups"
      <4>1. CASE k = 1
        BY <1>3, <1>10, <4>1
      <4>2. CASE k # 1
        <5>1. k \in 2..l
          BY <4>2
        <5> QED
          BY <1>3, <3>2, <5>1
      <4> QED
        BY <4>1, <4>2
    <3> QED
      BY <1>5, <1>6, <1>7, <1>10, <2>2, <3>1, <3>2 DEF Grants
  <2> QED
    BY <2>1, <2>2
<1> QED
  BY <1>9, <1>10

(* Requests make way for others, or are over. *)
LEMMA MoreGive ==
    ASSUME IInv, Replayable, GivePlan, calls # <<>>, Head(calls).r \notin {"save", "soft_reset", "restore"},
           NEW more \in Seq(Inner), calls' = more \o Tail(calls), Granting(more), Picks(Head(calls)), saved' = saved
    PROVE  GivePlan'
<1>1. PICK n \in Nat, l \in Nat : Shifted(more, n, l)
  BY Remaining
<1>2. PICK z, t : z = n + l - 1 /\ t = calls'
  OBVIOUS
<1>3. /\ l = Len(calls) /\ l # 0 /\ Len(t) = z /\ z \in Nat /\ Head(calls) = calls[1] /\ calls \in Seq(Request) /\ t \in Seq(Request)
      /\ \A j \in 1..z : j \in 1..n \/ (j > n /\ t[j] = calls[j - n + 1] /\ j - n + 1 \in 2..l)
      /\ \A k \in 2..l : k + n - 1 \in 1..z /\ t[k + n - 1] = calls[k]
      /\ \A j \in 1..n : t[j] = more[j] /\ more[j] \in Inner
      /\ n = Len(more)
  BY <1>1, <1>2 DEF Shifted
<1>4. PICK giving \in BOOLEAN : giving = Giving'
  BY DEF Giving
<1>5. giving <=> Grants
  BY <1>4, StillGiving
<1>6. 1 \in 1..l
  BY <1>3
(* The groups that were to be given, and are given next. *)
<1>7. Head(calls).r = "init_groups" => l = 2 /\ calls[2].r = "restore"
  <2> SUFFICES ASSUME Head(calls).r = "init_groups"
               PROVE  l = 2 /\ calls[2].r = "restore"
    OBVIOUS
  <2>1. 1 + 1 = l /\ calls[l].r = "restore"
    BY <1>3, <1>6 DEF GivePlan, Replayable, BootPlan, SelectShape
  <2> QED
    BY <2>1
<1>8. /\ Head(calls).r \in {"select_all", "select_dpu"} => n = 0
      /\ giving => Gives(more)
      /\ ~giving => \A j \in 1..n : more[j].r \notin {"init_groups", "ci_groups", "write_group"}
  <2>1. more = <<>> => Len(more) = 0
    OBVIOUS
  <2> QED
    BY <1>3, <1>5, <2>1 DEF Granting
<1>9. ASSUME NEW x, NEW a, GivesTo(x, a), x = Head(calls), NEW c \in mask', NEW d \in Chosen(c)'
      PROVE  a = EnabledGroup <=> d \in saved'[c]
  <2>1. CASE x.r = "select_dpu"
    <3>1. c \in x.cis /\ d = x.a
      BY <1>9, <2>1 DEF Picks
    <3> QED
      BY <1>9, <2>1, <3>1 DEF GivesTo
  <2>2. CASE x.r = "select_all"
    <3>1. c \in x.cis /\ d \in Dpu
      BY <1>9, <2>2 DEF Picks
    <3> QED
      BY <1>9, <2>2, <3>1 DEF GivesTo
  <2> QED
    BY <1>9, <2>1, <2>2 DEF GivesTo
<1>10. ASSUME NEW k \in 2..l, k # l
       PROVE  k + n - 1 # z /\ t[k + n - 1 + 1] = calls[k + 1]
  <2>1. k + 1 \in 2..l /\ (k + 1) + n - 1 = k + n - 1 + 1 /\ k + n - 1 # z
    BY <1>2, <1>10
  <2> QED
    BY <1>3, <2>1
<1>11. ASSUME NEW k \in 2..l, k + n - 1 # 1, k # 2
       PROVE  t[k + n - 1 - 1] = calls[k - 1]
  <2>1. k - 1 \in 2..l /\ (k - 1) + n - 1 = k + n - 1 - 1
    BY <1>11
  <2> QED
    BY <1>3, <2>1
<1>12. ASSUME NEW k \in 2..l, calls[k].r = "write_group", giving
       PROVE  Given(k + n - 1)'
  <2>1. Giving
    <3>1. k = 2 \/ l # 2
      OBVIOUS
    <3> QED
      BY <1>5, <1>7, <1>12, <3>1 DEF Grants
  <2>2. k \in 1..l /\ k # 1
    OBVIOUS
  <2>3. GivesTo(calls[k - 1], calls[k].a)
    BY <1>3, <1>12, <2>1, <2>2 DEF GivePlan, Given
  <2>4. PICK i : i = k + n - 1
    OBVIOUS
  <2>5. t[i] = calls[k]
    BY <1>3, <2>4
  <2>6. i = 1 => \A c \in mask' : \A d \in Chosen(c)' : t[i].a = EnabledGroup <=> d \in saved'[c]
    <3> SUFFICES ASSUME i = 1
                 PROVE  \A c \in mask' : \A d \in Chosen(c)' : t[i].a = EnabledGroup <=> d \in saved'[c]
      OBVIOUS
    <3>1. k = 2
      BY <2>4
    <3>2. calls[k - 1] = Head(calls)
      BY <1>3, <3>1
    <3> QED
      BY <1>9, <2>3, <2>5, <3>2
  <2>7. i # 1 => GivesTo(t[i - 1], t[i].a)
    <3> SUFFICES ASSUME i # 1
                 PROVE  GivesTo(t[i - 1], t[i].a)
      OBVIOUS
    <3>1. k # 2
      <4> SUFFICES ASSUME k = 2
                   PROVE  FALSE
        OBVIOUS
      <4>1. calls[k - 1] = Head(calls)
        BY <1>3
      <4>2. n = 0
        BY <1>8, <2>3, <4>1 DEF GivesTo
      <4> QED
        BY <2>4, <4>2
    <3>2. t[i - 1] = calls[k - 1]
      BY <1>11, <2>4, <3>1
    <3> QED
      BY <2>3, <2>5, <3>2
  <2>8. (i # 1 => GivesTo(t[i - 1], t[i].a)')
    BY <2>7 DEF GivesTo
  <2>9. Given(i)'
    BY <1>2, <2>6, <2>8 DEF Given, GivesTo
  <2> QED
    BY <2>4, <2>9
<1>13. ASSUME NEW k \in 2..l, calls[k].r = "write_group", ~giving
       PROVE  Taken(k + n - 1)'
  <2>1. ~Giving
    BY <1>5, <1>13 DEF Grants
  <2>2. k \in 1..l /\ k # 1
    OBVIOUS
  <2>3. k # l /\ calls[k + 1].r = "disabled" /\ calls[k].a = DisabledGroup
    BY <1>3, <1>13, <2>1, <2>2 DEF GivePlan, Taken
  <2>4. PICK i : i = k + n - 1
    OBVIOUS
  <2>5. t[i] = calls[k] /\ i # z /\ t[i + 1] = calls[k + 1]
    BY <1>3, <1>10, <2>3, <2>4
  <2>6. i = 1 => /\ mask' \subseteq t[2].cis /\ \A c \in mask' : Chosen(c)' = {t[2].a}
                 /\ \A c \in t[2].cis : c \in mask' <=> t[2].a \in enabled'[c]
    <3> SUFFICES ASSUME i = 1
                 PROVE  /\ mask' \subseteq t[2].cis /\ \A c \in mask' : Chosen(c)' = {t[2].a}
                        /\ \A c \in t[2].cis : c \in mask' <=> t[2].a \in enabled'[c]
      OBVIOUS
    <3>1. k = 2
      BY <2>4
    <3>2. 3 \in 1..l /\ calls[3].r = "disabled" /\ t[2] = calls[3]
      <4>1. k + 1 = 3 /\ i + 1 = 2 /\ 3 \in 1..l
        BY <2>3, <3>1
      <4> QED
        BY <2>3, <2>5, <4>1
    <3>3. 3 \notin {1, 2} /\ 3 - 2 = 1
      OBVIOUS
    <3>4. calls[1].r = "select_dpu" /\ calls[1].a = calls[3].a /\ calls[1].cis = calls[3].cis
      BY <1>3, <3>2, <3>3 DEF Replayable, BootPlan, DisableShape
    <3> QED
      BY <1>3, <3>2, <3>4 DEF Picks
  <2>7. Taken(i)'
    BY <1>2, <1>3, <2>3, <2>5, <2>6 DEF Taken
  <2> QED
    BY <2>4, <2>7
(* A request of the rest of the call. *)
<1>14. ASSUME NEW k \in 2..l
       PROVE  LET i == k + n - 1 IN
              /\ calls[k].r # "save"
              /\ calls[k].r = "init_groups" => i + 1 = z
              /\ calls[k].r = "ci_groups" => giving
              /\ giving => calls[k].r \in GiveKind
              /\ (giving /\ calls[k].r = "select_dpu") => i # z /\ t[i + 1].r = "write_group"
  <2>1. k \in 1..l
    OBVIOUS
  <2>2. calls[k].r # "save"
    <3>1. calls # Reset
      BY ResetRest
    <3> QED
      BY <1>3, <2>1, <3>1 DEF GivePlan
  <2>3. calls[k].r = "init_groups" => k + n - 1 + 1 = z
    <3> SUFFICES ASSUME calls[k].r = "init_groups"
                 PROVE  k + n - 1 + 1 = z
      OBVIOUS
    <3>1. k + 1 = l
      BY <1>3, <2>1 DEF GivePlan
    <3> QED
      BY <1>2, <3>1
  <2>4. calls[k].r = "ci_groups" => giving
    BY <1>3, <1>5, <2>1 DEF GivePlan, Grants
  <2>5. CASE Giving
    <3>1. calls[k].r \in GiveKind /\ (calls[k].r = "select_dpu" => k # l /\ calls[k + 1].r = "write_group")
      BY <1>3, <2>1, <2>5 DEF GivePlan
    <3> QED
      BY <1>10, <2>2, <2>3, <2>4, <3>1
  <2>6. CASE ~Giving /\ giving
    <3>1. k = 2 /\ calls[k].r = "restore"
      <4>1. l = 2 /\ calls[2].r = "restore"
        BY <1>5, <1>7, <2>6 DEF Grants
      <4>2. k = 2
        BY <4>1
      <4> QED
        BY <4>1, <4>2
    <3> QED
      BY <2>2, <2>3, <2>4, <3>1 DEF GiveKind
  <2> QED
    BY <2>2, <2>3, <2>4, <2>5, <2>6
(* One of those that are made now. *)
<1>15. ASSUME NEW j \in 1..n
       PROVE  /\ more[j].r \notin {"save", "init_groups"}
              /\ more[j].r = "ci_groups" => giving
              /\ more[j].r = "write_group" => giving /\ Given(j)'
              /\ giving => more[j].r \in GiveKind
              /\ (giving /\ more[j].r = "select_dpu") => j # z /\ t[j + 1].r = "write_group"
  <2>1. more[j].r # "save"
    BY <1>3 DEF Inner
  <2>2. CASE ~giving
    BY <1>8, <2>1, <2>2
  <2>3. CASE giving
    <3>1. /\ more[j].r \in {"ci_groups", "select_all", "select_dpu", "write_group"}
          /\ more[j].r = "write_group" => j # 1 /\ GivesTo(more[j - 1], more[j].a)
          /\ more[j].r = "select_dpu" => j # n /\ more[j + 1].r = "write_group"
      BY <1>3, <1>8, <2>3 DEF Gives
    <3>2. j # 1 => j - 1 \in 1..n
      OBVIOUS
    <3>3. more[j].r = "write_group" => Given(j)'
      <4> SUFFICES ASSUME more[j].r = "write_group"
                   PROVE  Given(j)'
        OBVIOUS
      <4>1. j # 1 /\ GivesTo(t[j - 1], t[j].a)
        BY <1>3, <3>1, <3>2
      <4> QED
        BY <1>2, <4>1 DEF Given, GivesTo
    <3>4. j # n => j + 1 \in 1..n /\ j # z
      BY <1>2, <1>3
    <3> QED
      BY <1>3, <2>1, <2>3, <3>1, <3>3, <3>4 DEF GiveKind
  <2> QED
    BY <2>2, <2>3
<1>16. ASSUME NEW j \in 1..z
       PROVE  /\ t[j].r # "save"
              /\ t[j].r = "init_groups" => j + 1 = z
              /\ t[j].r = "ci_groups" => giving
              /\ t[j].r = "write_group" => IF giving THEN Given(j)' ELSE Taken(j)'
              /\ giving => t[j].r \in GiveKind
              /\ (giving /\ t[j].r = "select_dpu") => j # z /\ t[j + 1].r = "write_group"
  <2>1. CASE j \in 1..n
    BY <1>3, <1>15, <2>1
  <2>2. CASE j \notin 1..n
    <3>1. PICK k : k = j - n + 1
      OBVIOUS
    <3>2. k \in 2..l /\ t[j] = calls[k]
      BY <1>3, <2>2, <3>1
    <3>3. k + n - 1 = j
      BY <1>3, <3>1
    <3> QED
      BY <1>12, <1>13, <1>14, <3>2, <3>3
  <2> QED
    BY <2>1, <2>2
<1>17. Len(calls') = z /\ \A j \in 1..z : calls'[j] = t[j]
  BY <1>2, <1>3
<1> QED
  <2> SUFFICES ASSUME NEW j \in 1..z
               PROVE  /\ t[j].r = "save" => t = Reset
                      /\ t[j].r = "init_groups" => j + 1 = z
                      /\ t[j].r = "ci_groups" => Giving'
                      /\ t[j].r = "write_group" => IF Giving' THEN Given(j)' ELSE Taken(j)'
                      /\ Giving' => t[j].r \in GiveKind
                      /\ (Giving' /\ t[j].r = "select_dpu") => j # z /\ t[j + 1].r = "write_group"
    BY <1>2, <1>17 DEF GivePlan
  <2> QED
    BY <1>4, <1>16

(* A DPU leaves its group right before it is disabled. *)
LEMMA NotLosing ==
    ASSUME IInv, Replayable, calls # <<>>, Head(calls).r # "write_group",
           NEW more \in Seq(Inner), calls' = more \o Tail(calls)
    PROVE  \A c, d : ~Losing(c, d)'
<1>1. PICK n \in Nat, l \in Nat : Shifted(more, n, l)
  BY Remaining
<1> SUFFICES ASSUME calls' # <<>>, calls'[1].r = "disabled"
             PROVE  FALSE
  BY DEF Losing
<1>2. PICK z, t : z = n + l - 1 /\ t = calls'
  OBVIOUS
<1>3. /\ l = Len(calls) /\ l # 0 /\ Len(t) = z /\ z \in Nat /\ Head(calls) = calls[1] /\ t \in Seq(Request)
      /\ \A j \in 1..z : j \in 1..n \/ (j > n /\ t[j] = calls[j - n + 1] /\ j - n + 1 \in 2..l)
      /\ \A j \in 1..n : t[j] = more[j] /\ more[j] \in Inner
  BY <1>1, <1>2 DEF Shifted
<1>4. 1 \in 1..z
  BY <1>2, <1>3
<1>5. 1 \notin 1..n
  BY <1>2, <1>3 DEF Inner
<1>6. n = 0 /\ t[1] = calls[2] /\ 2 \in 1..l
  <2>1. n = 0
    BY <1>5
  <2>2. t[1] = calls[1 - 0 + 1] /\ 1 - 0 + 1 \in 2..l
    BY <1>3, <1>4, <1>5, <2>1
  <2>3. 1 - 0 + 1 = 2
    OBVIOUS
  <2> QED
    BY <2>1, <2>2, <2>3
<1>7. 2 # 1 /\ 2 - 1 = 1
  OBVIOUS
<1> QED
  BY <1>2, <1>3, <1>6, <1>7 DEF Replayable, BootPlan, DisableShape

(* While groups are given all the DPUs of a CI are enabled, or none. *)
LEMMA GivingEnabled ==
    ASSUME IInv, Exact, calls # <<>>, calls[Len(calls)].r = "restore", Head(calls).r # "save"
    PROVE  \A c \in Alive : enabled[c] = Dpu /\ saved[c] # {}
<1>1. calls \in Seq(Request) /\ Head(calls) = calls[1]
  BY CallsSeq, TailCalls DEF IInv
<1>2. PICK l : l = Len(calls)
  OBVIOUS
<1>3. l \in 1..l
  BY <1>1, <1>2
<1>4. \A c \in Ci : enabled[c] = IF saved[c] = {} THEN {} ELSE Dpu
  BY <1>1, <1>2, <1>3 DEF Exact, ResetPlan
<1> QED
  BY <1>4 DEF Alive

LEMMA NotEarly ==
    ASSUME IInv, calls # <<>>, Head(calls).r \notin {"save", "soft_reset"}
    PROVE  ~Early
  BY ResetRest DEF Early

LEMMA MoreGroups ==
    ASSUME IInv, Exact, Replayable, Grouped, calls # <<>>,
           Head(calls).r \notin {"save", "soft_reset", "restore", "write_group", "disabled", "init_groups"},
           NEW more \in Seq(Inner), calls' = more \o Tail(calls), Granting(more), Picks(Head(calls)),
           UNCHANGED <<groups, enabled, saved>>, Head(calls).r = "ci_groups" => GivesEach(more, Head(calls).a)
    PROVE  Grouped'
<1>1. GivePlan'
  BY MoreGive DEF Grouped
<1>2. Giving' <=> Giving
  BY StillGiving DEF Grouped, Grants
<1>3. ~Early /\ ~Early'
  BY NotEarly, LaterCalls DEF Early
<1>4. Alive' = Alive
  BY DEF Alive
<1>5. PICK n \in Nat, l \in Nat : Shifted(more, n, l)
  BY Remaining
<1>6. PICK z, t : z = n + l - 1 /\ t = calls'
  OBVIOUS
<1>7. /\ l = Len(calls) /\ l # 0 /\ Len(t) = z /\ z \in Nat /\ Head(calls) = calls[1] /\ t \in Seq(Request) /\ calls \in Seq(Request)
      /\ \A k \in 2..l : k + n - 1 \in 1..z /\ t[k + n - 1] = calls[k]
      /\ \A j \in 1..n : t[j] = more[j] /\ j \in 1..z
      /\ n = Len(more)
  BY <1>5, <1>6 DEF Shifted
<1>8. GroupsKnown'
  <2>1. \A c, d : ~Losing(c, d)
    BY <1>7 DEF Losing
  <2>2. \A c, d : ~Losing(c, d)'
    BY NotLosing
  <2> QED
    BY <1>2, <1>3, <1>4, <2>1, <2>2 DEF Grouped, GroupsKnown
<1>9. GroupsGiven'
  <2> SUFFICES ASSUME Giving', NEW c \in Alive, NEW d \in Dpu
               PROVE  (groups[c][d] = EnabledGroup <=> d \in saved[c]) \/ Owed(c, d)'
    BY <1>4 DEF GroupsGiven
  <2>1. Giving /\ ((groups[c][d] = EnabledGroup <=> d \in saved[c]) \/ Owed(c, d))
    BY <1>2 DEF Grouped, GroupsGiven
  <2> SUFFICES ASSUME Owed(c, d)
               PROVE  Owed(c, d)'
    BY <2>1
  <2>2. \A x : OwedBy(x, c, d)' <=> OwedBy(x, c, d)
    BY DEF OwedBy
  <2>3. PICK k \in 1..l : OwedBy(calls[k], c, d)
    BY <1>7 DEF Owed
  <2>4. CASE k # 1
    <3>1. k \in 2..l
      BY <2>4
    <3>2. PICK j \in 1..z : t[j] = calls[k]
      BY <1>7, <3>1
    <3> QED
      BY <1>6, <1>7, <2>2, <2>3, <3>2 DEF Owed, OwedBy
  <2>5. CASE k = 1
    <3>1. OwedBy(Head(calls), c, d)
      BY <1>7, <2>3, <2>5
    <3>2. calls[Len(calls)].r = "restore"
      BY <2>1 DEF Giving
    <3>3. enabled[c] = Dpu /\ saved[c] # {}
      BY <3>2, GivingEnabled
    <3>4. CASE Head(calls).r = "ci_groups"
      <4>1. Head(calls).a = c /\ saved[c] \notin {{}, Dpu}
        BY <3>1, <3>3, <3>4 DEF OwedBy
      <4>2. PICK j \in 1..n : more[j].r = "select_dpu" /\ more[j].a = d /\ c \in more[j].cis
        BY <1>7, <3>4, <4>1 DEF GivesEach
      <4>3. j \in 1..z /\ t[j] = more[j]
        BY <1>7
      <4> QED
        BY <1>6, <1>7, <4>2, <4>3 DEF Owed, OwedBy
    <3>5. CASE Head(calls).r # "ci_groups"
      <4>1. Head(calls).r = "select_dpu" /\ Head(calls).a = d /\ c \in Head(calls).cis
        BY <3>1, <3>5 DEF OwedBy
      <4>2. c \in mask' /\ Chosen(c)' = {d}
        BY <3>3, <4>1 DEF Picks
      <4>3. n = 0
        <5>1. more = <<>>
          BY <4>1 DEF Granting
        <5> QED
          BY <1>7, <5>1
      <4>4. l # 1 /\ calls[1 + 1].r = "write_group"
        <5>1. 1 \in 1..l
          BY <1>7
        <5> QED
          BY <1>7, <2>1, <4>1, <5>1 DEF Grouped, GivePlan
      <4>5. t[1].r = "write_group" /\ t # <<>>
        <5>1. 2 \in 2..l /\ 2 + n - 1 = 1 /\ 1 + 1 = 2
          BY <1>7, <4>3, <4>4
        <5>2. 1 \in 1..z /\ t[1] = calls[2]
          BY <1>7, <5>1
        <5>3. t # <<>>
          BY <1>7, <5>2
        <5> QED
          BY <4>4, <5>1, <5>2, <5>3
      <4> QED
        BY <1>6, <4>2, <4>5 DEF Owed
    <3> QED
      BY <3>4, <3>5
  <2> QED
    BY <2>4, <2>5
<1> QED
  BY <1>1, <1>8, <1>9 DEF Grouped

(* A request is over, without changing a group or a DPU that is enabled. *)
LEMMA TailGroups ==
    ASSUME IInv, Exact, Replayable, Grouped, calls # <<>>, calls' = Tail(calls), Picks(Head(calls)),
           Head(calls).r \notin {"save", "soft_reset", "restore", "write_group", "disabled", "init_groups", "ci_groups"},
           UNCHANGED <<groups, enabled, saved>>
    PROVE  Grouped'
<1>1. PICK more : more = <<>>
  OBVIOUS
<1>2. more \in Seq(Inner) /\ Len(more) = 0
  BY <1>1
<1>3. 1..Len(more) = {}
  BY <1>2
<1>4. calls' = more \o Tail(calls)
  <2>1. calls' \in Seq(Request)
    BY CallsSeq, TailCalls DEF IInv
  <2> QED
    BY <1>1, <2>1
<1>5. Granting(more)
  BY <1>1, <1>3 DEF Granting, Gives
<1> QED
  BY <1>2, <1>4, <1>5, MoreGroups

LEMMA SilentGroups ==
    ASSUME Grouped, UNCHANGED <<caches, config, calls, mask>>
    PROVE  Grouped'
<1>1. UNCHANGED <<target, groups, enabled, saved, calls, mask>>
  BY DEF caches, config
<1>2. /\ Early' = Early /\ Giving' = Giving /\ Alive' = Alive /\ \A c : Chosen(c)' = Chosen(c)
      /\ \A c, d : Losing(c, d)' = Losing(c, d)
  BY <1>1 DEF Early, Giving, Alive, Chosen, Losing
<1>3. \A c, d : Owed(c, d)' = Owed(c, d)
  BY <1>1, <1>2 DEF Owed, OwedBy
<1>4. GroupsKnown' /\ GroupsGiven'
  BY <1>1, <1>2, <1>3 DEF Grouped, GroupsKnown, GroupsGiven
<1>5. \A j : Given(j)' = Given(j) /\ Taken(j)' = Taken(j)
  BY <1>1, <1>2 DEF Given, Taken, GivesTo
<1>6. GivePlan'
  BY <1>1, <1>2, <1>5 DEF Grouped, GivePlan
<1> QED
  BY <1>4, <1>6 DEF Grouped

(* The selections. *)
LEMMA SelectsGroups ==
    ASSUME IInv, Exact, Replayable, Grouped,
           ufi_select_all \/ ufi_select_all_even_disabled \/ ufi_select_dpu \/ ufi_select_dpu_even_disabled
    PROVE  Grouped'
<1> DEFINE q == Head(calls)
<1>1. /\ calls # <<>> /\ Proceed(<<>>) /\ UNCHANGED <<config, groups>>
      /\ q.r \in {"select_all", "select_dpu"} \cup Even
  BY DEF ufi_select_all, ufi_select_all_even_disabled, ufi_select_dpu, ufi_select_dpu_even_disabled, Select, SelectDpu, Asked, Even
<1>2. calls' = Tail(calls) /\ UNCHANGED <<groups, enabled, saved>>
  BY <1>1, Over DEF config
<1>4. q = calls[1] /\ 1 \in 1..Len(calls) /\ q \in Request
  BY <1>1, CallsSeq, TailCalls, Plan DEF IInv
<1>5. CASE q.r \in Even
  <2>1. Picks(q)
    BY <1>5 DEF Picks, Even
  <2> QED
    BY <1>1, <1>2, <1>5, <2>1, TailGroups DEF Even
<1>6. CASE q.r = "select_all"
  <2>1. PICK want : want = [c \in Ci |-> IF enabled[c] = Dpu THEN SelectAll ELSE SelectGroup]
    OBVIOUS
  <2>2. PICK m : m = {c \in q.cis : enabled[c] # {} \/ target[c] = want[c]}
    OBVIOUS
  <2>3. Select(m, want)
    BY <1>6, <2>1, <2>2 DEF ufi_select_all, ufi_select_all_even_disabled, ufi_select_dpu, ufi_select_dpu_even_disabled, Asked
  <2>4. m \subseteq Ci /\ m \subseteq q.cis
    BY <1>4, <2>2 DEF Request
  <2>5. mask' = m /\ \A c \in m : target'[c] = want[c]
    BY <2>3, <2>4 DEF Select
  <2>6. ASSUME NEW c \in m
        PROVE  Chosen(c)' \subseteq Dpu
    <3>1. target'[c] = SelectAll \/ target'[c] = SelectGroup
      BY <2>1, <2>4, <2>5
    <3>2. target'[c].k = "select all" \/ target'[c].k = "select group"
      BY <3>1, WordFields
    <3> QED
      BY <3>2 DEF Chosen
  <2>7. Picks(q)
    BY <1>2, <1>6, <2>4, <2>5, <2>6 DEF Picks
  <2> QED
    BY <1>1, <1>2, <1>6, <2>7, TailGroups
<1>7. CASE q.r = "select_dpu"
  <2>1. PICK w, m : w = Word("select dpu", q.a) /\ m = {c \in q.cis : q.a \in enabled[c]}
    OBVIOUS
  <2>2. SelectDpu(m, w)
    BY <1>7, <2>1 DEF ufi_select_all, ufi_select_all_even_disabled, ufi_select_dpu, ufi_select_dpu_even_disabled, Asked
  <2>3. m \subseteq Ci
    BY <1>4, <2>1 DEF Request
  <2>4. mask' = m /\ \A c \in m : target'[c] = w
    BY <2>2, <2>3 DEF SelectDpu
  <2>5. w.k = "select dpu" /\ w.a = q.a
    BY <2>1, WordFields
  <2>6. \A c \in m : Chosen(c)' = {q.a}
    BY <2>4, <2>5 DEF Chosen
  <2>7. Picks(q)
    BY <1>2, <1>7, <2>1, <2>4, <2>6 DEF Picks
  <2> QED
    BY <1>1, <1>2, <1>7, <2>7, TailGroups
<1> QED
  BY <1>1, <1>5, <1>6, <1>7

(* Frames, and the ends of launches and polls. *)
LEMMA OverGroups ==
    ASSUME IInv, Exact, Replayable, Grouped, SendFrame \/ Launched \/ Polled
    PROVE  Grouped'
<1>1. /\ calls # <<>> /\ Head(calls).r \in {"frame", "launched", "polled"} /\ Proceed(<<>>)
      /\ UNCHANGED <<groups, enabled, saved>>
  BY DEF SendFrame, Launched, Polled, Asked, config, NoCommand, caches
<1>2. calls' = Tail(calls)
  BY <1>1, Over
<1>3. Picks(Head(calls))
  BY <1>1 DEF Picks
<1> QED
  BY <1>1, <1>2, <1>3, TailGroups

(* Requests that make way for others that leave the groups alone. *)
LEMMA ComposedGroups ==
    ASSUME IInv, Exact, Replayable, Grouped, calls # <<>>,
           Head(calls).r \in {"set_mram_mux", "switch_rank", "switch_line", "keep_line", "start_rank"},
           NEW more \in Seq(Inner), calls' = more \o Tail(calls), UNCHANGED <<groups, enabled, saved>>,
           \A j \in 1..Len(more) : more[j].r \notin {"init_groups", "ci_groups", "write_group"}
    PROVE  Grouped'
<1>1. ~Grants
  <2>1. Head(calls) = calls[1] /\ 1 \in 1..Len(calls)
    BY CallsSeq, TailCalls DEF IInv
  <2> QED
    BY <2>1 DEF Grouped, GivePlan, GiveKind, Grants
<1>2. Granting(more) /\ Picks(Head(calls))
  BY <1>1 DEF Granting, Picks
<1> QED
  BY <1>2, MoreGroups

LEMMA LowGroups ==
    ASSUME IInv, Exact, Replayable, Grouped, calls # <<>>,
           Head(calls).r \in {"set_mram_mux", "switch_rank", "switch_line", "keep_line"},
           NEW more \in Seq(Low), calls' = more \o Tail(calls), UNCHANGED <<groups, enabled, saved>>
    PROVE  Grouped'
<1>1. \A j \in 1..Len(more) : more[j] \in Low
  OBVIOUS
<1>2. more \in Seq(Inner)
  BY LowKind
<1>3. \A x \in Low : x.r \notin {"init_groups", "ci_groups", "write_group"}
  BY DEF Low, Even
<1> QED
  BY <1>1, <1>2, <1>3, ComposedGroups

LEMMA SetMuxGroups ==
    ASSUME IInv, Exact, Replayable, Grouped, ufi_set_mram_mux
    PROVE  Grouped'
<1>1. PICK clear : clear = Req("frame", Word("clear", 0), {})
  OBVIOUS
<1>2. calls # <<>> /\ Head(calls).r = "set_mram_mux" /\ calls' = <<clear>> \o Tail(calls) /\ UNCHANGED <<groups, enabled, saved>>
  BY <1>1 DEF ufi_set_mram_mux, Asked, Proceed, config
<1>3. clear \in Low
  <2>1. Word("clear", 0) \in Payload /\ Word("clear", 0).k = "clear"
    BY DEF Word, Frame, FrameKind, Payload
  <2>2. clear \in Harmless /\ clear.r = "frame" /\ clear.a = Word("clear", 0)
    BY <1>1, <2>1, FrameHarmless, ReqFields
  <2> QED
    BY <2>1, <2>2 DEF Low, Harmless
<1>4. PICK more : more = <<clear>>
  OBVIOUS
<1>5. more \in Seq(Low) /\ calls' = more \o Tail(calls)
  BY <1>2, <1>3, <1>4
<1> QED
  BY <1>2, <1>5, LowGroups

(* A call that is given up. *)
LEMMA NoCallGroups ==
    ASSUME IInv, Grouped, calls # <<>>, Head(calls).r \in {"switch_rank", "switch_line", "keep_line"},
           calls' = <<>>, UNCHANGED <<groups, enabled>>
    PROVE  Grouped'
<1>1. Head(calls) = calls[1] /\ 1 \in 1..Len(calls)
  BY CallsSeq, TailCalls DEF IInv
<1>2. ~Giving /\ \A c, d : ~Losing(c, d)
  BY <1>1 DEF Grouped, GivePlan, GiveKind, Losing
<1>3. ~Early
  BY NotEarly
<1>4. Len(calls') = 0
  OBVIOUS
<1>5. 1..Len(calls') = {}
  BY <1>4
<1>6. GivePlan'
  BY <1>5 DEF GivePlan
<1>7. ~Giving' /\ \A c, d : ~Losing(c, d)'
  BY DEF Giving, Losing
<1>8. Alive' = Alive
  BY DEF Alive
<1>9. GroupsKnown' /\ GroupsGiven'
  BY <1>2, <1>3, <1>7, <1>8 DEF Grouped, GroupsKnown, GroupsGiven
<1> QED
  BY <1>6, <1>9 DEF Grouped

LEMMA SwitchGroups ==
    ASSUME IInv, Exact, Replayable, Grouped, dpu_switch_mux_for_rank \/ dpu_switch_mux_for_dpu_line \/ SwitchKeeping
    PROVE  Grouped'
<1>1. calls # <<>> /\ Head(calls).r \in {"switch_rank", "switch_line", "keep_line"} /\ groups' = groups
  BY DEF dpu_switch_mux_for_rank, dpu_switch_mux_for_dpu_line, SwitchKeeping, Asked, NoCommand, caches
<1>2. Busy \/ \E more \in Seq(Low) : Proceed(more) /\ UNCHANGED <<enabled, saved, running>>
  <2>1. CASE dpu_switch_mux_for_rank
    BY <2>1, RankParts
  <2>2. CASE dpu_switch_mux_for_dpu_line \/ SwitchKeeping
    <3>1. Head(calls) \in Request /\ Head(calls).r \in {"switch_line", "keep_line"}
      BY <1>1, <2>2, Plan DEF dpu_switch_mux_for_dpu_line, SwitchKeeping, Asked, IInv
    <3>2. Head(calls).a \in Int /\ Head(calls).cis \in SUBSET Ci
      BY <3>1 DEF Request
    <3>3. PICK cis \in SUBSET Ci : SwitchLine(Head(calls).a, cis)
      <4>1. {c \in Ci \ Head(calls).cis : Head(calls).a \in mux[c]} \in SUBSET Ci
        OBVIOUS
      <4> QED
        BY <2>2, <3>2, <4>1 DEF dpu_switch_mux_for_dpu_line, SwitchKeeping
    <3> QED
      BY <3>2, <3>3, LineParts
  <2> QED
    BY <2>1, <2>2
<1>3. CASE Busy
  <2>1. calls' = <<>> /\ enabled' = enabled
    BY <1>3 DEF Busy, config
  <2> QED
    BY <1>1, <2>1, NoCallGroups
<1>4. CASE ~Busy
  <2>1. PICK more \in Seq(Low) : Proceed(more) /\ UNCHANGED <<enabled, saved, running>>
    BY <1>2, <1>4
  <2>2. calls' = more \o Tail(calls)
    BY <2>1 DEF Proceed
  <2> QED
    BY <1>1, <2>1, <2>2, LowGroups
<1> QED
  BY <1>3, <1>4

LEMMA StartRankGroups ==
    ASSUME IInv, Exact, Replayable, Grouped, ci_start_thread_rank
    PROVE  Grouped'
<1> DEFINE lines == [i \in 1..NrDpus |-> Req("keep_line", i - 1, mask)]
           one == <<Req("switch_rank", 0, {})>>
           first == IF mask = Ci THEN one ELSE lines
           x == Selecting(mask)
           y == Req("frame", Word("boot", 0), {})
           z == Req("launched", 0, Ci)
           Ok == {q \in Inner : q.r \notin {"init_groups", "ci_groups", "write_group"}}
<1>1. /\ calls # <<>> /\ Head(calls).r = "start_rank" /\ UNCHANGED <<groups, enabled, saved>>
      /\ Proceed(first \o <<x, y, z>>)
  BY DEF ci_start_thread_rank, Asked, config, NoCommand, caches
<1>2. mask \in SUBSET Ci /\ NrDpus \in Nat
  BY CiAssumption DEF IInv, CiType
<1>3. \A i \in Int : Req("keep_line", i, mask) \in Ok /\ Req("switch_rank", i, {}) \in Ok
  <2>1. \A i \in Int : Req("keep_line", i, mask) \in Inner /\ Req("switch_rank", i, {}) \in Inner
    BY <1>2, Parts DEF Tame
  <2> QED
    BY <2>1, ReqFields
<1>4. x \in Ok /\ y \in Ok /\ z \in Ok
  <2>1. x \in Tame /\ y \in Tame /\ z \in Tame
    BY <1>2, Parts
  <2>2. x.r = "select_all" /\ y.r = "frame" /\ z.r = "launched"
    BY ReqFields DEF Selecting
  <2> QED
    BY <2>1, <2>2 DEF Tame
<1>5. first \in Seq(Ok)
  <2>1. \A i \in 1..NrDpus : Req("keep_line", i - 1, mask) \in Ok
    BY <1>2, <1>3
  <2>2. Req("switch_rank", 0, {}) \in Ok
    BY <1>3
  <2> HIDE DEF Ok
  <2>3. lines \in Seq(Ok)
    BY <1>2, <2>1
  <2>4. one \in Seq(Ok)
    BY <2>2
  <2> QED
    BY <2>3, <2>4
<1>6. PICK more : more = first \o <<x, y, z>>
  OBVIOUS
<1>7. more \in Seq(Ok)
  <2> HIDE DEF first, x, y, z, Ok
  <2> QED
    BY <1>4, <1>5, <1>6
<1>8. more \in Seq(Inner) /\ \A j \in 1..Len(more) : more[j].r \notin {"init_groups", "ci_groups", "write_group"}
  BY <1>7
<1>9. calls' = more \o Tail(calls)
  BY <1>1, <1>6 DEF Proceed
<1> QED
  BY <1>1, <1>8, <1>9, ComposedGroups

(* The groups of a CI. *)
LEMMA CiGroupsGroups ==
    ASSUME IInv, Exact, Replayable, Grouped, CiGroups
    PROVE  Grouped'
<1>1. calls # <<>> /\ Head(calls).r = "ci_groups" /\ UNCHANGED <<groups, enabled, saved>>
  BY DEF CiGroups, Asked, config, NoCommand, caches
<1>2. PICK more \in Seq(Inner) : Proceed(more) /\ Gives(more) /\ GivesEach(more, Head(calls).a)
  BY CiParts
<1>3. Grants
  <2>1. Head(calls) = calls[1] /\ 1 \in 1..Len(calls)
    BY <1>1, CallsSeq, TailCalls DEF IInv
  <2> QED
    BY <1>1, <2>1 DEF Grouped, GivePlan, Grants
<1>4. Granting(more) /\ Picks(Head(calls))
  BY <1>1, <1>2, <1>3 DEF Granting, Picks
<1>5. calls' = more \o Tail(calls)
  BY <1>2 DEF Proceed
<1> QED
  BY <1>1, <1>2, <1>4, <1>5, MoreGroups

(* dpu_init_groups finds all the DPUs in the group of the enabled ones. *)
LEMMA InitGroupsGroups ==
    ASSUME IInv, Exact, Replayable, Grouped, dpu_init_groups
    PROVE  Grouped'
<1>1. calls # <<>> /\ Head(calls).r = "init_groups" /\ UNCHANGED <<groups, enabled, saved>>
  BY DEF dpu_init_groups, Asked, config, NoCommand, caches
<1>2. PICK more \in Seq(Inner) : Proceed(more) /\ Gives(more) /\ GivesAll(more)
  BY InitParts
<1>3. calls' = more \o Tail(calls)
  BY <1>2 DEF Proceed
<1>4. Granting(more) /\ Picks(Head(calls)) /\ Grants
  BY <1>1, <1>2 DEF Granting, Picks, Grants
<1>5. GivePlan' /\ Giving'
  BY <1>1, <1>3, <1>4, MoreGive, StillGiving DEF Grouped
<1>6. PICK n \in Nat, l \in Nat : Shifted(more, n, l)
  BY <1>1, <1>3, Remaining
<1>7. PICK z, t : z = n + l - 1 /\ t = calls'
  OBVIOUS
<1>8. /\ l = Len(calls) /\ l # 0 /\ Len(t) = z /\ Head(calls) = calls[1] /\ n = Len(more)
      /\ \A j \in 1..n : t[j] = more[j] /\ j \in 1..z
  BY <1>6, <1>7 DEF Shifted
<1>9. 1 \in 1..l
  BY <1>8
<1>10. calls[Len(calls)].r = "restore" /\ ~Giving
  BY <1>1, <1>8, <1>9 DEF Replayable, BootPlan, SelectShape, Giving
<1>11. ~Early /\ \A c, d : ~Losing(c, d)
  BY <1>1, <1>8, NotEarly DEF Losing
<1>12. \A c \in Alive : enabled[c] = Dpu
  BY <1>1, <1>10, GivingEnabled
<1>13. \A c \in Alive : \A d \in Dpu : groups[c][d] = EnabledGroup
  BY <1>10, <1>11, <1>12 DEF Grouped, GroupsKnown
<1>14. GroupsGiven'
  <2> SUFFICES ASSUME NEW c \in Alive, NEW d \in Dpu, saved[c] # Dpu
               PROVE  Owed(c, d)'
    <3>1. Alive' = Alive
      BY <1>1 DEF Alive
    <3> QED
      BY <1>1, <1>13, <3>1 DEF GroupsGiven
  <2>1. c \in Ci
    BY DEF Alive
  <2>2. PICK j \in 1..n : more[j].r = "ci_groups" /\ more[j].a = c
    BY <1>2, <1>8, <2>1 DEF GivesAll
  <2>3. j \in 1..z /\ OwedBy(t[j], c, d)
    BY <1>8, <2>2 DEF OwedBy
  <2> QED
    BY <1>1, <1>7, <1>8, <2>3 DEF Owed, OwedBy
<1>15. GroupsKnown'
  BY <1>5 DEF GroupsKnown
<1> QED
  BY <1>5, <1>14, <1>15 DEF Grouped

(* The groups are changed for the DPUs that have been selected. *)
LEMMA WriteGroups ==
    ASSUME IInv, Exact, Replayable, Grouped, ufi_write_group
    PROVE  Grouped'
<1>1. /\ calls # <<>> /\ Head(calls).r = "write_group" /\ UNCHANGED <<target, mask, enabled, saved>> /\ Proceed(<<>>)
      /\ groups' = [c \in Ci |-> IF c \in mask THEN [d \in Dpu |-> IF d \in Chosen(c) THEN Head(calls).a ELSE groups[c][d]]
                                 ELSE groups[c]]
  BY DEF ufi_write_group, Asked, config
<1>2. PICK more : more = <<>>
  OBVIOUS
<1>3. more \in Seq(Inner) /\ Len(more) = 0
  BY <1>2
<1>4. 1..Len(more) = {}
  BY <1>3
<1>5. calls' = more \o Tail(calls)
  <2>1. calls' = Tail(calls)
    BY <1>1, Over
  <2>2. calls' \in Seq(Request)
    BY <1>1, <2>1, CallsSeq, TailCalls DEF IInv
  <2> QED
    BY <1>2, <2>1, <2>2
<1>6. Granting(more) /\ Picks(Head(calls))
  BY <1>1, <1>4 DEF Granting, Gives, Picks
<1>7. GivePlan' /\ (Giving' <=> Giving)
  BY <1>1, <1>3, <1>5, <1>6, MoreGive, StillGiving DEF Grouped, Grants
<1>8. PICK n \in Nat, l \in Nat : Shifted(more, n, l)
  BY <1>1, <1>3, <1>5, Remaining
<1>9. PICK z, t : z = n + l - 1 /\ t = calls'
  OBVIOUS
<1>10. /\ l = Len(calls) /\ l # 0 /\ Len(t) = z /\ z \in Nat /\ Head(calls) = calls[1] /\ n = Len(more) /\ t \in Seq(Request)
       /\ \A k \in 2..l : k + n - 1 \in 1..z /\ t[k + n - 1] = calls[k]
  BY <1>8, <1>9 DEF Shifted
<1>11. 1 \in 1..l /\ n = 0
  BY <1>3, <1>10
<1>12. Alive' = Alive /\ Alive \subseteq Ci
  BY <1>1 DEF Alive
<1>13. ~Early /\ ~Early' /\ \A c, d : ~Losing(c, d)
  BY <1>1, <1>3, <1>5, <1>10, NotEarly, LaterCalls DEF Losing, Early
<1>14. CASE Giving
  <2>1. \A c \in mask : \A d \in Chosen(c) : Head(calls).a = EnabledGroup <=> d \in saved[c]
    BY <1>1, <1>10, <1>11, <1>14 DEF Grouped, GivePlan, Given
  <2>2. GroupsGiven'
    <3> SUFFICES ASSUME NEW c \in Alive, NEW d \in Dpu
                 PROVE  (groups'[c][d] = EnabledGroup <=> d \in saved[c]) \/ Owed(c, d)'
      BY <1>1, <1>12 DEF GroupsGiven
    <3>1. c \in Ci
      BY <1>12
    <3>2. CASE c \in mask /\ d \in Chosen(c)
      BY <1>1, <2>1, <3>1, <3>2
    <3>3. CASE ~(c \in mask /\ d \in Chosen(c))
      <4>1. groups'[c][d] = groups[c][d]
        BY <1>1, <3>1, <3>3
      <4>2. (groups[c][d] = EnabledGroup <=> d \in saved[c]) \/ \E j \in 1..l : OwedBy(calls[j], c, d)
        BY <1>10, <1>14, <3>3 DEF Grouped, GroupsGiven, Owed
      <4>3. ASSUME NEW k \in 1..l, OwedBy(calls[k], c, d)
            PROVE  Owed(c, d)'
        <5>1. k # 1
          BY <1>1, <1>10, <4>3 DEF OwedBy
        <5>2. k \in 2..l
          BY <5>1
        <5>3. k + n - 1 \in 1..z /\ t[k + n - 1] = calls[k]
          BY <1>10, <5>2
        <5>4. \E j \in 1..z : t[j] = calls[k]
          BY <5>3
        <5>5. \E j \in 1..z : OwedBy(t[j], c, d)'
          BY <1>1, <4>3, <5>4 DEF OwedBy
        <5> QED
          BY <1>9, <1>10, <5>5 DEF Owed, OwedBy
      <4> QED
        BY <4>1, <4>2, <4>3
    <3> QED
      BY <3>2, <3>3
  <2>3. GroupsKnown'
    BY <1>7, <1>14 DEF GroupsKnown
  <2> QED
    BY <1>7, <2>2, <2>3 DEF Grouped
<1>15. CASE ~Giving
  <2>1. Taken(1)
    BY <1>1, <1>10, <1>11, <1>15 DEF Grouped, GivePlan
  <2>2. l # 1 /\ calls[2].r = "disabled" /\ Head(calls).a = DisabledGroup
    <3>1. 1 + 1 = 2
      OBVIOUS
    <3> QED
      BY <1>10, <2>1, <3>1 DEF Taken
  <2>3. PICK q : q = calls[2]
    OBVIOUS
  <2>4. /\ mask \subseteq q.cis /\ \A c \in mask : Chosen(c) = {q.a}
        /\ \A c \in q.cis : c \in mask <=> q.a \in enabled[c]
    BY <2>1, <2>3 DEF Taken
  <2>5. t # <<>> /\ t[1] = q
    <3>1. 2 \in 2..l /\ 2 + n - 1 = 1
      BY <1>10, <1>11, <2>2
    <3>2. t[1] = calls[2] /\ 1 \in 1..z
      BY <1>10, <3>1
    <3>3. t # <<>>
      BY <1>10, <3>2
    <3> QED
      BY <2>3, <3>2, <3>3
  <2>6. \A c, d : Losing(c, d)' <=> c \in q.cis /\ d = q.a
    BY <1>9, <2>2, <2>3, <2>5 DEF Losing
  <2>7. DisabledGroup # EnabledGroup
    BY DEF DisabledGroup, EnabledGroup
  <2>8. ASSUME NEW c \in Alive, NEW d \in Dpu
        PROVE  groups'[c][d] = EnabledGroup <=> (d \in enabled[c] /\ ~(c \in q.cis /\ d = q.a))
    <3>1. c \in Ci
      BY <1>12
    <3>2. groups[c][d] = EnabledGroup <=> d \in enabled[c]
      BY <1>13, <1>15 DEF Grouped, GroupsKnown
    <3>3. CASE c \in mask /\ d = q.a
      <4>1. groups'[c][d] = DisabledGroup
        BY <1>1, <2>2, <2>4, <3>1, <3>3
      <4> QED
        BY <2>4, <2>7, <3>3, <4>1
    <3>4. CASE ~(c \in mask /\ d = q.a)
      <4>1. groups'[c][d] = groups[c][d]
        BY <1>1, <2>4, <3>1, <3>4
      <4> QED
        BY <2>4, <3>2, <3>4, <4>1
    <3> QED
      BY <3>3, <3>4
  <2>9. GroupsKnown'
    BY <1>1, <1>12, <2>6, <2>8 DEF GroupsKnown
  <2>10. GroupsGiven'
    BY <1>7, <1>15 DEF GroupsGiven
  <2> QED
    BY <1>7, <2>9, <2>10 DEF Grouped
<1> QED
  BY <1>14, <1>15

(* A DPU that has left its group is disabled. *)
LEMMA DisabledGroups ==
    ASSUME IInv, Exact, Replayable, Grouped, Disabled
    PROVE  Grouped'
<1>1. /\ calls # <<>> /\ Head(calls).r = "disabled" /\ UNCHANGED <<groups, saved>> /\ Proceed(<<>>)
      /\ enabled' = [c \in Ci |-> IF c \in Head(calls).cis THEN enabled[c] \ {Head(calls).a} ELSE enabled[c]]
  BY DEF Disabled, Asked, NoCommand, caches
<1>2. PICK more : more = <<>>
  OBVIOUS
<1>3. more \in Seq(Inner) /\ Len(more) = 0
  BY <1>2
<1>4. 1..Len(more) = {}
  BY <1>3
<1>5. calls' = more \o Tail(calls)
  <2>1. calls' = Tail(calls)
    BY <1>1, Over
  <2>2. calls' \in Seq(Request)
    BY <1>1, <2>1, CallsSeq, TailCalls DEF IInv
  <2> QED
    BY <1>2, <2>1, <2>2
<1>6. Granting(more) /\ Picks(Head(calls))
  BY <1>1, <1>4 DEF Granting, Gives, Picks
<1>7. Head(calls) = calls[1] /\ 1 \in 1..Len(calls)
  BY <1>1, CallsSeq, TailCalls DEF IInv
<1>8. ~Giving
  BY <1>1, <1>7 DEF Grouped, GivePlan, GiveKind
<1>9. GivePlan' /\ ~Giving'
  BY <1>1, <1>3, <1>5, <1>6, <1>8, MoreGive, StillGiving DEF Grouped, Grants
<1>10. ~Early /\ \A c, d : ~Losing(c, d)'
  BY <1>1, <1>3, <1>5, NotEarly, NotLosing
<1>11. GroupsKnown'
  <2> SUFFICES ASSUME NEW c \in Alive', NEW d \in Dpu
               PROVE  groups[c][d] = EnabledGroup <=> d \in enabled'[c]
    BY <1>1, <1>10 DEF GroupsKnown
  <2>1. c \in Ci /\ enabled'[c] # {}
    BY DEF Alive
  <2>2. c \in Alive
    BY <1>1, <2>1 DEF Alive
  <2>3. groups[c][d] = EnabledGroup <=> (d \in enabled[c] /\ ~Losing(c, d))
    BY <1>8, <1>10, <2>2 DEF Grouped, GroupsKnown
  <2>4. Losing(c, d) <=> c \in Head(calls).cis /\ d = Head(calls).a
    BY <1>1, <1>7 DEF Losing
  <2> QED
    BY <1>1, <2>1, <2>3, <2>4
<1>12. GroupsGiven'
  BY <1>9 DEF GroupsGiven
<1> QED
  BY <1>9, <1>11, <1>12 DEF Grouped

(* The saved DPUs are restored when they have their groups. *)
LEMMA RestoreGroups ==
    ASSUME IInv, Exact, Replayable, Grouped, RestoreEnabled
    PROVE  Grouped'
<1>1. calls # <<>> /\ Head(calls).r = "restore" /\ groups' = groups /\ enabled' = saved /\ Proceed(<<>>)
  BY DEF RestoreEnabled, Asked, NoCommand, caches
<1>2. calls \in Seq(Request) /\ Head(calls) = calls[1] /\ 1 \in 1..Len(calls) /\ calls' = Tail(calls)
  BY <1>1, CallsSeq, TailCalls, Over DEF IInv
<1>3. Len(calls) = 1 /\ \A c \in Ci : enabled[c] = IF saved[c] = {} THEN {} ELSE Dpu
  BY <1>1, <1>2 DEF Exact, ResetPlan
<1>4. \A i \in 1..1 : i = 1
  OBVIOUS
<1>5. Giving
  BY <1>1, <1>2, <1>3, <1>4 DEF Giving
<1>6. \A c, d : ~Owed(c, d)
  BY <1>1, <1>2, <1>3, <1>4 DEF Owed, OwedBy
<1>7. Len(calls') = 0 /\ calls' = <<>>
  BY <1>2, <1>3
<1>8. 1..Len(calls') = {}
  BY <1>7
<1>9. GivePlan' /\ ~Giving' /\ \A c, d : ~Losing(c, d)'
  BY <1>7, <1>8 DEF GivePlan, Giving, Losing
<1>10. Alive' \subseteq Alive
  <2>1. 0 \in Dpu
    BY CiAssumption DEF Dpu
  <2> QED
    BY <1>1, <1>3, <2>1 DEF Alive
<1>11. GroupsKnown'
  BY <1>1, <1>5, <1>6, <1>9, <1>10 DEF Grouped, GroupsGiven, GroupsKnown
<1>12. GroupsGiven'
  BY <1>9 DEF GroupsGiven
<1> QED
  BY <1>9, <1>11, <1>12 DEF Grouped

(* Calls that give no group yet. *)
Modest(s) ==
    /\ s # <<>> /\ s[1].r # "disabled"
    /\ s[Len(s)].r = "restore" => \E i \in 1..Len(s) : s[i].r = "init_groups"
    /\ \A j \in 1..Len(s) : /\ s[j].r \notin {"ci_groups", "write_group"}
                            /\ s[j].r = "init_groups" => j + 1 = Len(s)
                            /\ s[j].r = "save" => s = Reset

LEMMA ModestGive ==
    ASSUME Modest(calls')
    PROVE  GivePlan' /\ GroupsGiven' /\ ~Giving' /\ \A c, d : ~Losing(c, d)'
<1>1. ~Giving' /\ \A c, d : ~Losing(c, d)'
  BY DEF Modest, Giving, Losing
<1> QED
  BY <1>1 DEF Modest, GivePlan, GroupsGiven

LEMMA ResetModest == Modest(Reset) /\ Modest(Reset1) /\ Modest(Reset2) /\ Modest(Reset3)
<1> DEFINE q1 == Req("save", 0, {})
           q2 == Req("soft_reset", 0, {})
           q4 == Selecting(Ci)
           q5 == Reading
           b == Reboot
           q6 == Req("switch_rank", 1, {})
           q7 == Req("init_groups", 0, {})
           q8 == Req("restore", 0, {})
<1>1. /\ q1.r = "save" /\ q2.r = "soft_reset" /\ q4.r = "select_all" /\ q5.r = "frame" /\ b.r = "frame"
      /\ q6.r = "switch_rank" /\ q7.r = "init_groups" /\ q8.r = "restore"
  BY ReqFields DEF Selecting, Reading, Reboot
<1>2. Reset = <<q1, q2, q2, q4, q5, b, q5, q6, q7, q8>>
  BY DEF Reset
<1> HIDE DEF q1, q2, q4, q5, b, q6, q7, q8
<1>3. Reset1 = <<q2, q2, q4, q5, b, q5, q6, q7, q8>>
  BY <1>2 DEF Reset1
<1>4. Reset2 = <<q2, q4, q5, b, q5, q6, q7, q8>>
  BY <1>3 DEF Reset2
<1>5. Reset3 = <<q4, q5, b, q5, q6, q7, q8>>
  BY <1>4 DEF Reset3
<1>6. Modest(Reset)
  <2>1. PICK s : s = Reset
    OBVIOUS
  <2>2. /\ s # <<>> /\ Len(s) = 10 /\ s[1] = q1 /\ s[2] = q2 /\ s[3] = q2 /\ s[4] = q4
        /\ s[5] = q5 /\ s[6] = b /\ s[7] = q5 /\ s[8] = q6 /\ s[9] = q7 /\ s[10] = q8
    BY <1>2, <2>1
  <2>3. (\A j \in 1..10 : j \in {1, 2, 3, 4, 5, 6, 7, 8, 9, 10}) /\ 9 + 1 = 10 /\ 9 \in 1..10
    OBVIOUS
  <2>4. \A j \in 1..10 : s[j].r \notin {"ci_groups", "write_group"} /\ (s[j].r = "init_groups" => j = 9)
    BY <1>1, <2>2, <2>3
  <2> QED
    BY <1>1, <2>1, <2>2, <2>3, <2>4 DEF Modest
<1>7. Modest(Reset1)
  <2>1. PICK s : s = Reset1
    OBVIOUS
  <2>2. /\ s # <<>> /\ Len(s) = 9 /\ s[1] = q2 /\ s[2] = q2 /\ s[3] = q4
        /\ s[4] = q5 /\ s[5] = b /\ s[6] = q5 /\ s[7] = q6 /\ s[8] = q7 /\ s[9] = q8
    BY <1>3, <2>1
  <2>3. (\A j \in 1..9 : j \in {1, 2, 3, 4, 5, 6, 7, 8, 9}) /\ 8 + 1 = 9 /\ 8 \in 1..9
    OBVIOUS
  <2>4. \A j \in 1..9 : s[j].r \notin {"ci_groups", "write_group", "save"} /\ (s[j].r = "init_groups" => j = 8)
    BY <1>1, <2>2, <2>3
  <2> QED
    BY <1>1, <2>1, <2>2, <2>3, <2>4 DEF Modest
<1>8. Modest(Reset2)
  <2>1. PICK s : s = Reset2
    OBVIOUS
  <2>2. /\ s # <<>> /\ Len(s) = 8 /\ s[1] = q2 /\ s[2] = q4
        /\ s[3] = q5 /\ s[4] = b /\ s[5] = q5 /\ s[6] = q6 /\ s[7] = q7 /\ s[8] = q8
    BY <1>4, <2>1
  <2>3. (\A j \in 1..8 : j \in {1, 2, 3, 4, 5, 6, 7, 8}) /\ 7 + 1 = 8 /\ 7 \in 1..8
    OBVIOUS
  <2>4. \A j \in 1..8 : s[j].r \notin {"ci_groups", "write_group", "save"} /\ (s[j].r = "init_groups" => j = 7)
    BY <1>1, <2>2, <2>3
  <2> QED
    BY <1>1, <2>1, <2>2, <2>3, <2>4 DEF Modest
<1>9. Modest(Reset3)
  <2>1. PICK s : s = Reset3
    OBVIOUS
  <2>2. s # <<>> /\ Len(s) = 7 /\ s[1] = q4 /\ s[2] = q5 /\ s[3] = b /\ s[4] = q5 /\ s[5] = q6 /\ s[6] = q7 /\ s[7] = q8
    BY <1>5, <2>1
  <2>3. (\A j \in 1..7 : j \in {1, 2, 3, 4, 5, 6, 7}) /\ 6 + 1 = 7 /\ 6 \in 1..7
    OBVIOUS
  <2>4. \A j \in 1..7 : s[j].r \notin {"ci_groups", "write_group", "save"} /\ (s[j].r = "init_groups" => j = 6)
    BY <1>1, <2>2, <2>3
  <2> QED
    BY <1>1, <2>1, <2>2, <2>3, <2>4 DEF Modest
<1> QED
  BY <1>6, <1>7, <1>8, <1>9

LEMMA ResetEnds == \A s \in {Reset1, Reset2} : s[Len(s)].r = "restore"
<1> DEFINE q1 == Req("save", 0, {})
           q2 == Req("soft_reset", 0, {})
           q4 == Selecting(Ci)
           q6 == Req("switch_rank", 1, {})
           q7 == Req("init_groups", 0, {})
           q8 == Req("restore", 0, {})
<1>1. q8.r = "restore"
  BY ReqFields
<1>2. Reset = <<q1, q2, q2, q4, Reading, Reboot, Reading, q6, q7, q8>>
  BY DEF Reset
<1> HIDE DEF q1, q2, q4, q6, q7, q8
<1>3. Reset1 = <<q2, q2, q4, Reading, Reboot, Reading, q6, q7, q8>>
  BY <1>2 DEF Reset1
<1>4. Reset2 = <<q2, q4, Reading, Reboot, Reading, q6, q7, q8>>
  BY <1>3 DEF Reset2
<1>5. Len(Reset1) = 9 /\ Reset1[9] = q8 /\ Len(Reset2) = 8 /\ Reset2[8] = q8
  BY <1>3, <1>4
<1> QED
  BY <1>1, <1>5

(* A reset begins: groups and enabled DPUs part until its soft resets. *)
LEMMA SaveCalls ==
    ASSUME IInv, Grouped, save_enabled_dpus
    PROVE  calls = Reset /\ calls' = Reset1
<1>1. calls # <<>> /\ Head(calls).r = "save" /\ Proceed(<<>>)
  BY DEF save_enabled_dpus, Asked
<1>2. Head(calls) = calls[1] /\ 1 \in 1..Len(calls) /\ calls' = Tail(calls)
  BY <1>1, CallsSeq, TailCalls, Over DEF IInv
<1> QED
  BY <1>1, <1>2 DEF Grouped, GivePlan, Reset1

LEMMA SaveGroups ==
    ASSUME IInv, Grouped, save_enabled_dpus
    PROVE  Grouped'
<1>1. calls' = Reset1
  BY SaveCalls
<1>2. GivePlan' /\ GroupsGiven'
  BY <1>1, ResetModest, ModestGive
<1>3. GroupsKnown'
  BY <1>1 DEF GroupsKnown, Early
<1> QED
  BY <1>2, <1>3 DEF Grouped

(* The soft resets put all the DPUs in the group of the enabled ones, as  *)
(* they all are for the time of the reset.                                *)
LEMMA SoftResetGroups ==
    ASSUME IInv, Exact, Grouped, dpu_soft_reset, ~lost'
    PROVE  Grouped'
<1>1. /\ calls # <<>> /\ Head(calls).r = "soft_reset" /\ calls' = Tail(calls) /\ enabled' = enabled
      /\ groups' = [c \in Ci |-> [d \in Dpu |-> 0]]
  BY DEF dpu_soft_reset, Asked, config
<1>2. calls \in {Reset1, Reset2} /\ calls' \in {Reset2, Reset3}
  BY <1>1, Plan DEF IInv
<1>3. GivePlan' /\ GroupsGiven' /\ \A c, d : ~Losing(c, d)'
  BY <1>2, ResetModest, ModestGive
<1>4. \A c \in Alive : enabled[c] = Dpu
  BY <1>1, <1>2, ResetEnds, GivingEnabled
<1>5. Alive' = Alive /\ Alive \subseteq Ci
  BY <1>1 DEF Alive
<1>6. GroupsKnown'
  BY <1>1, <1>3, <1>4, <1>5 DEF GroupsKnown, EnabledGroup
<1> QED
  BY <1>3, <1>6 DEF Grouped

(* The calls as they are made. *)
LEMMA CallModest ==
    ASSUME NEW t, \/ t = LaunchRank \/ t = PollRank \/ t = AccessRank
                  \/ (\E c, d : t = LaunchDpu(c, d)) \/ (\E d, cis : t = AccessPair(d, cis))
    PROVE  Modest(t)
<1>1. Reading.r = "frame" /\ \A cis : Selecting(cis).r = "select_all" /\ \A d : SelectingDpu(d, cis).r = "select_dpu"
  BY ReqFields DEF Reading, Selecting, SelectingDpu
<1>2. CASE t = PollRank
  <2>1. t # <<>> /\ Len(t) = 3 /\ t[1] = Selecting(Ci) /\ t[2] = Reading /\ t[3].r = "polled"
    BY <1>2, ReqFields DEF PollRank
  <2>2. \A j \in 1..3 : j \in {1, 2, 3}
    OBVIOUS
  <2> QED
    BY <1>1, <2>1, <2>2 DEF Modest
<1>3. CASE t = LaunchRank
  <2>1. t # <<>> /\ Len(t) = 5 /\ t[1] = Selecting(Ci) /\ t[2] = Reading /\ t[3].r = "polled" /\ t[4] = Selecting(Ci) /\ t[5].r = "start_rank"
    BY <1>3, ReqFields DEF PollRank, LaunchRank
  <2>2. \A j \in 1..5 : j \in {1, 2, 3, 4, 5}
    OBVIOUS
  <2> QED
    BY <1>1, <2>1, <2>2 DEF Modest
<1>4. CASE t = AccessRank
  <2>1. t # <<>> /\ Len(t) = 1 /\ t[1].r = "switch_rank"
    BY <1>4, ReqFields DEF AccessRank
  <2>2. \A j \in 1..1 : j = 1
    OBVIOUS
  <2> QED
    BY <2>1, <2>2 DEF Modest
<1>5. ASSUME NEW c, NEW d, t = LaunchDpu(c, d)
      PROVE  Modest(t)
  <2>1. PICK v, x, y, p, f, b, g :
          /\ v = Selecting(Ci) /\ x = SelectingDpu(d, {c}) /\ y = Reading /\ p = Req("polled", 0, {})
          /\ f = Req("keep_line", d, {c}) /\ b = Req("frame", Word("boot", d + 1), {}) /\ g = Req("launched", d + 1, {c})
    OBVIOUS
  <2>2. t = <<v, y, p>> \o <<f, x, b, g>>
    BY <1>5, <2>1 DEF LaunchDpu, PollRank
  <2>3. t # <<>> /\ Len(t) = 7 /\ t[1] = v /\ t[2] = y /\ t[3].r = "polled" /\ t[4].r = "keep_line" /\ t[5] = x
        /\ t[6].r = "frame" /\ t[7].r = "launched"
    <3>1. p.r = "polled" /\ f.r = "keep_line" /\ b.r = "frame" /\ g.r = "launched"
      BY <2>1, ReqFields
    <3>2. t # <<>> /\ Len(t) = 7 /\ t[1] = v /\ t[2] = y /\ t[3] = p /\ t[4] = f /\ t[5] = x /\ t[6] = b /\ t[7] = g
      BY <2>2
    <3> QED
      BY <3>1, <3>2
  <2>4. \A j \in 1..7 : j \in {1, 2, 3, 4, 5, 6, 7}
    OBVIOUS
  <2> QED
    BY <1>1, <2>1, <2>3, <2>4 DEF Modest
<1>6. ASSUME NEW d, NEW cis, t = AccessPair(d, cis)
      PROVE  Modest(t)
  <2>1. t # <<>> /\ Len(t) = 2 /\ t[1].r = "switch_line" /\ t[2].r = "switch_line"
    BY <1>6, ReqFields DEF AccessPair
  <2>2. \A j \in 1..2 : j \in {1, 2}
    OBVIOUS
  <2> QED
    BY <2>1, <2>2 DEF Modest
<1> QED
  BY <1>2, <1>3, <1>4, <1>5, <1>6

LEMMA CallGroups ==
    ASSUME IInv, Grouped, Call
    PROVE  Grouped'
<1>1. calls = <<>> /\ UNCHANGED <<groups, enabled, saved, mask, target>>
  BY DEF Call, config, caches
<1>2. \/ calls' = LaunchRank \/ calls' = PollRank \/ calls' = AccessRank \/ calls' = Reset
      \/ (\E c, d : calls' = LaunchDpu(c, d)) \/ (\E c, d : calls' = Disable(c, d))
      \/ \E d, cis : calls' = AccessPair(d, cis)
  BY DEF Call
<1>3. ~Early /\ ~Giving /\ \A c, d : ~Losing(c, d)
  BY <1>1, ResetRest DEF Early, Giving, Losing
<1>4. Alive' = Alive
  BY <1>1 DEF Alive
<1>5. \A c \in Alive : \A d \in Dpu : groups'[c][d] = EnabledGroup <=> d \in enabled'[c]
  BY <1>1, <1>3 DEF Grouped, GroupsKnown
<1>6. CASE Modest(calls')
  BY <1>4, <1>5, <1>6, ModestGive DEF Grouped, GroupsKnown
<1>7. ASSUME NEW c, NEW d, calls' = Disable(c, d)
      PROVE  Grouped'
  <2>1. PICK t : t = calls'
    OBVIOUS
  <2>2. t # <<>> /\ Len(t) = 3 /\ t[1].r = "select_dpu" /\ t[2].r = "write_group" /\ t[2].a = DisabledGroup /\ t[3].r = "disabled"
    BY <1>7, <2>1, ReqFields DEF Disable, SelectingDpu
  <2>3. (\A j \in 1..3 : j \in {1, 2, 3}) /\ 2 + 1 = 3 /\ 2 # 3 /\ 2 # 1
    OBVIOUS
  <2>4. ~Giving' /\ \A x, y : ~Losing(x, y)'
    BY <2>1, <2>2 DEF Giving, Losing
  <2>5. Taken(2)'
    BY <2>1, <2>2, <2>3 DEF Taken
  <2>6. GivePlan'
    BY <2>1, <2>2, <2>3, <2>4, <2>5 DEF GivePlan
  <2>7. GroupsKnown' /\ GroupsGiven'
    BY <1>4, <1>5, <2>4 DEF GroupsKnown, GroupsGiven
  <2> QED
    BY <2>6, <2>7 DEF Grouped
<1> QED
  BY <1>2, <1>6, <1>7, CallModest, ResetModest

-----------------------------------------------------------------------------
(***************************************************************************)
(* Every step.                                                             *)
(***************************************************************************)
LEMMA KnownLaunching ==
    ASSUME IInv, Grouped, calls # <<>>, Head(calls).r \notin {"save", "soft_reset", "disabled"}, Launching
    PROVE  Known
<1>1. ~Early
  BY NotEarly
<1>2. ~Giving
  BY DEF Giving, Launching
<1>3. Head(calls) = calls[1]
  BY CallsSeq, TailCalls DEF IInv
<1>4. \A c, d : ~Losing(c, d)
  BY <1>3 DEF Losing
<1>5. \A c \in Alive : \A d \in Dpu : groups[c][d] = EnabledGroup <=> d \in enabled[c]
  BY <1>1, <1>2, <1>4 DEF Grouped, GroupsKnown
<1>6. \A c \in Alive : enabled[c] \subseteq Dpu
  BY DEF Alive, IInv, CiType
<1> QED
  BY <1>5, <1>6 DEF Known

(* Requests and calls that send nothing. *)
LEMMA RequestsAims ==
    ASSUME IInv, Exact, Replayable, Aims,
           \/ dpu_switch_mux_for_rank \/ dpu_switch_mux_for_dpu_line \/ SwitchKeeping \/ ci_start_thread_rank
           \/ Launched \/ Polled \/ Disabled \/ dpu_init_groups \/ CiGroups \/ RestoreEnabled
    PROVE  Aims'
<1>1. /\ calls # <<>> /\ queue = <<>> /\ ~wait.on /\ UNCHANGED <<queue, cmds>>
      /\ Head(calls).r \in {"switch_rank", "switch_line", "keep_line", "start_rank", "launched", "polled", "disabled",
                            "init_groups", "ci_groups", "restore"}
  BY DEF dpu_switch_mux_for_rank, dpu_switch_mux_for_dpu_line, SwitchKeeping, ci_start_thread_rank, Launched, Polled,
         Disabled, dpu_init_groups, CiGroups, RestoreEnabled, Asked, NoCommand
<1>2. Busy \/ \E more : Proceed(more)
  BY DEF dpu_switch_mux_for_rank, dpu_switch_mux_for_dpu_line, SwitchKeeping, SwitchLine, ci_start_thread_rank, Launched,
         Polled, Disabled, dpu_init_groups, CiGroups, RestoreEnabled
<1>3. UNCHANGED <<hw, wait>>
  BY <1>2 DEF Busy, Proceed
<1>4. calls # Reset1 /\ ~Clears(Head(calls))
  BY <1>1, ResetRest DEF Clears
<1>5. Head(calls) = calls[1] /\ 1 \in 1..Len(calls)
  BY <1>1, CallsSeq, TailCalls DEF IInv
<1>6. enabled' = enabled \/ NoBoot
  <2>1. CASE Disabled
    <3>1. Head(calls).r = "disabled"
      BY <2>1 DEF Disabled, Asked
    <3> QED
      BY <1>5, <3>1 DEF Replayable, BootPlan, DisableShape
  <2>2. CASE RestoreEnabled
    <3>1. Head(calls).r = "restore"
      BY <2>2 DEF RestoreEnabled, Asked
    <3>2. 1 = Len(calls)
      BY <1>5, <3>1 DEF Exact, ResetPlan
    <3>3. calls \notin {Reset, Reset1, Reset2, Reset6}
      BY <3>1, ResetRest, NotReset6
    <3> QED
      BY <1>1, <1>5, <3>1, <3>2, <3>3 DEF Replayable, BootPlan, ResetQuiet
  <2>3. CASE ~Disabled /\ ~RestoreEnabled
    BY <2>3 DEF dpu_switch_mux_for_rank, dpu_switch_mux_for_dpu_line, SwitchKeeping, SwitchLine, ci_start_thread_rank,
                Launched, Polled, dpu_init_groups, CiGroups, Busy, config
  <2> QED
    BY <2>1, <2>2, <2>3
<1> QED
  BY <1>1, <1>3, <1>4, <1>6, RecordAims

LEMMA CallAims ==
    ASSUME IInv, Exact, Aims, Call
    PROVE  Aims'
<1>1. calls = <<>> /\ queue = <<>> /\ ~wait.on /\ UNCHANGED <<queue, cmds, hw, wait, enabled>>
  BY DEF Call, config
<1>2. calls # Reset1
  BY <1>1, ResetRest
<1> QED
  BY <1>1, <1>2, RecordAims

LEMMA SaveAims ==
    ASSUME IInv, Exact, Aims, Grouped, save_enabled_dpus
    PROVE  Aims'
<1>1. calls # <<>> /\ Head(calls).r = "save" /\ queue = <<>> /\ ~wait.on /\ UNCHANGED <<queue, cmds, hw, wait>>
  BY DEF save_enabled_dpus, Asked, NoCommand, Proceed
<1>2. calls' = Reset1
  BY SaveCalls
<1>3. FinalAimed' /\ ResetStarts'
  BY <1>1, <1>2 DEF FinalAimed, ResetStarts
<1>4. NoSwitch
  BY <1>1, NotSwitching DEF Clears
<1>5. MuxNext'
  <2>1. \A c \in Ci : Final(c)' = Final(c)
    BY <1>1, SettledSame
  <2> QED
    BY <1>4, <2>1 DEF NoSwitch, MuxNext
<1>6. Flight'
  BY <1>1, KeptFlight
<1> QED
  BY <1>3, <1>5, <1>6 DEF Aims

(* What the boots rest on. *)
Ready == Aims /\ Launches /\ Grouped

(* Nothing changes but the words on their way. *)
LEMMA SilentReady ==
    ASSUME Ready, Aims', UNCHANGED <<caches, config, calls, mask>>
    PROVE  Ready'
  BY SilentLaunches, SilentGroups DEF Ready

LEMMA NextReady ==
    ASSUME IInv, Exact, RebootPlan, Replayable, Ready, [Next]_vars, ~lost'
    PROVE  Ready'
<1>1. Aims /\ Launches /\ Grouped
  BY DEF Ready
<1>2. CASE UNCHANGED vars
  <2>1. UNCHANGED <<caches, config, calls, mask>> /\ UNCHANGED <<queue, hw, cmds>> /\ UNCHANGED wait
    BY <1>2 DEF vars, engine
  <2>2. \A c \in Ci : Settled(c)' = Settled(c) /\ Final(c)' = Final(c)
    BY <2>1, SettledSame
  <2>3. ResetStarts' /\ Flight'
    BY <1>1, <2>1 DEF Aims, ResetStarts, Flight
  <2> QED
    BY <1>1, <2>1, <2>2, <2>3, SilentAims, SilentReady
<1>3. CASE Done
  BY <1>2, <1>3 DEF Done
<1>4. ASSUME NEW c \in Ci, Execute(c)
      PROVE  Ready'
  <2>1. UNCHANGED <<caches, config, calls, mask>>
    BY <1>4 DEF Execute, engine
  <2> QED
    BY <1>1, <1>4, <2>1, ExecuteAims, SilentReady
<1>5. CASE Commit
  <2>1. UNCHANGED <<caches, config, calls, mask>>
    BY <1>5, CommitSettled
  <2> QED
    BY <1>1, <1>5, <2>1, CommitAims, SilentReady
<1>6. CASE Update
  <2>1. UNCHANGED <<caches, config, calls, mask>>
    BY <1>6 DEF Update, Fails
  <2> QED
    BY <1>1, <1>6, <2>1, UpdateAims, SilentReady
<1>7. CASE ufi_select_all \/ ufi_select_all_even_disabled \/ ufi_select_dpu \/ ufi_select_dpu_even_disabled
  <2>1. calls # <<>> /\ Head(calls).r \notin {"save", "soft_reset", "disabled"}
    BY <1>7 DEF ufi_select_all, ufi_select_all_even_disabled, ufi_select_dpu, ufi_select_dpu_even_disabled, Asked
  <2>2. Launching => Known
    BY <1>1, <2>1, KnownLaunching
  <2> QED
    BY <1>1, <1>7, <2>2, SelectsAims, SelectsLaunches, SelectsGroups DEF Ready
<1>8. CASE SendFrame \/ ufi_write_group
  BY <1>1, <1>8, SendAims, StepLaunches, OverGroups, WriteGroups DEF Ready
<1>9. CASE ufi_set_mram_mux
  BY <1>1, <1>9, SetMuxAims, SetMuxLaunches, SetMuxGroups DEF Ready
<1>10. CASE dpu_soft_reset
  BY <1>1, <1>10, SoftResetAims, StepLaunches, SoftResetGroups DEF Ready
<1>11. CASE dpu_switch_mux_for_rank \/ dpu_switch_mux_for_dpu_line \/ SwitchKeeping
  BY <1>1, <1>11, RequestsAims, SwitchRankLaunches, SwitchLineLaunches, SwitchGroups DEF Ready
<1>12. CASE ci_start_thread_rank
  BY <1>1, <1>12, RequestsAims, StartRankLaunches, StartRankGroups DEF Ready
<1>13. CASE Launched \/ Polled
  BY <1>1, <1>13, RequestsAims, LaunchedLaunches, StepLaunches, OverGroups DEF Ready
<1>14. CASE Disabled
  BY <1>1, <1>14, RequestsAims, StepLaunches, DisabledGroups DEF Ready
<1>15. CASE save_enabled_dpus
  BY <1>1, <1>15, SaveAims, StepLaunches, SaveGroups DEF Ready
<1>16. CASE dpu_init_groups \/ CiGroups
  BY <1>1, <1>16, RequestsAims, GroupsLaunches, InitGroupsGroups, CiGroupsGroups DEF Ready
<1>17. CASE RestoreEnabled
  BY <1>1, <1>17, RequestsAims, StepLaunches, RestoreGroups DEF Ready
<1>18. CASE Call
  BY <1>1, <1>18, CallAims, CallLaunches, CallGroups DEF Ready
<1> QED
  BY <1>2, <1>3, <1>4, <1>5, <1>6, <1>7, <1>8, <1>9, <1>10, <1>11, <1>12, <1>13, <1>14, <1>15, <1>16, <1>17, <1>18 DEF Next

LEMMA InitReady == Init => Ready
<1> SUFFICES ASSUME Init
             PROVE  Ready
  OBVIOUS
<1>1. /\ queue = <<>> /\ calls = Reset /\ cmds = [c \in Ci |-> Empty] /\ mux = [c \in Ci |-> {}]
      /\ \A c \in Ci : hw[c].pending = Empty
  BY DEF Init
<1>2. \A c \in Ci : Final(c) = Empty
  BY <1>1 DEF Final
<1>3. FinalAimed /\ MuxNext
  BY <1>2, WordFields DEF FinalAimed, MuxNext, Fit
<1>4. ResetStarts
  BY <1>1, ResetRest DEF ResetStarts
<1>5. Flight
  <2>1. Len(queue) = 0
    BY <1>1
  <2>2. Len(queue) # 2
    BY <2>1
  <2> QED
    BY <1>1, <2>2, PlainEmpty DEF Flight
<1>6. Exclusive
  BY <1>1 DEF Exclusive
<1>7. PICK s : s = calls
  OBVIOUS
<1>8. /\ Len(s) = 10 /\ s[1].r = "save" /\ s[2].r = "soft_reset" /\ s[3].r = "soft_reset" /\ s[4].r = "select_all"
      /\ s[5].r = "frame" /\ s[6].r = "frame" /\ s[7].r = "frame" /\ s[8].r = "switch_rank" /\ s[9].r = "init_groups"
      /\ s[10].r = "restore"
  <2>1. Selecting(Ci).r = "select_all" /\ Reading.r = "frame" /\ Reboot.r = "frame"
    BY ReqFields DEF Selecting, Reading, Reboot
  <2> QED
    BY <1>1, <1>7, <2>1, ReqFields DEF Reset
<1>9. \A j \in 1..10 : j \in {1, 2, 3, 4, 5, 6, 7, 8, 9, 10}
  OBVIOUS
<1>10. LaunchPlan /\ LaunchLast
  BY <1>7, <1>8, <1>9 DEF LaunchPlan, Launching, LaunchLast
<1>11. ~Giving
  <2>1. 9 \in 1..10
    OBVIOUS
  <2> QED
    BY <1>7, <1>8, <2>1 DEF Giving
<1>12. GroupsKnown /\ GroupsGiven
  BY <1>1, <1>11 DEF GroupsKnown, GroupsGiven, Early
<1>13. GivePlan
  BY <1>1, <1>11, ResetModest DEF Modest, GivePlan
<1> QED
  BY <1>3, <1>4, <1>5, <1>6, <1>10, <1>12, <1>13 DEF Ready, Aims, Launches, Grouped

(* What the boots rest on: as long as no command has failed, the last frame of
   every CI is aimed at the DPUs it is meant for, the requests of a launch take
   the MRAMs of its DPUs from the host before they boot them, and the group that
   a launch selects holds the enabled DPUs, through every reset of the rank and
   every DPU that is disabled. *)
THEOREM StaysReady == Spec => [](~lost => Ready)
<1>1. Init => Ready
  BY InitReady
<1>2. IInv /\ (~lost => Exact) /\ (~lost => RebootPlan) /\ (~lost => Replayable) /\ (~lost => Ready) /\ [Next]_vars => (~lost => Ready)'
  BY NextReady, LostStays
<1>3. Spec => []IInv
  BY Inductive
<1>4. Spec => [](~lost => Exact)
  BY StaysExact
<1>5. Spec => [](~lost => Replayable)
  BY StaysReplayable
<1>6. Spec => [](~lost => RebootPlan)
  BY StaysRebooting
<1> QED
  BY <1>1, <1>2, <1>3, <1>4, <1>5, <1>6, PTL DEF Spec

(* As long as no command has failed, a boot reaches the DPUs it is meant for,
   all the enabled ones or the one that is launched, and finds that the host has
   given up their MRAMs; the boots of a reset reach all the DPUs of the CIs; the
   host never takes the MRAM of a running DPU.  The
   frames say neither: the selection and the mux were left as they were on the
   word of the caches, by dpu_launch_thread_on_rank, ci_start_thread_dpu and
   dpu_switch_mux_for_rank. *)
THEOREM BootsReachTheirDpus == Spec => []BootsWithMram
<1>1. ASSUME IInv, ~lost => Exact, ~lost => Ready
      PROVE  BootsWithMram
  <2> SUFFICES ASSUME ~lost, NEW c \in Ci, hw[c].pending.k \in {"boot", "reboot", "mux"}
               PROVE  LET w == hw[c].pending IN
                      /\ w.k = "boot" => /\ hw[c].selected = (IF w.a = 0 THEN enabled[c] ELSE {w.a - 1})
                                         /\ hw[c].selected \cap hw[c].mux = {}
                      /\ w.k = "reboot" => hw[c].selected = Dpu
                      /\ (w.k = "mux" /\ w.a = 1) => hw[c].selected \cap running[c] = {}
    BY DEF BootsWithMram
  <2>1. PICK w : w = hw[c].pending
    OBVIOUS
  <2>2. w \in Words /\ hw[c] \in Device
    BY <1>1, <2>1 DEF IInv, CiType, Device
  <2>3. Exact /\ Aims
    BY <1>1 DEF Ready
  <2>4. w # Empty /\ ~Plain(w)
    BY <2>1, WordFields DEF Plain
  <2>5. queue = <<>> /\ w = cmds[c]
    BY <2>1, <2>3, <2>4 DEF Aims, Flight
  <2>6. wait.on
    BY <2>1, <2>3, <2>4 DEF Exact, QuietInv
  <2>7. calls # Reset1
    BY <2>3, <2>6 DEF Aims, ResetStarts
  <2>8. Fit(c, Reached(c), w)
    BY <2>3, <2>5, <2>7 DEF Aims, FinalAimed, Settled, Final
  <2>9. PICK x : x = State(hw[c])
    OBVIOUS
  <2>10. x.selected = hw[c].selected /\ x.mux = hw[c].mux /\ x \in Core
    BY <2>2, <2>9, StateCore DEF State
  <2>11. Reached(c) = Executed(x, w)
    BY <2>1, <2>9 DEF Reached
  <2>12. Executed(x, w).selected = x.selected /\ (w.k = "boot" => Executed(x, w).mux = x.mux)
    BY <2>1, <2>2, <2>10 DEF Executed, Core
  <2> QED
    BY <2>1, <2>8, <2>10, <2>11, <2>12 DEF Fit, Meant
<1>2. IInv /\ (~lost => Exact) /\ (~lost => Ready) => BootsWithMram
  BY <1>1
<1> QED
  BY <1>2, Inductive, StaysExact, StaysReady, PTL
=============================================================================
