------------------------------ MODULE CiProofs ------------------------------
(***************************************************************************)
(* Theorems about the protocol of the control interfaces (module           *)
(* ControlInterface), for every number of CIs and of DPUs, every profile,  *)
(* every sequence of calls and every number of errors: the colours and the *)
(* caches.                                                                 *)
(***************************************************************************)
EXTENDS ControlInterface, SequenceTheorems, TLAPS

(* The frames that requests send, and the words of commands. *)
FrameKind == {"select all", "select group", "select dpu", "write group", "mux", "clear", "read", "boot",
              "reboot"}
Frame == [k : FrameKind, a : Int]
Words == [k : FrameKind \cup {"empty", "structure", "reset"}, a : Int]

(* A request; the one for a frame holds that frame, which is none of those *)
(* that select or configure, the one for the groups of a CI the number of  *)
(* the CI.                                                                 *)
Payload == {w \in Frame : w.k \in {"read", "clear", "boot", "reboot"}}
RequestKind ==
    {"select_all", "select_all_even_disabled", "select_dpu", "select_dpu_even_disabled",
     "write_group", "frame", "set_mram_mux", "soft_reset", "switch_rank", "switch_line",
     "keep_line", "start_rank", "launched", "polled", "disabled", "save", "init_groups",
     "ci_groups", "restore"}
Request == {q \in [r : RequestKind, a : Int \cup Frame, cis : SUBSET Ci] :
               /\ IF q.r = "frame" THEN q.a \in Payload ELSE q.a \in Int
               /\ q.r = "ci_groups" => q.a \in Ci}

Cmd == [words : [Ci -> Words], shared : BOOLEAN]

Device == [color : {0, 1}, shown : 0..2, structure : Int, selected : SUBSET Int,
           group : [Dpu -> Int], mux : SUBSET Int, pending : Words]

Waiting == [in : SUBSET Ci, expect : [Ci -> {0, 1}], done : SUBSET Ci, tries : Int, on : BOOLEAN]

(* What is left of a reset before its two soft resets, and after them. *)
Reset1 == Tail(Reset)
Reset2 == Tail(Reset1)
Reset3 == Tail(Reset2)

Harmless == {q \in Request : q.r # "soft_reset"}

(* The types of what the colours depend on, and where a soft reset may     *)
(* come from.                                                              *)
CiType ==
    /\ color \in [Ci -> {0, 1}]
    /\ enabled \in [Ci -> SUBSET Dpu]
    /\ saved \in [Ci -> SUBSET Dpu]
    /\ cmds \in [Ci -> Words]
    /\ calls \in {Reset, Reset1, Reset2} \cup Seq(Harmless)
    /\ queue \in Seq(Cmd)
    /\ mask \in SUBSET Ci
    /\ wait \in Waiting
    /\ hw \in [Ci -> Device]

(* ci_reset_rank has saved the disabled DPUs before it resets the CIs. *)
SavedInv ==
    calls \in {Reset1, Reset2} => \A c \in Ci : enabled[c] = {} => saved[c] = {}

(* Host and CI agree on the colour of the next answer.  While the CI is    *)
(* waited for, the host is ahead until the CI has executed its word.       *)
InStep(c) ==
    IF wait.on /\ c \in wait.in
    THEN /\ color[c] = 1 - wait.expect[c]
         /\ \/ /\ hw[c].pending # Empty /\ c \notin wait.done
               /\ hw[c].color = wait.expect[c] /\ hw[c].shown # wait.expect[c]
            \/ /\ hw[c].pending = Empty
               /\ hw[c].color = 1 - wait.expect[c] /\ hw[c].shown = wait.expect[c]
    ELSE hw[c].pending = Empty /\ hw[c].color = color[c] /\ hw[c].shown # color[c]

(* A CI without DPUs that the reset has left alone: nothing is sent to it  *)
(* any more, so that its colour does not matter.                           *)
Dead(c) ==
    /\ enabled[c] = {} /\ saved[c] = {}
    /\ target[c] = Empty /\ cmds[c] = Empty
    /\ queue \in Seq({k \in Cmd : k.words[c] = Empty})
    /\ wait.on => c \notin wait.in
    /\ c \notin mask \/ calls \in {Reset2, Reset3}

StepInv == ~failed => \A c \in Ci : InStep(c) \/ Dead(c)

(* The strengthening that is inductive. *)
IInv == CiType /\ SavedInv /\ StepInv

-----------------------------------------------------------------------------

(* The structure of a frame is a number, so that it fits a word. *)
LEMMA FrameWords ==
    \A w \in Frame : w \in Words /\ Structure(w) \in Words
<1> SUFFICES ASSUME NEW w \in Frame
             PROVE  w \in Words /\ Structure(w) \in Words
  OBVIOUS
<1>1. StructureOf(w) \in Int
  <2>1. w.k \in {"select all", "read"} => StructureOf(w) = 1
    BY DEF StructureOf
  <2>2. w.k \in {"select group", "select dpu", "write group"} => StructureOf(w) = 2
    BY DEF StructureOf
  <2>3. w.k \in {"mux", "clear"} => StructureOf(w) = 3
    BY DEF StructureOf
  <2>4. w.k \in {"boot", "reboot"} => StructureOf(w) = 4
    BY DEF StructureOf
  <2>5. w.k \in FrameKind
    BY DEF Frame
  <2>6. StructureOf(w) \in {1, 2, 3, 4}
    BY <2>1, <2>2, <2>3, <2>4, <2>5 DEF FrameKind
  <2>7. QED
    BY <2>6
<1>2. QED
  BY <1>1 DEF Frame, FrameKind, Words, Structure, Word

LEMMA EmptyWord == Empty \in Words
  BY DEF Empty, Word, Words

LEMMA FrameWord ==
    \A a \in Int : /\ Word("read", a) \in Frame /\ Word("read", a) \in Payload
                  /\ Word("clear", a) \in Frame /\ Word("clear", a) \in Payload
                  /\ Word("boot", a) \in Frame /\ Word("boot", a) \in Payload
                  /\ Word("reboot", a) \in Frame /\ Word("reboot", a) \in Payload
<1>1. ASSUME NEW k \in {"read", "clear", "boot", "reboot"}, NEW a \in Int
      PROVE  Word(k, a) \in Frame /\ Word(k, a) \in Payload
  <2>1. k \in FrameKind
    BY DEF FrameKind
  <2>2. Word(k, a) \in Frame
    BY <2>1 DEF Word, Frame
  <2>3. Word(k, a).k = k
    BY DEF Word
  <2> QED
    BY <2>2, <2>3 DEF Payload
<1> QED
  BY <1>1

(* The requests of a reset, and what is left of it. *)
LEMMA ResetRest ==
    /\ Reset # <<>> /\ Reset1 # <<>> /\ Reset2 # <<>> /\ Reset3 # <<>>
    /\ Reset \in Seq(Request) /\ Reset1 \in Seq(Request) /\ Reset2 \in Seq(Request)
    /\ Head(Reset).r = "save" /\ Head(Reset1).r = "soft_reset"
    /\ Head(Reset2).r = "soft_reset" /\ Head(Reset3).r = "select_all"
    /\ Reset3 \in Seq(Harmless)
    /\ Reset1 # Reset2 /\ Reset \notin {Reset1, Reset2}
    /\ Reset1 \notin Seq(Harmless) /\ Reset2 \notin Seq(Harmless)
<1> DEFINE q1 == Req("save", 0, {})
           q2 == Req("soft_reset", 0, {})
           q4 == Selecting(Ci)
           q5 == Reading
           b == Reboot
           q6 == Req("switch_rank", 1, {})
           q7 == Req("init_groups", 0, {})
           q8 == Req("restore", 0, {})
<1>1. q1 \in Request /\ q1.r = "save"
  BY DEF Req, Request, RequestKind
<1>2. q2 \in Request /\ q2.r = "soft_reset"
  BY DEF Req, Request, RequestKind
<1>3. q4 \in Harmless /\ q4.r = "select_all"
  BY DEF Req, Selecting, Harmless, Request, RequestKind
<1>4. q5 \in Harmless /\ b \in Harmless
  <2>1. /\ Word("read", 0) \in Frame /\ Word("read", 0) \in Payload
        /\ Word("reboot", 0) \in Frame /\ Word("reboot", 0) \in Payload
    BY FrameWord
  <2>2. QED
    BY <2>1 DEF Req, Reading, Reboot, Harmless, Request, RequestKind
<1>5. q6 \in Harmless /\ q7 \in Harmless /\ q8 \in Harmless
  BY DEF Req, Harmless, Request, RequestKind
<1>6. Reset = <<q1, q2, q2, q4, q5, b, q5, q6, q7, q8>>
  BY DEF Reset
<1> HIDE DEF q1, q2, q4, q5, b, q6, q7, q8
<1>7. Reset1 = <<q2, q2, q4, q5, b, q5, q6, q7, q8>>
  BY <1>6 DEF Reset1
<1>8. Reset2 = <<q2, q4, q5, b, q5, q6, q7, q8>>
  BY <1>7 DEF Reset2
<1>9. Reset3 = <<q4, q5, b, q5, q6, q7, q8>>
  BY <1>8 DEF Reset3
<1>10. Harmless \subseteq Request
  BY DEF Harmless
<1>11. Reset \in Seq(Request) /\ Reset1 \in Seq(Request) /\ Reset2 \in Seq(Request)
  BY <1>1, <1>2, <1>3, <1>4, <1>5, <1>6, <1>7, <1>8, <1>10
<1>12. Reset3 \in Seq(Harmless)
  BY <1>3, <1>4, <1>5, <1>9
<1>13. Reset1 \notin Seq(Harmless) /\ Reset2 \notin Seq(Harmless)
  <2>1. q2 \notin Harmless
    BY <1>2 DEF Harmless
  <2>2. \A s \in Seq(Harmless) : s # <<>> => Head(s) \in Harmless
    OBVIOUS
  <2>3. QED
    BY <1>7, <1>8, <2>1, <2>2
<1>14. Len(Reset) = 10 /\ Len(Reset1) = 9 /\ Len(Reset2) = 8 /\ Len(Reset3) = 7
  BY <1>6, <1>7, <1>8, <1>9
<1>15. Head(Reset) = q1 /\ Head(Reset1) = q2 /\ Head(Reset2) = q2 /\ Head(Reset3) = q4
  BY <1>6, <1>7, <1>8, <1>9
<1>16. Reset # <<>> /\ Reset1 # <<>> /\ Reset2 # <<>> /\ Reset3 # <<>>
  BY <1>6, <1>7, <1>8, <1>9
<1>17. Reset1 # Reset2 /\ Reset # Reset1 /\ Reset # Reset2
  BY <1>14
<1>18. /\ Head(Reset).r = "save" /\ Head(Reset1).r = "soft_reset"
       /\ Head(Reset2).r = "soft_reset" /\ Head(Reset3).r = "select_all"
  BY <1>1, <1>2, <1>3, <1>15
<1>19. QED
  BY <1>11, <1>12, <1>13, <1>16, <1>17, <1>18

(* The requests a call has still to make, told from the next one. *)
LEMMA Plan ==
    ASSUME CiType, calls # <<>>
    PROVE  /\ Head(calls) \in Request
           /\ Head(calls).r = "soft_reset" =>
                 \/ calls = Reset1 /\ Tail(calls) = Reset2
                 \/ calls = Reset2 /\ Tail(calls) = Reset3
           /\ Head(calls).r = "save" => Tail(calls) = Reset1 \/ Tail(calls) \in Seq(Harmless)
           /\ Head(calls).r \notin {"save", "soft_reset"} => Tail(calls) \in Seq(Harmless)
           /\ calls \in {Reset2, Reset3} => Head(calls).r \in {"soft_reset", "select_all"}
<1>1. CASE calls \in {Reset, Reset1, Reset2}
  BY <1>1, ResetRest DEF Reset1, Reset2, Reset3
<1>2. CASE calls \in Seq(Harmless)
  <2>1. Head(calls) \in Harmless /\ Tail(calls) \in Seq(Harmless)
    BY <1>2
  <2>2. QED
    BY <2>1, ResetRest DEF Harmless
<1>3. QED
  BY <1>1, <1>2 DEF CiType

-----------------------------------------------------------------------------
(***************************************************************************)
(* The control interfaces and exec_cmd.                                    *)
(***************************************************************************)

(* A word leaves a CI a CI. *)
LEMMA ExecutedDevice ==
    ASSUME NEW h \in Device, NEW w \in Words
    PROVE  Executed(h, w) \in Device
<1> DEFINE g == [d \in Dpu |-> IF d \in h.selected THEN w.a ELSE h.group[d]]
<1>1. w.a \in Int /\ h.group \in [Dpu -> Int] /\ h.selected \in SUBSET Int /\ h.mux \in SUBSET Int
  BY DEF Words, Device
<1>2. Dpu \subseteq Int
  BY CiAssumption DEF Dpu
<1>3. g \in [Dpu -> Int]
  BY <1>1
<1>4. [h EXCEPT !.structure = w.a] \in Device
  BY <1>1 DEF Device
<1>5. \A S \in SUBSET Int : [h EXCEPT !.selected = S] \in Device /\ [h EXCEPT !.mux = S] \in Device
  BY DEF Device
<1>6. [h EXCEPT !.group = g] \in Device
  BY <1>3 DEF Device
<1>7. \/ Executed(h, w) = h
      \/ Executed(h, w) = [h EXCEPT !.structure = w.a]
      \/ Executed(h, w) = [h EXCEPT !.selected = Dpu]
      \/ Executed(h, w) = [h EXCEPT !.selected = {d \in Dpu : h.group[d] = w.a}]
      \/ Executed(h, w) = [h EXCEPT !.selected = {w.a}]
      \/ Executed(h, w) = [h EXCEPT !.group = g]
      \/ Executed(h, w) = [h EXCEPT !.mux = h.mux \cup h.selected]
      \/ Executed(h, w) = [h EXCEPT !.mux = h.mux \ h.selected]
  BY DEF Executed
<1>8. QED
  BY <1>1, <1>2, <1>4, <1>5, <1>6, <1>7

(* Dead does not depend on what a CI does. *)
LEMMA DeadSame ==
    ASSUME NEW c \in Ci, Dead(c),
           UNCHANGED <<enabled, saved, target, cmds, queue, wait, mask, calls>>
    PROVE  Dead(c)'
  BY DEF Dead

LEMMA ExecuteInv ==
    ASSUME IInv, NEW e \in Ci, Execute(e)
    PROVE  IInv'
<1> DEFINE h == Executed(hw[e], hw[e].pending)
<1> USE DEF IInv
<1>1. hw[e] \in Device /\ hw[e].pending \in Words
  BY DEF CiType, Device
<1>2. h \in Device
  BY <1>1, ExecutedDevice
<1>3. hw' = [hw EXCEPT ![e] = [h EXCEPT !.shown = hw[e].color, !.color = 1 - hw[e].color, !.pending = Empty]]
  BY DEF Execute
<1> HIDE DEF h
<1>4. hw[e].color \in 0..2 /\ 1 - hw[e].color \in {0, 1}
  <2>1. hw[e].color \in {0, 1}
    BY <1>1 DEF Device
  <2>2. QED
    BY <2>1
<1>5. [h EXCEPT !.shown = hw[e].color, !.color = 1 - hw[e].color, !.pending = Empty] \in Device
  <2>1. \A x \in 0..2, y \in {0, 1} : [h EXCEPT !.shown = x, !.color = y, !.pending = Empty] \in Device
    BY <1>2, EmptyWord DEF Device
  <2>2. QED
    BY <1>4, <2>1
<1>6. hw' \in [Ci -> Device]
  BY <1>3, <1>5 DEF CiType
<1>7. CiType' /\ SavedInv'
  BY <1>6 DEF Execute, CiType, SavedInv, caches, config, engine, count
<1>8. /\ hw'[e].pending = Empty /\ hw'[e].color = 1 - hw[e].color /\ hw'[e].shown = hw[e].color
      /\ \A c \in Ci : c # e => hw'[c] = hw[c]
  BY <1>2, <1>3 DEF CiType, Device
<1>9. StepInv'
  <2> SUFFICES ASSUME ~failed, NEW c \in Ci
               PROVE  InStep(c)' \/ Dead(c)'
    BY DEF Execute, StepInv, count
  <2>1. CASE Dead(c)
    BY <2>1, DeadSame DEF Execute, caches, config, engine
  <2>2. CASE InStep(c) /\ c # e
    BY <1>8, <2>2 DEF InStep, Execute, engine
  <2>3. CASE InStep(c) /\ c = e
    <3>1. wait.on /\ c \in wait.in /\ wait' = wait /\ color' = color /\ hw[e].pending # Empty
      BY <2>3 DEF InStep, Execute, engine
    <3>2. QED
      BY <1>8, <2>3, <3>1 DEF InStep
  <2>4. QED
    BY <2>1, <2>2, <2>3 DEF StepInv
<1>10. QED
  BY <1>7, <1>9

(* After an error nothing is claimed until the next soft reset. *)
LEMMA FailsInv ==
    ASSUME IInv, Fails, UNCHANGED config,
           color' \in [Ci -> {0, 1}], cmds' \in [Ci -> Words], hw' \in [Ci -> Device]
    PROVE  IInv'
<1>1. Idle \in Waiting
  BY DEF Idle, Waiting
<1>2. calls' = <<>> /\ queue' = <<>> /\ wait' = Idle /\ mask' = mask /\ failed'
  BY DEF Fails
<1>3. calls' \in Seq(Harmless) /\ queue' \in Seq(Cmd)
  BY <1>2
<1>4. CiType'
  BY <1>1, <1>2, <1>3 DEF IInv, CiType, config
<1>5. SavedInv' /\ StepInv'
  BY <1>2, ResetRest DEF SavedInv, StepInv
<1>6. QED
  BY <1>4, <1>5 DEF IInv

(* A command goes to CIs that are in step, and is answered in the colour   *)
(* that is expected.                                                       *)
LEMMA CommitInv ==
    ASSUME IInv, Commit
    PROVE  IInv'
<1> DEFINE words == Head(queue).words
           m == CisOf(words)
<1>1. /\ queue # <<>> /\ ~wait.on /\ color' = Inverted(m) /\ UNCHANGED <<caches, config>>
      /\ cmds' = IF Head(queue).shared THEN words ELSE cmds
  BY DEF Commit
<1>2. Head(queue) \in Cmd /\ Tail(queue) \in Seq(Cmd)
  BY <1>1 DEF IInv, CiType
<1>3. words \in [Ci -> Words] /\ m \in SUBSET Ci
  BY <1>2 DEF Cmd, CisOf
<1>4. color' \in [Ci -> {0, 1}] /\ cmds' \in [Ci -> Words]
  <2>1. \A c \in Ci : 1 - color[c] \in {0, 1}
    BY DEF IInv, CiType
  <2>2. QED
    BY <1>1, <1>3, <2>1 DEF Inverted, IInv, CiType
<1>5. \A got \in SUBSET Ci : Received(got, words) \in [Ci -> Device]
  <2>1. \A c \in Ci, w \in Words : [hw[c] EXCEPT !.pending = w] \in Device
    BY DEF IInv, CiType, Device
  <2>2. QED
    BY <1>3, <2>1 DEF Received, IInv, CiType
<1>6. ASSUME NEW got \in SUBSET m, hw' = Received(got, words), Fails
      PROVE  IInv'
  BY <1>1, <1>3, <1>4, <1>5, <1>6, FailsInv
<1>7. ASSUME hw' = Received(m, words), queue' = Tail(queue), UNCHANGED <<calls, mask, count>>,
             wait' = [in |-> m, expect |-> color, done |-> {}, tries |-> 0, on |-> TRUE]
      PROVE  IInv'
  <2>1. wait' \in Waiting /\ wait'.on /\ wait'.in = m /\ wait'.expect = color /\ wait'.done = {}
    BY <1>3, <1>7 DEF IInv, CiType, Waiting
  <2>2. hw' \in [Ci -> Device]
    BY <1>3, <1>5, <1>7
  <2>3. CiType' /\ SavedInv'
    BY <1>1, <1>2, <1>4, <1>7, <2>1, <2>2 DEF IInv, CiType, SavedInv, config
  <2>4. ASSUME NEW c \in Ci, InStep(c), c \in m
        PROVE  InStep(c)'
    <3>1. words[c] # Empty
      BY <2>4 DEF CisOf
    <3>2. hw[c].color = color[c] /\ hw[c].shown # color[c]
      BY <1>1, <2>4 DEF InStep
    <3>3. hw'[c].pending = words[c] /\ hw'[c].color = hw[c].color /\ hw'[c].shown = hw[c].shown
      BY <1>7, <2>4 DEF Received, IInv, CiType, Device
    <3>4. color'[c] = 1 - color[c]
      BY <1>1, <2>4 DEF Inverted
    <3>5. QED
      BY <2>1, <2>4, <3>1, <3>2, <3>3, <3>4 DEF InStep
  <2>5. ASSUME NEW c \in Ci, InStep(c), c \notin m
        PROVE  InStep(c)'
    <3>1. hw'[c] = hw[c] /\ color'[c] = color[c]
      BY <1>1, <1>7, <2>5 DEF Received, Inverted
    <3>2. QED
      BY <1>1, <2>1, <2>5, <3>1 DEF InStep
  <2>6. ASSUME NEW c \in Ci, Dead(c)
        PROVE  Dead(c)'
    <3>1. Head(queue).words[c] = Empty /\ Tail(queue) \in Seq({k \in Cmd : k.words[c] = Empty})
      BY <1>1, <2>6 DEF Dead
    <3>2. c \notin m
      BY <3>1 DEF CisOf
    <3>3. QED
      BY <1>1, <1>7, <2>1, <2>6, <3>1, <3>2 DEF Dead, caches, config
  <2>7. StepInv'
    BY <1>7, <2>4, <2>5, <2>6 DEF IInv, StepInv, count
  <2>8. QED
    BY <2>3, <2>7 DEF IInv
<1>8. QED
  BY <1>6, <1>7 DEF Commit

(* The results are read; a command is over when each CI has answered.      *)
LEMMA UpdateInv ==
    ASSUME IInv, Update
    PROVE  IInv'
<1>1. wait.on /\ UNCHANGED <<color, caches, config, cmds, hw>>
  BY DEF Update
<1>2. CASE Fails
  BY <1>1, <1>2, FailsInv DEF IInv, CiType
<1>3. CASE wait' = [wait EXCEPT !.done = Answered, !.tries = @ + 1] /\ UNCHANGED <<calls, queue, mask, count>>
  <2>1. wait' \in Waiting /\ wait'.on = wait.on /\ wait'.in = wait.in /\ wait'.expect = wait.expect
        /\ wait'.done = Answered
    <3>1. Answered \in SUBSET Ci /\ wait.tries + 1 \in Int
      BY DEF IInv, CiType, Waiting, Answered
    <3>2. QED
      BY <1>3, <3>1 DEF IInv, CiType, Waiting
  <2>2. \A c \in Ci : (InStep(c) => InStep(c)') /\ (Dead(c) => Dead(c)')
    BY <1>1, <1>3, <2>1 DEF InStep, Dead, Answered, caches, config
  <2>3. QED
    BY <1>1, <1>3, <2>1, <2>2 DEF IInv, CiType, SavedInv, StepInv, config, count
<1>4. CASE Answered = wait.in /\ wait' = Idle /\ UNCHANGED <<calls, queue, mask, count>>
  <2>1. wait' \in Waiting /\ ~wait'.on
    BY <1>4 DEF Idle, Waiting
  <2>2. ASSUME NEW c \in Ci, ~failed, InStep(c)
        PROVE  InStep(c)'
    <3>1. CASE c \notin wait.in
      BY <1>1, <2>1, <2>2, <3>1 DEF InStep
    <3>2. CASE c \in wait.in
      <4>1. c \in Answered
        BY <1>4, <3>2
      <4>2. hw[c].pending = Empty /\ hw[c].color = color[c] /\ hw[c].shown = wait.expect[c]
        BY <1>1, <2>2, <3>2, <4>1 DEF InStep, Answered
      <4>3. wait.expect[c] \in {0, 1} /\ color[c] = 1 - wait.expect[c]
        BY <1>1, <2>2, <3>2 DEF InStep, IInv, CiType, Waiting
      <4>4. QED
        BY <1>1, <2>1, <4>2, <4>3 DEF InStep
    <3>3. QED
      BY <3>1, <3>2
  <2>3. \A c \in Ci : Dead(c) => Dead(c)'
    BY <1>1, <1>4, <2>1 DEF Dead, caches, config
  <2>4. QED
    BY <1>1, <1>4, <2>1, <2>2, <2>3 DEF IInv, CiType, SavedInv, StepInv, config, count
<1>5. QED
  BY <1>2, <1>3, <1>4 DEF Update

-----------------------------------------------------------------------------
(***************************************************************************)
(* Requests.                                                               *)
(***************************************************************************)

(* A request that sends nothing, and does not enable a CI that the reset   *)
(* has left alone.                                                         *)
LEMMA PlainInv ==
    ASSUME IInv, UNCHANGED <<wait, color, failed, hw, queue, mask, cmds, target>>,
           calls = <<>> \/ Head(calls).r \notin {"soft_reset", "select_all"},
           calls' \in Seq(Harmless) \cup {Reset},
           enabled' \in [Ci -> SUBSET Dpu], saved' \in [Ci -> SUBSET Dpu],
           \A c \in Ci : enabled[c] = {} /\ saved[c] = {} => enabled'[c] = {} /\ saved'[c] = {}
    PROVE  IInv'
<1>1. CiType'
  BY DEF IInv, CiType
<1>2. SavedInv'
  BY ResetRest DEF SavedInv
<1>3. calls \notin {Reset2, Reset3}
  BY Plan, ResetRest DEF IInv
<1>4. \A c \in Ci : (InStep(c) => InStep(c)') /\ (Dead(c) => Dead(c)')
  BY <1>3 DEF InStep, Dead
<1>5. QED
  BY <1>1, <1>2, <1>4 DEF IInv, StepInv

(* A request that sends commands, none of them to a CI that was left alone. *)
LEMMA CommandInv ==
    ASSUME IInv, UNCHANGED <<wait, color, failed, hw, enabled, saved>>,
           calls' \in Seq(Harmless), queue' \in Seq(Cmd), cmds' \in [Ci -> Words], mask' \in SUBSET Ci,
           \A c \in Ci : Dead(c) =>
              /\ target'[c] = Empty /\ cmds'[c] = Empty /\ c \notin mask'
              /\ queue' \in Seq({k \in Cmd : k.words[c] = Empty})
    PROVE  IInv'
<1>1. CiType'
  BY DEF IInv, CiType
<1>2. SavedInv'
  BY ResetRest DEF SavedInv
<1>3. \A c \in Ci : (InStep(c) => InStep(c)') /\ (Dead(c) => Dead(c)')
  BY DEF InStep, Dead
<1>4. QED
  BY <1>1, <1>2, <1>3 DEF IInv, StepInv

(* The requests that are left after one that makes others. *)
LEMMA Proceeding ==
    ASSUME IInv, NEW more \in Seq(Harmless), Proceed(more), calls # <<>>,
           Head(calls).r \notin {"save", "soft_reset"}
    PROVE  calls' \in Seq(Harmless) /\ UNCHANGED <<wait, color, failed, hw>>
<1>1. Tail(calls) \in Seq(Harmless)
  BY Plan DEF IInv
<1>2. QED
  BY <1>1 DEF Proceed, count

(* The words of a command to the CIs of m. *)
LEMMA PreparedWords ==
    ASSUME NEW m \in SUBSET Ci, NEW w \in Words, NEW b \in BOOLEAN
    PROVE  /\ Command(Prepared(m, w), b) \in Cmd
           /\ \A c \in Ci : c \notin m => Command(Prepared(m, w), b).words[c] = Empty
  BY EmptyWord DEF Prepared, Command, Cmd

(* A structure, if it is needed, and a frame. *)
LEMMA OneOrTwo ==
    ASSUME NEW S, NEW s \in S, NEW f \in S, NEW b \in BOOLEAN
    PROVE  If(b, <<s>>) \o <<f>> \in Seq(S)
<1>1. <<s>> \in Seq(S) /\ <<f>> \in Seq(S) /\ <<>> \in Seq(S)
  OBVIOUS
<1>2. If(b, <<s>>) \in Seq(S)
  BY <1>1 DEF If
<1>3. QED
  BY <1>1, <1>2, ConcatProperties

(* UFI_exec_void_frame sends nothing outside its mask. *)
LEMMA VoidFrameQueue ==
    ASSUME NEW m \in SUBSET Ci, NEW w \in Frame, VoidFrame(m, w)
    PROVE  /\ queue' \in Seq(Cmd)
           /\ \A c \in Ci : c \notin m => queue' \in Seq({k \in Cmd : k.words[c] = Empty})
<1> DEFINE s == Command(Prepared(m, Structure(w)), TRUE)
           f == Command(Prepared(m, w), TRUE)
<1>1. w \in Words /\ Structure(w) \in Words
  BY FrameWords
<1>2. s \in Cmd /\ f \in Cmd /\ \A c \in Ci : c \notin m => s.words[c] = Empty /\ f.words[c] = Empty
  BY <1>1, PreparedWords
<1>3. PICK b \in BOOLEAN : queue' = If(b, <<s>>) \o <<f>>
  BY DEF VoidFrame
<1> HIDE DEF s, f
<1>4. ASSUME NEW S, s \in S, f \in S
      PROVE  queue' \in Seq(S)
  BY <1>3, <1>4, OneOrTwo
<1>5. QED
  BY <1>2, <1>4

(* UFI_exec_void_frames sends nothing but the words of rank->cmds to the   *)
(* other CIs.                                                              *)
LEMMA VoidFramesQueue ==
    ASSUME CiType, NEW do \in SUBSET Ci, NEW want \in [Ci -> Frame], VoidFrames(do, want)
    PROVE  /\ queue' \in Seq(Cmd) /\ cmds' \in [Ci -> Words]
           /\ \A c \in Ci : c \notin do /\ cmds[c] = Empty =>
                 cmds'[c] = Empty /\ queue' \in Seq({k \in Cmd : k.words[c] = Empty})
<1> DEFINE frames == [c \in Ci |-> IF c \in do THEN want[c] ELSE cmds[c]]
           structs == [c \in Ci |-> IF c \in do THEN Structure(want[c]) ELSE Empty]
           s == Command(structs, FALSE)
           f == Command(frames, TRUE)
<1>1. \A c \in Ci : want[c] \in Words /\ Structure(want[c]) \in Words
  BY FrameWords
<1>2. frames \in [Ci -> Words] /\ structs \in [Ci -> Words]
  BY <1>1, EmptyWord DEF CiType
<1>3. cmds' = frames
  BY DEF VoidFrames
<1>4. PICK b \in BOOLEAN : queue' = If(b, <<s>>) \o <<f>>
  BY DEF VoidFrames
<1>5. s \in Cmd /\ f \in Cmd
  BY <1>2 DEF Command, Cmd
<1>6. \A c \in Ci : c \notin do /\ cmds[c] = Empty => s.words[c] = Empty /\ f.words[c] = Empty
  BY DEF Command
<1> HIDE DEF s, f
<1>7. ASSUME NEW S, s \in S, f \in S
      PROVE  queue' \in Seq(S)
  BY <1>4, <1>7, OneOrTwo
<1>8. QED
  BY <1>2, <1>3, <1>5, <1>6, <1>7

(* A CI that was left alone is not in the mask of the last selection. *)
LEMMA DeadMask ==
    ASSUME IInv, calls # <<>>, Head(calls).r \notin {"soft_reset", "select_all"}, NEW c \in Ci, Dead(c)
    PROVE  c \notin mask
  BY Plan DEF IInv, Dead

(* The selections of whole CIs. *)
LEMMA SelectInv ==
    ASSUME IInv, calls # <<>>, Head(calls).r \notin {"save", "soft_reset"},
           NEW m \in SUBSET Ci, NEW want \in [Ci -> Frame], Select(m, want),
           \A c \in Ci : Dead(c) => c \notin m
    PROVE  IInv'
<1> DEFINE do == {c \in m : target[c] # want[c]}
<1>1. /\ mask' = m /\ target' = [c \in Ci |-> IF c \in do THEN want[c] ELSE target[c]]
      /\ Proceed(<<>>) /\ UNCHANGED <<enabled, saved>>
      /\ IF do = {} THEN UNCHANGED <<queue, cmds>> ELSE VoidFrames(do, want)
  BY DEF Select, config
<1>2. calls' \in Seq(Harmless) /\ UNCHANGED <<wait, color, failed, hw>>
  <2>1. <<>> \in Seq(Harmless)
    OBVIOUS
  <2>2. QED
    BY <1>1, <2>1, Proceeding
<1>3. /\ queue' \in Seq(Cmd) /\ cmds' \in [Ci -> Words]
      /\ \A c \in Ci : Dead(c) => cmds'[c] = Empty /\ queue' \in Seq({k \in Cmd : k.words[c] = Empty})
  <2>1. CASE do = {}
    BY <1>1, <2>1 DEF Dead, IInv, CiType
  <2>2. CASE do # {}
    <3>1. do \in SUBSET Ci /\ VoidFrames(do, want)
      BY <1>1, <2>2
    <3>2. \A c \in Ci : Dead(c) => c \notin do /\ cmds[c] = Empty
      BY DEF Dead
    <3>3. QED
      BY <3>1, <3>2, VoidFramesQueue DEF IInv
  <2>3. QED
    BY <2>1, <2>2
<1>4. \A c \in Ci : Dead(c) => target'[c] = Empty /\ c \notin mask'
  BY <1>1 DEF Dead
<1>5. QED
  BY <1>1, <1>2, <1>3, <1>4, CommandInv

(* The words that the requests send. *)
LEMMA Frames ==
    /\ SelectAll \in Frame /\ SelectGroup \in Frame
    /\ \A a \in Int : /\ Word("select dpu", a) \in Frame /\ Word("write group", a) \in Frame
                      /\ Word("read", a) \in Frame /\ Word("boot", a) \in Frame
  BY DEF SelectAll, SelectGroup, EnabledGroup, Word, Frame, FrameKind

LEMMA SelectAllInv ==
    ASSUME IInv, ufi_select_all
    PROVE  IInv'
<1> DEFINE want == [c \in Ci |-> IF enabled[c] = Dpu THEN SelectAll ELSE SelectGroup]
           m == {c \in Head(calls).cis : enabled[c] # {} \/ target[c] = want[c]}
<1>1. calls # <<>> /\ Head(calls).r = "select_all" /\ Select(m, want)
  BY DEF ufi_select_all, Asked
<1>2. Head(calls).cis \in SUBSET Ci
  BY <1>1, Plan DEF IInv, Request
<1>3. m \in SUBSET Ci /\ want \in [Ci -> Frame]
  BY <1>2, Frames
<1>4. \A c \in Ci : want[c] # Empty
  BY DEF SelectAll, SelectGroup, Empty, Word
<1>5. \A c \in Ci : Dead(c) => c \notin m
  BY <1>2, <1>4 DEF Dead
<1>6. QED
  BY <1>1, <1>3, <1>5, SelectInv

LEMMA SelectAllEvenInv ==
    ASSUME IInv, ufi_select_all_even_disabled
    PROVE  IInv'
<1> DEFINE want == [c \in Ci |-> SelectAll]
           m == {c \in Ci : enabled[c] # {}}
<1>1. calls # <<>> /\ Head(calls).r = "select_all_even_disabled" /\ Select(m, want)
  BY DEF ufi_select_all_even_disabled, Asked
<1>2. m \in SUBSET Ci /\ want \in [Ci -> Frame]
  BY Frames
<1>3. \A c \in Ci : Dead(c) => c \notin m
  BY DEF Dead
<1>4. QED
  BY <1>1, <1>2, <1>3, SelectInv

(* The selections of one DPU. *)
LEMMA SelectDpuInv ==
    ASSUME IInv, calls # <<>>, Head(calls).r \notin {"save", "soft_reset"},
           NEW m \in SUBSET Ci, NEW w \in Frame, SelectDpu(m, w),
           \A c \in Ci : Dead(c) => c \notin m
    PROVE  IInv'
<1>1. /\ mask' = m /\ target' = [c \in Ci |-> IF c \in m THEN w ELSE target[c]]
      /\ Proceed(<<>>) /\ UNCHANGED <<enabled, saved, cmds>>
      /\ VoidFrame(m, w) \/ queue' = queue
  BY DEF SelectDpu, config
<1>2. calls' \in Seq(Harmless) /\ UNCHANGED <<wait, color, failed, hw>>
  <2>1. <<>> \in Seq(Harmless)
    OBVIOUS
  <2>2. QED
    BY <1>1, <2>1, Proceeding
<1>3. /\ queue' \in Seq(Cmd)
      /\ \A c \in Ci : Dead(c) => queue' \in Seq({k \in Cmd : k.words[c] = Empty})
  <2>1. CASE VoidFrame(m, w)
    BY <2>1, VoidFrameQueue
  <2>2. CASE queue' = queue
    BY <2>2 DEF Dead, IInv, CiType
  <2>3. QED
    BY <1>1, <2>1, <2>2
<1>4. \A c \in Ci : Dead(c) => target'[c] = Empty /\ c \notin mask' /\ cmds'[c] = Empty
  BY <1>1 DEF Dead
<1>5. cmds' \in [Ci -> Words]
  BY <1>1 DEF IInv, CiType
<1>6. QED
  BY <1>1, <1>2, <1>3, <1>4, <1>5, CommandInv

LEMMA SelectOneInv ==
    ASSUME IInv, ufi_select_dpu \/ ufi_select_dpu_even_disabled
    PROVE  IInv'
<1> DEFINE d == Head(calls).a
           one == {c \in Head(calls).cis : d \in enabled[c]}
           any == {c \in Ci : enabled[c] # {}}
<1>1. /\ calls # <<>> /\ Head(calls).r \in {"select_dpu", "select_dpu_even_disabled"}
      /\ SelectDpu(one, Word("select dpu", d)) \/ SelectDpu(any, Word("select dpu", d))
  BY DEF ufi_select_dpu, ufi_select_dpu_even_disabled, Asked
<1>2. d \in Int /\ Head(calls).cis \in SUBSET Ci
  BY <1>1, Plan DEF IInv, Request
<1>3. one \in SUBSET Ci /\ any \in SUBSET Ci /\ Word("select dpu", d) \in Frame
  BY <1>2, Frames
<1>4. \A c \in Ci : Dead(c) => c \notin one /\ c \notin any
  BY DEF Dead
<1>5. QED
  BY <1>1, <1>3, <1>4, SelectDpuInv

(* A frame for the CIs of the last selection. *)
LEMMA MaskFrameInv ==
    ASSUME IInv, calls # <<>>, Head(calls).r \in {"write_group", "frame"},
           NEW w \in Frame, VoidFrame(mask, w), Proceed(<<>>),
           UNCHANGED <<mask, target, cmds, enabled, saved>>
    PROVE  IInv'
<1>1. calls' \in Seq(Harmless) /\ UNCHANGED <<wait, color, failed, hw>>
  <2>1. <<>> \in Seq(Harmless)
    OBVIOUS
  <2>2. QED
    BY <2>1, Proceeding
<1>2. mask \in SUBSET Ci /\ cmds' \in [Ci -> Words]
  BY DEF IInv, CiType
<1>3. \A c \in Ci : Dead(c) => c \notin mask
  BY DeadMask
<1>4. /\ queue' \in Seq(Cmd)
      /\ \A c \in Ci : Dead(c) => queue' \in Seq({k \in Cmd : k.words[c] = Empty})
  BY <1>2, <1>3, VoidFrameQueue
<1>5. \A c \in Ci : Dead(c) => target'[c] = Empty /\ cmds'[c] = Empty
  BY DEF Dead
<1>6. QED
  BY <1>1, <1>2, <1>3, <1>4, <1>5, CommandInv

LEMMA FrameInv ==
    ASSUME IInv, ufi_write_group \/ SendFrame
    PROVE  IInv'
<1> DEFINE a == Head(calls).a
<1>1. CASE ufi_write_group
  <2>1. calls # <<>> /\ Head(calls).r = "write_group" /\ VoidFrame(mask, Word("write group", a)) /\ Proceed(<<>>)
        /\ UNCHANGED <<mask, target, cmds, enabled, saved>>
    BY <1>1 DEF ufi_write_group, Asked, config
  <2>2. a \in Int
    BY <2>1, Plan DEF IInv, Request
  <2>3. QED
    BY <2>1, <2>2, Frames, MaskFrameInv
<1>2. CASE SendFrame
  <2>1. calls # <<>> /\ Head(calls).r = "frame" /\ VoidFrame(mask, a) /\ Proceed(<<>>)
        /\ UNCHANGED <<mask, target, cmds, enabled, saved>>
    BY <1>2 DEF SendFrame, Asked, config
  <2>2. a \in Frame
    BY <2>1, Plan DEF IInv, Request, Payload
  <2>3. QED
    BY <2>1, <2>2, MaskFrameInv
<1>3. QED
  BY <1>1, <1>2

(* ufi_set_mram_mux sends the words of the last command again to the CIs   *)
(* that are not in its mask.                                               *)
LEMMA SetMuxInv ==
    ASSUME IInv, ufi_set_mram_mux
    PROVE  IInv'
<1> DEFINE w == [c \in mask |-> Word("mux", IF c \in Head(calls).cis THEN 1 ELSE 0)]
           write == Differing(mask, w) # {}
           words == [c \in Ci |-> IF c \in mask THEN w[c] ELSE IF write THEN Empty ELSE cmds[c]]
           s == Command(Prepared(mask, Word("structure", 3)), TRUE)
           f == Command(words, TRUE)
           more == <<Req("frame", Word("clear", 0), {})>>
<1>1. /\ calls # <<>> /\ Head(calls).r = "set_mram_mux"
      /\ queue' = If(write, <<s>>) \o <<f>>
      /\ Proceed(more) /\ UNCHANGED <<mask, target, cmds, enabled, saved>>
  BY DEF ufi_set_mram_mux, Asked, config
<1>2. Req("frame", Word("clear", 0), {}) \in Harmless
  <2>1. Word("clear", 0) \in Frame /\ Word("clear", 0) \in Payload
    BY FrameWord
  <2>2. QED
    BY <2>1 DEF Req, Harmless, Request, RequestKind
<1>3. calls' \in Seq(Harmless) /\ UNCHANGED <<wait, color, failed, hw>>
  <2>1. more \in Seq(Harmless)
    BY <1>2
  <2>2. QED
    BY <1>1, <2>1, Proceeding
<1>4. mask \in SUBSET Ci /\ cmds' \in [Ci -> Words] /\ cmds \in [Ci -> Words]
  BY <1>1 DEF IInv, CiType
<1>5. \A c \in Ci : Dead(c) => c \notin mask /\ cmds[c] = Empty
  BY <1>1, DeadMask DEF Dead
<1>6. words \in [Ci -> Words]
  <2>1. \A c \in mask : w[c] \in Words
    <3>1. Word("mux", 0) \in Words /\ Word("mux", 1) \in Words
      BY DEF Word, Words, FrameKind
    <3>2. QED
      BY <3>1
  <2>2. QED
    BY <1>4, <2>1, EmptyWord
<1>7. \A c \in Ci : Dead(c) => words[c] = Empty
  BY <1>5
<1> HIDE DEF words, write, w
<1>8. f \in Cmd /\ \A c \in Ci : Dead(c) => f.words[c] = Empty
  BY <1>6, <1>7 DEF Command, Cmd
<1>9. s \in Cmd /\ \A c \in Ci : Dead(c) => s.words[c] = Empty
  <2>1. Word("structure", 3) \in Words
    BY DEF Word, Words
  <2>2. QED
    BY <1>4, <1>5, <2>1, PreparedWords
<1>10. write \in BOOLEAN
  BY DEF write
<1> HIDE DEF s, f, more
<1>11. ASSUME NEW S, s \in S, f \in S
      PROVE  queue' \in Seq(S)
  BY <1>1, <1>10, <1>11, OneOrTwo
<1>12. /\ queue' \in Seq(Cmd)
       /\ \A c \in Ci : Dead(c) => queue' \in Seq({k \in Cmd : k.words[c] = Empty})
  BY <1>8, <1>9, <1>11
<1>13. \A c \in Ci : Dead(c) => target'[c] = Empty /\ cmds'[c] = Empty /\ c \notin mask'
  BY <1>1, <1>5 DEF Dead
<1>14. QED
  BY <1>1, <1>3, <1>4, <1>12, <1>13, CommandInv

(* A soft reset puts every CI that has DPUs in step, and leaves the others *)
(* alone for good.                                                         *)
LEMMA SoftResetInv ==
    ASSUME IInv, dpu_soft_reset
    PROVE  IInv'
<1> DEFINE m == {c \in Ci : enabled[c] # {}}
<1>1. /\ calls # <<>> /\ queue = <<>> /\ ~wait.on /\ Head(calls).r = "soft_reset" /\ calls' = Tail(calls)
      /\ cmds' = Prepared(m, Word("reset", 0))
      /\ UNCHANGED <<enabled, saved, queue, mask, wait>>
  BY DEF dpu_soft_reset, Asked, config
<1>2. calls \in {Reset1, Reset2} /\ calls' \in {Reset2, Reset3}
  BY <1>1, Plan DEF IInv
<1>3. cmds' \in [Ci -> Words] /\ \A c \in Ci : c \notin m => cmds'[c] = Empty
  <2>1. Word("reset", 0) \in Words
    BY DEF Word, Words
  <2>2. QED
    BY <1>1, <2>1, EmptyWord DEF Prepared
<1>4. \A got \in SUBSET m : [c \in Ci |-> IF c \in got THEN ResetHw(hw[c]) ELSE hw[c]] \in [Ci -> Device]
  <2>1. \A c \in Ci : ResetHw(hw[c]) \in Device
    <3> SUFFICES ASSUME NEW c \in Ci
                 PROVE  ResetHw(hw[c]) \in Device
      OBVIOUS
    <3>1. [d \in Dpu |-> 0] \in [Dpu -> Int] /\ {} \in SUBSET Int
      OBVIOUS
    <3>2. hw[c] \in Device
      BY DEF IInv, CiType
    <3>3. \A h \in Device, x \in {0, 1}, y \in 0..2, S \in SUBSET Int, g \in [Dpu -> Int] :
             [h EXCEPT !.color = x, !.shown = y, !.selected = S, !.pending = Empty, !.group = g] \in Device
      BY EmptyWord DEF Device
    <3>4. 0 \in {0, 1} /\ 2 \in 0..2
      OBVIOUS
    <3>5. QED
      BY <3>1, <3>2, <3>3, <3>4 DEF ResetHw
  <2>2. QED
    BY <2>1 DEF IInv, CiType
<1>5. color' \in [Ci -> {0, 1}] /\ hw' \in [Ci -> Device]
  <2>1. \A c \in Ci : color[c] \in {0, 1} /\ 1 - color[c] \in {0, 1}
    BY DEF IInv, CiType
  <2>2. Inverted(m) \in [Ci -> {0, 1}] /\ [c \in Ci |-> IF c \in m THEN 0 ELSE color[c]] \in [Ci -> {0, 1}]
    BY <2>1 DEF Inverted
  <2>3. PICK got \in SUBSET m : hw' = [c \in Ci |-> IF c \in got THEN ResetHw(hw[c]) ELSE hw[c]]
    BY DEF dpu_soft_reset
  <2>4. color' = Inverted(m) \/ color' = [c \in Ci |-> IF c \in m THEN 0 ELSE color[c]]
    BY DEF dpu_soft_reset
  <2>5. hw' \in [Ci -> Device]
    BY <1>4, <2>3
  <2>6. QED
    BY <2>2, <2>4, <2>5
<1>6. CiType'
  BY <1>1, <1>2, <1>3, <1>5, ResetRest DEF IInv, CiType
<1>7. SavedInv'
  BY <1>1, <1>2 DEF IInv, SavedInv
<1>8. StepInv'
  <2> SUFFICES ASSUME ~failed', NEW c \in Ci
               PROVE  InStep(c)' \/ Dead(c)'
    BY DEF StepInv
  <2>1. /\ hw' = [e \in Ci |-> IF e \in m THEN ResetHw(hw[e]) ELSE hw[e]]
        /\ color' = [e \in Ci |-> IF e \in m THEN 0 ELSE color[e]]
        /\ target' = [e \in Ci |-> Empty]
    BY DEF dpu_soft_reset
  <2>2. CASE c \in m
    <3>1. hw'[c].color = 0 /\ hw'[c].shown = 2 /\ hw'[c].pending = Empty
      <4>1. hw[c] \in Device /\ hw'[c] = ResetHw(hw[c])
        BY <2>1, <2>2 DEF IInv, CiType
      <4>2. QED
        BY <4>1 DEF ResetHw, Device
    <3>2. color'[c] = 0
      BY <2>1, <2>2
    <3>3. QED
      BY <1>1, <3>1, <3>2 DEF InStep
  <2>3. CASE c \notin m
    <3>1. enabled'[c] = {} /\ saved'[c] = {}
      BY <1>1, <1>2, <2>3 DEF IInv, SavedInv
    <3>2. target'[c] = Empty /\ cmds'[c] = Empty
      BY <1>3, <2>1, <2>3
    <3>3. queue' \in Seq({k \in Cmd : k.words[c] = Empty})
      BY <1>1
    <3>4. QED
      BY <1>1, <1>2, <3>1, <3>2, <3>3 DEF Dead
  <2>4. QED
    BY <2>2, <2>3
<1>9. QED
  BY <1>6, <1>7, <1>8 DEF IInv

-----------------------------------------------------------------------------
(***************************************************************************)
(* Requests that are made of others, and calls.                            *)
(***************************************************************************)

(* A request that is neither a soft reset nor one of the special ones. *)
LEMMA AskedHarmless ==
    ASSUME NEW r \in RequestKind, r \notin {"soft_reset", "frame", "ci_groups"}, NEW a \in Int, NEW cis \in SUBSET Ci
    PROVE  Req(r, a, cis) \in Harmless
  BY DEF Req, Harmless, Request

LEMMA FrameHarmless ==
    ASSUME NEW w \in Payload
    PROVE  Req("frame", w, {}) \in Harmless
<1>1. w \in Frame
  BY DEF Payload
<1>2. QED
  BY <1>1 DEF Req, Harmless, Request, RequestKind

LEMMA Requests ==
    /\ \A a \in Int, cis \in SUBSET Ci :
          /\ Selecting(cis) \in Harmless /\ SelectingDpu(a, cis) \in Harmless
          /\ Req("polled", a, cis) \in Harmless /\ Req("launched", a, cis) \in Harmless
          /\ Req("keep_line", a, cis) \in Harmless /\ Req("switch_line", a, cis) \in Harmless
          /\ Req("switch_rank", a, cis) \in Harmless /\ Req("start_rank", a, cis) \in Harmless
          /\ Req("write_group", a, cis) \in Harmless /\ Req("disabled", a, cis) \in Harmless
          /\ Req("select_all_even_disabled", a, cis) \in Harmless
          /\ Req("select_dpu_even_disabled", a, cis) \in Harmless
          /\ Req("set_mram_mux", a, cis) \in Harmless
    /\ Reading \in Harmless
    /\ \A a \in Int : Req("frame", Word("boot", a), {}) \in Harmless
    /\ \A c \in Ci : Req("ci_groups", c, {}) \in Harmless
<1>1. Reading \in Harmless /\ \A a \in Int : Req("frame", Word("boot", a), {}) \in Harmless
  <2>1. Word("read", 0) \in Payload /\ \A a \in Int : Word("boot", a) \in Payload
    BY FrameWord
  <2>2. QED
    BY <2>1, FrameHarmless DEF Reading
<1>2. ASSUME NEW a \in Int, NEW cis \in SUBSET Ci
      PROVE  Selecting(cis) \in Harmless /\ SelectingDpu(a, cis) \in Harmless
  BY AskedHarmless DEF Selecting, SelectingDpu, RequestKind
<1>3. ASSUME NEW c \in Ci
      PROVE  Req("ci_groups", c, {}) \in Harmless
  <2>1. c \in Int
    BY CiAssumption DEF Ci
  <2>2. QED
    BY <2>1 DEF Req, Harmless, Request, RequestKind
<1>4. QED
  BY <1>1, <1>2, <1>3, AskedHarmless DEF RequestKind

(* The loop over the DPUs of a CI. *)
LEMMA ForEachDpuHarmless ==
    ASSUME NEW first \in [Dpu -> Harmless], NEW second \in [Dpu -> Harmless]
    PROVE  ForEachDpu(first, second) \in Seq(Harmless)
<1> DEFINE n == 2 * NrDpus
           f == ForEachDpu(first, second)
<1>1. n \in Nat
  BY CiAssumption
<1>2. \A i \in 1..n : (i - 1) \div 2 \in Dpu
  BY CiAssumption DEF Dpu
<1>3. f = [i \in 1..n |-> IF i % 2 = 1 THEN first[(i - 1) \div 2] ELSE second[(i - 1) \div 2]]
  BY DEF ForEachDpu
<1>4. f \in [1..n -> Harmless]
  BY <1>2, <1>3
<1> HIDE DEF n, f
<1>5. f \in Seq(Harmless)
  BY <1>1, <1>4
<1>6. QED
  BY <1>5 DEF f

(* A request that is made of others. *)
LEMMA ComposedInv ==
    ASSUME IInv, calls # <<>>, Head(calls).r \notin {"save", "soft_reset", "select_all"},
           NEW more \in Seq(Harmless), Proceed(more), UNCHANGED <<enabled, saved>>, NoCommand
    PROVE  IInv'
<1>1. calls' \in Seq(Harmless) /\ UNCHANGED <<wait, color, failed, hw>>
  BY Proceeding
<1>2. UNCHANGED <<queue, mask, cmds, target>>
  BY DEF NoCommand, caches
<1>3. enabled' \in [Ci -> SUBSET Dpu] /\ saved' \in [Ci -> SUBSET Dpu]
  BY DEF IInv, CiType
<1>4. QED
  BY <1>1, <1>2, <1>3, PlainInv

LEMMA BusyInv ==
    ASSUME IInv, calls # <<>>, Head(calls).r \notin {"save", "soft_reset", "select_all"}, Busy, NoCommand
    PROVE  IInv'
<1>1. UNCHANGED <<wait, color, failed, hw, queue, mask, cmds, target, enabled, saved>> /\ calls' = <<>>
  BY DEF Busy, NoCommand, caches, config, count
<1>2. calls' \in Seq(Harmless)
  BY <1>1
<1>3. enabled' \in [Ci -> SUBSET Dpu] /\ saved' \in [Ci -> SUBSET Dpu]
  BY <1>1 DEF IInv, CiType
<1>4. QED
  BY <1>1, <1>2, <1>3, PlainInv

LEMMA SwitchRankInv ==
    ASSUME IInv, dpu_switch_mux_for_rank
    PROVE  IInv'
<1> DEFINE all == IF Head(calls).a = 1 THEN Dpu ELSE {}
           first == <<Req("select_all_even_disabled", 0, {}), Req("set_mram_mux", 0, IF all = {} THEN {} ELSE Ci),
                      Req("select_all_even_disabled", 0, {})>>
           each == ForEachDpu([d \in Dpu |-> Inspecting(d)], [d \in Dpu |-> Reading])
<1>1. calls # <<>> /\ Head(calls).r = "switch_rank" /\ NoCommand
  BY DEF dpu_switch_mux_for_rank, Asked
<1>2. first \in Seq(Harmless)
  <2>1. Req("select_all_even_disabled", 0, {}) \in Harmless /\ Req("set_mram_mux", 0, IF all = {} THEN {} ELSE Ci) \in Harmless
    BY Requests
  <2>2. QED
    BY <2>1
<1>3. each \in Seq(Harmless)
  <2>1. \A d \in Dpu : d \in Int
    BY CiAssumption DEF Dpu
  <2>2. \A d \in Dpu : Inspecting(d) \in Harmless /\ Reading \in Harmless
    BY <2>1, Requests DEF Inspecting
  <2>3. QED
    BY <2>2, ForEachDpuHarmless
<1> HIDE DEF first, each
<1>4. first \o each \in Seq(Harmless) /\ <<>> \in Seq(Harmless)
  BY <1>2, <1>3
<1>5. \/ Busy
      \/ \E b \in BOOLEAN : Proceed(If(b, first \o each)) /\ UNCHANGED <<enabled, saved>>
  BY DEF dpu_switch_mux_for_rank, first, each
<1>6. \A b \in BOOLEAN : If(b, first \o each) \in Seq(Harmless)
  BY <1>4 DEF If
<1>7. QED
  BY <1>1, <1>5, <1>6, BusyInv, ComposedInv

LEMMA SwitchLineInv ==
    ASSUME IInv, calls # <<>>, Head(calls).r \in {"switch_line", "keep_line"}, NoCommand,
           NEW cis \in SUBSET Ci, SwitchLine(Head(calls).a, cis)
    PROVE  IInv'
<1> DEFINE d == Head(calls).a
           Line(e) == <<Req("select_dpu_even_disabled", e, {}), Req("set_mram_mux", 0, cis)>> \o CheckDpu(e)
           lines == {e \in Pair(d) : {c \in Ci : e \in mux[c]} # cis}
           e0 == 2 * (d \div 2)
           e1 == 2 * (d \div 2) + 1
<1>1. d \in Int
  BY Plan DEF IInv, Request
<1>2. e0 \in Int /\ e1 \in Int
  BY <1>1
<1>3. \A e \in Int : Line(e) \in Seq(Harmless)
  <2> SUFFICES ASSUME NEW e \in Int
               PROVE  Line(e) \in Seq(Harmless)
    OBVIOUS
  <2>1. /\ Req("select_dpu_even_disabled", e, {}) \in Harmless /\ Req("set_mram_mux", 0, cis) \in Harmless
        /\ Inspecting(e) \in Harmless /\ Reading \in Harmless
    BY Requests DEF Inspecting
  <2>2. /\ <<Req("select_dpu_even_disabled", e, {}), Req("set_mram_mux", 0, cis)>> \in Seq(Harmless)
        /\ CheckDpu(e) \in Seq(Harmless)
    BY <2>1 DEF CheckDpu
  <2>3. QED
    BY <2>2, ConcatProperties
<1>4. \/ Busy
      \/ Proceed(If(e0 \in lines, Line(e0)) \o If(e1 \in lines, Line(e1))) /\ UNCHANGED <<enabled, saved>>
  BY DEF SwitchLine
<1> HIDE DEF Line, lines, e0, e1
<1>5. <<>> \in Seq(Harmless)
  OBVIOUS
<1>6. \A b \in BOOLEAN : If(b, Line(e0)) \in Seq(Harmless) /\ If(b, Line(e1)) \in Seq(Harmless)
  BY <1>2, <1>3, <1>5 DEF If
<1>7. \A b0, b1 \in BOOLEAN : If(b0, Line(e0)) \o If(b1, Line(e1)) \in Seq(Harmless)
  BY <1>6, ConcatProperties
<1>8. (e0 \in lines) \in BOOLEAN /\ (e1 \in lines) \in BOOLEAN
  OBVIOUS
<1>9. If(e0 \in lines, Line(e0)) \o If(e1 \in lines, Line(e1)) \in Seq(Harmless)
  BY <1>7, <1>8
<1>10. QED
  BY <1>4, <1>9, BusyInv, ComposedInv

LEMMA LineInv ==
    ASSUME IInv, dpu_switch_mux_for_dpu_line \/ SwitchKeeping
    PROVE  IInv'
<1> DEFINE keep == {c \in Ci \ Head(calls).cis : Head(calls).a \in mux[c]}
<1>1. /\ calls # <<>> /\ Head(calls).r \in {"switch_line", "keep_line"} /\ NoCommand
      /\ SwitchLine(Head(calls).a, Head(calls).cis) \/ SwitchLine(Head(calls).a, keep)
  BY DEF dpu_switch_mux_for_dpu_line, SwitchKeeping, Asked
<1>2. Head(calls).cis \in SUBSET Ci /\ keep \in SUBSET Ci
  BY <1>1, Plan DEF IInv, Request
<1>3. QED
  BY <1>1, <1>2, SwitchLineInv

LEMMA StartRankInv ==
    ASSUME IInv, ci_start_thread_rank
    PROVE  IInv'
<1> DEFINE lines == [i \in 1..NrDpus |-> Req("keep_line", i - 1, mask)]
           first == IF mask = Ci THEN <<Req("switch_rank", 0, {})>> ELSE lines
           rest == <<Selecting(mask), Req("frame", Word("boot", 0), {}), Req("launched", 0, Ci)>>
<1>1. /\ calls # <<>> /\ Head(calls).r = "start_rank" /\ NoCommand /\ UNCHANGED <<enabled, saved>>
      /\ Proceed(first \o rest)
  BY DEF ci_start_thread_rank, Asked, config
<1>2. mask \in SUBSET Ci
  BY DEF IInv, CiType
<1>3. lines \in Seq(Harmless)
  <2>1. NrDpus \in Nat /\ \A i \in 1..NrDpus : Req("keep_line", i - 1, mask) \in Harmless
    BY <1>2, Requests, CiAssumption
  <2>2. QED
    BY <2>1
<1>4. Req("switch_rank", 0, {}) \in Harmless /\ Selecting(mask) \in Harmless
      /\ Req("frame", Word("boot", 0), {}) \in Harmless /\ Req("launched", 0, Ci) \in Harmless
  BY <1>2, Requests
<1>5. first \in Seq(Harmless) /\ rest \in Seq(Harmless)
  BY <1>3, <1>4
<1>6. first \o rest \in Seq(Harmless)
  BY <1>5, ConcatProperties
<1>7. QED
  BY <1>1, <1>6, ComposedInv

LEMMA GroupsInv ==
    ASSUME IInv, dpu_init_groups \/ CiGroups
    PROVE  IInv'
<1>1. CASE dpu_init_groups
  <2> DEFINE full == {c \in Ci : saved[c] = Dpu}
             each == [i \in 1..NrCis |-> Req("ci_groups", i - 1, {})]
             all == <<Selecting(full), Req("write_group", EnabledGroup, {})>>
  <2>1. /\ calls # <<>> /\ Head(calls).r = "init_groups" /\ NoCommand /\ UNCHANGED <<enabled, saved>>
        /\ Proceed(each \o If(full # {}, all))
    BY <1>1 DEF dpu_init_groups, Asked, config
  <2>2. each \in Seq(Harmless)
    <3>1. NrCis \in Nat /\ \A i \in 1..NrCis : i - 1 \in Ci
      BY CiAssumption DEF Ci
    <3>2. QED
      BY <3>1, Requests
  <2>3. Selecting(full) \in Harmless /\ Req("write_group", EnabledGroup, {}) \in Harmless
    BY Requests DEF EnabledGroup
  <2>4. If(full # {}, all) \in Seq(Harmless)
    BY <2>3 DEF If
  <2>5. each \o If(full # {}, all) \in Seq(Harmless)
    BY <2>2, <2>4, ConcatProperties
  <2>6. QED
    BY <2>1, <2>5, ComposedInv
<1>2. CASE CiGroups
  <2> DEFINE c == Head(calls).a
             first == [d \in Dpu |-> SelectingDpu(d, {c})]
             second == [d \in Dpu |-> Req("write_group", IF d \in saved[c] THEN EnabledGroup ELSE DisabledGroup, {})]
             b == saved[c] \notin {{}, Dpu}
  <2>1. /\ calls # <<>> /\ Head(calls).r = "ci_groups" /\ NoCommand /\ UNCHANGED <<enabled, saved>>
        /\ Proceed(If(b, ForEachDpu(first, second)))
    BY <1>2 DEF CiGroups, Asked, config
  <2>2. c \in Ci
    BY <2>1, Plan DEF IInv, Request
  <2>3. first \in [Dpu -> Harmless]
    <3>1. \A d \in Dpu : d \in Int
      BY CiAssumption DEF Dpu
    <3>2. QED
      BY <2>2, <3>1, Requests
  <2>4. second \in [Dpu -> Harmless]
    BY Requests DEF EnabledGroup, DisabledGroup
  <2> HIDE DEF first, second, b
  <2>5. ForEachDpu(first, second) \in Seq(Harmless) /\ <<>> \in Seq(Harmless)
    BY <2>3, <2>4, ForEachDpuHarmless
  <2>6. If(b, ForEachDpu(first, second)) \in Seq(Harmless)
    BY <2>5 DEF If
  <2>7. QED
    BY <2>1, <2>6, ComposedInv
<1>3. QED
  BY <1>1, <1>2

(* What the host records of launches, polls and disabled DPUs. *)
LEMMA RecordInv ==
    ASSUME IInv, Launched \/ Polled \/ Disabled \/ RestoreEnabled
    PROVE  IInv'
<1>1. /\ calls # <<>> /\ Head(calls).r \in {"launched", "polled", "disabled", "restore"}
      /\ Proceed(<<>>) /\ NoCommand /\ saved' = saved
  BY DEF Launched, Polled, Disabled, RestoreEnabled, Asked
<1>2. calls' \in Seq(Harmless) /\ UNCHANGED <<wait, color, failed, hw>>
  <2>1. <<>> \in Seq(Harmless)
    OBVIOUS
  <2>2. QED
    BY <1>1, <2>1, Proceeding
<1>3. UNCHANGED <<queue, mask, cmds, target>>
  BY <1>1 DEF NoCommand, caches
<1>4. \/ enabled' = enabled \/ enabled' = saved
      \/ enabled' = [c \in Ci |-> IF c \in Head(calls).cis THEN enabled[c] \ {Head(calls).a} ELSE enabled[c]]
  BY DEF Launched, Polled, Disabled, RestoreEnabled
<1>5. enabled' \in [Ci -> SUBSET Dpu] /\ saved' \in [Ci -> SUBSET Dpu]
  BY <1>1, <1>4 DEF IInv, CiType
<1>6. \A c \in Ci : enabled[c] = {} /\ saved[c] = {} => enabled'[c] = {} /\ saved'[c] = {}
  BY <1>1, <1>4
<1>7. QED
  BY <1>1, <1>2, <1>3, <1>5, <1>6, PlainInv

(* save_enabled_dpus remembers which CIs have no DPUs. *)
LEMMA SaveInv ==
    ASSUME IInv, save_enabled_dpus
    PROVE  IInv'
<1>1. /\ calls # <<>> /\ Head(calls).r = "save" /\ NoCommand
      /\ Proceed(<<>>) /\ saved' = enabled
      /\ enabled' = [c \in Ci |-> IF enabled[c] = {} THEN {} ELSE Dpu]
  BY DEF save_enabled_dpus, Asked
<1>2. UNCHANGED <<queue, mask, cmds, target, wait, color, failed, hw>>
  BY <1>1 DEF NoCommand, Proceed, caches, count
<1>3. Tail(calls) = Reset1 \/ Tail(calls) \in Seq(Harmless)
  BY <1>1, Plan DEF IInv
<1>4. calls' = Tail(calls)
  <2>1. Tail(calls) \in Seq(Request)
    <3>1. Harmless \subseteq Request
      BY DEF Harmless
    <3>2. \A q \in Seq(Harmless) : q \in Seq(Request)
      BY <3>1
    <3>3. QED
      BY <1>3, <3>2, ResetRest
  <2>2. QED
    BY <1>1, <2>1, ConcatEmptySeq DEF Proceed
<1>5. CiType'
  BY <1>1, <1>2, <1>3, <1>4 DEF IInv, CiType
<1>6. Dpu # {}
  <2>1. 0 \in Dpu
    BY CiAssumption DEF Dpu
  <2>2. QED
    BY <2>1
<1>7. SavedInv'
  BY <1>1, <1>6 DEF SavedInv
<1>8. \A c \in Ci : (InStep(c) => InStep(c)') /\ (Dead(c) => Dead(c)')
  <2>1. calls \notin {Reset2, Reset3}
    BY <1>1, Plan DEF IInv
  <2>2. QED
    BY <1>1, <1>2, <2>1 DEF InStep, Dead
<1>9. QED
  BY <1>2, <1>5, <1>7, <1>8 DEF IInv, StepInv

(* A call begins with the requests it is made of. *)
LEMMA CallInv ==
    ASSUME IInv, Call
    PROVE  IInv'
<1>1. UNCHANGED <<wait, color, failed, hw, queue, mask, cmds, target, enabled, saved>> /\ calls = <<>>
  BY DEF Call, caches, config
<1>2. \A d \in Dpu : d \in Int /\ d + 1 \in Int
  BY CiAssumption DEF Dpu
<1>3. Ci \in SUBSET Ci /\ \A c \in Ci : {c} \in SUBSET Ci
  OBVIOUS
<1>4. PollRank \in Seq(Harmless) /\ LaunchRank \in Seq(Harmless) /\ AccessRank \in Seq(Harmless)
  <2>1. /\ Selecting(Ci) \in Harmless /\ Reading \in Harmless /\ Req("polled", 0, {}) \in Harmless
        /\ Req("start_rank", 0, {}) \in Harmless /\ Req("switch_rank", 1, {}) \in Harmless
    BY Requests
  <2>2. PollRank \in Seq(Harmless) /\ <<Selecting(Ci), Req("start_rank", 0, {})>> \in Seq(Harmless)
        /\ AccessRank \in Seq(Harmless)
    BY <2>1 DEF PollRank, AccessRank
  <2>3. QED
    BY <2>2, ConcatProperties DEF LaunchRank
<1>5. ASSUME NEW c \in Ci, NEW d \in Dpu
      PROVE  LaunchDpu(c, d) \in Seq(Harmless) /\ Disable(c, d) \in Seq(Harmless)
  <2>1. /\ SelectingDpu(d, {c}) \in Harmless
        /\ Req("keep_line", d, {c}) \in Harmless /\ Req("frame", Word("boot", d + 1), {}) \in Harmless
        /\ Req("launched", d + 1, {c}) \in Harmless
    BY <1>2, <1>3, Requests
  <2>2. Req("write_group", DisabledGroup, {}) \in Harmless /\ Req("disabled", d, {c}) \in Harmless
    BY <1>2, <1>3, Requests DEF DisabledGroup
  <2>3. <<Req("keep_line", d, {c}), SelectingDpu(d, {c}), Req("frame", Word("boot", d + 1), {}),
          Req("launched", d + 1, {c})>> \in Seq(Harmless)
    BY <2>1
  <2>4. LaunchDpu(c, d) \in Seq(Harmless)
    BY <1>4, <2>3, ConcatProperties DEF LaunchDpu
  <2>5. QED
    BY <2>1, <2>2, <2>4 DEF Disable
<1>6. ASSUME NEW d \in Dpu, NEW cis \in SUBSET Ci
      PROVE  AccessPair(d, cis) \in Seq(Harmless)
  <2>1. Req("switch_line", d, cis) \in Harmless /\ Req("switch_line", d + 1, cis) \in Harmless
    BY <1>2, Requests
  <2>2. QED
    BY <2>1 DEF AccessPair
<1>7. enabled \in [Ci -> SUBSET Dpu] /\ saved \in [Ci -> SUBSET Dpu]
  BY DEF IInv, CiType
<1>8. calls' \in Seq(Harmless) \cup {Reset}
  BY <1>4, <1>5, <1>6, <1>7 DEF Call
<1>9. QED
  BY <1>1, <1>7, <1>8, PlainInv

-----------------------------------------------------------------------------

(* Every step preserves the invariant. *)
LEMMA NextInv == IInv /\ [Next]_vars => IInv'
<1> SUFFICES ASSUME IInv, [Next]_vars
             PROVE  IInv'
  OBVIOUS
<1>1. CASE UNCHANGED vars
  BY <1>1 DEF vars, caches, config, engine, count, IInv, CiType, SavedInv, StepInv, InStep, Dead
<1>2. CASE Done
  BY <1>1, <1>2 DEF Done
<1>3. QED
  BY <1>1, <1>2, ExecuteInv, CommitInv, UpdateInv, SelectAllInv, SelectAllEvenInv, SelectOneInv, FrameInv,
     SetMuxInv, SoftResetInv, SwitchRankInv, LineInv, StartRankInv, RecordInv, SaveInv, GroupsInv, CallInv
     DEF Next

(* Before the first reset nothing has been sent. *)
LEMMA InitInv == Init => IInv
<1> SUFFICES ASSUME Init
             PROVE  IInv
  OBVIOUS
<1>1. enabled \in [Ci -> SUBSET Dpu] /\ saved \in [Ci -> SUBSET Dpu]
  BY CiAssumption DEF Init, Ci, Dpu
<1>2. wait \in Waiting /\ ~wait.on
  BY DEF Init, Idle, Waiting
<1>3. hw \in [Ci -> Device]
  <2>1. [d \in Dpu |-> 0] \in [Dpu -> Int]
    OBVIOUS
  <2>2. QED
    BY <2>1, EmptyWord DEF Init, Device
<1>4. CiType
  <2>1. color \in [Ci -> {0, 1}] /\ cmds \in [Ci -> Words]
    BY EmptyWord DEF Init
  <2>2. queue \in Seq(Cmd) /\ mask \in SUBSET Ci
    BY DEF Init
  <2>3. calls \in {Reset, Reset1, Reset2} \cup Seq(Harmless)
    BY DEF Init
  <2>4. QED
    BY <1>1, <1>2, <1>3, <2>1, <2>2, <2>3 DEF CiType
<1>5. SavedInv
  BY ResetRest DEF Init, SavedInv
<1>6. StepInv
  BY <1>2 DEF Init, StepInv, InStep
<1>7. QED
  BY <1>4, <1>5, <1>6 DEF IInv

(* The invariant of the colours holds in every reachable state. *)
THEOREM Inductive == Spec => []IInv
  BY InitInv, NextInv, PTL DEF Spec

(* Unless an error has occurred since the last soft reset, exec_cmd takes  *)
(* a CI as done exactly when it has executed the command, for every rank,  *)
(* every profile and every sequence of calls, although the colours of CIs  *)
(* that are not asked, or have no DPUs, do not change.                     *)
THEOREM ColoursInStep == Spec => []ColourInStep
<1>1. IInv => ColourInStep
  BY DEF IInv, CiType, Waiting, StepInv, InStep, Dead, ColourInStep
<1>2. QED
  BY <1>1, Inductive, PTL

-----------------------------------------------------------------------------
(***************************************************************************)
(* The caches.  What matters of a CI besides the colours, and what it will *)
(* be once it has executed the word it holds and those that are queued for *)
(* it; the last frame that it will have been sent.                         *)
(***************************************************************************)

State(h) == [structure |-> h.structure, selected |-> h.selected, group |-> h.group, mux |-> h.mux]

Core == [structure : Int, selected : SUBSET Int, group : [Dpu -> Int], mux : SUBSET Int]

Reached(c) == Executed(State(hw[c]), hw[c].pending)

Settled(c) ==
    IF queue = <<>> THEN Reached(c)
    ELSE IF Len(queue) = 1 THEN Executed(Reached(c), queue[1].words[c])
    ELSE Executed(Executed(Reached(c), queue[1].words[c]), queue[2].words[c])

Final(c) == IF queue = <<>> THEN cmds[c] ELSE queue[Len(queue)].words[c]

(* A frame, sent with its structure. *)
Sent(x, w) == Executed(Executed(x, Structure(w)), w)

Alive == {c \in Ci : enabled[c] # {}}

Selection == {w \in Frame : /\ w.k \in {"select all", "select group", "select dpu"}
                            /\ w.k = "select group" => w.a = EnabledGroup}

(* Requests that are made while the mux is switched. *)
Even == {"select_all_even_disabled", "select_dpu_even_disabled"}
Low == {q \in Request : q.r \in Even \cup {"set_mram_mux"} \/ (q.r = "frame" /\ q.a.k \notin {"boot", "reboot"})}

CacheType ==
    /\ structure \in [Ci -> Int]
    /\ target \in [Ci -> Selection \cup {Empty}]
    /\ groups \in [Ci -> [Dpu -> Int]]
    /\ mux \in [Ci -> SUBSET Dpu]

QueueInv == Len(queue) \in {0, 1, 2} /\ (queue # <<>> => queue[Len(queue)].shared)

(* A word that a CI holds is one that is waited for. *)
QuietInv == \A c \in Ci : hw[c].pending # Empty => wait.on /\ c \in wait.in

StructureExact == \A c \in Ci : Settled(c).structure = structure[c]

(* The last frame changes nothing when it is sent again. *)
ReplayIdle == \A c \in Ci : Executed(Settled(c), Final(c)) = Settled(c)

TargetExact == \A c \in Alive : target[c] # Empty => Settled(c).selected = Chosen(c)

GroupExact == \A c \in Alive : Settled(c).group = groups[c]

(* What the mask was selected for has not been forgotten. *)
MaskSelected == calls \in {Reset2, Reset3} \/ \A c \in mask : target[c] # Empty

(* The switches of the mux that are asked, and the DPUs they are for.      *)
Muxes == {j \in 1..Len(calls) : calls[j].r = "set_mram_mux"}
Aim(j, c) ==
    IF j = 1 THEN Chosen(c)
    ELSE IF calls[j - 1].r = "select_all_even_disabled" THEN Dpu ELSE {calls[j - 1].a}

MuxShape ==
    \A j \in Muxes :
       /\ \A i \in 1..j - 1 : calls[i] \in Low
       /\ j = 1 => mask = Alive
       /\ j # 1 => calls[j - 1].r \in Even

(* The recorded state of the mux is that of the CI once they are made. *)
MuxPlanned ==
    \A c \in Alive : \A d \in Int :
       /\ \A j \in Muxes : d \in Aim(j, c) => (d \in mux[c] <=> c \in calls[j].cis)
       /\ (\A j \in Muxes : d \notin Aim(j, c)) => (d \in mux[c] <=> d \in Settled(c).mux)

(* While the rank is reset all the DPUs are enabled, of the CIs that have  *)
(* one.                                                                    *)
ResetPlan ==
    \A i \in 1..Len(calls) : calls[i].r = "restore" =>
       /\ i = Len(calls)
       /\ \A j \in 1..Len(calls) : calls[j].r # "disabled"
       /\ calls[1].r = "save" \/ \A c \in Ci : enabled[c] = IF saved[c] = {} THEN {} ELSE Dpu

(* A group other than that of the enabled DPUs is given to single DPUs.    *)
OneDpu == \A c \in mask : target[c].k = "select dpu"
WritePlan ==
    \A j \in 1..Len(calls) : (calls[j].r = "write_group" /\ calls[j].a # EnabledGroup) =>
       IF j = 1 THEN OneDpu ELSE calls[j - 1].r = "select_dpu"

(* As long as there is no error. *)
Exact ==
    /\ ~failed /\ CacheType /\ QueueInv /\ QuietInv
    /\ StructureExact /\ ReplayIdle /\ TargetExact /\ GroupExact
    /\ MaskSelected /\ MuxShape /\ MuxPlanned /\ ResetPlan /\ WritePlan

-----------------------------------------------------------------------------

(* Words that say nothing. *)
LEMMA IdleWord ==
    ASSUME NEW x, NEW w, w.k \in {"empty", "reset"}
    PROVE  Executed(x, w) = x
  BY DEF Executed

LEMMA EmptyIdle == \A x : Executed(x, Empty) = x
  BY IdleWord DEF Empty, Word

LEMMA StateCore ==
    ASSUME NEW h \in Device
    PROVE  State(h) \in Core
  BY DEF State, Core, Device

(* What a word does to a CI. *)
LEMMA ExecutedCore ==
    ASSUME NEW x \in Core, NEW w \in Words
    PROVE  Executed(x, w) \in Core
<1> DEFINE g == [d \in Dpu |-> IF d \in x.selected THEN w.a ELSE x.group[d]]
<1>1. w.a \in Int /\ x.group \in [Dpu -> Int] /\ x.selected \in SUBSET Int /\ x.mux \in SUBSET Int
  BY DEF Words, Core
<1>2. Dpu \subseteq Int
  BY CiAssumption DEF Dpu
<1>3. g \in [Dpu -> Int]
  BY <1>1
<1>4. [x EXCEPT !.structure = w.a] \in Core
  BY <1>1 DEF Core
<1>5. \A S \in SUBSET Int : [x EXCEPT !.selected = S] \in Core /\ [x EXCEPT !.mux = S] \in Core
  BY DEF Core
<1>6. [x EXCEPT !.group = g] \in Core
  BY <1>3 DEF Core
<1>7. \/ Executed(x, w) = x
      \/ Executed(x, w) = [x EXCEPT !.structure = w.a]
      \/ Executed(x, w) = [x EXCEPT !.selected = Dpu]
      \/ Executed(x, w) = [x EXCEPT !.selected = {d \in Dpu : x.group[d] = w.a}]
      \/ Executed(x, w) = [x EXCEPT !.selected = {w.a}]
      \/ Executed(x, w) = [x EXCEPT !.group = g]
      \/ Executed(x, w) = [x EXCEPT !.mux = x.mux \cup x.selected]
      \/ Executed(x, w) = [x EXCEPT !.mux = x.mux \ x.selected]
  BY DEF Executed
<1> QED
  BY <1>1, <1>2, <1>4, <1>5, <1>6, <1>7

(* It does the same to the CI and to what matters of it. *)
LEMMA ExecutedState ==
    ASSUME NEW h \in Device, NEW w \in Words
    PROVE  State(Executed(h, w)) = Executed(State(h), w)
<1>1. PICK x : x = State(h)
  OBVIOUS
<1>2. /\ x.structure = h.structure /\ x.selected = h.selected /\ x.group = h.group /\ x.mux = h.mux
      /\ x \in Core
  BY <1>1, StateCore DEF State
<1>3. CASE w.k = "structure"
  <2>1. Executed(h, w) = [h EXCEPT !.structure = w.a] /\ Executed(x, w) = [x EXCEPT !.structure = w.a]
    BY <1>3 DEF Executed
  <2> QED
    BY <1>1, <1>2, <2>1 DEF State, Device, Core
<1>4. CASE w.k # "structure" /\ h.structure # StructureOf(w)
  BY <1>1, <1>2, <1>4 DEF Executed
<1>5. CASE w.k # "structure" /\ h.structure = StructureOf(w)
  <2>1. CASE w.k = "select all"
    <3>1. Executed(h, w) = [h EXCEPT !.selected = Dpu] /\ Executed(x, w) = [x EXCEPT !.selected = Dpu]
      BY <1>2, <1>5, <2>1 DEF Executed
    <3> QED
      BY <1>1, <1>2, <3>1 DEF State, Device, Core
  <2>2. CASE w.k = "select group"
    <3>1. PICK S : S = {d \in Dpu : h.group[d] = w.a}
      OBVIOUS
    <3>2. Executed(h, w) = [h EXCEPT !.selected = S] /\ Executed(x, w) = [x EXCEPT !.selected = S]
      BY <1>2, <1>5, <2>2, <3>1 DEF Executed
    <3> QED
      BY <1>1, <1>2, <3>2 DEF State, Device, Core
  <2>3. CASE w.k = "select dpu"
    <3>1. Executed(h, w) = [h EXCEPT !.selected = {w.a}] /\ Executed(x, w) = [x EXCEPT !.selected = {w.a}]
      BY <1>2, <1>5, <2>3 DEF Executed
    <3> QED
      BY <1>1, <1>2, <3>1 DEF State, Device, Core
  <2>4. CASE w.k = "write group"
    <3>1. PICK g : g = [d \in Dpu |-> IF d \in h.selected THEN w.a ELSE h.group[d]]
      OBVIOUS
    <3>2. Executed(h, w) = [h EXCEPT !.group = g] /\ Executed(x, w) = [x EXCEPT !.group = g]
      BY <1>2, <1>5, <2>4, <3>1 DEF Executed
    <3> QED
      BY <1>1, <1>2, <3>2 DEF State, Device, Core
  <2>5. CASE w.k = "mux"
    <3>1. PICK S : S = IF w.a = 1 THEN h.mux \cup h.selected ELSE h.mux \ h.selected
      OBVIOUS
    <3>2. Executed(h, w) = [h EXCEPT !.mux = S] /\ Executed(x, w) = [x EXCEPT !.mux = S]
      BY <1>2, <1>5, <2>5, <3>1 DEF Executed
    <3> QED
      BY <1>1, <1>2, <3>2 DEF State, Device, Core
  <2>6. CASE w.k \notin {"select all", "select group", "select dpu", "write group", "mux"}
    BY <1>1, <1>2, <1>5, <2>6 DEF Executed
  <2> QED
    BY <2>1, <2>2, <2>3, <2>4, <2>5, <2>6
<1> QED
  BY <1>3, <1>4, <1>5

(* What a frame that is sent with its structure does: z is what x becomes. *)
Effect(x, w, z) ==
    /\ z \in Core /\ z.structure = StructureOf(w)
    /\ w.k = "select all" => z.selected = Dpu
    /\ w.k = "select group" => z.selected = {d \in Dpu : x.group[d] = w.a}
    /\ w.k = "select dpu" => z.selected = {w.a}
    /\ w.k \notin {"select all", "select group", "select dpu"} => z.selected = x.selected
    /\ w.k = "write group" => z.group = [d \in Dpu |-> IF d \in x.selected THEN w.a ELSE x.group[d]]
    /\ w.k # "write group" => z.group = x.group
    /\ w.k = "mux" => z.mux = IF w.a = 1 THEN x.mux \cup x.selected ELSE x.mux \ x.selected
    /\ w.k # "mux" => z.mux = x.mux
    /\ Executed(z, w) = z

LEMMA SentFacts ==
    ASSUME NEW x \in Core, NEW w \in Frame
    PROVE  Effect(x, w, Sent(x, w))
<1>0. PICK z : z = Sent(x, w)
  OBVIOUS
<1> SUFFICES Effect(x, w, z)
  BY <1>0
<1>1. PICK y : y = Executed(x, Structure(w))
  OBVIOUS
<1>2. y = [x EXCEPT !.structure = StructureOf(w)]
  BY <1>1 DEF Executed, Structure, Word
<1>3. y \in Core
  <2>1. Structure(w) \in Words
    BY FrameWords
  <2> QED
    BY <1>1, <2>1, ExecutedCore
<1>4. y.structure = StructureOf(w) /\ y.selected = x.selected /\ y.group = x.group /\ y.mux = x.mux
  BY <1>2 DEF Core
<1>5. z = Executed(y, w) /\ w.k # "structure" /\ w.a \in Int
  BY <1>0, <1>1 DEF Sent, Frame, FrameKind
<1>6. z \in Core
  BY <1>3, <1>5, ExecutedCore, FrameWords
<1>7. CASE w.k = "select all"
  <2>1. z = [y EXCEPT !.selected = Dpu]
    BY <1>4, <1>5, <1>7 DEF Executed
  <2>2. z.structure = y.structure /\ z.selected = Dpu /\ z.group = y.group /\ z.mux = y.mux
    BY <1>3, <2>1 DEF Core
  <2>3. Executed(z, w) = [z EXCEPT !.selected = Dpu]
    BY <1>4, <1>5, <1>7, <2>2 DEF Executed
  <2>4. Executed(z, w) = z
    BY <1>6, <2>2, <2>3 DEF Core
  <2> QED
    BY <1>4, <1>6, <1>7, <2>2, <2>4 DEF Effect
<1>8. CASE w.k = "select group"
  <2>0. PICK S : S = {d \in Dpu : y.group[d] = w.a}
    OBVIOUS
  <2>1. z = [y EXCEPT !.selected = S]
    BY <1>4, <1>5, <1>8, <2>0 DEF Executed
  <2>2. z.structure = y.structure /\ z.selected = S /\ z.group = y.group /\ z.mux = y.mux
    BY <1>3, <2>1 DEF Core
  <2>3. Executed(z, w) = [z EXCEPT !.selected = S]
    BY <1>4, <1>5, <1>8, <2>0, <2>2 DEF Executed
  <2>4. Executed(z, w) = z
    BY <1>6, <2>2, <2>3 DEF Core
  <2> QED
    BY <1>4, <1>6, <1>8, <2>0, <2>2, <2>4 DEF Effect
<1>9. CASE w.k = "select dpu"
  <2>1. z = [y EXCEPT !.selected = {w.a}]
    BY <1>4, <1>5, <1>9 DEF Executed
  <2>2. z.structure = y.structure /\ z.selected = {w.a} /\ z.group = y.group /\ z.mux = y.mux
    BY <1>3, <2>1 DEF Core
  <2>3. Executed(z, w) = [z EXCEPT !.selected = {w.a}]
    BY <1>4, <1>5, <1>9, <2>2 DEF Executed
  <2>4. Executed(z, w) = z
    BY <1>6, <2>2, <2>3 DEF Core
  <2> QED
    BY <1>4, <1>6, <1>9, <2>2, <2>4 DEF Effect
<1>10. CASE w.k = "write group"
  <2>0. PICK g : g = [d \in Dpu |-> IF d \in y.selected THEN w.a ELSE y.group[d]]
    OBVIOUS
  <2>1. z = [y EXCEPT !.group = g]
    BY <1>4, <1>5, <1>10, <2>0 DEF Executed
  <2>2. z.structure = y.structure /\ z.selected = y.selected /\ z.group = g /\ z.mux = y.mux
    BY <1>3, <2>1 DEF Core
  <2>3. [d \in Dpu |-> IF d \in z.selected THEN w.a ELSE z.group[d]] = g
    BY <2>0, <2>2
  <2>4. Executed(z, w) = [z EXCEPT !.group = g]
    BY <1>4, <1>5, <1>10, <2>2, <2>3 DEF Executed
  <2>5. Executed(z, w) = z
    BY <1>6, <2>2, <2>4 DEF Core
  <2> QED
    BY <1>4, <1>6, <1>10, <2>0, <2>2, <2>5 DEF Effect
<1>11. CASE w.k = "mux"
  <2>0. PICK S : S = IF w.a = 1 THEN y.mux \cup y.selected ELSE y.mux \ y.selected
    OBVIOUS
  <2>1. z = [y EXCEPT !.mux = S]
    BY <1>4, <1>5, <1>11, <2>0 DEF Executed
  <2>2. z.structure = y.structure /\ z.selected = y.selected /\ z.group = y.group /\ z.mux = S
    BY <1>3, <2>1 DEF Core
  <2>3. (IF w.a = 1 THEN z.mux \cup z.selected ELSE z.mux \ z.selected) = S
    BY <2>0, <2>2
  <2>4. Executed(z, w) = [z EXCEPT !.mux = S]
    BY <1>4, <1>5, <1>11, <2>2, <2>3 DEF Executed
  <2>5. Executed(z, w) = z
    BY <1>6, <2>2, <2>4 DEF Core
  <2> QED
    BY <1>4, <1>6, <1>11, <2>0, <2>2, <2>5 DEF Effect
<1>12. CASE w.k \notin {"select all", "select group", "select dpu", "write group", "mux"}
  <2>1. z = y /\ Executed(y, w) = y
    BY <1>4, <1>5, <1>12 DEF Executed
  <2> QED
    BY <1>4, <1>6, <1>12, <2>1 DEF Effect
<1> QED
  BY <1>7, <1>8, <1>9, <1>10, <1>11, <1>12

(* The structure that the CI already has need not be sent. *)
LEMMA SameStructure ==
    ASSUME NEW x \in Core, NEW w \in Frame, x.structure = StructureOf(w)
    PROVE  Sent(x, w) = Executed(x, w)
<1>1. Executed(x, Structure(w)) = [x EXCEPT !.structure = StructureOf(w)]
  BY DEF Executed, Structure, Word
<1>2. Executed(x, Structure(w)) = x
  BY <1>1 DEF Core
<1> QED
  BY <1>2 DEF Sent

(* The requests that are left are requests. *)
LEMMA CallsSeq ==
    ASSUME CiType
    PROVE  calls \in Seq(Request)
<1>1. Harmless \subseteq Request
  BY DEF Harmless
<1>2. \A q \in Seq(Harmless) : q \in Seq(Request)
  BY <1>1
<1> QED
  BY <1>2, ResetRest DEF CiType

(* What a CI will be is a state of a CI. *)
LEMMA SettledCore ==
    ASSUME CiType, QueueInv, NEW c \in Ci
    PROVE  Settled(c) \in Core /\ Final(c) \in Words
<1>1. hw[c] \in Device /\ hw[c].pending \in Words /\ cmds[c] \in Words
  BY DEF CiType, Device
<1>2. Reached(c) \in Core
  BY <1>1, StateCore, ExecutedCore DEF Reached
<1>0. queue \in Seq(Cmd)
  BY DEF CiType
<1>3. Len(queue) = 0 \/ Len(queue) = 1 \/ Len(queue) = 2
  BY <1>0 DEF QueueInv
<1>4. \A i \in 1..Len(queue) : queue[i].words[c] \in Words
  <2>1. \A i \in 1..Len(queue) : queue[i] \in Cmd
    BY <1>0
  <2> QED
    BY <2>1 DEF Cmd
<1>5. CASE queue = <<>>
  BY <1>1, <1>2, <1>5 DEF Settled, Final
<1>6. CASE Len(queue) = 1
  <2>1. queue # <<>> /\ 1 \in 1..Len(queue)
    BY <1>6
  <2> QED
    BY <1>2, <1>4, <1>6, <2>1, ExecutedCore DEF Settled, Final
<1>7. CASE Len(queue) = 2
  <2>1. queue # <<>> /\ 1 \in 1..Len(queue) /\ 2 \in 1..Len(queue)
    BY <1>7
  <2>2. queue[1].words[c] \in Words /\ queue[2].words[c] \in Words
    BY <1>4, <2>1
  <2>3. Executed(Reached(c), queue[1].words[c]) \in Core
    BY <1>2, <2>2, ExecutedCore
  <2>4. Executed(Executed(Reached(c), queue[1].words[c]), queue[2].words[c]) \in Core
    BY <2>2, <2>3, ExecutedCore
  <2> QED
    BY <1>7, <2>1, <2>2, <2>4 DEF Settled, Final
<1> QED
  BY <1>0, <1>3, <1>5, <1>6, <1>7

(* When a request is made the CIs have settled. *)
LEMMA AtRequest ==
    ASSUME IInv, Exact, queue = <<>>, ~wait.on, NEW c \in Ci
    PROVE  /\ Settled(c) = State(hw[c]) /\ Settled(c) \in Core
           /\ Final(c) = cmds[c] /\ hw[c].pending = Empty
<1>1. hw[c].pending = Empty
  BY DEF Exact, QuietInv
<1>2. Reached(c) = State(hw[c])
  BY <1>1, EmptyIdle DEF Reached
<1>3. Settled(c) \in Core
  BY SettledCore DEF IInv, Exact
<1> QED
  BY <1>1, <1>2, <1>3 DEF Settled, Final

(* What is left of a call when a request is over. *)
LEMMA TailCalls ==
    ASSUME NEW s \in Seq(Request), s # <<>>
    PROVE  /\ Tail(s) \in Seq(Request) /\ Len(Tail(s)) = Len(s) - 1
           /\ \A j \in 1..Len(Tail(s)) : Tail(s)[j] = s[j + 1] /\ j + 1 \in 1..Len(s)
           /\ Head(s) = s[1] /\ 1 \in 1..Len(s) /\ Len(s) \in Nat
  OBVIOUS

(* A structure and a frame, or a frame. *)
LEMMA TwoCommands ==
    \A s, f : /\ Len(<<s>> \o <<f>>) = 2 /\ <<s>> \o <<f>> # <<>>
              /\ (<<s>> \o <<f>>)[1] = s /\ (<<s>> \o <<f>>)[2] = f
<1> SUFFICES ASSUME NEW s, NEW f
             PROVE  /\ Len(<<s>> \o <<f>>) = 2 /\ <<s>> \o <<f>> # <<>>
                    /\ (<<s>> \o <<f>>)[1] = s /\ (<<s>> \o <<f>>)[2] = f
  OBVIOUS
<1>1. <<s>> \in Seq({s, f}) /\ <<f>> \in Seq({s, f})
  OBVIOUS
<1>2. Len(<<s>> \o <<f>>) = 2
  OBVIOUS
<1>3. (<<s>> \o <<f>>)[1] = s
  OBVIOUS
<1>4. (<<s>> \o <<f>>)[2] = f
  OBVIOUS
<1>5. <<s>> \o <<f>> # <<>>
  BY <1>2
<1> QED
  BY <1>2, <1>3, <1>4, <1>5

LEMMA OneCommand ==
    \A f : <<>> \o <<f>> = <<f>> /\ Len(<<f>>) = 1 /\ <<f>>[1] = f /\ <<f>> # <<>>
<1> SUFFICES ASSUME NEW f
             PROVE  <<>> \o <<f>> = <<f>> /\ Len(<<f>>) = 1 /\ <<f>>[1] = f /\ <<f>> # <<>>
  OBVIOUS
<1>1. <<f>> \in Seq({f})
  OBVIOUS
<1>2. <<>> \o <<f>> = <<f>>
  BY <1>1, ConcatEmptySeq
<1>3. Len(<<f>>) = 1 /\ <<f>>[1] = f /\ <<f>> # <<>>
  OBVIOUS
<1> QED
  BY <1>2, <1>3

(* What the commands of a request make of the CIs. *)
SentTo(m, want) ==
    /\ QueueInv' /\ StructureExact' /\ ReplayIdle' /\ structure' \in [Ci -> Int]
    /\ \A c \in m : Settled(c)' = Sent(Settled(c), want[c])
    /\ \A c \in Ci \ m : Settled(c)' = Settled(c)

(* The commands of a request: structures, when one of the CIs has another, *)
(* and frames; the CIs outside of m are sent nothing, or their last frame. *)
LEMMA SentInv ==
    ASSUME IInv, Exact, queue = <<>>, ~wait.on, hw' = hw,
           NEW m \in SUBSET Ci, NEW want \in [m -> Frame], Cache(m, want),
           NEW s \in Cmd, NEW f \in Cmd, f.shared,
           queue' = If(Differing(m, want) # {}, <<s>>) \o <<f>>,
           \A c \in m : s.words[c] = Structure(want[c]) /\ f.words[c] = want[c],
           \A c \in Ci \ m : s.words[c] = Empty /\ f.words[c] \in {Empty, cmds[c]}
    PROVE  SentTo(m, want)
<1> DEFINE b == Differing(m, want) # {}
<1>1. \A c \in Ci : Settled(c) = State(hw[c]) /\ Settled(c) \in Core /\ hw[c].pending = Empty
  BY AtRequest
<1>2. \A c \in Ci : Reached(c)' = Settled(c)
  <2>1. \A c \in Ci : Reached(c)' = Executed(State(hw[c]), Empty)
    BY <1>1 DEF Reached
  <2> QED
    BY <1>1, <2>1, EmptyIdle
<1>3. /\ Len(queue') \in {1, 2} /\ queue' # <<>> /\ queue'[Len(queue')] = f
      /\ b => Len(queue') = 2 /\ queue'[1] = s /\ queue'[2] = f
      /\ ~b => Len(queue') = 1 /\ queue'[1] = f
  <2>1. CASE b
    <3>1. queue' = <<s>> \o <<f>>
      BY <2>1 DEF If
    <3> HIDE DEF b
    <3>2. PICK q : q = <<s>> \o <<f>>
      OBVIOUS
    <3>3. Len(q) = 2 /\ q # <<>> /\ q[1] = s /\ q[2] = f
      BY <3>2, TwoCommands
    <3>4. q[Len(q)] = f
      BY <3>3
    <3>5. queue' = q
      BY <3>1, <3>2
    <3> QED
      BY <2>1, <3>3, <3>4, <3>5, Zenon
  <2>2. CASE ~b
    <3>1. queue' = <<>> \o <<f>>
      BY <2>2 DEF If
    <3>2. queue' = <<f>>
      BY <3>1, OneCommand
    <3> HIDE DEF b
    <3> QED
      BY <2>2, <3>2, OneCommand, Zenon
  <2> QED
    BY <2>1, <2>2
<1>4. QueueInv'
  <2>1. Len(queue') \in {0, 1, 2}
    BY <1>3
  <2> QED
    BY <1>3, <2>1 DEF QueueInv
<1>5. \A c \in Ci : Final(c)' = f.words[c]
  BY <1>3 DEF Final
<1>6. \A c \in Ci : Settled(c)' = IF b THEN Executed(Executed(Settled(c), s.words[c]), f.words[c])
                                     ELSE Executed(Settled(c), f.words[c])
  <2> SUFFICES ASSUME NEW c \in Ci
               PROVE  Settled(c)' = IF b THEN Executed(Executed(Settled(c), s.words[c]), f.words[c])
                                         ELSE Executed(Settled(c), f.words[c])
    OBVIOUS
  <2>1. Settled(c)' = IF Len(queue') = 1 THEN Executed(Reached(c)', queue'[1].words[c])
                      ELSE Executed(Executed(Reached(c)', queue'[1].words[c]), queue'[2].words[c])
    BY <1>3 DEF Settled
  <2> HIDE DEF b
  <2>2. CASE b
    <3>0. 2 # 1
      OBVIOUS
    <3>1. Len(queue') # 1
      BY <1>3, <2>2, <3>0, Zenon
    <3> QED
      BY <1>2, <1>3, <2>1, <2>2, <3>1
  <2>3. CASE ~b
    BY <1>2, <1>3, <2>1, <2>3
  <2> QED
    BY <2>2, <2>3
<1> HIDE DEF b
<1>7. \A c \in Ci : structure'[c] = IF c \in m THEN StructureOf(want[c]) ELSE structure[c]
  BY DEF Cache
<1>8. ASSUME NEW c \in m
      PROVE  /\ Settled(c)' = Sent(Settled(c), want[c]) /\ Settled(c)'.structure = structure'[c]
             /\ Executed(Settled(c)', Final(c)') = Settled(c)' /\ structure'[c] \in Int
  <2>1. c \in Ci /\ want[c] \in Frame /\ Settled(c) \in Core
    BY <1>1
  <2>2. Settled(c)' = Sent(Settled(c), want[c])
    <3>1. CASE b
      BY <1>6, <2>1, <3>1 DEF Sent
    <3>2. CASE ~b
      <4>1. structure[c] = StructureOf(want[c])
        BY <3>2 DEF b, Differing
      <4>2. Settled(c).structure = StructureOf(want[c])
        BY <2>1, <4>1 DEF Exact, StructureExact
      <4> QED
        BY <1>6, <2>1, <3>2, <4>2, SameStructure
    <3> QED
      BY <3>1, <3>2
  <2>3. PICK z : z = Settled(c)'
    OBVIOUS
  <2>4. Effect(Settled(c), want[c], z)
    BY <2>1, <2>2, <2>3, SentFacts
  <2>5. z \in Core /\ z.structure = StructureOf(want[c]) /\ Executed(z, want[c]) = z
    BY <2>4 DEF Effect
  <2>6. z.structure \in Int
    BY <2>5 DEF Core
  <2> QED
    BY <1>5, <1>7, <2>1, <2>2, <2>3, <2>5, <2>6
<1>9. ASSUME NEW c \in Ci \ m
      PROVE  /\ Settled(c)' = Settled(c) /\ Settled(c)'.structure = structure'[c]
             /\ Executed(Settled(c)', Final(c)') = Settled(c)' /\ structure'[c] \in Int
  <2>1. c \in Ci /\ Final(c) = cmds[c] /\ s.words[c] = Empty
    BY AtRequest
  <2>2. Executed(Settled(c), cmds[c]) = Settled(c) /\ Executed(Settled(c), Empty) = Settled(c)
    BY <2>1, EmptyIdle DEF Exact, ReplayIdle
  <2>3. Executed(Settled(c), f.words[c]) = Settled(c)
    BY <2>2
  <2>4. Settled(c)' = Settled(c)
    BY <1>6, <2>1, <2>2, <2>3
  <2>5. Settled(c).structure = structure[c] /\ structure[c] \in Int
    BY <2>1 DEF Exact, StructureExact, CacheType
  <2> QED
    BY <1>5, <1>7, <2>1, <2>3, <2>4, <2>5
<1>10. StructureExact' /\ ReplayIdle'
  BY <1>8, <1>9 DEF StructureExact, ReplayIdle
<1>11. structure' \in [Ci -> Int]
  <2>1. \A c \in Ci : structure'[c] \in Int
    BY <1>8, <1>9
  <2> QED
    BY <2>1 DEF Cache
<1> QED
  BY <1>4, <1>8, <1>9, <1>10, <1>11 DEF SentTo

(* UFI_exec_void_frame. *)
LEMMA VoidFrameSent ==
    ASSUME IInv, Exact, queue = <<>>, ~wait.on, hw' = hw,
           NEW m \in SUBSET Ci, NEW w \in Frame, VoidFrame(m, w)
    PROVE  SentTo(m, [c \in m |-> w])
<1> DEFINE want == [c \in m |-> w]
           s == Command(Prepared(m, Structure(w)), TRUE)
           f == Command(Prepared(m, w), TRUE)
<1>1. w \in Words /\ Structure(w) \in Words
  BY FrameWords
<1>2. s \in Cmd /\ f \in Cmd
  BY <1>1, PreparedWords
<1>3. f.shared /\ want \in [m -> Frame]
  BY DEF Command
<1>4. \A c \in m : s.words[c] = Structure(want[c]) /\ f.words[c] = want[c]
  BY DEF Command, Prepared
<1>5. \A c \in Ci \ m : s.words[c] = Empty /\ f.words[c] = Empty
  BY DEF Command, Prepared
<1>6. Cache(m, want) /\ queue' = If(Differing(m, want) # {}, <<s>>) \o <<f>>
  BY DEF VoidFrame
<1> HIDE DEF want, s, f
<1>7. \A c \in Ci \ m : s.words[c] = Empty /\ f.words[c] \in {Empty, cmds[c]}
  BY <1>5
<1>8. SentTo(m, want)
  BY <1>2, <1>3, <1>4, <1>6, <1>7, SentInv
<1> QED
  BY <1>8 DEF want

(* UFI_exec_void_frames: the other CIs are sent their last frame again. *)
LEMMA VoidFramesSent ==
    ASSUME IInv, Exact, queue = <<>>, ~wait.on, hw' = hw,
           NEW do \in SUBSET Ci, NEW all \in [Ci -> Frame], VoidFrames(do, all)
    PROVE  SentTo(do, all)
<1> DEFINE want == [c \in do |-> all[c]]
           structs == [c \in Ci |-> IF c \in do THEN Structure(all[c]) ELSE Empty]
           frames == [c \in Ci |-> IF c \in do THEN all[c] ELSE cmds[c]]
           s == Command(structs, FALSE)
           f == Command(frames, TRUE)
<1>1. \A c \in Ci : all[c] \in Words /\ Structure(all[c]) \in Words
  BY FrameWords
<1>2. frames \in [Ci -> Words] /\ structs \in [Ci -> Words]
  BY <1>1, EmptyWord DEF IInv, CiType
<1>3. s \in Cmd /\ f \in Cmd /\ f.shared /\ s.words = structs /\ f.words = frames
  BY <1>2 DEF Command, Cmd
<1>4. want \in [do -> Frame] /\ \A c \in do : want[c] = all[c] /\ c \in Ci
  OBVIOUS
<1>5. \A c \in do : s.words[c] = Structure(want[c]) /\ f.words[c] = want[c]
  BY <1>3
<1>6. \A c \in Ci \ do : s.words[c] = Empty /\ f.words[c] \in {Empty, cmds[c]}
  BY <1>3
<1>7. Cache(do, all) /\ queue' = If(Differing(do, all) # {}, <<s>>) \o <<f>>
  BY DEF VoidFrames
<1> HIDE DEF want, s, f, structs, frames
<1>8. Differing(do, want) = Differing(do, all) /\ Cache(do, want)
  BY <1>4, <1>7 DEF Differing, Cache
<1>9. SentTo(do, want)
  <2>1. queue' = If(Differing(do, want) # {}, <<s>>) \o <<f>>
    BY <1>7, <1>8
  <2>2. want \in [do -> Frame] /\ s \in Cmd /\ f \in Cmd /\ f.shared /\ Cache(do, want)
    BY <1>3, <1>4, <1>8
  <2> QED
    BY <1>5, <1>6, <2>1, <2>2, SentInv
<1> QED
  BY <1>4, <1>9 DEF SentTo

-----------------------------------------------------------------------------
(***************************************************************************)
(* The requests that are left.                                             *)
(***************************************************************************)

(* A request that switches the mux is not left behind another.             *)
LEMMA NoMuxes ==
    ASSUME IInv, Exact, calls = <<>> \/ Head(calls) \notin Low
    PROVE  Muxes = {} /\ \A c \in Alive : \A d \in Int : d \in mux[c] <=> d \in Settled(c).mux
<1>1. calls \in Seq(Request)
  BY CallsSeq DEF IInv
<1>2. Muxes = {}
  <2> SUFFICES ASSUME NEW j \in Muxes
               PROVE  FALSE
    OBVIOUS
  <2>1. j \in 1..Len(calls) /\ calls[j].r = "set_mram_mux" /\ calls[j] \in Request
    BY <1>1 DEF Muxes
  <2>2. calls # <<>> /\ Head(calls) = calls[1]
    BY <1>1, <2>1
  <2>3. j # 1
    BY <2>1, <2>2 DEF Low, Even
  <2>4. 1 \in 1..j - 1
    BY <1>1, <2>1, <2>3
  <2> QED
    BY <2>2, <2>4 DEF Exact, MuxShape
<1> QED
  BY <1>2 DEF Exact, MuxPlanned

(* A request is over that has not switched the mux. *)
LEMMA TailMux ==
    ASSUME IInv, Exact, calls # <<>>, calls' = Tail(calls), Head(calls).r # "set_mram_mux",
           mux' = mux, Alive' \subseteq Alive,
           \A c \in Alive : Settled(c)'.mux = Settled(c).mux,
           Head(calls).r \in Even =>
              /\ mask' = Alive'
              /\ \A c \in Alive : Chosen(c)' = IF Head(calls).r = "select_all_even_disabled" THEN Dpu ELSE {Head(calls).a}
    PROVE  MuxShape' /\ MuxPlanned'
<1>1. calls \in Seq(Request)
  BY CallsSeq DEF IInv
<1>2. /\ calls' \in Seq(Request) /\ Len(calls') = Len(calls) - 1 /\ Len(calls) \in Nat
      /\ \A j \in 1..Len(calls') : calls'[j] = calls[j + 1] /\ j + 1 \in 1..Len(calls)
      /\ Head(calls) = calls[1] /\ 1 \in 1..Len(calls)
  BY <1>1, TailCalls
<1>3. \A j \in Muxes' : j \in 1..Len(calls') /\ j + 1 \in Muxes /\ calls'[j] = calls[j + 1]
  BY <1>2 DEF Muxes
<1>4. ASSUME NEW j \in Muxes
      PROVE  j \in Int /\ j > 1 /\ j - 1 \in Muxes' /\ calls'[j - 1] = calls[j]
  <2>1. j \in 1..Len(calls) /\ calls[j].r = "set_mram_mux"
    BY DEF Muxes
  <2>2. j # 1
    BY <1>2, <2>1
  <2>3. j - 1 \in 1..Len(calls')
    BY <1>2, <2>1, <2>2
  <2>4. (j - 1) + 1 = j
    BY <2>1
  <2>5. calls'[j - 1] = calls[j]
    BY <1>2, <2>3, <2>4
  <2> QED
    BY <2>1, <2>2, <2>3, <2>5 DEF Muxes
<1>5. ASSUME NEW j \in Muxes'
      PROVE  /\ \A i \in 1..j - 1 : calls'[i] \in Low
             /\ j = 1 => mask' = Alive' /\ calls[1].r \in Even
             /\ j # 1 => calls'[j - 1].r \in Even
  <2>1. j \in 1..Len(calls') /\ j + 1 \in Muxes /\ j + 1 # 1
    BY <1>3
  <2>2. /\ \A i \in 1..(j + 1) - 1 : calls[i] \in Low
        /\ calls[(j + 1) - 1].r \in Even
    BY <2>1 DEF Exact, MuxShape
  <2>3. (j + 1) - 1 = j
    BY <2>1
  <2>4. calls[j].r \in Even
    BY <2>2, <2>3
  <2>5. ASSUME NEW i \in 1..j - 1
        PROVE  calls'[i] \in Low
    <3>1. i + 1 \in 1..j /\ i \in 1..Len(calls')
      BY <1>2, <2>1
    <3> QED
      BY <1>2, <2>2, <2>3, <3>1
  <2>6. j = 1 => mask' = Alive' /\ calls[1].r \in Even
    BY <1>2, <2>4
  <2>7. ASSUME j # 1
        PROVE  calls'[j - 1].r \in Even
    <3>1. j - 1 \in 1..Len(calls') /\ (j - 1) + 1 = j
      BY <1>2, <2>1, <2>7
    <3>2. calls'[j - 1] = calls[j]
      BY <1>2, <3>1
    <3> QED
      BY <2>4, <3>2
  <2> QED
    BY <2>5, <2>6, <2>7
<1>6. ASSUME NEW j \in Muxes', NEW c \in Alive
      PROVE  Aim(j, c)' = Aim(j + 1, c)
  <2>1. j \in 1..Len(calls') /\ j + 1 # 1 /\ (j + 1) - 1 = j
    BY <1>3
  <2>2. Aim(j + 1, c) = IF calls[j].r = "select_all_even_disabled" THEN Dpu ELSE {calls[j].a}
    BY <2>1 DEF Aim
  <2>3. CASE j = 1
    <3>1. Aim(j, c)' = Chosen(c)'
      BY <2>3 DEF Aim
    <3> QED
      BY <1>2, <1>5, <2>2, <2>3, <3>1
  <2>4. CASE j # 1
    <3>1. j - 1 \in 1..Len(calls') /\ (j - 1) + 1 = j
      BY <1>2, <2>1, <2>4
    <3>2. calls'[j - 1] = calls[j]
      BY <1>2, <3>1
    <3>3. Aim(j, c)' = IF calls'[j - 1].r = "select_all_even_disabled" THEN Dpu ELSE {calls'[j - 1].a}
      BY <2>4 DEF Aim
    <3> QED
      BY <2>2, <3>2, <3>3
  <2> QED
    BY <2>3, <2>4
<1>7. ASSUME NEW c \in Alive, NEW d \in Int
      PROVE  /\ \A j \in Muxes' : d \in Aim(j, c)' => (d \in mux[c] <=> c \in calls'[j].cis)
             /\ (\A j \in Muxes' : d \notin Aim(j, c)') => (d \in mux[c] <=> d \in Settled(c)'.mux)
  <2>1. /\ \A j \in Muxes : d \in Aim(j, c) => (d \in mux[c] <=> c \in calls[j].cis)
        /\ (\A j \in Muxes : d \notin Aim(j, c)) => (d \in mux[c] <=> d \in Settled(c).mux)
    BY DEF Exact, MuxPlanned
  <2>2. \A j \in Muxes' : d \in Aim(j, c)' => (d \in mux[c] <=> c \in calls'[j].cis)
    BY <1>3, <1>6, <2>1
  <2>3. ASSUME \A j \in Muxes' : d \notin Aim(j, c)'
        PROVE  \A j \in Muxes : d \notin Aim(j, c)
    <3> SUFFICES ASSUME NEW j \in Muxes
                 PROVE  d \notin Aim(j, c)
      OBVIOUS
    <3>1. j - 1 \in Muxes' /\ (j - 1) + 1 = j
      BY <1>4
    <3>2. Aim(j - 1, c)' = Aim((j - 1) + 1, c)
      BY <1>6, <3>1
    <3> QED
      BY <2>3, <3>1, <3>2
  <2> QED
    BY <2>1, <2>2, <2>3
<1>8. MuxShape'
  BY <1>5 DEF MuxShape
<1>9. MuxPlanned'
  BY <1>7 DEF MuxPlanned
<1> QED
  BY <1>8, <1>9

(* The DPUs that are enabled while the rank is reset. *)
AllEnabled == \A c \in Ci : enabled[c] = IF saved[c] = {} THEN {} ELSE Dpu

(* A request is over: what is left of a reset, of a change of groups. *)
LEMMA TailPlan ==
    ASSUME IInv, Exact, calls # <<>>, calls' = Tail(calls),
           Head(calls).r = "save" => AllEnabled',
           Head(calls).r \notin {"save", "disabled", "restore"} => UNCHANGED <<enabled, saved>>,
           Head(calls).r = "select_dpu" => OneDpu'
    PROVE  ResetPlan' /\ WritePlan'
<1>1. calls \in Seq(Request)
  BY CallsSeq DEF IInv
<1>2. /\ calls' \in Seq(Request) /\ Len(calls') = Len(calls) - 1 /\ Len(calls) \in Nat
      /\ \A j \in 1..Len(calls') : calls'[j] = calls[j + 1] /\ j + 1 \in 1..Len(calls)
      /\ Head(calls) = calls[1] /\ 1 \in 1..Len(calls)
  BY <1>1, TailCalls
<1>6. PICK n, k : n = Len(calls) /\ k = Len(calls')
  OBVIOUS
<1>7. n = Len(calls) /\ k = Len(calls') /\ n \in Nat /\ k = n - 1
  BY <1>2, <1>6
<1>8. /\ \A j \in 1..k : calls'[j] = calls[j + 1] /\ j + 1 \in 1..n
      /\ Head(calls) = calls[1] /\ 1 \in 1..n
  BY <1>2, <1>7
<1>3. ASSUME NEW i \in 1..k, calls'[i].r = "restore"
      PROVE  /\ i = k
             /\ \A j \in 1..k : calls'[j].r # "disabled"
             /\ AllEnabled'
  <2>1. i + 1 \in 1..n /\ calls[i + 1].r = "restore"
    BY <1>7, <1>8, <1>3
  <2>2. /\ i + 1 = n
        /\ \A j \in 1..n : calls[j].r # "disabled"
        /\ calls[1].r = "save" \/ AllEnabled
    BY <1>7, <2>1 DEF Exact, ResetPlan, AllEnabled
  <2>3. i = k
    BY <1>7, <1>8, <2>2
  <2>4. calls[1].r \notin {"disabled", "restore"}
    <3>1. calls[1].r # "disabled"
      BY <1>7, <1>8, <2>2
    <3>2. ASSUME calls[1].r = "restore"
          PROVE  FALSE
      <4>1. 1 = n
        BY <1>7, <1>8, <3>2 DEF Exact, ResetPlan
      <4> QED
        BY <2>1, <4>1
    <3> QED
      BY <3>1, <3>2
  <2>5. AllEnabled'
    BY <1>7, <1>8, <2>2, <2>4 DEF AllEnabled
  <2> QED
    BY <1>7, <1>8, <2>2, <2>3, <2>5
<1>4. ResetPlan'
  BY <1>3, <1>7 DEF ResetPlan, AllEnabled
<1>5. ASSUME NEW j \in 1..k, calls'[j].r = "write_group", calls'[j].a # EnabledGroup
      PROVE  IF j = 1 THEN OneDpu' ELSE calls'[j - 1].r = "select_dpu"
  <2>1. j + 1 \in 1..n /\ calls[j + 1] = calls'[j] /\ j + 1 # 1 /\ (j + 1) - 1 = j
    BY <1>7, <1>8
  <2>2. calls[(j + 1) - 1].r = "select_dpu"
    BY <1>5, <1>7, <2>1 DEF Exact, WritePlan
  <2>3. calls[j].r = "select_dpu"
    BY <2>1, <2>2
  <2>4. ASSUME j # 1
        PROVE  calls'[j - 1].r = "select_dpu"
    <3>1. j - 1 \in 1..k /\ (j - 1) + 1 = j
      BY <1>7, <1>8, <2>4
    <3>2. calls'[j - 1] = calls[j]
      BY <1>7, <1>8, <3>1
    <3> QED
      BY <2>3, <3>2
  <2> QED
    BY <1>7, <1>8, <2>3, <2>4
<1>9. WritePlan'
  BY <1>5, <1>7 DEF WritePlan
<1> QED
  BY <1>4, <1>9

(* Requests that other requests are made of. *)
Reboots(q) == q.r = "frame" /\ q.a.k = "reboot"
Inner == {q \in Harmless : q.r \notin {"save", "disabled", "restore"} /\ ~Reboots(q)}

(* A request makes way for others, followed by what is left of the call.   *)
LEMMA MoreCallsLeft ==
    ASSUME NEW s \in Seq(Request), s # <<>>, NEW more \in Seq(Inner)
    PROVE  LET t == more \o Tail(s) IN
           /\ t \in Seq(Request) /\ Len(t) = Len(more) + Len(s) - 1 /\ Len(more) \in Nat /\ Len(s) \in Nat
           /\ \A j \in 1..Len(more) : t[j] = more[j] /\ more[j] \in Inner
           /\ \A j \in 1..Len(t) : j > Len(more) => t[j] = s[j - Len(more) + 1] /\ j - Len(more) + 1 \in 2..Len(s)
<1>1. Inner \subseteq Request
  BY DEF Inner, Harmless
<1>2. more \in Seq(Request)
  BY <1>1
<1>3. PICK u : u = Tail(s)
  OBVIOUS
<1>4. /\ u \in Seq(Request) /\ Len(u) = Len(s) - 1 /\ Len(s) \in Nat
      /\ \A j \in 1..Len(u) : u[j] = s[j + 1] /\ j + 1 \in 1..Len(s)
  BY <1>3, TailCalls
<1>5. PICK t : t = more \o u
  OBVIOUS
<1>6. /\ t \in Seq(Request) /\ Len(t) = Len(more) + Len(u)
      /\ \A j \in 1..Len(more) : t[j] = more[j]
      /\ \A j \in 1..Len(t) : j > Len(more) => t[j] = u[j - Len(more)]
  <2>1. /\ t \in Seq(Request) /\ Len(t) = Len(more) + Len(u)
        /\ \A j \in 1..Len(more) + Len(u) : t[j] = IF j <= Len(more) THEN more[j] ELSE u[j - Len(more)]
    BY <1>2, <1>4, <1>5, ConcatProperties
  <2>2. PICK n \in Nat, k \in Nat : n = Len(more) /\ k = Len(u)
    BY <1>2, <1>4
  <2>3. \A j \in 1..n : j \in 1..n + k /\ j <= n
    BY <2>2
  <2>4. \A j \in 1..n : t[j] = more[j]
    BY <2>1, <2>2, <2>3
  <2>5. \A j \in 1..n + k : j > n => t[j] = u[j - n]
    BY <2>1, <2>2
  <2> QED
    BY <2>1, <2>2, <2>4, <2>5
<1>7. Len(more) \in Nat /\ \A j \in 1..Len(more) : more[j] \in Inner
  OBVIOUS
<1>8. ASSUME NEW j \in 1..Len(t), j > Len(more)
      PROVE  t[j] = s[j - Len(more) + 1] /\ j - Len(more) + 1 \in 2..Len(s)
  <2>1. j - Len(more) \in 1..Len(u)
    BY <1>4, <1>6, <1>7, <1>8
  <2>2. t[j] = u[j - Len(more)]
    BY <1>6, <1>8
  <2>3. u[j - Len(more)] = s[(j - Len(more)) + 1]
    BY <1>4, <2>1
  <2> QED
    BY <1>4, <1>7, <2>1, <2>2, <2>3
<1>9. Len(t) = Len(more) + Len(s) - 1
  BY <1>4, <1>6, <1>7
<1> QED
  BY <1>3, <1>4, <1>5, <1>6, <1>7, <1>8, <1>9

(* The CIs are left alone by what the host only records. *)
LEMMA SettledSame ==
    ASSUME UNCHANGED <<queue, hw, cmds>>
    PROVE  \A c \in Ci : Settled(c)' = Settled(c) /\ Final(c)' = Final(c)
  BY DEF Settled, Reached, Final

(* Requests that switch the DPUs of lines, to the host for the CIs of cis. *)
Aimed(s, j) == IF s[j - 1].r = "select_all_even_disabled" THEN Dpu ELSE {s[j - 1].a}
SwitchAt(s, j, cis) ==
    /\ j # 1 /\ s[j - 1].r \in Even /\ s[j].cis = cis
    /\ \A i \in 1..j - 1 : s[i] \in Low
Switching(s, lines, cis) ==
    /\ \A j \in 1..Len(s) : s[j].r = "set_mram_mux" =>
          SwitchAt(s, j, cis) /\ (\A d \in Aimed(s, j) : d \in lines)
    /\ \A d \in lines : \E j \in 1..Len(s) : s[j].r = "set_mram_mux" /\ d \in Aimed(s, j)

(* What the host has recorded of it.                                       *)
Recorded(lines, cis) ==
    \A c \in Alive : \A d \in Int :
       /\ d \in lines => (d \in mux'[c] <=> c \in cis)
       /\ d \notin lines => (d \in mux'[c] <=> d \in mux[c])

LEMMA MoreMux ==
    ASSUME IInv, Exact, calls # <<>>, Head(calls) \notin Low,
           NEW more \in Seq(Inner), calls' = more \o Tail(calls),
           NEW lines, NEW cis, Switching(more, lines, cis), UNCHANGED <<enabled, queue, hw, cmds, mask>>,
           Recorded(lines, cis)
    PROVE  MuxShape' /\ MuxPlanned'
<1>1. calls \in Seq(Request)
  BY CallsSeq DEF IInv
<1>2. PICK t, n, k : t = calls' /\ n = Len(more) /\ k = Len(calls')
  OBVIOUS
<1>3. /\ n \in Nat /\ k \in Nat /\ k >= n
      /\ \A j \in 1..n : t[j] = more[j] /\ more[j] \in Inner
      /\ \A j \in 1..k : j > n => t[j] = calls[j - n + 1] /\ j - n + 1 \in 2..Len(calls)
  <2>1. /\ t \in Seq(Request) /\ Len(t) = Len(more) + Len(calls) - 1 /\ Len(more) \in Nat /\ Len(calls) \in Nat
        /\ \A j \in 1..Len(more) : t[j] = more[j] /\ more[j] \in Inner
        /\ \A j \in 1..Len(t) : j > Len(more) => t[j] = calls[j - Len(more) + 1] /\ j - Len(more) + 1 \in 2..Len(calls)
    BY <1>1, <1>2, MoreCallsLeft
  <2>2. PICK l : l = Len(calls)
    OBVIOUS
  <2>3. n \in Nat /\ l \in Nat /\ k = n + l - 1
    BY <1>2, <2>1, <2>2
  <2>4. l >= 1
    BY <1>1, <2>2, TailCalls
  <2> QED
    BY <1>2, <2>1, <2>3, <2>4
<1>4. Muxes = {} /\ \A c \in Alive : \A d \in Int : d \in mux[c] <=> d \in Settled(c).mux
  BY NoMuxes
<1>5. ASSUME NEW j \in Muxes'
      PROVE  /\ j \in 1..n /\ t[j] = more[j] /\ SwitchAt(more, j, cis)
             /\ \A d \in Aimed(more, j) : d \in lines
  <2>1. j \in 1..k /\ t[j].r = "set_mram_mux"
    BY <1>2 DEF Muxes
  <2>2. ASSUME j > n
        PROVE  FALSE
    <3>1. t[j] = calls[j - n + 1] /\ j - n + 1 \in 2..Len(calls)
      BY <1>3, <2>1, <2>2
    <3>2. j - n + 1 \in Muxes
      BY <1>1, <2>1, <3>1 DEF Muxes
    <3> QED
      BY <1>4, <3>2
  <2>3. j \in 1..n
    BY <1>3, <2>1, <2>2
  <2>4. t[j] = more[j]
    BY <1>3, <2>3
  <2> QED
    BY <1>2, <2>1, <2>3, <2>4 DEF Switching
<1>6. ASSUME NEW j \in 1..n, more[j].r = "set_mram_mux"
      PROVE  j \in Muxes'
  BY <1>2, <1>3, <1>6 DEF Muxes
<1>7. ASSUME NEW j \in Muxes', NEW c \in Ci
      PROVE  /\ Aim(j, c)' = Aimed(more, j) /\ j # 1 /\ t[j - 1].r \in Even /\ t[j].cis = cis
             /\ \A i \in 1..j - 1 : t[i] \in Low
  <2>1. j \in 1..n /\ t[j] = more[j] /\ SwitchAt(more, j, cis)
    BY <1>5
  <2>2. j # 1 /\ more[j - 1].r \in Even /\ more[j].cis = cis /\ \A i \in 1..j - 1 : more[i] \in Low
    BY <2>1 DEF SwitchAt
  <2>3. \A i \in 1..j - 1 : i \in 1..n /\ t[i] = more[i]
    BY <1>3, <2>1
  <2>4. j - 1 \in 1..j - 1
    BY <1>3, <2>1, <2>2
  <2>5. Aim(j, c)' = IF t[j - 1].r = "select_all_even_disabled" THEN Dpu ELSE {t[j - 1].a}
    BY <1>2, <2>2 DEF Aim
  <2> QED
    BY <2>1, <2>2, <2>3, <2>4, <2>5 DEF Aimed
<1>8. MuxShape'
  <2>1. 0 \in Ci
    BY CiAssumption DEF Ci
  <2>2. \A j \in Muxes' : j # 1 /\ t[j - 1].r \in Even /\ \A i \in 1..j - 1 : t[i] \in Low
    BY <1>7, <2>1
  <2> QED
    BY <1>2, <2>2 DEF MuxShape
<1>9. \A c \in Ci : Settled(c)' = Settled(c)
  BY SettledSame
<1>10. ASSUME NEW c \in Alive, NEW d \in Int
       PROVE  /\ \A j \in Muxes' : d \in Aim(j, c)' => (d \in mux'[c] <=> c \in t[j].cis)
              /\ (\A j \in Muxes' : d \notin Aim(j, c)') => (d \in mux'[c] <=> d \in Settled(c)'.mux)
  <2>0. c \in Ci
    BY DEF Alive
  <2>1. ASSUME NEW j \in Muxes', d \in Aim(j, c)'
        PROVE  d \in mux'[c] <=> c \in t[j].cis
    <3>1. d \in lines /\ t[j].cis = cis
      BY <1>5, <1>7, <2>0, <2>1
    <3> QED
      BY <3>1 DEF Recorded
  <2>2. ASSUME \A j \in Muxes' : d \notin Aim(j, c)'
        PROVE  d \in mux'[c] <=> d \in Settled(c)'.mux
    <3>1. d \notin lines
      <4> SUFFICES ASSUME d \in lines
                   PROVE  FALSE
        OBVIOUS
      <4>1. PICK j \in 1..n : more[j].r = "set_mram_mux" /\ d \in Aimed(more, j)
        BY <1>2 DEF Switching
      <4>2. j \in Muxes'
        BY <1>6, <4>1
      <4> QED
        BY <1>7, <2>0, <2>2, <4>1, <4>2
    <3> QED
      BY <1>4, <1>9, <2>0, <3>1 DEF Recorded
  <2> QED
    BY <2>1, <2>2
<1>11. Alive' = Alive
  BY DEF Alive
<1>12. MuxPlanned'
  BY <1>2, <1>10, <1>11 DEF MuxPlanned
<1> QED
  BY <1>8, <1>12

(* The groups that requests give. *)
Writing(s) == \A j \in 1..Len(s) : (s[j].r = "write_group" /\ s[j].a # EnabledGroup) =>
                 j # 1 /\ s[j - 1].r = "select_dpu"

LEMMA MorePlan ==
    ASSUME IInv, Exact, calls # <<>>, Head(calls).r \notin {"save", "select_dpu"},
           NEW more \in Seq(Inner), calls' = more \o Tail(calls), Writing(more), UNCHANGED <<enabled, saved, mask, target>>
    PROVE  ResetPlan' /\ WritePlan'
<1>1. calls \in Seq(Request)
  BY CallsSeq DEF IInv
<1>2. PICK t, n, k, l : t = calls' /\ n = Len(more) /\ k = Len(calls') /\ l = Len(calls)
  OBVIOUS
<1>3. /\ n \in Nat /\ l \in Nat /\ k = n + l - 1 /\ l >= 1 /\ Head(calls) = calls[1]
      /\ \A j \in 1..n : t[j] = more[j] /\ more[j] \in Inner
      /\ \A j \in 1..k : j > n => t[j] = calls[j - n + 1] /\ j - n + 1 \in 2..l
  <2>1. /\ t \in Seq(Request) /\ Len(t) = Len(more) + Len(calls) - 1 /\ Len(more) \in Nat /\ Len(calls) \in Nat
        /\ \A j \in 1..Len(more) : t[j] = more[j] /\ more[j] \in Inner
        /\ \A j \in 1..Len(t) : j > Len(more) => t[j] = calls[j - Len(more) + 1] /\ j - Len(more) + 1 \in 2..Len(calls)
    BY <1>1, <1>2, MoreCallsLeft
  <2>2. n \in Nat /\ l \in Nat /\ k = n + l - 1
    BY <1>2, <2>1
  <2>3. l >= 1 /\ Head(calls) = calls[1]
    BY <1>1, <1>2, TailCalls
  <2> QED
    BY <1>2, <2>1, <2>2, <2>3
<1>4. \A j \in 1..k : j <= n => t[j].r \notin {"restore", "disabled"} /\ t[j] = more[j]
  <2>1. \A q \in Inner : q.r \notin {"restore", "disabled"}
    BY DEF Inner
  <2> QED
    BY <1>3, <2>1
<1>5. ASSUME NEW i \in 1..k, t[i].r = "restore"
      PROVE  /\ i = k /\ AllEnabled'
             /\ \A j \in 1..k : t[j].r # "disabled"
  <2>1. i > n
    BY <1>3, <1>4, <1>5
  <2>2. i - n + 1 \in 2..l /\ calls[i - n + 1].r = "restore"
    BY <1>3, <1>5, <2>1
  <2>3. i - n + 1 \in 1..l
    BY <1>3, <2>2
  <2>4. /\ i - n + 1 = l
        /\ \A j \in 1..l : calls[j].r # "disabled"
        /\ calls[1].r = "save" \/ AllEnabled
    BY <1>2, <2>2, <2>3 DEF Exact, ResetPlan, AllEnabled
  <2>5. i = k
    BY <1>3, <2>4
  <2>6. AllEnabled'
    BY <1>3, <2>4 DEF AllEnabled
  <2>7. ASSUME NEW j \in 1..k
        PROVE  t[j].r # "disabled"
    <3>1. CASE j <= n
      BY <1>4, <3>1
    <3>2. CASE j > n
      <4>1. t[j] = calls[j - n + 1] /\ j - n + 1 \in 1..l
        BY <1>3, <3>2
      <4> QED
        BY <2>4, <4>1
    <3> QED
      BY <1>3, <3>1, <3>2
  <2> QED
    BY <2>5, <2>6, <2>7
<1>6. ResetPlan'
  BY <1>2, <1>5 DEF ResetPlan, AllEnabled
<1>7. ASSUME NEW j \in 1..k, t[j].r = "write_group", t[j].a # EnabledGroup
      PROVE  j # 1 /\ t[j - 1].r = "select_dpu"
  <2>1. CASE j <= n
    <3>1. t[j] = more[j] /\ j \in 1..n
      BY <1>3, <2>1
    <3>2. j # 1 /\ more[j - 1].r = "select_dpu"
      BY <1>2, <1>7, <3>1 DEF Writing
    <3>3. t[j - 1] = more[j - 1]
      BY <1>3, <3>1, <3>2
    <3> QED
      BY <3>2, <3>3
  <2>2. CASE j > n
    <3>1. t[j] = calls[j - n + 1] /\ j - n + 1 \in 2..l
      BY <1>3, <2>2
    <3>2. j - n + 1 \in 1..l /\ j - n + 1 # 1 /\ (j - n + 1) - 1 = j - n
      BY <1>3, <3>1
    <3>3. calls[j - n].r = "select_dpu"
      BY <1>2, <1>7, <3>1, <3>2 DEF Exact, WritePlan
    <3>4. j - n # 1
      BY <1>3, <3>3
    <3>5. j - 1 \in 1..k /\ j - 1 > n /\ (j - 1) - n + 1 = j - n
      BY <1>3, <2>2, <3>4
    <3>6. t[j - 1] = calls[(j - 1) - n + 1]
      BY <1>3, <3>5
    <3> QED
      BY <1>3, <3>3, <3>5, <3>6
  <2> QED
    BY <1>3, <2>1, <2>2
<1>8. WritePlan'
  BY <1>2, <1>7 DEF WritePlan
<1> QED
  BY <1>6, <1>8

-----------------------------------------------------------------------------
(***************************************************************************)
(* The steps of the CIs and of exec_cmd change nothing of what will be.    *)
(***************************************************************************)

LEMMA SilentExact ==
    ASSUME IInv, Exact, UNCHANGED <<caches, config, calls, mask, failed>>, QueueInv', QuietInv',
           \A c \in Ci : Settled(c)' = Settled(c) /\ Final(c)' = Final(c)
    PROVE  Exact'
<1>1. UNCHANGED <<target, structure, groups, enabled, saved, mux>>
  BY DEF caches, config
<1>2. Alive' = Alive /\ Alive \subseteq Ci /\ Muxes' = Muxes
  BY <1>1 DEF Alive, Muxes
<1>3. \A c \in Ci : Chosen(c)' = Chosen(c)
  BY <1>1 DEF Chosen
<1>4. CacheType' /\ StructureExact' /\ ReplayIdle'
  BY <1>1 DEF Exact, CacheType, StructureExact, ReplayIdle
<1>5. TargetExact' /\ GroupExact'
  BY <1>1, <1>2, <1>3 DEF Exact, TargetExact, GroupExact
<1>6. MaskSelected' /\ MuxShape' /\ ResetPlan' /\ WritePlan'
  <2>1. MaskSelected'
    BY <1>1 DEF Exact, MaskSelected
  <2>2. MuxShape'
    BY <1>2 DEF Exact, MuxShape
  <2>3. ResetPlan'
    BY <1>1 DEF Exact, ResetPlan
  <2>4. WritePlan'
    BY <1>1 DEF Exact, WritePlan, OneDpu
  <2> QED
    BY <2>1, <2>2, <2>3, <2>4
<1>7. \A c \in Ci : \A j \in Muxes : Aim(j, c)' = Aim(j, c)
  BY <1>3 DEF Aim
<1>8. MuxPlanned'
  BY <1>1, <1>2, <1>7 DEF Exact, MuxPlanned
<1> QED
  BY <1>4, <1>5, <1>6, <1>8 DEF Exact

LEMMA ExecuteSettled ==
    ASSUME IInv, Exact, NEW e \in Ci, Execute(e)
    PROVE  /\ UNCHANGED <<queue, cmds, caches, config, calls, mask, failed, wait>>
           /\ QueueInv' /\ QuietInv' /\ \A c \in Ci : Settled(c)' = Settled(c) /\ Final(c)' = Final(c)
           /\ hw'[e].pending = Empty /\ State(hw'[e]) = Reached(e) /\ \A c \in Ci : c # e => hw'[c] = hw[c]
<1> DEFINE h == Executed(hw[e], hw[e].pending)
<1>1. hw \in [Ci -> Device] /\ hw[e] \in Device /\ hw[e].pending \in Words
  BY DEF IInv, CiType, Device
<1>2. h \in Device
  BY <1>1, ExecutedDevice
<1>3. hw' = [hw EXCEPT ![e] = [h EXCEPT !.shown = hw[e].color, !.color = 1 - hw[e].color, !.pending = Empty]]
  BY DEF Execute
<1>4. State(h) = Reached(e)
  BY <1>1, ExecutedState DEF Reached
<1> HIDE DEF h
<1>5. /\ hw'[e].pending = Empty /\ State(hw'[e]) = State(h)
      /\ \A c \in Ci : c # e => hw'[c] = hw[c]
  <2>1. hw'[e] = [h EXCEPT !.shown = hw[e].color, !.color = 1 - hw[e].color, !.pending = Empty]
    BY <1>1, <1>3
  <2>2. /\ hw'[e].pending = Empty /\ hw'[e].structure = h.structure /\ hw'[e].selected = h.selected
        /\ hw'[e].group = h.group /\ hw'[e].mux = h.mux
    BY <1>2, <2>1 DEF Device
  <2> QED
    BY <1>1, <1>3, <2>2 DEF State
<1>6. \A c \in Ci : Reached(c)' = Reached(c)
  <2>1. Reached(e)' = Executed(State(h), Empty)
    BY <1>5 DEF Reached
  <2>2. Reached(e)' = Reached(e)
    BY <1>4, <2>1, EmptyIdle
  <2> QED
    BY <1>5, <2>2 DEF Reached
<1>7. UNCHANGED <<queue, cmds, caches, config, calls, mask, failed, wait>>
  BY DEF Execute, engine, count
<1>8. \A c \in Ci : Settled(c)' = Settled(c) /\ Final(c)' = Final(c)
  BY <1>6, <1>7 DEF Settled, Final
<1>9. QueueInv' /\ QuietInv'
  BY <1>5, <1>7 DEF Exact, QueueInv, QuietInv
<1> QED
  BY <1>4, <1>5, <1>7, <1>8, <1>9

LEMMA ExecuteExact ==
    ASSUME IInv, Exact, NEW e \in Ci, Execute(e)
    PROVE  Exact'
  BY ExecuteSettled, SilentExact

LEMMA CommitSettled ==
    ASSUME IInv, Exact, Commit, ~lost'
    PROVE  /\ UNCHANGED <<caches, config, calls, mask, failed>>
           /\ queue \in Seq(Cmd) /\ queue # <<>> /\ queue' = Tail(queue)
           /\ QueueInv' /\ QuietInv' /\ \A c \in Ci : Settled(c)' = Settled(c) /\ Final(c)' = Final(c)
           /\ \A c \in Ci : State(hw'[c]) = State(hw[c]) /\ hw'[c].pending \in {Empty, queue[1].words[c]}
<1> DEFINE words == queue[1].words
           m == CisOf(words)
<1>1. queue \in Seq(Cmd) /\ queue # <<>> /\ ~wait.on /\ Head(queue) = queue[1]
  BY DEF Commit, IInv, CiType
<1>2. /\ hw' = Received(m, words) /\ queue' = Tail(queue)
      /\ wait' = [in |-> m, expect |-> color, done |-> {}, tries |-> 0, on |-> TRUE]
      /\ cmds' = IF queue[1].shared THEN words ELSE cmds
      /\ UNCHANGED <<caches, config, calls, mask, failed>>
  BY <1>1 DEF Commit, Fails, count
<1>3. hw \in [Ci -> Device] /\ m \in SUBSET Ci
  BY DEF IInv, CiType, CisOf
<1>4. ASSUME NEW c \in Ci
      PROVE  /\ Reached(c)' = Executed(Reached(c), words[c])
             /\ hw'[c].pending # Empty => wait'.on /\ c \in wait'.in
             /\ State(hw'[c]) = State(hw[c]) /\ hw'[c].pending \in {Empty, words[c]}
  <2>1. hw[c].pending = Empty /\ hw[c] \in Device
    BY <1>1, <1>3 DEF Exact, QuietInv
  <2>2. Reached(c) = State(hw[c])
    BY <2>1, EmptyIdle DEF Reached
  <2>3. CASE c \in m
    <3>1. hw'[c] = [hw[c] EXCEPT !.pending = words[c]]
      BY <1>2, <2>3 DEF Received
    <3>2. hw'[c].pending = words[c] /\ State(hw'[c]) = State(hw[c])
      BY <2>1, <3>1 DEF Device, State
    <3> QED
      BY <1>2, <2>2, <2>3, <3>2 DEF Reached
  <2>4. CASE c \notin m
    <3>1. hw'[c] = hw[c] /\ words[c] = Empty
      BY <1>2, <2>4 DEF Received, CisOf
    <3> QED
      BY <2>1, <2>2, <3>1, EmptyIdle DEF Reached
  <2> QED
    BY <2>3, <2>4
<1>5. QuietInv'
  BY <1>4 DEF QuietInv
<1>6. CASE Len(queue) = 1
  <2>1. queue' = <<>>
    BY <1>1, <1>2, <1>6
  <2>2. cmds' = words
    BY <1>1, <1>2, <1>6 DEF Exact, QueueInv
  <2>3. QueueInv'
    BY <2>1 DEF QueueInv
  <2>4. \A c \in Ci : Settled(c)' = Settled(c) /\ Final(c)' = Final(c)
    <3> SUFFICES ASSUME NEW c \in Ci
                 PROVE  Settled(c)' = Settled(c) /\ Final(c)' = Final(c)
      OBVIOUS
    <3>1. Settled(c)' = Reached(c)' /\ Final(c)' = words[c]
      BY <2>1, <2>2 DEF Settled, Final
    <3>2. Settled(c) = Executed(Reached(c), words[c]) /\ Final(c) = words[c]
      BY <1>1, <1>6 DEF Settled, Final
    <3> QED
      BY <1>4, <3>1, <3>2
  <2> QED
    BY <1>1, <1>2, <1>4, <1>5, <2>3, <2>4
<1>7. CASE Len(queue) = 2
  <2>1. Len(queue') = 1 /\ queue' # <<>> /\ queue'[1] = queue[2]
    <3>1. Len(Tail(queue)) = Len(queue) - 1
      BY <1>1
    <3>2. Len(Tail(queue)) = 1
      BY <1>7, <3>1
    <3>3. Tail(queue)[1] = queue[2]
      BY <1>1, <1>7
    <3>4. Len(<<>>) = 0 /\ 0 # 1
      OBVIOUS
    <3>5. Tail(queue) # <<>>
      BY <3>2, <3>4, Zenon
    <3> QED
      BY <1>2, <3>2, <3>3, <3>5
  <2>2. queue[2].shared
    BY <1>1, <1>7 DEF Exact, QueueInv
  <2>3. QueueInv'
    BY <2>1, <2>2 DEF QueueInv
  <2>4. \A c \in Ci : Settled(c)' = Settled(c) /\ Final(c)' = Final(c)
    <3> SUFFICES ASSUME NEW c \in Ci
                 PROVE  Settled(c)' = Settled(c) /\ Final(c)' = Final(c)
      OBVIOUS
    <3>1. Settled(c)' = Executed(Reached(c)', queue[2].words[c]) /\ Final(c)' = queue[2].words[c]
      BY <2>1 DEF Settled, Final
    <3>2. 2 # 1
      OBVIOUS
    <3>3. /\ Settled(c) = Executed(Executed(Reached(c), words[c]), queue[2].words[c])
          /\ Final(c) = queue[2].words[c]
      BY <1>1, <1>7, <3>2, Zenon DEF Settled, Final
    <3> QED
      BY <1>4, <3>1, <3>3
  <2> QED
    BY <1>1, <1>2, <1>4, <1>5, <2>3, <2>4
<1>8. Len(queue) # 0
  BY <1>1
<1> QED
  BY <1>6, <1>7, <1>8 DEF Exact, QueueInv

LEMMA CommitExact ==
    ASSUME IInv, Exact, Commit, ~lost'
    PROVE  Exact'
  BY CommitSettled, SilentExact

LEMMA UpdateExact ==
    ASSUME IInv, Exact, Update, ~lost'
    PROVE  Exact'
<1>1. wait.on /\ UNCHANGED <<caches, config, cmds, hw, calls, queue, mask, failed>>
  BY DEF Update, Fails, count
<1>2. QueueInv' /\ \A c \in Ci : Settled(c)' = Settled(c) /\ Final(c)' = Final(c)
  BY <1>1, SettledSame DEF Exact, QueueInv
<1>3. QuietInv'
  <2>1. CASE wait' = [wait EXCEPT !.done = Answered, !.tries = @ + 1]
    <3>1. wait'.on = wait.on /\ wait'.in = wait.in
      BY <2>1 DEF IInv, CiType, Waiting
    <3> QED
      BY <1>1, <3>1 DEF Exact, QuietInv
  <2>2. CASE Answered = wait.in
    <3> SUFFICES ASSUME NEW c \in Ci, hw[c].pending # Empty
                 PROVE  FALSE
      BY <1>1 DEF QuietInv
    <3>1. c \in wait.in
      BY DEF Exact, QuietInv
    <3>2. InStep(c)
      BY <1>1, <3>1 DEF IInv, StepInv, Dead, Exact
    <3>3. c \in Answered
      BY <2>2, <3>1
    <3> QED
      BY <1>1, <3>1, <3>2, <3>3 DEF InStep, Answered
  <2> QED
    BY <2>1, <2>2 DEF Update, Fails
<1> QED
  BY <1>1, <1>2, <1>3, SilentExact

-----------------------------------------------------------------------------
(***************************************************************************)
(* Requests that send commands.                                            *)
(***************************************************************************)

LEMMA Over ==
    ASSUME IInv, calls # <<>>, Proceed(<<>>)
    PROVE  calls' = Tail(calls) /\ UNCHANGED <<wait, failed, hw>>
<1>1. calls \in Seq(Request)
  BY CallsSeq DEF IInv
<1>2. Tail(calls) \in Seq(Request)
  BY <1>1, TailCalls
<1> QED
  BY <1>2, ConcatEmptySeq DEF Proceed, count

(* A request that sends frames to the CIs of m, none of them to the mux.   *)
LEMMA FrameExact ==
    ASSUME IInv, Exact, calls # <<>>, queue = <<>>, ~wait.on, calls' = Tail(calls), UNCHANGED <<wait, failed, hw, config>>,
           NEW m \in SUBSET Ci, NEW want, \A c \in m : want[c] \in Frame /\ want[c].k # "mux", SentTo(m, want),
           Head(calls).r \notin {"save", "disabled", "restore", "set_mram_mux"},
           CacheType', TargetExact', GroupExact', MaskSelected',
           Head(calls).r = "select_dpu" => OneDpu',
           Head(calls).r \in Even =>
              /\ mask' = Alive
              /\ \A c \in Alive : Chosen(c)' = IF Head(calls).r = "select_all_even_disabled" THEN Dpu ELSE {Head(calls).a}
    PROVE  Exact'
<1>1. UNCHANGED <<enabled, saved, mux>>
  BY DEF config
<1>2. QuietInv' /\ ~failed'
  BY DEF Exact, QuietInv
<1>3. QueueInv' /\ StructureExact' /\ ReplayIdle'
  BY DEF SentTo
<1>4. \A c \in Ci : Settled(c)'.mux = Settled(c).mux
  <2> SUFFICES ASSUME NEW c \in Ci
               PROVE  Settled(c)'.mux = Settled(c).mux
    OBVIOUS
  <2>1. CASE c \in m
    <3>1. Settled(c) \in Core /\ want[c] \in Frame /\ want[c].k # "mux" /\ Settled(c)' = Sent(Settled(c), want[c])
      BY <2>1, AtRequest DEF SentTo
    <3>2. Effect(Settled(c), want[c], Settled(c)')
      BY <3>1, SentFacts
    <3> QED
      BY <3>1, <3>2 DEF Effect
  <2>2. CASE c \notin m
    BY <2>2 DEF SentTo
  <2> QED
    BY <2>1, <2>2
<1>5. Alive' = Alive /\ Alive \subseteq Ci
  BY <1>1 DEF Alive
<1>6. MuxShape' /\ MuxPlanned'
  BY <1>1, <1>4, <1>5, TailMux
<1>7. ResetPlan' /\ WritePlan'
  BY <1>1, TailPlan
<1> QED
  BY <1>2, <1>3, <1>6, <1>7 DEF Exact

(* Nothing has been sent. *)
LEMMA NothingSent ==
    ASSUME IInv, Exact, UNCHANGED <<queue, hw, cmds, structure>>
    PROVE  \A want : SentTo({}, want)
<1>1. \A c \in Ci : Settled(c)' = Settled(c) /\ Final(c)' = Final(c)
  BY SettledSame
<1>2. QueueInv' /\ StructureExact' /\ ReplayIdle' /\ structure' \in [Ci -> Int]
  BY <1>1 DEF Exact, QueueInv, StructureExact, ReplayIdle, CacheType
<1> QED
  BY <1>1, <1>2 DEF SentTo

(* What a word of selection selects. *)
LEMMA Selects ==
    ASSUME NEW x \in Core, NEW w \in Selection
    PROVE  /\ Sent(x, w).selected = CASE w.k = "select all" -> Dpu
                                      [] w.k = "select dpu" -> {w.a}
                                      [] w.k = "select group" -> {d \in Dpu : x.group[d] = w.a}
           /\ Sent(x, w).group = x.group
<1>1. w \in Frame /\ w.k \in {"select all", "select group", "select dpu"}
  BY DEF Selection
<1>2. Effect(x, w, Sent(x, w))
  BY <1>1, SentFacts
<1> QED
  BY <1>1, <1>2 DEF Effect

(* The fields of a word. *)
LEMMA WordFields ==
    /\ \A x, y : Word(x, y).k = x /\ Word(x, y).a = y
    /\ Empty.k = "empty" /\ SelectAll.k = "select all" /\ SelectGroup.k = "select group" /\ SelectGroup.a = EnabledGroup
<1>1. \A x, y : Word(x, y).k = x /\ Word(x, y).a = y
  BY DEF Word
<1> QED
  BY <1>1 DEF Empty, SelectAll, SelectGroup

LEMMA SelectionWord ==
    \A w \in Selection : w \in Frame /\ w # Empty /\ w.k # "mux"
<1> SUFFICES ASSUME NEW w \in Selection
             PROVE  w \in Frame /\ w # Empty /\ w.k # "mux"
  OBVIOUS
<1>1. w \in Frame /\ w.k \in {"select all", "select group", "select dpu"}
  BY DEF Selection
<1>2. Empty.k = "empty"
  BY WordFields
<1> QED
  BY <1>1, <1>2

(* The words that a request of selection sends. *)
AsAsked(q, m, want) ==
    /\ q.r \in {"select_dpu", "select_dpu_even_disabled"} => \A c \in m : want[c] = Word("select dpu", q.a)
    /\ q.r = "select_all_even_disabled" => \A c \in m : want[c] = SelectAll
    /\ q.r \in Even => m = Alive

(* A selection of the CIs of m that have not been selected, or of all.     *)
LEMMA SelectionExact ==
    ASSUME IInv, Exact, calls # <<>>, queue = <<>>, ~wait.on, calls' = Tail(calls), UNCHANGED <<wait, failed, hw, config, groups>>,
           Head(calls).r \in {"select_all", "select_dpu"} \cup Even,
           NEW m \in SUBSET Ci, NEW do \in SUBSET m, NEW want, SentTo(do, want),
           \A c \in m : want[c] \in Selection,
           \A c \in m \ do : target[c] = want[c],
           mask' = m, target' = [c \in Ci |-> IF c \in m THEN want[c] ELSE target[c]],
           AsAsked(Head(calls), m, want)
    PROVE  Exact'
<1>1. \A c \in Ci : Settled(c) \in Core
  BY AtRequest
<1>2. \A c \in Selection : c \in Frame /\ c # Empty /\ c.k # "mux"
  BY SelectionWord
<1>3. CacheType'
  <2>1. target' \in [Ci -> Selection \cup {Empty}]
    BY DEF Exact, CacheType
  <2>2. structure' \in [Ci -> Int] /\ mux' = mux /\ groups' = groups
    BY DEF SentTo, config
  <2> QED
    BY <2>1, <2>2 DEF Exact, CacheType
<1>4. Alive' = Alive /\ Alive \subseteq Ci
  BY DEF Alive, config
<1>5. \A c \in Ci : c \notin do => target'[c] = target[c] /\ Settled(c)' = Settled(c)
  BY DEF SentTo
<1>6. ASSUME NEW c \in do
      PROVE  Settled(c)' = Sent(Settled(c), want[c]) /\ target'[c] = want[c] /\ c \in Ci /\ want[c] \in Selection
  BY DEF SentTo
<1>7. \A c \in Ci : Settled(c)'.group = Settled(c).group
  <2> SUFFICES ASSUME NEW c \in do
               PROVE  Settled(c)'.group = Settled(c).group
    BY <1>5
  <2>1. Settled(c)' = Sent(Settled(c), want[c]) /\ c \in Ci /\ want[c] \in Selection /\ Settled(c) \in Core
    BY <1>1, <1>6
  <2>2. Sent(Settled(c), want[c]).group = Settled(c).group
    BY <2>1, Selects
  <2> QED
    BY <2>1, <2>2
<1>8. GroupExact'
  BY <1>4, <1>7 DEF Exact, GroupExact
<1>9. TargetExact'
  <2> SUFFICES ASSUME NEW c \in Alive, target'[c] # Empty
               PROVE  Settled(c)'.selected = Chosen(c)'
    BY <1>4 DEF TargetExact
  <2>1. CASE c \in do
    <3>1. PICK w : w = want[c]
      OBVIOUS
    <3>2. /\ Settled(c)' = Sent(Settled(c), w) /\ target'[c] = w /\ w \in Selection /\ Settled(c) \in Core
          /\ groups'[c] = Settled(c).group
      BY <1>1, <1>4, <1>6, <2>1, <3>1 DEF Exact, GroupExact
    <3>3. Settled(c)'.selected = CASE w.k = "select all" -> Dpu
                                   [] w.k = "select dpu" -> {w.a}
                                   [] w.k = "select group" -> {d \in Dpu : Settled(c).group[d] = w.a}
      BY <3>2, Selects
    <3> QED
      BY <3>2, <3>3 DEF Chosen
  <2>2. CASE c \notin do
    <3>1. Chosen(c)' = Chosen(c)
      BY <1>4, <1>5, <2>2 DEF Chosen
    <3> QED
      BY <1>4, <1>5, <2>2, <3>1 DEF Exact, TargetExact
  <2> QED
    BY <2>1, <2>2
<1>10. MaskSelected'
  BY <1>2 DEF MaskSelected
<1>11. Head(calls).r = "select_dpu" => OneDpu'
  <2> SUFFICES ASSUME Head(calls).r = "select_dpu", NEW c \in m
               PROVE  target'[c].k = "select dpu"
    BY DEF OneDpu
  <2>1. want[c] = Word("select dpu", Head(calls).a)
    BY DEF AsAsked
  <2>2. PICK w : w = want[c]
    OBVIOUS
  <2>3. w.k = "select dpu"
    <3>1. PICK a : a = Head(calls).a
      OBVIOUS
    <3>2. w = Word("select dpu", a)
      BY <2>1, <2>2, <3>1
    <3> QED
      BY <3>2, WordFields, Zenon
  <2> QED
    BY <2>2, <2>3
<1>12. ASSUME Head(calls).r \in Even
       PROVE  /\ mask' = Alive
              /\ \A c \in Alive : Chosen(c)' = IF Head(calls).r = "select_all_even_disabled" THEN Dpu ELSE {Head(calls).a}
  <2>0. m = Alive
    BY <1>12 DEF AsAsked
  <2> SUFFICES ASSUME NEW c \in Alive
               PROVE  Chosen(c)' = IF Head(calls).r = "select_all_even_disabled" THEN Dpu ELSE {Head(calls).a}
    BY <2>0
  <2>1. target'[c] = want[c] /\ c \in m
    BY <1>4, <2>0
  <2>2. CASE Head(calls).r = "select_all_even_disabled"
    <3>1. target'[c].k = "select all"
      BY <2>1, <2>2, WordFields DEF AsAsked
    <3> QED
      BY <2>2, <3>1 DEF Chosen
  <2>3. CASE Head(calls).r = "select_dpu_even_disabled"
    <3>1. target'[c].k = "select dpu" /\ target'[c].a = Head(calls).a
      <4>1. want[c] = Word("select dpu", Head(calls).a)
        BY <2>1, <2>3 DEF AsAsked
      <4>2. want[c].k = "select dpu"
        BY <4>1, WordFields
      <4>3. want[c].a = Head(calls).a
        <5>1. PICK y : y = Head(calls).a
          OBVIOUS
        <5>2. Word("select dpu", y).a = y
          BY WordFields, Zenon
        <5> QED
          BY <4>1, <5>1, <5>2
      <4> QED
        BY <2>1, <4>2, <4>3
    <3> QED
      BY <2>3, <3>1 DEF Chosen
  <2> QED
    BY <1>12, <2>2, <2>3 DEF Even
<1>13. Head(calls).r \notin {"save", "disabled", "restore", "set_mram_mux"}
  BY DEF Even
<1>14. do \in SUBSET Ci /\ \A c \in do : want[c] \in Frame /\ want[c].k # "mux"
  BY <1>2
<1> QED
  BY <1>3, <1>8, <1>9, <1>10, <1>11, <1>12, <1>13, <1>14, FrameExact

(* Words of selection. *)
LEMMA Selections ==
    SelectAll \in Selection /\ SelectGroup \in Selection /\ \A a \in Int : Word("select dpu", a) \in Selection
<1>1. SelectAll \in Frame /\ SelectGroup \in Frame /\ \A a \in Int : Word("select dpu", a) \in Frame
  BY Frames
<1> QED
  BY <1>1, WordFields DEF Selection

LEMMA SelectExact ==
    ASSUME IInv, Exact, calls # <<>>, queue = <<>>, ~wait.on,
           Head(calls).r \in {"select_all", "select_all_even_disabled"},
           NEW m \in SUBSET Ci, NEW want \in [Ci -> Selection], Select(m, want), AsAsked(Head(calls), m, want)
    PROVE  Exact'
<1> DEFINE do == {c \in m : target[c] # want[c]}
<1>1. /\ mask' = m /\ target' = [c \in Ci |-> IF c \in do THEN want[c] ELSE target[c]]
      /\ Proceed(<<>>) /\ UNCHANGED <<groups, config>>
      /\ IF do = {} THEN UNCHANGED <<queue, cmds, structure>> ELSE VoidFrames(do, want)
  BY DEF Select
<1>2. calls' = Tail(calls) /\ UNCHANGED <<wait, failed, hw>>
  BY <1>1, Over
<1>3. do \in SUBSET Ci /\ do \in SUBSET m /\ want \in [Ci -> Frame]
  BY SelectionWord
<1>4. SentTo(do, want)
  <2>1. CASE do = {}
    <3>1. SentTo({}, want)
      BY <1>1, <1>2, <2>1, NothingSent
    <3> QED
      BY <2>1, <3>1
  <2>2. CASE do # {}
    BY <1>1, <1>2, <1>3, <2>2, VoidFramesSent
  <2> QED
    BY <2>1, <2>2
<1>5. target' = [c \in Ci |-> IF c \in m THEN want[c] ELSE target[c]]
  <2>1. \A c \in Ci : (IF c \in do THEN want[c] ELSE target[c]) = (IF c \in m THEN want[c] ELSE target[c])
    OBVIOUS
  <2> QED
    BY <1>1, <2>1
<1>6. (\A c \in m : want[c] \in Selection) /\ \A c \in m \ do : target[c] = want[c]
  OBVIOUS
<1> HIDE DEF do
<1>7. Head(calls).r \in {"select_all", "select_dpu"} \cup Even
  BY DEF Even
<1> QED
  BY <1>1, <1>2, <1>3, <1>4, <1>5, <1>6, <1>7, SelectionExact

LEMMA SelectAllExact ==
    ASSUME IInv, Exact, ufi_select_all
    PROVE  Exact'
<1> DEFINE want == [c \in Ci |-> IF enabled[c] = Dpu THEN SelectAll ELSE SelectGroup]
           m == {c \in Head(calls).cis : enabled[c] # {} \/ target[c] = want[c]}
<1>1. calls # <<>> /\ queue = <<>> /\ ~wait.on /\ Head(calls).r = "select_all" /\ Select(m, want)
  BY DEF ufi_select_all, Asked
<1>2. Head(calls).cis \in SUBSET Ci
  BY <1>1, Plan DEF IInv, Request
<1>3. m \in SUBSET Ci /\ want \in [Ci -> Selection]
  BY <1>2, Selections
<1> HIDE DEF m, want
<1>4. AsAsked(Head(calls), m, want)
  BY <1>1 DEF AsAsked, Even
<1> QED
  BY <1>1, <1>3, <1>4, SelectExact

LEMMA SelectAllEvenExact ==
    ASSUME IInv, Exact, ufi_select_all_even_disabled
    PROVE  Exact'
<1> DEFINE want == [c \in Ci |-> SelectAll]
<1>1. /\ calls # <<>> /\ queue = <<>> /\ ~wait.on /\ Head(calls).r = "select_all_even_disabled"
      /\ Select(Alive, want)
  BY DEF ufi_select_all_even_disabled, Asked, Alive
<1>2. Alive \in SUBSET Ci /\ want \in [Ci -> Selection]
  BY Selections DEF Alive
<1>3. \A c \in Alive : want[c] = SelectAll
  BY <1>2
<1> HIDE DEF want
<1>4. AsAsked(Head(calls), Alive, want)
  BY <1>1, <1>3 DEF AsAsked
<1> QED
  BY <1>1, <1>2, <1>4, SelectExact

LEMMA SelectDpuExact ==
    ASSUME IInv, Exact, calls # <<>>, queue = <<>>, ~wait.on,
           Head(calls).r \in {"select_dpu", "select_dpu_even_disabled"},
           NEW m \in SUBSET Ci, SelectDpu(m, Word("select dpu", Head(calls).a)),
           Head(calls).r \in Even => m = Alive
    PROVE  Exact'
<1>0. PICK w : w = Word("select dpu", Head(calls).a)
  OBVIOUS
<1>1. w \in Selection /\ w \in Frame
  <2>1. Head(calls).a \in Int
    BY Plan DEF IInv, Request
  <2> QED
    BY <1>0, <2>1, Selections, SelectionWord
<1>2. /\ mask' = m /\ target' = [c \in Ci |-> IF c \in m THEN w ELSE target[c]]
      /\ Proceed(<<>>) /\ UNCHANGED <<groups, cmds, config>>
      /\ IF \E c \in m : target[c] # w THEN VoidFrame(m, w) ELSE UNCHANGED <<queue, structure>>
  BY <1>0 DEF SelectDpu
<1>3. calls' = Tail(calls) /\ UNCHANGED <<wait, failed, hw>>
  BY <1>2, Over
<1>4. PICK want : want = [c \in m |-> w]
  OBVIOUS
<1>5. /\ \A c \in m : want[c] = w /\ want[c] \in Selection
      /\ target' = [c \in Ci |-> IF c \in m THEN want[c] ELSE target[c]]
  BY <1>1, <1>2, <1>4
<1>6. \E do \in SUBSET m : SentTo(do, want) /\ \A c \in m \ do : target[c] = want[c]
  <2>1. CASE \E c \in m : target[c] # w
    <3>1. SentTo(m, want)
      BY <1>1, <1>2, <1>3, <1>4, <2>1, VoidFrameSent
    <3>2. m \in SUBSET m /\ m \ m = {}
      OBVIOUS
    <3> QED
      BY <3>1, <3>2
  <2>2. CASE \A c \in m : target[c] = w
    <3>1. SentTo({}, want)
      BY <1>2, <1>3, <2>2, NothingSent
    <3>2. {} \in SUBSET m
      OBVIOUS
    <3> QED
      BY <1>5, <2>2, <3>1, <3>2
  <2> QED
    BY <2>1, <2>2
<1>7. AsAsked(Head(calls), m, want)
  BY <1>0, <1>5 DEF AsAsked
<1>8. Head(calls).r \in {"select_all", "select_dpu"} \cup Even
  BY DEF Even
<1> QED
  BY <1>2, <1>3, <1>5, <1>6, <1>7, <1>8, SelectionExact

LEMMA SelectOneExact ==
    ASSUME IInv, Exact, ufi_select_dpu \/ ufi_select_dpu_even_disabled
    PROVE  Exact'
<1> DEFINE d == Head(calls).a
           one == {c \in Head(calls).cis : d \in enabled[c]}
<1>1. CASE ufi_select_dpu
  <2>1. /\ calls # <<>> /\ queue = <<>> /\ ~wait.on /\ Head(calls).r = "select_dpu"
        /\ SelectDpu(one, Word("select dpu", Head(calls).a))
    BY <1>1 DEF ufi_select_dpu, Asked
  <2>2. one \in SUBSET Ci
    BY <2>1, Plan DEF IInv, Request
  <2>3. Head(calls).r \notin Even
    BY <2>1 DEF Even
  <2> QED
    BY <2>1, <2>2, <2>3, SelectDpuExact
<1>2. CASE ufi_select_dpu_even_disabled
  <2>1. /\ calls # <<>> /\ queue = <<>> /\ ~wait.on /\ Head(calls).r = "select_dpu_even_disabled"
        /\ SelectDpu(Alive, Word("select dpu", Head(calls).a))
    BY <1>2 DEF ufi_select_dpu_even_disabled, Asked, Alive
  <2>2. Alive \in SUBSET Ci
    BY DEF Alive
  <2> QED
    BY <2>1, <2>2, SelectDpuExact
<1> QED
  BY <1>1, <1>2

(* The mask of a frame has been selected. *)
LEMMA MaskKept ==
    ASSUME IInv, Exact, calls # <<>>, Head(calls).r \notin {"soft_reset", "select_all"}
    PROVE  \A c \in mask : c \in Ci /\ target[c] # Empty
<1>1. calls \notin {Reset2, Reset3}
  BY Plan DEF IInv
<1> QED
  BY <1>1 DEF Exact, MaskSelected, IInv, CiType

LEMMA SendFrameExact ==
    ASSUME IInv, Exact, SendFrame
    PROVE  Exact'
<1>1. /\ calls # <<>> /\ queue = <<>> /\ ~wait.on /\ Head(calls).r = "frame"
      /\ VoidFrame(mask, Head(calls).a) /\ Proceed(<<>>) /\ UNCHANGED <<mask, target, groups, cmds, config>>
  BY DEF SendFrame, Asked
<1>2. calls' = Tail(calls) /\ UNCHANGED <<wait, failed, hw>>
  BY <1>1, Over
<1>3. PICK w : w = Head(calls).a
  OBVIOUS
<1>4. w \in Frame /\ w.k \in {"read", "clear", "boot", "reboot"} /\ mask \in SUBSET Ci
  BY <1>1, <1>3, Plan DEF IInv, CiType, Request, Payload
<1>5. PICK want : want = [c \in mask |-> w]
  OBVIOUS
<1>6. SentTo(mask, want) /\ \A c \in mask : want[c] = w
  BY <1>1, <1>2, <1>3, <1>4, <1>5, VoidFrameSent
<1>7. \A c \in Ci : Settled(c)'.selected = Settled(c).selected /\ Settled(c)'.group = Settled(c).group
  <2> SUFFICES ASSUME NEW c \in Ci
               PROVE  Settled(c)'.selected = Settled(c).selected /\ Settled(c)'.group = Settled(c).group
    OBVIOUS
  <2>1. CASE c \in mask
    <3>1. Settled(c)' = Sent(Settled(c), w) /\ Settled(c) \in Core
      BY <1>1, <1>6, <2>1, AtRequest DEF SentTo
    <3>2. Effect(Settled(c), w, Settled(c)')
      BY <1>4, <3>1, SentFacts
    <3> QED
      BY <1>4, <3>2 DEF Effect
  <2>2. CASE c \notin mask
    BY <1>6, <2>2 DEF SentTo
  <2> QED
    BY <2>1, <2>2
<1>8. Alive' = Alive /\ Alive \subseteq Ci
  BY <1>1 DEF Alive, config
<1>9. TargetExact' /\ GroupExact'
  <2>1. \A c \in Ci : Chosen(c)' = Chosen(c)
    BY <1>1 DEF Chosen
  <2> QED
    BY <1>1, <1>7, <1>8, <2>1 DEF Exact, TargetExact, GroupExact
<1>10. CacheType'
  BY <1>1, <1>6 DEF SentTo, Exact, CacheType, config
<1>11. MaskSelected'
  <2>1. \A c \in mask : target[c] # Empty
    BY <1>1, MaskKept
  <2> QED
    BY <1>1, <2>1 DEF MaskSelected
<1>12. Head(calls).r \notin Even
  BY <1>1 DEF Even
<1>13. \A c \in mask : want[c] \in Frame /\ want[c].k # "mux"
  BY <1>4, <1>6
<1> QED
  BY <1>1, <1>2, <1>4, <1>6, <1>9, <1>10, <1>11, <1>12, <1>13, FrameExact

(* The groups are recorded as the CI will have them. *)
LEMMA WriteGroupExact ==
    ASSUME IInv, Exact, ufi_write_group
    PROVE  Exact'
<1>0. PICK g : g = Head(calls).a
  OBVIOUS
<1>1. /\ calls # <<>> /\ queue = <<>> /\ ~wait.on /\ Head(calls).r = "write_group"
      /\ VoidFrame(mask, Word("write group", g)) /\ Proceed(<<>>) /\ UNCHANGED <<mask, target, cmds, config>>
      /\ groups' = [c \in Ci |-> IF c \in mask
                        THEN [d \in Dpu |-> IF d \in Chosen(c) THEN g ELSE groups[c][d]] ELSE groups[c]]
  BY <1>0 DEF ufi_write_group, Asked
<1>2. calls' = Tail(calls) /\ UNCHANGED <<wait, failed, hw>>
  BY <1>1, Over
<1>3. PICK w : w = Word("write group", g)
  OBVIOUS
<1>4. g \in Int /\ w \in Frame /\ w.k = "write group" /\ w.a = g /\ mask \in SUBSET Ci
  <2>1. g \in Int /\ mask \in SUBSET Ci
    BY <1>0, <1>1, Plan DEF IInv, CiType, Request
  <2>2. w \in Frame
    BY <1>3, <2>1, Frames
  <2>3. w.k = "write group" /\ w.a = g
    BY <1>3, <2>1 DEF Word
  <2> QED
    BY <2>1, <2>2, <2>3
<1>5. PICK want : want = [c \in mask |-> w]
  OBVIOUS
<1>6. SentTo(mask, want) /\ \A c \in mask : want[c] = w
  BY <1>1, <1>2, <1>3, <1>4, <1>5, VoidFrameSent
<1>7. ASSUME NEW c \in Ci, c \in mask
      PROVE  /\ Settled(c)'.selected = Settled(c).selected
             /\ Settled(c)'.group = [d \in Dpu |-> IF d \in Settled(c).selected THEN g ELSE Settled(c).group[d]]
  <2>1. Settled(c)' = Sent(Settled(c), w) /\ Settled(c) \in Core
    BY <1>1, <1>6, <1>7, AtRequest DEF SentTo
  <2>2. Effect(Settled(c), w, Settled(c)')
    BY <1>4, <2>1, SentFacts
  <2> QED
    BY <1>4, <2>2 DEF Effect
<1>8. \A c \in Ci : c \notin mask => Settled(c)' = Settled(c)
  BY <1>6 DEF SentTo
<1>9. Alive' = Alive /\ Alive \subseteq Ci
  BY <1>1 DEF Alive, config
<1>10. \A c \in mask : c \in Ci /\ target[c] # Empty
  BY <1>1, MaskKept
<1>11. GroupExact'
  <2> SUFFICES ASSUME NEW c \in Alive
               PROVE  Settled(c)'.group = groups'[c]
    BY <1>9 DEF GroupExact
  <2>1. Settled(c).group = groups[c] /\ (c \in mask => Settled(c).selected = Chosen(c)) /\ c \in Ci
    BY <1>9, <1>10 DEF Exact, GroupExact, TargetExact
  <2>2. CASE c \in mask
    <3>1. Settled(c)'.group = [d \in Dpu |-> IF d \in Settled(c).selected THEN g ELSE Settled(c).group[d]]
      BY <1>7, <2>1, <2>2
    <3>2. groups'[c] = [d \in Dpu |-> IF d \in Chosen(c) THEN g ELSE groups[c][d]]
      BY <1>1, <2>1, <2>2
    <3> QED
      BY <2>1, <2>2, <3>1, <3>2
  <2>3. CASE c \notin mask
    BY <1>1, <1>8, <2>1, <2>3
  <2> QED
    BY <2>2, <2>3
<1>12. ASSUME NEW c \in Alive, target[c] # Empty
       PROVE  Chosen(c)' = Chosen(c)
  <2>1. c \in Ci /\ target[c] \in Selection /\ target'[c] = target[c]
    BY <1>1, <1>9, <1>12 DEF Exact, CacheType
  <2>2. CASE c \notin mask
    <3>1. groups'[c] = groups[c]
      BY <1>1, <2>1, <2>2
    <3> QED
      BY <2>1, <3>1 DEF Chosen
  <2>3. CASE target[c].k # "select group"
    BY <2>1, <2>3 DEF Chosen, Selection
  <2>4. CASE c \in mask /\ target[c].k = "select group"
    <3>1. target[c].a = EnabledGroup
      BY <2>1, <2>4 DEF Selection
    <3>2. g = EnabledGroup
      <4>1. SUFFICES ASSUME g # EnabledGroup
                     PROVE  FALSE
        OBVIOUS
      <4>2. calls \in Seq(Request)
        BY CallsSeq DEF IInv
      <4>3. 1 \in 1..Len(calls) /\ Head(calls) = calls[1]
        BY <1>1, <4>2, TailCalls
      <4>4. OneDpu
        BY <1>0, <1>1, <4>1, <4>3 DEF Exact, WritePlan
      <4> QED
        BY <2>4, <4>4 DEF OneDpu
    <3>3. PICK S : S = Chosen(c)
      OBVIOUS
    <3>4. S = {d \in Dpu : groups[c][d] = EnabledGroup}
      BY <2>4, <3>1, <3>3 DEF Chosen
    <3>5. groups'[c] = [d \in Dpu |-> IF d \in S THEN EnabledGroup ELSE groups[c][d]]
      BY <1>1, <2>1, <2>4, <3>2, <3>3
    <3>6. Chosen(c)' = {d \in Dpu : groups'[c][d] = EnabledGroup}
      BY <2>1, <2>4, <3>1 DEF Chosen
    <3>7. {d \in Dpu : groups'[c][d] = EnabledGroup} = S
      BY <3>4, <3>5
    <3> QED
      BY <3>3, <3>6, <3>7
  <2> QED
    BY <2>2, <2>3, <2>4
<1>13. TargetExact'
  <2> SUFFICES ASSUME NEW c \in Alive, target[c] # Empty
               PROVE  Settled(c)'.selected = Chosen(c)'
    BY <1>1, <1>9 DEF TargetExact
  <2>1. Settled(c)'.selected = Settled(c).selected
    BY <1>7, <1>8, <1>9
  <2>2. Settled(c).selected = Chosen(c)
    BY DEF Exact, TargetExact
  <2> QED
    BY <1>12, <2>1, <2>2
<1>14. CacheType'
  <2>1. groups' \in [Ci -> [Dpu -> Int]]
    BY <1>1, <1>4 DEF Exact, CacheType
  <2> QED
    BY <1>1, <1>6, <2>1 DEF SentTo, Exact, CacheType, config
<1>15. MaskSelected'
  BY <1>1, <1>10 DEF MaskSelected
<1>16. Head(calls).r \notin Even
  BY <1>1 DEF Even
<1>17. \A c \in mask : want[c] \in Frame /\ want[c].k # "mux"
  BY <1>4, <1>6
<1> QED
  BY <1>1, <1>2, <1>4, <1>6, <1>11, <1>13, <1>14, <1>15, <1>16, <1>17, FrameExact

(* A soft reset: nothing is selected, the DPUs are all in one group.       *)
LEMMA SoftResetExact ==
    ASSUME IInv, Exact, dpu_soft_reset, ~lost'
    PROVE  Exact'
<1>1. /\ calls # <<>> /\ queue = <<>> /\ ~wait.on /\ Head(calls).r = "soft_reset" /\ calls' = Tail(calls)
      /\ cmds' = Prepared(Alive, Word("reset", 0))
      /\ UNCHANGED <<structure, config, queue, mask, wait>>
  BY DEF dpu_soft_reset, Asked, Alive
<1>2. /\ hw' = [c \in Ci |-> IF c \in Alive THEN ResetHw(hw[c]) ELSE hw[c]]
      /\ target' = [c \in Ci |-> Empty] /\ groups' = [c \in Ci |-> [d \in Dpu |-> 0]] /\ failed' = FALSE
  BY DEF dpu_soft_reset, Alive
<1>3. Alive' = Alive /\ Alive \subseteq Ci
  BY <1>1 DEF Alive, config
<1>4. \A c \in Ci : hw[c].pending = Empty /\ Settled(c) = State(hw[c]) /\ hw[c] \in Device
  BY <1>1, AtRequest DEF IInv, CiType
<1>5. ASSUME NEW c \in Ci
      PROVE  hw'[c].pending = Empty /\ Settled(c)' = State(hw'[c])
  <2>1. hw'[c].pending = Empty
    <3>1. CASE c \in Alive
      <4>1. hw'[c] = ResetHw(hw[c])
        BY <1>2, <3>1
      <4> QED
        BY <1>4, <4>1 DEF ResetHw, Device
    <3>2. CASE c \notin Alive
      BY <1>2, <1>4, <3>2
    <3> QED
      BY <3>1, <3>2
  <2>2. Settled(c)' = Executed(State(hw'[c]), hw'[c].pending)
    BY <1>1 DEF Settled, Reached
  <2> QED
    BY <2>1, <2>2, EmptyIdle
<1>6. ASSUME NEW c \in Alive
      PROVE  /\ Settled(c)'.structure = Settled(c).structure /\ Settled(c)'.mux = Settled(c).mux
             /\ Settled(c)'.group = [d \in Dpu |-> 0]
  <2>1. hw'[c] = ResetHw(hw[c]) /\ hw[c] \in Device
    BY <1>2, <1>3, <1>4
  <2>2. hw'[c].structure = hw[c].structure /\ hw'[c].mux = hw[c].mux /\ hw'[c].group = [d \in Dpu |-> 0]
    BY <2>1 DEF ResetHw, Device
  <2> QED
    BY <1>3, <1>4, <1>5, <2>2 DEF State
<1>7. \A c \in Ci : c \notin Alive => Settled(c)' = Settled(c)
  BY <1>2, <1>4, <1>5
<1>8. StructureExact' /\ GroupExact' /\ TargetExact'
  <2>1. StructureExact'
    BY <1>1, <1>6, <1>7 DEF Exact, StructureExact
  <2>2. GroupExact'
    BY <1>2, <1>3, <1>6 DEF GroupExact
  <2>3. TargetExact'
    BY <1>2, <1>3 DEF TargetExact
  <2> QED
    BY <2>1, <2>2, <2>3
<1>9. ReplayIdle'
  <2> SUFFICES ASSUME NEW c \in Ci
               PROVE  Executed(Settled(c)', Final(c)') = Settled(c)'
    BY DEF ReplayIdle
  <2>1. Final(c)' = IF c \in Alive THEN Word("reset", 0) ELSE Empty
    BY <1>1 DEF Final, Prepared
  <2>2. Final(c)'.k \in {"empty", "reset"}
    BY <2>1, WordFields
  <2> QED
    BY <2>2, IdleWord
<1>10. CacheType'
  <2>1. [d \in Dpu |-> 0] \in [Dpu -> Int]
    OBVIOUS
  <2> QED
    BY <1>1, <1>2, <2>1 DEF Exact, CacheType, config
<1>11. QueueInv' /\ QuietInv'
  BY <1>1, <1>5 DEF Exact, QueueInv, QuietInv
<1>12. MaskSelected'
  BY <1>1, Plan DEF IInv, MaskSelected
<1>13. MuxShape' /\ MuxPlanned'
  <2>1. mux' = mux /\ Head(calls).r \notin Even
    BY <1>1 DEF config, Even
  <2>2. \A c \in Alive : Settled(c)'.mux = Settled(c).mux
    BY <1>6
  <2> QED
    BY <1>1, <1>3, <2>1, <2>2, TailMux
<1>14. ResetPlan' /\ WritePlan'
  <2>1. UNCHANGED <<enabled, saved>>
    BY <1>1 DEF config
  <2> QED
    BY <1>1, <2>1, TailPlan
<1> QED
  BY <1>2, <1>8, <1>9, <1>10, <1>11, <1>12, <1>13, <1>14 DEF Exact

(* The mux is switched as it was recorded. *)
LEMMA SetMuxExact ==
    ASSUME IInv, Exact, ufi_set_mram_mux
    PROVE  Exact'
<1> DEFINE words == [c \in mask |-> Word("mux", IF c \in Head(calls).cis THEN 1 ELSE 0)]
           write == Differing(mask, words) # {}
           frames == [c \in Ci |-> IF c \in mask THEN words[c] ELSE IF write THEN Empty ELSE cmds[c]]
           s == Command(Prepared(mask, Word("structure", 3)), TRUE)
           f == Command(frames, TRUE)
           clear == Req("frame", Word("clear", 0), {})
<1>1. /\ calls # <<>> /\ queue = <<>> /\ ~wait.on /\ Head(calls).r = "set_mram_mux"
      /\ Cache(mask, words) /\ queue' = If(write, <<s>>) \o <<f>>
      /\ calls' = <<clear>> \o Tail(calls) /\ UNCHANGED <<mask, target, groups, cmds, config, wait, failed, hw>>
  BY DEF ufi_set_mram_mux, Asked, Proceed, count
<1>2. calls \in Seq(Request) /\ mask \in SUBSET Ci /\ cmds \in [Ci -> Words]
  BY CallsSeq DEF IInv, CiType
<1>3. \A c \in mask : words[c] \in Frame /\ words[c].k = "mux" /\ words[c].a = IF c \in Head(calls).cis THEN 1 ELSE 0
  <2>1. Word("mux", 0) \in Frame /\ Word("mux", 1) \in Frame
    BY DEF Word, Frame, FrameKind
  <2>2. \A a : Word("mux", a).k = "mux" /\ Word("mux", a).a = a
    BY WordFields
  <2> QED
    BY <2>1, <2>2
<1>4. words \in [mask -> Frame]
  BY <1>3
<1>5. \A c \in mask : Structure(words[c]) = Word("structure", 3)
  BY <1>3 DEF Structure, StructureOf
<1>6. frames \in [Ci -> Words]
  BY <1>2, <1>3, FrameWords, EmptyWord
<1>7. s \in Cmd /\ f \in Cmd /\ f.shared /\ f.words = frames
  <2>1. Word("structure", 3) \in Words
    BY DEF Word, Words
  <2>2. s \in Cmd
    BY <1>2, <2>1, PreparedWords
  <2> QED
    BY <1>6, <2>2 DEF Command, Cmd
<1>8. \A c \in mask : s.words[c] = Structure(words[c]) /\ f.words[c] = words[c]
  BY <1>2, <1>5, <1>7 DEF Command, Prepared
<1>9. \A c \in Ci \ mask : s.words[c] = Empty /\ f.words[c] \in {Empty, cmds[c]}
  BY <1>7 DEF Command, Prepared
<1>10. queue' = If(Differing(mask, words) # {}, <<s>>) \o <<f>>
  BY <1>1
<1> HIDE DEF words, write, frames, s, f, clear
<1>11. SentTo(mask, words)
  <2>1. queue = <<>> /\ ~wait.on /\ hw' = hw /\ Cache(mask, words)
    BY <1>1
  <2>2. mask \in SUBSET Ci /\ words \in [mask -> Frame]
    BY <1>2, <1>4
  <2>3. s \in Cmd /\ f \in Cmd /\ f.shared
    BY <1>7
  <2> QED
    BY <1>8, <1>9, <1>10, <2>1, <2>2, <2>3, SentInv
<1>12. 1 \in Muxes /\ Head(calls) = calls[1] /\ Len(calls) \in Nat /\ Len(calls) >= 1
  BY <1>1, <1>2, TailCalls DEF Muxes
<1>13. mask = Alive
  BY <1>12 DEF Exact, MuxShape
<1>14. Alive' = Alive /\ Alive \subseteq Ci /\ UNCHANGED <<enabled, saved, mux>>
  BY <1>1 DEF Alive, config
<1>15. \A c \in Alive : target[c] # Empty /\ Settled(c).selected = Chosen(c)
  BY <1>1, <1>13, MaskKept DEF Exact, TargetExact
<1>16. ASSUME NEW c \in Alive
       PROVE  /\ Settled(c)'.selected = Settled(c).selected /\ Settled(c)'.group = Settled(c).group
              /\ Settled(c)'.mux = IF c \in Head(calls).cis THEN Settled(c).mux \cup Chosen(c) ELSE Settled(c).mux \ Chosen(c)
  <2>1. PICK w : w = words[c]
    OBVIOUS
  <2>2. Settled(c)' = Sent(Settled(c), w) /\ Settled(c) \in Core
    BY <1>1, <1>11, <1>13, <1>14, <2>1, AtRequest DEF SentTo
  <2>3. w \in Frame /\ w.k = "mux" /\ w.a = IF c \in Head(calls).cis THEN 1 ELSE 0
    BY <1>3, <1>13, <2>1
  <2>4. Effect(Settled(c), w, Settled(c)')
    BY <2>2, <2>3, SentFacts
  <2>5. /\ Settled(c)'.selected = Settled(c).selected /\ Settled(c)'.group = Settled(c).group
        /\ Settled(c)'.mux = IF w.a = 1 THEN Settled(c).mux \cup Settled(c).selected ELSE Settled(c).mux \ Settled(c).selected
    BY <2>3, <2>4 DEF Effect
  <2>6. w.a = 1 <=> c \in Head(calls).cis
    BY <2>3
  <2> QED
    BY <1>15, <2>5, <2>6
<1>17. \A c \in Ci : Chosen(c)' = Chosen(c)
  BY <1>1 DEF Chosen
<1>18. TargetExact' /\ GroupExact'
  BY <1>1, <1>14, <1>16, <1>17 DEF Exact, TargetExact, GroupExact
<1> USE DEF clear
<1>19. clear \in Inner /\ clear \in Low /\ clear.r = "frame"
  <2>1. Word("clear", 0) \in Payload /\ Word("clear", 0).k = "clear"
    BY DEF Word, Frame, FrameKind, Payload
  <2>2. clear \in Harmless /\ clear.r = "frame" /\ clear.a = Word("clear", 0)
    BY <2>1, FrameHarmless DEF Req
  <2> QED
    BY <2>1, <2>2 DEF Inner, Low, Harmless, Reboots
<1> HIDE DEF clear
<1>20. PICK t, n : t = calls' /\ n = Len(calls)
  OBVIOUS
<1>21. /\ n \in Nat /\ n >= 1 /\ Len(t) = n /\ t[1] = clear
       /\ \A j \in 1..n : j # 1 => t[j] = calls[j]
  <2>1. <<clear>> \in Seq(Inner) /\ Len(<<clear>>) = 1 /\ <<clear>>[1] = clear
    BY <1>19
  <2>2. PICK more : more = <<clear>>
    OBVIOUS
  <2>3. /\ Len(t) = Len(more) + Len(calls) - 1 /\ Len(calls) \in Nat
        /\ \A j \in 1..Len(more) : t[j] = more[j] /\ more[j] \in Inner
        /\ \A j \in 1..Len(t) : j > Len(more) => t[j] = calls[j - Len(more) + 1] /\ j - Len(more) + 1 \in 2..Len(calls)
    BY <1>1, <1>2, <1>20, <2>1, <2>2, MoreCallsLeft
  <2>4. n \in Nat /\ Len(more) = 1 /\ Len(t) = 1 + n - 1
    BY <1>20, <2>1, <2>2, <2>3
  <2>5. Len(t) = n
    BY <2>4
  <2>6. t[1] = clear
    BY <2>1, <2>2, <2>3
  <2>7. ASSUME NEW j \in 1..n, j # 1
        PROVE  t[j] = calls[j]
    <3>1. j > Len(more) /\ j - Len(more) + 1 = j /\ j \in 1..Len(t)
      BY <2>4, <2>5, <2>7
    <3> QED
      BY <2>3, <3>1
  <2> QED
    BY <1>12, <1>20, <2>4, <2>5, <2>6, <2>7
<1>22. ASSUME NEW j \in Muxes'
       PROVE  j \in 1..n /\ j # 1 /\ j # 2 /\ t[j] = calls[j] /\ j \in Muxes
  <2>1. j \in 1..n /\ t[j].r = "set_mram_mux"
    BY <1>20, <1>21 DEF Muxes
  <2>2. j # 1
    BY <1>19, <1>21, <2>1
  <2>3. j \in Muxes
    BY <1>20, <1>21, <2>1, <2>2 DEF Muxes
  <2>4. calls[j - 1].r \in Even
    BY <2>2, <2>3 DEF Exact, MuxShape
  <2>5. ASSUME j = 2
        PROVE  FALSE
    <3>1. calls[1].r \in Even
      BY <2>4, <2>5
    <3> QED
      BY <1>1, <1>12, <3>1 DEF Even
  <2> QED
    BY <1>21, <2>1, <2>2, <2>3, <2>5
<1>23. \A j \in Muxes : j # 1 => j \in Muxes'
  BY <1>20, <1>21 DEF Muxes
<1>24. ASSUME NEW j \in Muxes', NEW c \in Ci
       PROVE  Aim(j, c)' = Aim(j, c) /\ t[j - 1] = calls[j - 1] /\ \A i \in 1..j - 1 : t[i] \in Low
  <2>1. j - 1 \in 1..n /\ j - 1 # 1
    BY <1>21, <1>22
  <2>2. t[j - 1] = calls[j - 1]
    BY <1>21, <2>1
  <2>3. Aim(j, c)' = Aim(j, c)
    BY <1>20, <1>22, <2>2 DEF Aim
  <2>4. ASSUME NEW i \in 1..j - 1
        PROVE  t[i] \in Low
    <3>1. calls[i] \in Low
      BY <1>22 DEF Exact, MuxShape
    <3>2. i \in 1..n
      BY <1>21, <2>1
    <3> QED
      BY <1>19, <1>21, <3>1, <3>2
  <2> QED
    BY <2>2, <2>3, <2>4
<1>25. MuxShape'
  <2>1. 0 \in Ci
    BY CiAssumption DEF Ci
  <2>2. ASSUME NEW j \in Muxes'
        PROVE  j # 1 /\ t[j - 1].r \in Even /\ \A i \in 1..j - 1 : t[i] \in Low
    <3>1. j # 1 /\ j \in Muxes
      BY <1>22
    <3>2. calls[j - 1].r \in Even
      BY <3>1 DEF Exact, MuxShape
    <3> QED
      BY <1>24, <2>1, <3>1, <3>2
  <2> QED
    BY <1>20, <2>2 DEF MuxShape
<1>26. ASSUME NEW c \in Alive, NEW d \in Int
       PROVE  /\ \A j \in Muxes' : d \in Aim(j, c)' => (d \in mux[c] <=> c \in t[j].cis)
              /\ (\A j \in Muxes' : d \notin Aim(j, c)') => (d \in mux[c] <=> d \in Settled(c)'.mux)
  <2>1. /\ \A j \in Muxes : d \in Aim(j, c) => (d \in mux[c] <=> c \in calls[j].cis)
        /\ (\A j \in Muxes : d \notin Aim(j, c)) => (d \in mux[c] <=> d \in Settled(c).mux)
    BY DEF Exact, MuxPlanned
  <2>2. Aim(1, c) = Chosen(c)
    BY DEF Aim
  <2>3. d \in Chosen(c) => (d \in mux[c] <=> c \in Head(calls).cis)
    BY <1>12, <2>1, <2>2
  <2>4. \A j \in Muxes' : d \in Aim(j, c)' => (d \in mux[c] <=> c \in t[j].cis)
    BY <1>14, <1>22, <1>24, <2>1
  <2>5. ASSUME \A j \in Muxes' : d \notin Aim(j, c)'
        PROVE  d \in mux[c] <=> d \in Settled(c)'.mux
    <3>1. CASE d \in Chosen(c)
      BY <1>16, <2>3, <3>1
    <3>2. CASE d \notin Chosen(c)
      <4>1. \A j \in Muxes : d \notin Aim(j, c)
        BY <1>14, <1>23, <1>24, <2>2, <2>5, <3>2
      <4> QED
        BY <1>16, <2>1, <3>2, <4>1
    <3> QED
      BY <3>1, <3>2
  <2> QED
    BY <2>4, <2>5
<1>27. MuxPlanned'
  BY <1>14, <1>20, <1>26 DEF MuxPlanned
<1>28. CacheType'
  BY <1>1, <1>11, <1>14 DEF SentTo, Exact, CacheType
<1>29. MaskSelected'
  BY <1>1, <1>13, <1>15 DEF MaskSelected
<1>30. ResetPlan' /\ WritePlan'
  <2>1. PICK more : more = <<clear>>
    OBVIOUS
  <2>2. more \in Seq(Inner) /\ Len(more) = 1 /\ more[1] = clear
    BY <1>19, <2>1
  <2>3. Writing(more)
    BY <1>19, <2>2 DEF Writing
  <2> QED
    BY <1>1, <1>14, <2>1, <2>2, <2>3, MorePlan
<1>31. QueueInv' /\ QuietInv' /\ StructureExact' /\ ReplayIdle' /\ ~failed'
  BY <1>1, <1>11 DEF SentTo, Exact, QuietInv
<1> QED
  BY <1>18, <1>25, <1>27, <1>28, <1>29, <1>30, <1>31 DEF Exact

-----------------------------------------------------------------------------
(***************************************************************************)
(* Requests that are made of others, and what the host records.            *)
(***************************************************************************)

(* No command: the CIs, and the caches that say what they are, are kept.   *)
LEMMA Kept ==
    ASSUME IInv, Exact, NoCommand, UNCHANGED <<wait, failed, hw>>, Alive' \subseteq Alive
    PROVE  /\ ~failed' /\ QueueInv' /\ QuietInv' /\ StructureExact' /\ ReplayIdle' /\ TargetExact' /\ GroupExact'
           /\ mux' \in [Ci -> SUBSET Dpu] => CacheType'
           /\ \A c \in Ci : Settled(c)' = Settled(c)
<1>1. UNCHANGED <<queue, mask, cmds, target, structure, groups>>
  BY DEF NoCommand, caches
<1>2. \A c \in Ci : Settled(c)' = Settled(c) /\ Final(c)' = Final(c)
  BY <1>1, SettledSame
<1>3. ~failed' /\ QueueInv' /\ QuietInv'
  BY <1>1 DEF Exact, QueueInv, QuietInv
<1>4. StructureExact' /\ ReplayIdle'
  BY <1>1, <1>2 DEF Exact, StructureExact, ReplayIdle
<1>5. Alive \subseteq Ci /\ \A c \in Ci : Chosen(c)' = Chosen(c)
  BY <1>1 DEF Alive, Chosen
<1>6. TargetExact' /\ GroupExact'
  BY <1>1, <1>2, <1>5 DEF Exact, TargetExact, GroupExact
<1>7. mux' \in [Ci -> SUBSET Dpu] => CacheType'
  BY <1>1 DEF Exact, CacheType
<1> QED
  BY <1>2, <1>3, <1>4, <1>6, <1>7

Composite == {"switch_rank", "switch_line", "keep_line", "start_rank", "init_groups", "ci_groups"}

LEMMA CompositeHigh ==
    ASSUME IInv, Exact, calls # <<>>, Head(calls).r \in Composite
    PROVE  /\ Head(calls) \notin Low /\ Head(calls).r \notin {"save", "select_dpu"}
           /\ \A c \in mask : target[c] # Empty
<1>1. Head(calls).r \notin {"save", "select_dpu", "soft_reset", "select_all", "set_mram_mux", "frame"} /\ Head(calls).r \notin Even
  BY DEF Composite, Even
<1>2. Head(calls) \notin Low
  BY <1>1 DEF Low
<1> QED
  BY <1>1, <1>2, MaskKept

LEMMA ComposedExact ==
    ASSUME IInv, Exact, calls # <<>>, Head(calls).r \in Composite,
           NEW more \in Seq(Inner), Proceed(more), NoCommand, UNCHANGED <<enabled, saved>>,
           NEW lines, NEW cis, Switching(more, lines, cis), Writing(more), mux' \in [Ci -> SUBSET Dpu],
           Recorded(lines, cis)
    PROVE  Exact'
<1>1. UNCHANGED <<queue, mask, cmds, target, structure, groups>> /\ UNCHANGED <<wait, failed, hw>>
  BY DEF NoCommand, caches, Proceed, count
<1>2. calls' = more \o Tail(calls)
  BY DEF Proceed
<1>3. /\ Head(calls) \notin Low /\ Head(calls).r \notin {"save", "select_dpu"}
      /\ \A c \in mask : target[c] # Empty
  BY CompositeHigh
<1>4. Alive' \subseteq Alive
  BY DEF Alive
<1>5. /\ ~failed' /\ QueueInv' /\ QuietInv' /\ StructureExact' /\ ReplayIdle' /\ TargetExact' /\ GroupExact'
      /\ CacheType'
  BY <1>1, <1>4, Kept
<1>6. MaskSelected'
  BY <1>1, <1>3 DEF MaskSelected
<1>7. MuxShape' /\ MuxPlanned'
  BY <1>1, <1>2, <1>3, MoreMux
<1>8. ResetPlan' /\ WritePlan'
  BY <1>1, <1>2, <1>3, MorePlan
<1> QED
  BY <1>5, <1>6, <1>7, <1>8 DEF Exact

LEMMA BusyExact ==
    ASSUME IInv, Exact, calls # <<>>, Head(calls).r \in Composite, Busy, NoCommand
    PROVE  Exact'
<1>1. /\ UNCHANGED <<queue, mask, cmds, target, structure, groups>> /\ UNCHANGED <<wait, failed, hw>>
      /\ UNCHANGED <<enabled, saved, mux>> /\ calls' = <<>>
  BY DEF NoCommand, caches, Busy, count, config
<1>2. /\ Head(calls) \notin Low
      /\ \A c \in mask : target[c] # Empty
  BY CompositeHigh
<1>3. Alive' = Alive /\ Alive \subseteq Ci
  BY <1>1 DEF Alive
<1>4. /\ ~failed' /\ QueueInv' /\ QuietInv' /\ StructureExact' /\ ReplayIdle' /\ TargetExact' /\ GroupExact'
      /\ CacheType' /\ \A c \in Ci : Settled(c)' = Settled(c)
  BY <1>1, <1>3, Kept DEF Exact, CacheType
<1>5. MaskSelected'
  BY <1>1, <1>2 DEF MaskSelected
<1>6. Muxes = {} /\ \A c \in Alive : \A d \in Int : d \in mux[c] <=> d \in Settled(c).mux
  BY <1>2, NoMuxes
<1>7. Len(calls') = 0
  BY <1>1
<1>8. 1..Len(calls') = {}
  BY <1>7
<1>9. Muxes' = {}
  BY <1>8 DEF Muxes
<1>10. MuxShape'
  BY <1>9 DEF MuxShape
<1>11. MuxPlanned'
  BY <1>1, <1>3, <1>4, <1>6, <1>9 DEF MuxPlanned
<1>12. ResetPlan' /\ WritePlan'
  BY <1>8 DEF ResetPlan, WritePlan
<1> QED
  BY <1>4, <1>5, <1>10, <1>11, <1>12 DEF Exact

(* Requests that the switch of a mux, or another request, is made of.      *)
Piece(s, lines, cis) == s \in Seq(Inner) /\ Switching(s, lines, cis) /\ Writing(s)

(* Requests that switch no mux and give no group but that of the enabled   *)
(* DPUs.                                                                   *)
Tame == {q \in Inner : q.r # "set_mram_mux" /\ (q.r = "write_group" => q.a = EnabledGroup)}

LEMMA TamePiece ==
    ASSUME NEW s \in Seq(Tame), NEW cis
    PROVE  Piece(s, {}, cis)
<1>1. Tame \subseteq Inner
  BY DEF Tame
<1>2. s \in Seq(Inner) /\ \A j \in 1..Len(s) : s[j] \in Tame
  BY <1>1
<1>3. Switching(s, {}, cis)
  BY <1>2 DEF Switching, Tame
<1>4. Writing(s)
  BY <1>2 DEF Writing, Tame
<1> QED
  BY <1>2, <1>3, <1>4 DEF Piece

LEMMA Together ==
    ASSUME NEW s \in Seq(Low), NEW u, NEW lines, NEW others, NEW cis,
           Piece(s, lines, cis), Piece(u, others, cis)
    PROVE  Piece(s \o u, lines \cup others, cis)
<1>1. s \in Seq(Inner) /\ u \in Seq(Inner)
  BY DEF Piece
<1>2. PICK t, n, k : t = s \o u /\ n = Len(s) /\ k = Len(u)
  OBVIOUS
<1>3. /\ t \in Seq(Inner) /\ Len(t) = n + k /\ n \in Nat /\ k \in Nat
      /\ \A j \in 1..n + k : t[j] = IF j <= n THEN s[j] ELSE u[j - n]
  BY <1>1, <1>2, ConcatProperties
<1>4. \A j \in 1..n : t[j] = s[j] /\ t[j] \in Low
  BY <1>2, <1>3
<1>5. \A j \in 1..k : t[n + j] = u[j] /\ n + j \in 1..n + k
  BY <1>3
<1>6. \A j \in 1..n + k : j > n => j - n \in 1..k /\ n + (j - n) = j
  BY <1>3
<1>7. ASSUME NEW j \in 1..n + k, t[j].r = "set_mram_mux"
      PROVE  SwitchAt(t, j, cis) /\ \A d \in Aimed(t, j) : d \in lines \cup others
  <2>1. CASE j <= n
    <3>1. j \in 1..n /\ s[j].r = "set_mram_mux"
      BY <1>3, <1>7, <2>1
    <3>2. SwitchAt(s, j, cis) /\ \A d \in Aimed(s, j) : d \in lines
      BY <1>2, <3>1 DEF Piece, Switching
    <3>3. j # 1 /\ s[j - 1].r \in Even /\ s[j].cis = cis
      BY <3>2 DEF SwitchAt
    <3>4. j - 1 \in 1..n /\ \A i \in 1..j - 1 : i \in 1..n
      BY <1>3, <3>1, <3>3
    <3>5. t[j - 1] = s[j - 1] /\ t[j] = s[j] /\ \A i \in 1..j - 1 : t[i] \in Low
      BY <1>4, <3>1, <3>4
    <3> QED
      BY <3>2, <3>3, <3>5 DEF SwitchAt, Aimed
  <2>2. CASE j > n
    <3>1. PICK i \in 1..k : i = j - n /\ j = n + i
      BY <1>6, <2>2
    <3>2. u[i].r = "set_mram_mux" /\ t[j] = u[i]
      BY <1>5, <1>7, <3>1
    <3>3. SwitchAt(u, i, cis) /\ \A d \in Aimed(u, i) : d \in others
      BY <1>2, <3>2 DEF Piece, Switching
    <3>4. i # 1 /\ u[i - 1].r \in Even /\ u[i].cis = cis /\ \A l \in 1..i - 1 : u[l] \in Low
      BY <3>3 DEF SwitchAt
    <3>5. i - 1 \in 1..k /\ j - 1 = n + (i - 1)
      BY <1>3, <3>1, <3>4
    <3>6. t[j - 1] = u[i - 1]
      BY <1>5, <3>5
    <3>7. j # 1
      BY <1>3, <3>1, <3>4
    <3>8. ASSUME NEW l \in 1..j - 1
          PROVE  t[l] \in Low
      <4>1. CASE l <= n
        BY <1>3, <1>4, <4>1
      <4>2. CASE l > n
        <5>1. l - n \in 1..i - 1 /\ l - n \in 1..k /\ l = n + (l - n)
          BY <1>3, <3>1, <4>2
        <5> QED
          BY <1>5, <3>4, <5>1
      <4> QED
        BY <1>3, <4>1, <4>2
    <3> QED
      BY <3>2, <3>3, <3>4, <3>6, <3>7, <3>8 DEF SwitchAt, Aimed
  <2> QED
    BY <1>3, <2>1, <2>2
<1>8. ASSUME NEW d \in lines \cup others
      PROVE  \E j \in 1..n + k : t[j].r = "set_mram_mux" /\ d \in Aimed(t, j)
  <2>1. CASE d \in lines
    <3>1. PICK j \in 1..n : s[j].r = "set_mram_mux" /\ d \in Aimed(s, j)
      BY <1>2, <2>1 DEF Piece, Switching
    <3>2. SwitchAt(s, j, cis)
      BY <1>2, <3>1 DEF Piece, Switching
    <3>3. j # 1
      BY <3>2 DEF SwitchAt
    <3>4. j - 1 \in 1..n /\ j \in 1..n + k
      BY <1>3, <3>3
    <3>5. t[j] = s[j] /\ t[j - 1] = s[j - 1]
      BY <1>4, <3>4
    <3> QED
      BY <3>1, <3>4, <3>5 DEF Aimed
  <2>2. CASE d \in others
    <3>1. PICK j \in 1..k : u[j].r = "set_mram_mux" /\ d \in Aimed(u, j)
      BY <1>2, <2>2 DEF Piece, Switching
    <3>2. SwitchAt(u, j, cis)
      BY <1>2, <3>1 DEF Piece, Switching
    <3>3. j # 1
      BY <3>2 DEF SwitchAt
    <3>4. j - 1 \in 1..k /\ n + (j - 1) = (n + j) - 1
      BY <1>3, <3>3
    <3>5. t[n + j] = u[j] /\ t[(n + j) - 1] = u[j - 1] /\ n + j \in 1..n + k
      BY <1>5, <3>4
    <3> QED
      BY <3>1, <3>5 DEF Aimed
  <2> QED
    BY <2>1, <2>2
<1>9. Switching(t, lines \cup others, cis)
  BY <1>3, <1>7, <1>8 DEF Switching
<1>10. ASSUME NEW j \in 1..n + k, t[j].r = "write_group", t[j].a # EnabledGroup
       PROVE  j # 1 /\ t[j - 1].r = "select_dpu"
  <2>1. CASE j <= n
    <3>1. j \in 1..n
      BY <1>3, <2>1
    <3>2. t[j] \in Low
      BY <1>4, <3>1
    <3> QED
      BY <1>10, <3>2 DEF Low, Even
  <2>2. CASE j > n
    <3>1. PICK i \in 1..k : i = j - n /\ j = n + i
      BY <1>6, <2>2
    <3>2. t[j] = u[i]
      BY <1>5, <3>1
    <3>3. i # 1 /\ u[i - 1].r = "select_dpu"
      BY <1>2, <1>10, <3>2 DEF Piece, Writing
    <3>4. i - 1 \in 1..k /\ j - 1 = n + (i - 1) /\ j # 1
      BY <1>3, <3>1, <3>3
    <3>5. t[j - 1] = u[i - 1]
      BY <1>5, <3>4
    <3> QED
      BY <3>3, <3>4, <3>5
  <2> QED
    BY <1>3, <2>1, <2>2
<1>11. Writing(t)
  BY <1>3, <1>10 DEF Writing
<1> QED
  BY <1>2, <1>3, <1>9, <1>11 DEF Piece

(* The fields of a request. *)
LEMMA ReqFields == \A r, a, cis : Req(r, a, cis).r = r /\ Req(r, a, cis).a = a /\ Req(r, a, cis).cis = cis
  BY DEF Req

(* The requests that others are made of. *)
LEMMA Parts ==
    /\ \A a \in Int, cis \in SUBSET Ci :
          /\ Selecting(cis) \in Tame /\ SelectingDpu(a, cis) \in Tame
          /\ Req("launched", a, cis) \in Tame /\ Req("keep_line", a, cis) \in Tame /\ Req("switch_rank", a, cis) \in Tame
          /\ Req("polled", a, cis) \in Tame /\ Req("start_rank", a, cis) \in Tame /\ Req("switch_line", a, cis) \in Tame
          /\ Req("write_group", a, cis) \in Inner
          /\ Req("set_mram_mux", a, cis) \in Inner /\ Req("set_mram_mux", a, cis) \in Low
          /\ Req("select_all_even_disabled", a, cis) \in Tame /\ Req("select_all_even_disabled", a, cis) \in Low
          /\ Req("select_dpu_even_disabled", a, cis) \in Tame /\ Req("select_dpu_even_disabled", a, cis) \in Low
    /\ Reading \in Tame /\ Reading \in Low
    /\ \A a \in Int : Req("frame", Word("boot", a), {}) \in Tame
    /\ \A cis \in SUBSET Ci : Req("write_group", EnabledGroup, cis) \in Tame
    /\ \A c \in Ci : Req("ci_groups", c, {}) \in Tame
<1>1. ASSUME NEW q \in Harmless, q.r \notin {"save", "disabled", "restore"}, ~Reboots(q)
      PROVE  q \in Inner /\ (q.r \notin {"set_mram_mux", "write_group"} => q \in Tame) /\ (q.r \in Even \cup {"set_mram_mux"} => q \in Low)
  BY <1>1 DEF Inner, Tame, Low, Harmless
<1>2. \A q : q.r # "frame" => ~Reboots(q)
  BY DEF Reboots
<1>3. ASSUME NEW a \in Int, NEW cis \in SUBSET Ci
      PROVE  /\ Selecting(cis) \in Tame /\ SelectingDpu(a, cis) \in Tame
             /\ Req("launched", a, cis) \in Tame /\ Req("keep_line", a, cis) \in Tame /\ Req("switch_rank", a, cis) \in Tame
             /\ Req("polled", a, cis) \in Tame /\ Req("start_rank", a, cis) \in Tame /\ Req("switch_line", a, cis) \in Tame
  <2>1. /\ Selecting(cis) \in Harmless /\ SelectingDpu(a, cis) \in Harmless
        /\ Req("launched", a, cis) \in Harmless /\ Req("keep_line", a, cis) \in Harmless /\ Req("switch_rank", a, cis) \in Harmless
        /\ Req("polled", a, cis) \in Harmless /\ Req("start_rank", a, cis) \in Harmless /\ Req("switch_line", a, cis) \in Harmless
    BY Requests
  <2>2. Selecting(cis).r = "select_all" /\ SelectingDpu(a, cis).r = "select_dpu"
    BY ReqFields DEF Selecting, SelectingDpu
  <2> QED
    BY <1>2, <1>1, <2>1, <2>2, ReqFields
<1>4. ASSUME NEW a \in Int, NEW cis \in SUBSET Ci
      PROVE  /\ Req("write_group", a, cis) \in Inner
             /\ Req("set_mram_mux", a, cis) \in Inner /\ Req("set_mram_mux", a, cis) \in Low
             /\ Req("select_all_even_disabled", a, cis) \in Tame /\ Req("select_all_even_disabled", a, cis) \in Low
             /\ Req("select_dpu_even_disabled", a, cis) \in Tame /\ Req("select_dpu_even_disabled", a, cis) \in Low
  <2>1. /\ Req("write_group", a, cis) \in Harmless /\ Req("set_mram_mux", a, cis) \in Harmless
        /\ Req("select_all_even_disabled", a, cis) \in Harmless /\ Req("select_dpu_even_disabled", a, cis) \in Harmless
    BY Requests
  <2> QED
    BY <1>2, <1>1, <2>1, ReqFields DEF Even
<1>5. Reading \in Tame /\ Reading \in Low /\ \A a \in Int : Req("frame", Word("boot", a), {}) \in Tame
  <2>1. Reading \in Harmless /\ \A a \in Int : Req("frame", Word("boot", a), {}) \in Harmless
    BY Requests
  <2>2. Reading.r = "frame" /\ Reading.a.k = "read"
    <3>1. PICK w : w = Word("read", 0)
      OBVIOUS
    <3>2. Reading.r = "frame" /\ Reading.a = w
      BY <3>1, ReqFields DEF Reading
    <3>3. w.k = "read"
      BY <3>1, WordFields
    <3> QED
      BY <3>2, <3>3
  <2>3. ASSUME NEW a \in Int
        PROVE  ~Reboots(Req("frame", Word("boot", a), {}))
    <3>1. PICK w : w = Word("boot", a)
      OBVIOUS
    <3>2. Req("frame", w, {}).a = w
      BY ReqFields
    <3>3. w.k = "boot"
      BY <3>1, WordFields
    <3> QED
      BY <3>1, <3>2, <3>3 DEF Reboots
  <2>4. ~Reboots(Reading)
    BY <2>2 DEF Reboots
  <2>5. Reading \in Tame /\ \A a \in Int : Req("frame", Word("boot", a), {}) \in Tame
    BY <1>1, <2>1, <2>2, <2>3, <2>4, ReqFields
  <2>6. Reading \in Low
    BY <2>1, <2>2 DEF Low, Harmless
  <2> QED
    BY <2>5, <2>6
<1>6. ASSUME NEW cis \in SUBSET Ci
      PROVE  Req("write_group", EnabledGroup, cis) \in Tame
  <2>1. EnabledGroup \in Int
    BY DEF EnabledGroup
  <2> QED
    BY <1>4, <2>1, ReqFields DEF Tame
<1>7. ASSUME NEW c \in Ci
      PROVE  Req("ci_groups", c, {}) \in Tame
  <2>1. Req("ci_groups", c, {}) \in Harmless
    BY Requests
  <2> QED
    BY <1>2, <1>1, <2>1, ReqFields
<1> QED
  BY <1>3, <1>4, <1>5, <1>6, <1>7

(* A selection and the switch of the mux. *)
LEMMA SwitchPiece ==
    ASSUME NEW x \in Inner, x \in Low, x.r \in Even, NEW y \in Inner, y \in Low, y.r = "set_mram_mux",
           NEW lines, lines = (IF x.r = "select_all_even_disabled" THEN Dpu ELSE {x.a})
    PROVE  <<x, y>> \in Seq(Low) /\ Piece(<<x, y>>, lines, y.cis)
<1>1. PICK s : s = <<x, y>>
  OBVIOUS
<1>2. /\ s \in Seq(Inner) /\ s \in Seq(Low) /\ Len(s) = 2 /\ s[1] = x /\ s[2] = y
      /\ x.r # "set_mram_mux" /\ x.r # "write_group"
  BY <1>1 DEF Even
<1>3. Aimed(s, 2) = lines
  <2>1. 2 - 1 = 1
    OBVIOUS
  <2>2. s[2 - 1] = x
    BY <1>2, <2>1
  <2> QED
    BY <2>2 DEF Aimed
<1>4. SwitchAt(s, 2, y.cis)
  <2>1. \A i \in 1..2 - 1 : i = 1
    OBVIOUS
  <2> QED
    BY <1>2, <2>1 DEF SwitchAt
<1>5. \A j \in 1..Len(s) : j = 1 \/ j = 2
  BY <1>2
<1>6. Switching(s, lines, y.cis)
  BY <1>2, <1>3, <1>4, <1>5 DEF Switching
<1>7. Writing(s)
  BY <1>2, <1>5 DEF Writing
<1> QED
  BY <1>1, <1>2, <1>6, <1>7 DEF Piece

(* DPU after DPU. *)
LEMMA ForEachDpuSeq ==
    ASSUME NEW S, NEW first \in [Dpu -> S], NEW second \in [Dpu -> S]
    PROVE  /\ ForEachDpu(first, second) \in Seq(S)
           /\ \A j \in 1..Len(ForEachDpu(first, second)) :
                 LET d == (j - 1) \div 2 IN
                 /\ d \in Dpu
                 /\ \/ ForEachDpu(first, second)[j] = first[d]
                    \/ /\ ForEachDpu(first, second)[j] = second[d] /\ j # 1
                       /\ ForEachDpu(first, second)[j - 1] = first[d]
<1> DEFINE n == 2 * NrDpus
           f == ForEachDpu(first, second)
<1>1. n \in Nat
  BY CiAssumption
<1>2. \A i \in 1..n : (i - 1) \div 2 \in Dpu
  BY CiAssumption DEF Dpu
<1>3. f = [i \in 1..n |-> IF i % 2 = 1 THEN first[(i - 1) \div 2] ELSE second[(i - 1) \div 2]]
  BY DEF ForEachDpu
<1>4. f \in [1..n -> S]
  BY <1>2, <1>3
<1>5. \A i \in 1..n : i % 2 # 1 => i # 1 /\ i - 1 \in 1..n /\ (i - 1) % 2 = 1 /\ ((i - 1) - 1) \div 2 = (i - 1) \div 2
  BY CiAssumption
<1>6. \A i \in 1..n : f[i] = IF i % 2 = 1 THEN first[(i - 1) \div 2] ELSE second[(i - 1) \div 2]
  BY <1>3
<1> HIDE DEF n, f
<1>7. f \in Seq(S) /\ Len(f) = n
  BY <1>1, <1>4
<1>8. ASSUME NEW j \in 1..n
      PROVE  /\ (j - 1) \div 2 \in Dpu
             /\ \/ f[j] = first[(j - 1) \div 2]
                \/ f[j] = second[(j - 1) \div 2] /\ j # 1 /\ f[j - 1] = first[(j - 1) \div 2]
  <2>1. CASE j % 2 = 1
    BY <1>2, <1>6, <2>1
  <2>2. CASE j % 2 # 1
    <3>1. j # 1 /\ j - 1 \in 1..n /\ (j - 1) % 2 = 1 /\ ((j - 1) - 1) \div 2 = (j - 1) \div 2
      BY <1>5, <2>2
    <3>2. f[j - 1] = first[((j - 1) - 1) \div 2]
      BY <1>6, <3>1
    <3>3. f[j] = second[(j - 1) \div 2]
      BY <1>6, <2>2
    <3> QED
      BY <1>2, <3>1, <3>2, <3>3
  <2> QED
    BY <2>1, <2>2
<1>9. \A j \in 1..Len(f) :
         /\ (j - 1) \div 2 \in Dpu
         /\ \/ f[j] = first[(j - 1) \div 2]
            \/ f[j] = second[(j - 1) \div 2] /\ j # 1 /\ f[j - 1] = first[(j - 1) \div 2]
  BY <1>7, <1>8
<1> QED
  BY <1>7, <1>9 DEF f

LEMMA SwitchRankExact ==
    ASSUME IInv, Exact, dpu_switch_mux_for_rank
    PROVE  Exact'
<1> DEFINE all == IF Head(calls).a = 1 THEN Dpu ELSE {}
           cis == IF all = {} THEN {} ELSE Ci
           a == Req("select_all_even_disabled", 0, {})
           m == Req("set_mram_mux", 0, cis)
           first == <<a, m, a>>
           each == ForEachDpu([d \in Dpu |-> Inspecting(d)], [d \in Dpu |-> Reading])
           b == \E c \in Ci : mux[c] # all
<1>1. calls # <<>> /\ Head(calls).r \in Composite /\ NoCommand
  BY DEF dpu_switch_mux_for_rank, Asked, Composite
<1>2. \/ Busy
      \/ Proceed(If(b, first \o each)) /\ mux' = [c \in Ci |-> all] /\ UNCHANGED <<enabled, saved>>
  BY DEF dpu_switch_mux_for_rank
<1>3. CASE Busy
  BY <1>1, <1>3, BusyExact
<1>4. CASE Proceed(If(b, first \o each)) /\ mux' = [c \in Ci |-> all] /\ UNCHANGED <<enabled, saved>>
  <2>0. cis \in SUBSET Ci /\ all \in {{}, Dpu} /\ Dpu # {} /\ Dpu \subseteq Int
    <3>1. Dpu \subseteq Int /\ 0 \in Dpu
      BY CiAssumption DEF Dpu
    <3>2. cis \in SUBSET Ci /\ all \in {{}, Dpu}
      OBVIOUS
    <3> QED
      BY <3>1, <3>2
  <2>1. each \in Seq(Tame)
    <3>1. \A d \in Dpu : Inspecting(d) \in Tame /\ Reading \in Tame
      BY <2>0, Parts DEF Inspecting
    <3>2. [d \in Dpu |-> Inspecting(d)] \in [Dpu -> Tame] /\ [d \in Dpu |-> Reading] \in [Dpu -> Tame]
      BY <3>1
    <3> QED
      BY <3>2, ForEachDpuSeq
  <2>2. a \in Tame /\ a \in Inner /\ a \in Low /\ m \in Inner /\ m \in Low
    BY <2>0, Parts DEF Tame
  <2>3. a.r = "select_all_even_disabled" /\ a.r \in Even /\ m.r = "set_mram_mux" /\ m.cis = cis
    BY ReqFields DEF Even
  <2> HIDE DEF a, m, each
  <2>4. Piece(first \o each, Dpu, cis)
    <3>1. <<a, m>> \in Seq(Low) /\ Piece(<<a, m>>, Dpu, cis)
      BY <2>2, <2>3, SwitchPiece
    <3>2. <<a>> \in Seq(Tame) /\ <<a>> \in Seq(Low)
      BY <2>2
    <3>3. Piece(<<a>>, {}, cis) /\ Piece(each, {}, cis)
      BY <2>1, <3>2, TamePiece
    <3>4. Piece(<<a, m>> \o <<a>>, Dpu \cup {}, cis)
      BY <3>1, <3>3, Together
    <3>5. <<a, m>> \o <<a>> = first
      <4>1. PICK t : t = <<a, m>> \o <<a>>
        OBVIOUS
      <4>2. <<a, m>> \in Seq(Low) /\ <<a>> \in Seq(Low) /\ first \in Seq(Low)
        BY <2>2
      <4>3. t \in Seq(Low) /\ Len(t) = Len(<<a, m>>) + Len(<<a>>) /\ \A j \in 1..Len(<<a, m>>) + Len(<<a>>) :
              t[j] = IF j <= Len(<<a, m>>) THEN <<a, m>>[j] ELSE <<a>>[j - Len(<<a, m>>)]
        BY <4>1, <4>2, ConcatProperties
      <4>4. Len(<<a, m>>) = 2 /\ Len(<<a>>) = 1 /\ Len(first) = 3
        OBVIOUS
      <4>5. Len(t) = 3 /\ t[1] = a /\ t[2] = m /\ t[3] = a
        BY <4>3, <4>4
      <4>6. \A j \in 1..3 : t[j] = first[j]
        BY <4>5
      <4> QED
        BY <4>1, <4>2, <4>3, <4>4, <4>5, <4>6, SeqEqual
    <3>6. first \in Seq(Low)
      BY <2>2
    <3>7. Piece(first, Dpu, cis)
      BY <3>4, <3>5
    <3>8. Piece(first \o each, Dpu \cup {}, cis)
      BY <3>3, <3>6, <3>7, Together
    <3> QED
      BY <3>8
  <2>5. mux' \in [Ci -> SUBSET Dpu]
    BY <1>4, <2>0
  <2>6. \A c \in Alive : c \in Ci /\ mux'[c] = all /\ mux[c] \subseteq Dpu
    BY <1>4 DEF Alive, Exact, CacheType
  <2>7. CASE b
    <3>1. PICK more : more = first \o each
      OBVIOUS
    <3>2. Proceed(more)
      BY <1>4, <2>7, <3>1 DEF If
    <3>3. Recorded(Dpu, cis)
      BY <2>0, <2>6 DEF Recorded
    <3>4. more \in Seq(Inner) /\ Switching(more, Dpu, cis) /\ Writing(more)
      BY <2>4, <3>1 DEF Piece
    <3> QED
      BY <1>1, <1>4, <2>5, <3>2, <3>3, <3>4, ComposedExact
  <2>8. CASE ~b
    <3>1. PICK more : more = <<>>
      OBVIOUS
    <3>2. Proceed(more)
      BY <1>4, <2>8, <3>1 DEF If
    <3>3. Recorded({}, {})
      BY <2>6, <2>8 DEF Recorded
    <3>4. more \in Seq(Tame)
      BY <3>1
    <3>5. more \in Seq(Inner) /\ Switching(more, {}, {}) /\ Writing(more)
      BY <3>4, TamePiece DEF Piece
    <3> QED
      BY <1>1, <1>4, <2>5, <3>2, <3>3, <3>5, ComposedExact
  <2> QED
    BY <2>7, <2>8
<1> QED
  BY <1>2, <1>3, <1>4

LEMMA SwitchLineExact ==
    ASSUME IInv, Exact, calls # <<>>, Head(calls).r \in {"switch_line", "keep_line"}, NoCommand,
           NEW cis \in SUBSET Ci, SwitchLine(Head(calls).a, cis)
    PROVE  Exact'
<1> DEFINE d == Head(calls).a
           Asks(e) == <<Req("select_dpu_even_disabled", e, {}), Req("set_mram_mux", 0, cis)>>
           Line(e) == Asks(e) \o CheckDpu(e)
           lines == {e \in Pair(d) : {c \in Ci : e \in mux[c]} # cis}
           e0 == 2 * (d \div 2)
           e1 == 2 * (d \div 2) + 1
           Part(e) == If(e \in lines, Line(e))
<1>1. d \in Int
  BY Plan DEF IInv, Request
<1>2. e0 \in Int /\ e1 \in Int /\ lines \subseteq {e0, e1} /\ lines \subseteq Dpu /\ Dpu \subseteq Int
  BY <1>1, CiAssumption DEF Pair, Dpu
<1>3. \/ Busy
      \/ /\ Proceed(Part(e0) \o Part(e1)) /\ UNCHANGED <<enabled, saved>>
         /\ mux' = [c \in Ci |-> IF c \in cis THEN mux[c] \cup lines ELSE mux[c] \ lines]
  BY DEF SwitchLine
<1>4. Head(calls).r \in Composite
  BY DEF Composite
<1>5. CASE Busy
  BY <1>4, <1>5, BusyExact
<1>6. ASSUME NEW e \in Int
      PROVE  Part(e) \in Seq(Low) /\ Piece(Part(e), lines \cap {e}, cis)
  <2> DEFINE x == Req("select_dpu_even_disabled", e, {})
             y == Req("set_mram_mux", 0, cis)
  <2>1. x \in Tame /\ x \in Inner /\ x \in Low /\ y \in Inner /\ y \in Low /\ Reading \in Tame /\ Reading \in Low
    BY Parts DEF Tame
  <2>2. x.r = "select_dpu_even_disabled" /\ x.r \in Even /\ x.a = e /\ y.r = "set_mram_mux" /\ y.cis = cis
    BY ReqFields DEF Even
  <2>3. Asks(e) = <<x, y>> /\ CheckDpu(e) = <<x, Reading>>
    BY DEF CheckDpu, Inspecting
  <2> HIDE DEF x, y
  <2>4. <<x, y>> \in Seq(Low) /\ Piece(<<x, y>>, {e}, cis)
    BY <2>1, <2>2, SwitchPiece
  <2>5. <<x, Reading>> \in Seq(Tame) /\ <<x, Reading>> \in Seq(Low)
    BY <2>1
  <2>6. Piece(<<x, Reading>>, {}, cis)
    BY <2>5, TamePiece
  <2>7. Piece(<<x, y>> \o <<x, Reading>>, {e} \cup {}, cis)
    BY <2>4, <2>6, Together
  <2>8. <<x, y>> \o <<x, Reading>> \in Seq(Low)
    BY <2>4, <2>5, ConcatProperties
  <2>9. Line(e) \in Seq(Low) /\ Piece(Line(e), {e}, cis)
    BY <2>3, <2>7, <2>8
  <2>10. <<>> \in Seq(Low) /\ <<>> \in Seq(Tame)
    OBVIOUS
  <2>11. Piece(<<>>, {}, cis)
    BY <2>10, TamePiece
  <2> HIDE DEF Line, lines
  <2>12. CASE e \in lines
    <3>1. Part(e) = Line(e) /\ lines \cap {e} = {e}
      BY <2>12 DEF If
    <3> QED
      BY <2>9, <3>1
  <2>13. CASE e \notin lines
    <3>1. Part(e) = <<>> /\ lines \cap {e} = {}
      BY <2>13 DEF If
    <3> QED
      BY <2>10, <2>11, <3>1
  <2> QED
    BY <2>12, <2>13
<1>7. CASE /\ Proceed(Part(e0) \o Part(e1)) /\ UNCHANGED <<enabled, saved>>
           /\ mux' = [c \in Ci |-> IF c \in cis THEN mux[c] \cup lines ELSE mux[c] \ lines]
  <2> HIDE DEF Part, lines, e0, e1
  <2>1. PICK more : more = Part(e0) \o Part(e1)
    OBVIOUS
  <2>2. Part(e0) \in Seq(Low) /\ Piece(Part(e0), lines \cap {e0}, cis) /\ Piece(Part(e1), lines \cap {e1}, cis)
    BY <1>2, <1>6
  <2>3. Piece(more, (lines \cap {e0}) \cup (lines \cap {e1}), cis)
    BY <2>1, <2>2, Together
  <2>4. (lines \cap {e0}) \cup (lines \cap {e1}) = lines
    BY <1>2
  <2>5. more \in Seq(Inner) /\ Switching(more, lines, cis) /\ Writing(more)
    BY <2>3, <2>4 DEF Piece
  <2>6. mux \in [Ci -> SUBSET Dpu]
    BY DEF Exact, CacheType
  <2>7. mux' \in [Ci -> SUBSET Dpu]
    BY <1>2, <1>7, <2>6
  <2>8. Recorded(lines, cis)
    BY <1>7 DEF Recorded, Alive
  <2>9. Proceed(more) /\ UNCHANGED <<enabled, saved>>
    BY <1>7, <2>1
  <2> QED
    BY <1>4, <2>5, <2>7, <2>8, <2>9, ComposedExact
<1> QED
  BY <1>3, <1>5, <1>7

LEMMA LineExact ==
    ASSUME IInv, Exact, dpu_switch_mux_for_dpu_line \/ SwitchKeeping
    PROVE  Exact'
<1> DEFINE keep == {c \in Ci \ Head(calls).cis : Head(calls).a \in mux[c]}
<1>1. /\ calls # <<>> /\ Head(calls).r \in {"switch_line", "keep_line"} /\ NoCommand
      /\ SwitchLine(Head(calls).a, Head(calls).cis) \/ SwitchLine(Head(calls).a, keep)
  BY DEF dpu_switch_mux_for_dpu_line, SwitchKeeping, Asked
<1>2. Head(calls).cis \in SUBSET Ci /\ keep \in SUBSET Ci
  BY <1>1, Plan DEF IInv, Request
<1> QED
  BY <1>1, <1>2, SwitchLineExact

(* A request that is made of others that switch no mux. *)
LEMMA TameExact ==
    ASSUME IInv, Exact, calls # <<>>, Head(calls).r \in Composite,
           NEW more, Piece(more, {}, {}), Proceed(more), NoCommand, UNCHANGED config
    PROVE  Exact'
<1>1. UNCHANGED <<enabled, saved, mux>>
  BY DEF config
<1>2. Recorded({}, {})
  BY <1>1 DEF Recorded
<1>3. mux' \in [Ci -> SUBSET Dpu]
  BY <1>1 DEF Exact, CacheType
<1>4. more \in Seq(Inner) /\ Switching(more, {}, {}) /\ Writing(more)
  BY DEF Piece
<1> QED
  BY <1>1, <1>2, <1>3, <1>4, ComposedExact

LEMMA StartParts ==
    ASSUME IInv, ci_start_thread_rank
    PROVE  \E more \in Seq(Tame) : Proceed(more)
<1> DEFINE lines == [i \in 1..NrDpus |-> Req("keep_line", i - 1, mask)]
           first == IF mask = Ci THEN <<Req("switch_rank", 0, {})>> ELSE lines
           rest == <<Selecting(mask), Req("frame", Word("boot", 0), {}), Req("launched", 0, Ci)>>
<1>1. Proceed(first \o rest)
  BY DEF ci_start_thread_rank
<1>2. mask \in SUBSET Ci
  BY DEF IInv, CiType
<1>3. lines \in Seq(Tame)
  <2>1. NrDpus \in Nat /\ \A i \in 1..NrDpus : Req("keep_line", i - 1, mask) \in Tame
    BY <1>2, Parts, CiAssumption
  <2> QED
    BY <2>1
<1>4. Req("switch_rank", 0, {}) \in Tame /\ Selecting(mask) \in Tame
      /\ Req("frame", Word("boot", 0), {}) \in Tame /\ Req("launched", 0, Ci) \in Tame
  BY <1>2, Parts
<1>5. first \in Seq(Tame) /\ rest \in Seq(Tame)
  BY <1>3, <1>4
<1> HIDE DEF first, rest
<1>6. PICK more : more = first \o rest
  OBVIOUS
<1>7. more \in Seq(Tame)
  BY <1>5, <1>6, ConcatProperties
<1> QED
  BY <1>1, <1>6, <1>7

LEMMA StartRankExact ==
    ASSUME IInv, Exact, ci_start_thread_rank
    PROVE  Exact'
<1>1. calls # <<>> /\ Head(calls).r \in Composite /\ NoCommand /\ UNCHANGED config
  BY DEF ci_start_thread_rank, Asked, Composite
<1>2. PICK more \in Seq(Tame) : Proceed(more)
  BY StartParts
<1>3. Piece(more, {}, {})
  BY TamePiece
<1> QED
  BY <1>1, <1>2, <1>3, TameExact

LEMMA GroupsExact ==
    ASSUME IInv, Exact, dpu_init_groups \/ CiGroups
    PROVE  Exact'
<1>1. CASE dpu_init_groups
  <2> DEFINE full == {c \in Ci : saved[c] = Dpu}
             each == [i \in 1..NrCis |-> Req("ci_groups", i - 1, {})]
             all == <<Selecting(full), Req("write_group", EnabledGroup, {})>>
  <2>1. /\ calls # <<>> /\ Head(calls).r \in Composite /\ NoCommand /\ UNCHANGED config
        /\ Proceed(each \o If(full # {}, all))
    BY <1>1 DEF dpu_init_groups, Asked, Composite
  <2>2. each \in Seq(Tame)
    <3>1. NrCis \in Nat /\ \A i \in 1..NrCis : i - 1 \in Ci
      BY CiAssumption DEF Ci
    <3> QED
      BY <3>1, Parts
  <2>3. Selecting(full) \in Tame /\ Req("write_group", EnabledGroup, {}) \in Tame
    BY Parts
  <2>4. If(full # {}, all) \in Seq(Tame)
    BY <2>3 DEF If
  <2> HIDE DEF each, all
  <2>5. PICK more : more = each \o If(full # {}, all)
    OBVIOUS
  <2>6. more \in Seq(Tame)
    BY <2>2, <2>4, <2>5, ConcatProperties
  <2>7. Piece(more, {}, {})
    BY <2>6, TamePiece
  <2> QED
    BY <2>1, <2>5, <2>7, TameExact
<1>2. CASE CiGroups
  <2> DEFINE c == Head(calls).a
             first == [d \in Dpu |-> SelectingDpu(d, {c})]
             second == [d \in Dpu |-> Req("write_group", IF d \in saved[c] THEN EnabledGroup ELSE DisabledGroup, {})]
             b == saved[c] \notin {{}, Dpu}
  <2>1. /\ calls # <<>> /\ Head(calls).r \in Composite /\ NoCommand /\ UNCHANGED config
        /\ Proceed(If(b, ForEachDpu(first, second)))
    BY <1>2 DEF CiGroups, Asked, Composite
  <2>2. c \in Ci
    BY <1>2, Plan DEF CiGroups, Asked, IInv, Request
  <2>3. \A d \in Dpu : d \in Int
    BY CiAssumption DEF Dpu
  <2>4. \A d \in Dpu : first[d] \in Inner /\ first[d].r = "select_dpu"
    BY <2>2, <2>3, Parts, ReqFields DEF SelectingDpu, Tame
  <2>5. \A d \in Dpu : second[d] \in Inner /\ second[d].r = "write_group"
    BY Parts, ReqFields DEF EnabledGroup, DisabledGroup
  <2>6. first \in [Dpu -> Inner] /\ second \in [Dpu -> Inner]
    BY <2>4, <2>5
  <2> HIDE DEF first, second, b
  <2>7. PICK s : s = ForEachDpu(first, second)
    OBVIOUS
  <2>8. /\ s \in Seq(Inner)
        /\ \A j \in 1..Len(s) : s[j].r = "select_dpu" \/ (s[j].r = "write_group" /\ j # 1 /\ s[j - 1].r = "select_dpu")
    <3>1. /\ s \in Seq(Inner)
          /\ \A j \in 1..Len(s) : \E d \in Dpu : s[j] = first[d] \/ (s[j] = second[d] /\ j # 1 /\ s[j - 1] = first[d])
      BY <2>6, <2>7, ForEachDpuSeq
    <3> QED
      BY <2>4, <2>5, <3>1
  <2>9. Switching(s, {}, {}) /\ Writing(s)
    BY <2>8 DEF Switching, Writing
  <2>10. Piece(s, {}, {})
    BY <2>8, <2>9 DEF Piece
  <2>11. <<>> \in Seq(Tame)
    OBVIOUS
  <2>12. Piece(<<>>, {}, {})
    BY <2>11, TamePiece
  <2>13. PICK more : more = If(b, s)
    OBVIOUS
  <2>14. Piece(more, {}, {})
    BY <2>10, <2>12, <2>13 DEF If
  <2>15. Proceed(more)
    BY <2>1, <2>7, <2>13
  <2> QED
    BY <2>1, <2>14, <2>15, TameExact
<1> QED
  BY <1>1, <1>2

(* What the host records: launches, polls, which DPUs are enabled. *)
LEMMA RecordedExact ==
    ASSUME IInv, Exact, calls # <<>>, Head(calls).r \in {"launched", "polled", "disabled", "save", "restore"},
           Proceed(<<>>), NoCommand, mux' = mux, Alive' \subseteq Alive,
           Head(calls).r = "save" => AllEnabled',
           Head(calls).r \notin {"save", "disabled", "restore"} => UNCHANGED <<enabled, saved>>
    PROVE  Exact'
<1>1. calls' = Tail(calls) /\ UNCHANGED <<wait, failed, hw>>
  BY Over
<1>2. UNCHANGED <<mask, target>>
  BY DEF NoCommand, caches
<1>3. Head(calls).r \notin {"soft_reset", "select_all", "set_mram_mux", "select_dpu"} /\ Head(calls).r \notin Even
  BY DEF Even
<1>4. /\ ~failed' /\ QueueInv' /\ QuietInv' /\ StructureExact' /\ ReplayIdle' /\ TargetExact' /\ GroupExact'
      /\ CacheType' /\ \A c \in Ci : Settled(c)' = Settled(c)
  BY <1>1, Kept DEF Exact, CacheType
<1>5. \A c \in mask : target[c] # Empty
  BY <1>3, MaskKept
<1>6. MaskSelected'
  BY <1>2, <1>5 DEF MaskSelected
<1>7. \A c \in Alive : Settled(c)'.mux = Settled(c).mux
  BY <1>4 DEF Alive
<1>8. MuxShape' /\ MuxPlanned'
  BY <1>1, <1>3, <1>7, TailMux
<1>9. ResetPlan' /\ WritePlan'
  BY <1>1, <1>3, TailPlan
<1> QED
  BY <1>4, <1>6, <1>8, <1>9 DEF Exact

LEMMA RecordExact ==
    ASSUME IInv, Exact, Launched \/ Polled \/ Disabled \/ RestoreEnabled \/ save_enabled_dpus
    PROVE  Exact'
<1>1. enabled \in [Ci -> SUBSET Dpu] /\ saved \in [Ci -> SUBSET Dpu]
  BY DEF IInv, CiType
<1>2. CASE Launched \/ Polled
  <2>1. /\ calls # <<>> /\ Head(calls).r \in {"launched", "polled"} /\ Proceed(<<>>) /\ NoCommand
        /\ UNCHANGED <<enabled, saved, mux>>
    BY <1>2 DEF Launched, Polled, Asked
  <2>2. Alive' \subseteq Alive
    BY <2>1 DEF Alive
  <2> QED
    BY <2>1, <2>2, RecordedExact
<1>3. CASE Disabled
  <2>1. /\ calls # <<>> /\ Head(calls).r = "disabled" /\ Proceed(<<>>) /\ NoCommand /\ mux' = mux
        /\ enabled' = [c \in Ci |-> IF c \in Head(calls).cis THEN enabled[c] \ {Head(calls).a} ELSE enabled[c]]
    BY <1>3 DEF Disabled, Asked
  <2>2. Alive' \subseteq Alive
    <3>1. \A c \in Ci : enabled'[c] \subseteq enabled[c]
      BY <2>1
    <3> QED
      BY <3>1 DEF Alive
  <2> QED
    BY <2>1, <2>2, RecordedExact
<1>4. CASE RestoreEnabled
  <2>1. /\ calls # <<>> /\ Head(calls).r = "restore" /\ Proceed(<<>>) /\ NoCommand /\ mux' = mux
        /\ enabled' = saved
    BY <1>4 DEF RestoreEnabled, Asked
  <2>2. Head(calls) = calls[1] /\ 1 \in 1..Len(calls)
    BY <2>1, CallsSeq, TailCalls DEF IInv
  <2>3. \A c \in Ci : enabled[c] = IF saved[c] = {} THEN {} ELSE Dpu
    BY <2>1, <2>2 DEF Exact, ResetPlan
  <2>4. Dpu # {}
    <3>1. 0 \in Dpu
      BY CiAssumption DEF Dpu
    <3> QED
      BY <3>1
  <2>5. Alive' \subseteq Alive
    BY <2>1, <2>3, <2>4 DEF Alive
  <2> QED
    BY <2>1, <2>5, RecordedExact
<1>5. CASE save_enabled_dpus
  <2>1. /\ calls # <<>> /\ Head(calls).r = "save" /\ Proceed(<<>>) /\ NoCommand /\ mux' = mux
        /\ saved' = enabled /\ enabled' = [c \in Ci |-> IF enabled[c] = {} THEN {} ELSE Dpu]
    BY <1>5 DEF save_enabled_dpus, Asked
  <2>2. Alive' \subseteq Alive
    BY <2>1 DEF Alive
  <2>3. AllEnabled'
    BY <2>1 DEF AllEnabled
  <2> QED
    BY <2>1, <2>2, <2>3, RecordedExact
<1> QED
  BY <1>2, <1>3, <1>4, <1>5

(* A new call: it starts with no mux to switch. *)
Fresh(s) ==
    /\ \A j \in 1..Len(s) : /\ s[j].r # "set_mram_mux"
                            /\ s[j].r = "restore" => /\ j = Len(s) /\ s[1].r = "save"
                                                     /\ \A i \in 1..Len(s) : s[i].r # "disabled"
    /\ Writing(s)

LEMMA FreshExact ==
    ASSUME IInv, Exact, calls = <<>>, Fresh(calls'), UNCHANGED <<caches, config, mask, wait, failed, hw, queue, cmds>>
    PROVE  Exact'
<1>1. UNCHANGED <<enabled, saved, mux, target, structure, groups>> /\ NoCommand
  BY DEF config, caches, NoCommand
<1>2. Alive' = Alive /\ Alive \subseteq Ci
  BY <1>1 DEF Alive
<1>3. /\ ~failed' /\ QueueInv' /\ QuietInv' /\ StructureExact' /\ ReplayIdle' /\ TargetExact' /\ GroupExact'
      /\ CacheType' /\ \A c \in Ci : Settled(c)' = Settled(c)
  BY <1>1, <1>2, Kept DEF Exact, CacheType
<1>4. calls \notin {Reset2, Reset3}
  BY ResetRest
<1>5. MaskSelected'
  BY <1>1, <1>4 DEF Exact, MaskSelected
<1>6. Muxes = {} /\ \A c \in Alive : \A d \in Int : d \in mux[c] <=> d \in Settled(c).mux
  BY NoMuxes
<1>7. Muxes' = {}
  BY DEF Muxes, Fresh
<1>8. MuxShape'
  BY <1>7 DEF MuxShape
<1>9. MuxPlanned'
  BY <1>1, <1>2, <1>3, <1>6, <1>7 DEF MuxPlanned
<1>10. ResetPlan'
  BY DEF ResetPlan, Fresh
<1>11. WritePlan'
  BY DEF WritePlan, Fresh, Writing
<1> QED
  BY <1>3, <1>5, <1>8, <1>9, <1>10, <1>11 DEF Exact

LEMMA TameFresh ==
    ASSUME NEW s \in Seq(Tame)
    PROVE  Fresh(s)
<1>1. \A j \in 1..Len(s) : s[j] \in Tame
  OBVIOUS
<1>2. \A q \in Tame : q.r \notin {"set_mram_mux", "restore"}
  BY DEF Tame, Inner
<1>3. Writing(s)
  BY TamePiece DEF Piece
<1> QED
  BY <1>1, <1>2, <1>3 DEF Fresh

LEMMA DisableFresh ==
    ASSUME NEW c \in Ci, NEW d \in Dpu
    PROVE  Fresh(Disable(c, d))
<1>1. PICK s : s = Disable(c, d)
  OBVIOUS
<1>2. Len(s) = 3 /\ s[1].r = "select_dpu" /\ s[2].r = "write_group" /\ s[3].r = "disabled"
  BY <1>1, ReqFields DEF Disable, SelectingDpu
<1>3. \A j \in 1..Len(s) : j \in {1, 2, 3}
  BY <1>2
<1>4. \A j \in 1..Len(s) : s[j].r \notin {"set_mram_mux", "restore"}
  BY <1>2, <1>3
<1>5. Writing(s)
  <2>1. 2 # 1 /\ 2 - 1 = 1
    OBVIOUS
  <2> QED
    BY <1>2, <1>3, <2>1 DEF Writing
<1> QED
  BY <1>1, <1>4, <1>5 DEF Fresh

LEMMA ResetFresh == Fresh(Reset)
<1>1. PICK s : s = Reset
  OBVIOUS
<1>2. /\ Len(s) = 10 /\ s[1].r = "save" /\ s[2].r = "soft_reset" /\ s[3].r = "soft_reset" /\ s[4].r = "select_all"
      /\ s[5].r = "frame" /\ s[6].r = "frame" /\ s[7].r = "frame" /\ s[8].r = "switch_rank" /\ s[9].r = "init_groups"
      /\ s[10].r = "restore"
  BY <1>1, ReqFields DEF Reset, Selecting, Reading, Reboot
<1>3. \A j \in 1..Len(s) : j \in {1, 2, 3, 4, 5, 6, 7, 8, 9, 10}
  BY <1>2
<1>4. \A j \in 1..Len(s) : s[j].r \notin {"set_mram_mux", "disabled", "write_group"} /\ (s[j].r = "restore" => j = 10)
  BY <1>2, <1>3
<1>5. Writing(s)
  BY <1>4 DEF Writing
<1> QED
  BY <1>1, <1>2, <1>4, <1>5 DEF Fresh

LEMMA CallKinds ==
    ASSUME IInv, Call
    PROVE  \/ calls' \in Seq(Tame) \/ calls' = Reset
           \/ \E c \in Ci, d \in Dpu : calls' = Disable(c, d)
<1>2. \A d \in Dpu : d \in Int /\ d + 1 \in Int
  BY CiAssumption DEF Dpu
<1>3. Ci \in SUBSET Ci /\ \A c \in Ci : {c} \in SUBSET Ci
  OBVIOUS
<1>4. PollRank \in Seq(Tame) /\ LaunchRank \in Seq(Tame) /\ AccessRank \in Seq(Tame)
  <2>1. /\ Selecting(Ci) \in Tame /\ Reading \in Tame /\ Req("polled", 0, {}) \in Tame
        /\ Req("start_rank", 0, {}) \in Tame /\ Req("switch_rank", 1, {}) \in Tame
    BY Parts
  <2>2. PollRank \in Seq(Tame) /\ <<Selecting(Ci), Req("start_rank", 0, {})>> \in Seq(Tame)
        /\ AccessRank \in Seq(Tame)
    BY <2>1 DEF PollRank, AccessRank
  <2> QED
    BY <2>2, ConcatProperties DEF LaunchRank
<1>5. ASSUME NEW c \in Ci, NEW d \in Dpu
      PROVE  LaunchDpu(c, d) \in Seq(Tame)
  <2>1. /\ SelectingDpu(d, {c}) \in Tame
        /\ Req("keep_line", d, {c}) \in Tame /\ Req("frame", Word("boot", d + 1), {}) \in Tame
        /\ Req("launched", d + 1, {c}) \in Tame
    BY <1>2, <1>3, Parts
  <2>2. <<Req("keep_line", d, {c}), SelectingDpu(d, {c}), Req("frame", Word("boot", d + 1), {}),
          Req("launched", d + 1, {c})>> \in Seq(Tame)
    BY <2>1
  <2> QED
    BY <1>4, <2>2, ConcatProperties DEF LaunchDpu
<1>6. ASSUME NEW d \in Dpu, NEW cis \in SUBSET Ci
      PROVE  AccessPair(d, cis) \in Seq(Tame)
  <2>1. Req("switch_line", d, cis) \in Tame /\ Req("switch_line", d + 1, cis) \in Tame
    BY <1>2, Parts
  <2> QED
    BY <2>1 DEF AccessPair
<1>7. enabled \in [Ci -> SUBSET Dpu]
  BY DEF IInv, CiType
<1> QED
  BY <1>4, <1>5, <1>6, <1>7 DEF Call

LEMMA CallExact ==
    ASSUME IInv, Exact, Call
    PROVE  Exact'
<1>1. calls = <<>> /\ UNCHANGED <<caches, config, mask, wait, failed, hw, queue, cmds>>
  BY DEF Call
<1>2. Fresh(calls')
  BY CallKinds, TameFresh, DisableFresh, ResetFresh
<1> QED
  BY <1>1, <1>2, FreshExact

-----------------------------------------------------------------------------

(* An error is not forgotten. *)
LEMMA LostStays ==
    ASSUME [Next]_vars, ~lost'
    PROVE  ~lost
<1>1. CASE UNCHANGED vars
  BY <1>1 DEF vars, count
<1>2. ASSUME NEW c \in Ci, Execute(c)
      PROVE  ~lost
  BY <1>2 DEF Execute, count
<1>3. CASE Commit \/ Update
  BY <1>3 DEF Commit, Update, Fails, count
<1>4. ASSUME NEW more, Proceed(more)
      PROVE  ~lost
  BY <1>4 DEF Proceed, count
<1>5. CASE ufi_select_all \/ ufi_select_all_even_disabled
  BY <1>4, <1>5 DEF ufi_select_all, ufi_select_all_even_disabled, Select
<1>6. CASE ufi_select_dpu \/ ufi_select_dpu_even_disabled
  BY <1>4, <1>6 DEF ufi_select_dpu, ufi_select_dpu_even_disabled, SelectDpu
<1>7. CASE ufi_write_group \/ SendFrame \/ ufi_set_mram_mux
  BY <1>4, <1>7 DEF ufi_write_group, SendFrame, ufi_set_mram_mux
<1>8. CASE dpu_soft_reset
  BY <1>8 DEF dpu_soft_reset
<1>9. CASE Busy
  BY <1>9 DEF Busy, count
<1>10. CASE dpu_switch_mux_for_rank
  BY <1>4, <1>9, <1>10 DEF dpu_switch_mux_for_rank
<1>11. CASE dpu_switch_mux_for_dpu_line \/ SwitchKeeping
  BY <1>4, <1>9, <1>11 DEF dpu_switch_mux_for_dpu_line, SwitchKeeping, SwitchLine
<1>12. CASE ci_start_thread_rank \/ dpu_init_groups \/ CiGroups
  BY <1>4, <1>12 DEF ci_start_thread_rank, dpu_init_groups, CiGroups
<1>13. CASE Launched \/ Polled \/ Disabled \/ save_enabled_dpus \/ RestoreEnabled
  BY <1>4, <1>13 DEF Launched, Polled, Disabled, save_enabled_dpus, RestoreEnabled
<1>14. CASE Call
  BY <1>14 DEF Call
<1>15. CASE Done
  BY <1>1, <1>15 DEF Done
<1> QED
  BY <1>1, <1>2, <1>3, <1>5, <1>6, <1>7, <1>8, <1>10, <1>11, <1>12, <1>13, <1>14, <1>15 DEF Next

(* Every step that is no error preserves what the caches say. *)
LEMMA NextExact ==
    ASSUME IInv, Exact, [Next]_vars, ~lost'
    PROVE  Exact'
<1>1. CASE UNCHANGED vars
  <2>1. /\ UNCHANGED <<caches, config, calls, mask, failed>> /\ UNCHANGED <<queue, hw, cmds>>
        /\ UNCHANGED <<wait>>
    BY <1>1 DEF vars, engine, count
  <2>2. \A c \in Ci : Settled(c)' = Settled(c) /\ Final(c)' = Final(c)
    BY <2>1, SettledSame
  <2>3. QueueInv' /\ QuietInv'
    BY <2>1 DEF Exact, QueueInv, QuietInv
  <2> QED
    BY <2>1, <2>2, <2>3, SilentExact
<1>2. CASE Done
  BY <1>1, <1>2 DEF Done
<1> QED
  BY <1>1, <1>2, ExecuteExact, CommitExact, UpdateExact, SelectAllExact, SelectAllEvenExact, SelectOneExact,
     WriteGroupExact, SendFrameExact, SetMuxExact, SoftResetExact, SwitchRankExact, LineExact, StartRankExact,
     GroupsExact, RecordExact, CallExact
     DEF Next

(* Nothing is selected before the first reset. *)
LEMMA InitExact == Init => Exact
<1> SUFFICES ASSUME Init
             PROVE  Exact
  OBVIOUS
<1>1. /\ queue = <<>> /\ ~wait.on /\ ~failed /\ mask = {} /\ calls = Reset
      /\ target = [c \in Ci |-> Empty] /\ structure = [c \in Ci |-> 0] /\ groups = [c \in Ci |-> [d \in Dpu |-> 0]]
      /\ mux = [c \in Ci |-> {}] /\ cmds = [c \in Ci |-> Empty]
  BY DEF Init, Idle
<1>2. \A c \in Ci : /\ hw[c].pending = Empty /\ hw[c].structure = 0 /\ hw[c].selected = {} /\ hw[c].mux = {}
                    /\ hw[c].group = [d \in Dpu |-> 0]
  BY DEF Init
<1>3. \A c \in Ci : Settled(c) = State(hw[c]) /\ Final(c) = Empty
  <2>1. \A c \in Ci : Executed(State(hw[c]), hw[c].pending) = State(hw[c])
    BY <1>2, EmptyIdle
  <2> QED
    BY <1>1, <2>1 DEF Settled, Reached, Final
<1>4. \A c \in Ci : /\ Settled(c).structure = 0 /\ Settled(c).group = [d \in Dpu |-> 0] /\ Settled(c).mux = {}
                    /\ Executed(Settled(c), Final(c)) = Settled(c)
  BY <1>2, <1>3, EmptyIdle DEF State
<1>5. CacheType
  BY <1>1 DEF CacheType
<1>6. QueueInv /\ QuietInv
  BY <1>1, <1>2 DEF QueueInv, QuietInv
<1>7. StructureExact /\ ReplayIdle /\ TargetExact /\ GroupExact
  BY <1>1, <1>4 DEF StructureExact, ReplayIdle, TargetExact, GroupExact, Alive
<1>8. MaskSelected
  BY <1>1 DEF MaskSelected
<1>9. Fresh(calls)
  BY <1>1, ResetFresh
<1>10. Muxes = {}
  BY <1>9 DEF Muxes, Fresh
<1>11. MuxShape
  BY <1>10 DEF MuxShape
<1>12. MuxPlanned
  BY <1>1, <1>4, <1>10 DEF MuxPlanned, Alive
<1>13. ResetPlan
  BY <1>9 DEF ResetPlan, Fresh
<1>14. WritePlan
  BY <1>9 DEF WritePlan, Fresh, Writing
<1> QED
  BY <1>1, <1>5, <1>6, <1>7, <1>8, <1>11, <1>12, <1>13, <1>14 DEF Exact

(* As long as no command has failed, what the caches say and what has been *)
(* asked so far makes of each CI what the host has recorded.               *)
THEOREM StaysExact == Spec => [](~lost => Exact)
<1>1. Init => (~lost => Exact)
  BY InitExact
<1>2. IInv /\ (~lost => Exact) /\ [Next]_vars => (~lost => Exact)'
  BY NextExact, LostStays
<1> QED
  BY <1>1, <1>2, Inductive, PTL DEF Spec

(* CachesExact: between calls the caches are those of the hardware (the    *)
(* selections, groups and structures of ufi.c, host_mux_mram_state).       *)
THEOREM CachesStayExact == Spec => []CachesExact
<1>1. IInv /\ (~lost => Exact) => CachesExact
  <2> SUFFICES ASSUME IInv, Exact, AtRest, NEW c \in Ci, enabled[c] # {}
               PROVE  /\ target[c] # Empty => hw[c].selected = Chosen(c)
                      /\ groups[c] = hw[c].group
                      /\ structure[c] = hw[c].structure
                      /\ mux[c] = hw[c].mux
    BY DEF CachesExact
  <2>1. calls = <<>> /\ queue = <<>> /\ ~wait.on /\ c \in Alive
    BY DEF AtRest, Alive
  <2>2. Settled(c) = State(hw[c]) /\ Settled(c) \in Core
    BY <2>1, AtRequest
  <2>3. /\ Settled(c).structure = hw[c].structure /\ Settled(c).selected = hw[c].selected
        /\ Settled(c).group = hw[c].group /\ Settled(c).mux = hw[c].mux
    BY <2>2 DEF State
  <2>4. \A d \in Int : d \in mux[c] <=> d \in hw[c].mux
    BY <2>1, <2>3, NoMuxes
  <2>5. mux[c] \subseteq Int /\ hw[c].mux \subseteq Int
    <3>1. mux[c] \subseteq Dpu /\ Dpu \subseteq Int
      BY CiAssumption DEF Exact, CacheType, Dpu
    <3>2. hw[c].mux \subseteq Int
      BY <2>2, <2>3 DEF Core
    <3> QED
      BY <3>1, <3>2
  <2>6. mux[c] = hw[c].mux
    BY <2>4, <2>5
  <2> QED
    BY <2>1, <2>3, <2>6 DEF Exact, TargetExact, GroupExact, StructureExact
<1> QED
  BY <1>1, Inductive, StaysExact, PTL
=============================================================================
