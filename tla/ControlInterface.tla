-------------------------- MODULE ControlInterface --------------------------
(***************************************************************************)
(* How the host drives the control interfaces (CI) of a rank: the command  *)
(* protocol of ufi_ci.c, whose answers are told apart by a colour bit, the *)
(* selections and structures of ufi.c, which are cached so as not to be    *)
(* sent again, and the calls that depend on these caches: the MRAM mux,    *)
(* launching a rank or a DPU, disabling a DPU, resetting the rank.         *)
(*                                                                         *)
(* The host runs one call at a time, under the mutex of the rank.  A call  *)
(* is a sequence of requests; a request updates the caches and queues up   *)
(* to two commands; a command is committed to all the CIs and the results  *)
(* are read until each CI has answered.  The CIs execute at their own      *)
(* pace, and a commit may fail or an answer may take too long.             *)
(***************************************************************************)
EXTENDS Integers, Sequences

CONSTANTS NrCis,       \* nr_of_control_interfaces
          NrDpus,      \* nr_of_dpus_per_control_interface
          Profiles,    \* the possible enabled DPUs of each CI
          MaxRetries,  \* NB_RETRY_FOR_VALID_RESULT
          MaxErrors,   \* bound: commits that fail and answers that come too late
          MaxCalls     \* bound: calls after the first reset, an error taking the place of three

ASSUME CiAssumption ==
    /\ NrCis \in Nat \ {0} /\ NrDpus \in Nat \ {0} /\ MaxRetries \in Nat /\ MaxErrors \in Nat /\ MaxCalls \in Nat
    /\ Profiles \subseteq [0..NrCis - 1 -> SUBSET (0..NrDpus - 1)]

Ci == 0..NrCis - 1
Dpu == 0..NrDpus - 1
EnabledGroup == 0    \* DPU_ENABLED_GROUP
DisabledGroup == 1   \* DPU_DISABLED_GROUP

VARIABLES
    color,      \* the colour of the next answer of each CI, as the host expects it
    target,     \* slice_target: the cached selection
    structure,  \* structure_value: the cached structure
    groups,     \* dpus_per_group, as the group of each DPU
    enabled,    \* enabled_dpus; all_dpus_are_enabled when it is Dpu
    saved,      \* what the reset of the rank has saved of it
    mux,        \* host_mux_mram_state: the DPUs whose MRAM the host has
    running,    \* run_context.dpu_running
    cmds,       \* rank->cmds: the words of the last command
    calls,      \* the requests that the current call has still to make
    queue,      \* the commands of the current request
    mask,       \* ci_mask, as the last selection returned it
    wait,       \* the command that is waited for
    errors, nrCalls,
    failed,     \* an error has occurred since the last soft reset
    lost,       \* an error has occurred
    hw          \* hw[c]: the control interface itself

caches == <<target, structure, groups>>
config == <<enabled, saved, mux, running>>
engine == <<calls, queue, mask, wait>>
count == <<errors, nrCalls, failed, lost>>
vars == <<color, caches, config, cmds, engine, count, hw>>

(***************************************************************************)
(* Words of the protocol: a structure, which lays out the frames to come,  *)
(* or a frame, which must be read with its own structure.  The target of a *)
(* selection is the frame that makes it.  A boot frame says which DPU is   *)
(* meant (0 for all of them): the CI does not look at it.  The boots of a  *)
(* reset, of a program that clears the DPUs, are told from those of a      *)
(* launch.                                                                 *)
(***************************************************************************)
Word(k, a) == [k |-> k, a |-> a]
Empty == Word("empty", 0)      \* CI_EMPTY; as a target, DPU_SLICE_TARGET_NONE
SelectAll == Word("select all", 0)
SelectGroup == Word("select group", EnabledGroup)
StructureOf(w) == CASE w.k \in {"select all", "read"} -> 1
                    [] w.k \in {"select group", "select dpu", "write group"} -> 2
                    [] w.k \in {"mux", "clear"} -> 3
                    [] w.k \in {"boot", "reboot"} -> 4
Structure(w) == Word("structure", StructureOf(w))

Req(r, a, cis) == [r |-> r, a |-> a, cis |-> cis]
Idle == [in |-> {}, expect |-> [c \in Ci |-> 0], done |-> {}, tries |-> 0, on |-> FALSE]

-----------------------------------------------------------------------------
(***************************************************************************)
(* The calls, as the requests they are made of.                            *)
(***************************************************************************)
Selecting(cis) == Req("select_all", 0, cis)
SelectingDpu(d, cis) == Req("select_dpu", d, cis)
Reading == Req("frame", Word("read", 0), {})

(* dpu_launch_thread_on_rank: dpu_poll_rank, then ci_start_thread_rank. *)
PollRank == <<Selecting(Ci), Reading, Req("polled", 0, {})>>
LaunchRank == PollRank \o <<Selecting(Ci), Req("start_rank", 0, {})>>

(* Mutant: the poll that precedes the launch of a DPU selects its CI only. *)
LaunchDpuPollingOwnCi(c, d) ==
    <<Selecting({c}), Reading, Req("polled", 0, {}), Req("keep_line", d, {c}), SelectingDpu(d, {c}),
      Req("frame", Word("boot", d + 1), {}), Req("launched", d + 1, {c})>>

(* dpu_launch_thread_on_dpu: dpu_poll_dpu, which polls the whole rank, then
   ci_start_thread_dpu. *)
LaunchDpu(c, d) == PollRank \o <<Req("keep_line", d, {c}), SelectingDpu(d, {c}),
                                 Req("frame", Word("boot", d + 1), {}), Req("launched", d + 1, {c})>>

(* host_get_access_for_transfer: of the whole rank, or of a pair of lines, the
   host wanting the MRAMs of the CIs cis. *)
AccessRank == <<Req("switch_rank", 1, {})>>
AccessPair(d, cis) == <<Req("switch_line", d, cis), Req("switch_line", d + 1, cis)>>

(* dpu_disable_one_dpu, ci_disable_dpu. *)
Disable(c, d) == <<SelectingDpu(d, {c}), Req("write_group", DisabledGroup, {}), Req("disabled", d, {c})>>

(* ci_reset_rank; one read stands for the commands that configure the DPUs and
   that all go to the selection of ufi_select_all.  dpu_reset_internal_state then
   boots the threads of all the DPUs, the disabled ones too, whoever has their
   MRAM, and reads until they have stopped. *)
Reboot == Req("frame", Word("reboot", 0), {})
Reset == <<Req("save", 0, {}), Req("soft_reset", 0, {}), Req("soft_reset", 0, {}), Selecting(Ci), Reading,
           Reboot, Reading, Req("switch_rank", 1, {}), Req("init_groups", 0, {}), Req("restore", 0, {})>>

Init ==
    /\ enabled \in Profiles
    /\ color = [c \in Ci |-> 0]
    /\ target = [c \in Ci |-> Empty]
    /\ structure = [c \in Ci |-> 0]
    /\ groups = [c \in Ci |-> [d \in Dpu |-> 0]]
    /\ saved = enabled
    /\ mux = [c \in Ci |-> {}] /\ running = [c \in Ci |-> {}]
    /\ cmds = [c \in Ci |-> Empty]
    /\ calls = Reset /\ queue = <<>> /\ mask = {} /\ wait = Idle
    /\ errors = 0 /\ nrCalls = 0 /\ failed = FALSE /\ lost = FALSE
    /\ hw = [c \in Ci |-> [color |-> 0, shown |-> 2, structure |-> 0, selected |-> {},
                           group |-> [d \in Dpu |-> 0], mux |-> {}, pending |-> Empty]]

-----------------------------------------------------------------------------
(***************************************************************************)
(* The control interface, as the host code relies on it.                   *)
(***************************************************************************)

(* What a word does.  A frame that does not fit the structure register is a
   decoding error: it is answered, and does nothing. *)
Executed(h, w) ==
    IF w.k = "structure" THEN [h EXCEPT !.structure = w.a]
    ELSE IF h.structure # StructureOf(w) THEN h
    ELSE CASE w.k = "select all" -> [h EXCEPT !.selected = Dpu]
           [] w.k = "select group" -> [h EXCEPT !.selected = {d \in Dpu : h.group[d] = w.a}]
           [] w.k = "select dpu" -> [h EXCEPT !.selected = {w.a}]
           [] w.k = "write group" ->
                 [h EXCEPT !.group = [d \in Dpu |-> IF d \in h.selected THEN w.a ELSE @[d]]]
           [] w.k = "mux" -> [h EXCEPT !.mux = IF w.a = 1 THEN @ \cup h.selected ELSE @ \ h.selected]
           [] w.k \notin {"select all", "select group", "select dpu", "write group", "mux"} -> h

(* A CI executes the word it holds, shows its answer in the current colour and
   changes the colour. *)
Execute(c) ==
    /\ hw[c].pending # Empty
    /\ hw' = [hw EXCEPT ![c] = [Executed(@, @.pending) EXCEPT
                   !.shown = hw[c].color, !.color = 1 - hw[c].color, !.pending = Empty]]
    /\ UNCHANGED <<color, caches, config, cmds, engine, count>>

(* After a soft reset nothing is selected, every DPU is in group 0 and the result
   register holds no answer; the structure register and the mux are left alone. *)
ResetHw(h) == [h EXCEPT !.color = 0, !.shown = 2, !.selected = {}, !.pending = Empty,
                        !.group = [d \in Dpu |-> 0]]

-----------------------------------------------------------------------------
(***************************************************************************)
(* exec_cmd of ufi_ci.c.                                                   *)
(***************************************************************************)
CisOf(words) == {c \in Ci : words[c] # Empty}          \* compute_ci_mask

(* Mutant: the colour of every CI is inverted. *)
InvertedAll(m) == [c \in Ci |-> 1 - color[c]]

Inverted(m) == [c \in Ci |-> IF c \in m THEN 1 - color[c] ELSE color[c]]

Received(m, words) == [c \in Ci |-> IF c \in m THEN [hw[c] EXCEPT !.pending = words[c]] ELSE hw[c]]

(* An error ends the call where it is. *)
Fails ==
    /\ errors' = IF errors < MaxErrors THEN errors + 1 ELSE errors
    /\ failed' = TRUE /\ lost' = TRUE
    /\ calls' = <<>> /\ queue' = <<>> /\ wait' = Idle
    /\ UNCHANGED <<nrCalls, mask>>

(* The colour is changed before the command is committed, and the commit may
   fail after some of the CIs have received theirs. *)
Commit ==
    /\ queue # <<>> /\ ~wait.on
    /\ LET words == Head(queue).words
           m == CisOf(words)
       IN /\ color' = Inverted(m)
          /\ cmds' = IF Head(queue).shared THEN words ELSE cmds
          /\ \/ /\ hw' = Received(m, words)
                /\ wait' = [in |-> m, expect |-> color, done |-> {}, tries |-> 0, on |-> TRUE]
                /\ queue' = Tail(queue)
                /\ UNCHANGED <<calls, mask, count>>
             \/ /\ errors < MaxErrors
                /\ \E got \in SUBSET m : hw' = Received(got, words)
                /\ Fails
    /\ UNCHANGED <<caches, config>>

(* determine_if_commands_are_finished: a CI has answered when its result shows
   the expected colour; it is not looked at again. *)
Answered == wait.done \cup {c \in wait.in : hw[c].shown = wait.expect[c]}

(* The result is read again, up to MaxRetries times.  Reading may fail, also when
   all have answered, for the result is then read once more.  Giving up on a CI that
   still has to execute its word is one of the MaxErrors too; on one that has
   executed it, and shows the other colour, it is not. *)
Update ==
    /\ wait.on
    /\ \/ errors < MaxErrors /\ Fails
       \/ IF Answered = wait.in
          THEN wait' = Idle /\ UNCHANGED <<calls, queue, mask, count>>
          ELSE \/ /\ wait.tries < MaxRetries
                  /\ wait' = [wait EXCEPT !.done = Answered, !.tries = @ + 1]
                  /\ UNCHANGED <<calls, queue, mask, count>>
               \/ /\ wait.tries = MaxRetries
                  /\ \A c \in wait.in : hw[c].pending = Empty
                  /\ Fails
    /\ UNCHANGED <<color, caches, config, cmds, hw>>

-----------------------------------------------------------------------------
(***************************************************************************)
(* Requests.  Each takes the head of calls; the next one is made when its  *)
(* commands are answered.                                                  *)
(***************************************************************************)
Asked(r) == calls # <<>> /\ queue = <<>> /\ ~wait.on /\ Head(calls).r = r
Proceed(more) == calls' = more \o Tail(calls) /\ UNCHANGED <<wait, color, count, hw>>
NoCommand == UNCHANGED <<queue, mask, cmds, caches>>

Prepared(m, w) == [c \in Ci |-> IF c \in m THEN w ELSE Empty]    \* ci_prepare_mask

Command(words, shared) == [words |-> words, shared |-> shared]
If(b, seq) == IF b THEN seq ELSE <<>>

(* UFI_exec_write_structure, UFI_exec_write_structures: sent to all of m when it
   differs from the cached one for one of them, and cached before it is sent. *)
Differing(m, w) == {c \in m : structure[c] # StructureOf(w[c])}
Cache(m, w) == structure' = [c \in Ci |-> IF c \in m THEN StructureOf(w[c]) ELSE structure[c]]

(* UFI_exec_void_frame. *)
VoidFrame(m, w) ==
    /\ Cache(m, [c \in m |-> w])
    /\ queue' = If(Differing(m, [c \in m |-> w]) # {}, <<Command(Prepared(m, Structure(w)), TRUE)>>)
                \o <<Command(Prepared(m, w), TRUE)>>

(* UFI_exec_void_frames as the selections use it: the structures are local, the
   frames are rank->cmds, of which only those of the CIs to select are new. *)
VoidFrames(do, want) ==
    LET frames == [c \in Ci |-> IF c \in do THEN want[c] ELSE cmds[c]]
    IN /\ Cache(do, want)
       /\ cmds' = frames
       /\ queue' = If(Differing(do, want) # {},
                      <<Command([c \in Ci |-> IF c \in do THEN Structure(want[c]) ELSE Empty], FALSE)>>)
                   \o <<Command(frames, TRUE)>>

(* ufi_select_all and ufi_select_all_even_disabled: the CIs of m, to be selected
   as want says. *)
Select(m, want) ==
    LET do == {c \in m : target[c] # want[c]}
    IN /\ mask' = m
       /\ target' = [c \in Ci |-> IF c \in do THEN want[c] ELSE target[c]]
       /\ IF do = {} THEN UNCHANGED <<queue, cmds, structure>> ELSE VoidFrames(do, want)
       /\ Proceed(<<>>) /\ UNCHANGED <<groups, config>>

ufi_select_all ==
    /\ Asked("select_all")
    /\ LET want == [c \in Ci |-> IF enabled[c] = Dpu THEN SelectAll ELSE SelectGroup]
       IN Select({c \in Head(calls).cis : enabled[c] # {} \/ target[c] = want[c]}, want)

ufi_select_all_even_disabled ==
    /\ Asked("select_all_even_disabled")
    /\ Select({c \in Ci : enabled[c] # {}}, [c \in Ci |-> SelectAll])

(* Mutant: nothing is sent when one of the CIs is already on that DPU. *)
SelectDpuIfNone(m, w) ==
    /\ mask' = m
    /\ target' = [c \in Ci |-> IF c \in m THEN w ELSE target[c]]
    /\ IF \A c \in m : target[c] # w THEN VoidFrame(m, w) ELSE UNCHANGED <<queue, structure>>
    /\ Proceed(<<>>) /\ UNCHANGED <<groups, cmds, config>>

(* ufi_select_dpu and ufi_select_dpu_even_disabled. *)
SelectDpu(m, w) ==
    /\ mask' = m
    /\ target' = [c \in Ci |-> IF c \in m THEN w ELSE target[c]]
    /\ IF \E c \in m : target[c] # w THEN VoidFrame(m, w) ELSE UNCHANGED <<queue, structure>>
    /\ Proceed(<<>>) /\ UNCHANGED <<groups, cmds, config>>

ufi_select_dpu ==
    /\ Asked("select_dpu")
    /\ LET d == Head(calls).a
       IN SelectDpu({c \in Head(calls).cis : d \in enabled[c]}, Word("select dpu", d))

ufi_select_dpu_even_disabled ==
    /\ Asked("select_dpu_even_disabled")
    /\ SelectDpu({c \in Ci : enabled[c] # {}}, Word("select dpu", Head(calls).a))

(* ci_fill_selected_dpu_mask. *)
Chosen(c) == CASE target[c].k = "select all" -> Dpu
               [] target[c].k = "select dpu" -> {target[c].a}
               [] target[c].k = "select group" -> {d \in Dpu : groups[c][d] = target[c].a}

(* The groups are recorded from the cached selection, before the command. *)
ufi_write_group ==
    /\ Asked("write_group")
    /\ LET g == Head(calls).a
       IN /\ groups' = [c \in Ci |-> IF c \in mask
                            THEN [d \in Dpu |-> IF d \in Chosen(c) THEN g ELSE groups[c][d]]
                            ELSE groups[c]]
          /\ VoidFrame(mask, Word("write group", g))
    /\ Proceed(<<>>) /\ UNCHANGED <<mask, target, cmds, config>>

(* A frame for the CIs of the last selection: ufi_thread_boot, ufi_read_dpu_run,
   ufi_clear_dma_ctrl, ufi_read_dma_ctrl. *)
SendFrame ==
    /\ Asked("frame")
    /\ VoidFrame(mask, Head(calls).a)
    /\ Proceed(<<>>) /\ UNCHANGED <<mask, target, groups, cmds, config>>

(* ufi_write_dma_ctrl_datas as ufi_set_mram_mux uses it: the words of the CIs
   that are not in the mask are those of the last command. *)
ufi_set_mram_mux ==
    /\ Asked("set_mram_mux")
    /\ LET w == [c \in mask |-> Word("mux", IF c \in Head(calls).cis THEN 1 ELSE 0)]
           write == Differing(mask, w) # {}
       IN /\ Cache(mask, w)
          /\ queue' = If(write, <<Command(Prepared(mask, Word("structure", 3)), TRUE)>>)
                      \o <<Command([c \in Ci |-> IF c \in mask THEN w[c] ELSE IF write THEN Empty ELSE cmds[c]],
                                   TRUE)>>
    /\ Proceed(<<Req("frame", Word("clear", 0), {})>>) /\ UNCHANGED <<mask, target, groups, cmds, config>>

(* dpu_soft_reset, ufi_soft_reset, ci_exec_reset_cmd: a failure is ignored. *)
dpu_soft_reset ==
    /\ Asked("soft_reset")
    /\ LET m == {c \in Ci : enabled[c] # {}}                   \* ufi_select_cis
       IN \/ /\ hw' = [c \in Ci |-> IF c \in m THEN ResetHw(hw[c]) ELSE hw[c]]
             /\ color' = [c \in Ci |-> IF c \in m THEN 0 ELSE color[c]]
             /\ target' = [c \in Ci |-> Empty]
             /\ groups' = [c \in Ci |-> [d \in Dpu |-> 0]]
             /\ failed' = FALSE
             /\ UNCHANGED <<errors, lost>>
          \/ /\ errors < MaxErrors
             /\ \E got \in SUBSET m : hw' = [c \in Ci |-> IF c \in got THEN ResetHw(hw[c]) ELSE hw[c]]
             /\ color' = Inverted(m)
             /\ errors' = errors + 1 /\ failed' = TRUE /\ lost' = TRUE
             /\ UNCHANGED <<target, groups>>
    /\ cmds' = Prepared({c \in Ci : enabled[c] # {}}, Word("reset", 0))
    /\ calls' = Tail(calls)
    /\ UNCHANGED <<structure, config, queue, mask, wait, nrCalls>>

-----------------------------------------------------------------------------
(***************************************************************************)
(* Requests that are made of others, and what the host records.            *)
(***************************************************************************)

(* DPU after DPU, a selection that the DPU gives and another request. *)
ForEachDpu(first, second) ==
    [i \in 1..2 * NrDpus |-> IF i % 2 = 1 THEN first[(i - 1) \div 2] ELSE second[(i - 1) \div 2]]

(* The call returns DPU_ERR_MRAM_BUSY. *)
Busy == calls' = <<>> /\ UNCHANGED <<config, wait, color, count, hw>>

(* dpu_switch_mux_for_rank, host_handle_access_for_rank: the state is recorded,
   the mux of every CI switched and read back DPU by DPU. *)
Inspecting(d) == Req("select_dpu_even_disabled", d, {})
CheckDpu(d) == <<Inspecting(d), Reading>>
dpu_switch_mux_for_rank ==
    /\ Asked("switch_rank")
    /\ LET all == IF Head(calls).a = 1 THEN Dpu ELSE {}
       IN IF \E c \in Ci : running[c] # {} THEN Busy
          ELSE /\ mux' = [c \in Ci |-> all]
               /\ Proceed(If(\E c \in Ci : mux[c] # all,
                           <<Req("select_all_even_disabled", 0, {}), Req("set_mram_mux", 0, IF all = {} THEN {} ELSE Ci),
                             Req("select_all_even_disabled", 0, {})>>
                           \o ForEachDpu([d \in Dpu |-> Inspecting(d)], [d \in Dpu |-> Reading])))
               /\ UNCHANGED <<enabled, saved, running>>
    /\ NoCommand

(* dpu_switch_mux_for_dpu_line: the two lines of the pair are switched to the
   host for the CIs cis and to the DPUs for the others. *)
Pair(d) == {2 * (d \div 2), 2 * (d \div 2) + 1} \cap Dpu
SwitchLine(d, cis) ==
    LET lines == {e \in Pair(d) : {c \in Ci : e \in mux[c]} # cis}
        Line(e) == If(e \in lines, <<Req("select_dpu_even_disabled", e, {}), Req("set_mram_mux", 0, cis)>>
                                   \o CheckDpu(e))
    IN IF \E c \in Ci : running[c] \cap lines # {} THEN Busy
       ELSE /\ mux' = [c \in Ci |-> IF c \in cis THEN mux[c] \cup lines ELSE mux[c] \ lines]
            /\ Proceed(Line(2 * (d \div 2)) \o Line(2 * (d \div 2) + 1))
            /\ UNCHANGED <<enabled, saved, running>>
dpu_switch_mux_for_dpu_line ==
    /\ Asked("switch_line")
    /\ SwitchLine(Head(calls).a, Head(calls).cis)
    /\ NoCommand

(* The line as a launch switches it: the CIs that are not launched keep their mux. *)
SwitchKeeping ==
    /\ Asked("keep_line")
    /\ SwitchLine(Head(calls).a, {c \in Ci \ Head(calls).cis : Head(calls).a \in mux[c]})
    /\ NoCommand

(* Mutant: the rank is not selected again after its mux has been switched. *)
StartWithoutSelecting ==
    /\ Asked("start_rank")
    /\ Proceed((IF mask = Ci THEN <<Req("switch_rank", 0, {})>>
              ELSE [i \in 1..NrDpus |-> Req("keep_line", i - 1, mask)])
             \o <<Req("frame", Word("boot", 0), {}), Req("launched", 0, Ci)>>)
    /\ UNCHANGED config /\ NoCommand

(* ci_start_thread_rank, after its first ufi_select_all. *)
ci_start_thread_rank ==
    /\ Asked("start_rank")
    /\ Proceed((IF mask = Ci THEN <<Req("switch_rank", 0, {})>>
              ELSE [i \in 1..NrDpus |-> Req("keep_line", i - 1, mask)])
             \o <<Selecting(mask), Req("frame", Word("boot", 0), {}), Req("launched", 0, Ci)>>)
    /\ UNCHANGED config /\ NoCommand

(* The end of a launch, where 0 stands for all the DPUs as in a boot frame, and of a
   poll: some of the DPUs have stopped, and the run context is that of the enabled
   ones. *)
Launched ==
    /\ Asked("launched")
    /\ LET q == Head(calls)
       IN running' = [c \in Ci |-> IF q.a = 0 THEN enabled[c]
                                   ELSE IF c \in q.cis THEN running[c] \cup {q.a - 1} ELSE running[c]]
    /\ Proceed(<<>>) /\ UNCHANGED <<enabled, saved, mux>> /\ NoCommand
Polled ==
    /\ Asked("polled")
    /\ \E stopped \in [Ci -> SUBSET Dpu] :
          running' = [c \in Ci |-> (running[c] \ stopped[c]) \cap enabled[c]]
    /\ Proceed(<<>>) /\ UNCHANGED <<enabled, saved, mux>> /\ NoCommand

Disabled ==
    /\ Asked("disabled")
    /\ enabled' = [c \in Ci |-> IF c \in Head(calls).cis THEN enabled[c] \ {Head(calls).a} ELSE enabled[c]]
    /\ Proceed(<<>>) /\ UNCHANGED <<saved, mux, running>> /\ NoCommand

(* save_enabled_dpus: all the DPUs of a CI that has one are enabled for the reset. *)
save_enabled_dpus ==
    /\ Asked("save")
    /\ saved' = enabled
    /\ enabled' = [c \in Ci |-> IF enabled[c] = {} THEN {} ELSE Dpu]
    /\ Proceed(<<>>) /\ UNCHANGED <<mux, running>> /\ NoCommand

(* dpu_init_groups: DPU by DPU for each CI that has disabled ones, then the others at once. *)
dpu_init_groups ==
    /\ Asked("init_groups")
    /\ LET full == {c \in Ci : saved[c] = Dpu}
       IN Proceed([i \in 1..NrCis |-> Req("ci_groups", i - 1, {})]
                \o If(full # {}, <<Selecting(full), Req("write_group", EnabledGroup, {})>>))
    /\ UNCHANGED config /\ NoCommand
CiGroups ==
    /\ Asked("ci_groups")
    /\ LET c == Head(calls).a
       IN Proceed(If(saved[c] \notin {{}, Dpu},
             ForEachDpu([d \in Dpu |-> SelectingDpu(d, {c})],
                        [d \in Dpu |-> Req("write_group", IF d \in saved[c] THEN EnabledGroup
                                                           ELSE DisabledGroup, {})])))
    /\ UNCHANGED config /\ NoCommand
RestoreEnabled ==
    /\ Asked("restore")
    /\ enabled' = saved
    /\ Proceed(<<>>) /\ UNCHANGED <<saved, mux, running>> /\ NoCommand

MoreCalls == nrCalls + 3 * errors < MaxCalls

(* A call; the DPUs that a transfer wants, launches or disables are enabled ones,
   and none is disabled while the rank runs. *)
Call ==
    /\ calls = <<>> /\ queue = <<>> /\ ~wait.on /\ MoreCalls
    /\ nrCalls' = nrCalls + 1
    /\ \/ calls' = LaunchRank \/ calls' = PollRank \/ calls' = AccessRank \/ calls' = Reset
       \/ \E c \in Ci : \E d \in enabled[c] :
             \/ calls' = LaunchDpu(c, d)
             \/ running = [x \in Ci |-> {}] /\ calls' = Disable(c, d)
       \/ \E d \in {e \in Dpu : e % 2 = 0 /\ e + 1 \in Dpu}, cis \in (SUBSET Ci) \ {{}} :
             /\ \A c \in cis : enabled[c] \cap Pair(d) # {}
             /\ calls' = AccessPair(d, cis)
    /\ UNCHANGED <<color, caches, config, cmds, queue, mask, wait, errors, failed, lost, hw>>

Done == calls = <<>> /\ queue = <<>> /\ ~wait.on /\ ~MoreCalls /\ UNCHANGED vars

Next ==
    \/ \E c \in Ci : Execute(c)
    \/ Commit \/ Update
    \/ ufi_select_all \/ ufi_select_all_even_disabled \/ ufi_select_dpu \/ ufi_select_dpu_even_disabled
    \/ ufi_write_group \/ SendFrame \/ ufi_set_mram_mux \/ dpu_soft_reset
    \/ dpu_switch_mux_for_rank \/ dpu_switch_mux_for_dpu_line \/ SwitchKeeping \/ ci_start_thread_rank
    \/ Launched \/ Polled \/ Disabled
    \/ save_enabled_dpus \/ dpu_init_groups \/ CiGroups \/ RestoreEnabled
    \/ Call \/ Done

Spec == Init /\ [][Next]_vars

-----------------------------------------------------------------------------
AtRest == calls = <<>> /\ queue = <<>> /\ ~wait.on

(* The colour bit tells a CI that has answered from one that has not: unless an
   error has occurred since the last soft reset, a CI shows the expected colour
   exactly when it has executed the command, so exec_cmd never takes the answer
   of an earlier command for this one, and never times out on an answered one. *)
ColourInStep ==
    (wait.on /\ ~failed) =>
        \A c \in wait.in : (hw[c].shown = wait.expect[c]) <=> (hw[c].pending = Empty)

(* Commands are left out on the word of the caches.  Between calls, as long as no
   command has failed, the cached selection, groups, structure and mux of every CI
   that is talked to are those of the hardware, whatever calls came before. *)
CachesExact ==
    (AtRest /\ ~lost) => \A c \in Ci : enabled[c] # {} =>
        /\ target[c] # Empty => hw[c].selected = Chosen(c)
        /\ groups[c] = hw[c].group
        /\ structure[c] = hw[c].structure
        /\ mux[c] = hw[c].mux

(* ufi_select_all and ufi_write_dma_ctrl_datas commit rank->cmds without clearing
   the words of the CIs they leave alone, so a CI outside the mask of the request
   is handed the frame of an earlier command again (dpu_init_groups does it).  As
   long as no command has failed that frame boots nothing and changes nothing. *)
ReplayHarmless ==
    ~lost => \A c \in Ci \ mask : hw[c].pending # Empty =>
        hw[c].pending.k \notin {"boot", "reboot"} /\ Executed(hw[c], hw[c].pending) = hw[c]

(* "Do not even talk to CIs where ALL dpus are disabled" (save_enabled_dpus). *)
DeadCiLeftAlone == \A c \in Ci : hw[c].pending # Empty => enabled[c] # {}

(* The boot of a launch reaches the DPUs it is meant for, no disabled one among
   them, and only once their MRAM is theirs.  That of a reset reaches all the DPUs
   of the CI, the disabled ones too, and whoever has their MRAM.  The host does not
   take the MRAM of a running DPU. *)
BootsWithMram ==
    ~lost => \A c \in Ci : LET w == hw[c].pending IN
        /\ w.k = "boot" => /\ hw[c].selected = (IF w.a = 0 THEN enabled[c] ELSE {w.a - 1})
                           /\ hw[c].selected \cap hw[c].mux = {}
        /\ w.k = "reboot" => hw[c].selected = Dpu
        /\ (w.k = "mux" /\ w.a = 1) => hw[c].selected \cap running[c] = {}
=============================================================================
