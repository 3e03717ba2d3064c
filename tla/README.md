# A TLA+ development of the UPMEM host API with lazy preemption

The repository is a fork of the UPMEM SDK's host library (`library/src/backends`)
that adds *lazy preemption*: a launch that gives up the ranks that are slow.
This directory holds TLA+ modules of the concurrent core of that library, of the
protocol by which it drives the hardware and of the runtime that the DPU programs
are linked with, TLC configurations that check them on small instances, and TLAPS
proofs.

`dpu.h` below is `library/src/backends/api/include/api/dpu.h`; the other paths
are relative to `library/src/backends/api/src`, those of section 2 named `ufi...`
to `library/src/backends/ufi/src`, and those of the DPU runtime to
`library/src/dpu-rt/src/syslib`.

## 1. Inventory

| Component | Where | State | Operations | Interacts with |
|---|---|---|---|---|
| Job engine | `api/dpu_thread_job.c`, its header | per rank: FIFO of jobs, pool of slots, `job_error`, mutexes; per NUMA node: queue of ranks; per call: `dpu_thread_job_sync` on the caller's stack | get, unget, add jobs; wait for a sync; worker loop; clear a FIFO on error | every API call goes through it; its workers run the launch jobs |
| Launch and polling | `dpu_runner.c`, `api/dpu_polling.c` | per rank: run context (`dpu_running`, `dpu_in_fault`, `nb_dpu_running`, `poll_status`); per NUMA node: a polling thread with two flags | boot a rank or a DPU, poll, wait for the end, stop the thread | workers wait on `poll_cond`; the polling thread iterates on the list of the rank handler |
| Lazy preemption | `api/dpu_runner.c` | one static `preempt_info`; `stop_polling` in the sync | launch (restart, advance), check ranks, decide, abort | reads run contexts, resets ranks, stops workers, clears `nb_dpu_running` |
| DPU sets | `api/dpu_set.c` | sets, iterators, callbacks | allocate, free, iterate, callback | job engine, rank handler |
| Rank handler | `dpu_rank_handler_allocator.c`, `dpu_management.c`, `dpu_rank_id_allocator.h` | the backend library and its reference count, the list of ranks under a read-write lock, the rank numbers in use | allocate and free a rank, walk the list | polling threads walk the list and trylock the ranks |
| Control interface | `ufi/src/ufi_ci.c`, `ufi.c`, `ufi_config.c`, `ufi_runner.c`, `ufi_memory.c` | colour bits, cached selections, structures, groups and MRAM mux of each CI | select, frames, switch the mux, start, poll, disable, reset | everything above, under the mutex of the rank |
| Transfers | `dpu_memory.c`, `api/dpu_memory.c` | transfer matrix of a rank | prepare, push, copy | refused while `nb_dpu_running > 0` |
| Programs | `dpu_loader.c`, `dpu_elf.c`, `dpu_program.c` | ELF image, reference count | load | job engine |
| DPU runtime | `library/src/dpu-rt` | tasklets, atomic bits, `__sys_wq_table`, barriers, semaphores, handshakes, virtual mutexes, the bits of the buddy allocator | wait, take, give, notify, lock, alloc, free | the programs on the DPUs |
| Hardware, VPD, profiles, logging, bindings, benchmarks | `hw/`, `vpd/`, `commons/`, `verbose/`, `java/`, `python/`, the four use cases | | | |

What is hard here: four kinds of threads (application, workers, polling,
preemption) share a rank under four kinds of mutexes, some nested, and some
fields under none (`nb_dpu_running` read by the polling thread and written by
advance mode, `job_error` reset by a caller, `should_stop`, `stop_polling`);
condition variables that only remember a waiter; failures of one rank of a call
while others succeed; control-interface failures in the middle of a launch;
caches of what the hardware was last told, written before it is told; and on the
DPU, lists of waiting tasklets in one table that objects with different locks
share, and a stop that comes after the release of the lock.
`PROJECT.json` lists these hazards at the line where they bite.

What makes each component correct:

* job engine: a rank's FIFO has one server at a time and is never forgotten;
  slots and sync counts are conserved; a sync outlives its jobs; a failure is
  returned by the call that waits for it, or kept; every call returns;
* launch and polling: the counter and the bits of the run context agree; the
  polling thread is awake when it is needed; a launch returns, and only when its
  DPUs have stopped;
* preemption: every rank that was not allowed to finish is named to the host;
  only finished ranks count as done; the call returns although DPUs do not stop;
* rank handler: the list is exactly the ranks that are allocated, whatever the
  walks of the polling threads and the failures; numbers are neither shared nor
  leaked; a thread that uses the library finds it open; every call returns;
* control interface: host and CI agree on the colour, and on everything the host
  caches; words of earlier commands do nothing when they are sent again; a boot
  reaches the DPUs it is for, with their MRAM;
* DPU runtime: wait lists hold the tasklets that wait; a barrier lets go whole
  groups; no unit, handshake or wake-up is invented or lost; a virtual mutex
  excludes; blocks of the heap do not overlap, and an allocation fails only when
  no aligned block is left.

## 2. Modules

| Module | Models | Extends |
|---|---|---|
| `ThreadJob` | the job engine | |
| `ThreadJobProofs` | theorems about `ThreadJob`: scheduling of the ranks; syncs and slots | `ThreadJob` |
| `Polling` | launch jobs, the run context, the polling threads | |
| `PollingProofs` | theorems about `Polling` | `Polling` |
| `Preempt` | preemptive launches: caller, workers, preemption thread, with the launch jobs and the polling thread of `Polling` | `Polling` |
| `PreemptProofs` | theorems about `Preempt` | `Preempt`, `PollingProofs` |
| `RankHandler` | allocation and release of ranks, the backend library, the walks of the polling threads | |
| `RankHandlerProofs` | theorems about `RankHandler` | `RankHandler` |
| `ControlInterface` | commands to the CIs of a rank, the caches of the host, launches, transfers' access, disabling, reset | |
| `CiProofs`, `CiBootProofs` | theorems about `ControlInterface`: colours and caches; replays and boots | `ControlInterface`, each the one before |
| `Barrier` | what `barrier_wait` promises (abstract) | |
| `DpuSync` | barriers, semaphores, handshakes and virtual mutexes of the DPU runtime, with the refinement of `Barrier` | |
| `DpuSyncProofs` | theorems about `DpuSync`, among them that it implements `Barrier` | `DpuSync` |
| `Buddy` | the buddy allocator of the DPU runtime | |
| `BuddyProofs` | theorems about `Buddy` | `Buddy` |
| `MCThreadJob`, `MCPolling`, `MCPreempt`, `MCRankHandler`, `MCControlInterface`, `MCDpuSync`, `MCBuddy` | instances for TLC | |

Definitions whose comment begins with "Mutant" are altered versions of the
definition that follows; they are used only to see that a property can fail.

### ThreadJob

`jobs`, `available`, `jobError`, `jobsMutex`, `slotWait` are the fields of
`rank->api`; `queue` and `queueMutex` those of `queues[]`; `left`, `status`,
`syncMutex`, `signalled` are the `dpu_thread_job_sync` of a client's call. A
client is a thread that calls the API: an application thread, or a worker in a
non-blocking callback. `Call` is the start of an asynchronous call, a
synchronous one or `dpu_sync`; `GetJobs`, `WaitForSlot`, `GetJobsFails`,
`UngetJobs`, `GetJobsReturns` are `dpu_thread_job_get_jobs`; `AddJobs`,
`AddJobsLocksRank`, `AddFirstJobs`, `AddJobsDone` are
`dpu_thread_job_add_jobs`; `WaitSyncJob` and `ResetJobError` the rest of
`dpu_thread_job_do_jobs`. A worker's steps follow `dpu_thread_job_fct`:
`TakeRank`, `LockRank`, `ComputeJob` or `ComputeSyncJob` and `NotifySync`,
`AdvanceToNextJob`, or after a failure `UpdateStatus` and the `Clear...` steps of
`dpu_thread_update_status`. A critical section that takes no other lock is one
step; the ones that nest locks are split where the inner lock is taken. Slots of
a rank are interchangeable, so the pool is its length; the operation of a job is
a step that succeeds or fails.
`failed` is a history variable: the failures a client has not been told of.

With `SpuriousWakeups` a wait on a condition variable may end without a signal
(`WakeForNoSlot` for a slot, `Woken` for a sync). Both waits are in loops, but for the
sync the loop is not enough: `do_sync_job` brings `nr_ranks` to 0 (line 134) *before*
it locks the mutex of the sync (135), which is on the stack of the caller. A caller
that wakes up in between returns, and the worker locks and signals memory that is no
longer a sync. The model has that window: `SignalSync` on a sync whose caller has
returned hangs, does nothing, or signals the next sync of the client, which lies at the
same place. `SyncOutlivesItsJobs` therefore claims what the code guarantees, that
`nr_ranks` and `status` of a sync are not written after its call has returned, and not
the same of its mutex. Without spurious wake-ups the mutex is safe too.

### Polling

One worker at a time serves a rank (`ScheduledOnce` of `ThreadJob`), so the
worker is identified with its rank: `pc[r]` is where the launch job of `r` is.
`Boot` is `dpu_boot_rank`/`dpu_boot_dpu` up to the poll they begin with,
`StartThread` the rest with `start_thread`, which may fail after it started some
DPUs; `Kick` is `polling_thread_set_dpu_running`; `Sync`, `Block` and `WakeUp` are the
loops of `dpu_sync_rank` and `dpu_sync_dpu`: the test, and then the wait, for advance
mode writes what is tested, and broadcasts, without the mutex of the rank. A spurious
wake-up would only evaluate the test again under that mutex, and is left out. The polling thread is `Check`
(unlocked test of `is_running`), `SleepOrScan` (under its mutex), `ReadRank` (the
unlocked read of `nb_dpu_running`) and `PollRank` (trylock, poll, broadcast,
unlock); it goes through its ranks in the order of the rank handler's list
(`Slot`). `hwRun` and `hwFault` are the DPUs themselves; a DPU in fault keeps its
run bit. An access to the control interface may fail `MaxFailures` times.

### Preempt

`InitPreempt`, `AddLaunchJobs`, `CleanPreempt`, `JoinPreempt` are the caller;
`TakeLaunchJob` and `RunLaunchJob` a worker, which looks at `should_stop` of the
rank it was created for; `PollStatus`, `EachRankStatus`, `Determine`,
`AbortStruggling`, `ResetRank` (restart), `ClearRunning` and `WakeSync` (advance)
the preemption thread. `clock` counts check intervals and saturates at
`MaxClock`: what matters is its order with the average. `mode` is the function
that was called last: an application may mix restart and advance mode on one
set. `cut` is a history variable: ranks reset while their DPUs ran.
`dpu_launch_preempt` and `dpu_launch_preempt_restart` differ in the host function
only, which changes no state of the API.

Nothing is assumed about when ranks are booted. `each_rank_status` takes a rank whose
launch job has not been taken yet as done, because its run context is empty; the
history variable `early` records these ranks, and `DoneIsDone` is about the others.
A rank in `early` is not aborted. If it then runs for ever, so does the call
(`Overlooked`). An abort leaves `should_stop` set, and the workers that were created for
the rank end when they next look at it; when all workers of a queue have ended so, the
next launch is never taken from the queue (`Stranded`). `PreemptReturns` names these two
states as the only ones in which a call of restart mode does not return.

`DetermineStruggle` is the code's test, in which EXECUTION_WINDOW multiplies the
elapsed time and not the average (line 86): the average is never above the elapsed time,
so the window delays nothing, and with one or two ranks RANK_THRESHOLD is rounded to 0
and the first check aborts. `ResetMayFail` says whether `dpu_reset_rank`, whose result
is ignored, can fail and leave the DPUs running; it can in `preempt_modes`.

### RankHandler

A rank is the address of a `struct dpu_rank_t`, so that memory that is freed and
allocated again is the same rank; `rank[r]` holds the fields that matter. A client
calls `dpu_get_rank_of_type` or `dpu_free_rank` (`pc[c]` is where it is), a
polling thread walks the list (`start_iteration`, `Look`, `TryLock`, `PollRank`,
`end_iteration`). What a writer does under `static_handler_lock` is one step
(`exclusively`), taken when nobody walks; what the code does outside the lock has
steps of its own: `dpu_rank_handler_get` (`refcount++`), `dpu_rank_handler_put`,
`ClearHandler` and `CloseLibrary`. `Calls` says whether a client's profile names
its backend, in which case the library is instantiated once, or not, in which case
it is probed and released first. `Faults` are the failures that may occur: of
`dlopen`, of the backend, of `realloc` of the list, of the profile, of the memory for
the debug commands. When `realloc` fails the size of the list has already been
doubled (line 212), so that a walk goes on behind the array: the slots there hold
anything.

After a NULL or unmapped handler is followed the process is over (`dead`); the
properties are about the states before it, and `HandlerHeld` is about getting
there. The run without violations leaves `"list"`, `"profile"` and `"buffer"` out of
`Faults`: on these error paths `dpu_management.c` (334-417) frees a rank that stays
listed or, without memory for the debug commands (384), returns and leaves a listed
rank that nobody owns.

### ControlInterface

A call of the host is the list `calls` of the requests it still has to make
(`LaunchRank`, `LaunchDpu`, `PollRank`, `AccessRank`, `AccessPair`, `Disable`,
`Reset`), where a launch, of a rank or of one DPU, begins with a poll of the whole
rank; a request updates the caches as the code does, before it sends anything,
and queues up to two words (`queue`); `Commit` writes `rank->cmds` to all the CIs
and inverts the colours, `Update` reads results until each CI has answered in
the colour that is expected. `hw[c]` is CI `c`: it executes the word it holds in
its own time (`Execute`). `MaxErrors` commits or reads of results may fail, the read
after all have answered included, or answers come too late; an error ends the call, as
the early returns do. A poll finds that any DPUs have stopped (`Polled`).

A reset boots the threads of all the DPUs, the disabled ones too, with the selection of
all, and reads until they have stopped (`Reboot`, `dpu_reset_internal_state`). It does
so before it switches the mux, so after a transfer it boots DPUs whose MRAM the host
has. `BootsWithMram` speaks of that frame separately: it reaches all the DPUs of the
CI, whoever has their MRAM.

Assumed of the hardware, from how the code uses it: a soft reset keeps the
structure register and the mux and sets the colour back; the words of
`ufi_ci_commands.h` that share a structure share it here; a frame that does not
fit the structure is answered and does nothing. One read stands for the
configuration commands of `ci_reset_rank`, which all go to the same selection, one boot
for those of all the threads, and one write for the five of `ufi_set_mram_mux`; the repair steps inside a reset,
which may disable more DPUs, are left out; `api_must_switch_mram_mux` is true; the
polling loop that waits for a mux is its outcome; a DPU is disabled only while
none runs; the rank is reset after an error, by at most one more call.

### DpuSync and Barrier

A tasklet runs a program, a sequence of calls. A step is a stretch of code between
two points where another tasklet can tell the difference: taking an atomic bit
(`Acquire`), a `Resume`, a load of the shared table after it (`BarrierLink`), a
release, a `Stop`. What a call does after it has resumed another tasklet is a step of
its own (`Leave`): the woken tasklet may return first. `wq` is `__sys_wq_table`, in which the circular lists of all
barriers and semaphores are linked; `barrier`, `sem`, `shake`, `vm` are the
objects. `InTurn` is an assumption about the pipeline, which issues the tasklets
that can run in turn: a woken tasklet does not run through a whole call before the
one that woke it has executed the next instruction. `barrier_wait` loads the link
of a tasklet after it has resumed it, and is correct only because of this.

`Barrier` is the abstract specification: tasklets arrive, a complete group is let
go, members leave. Its state is mapped to the tasklets that are in
`barrier_wait` before (`WaitingAt`) and after (`ReleasedAt`) their group was
completed (`Group`); `BarrierGroups` says of all barriers at once that they implement
it. The counter of a semaphore is a byte that is read as a `char` (`Char`): a take at
129 units blocks, and a counter that starts below -104 can be brought under -128 by the
24 tasklets and let a taker through. `SemUnits`, which says that no take passes without
a unit, is about counters from -104 on. With a negative counter the first give resumes a
taker although the counter stays negative (`sem_give` looks at the list and not at the
counter), so the initial value of such a semaphore is worth no units (`InitialUnits`),
and that the counter is minus the number of waiters holds only as long as units fit in
the byte (`InByte`). The properties count calls as sets of pairs of a tasklet and an index (`Returned`,
`Started`), and `Listed` is the least set of tasklets that the links of `wq` lead
to from the end of a list: both are definitions one can prove about.

Of the programs the module assumes (`ProgramsAssumption`) that a tasklet unlocks a
virtual mutex only while it has it and does not lock it twice, since `vmutex.h` does
not record an owner, and that it does not wait for a handshake with itself.

### Buddy

Every entry point takes one lock, so a call is one step. `zero` is the set of the
bits that are 0, at the word and position where the code keeps them (`Bit`), since
the five upper levels share a word and the rest have their own. `SafeAlloc` is the
search and the split (`Free`, `Source`, `Given`, `Cut`). `SearchLevel` is the search as
the code does it, word by word with masks, an xor and leading zeros (`LoadedCase`,
`FirstPairs`, `Stops`, `MaskShift`); that it finds the block, and the bit, of `Free` is
`SearchExact`. `buddy_free` is the way up to
the block a pointer designates (`TargetLevel`), the refusals and the merge
(`Freed`). `live` is what the callers hold. `buddy_realloc` is in `ReallocSpec`
only, for the disagreement in section 3. A heap has at least 6 levels (512 bytes): with 5
its first block lies 4 bytes after a multiple of 8 (lines 450-453), and `buddy_free`
refuses every pointer.

## 3. Runs

Bounds: two ranks are enough for a set with a first and a last rank, for a
partial failure and for two ranks of one queue; two workers for two ranks served
at once and for a rank handed from one worker to another; three slots leave room
for an asynchronous job in front of a synchronous call and are few enough for
calls to block on the pool. Two DPUs are a rank with one DPU stopped and one
running. Two launches show what an abort leaves behind. `preempt_live` has two ranks
and one worker: the worker of the other rank has ended, as it does after an earlier
abort, or its profile asks for no threads. Aborting the rank of the worker then strands
the next call, and aborting the other one does not (110,471 states). With
`Worker = {r1, r2}` the property holds too, on 829,592 states in four minutes.

In `DpuSync` four tasklets are two that share an object while two others use the
table, or a barrier of four and one of two; six programs put the barriers and the
semaphore in turn, contend for a semaphore, give and take where the counter starts at
-1 and at 127, let two tasklets wait for one notifier,
and use virtual mutexes of one byte and of one hardware mutex, next to a barrier of
one tasklet (143,433 states). In the barrier of one, arriving and leaving are one
step, which the abstract barrier sees as none.
In `Buddy` 1024 bytes are the smallest heap with a level of two words, and four
blocks enough to split and merge at every level (21,741 states). In `RankHandler`
two addresses are reused by two clients, one of which probes, while one thread
walks the list, which has to grow (336,992 states). In `ControlInterface` two CIs
of two DPUs are a CI that is asked and one that is not, a DPU that is meant and
one that is not; profiles have all DPUs, all but one, or one CI without any; four
calls follow the first reset, or one and an error (1,291,369 states).

| Run | Shows |
|---|---|
| `threadjob_one_client` | the safety properties of the engine for one client, two ranks and spurious wake-ups |
| `threadjob_two_clients` | a synchronous call with two clients on one rank returns after what was in front of it, with spurious wake-ups |
| `threadjob_live` | every call of one client returns, with failures and full pools |
| `polling_ranks` | two ranks, one failed access: the polling thread is awake when a worker waits, no broadcast is missed, launches end, the thread ends at exit |
| `polling_dpus` | DPUs of one rank launched alone or together, with failures: the run context is consistent, launches are complete |
| `preempt_modes` | two launches, each in restart or advance mode, ranks booted at any time, resets that may fail: unfinished ranks are reported; ranks taken as done are done, unless they were looked at before their boot |
| `preempt_live` | two launches in restart mode, two ranks and the worker of the first: each returns although no DPU ever stops, or ends `Stranded` or `Overlooked` |
| `rank_handler` | list and numbers are exact, walks meet no freed rank, calls return, with failures of library and backend |
| `control_interface` | colours and caches agree with the hardware, stale words do no harm, boots of a launch reach the right DPUs with their MRAM and those of a reset all of them, with failed commits and late answers |
| `dpusync` | lists, units, handshakes and virtual mutexes are exact, barriers implement `Barrier`, no wake-up is lost |
| `buddy` | blocks do not overlap, the bits are exactly what is held, ENOMEM only when no block is left, the search by masks finds the right bit, with wrong frees |
| `rank_handler_library` (violation) | the reference count is changed outside the lock: a thread goes on with a handler that another one has just released, against the comment at `dpu_rank_handler_allocator.c:111` |

Deadlock is checked in `control_interface`, `buddy` and `dpusync` (where a program
that has ended, or waits for a handshake nobody gives, stutters). It is not in the
others: in the `polling_*`, `preempt_*` and `rank_handler*` runs the system may stop
(the process exits or dies, or the application makes no further call); in
`threadjob_live` a stuck call is what `CallReturns` excludes; after a spurious wake-up
a worker may hang on a sync that is gone, and with two clients the engine does block
(below).

### Disagreements without a run of their own

These properties, also in the modules, state what a comment or the documentation
says and are violated. To see one, take the `.cfg` named, change what is said, and
check that property alone.

| Property, where | Take | Change | Shows |
|---|---|---|---|
| `DpuSyncReportsFailure`, `dpu_thread_job.c:442`, `dpu.h:428-430` | `ThreadJob_two.cfg` | `Rank = {r1}`, `Client = {c1}`, one worker, `DpuSets <- RankSets`, `CallKinds <- AnyKind`, `NrJobs = 2` | a job that fails between `get_jobs` and `add_jobs` of `dpu_sync`: `dpu_sync` returns DPU_OK |
| `NoLockCycle`, `dpu_thread_job.c:450`, `dpu.h:114` | `ThreadJob_two.cfg` | `Rank = {r1, r2}`, one worker, `DpuSets <- OverlappingSets`, `CallKinds <- AnyKind`, `NrJobs = 2` | two clients on overlapping sets wait for each other in `add_jobs` |
| `LaunchReturns`, `dpu_polling.c:283` | `Polling_ranks.cfg` | `Rank = {r1}`, `Targets <- DpuTarget` | after one failed poll a launch of one DPU never returns |
| `LaunchComplete`, `dpu_runner.c:186`, `dpu.h:56` | `Preempt_modes.cfg` | one rank (`RankAt <- OneRank`, `Worker = {r1}`), `Modes = {"advance"}`, `ResetMayFail = FALSE`, `MaxLaunches = 1` | advance mode returns from a synchronous launch while DPUs run |
| `PreemptReturns`, `dpu_runner.c:185-187`, `dpu.h:56` | `Preempt_live.cfg` | one rank as above, `Modes = {"advance"}`, `Slow = {}`, `MaxLaunches = 1` | the broadcast comes between the worker's test and its wait, and the polling thread skips a rank whose count is 0: the call never returns |
| `ReallocGivesSize`, `buddy_realloc.c:45` | `Buddy.cfg` | `SPECIFICATION ReallocSpec`, `MaxLive = 3` | the size of the old block is computed from its index and not from its level |
| `DeadCiLeftAlone`, `ufi_config.c:122` | `ControlInterface.cfg` | `MaxRetries = 0`, `MaxErrors = 0`, `MaxCalls = 3` | a CI whose DPUs are all disabled is still sent commands |

Other things met while reading, not stated as properties: DO_MIN and DO_UMIN in
`atomics.c` compare with `>`; `buddy_init` takes no lock and is undefined for heaps
below 256 bytes; `fsb_alloc` of no block wraps around; `dpu_set.c` loses memory on
error paths (463-478, 511, 551) and does not free a rank whose reset fails (449);
`dpu_get_profile_description` never releases the handler (`dpu_management.c`
175-192); a rank is listed before its mutex is initialised (334-417); with one job
slot per rank a synchronous call waits for ever (356); two polling threads that
walk in turn can keep a writer of the list waiting; a failed `ci_reset_rank` leaves
disabled DPUs enabled; `dpu_soft_reset` ignores the status of `ufi_soft_reset`; a
failed commit leaves a colour out of step until the next reset, a failed switch of
the mux stays recorded; asynchronous preemptive launches use a sync that is not
initialised (`api/dpu_runner.c` 268), a launch of one DPU reads `list.ranks` (125), a
rank with a faulting DPU is neither counted nor aborted (142), two threads share the
one static structure (49), and `dpu_status` ignores what `dpu_sync` returns (494).

Two properties of the passing runs hold for their instances only.
`WaiterWillBeWoken` fails with two clients: a released slot is signalled only
when the pool was empty, and to one thread, so of two clients that wait for slots
of a rank one may not be woken up. `NoMissedBroadcast` fails with single DPUs and
a failed launch that leaves a DPU running: the polling thread compares with a
count it read before the next DPU was started, and does not see it go down.

Fairness is weak fairness of each thread: the operating system schedules a
thread that can run, mutexes are released by threads that are scheduled. In
`Polling` the program of a DPU ends or faults; in `Preempt` only on ranks that
are not in `Slow` (all are in it in `preempt_live`). In `RankHandler` the lock of the
list is granted to a writer for whom it is free again and again (strong fairness of
`Locking`): the last reader hands it over. In `DpuSync` a tasklet that spins for an
atomic bit gets it (strong fairness of `Acquire`): the pipeline issues the tasklets
in turn, and a release is followed by another instruction before the next acquire.
No fairness is assumed of the application: it need not call again, or exit.

## 4. Proofs

A theorem `Spec => []P` is proved from an inductive invariant: it holds in the
initial states, every step preserves it, and it implies `P`. Each of the invariants
below was first checked by TLC on the instances of the runs.

### The job engine

For all ranks, queues, clients, workers, sets of ranks and `NrJobs \in Nat`, with and
without spurious wake-ups, from the assumptions of `ThreadJob` (the queue maps are functions, clients and workers
are different threads, a set names at least one rank and none twice):

| Theorem | Property |
|---|---|
| `TypeCorrect` | `TypeOK` |
| `RankScheduledOnce`, `RankNeverForgotten` | `ScheduledOnce`, `NoForgottenRank` |
| `SyncOutlives`, `SyncCountExact` | `SyncOutlivesItsJobs`, `SyncAccounting` |
| `SyncLeavesNothing`, `SyncFailureReturned` | `SyncDrains`, `SyncFailureReported` |
| `NoSlotLost`, `FailureStaysRecorded` | `SlotsConserved`, `AsyncFailureKept`, with one client |
| `BlockedWillBeWoken` | `WaiterWillBeWoken`, with one client and `NrJobs >= 2` |

*Scheduling.* `ScheduledOnce` is not inductive. `IInv` adds: the loop index of a
client is within its set while it uses it (`IndexInv`); a client that waits for the
mutex of a queue holds the `jobs_mutex` of its rank and has found its FIFO empty, and
a worker that clears a FIFO holds its `jobs_mutex` (`OwnsInv`); a rank that is
linked is linked in its own queue and has a job (`QueueInv`); a worker that
serves a rank has a rank, of its queue, and until it clears the FIFO that FIFO is
not empty (`ServeInv`). With these the argument is: a rank is linked only when
its FIFO is empty, and then it is neither linked nor served, for both need a job
in the FIFO; and the FIFO becomes empty only by a step of the one worker that
serves the rank. The proof first describes, for each action, its effect on the
FIFO, the queue and the owner of a rank (`ClientEffect`, `WorkerEffect`) and then
shows that these effects preserve the invariant (`ClientPreserves`,
`WorkerPreserves`).

*Syncs.* The SYNC jobs of a call are in distinct FIFOs, of ranks that the loop of
`add_jobs` has been through, and only while the call lasts (`PendingOf`); the count
of the sync is the number of these and of the ranks still to come (`CountOf`). A
caller that finds the count at 0, signalled or not, has no SYNC job left to be counted
off; that a worker may still be about to signal is nothing the proof can use, for the
caller need not wait for it. For `SyncDrains` and `SyncFailureReported` `FifoInv` adds the order
of a FIFO: an operation of a client is followed by the SYNC job of the call it
belongs to (`DrainOf`), and a failed operation is known to the sync, or the worker
that clears the FIFO has still to come to that SYNC job (`FailOf`). Both count the
elements of a set that changes by one rank in a step, which is where
`FiniteSetTheorems` comes in.

*Slots.* `SlotsConserved` says nothing of a rank with `job_error`, where
`get_jobs` may keep a slot it has taken (line 431). `SlotOf` closes that gap: the slots
are conserved, or the rank has `job_error` and the call under way is none that will
reset it (`Lost`). `OneClient` is a hypothesis because the property is about one
client's hands; with two, `WaiterWillBeWoken` is false (section 3). With
`NrJobs = 1` a synchronous call waits for itself.

### Launch and polling

For all ranks, DPUs, polling threads and `MaxFailures`: `TypeCorrect`;
`RunContextConsistent` (`RunContextCounts`); `LaunchesComplete` (`LaunchComplete`);
`PollerNeverAsleep` (`PollerAwake`); and, if whole ranks are launched,
`BroadcastNeverMissed` (`NoMissedBroadcast`; it is false otherwise, section 3).

The invariant relates the two flags of a polling thread with what it is doing:
while the run context shows DPUs that a worker waits for, a flag is up, or the scan
under way has not come to the rank, or is about to poll it (`Watched`); a thread
that sleeps without a signal has seen both flags down (`SleepInv`). It is the flag
that the scan raises again when it finds a rank it could not lock, or with DPUs
still running, that makes this inductive. For `LaunchComplete`, the run context
shows every DPU of the launch that runs or is in fault (`Shown`).

### Lazy preemption

For all ranks, DPUs, workers, queues, modes and clocks:

| Theorem | Property |
|---|---|
| `AbortInductive` | the invariant `AbortInv` |
| `UnfinishedMarked` | `UnfinishedReported` |
| `DoneHaveStopped` | `DoneIsDone` |

`UnfinishedMarked` needs `AbortInv`: the count of the sync is the number
of launch jobs that have not ended (`PendingInv`); the run context shows each DPU that
runs, unless a start failed; and a launch that ended with DPU_OK left its DPUs
stopped, or the thread has marked the rank and has passed it in its loop
(`Aborted`). It holds whenever ranks are booted, and when `dpu_reset_rank` fails.
`DoneHaveStopped` adds that a rank counted as done after its boot has stopped and is not
launched again in this call (`DoneInv`); of the ranks in `early` it says nothing, as
nothing is true of them. `PreemptAssumption` has `Targets = {All}` because the module is
about launches of sets of whole ranks.

### Rank handler

For all clients, polling threads, addresses, and sizes of the list, with failures of
the library and of the backend: `ListStaysExact` (`ListExact`), `PollersMeetLiveRanks`
(`NoStaleRank`), `NumbersStayExact` (`NumbersExact`). The hypothesis
`EarlyFaultsOnly` leaves out the three failures after `get_rank` (of the list, of the
profile and of the memory for the debug commands), whose error paths free or forget a
rank that stays listed, with its number.

The invariant says in whose hands a rank is: at most one client has it, among the
ranks it owns or in the call it makes, and such a rank exists (`HoldInv`); what each
step of a call has done to it so far (`CallInv`); that the entries of the list are
the ranks some client has added (`ListInv`); and that a polling thread is at an entry
of the list, which no writer changes while somebody walks (`PollInv`).

### Control interface

For all numbers of CIs and DPUs, profiles, sequences of calls, retries and errors:

| Theorem | Property |
|---|---|
| `Inductive` | the invariant `IInv` of the colours |
| `ColoursInStep` | `ColourInStep` |
| `StaysExact` | the invariant `Exact` of the caches, as long as no command has failed |
| `CachesStayExact` | `CachesExact` |
| `StaysRebooting` | the invariant `RebootPlan` of the boots of a reset, as long as no command has failed |
| `StaysReplayable` | the invariant `Replayable` of the frames that are sent again, as long as no command has failed |
| `ReplaysHarmless` | `ReplayHarmless` |
| `StaysReady` | the invariant `Ready` of what boots rest on, as long as no command has failed |
| `BootsReachTheirDpus` | `BootsWithMram` |

*Colours.* The invariant says of each CI that it is in step
(`InStep`: the host is ahead of the CI exactly while the CI has a word to execute), or
that it has no DPUs and was left alone by the last soft reset (`Dead`). The second
case is what makes the proof more than bookkeeping: `ufi_soft_reset` does not reach a
CI without DPUs, whose colour may be out of step since an earlier error, and later
commands are sent with the words of `rank->cmds` for CIs outside their mask. That such
a CI is sent nothing any more follows from its cached selection, which is NONE, its
word of `rank->cmds`, which `ci_prepare_mask` has cleared, and from
`save_enabled_dpus`, which remembers that it has no DPUs (`SavedInv`: between the save
and the soft resets nothing changes this; `Plan`).

*Caches.* `CachesExact` speaks of the moments between calls, and in the middle of a
call the caches are ahead of the hardware: they are updated before the commands are
sent. The invariant therefore compares the caches with what a CI *will* be once it has
executed the word it holds and those that are queued for it (`Settled`). Then no step
of a CI and no step of `exec_cmd` changes anything (`SilentExact`), and a request
changes a CI by the frames it sends (`SentTo`, `SentFacts`), which is what it records.
The conjuncts of `Exact` are: the cached structure, selection and groups
(`StructureExact`, `TargetExact`, `GroupExact`); the last frame of a CI changes nothing
when it is sent again, which `ufi_select_all` and `ufi_write_dma_ctrl_datas` do
(`ReplayIdle`); and the state of the mux, which is recorded for whole lines before the
first of several requests switches one (`MuxPlanned`: a DPU that one of the requests
left is for will have the recorded side, any other already has it), with the shape of
such calls (`MuxShape`: a request that switches comes right after the selection of what
it switches, and only after requests that leave the mux alone). Two conjuncts keep the
groups true: a reset is not mixed with a disabling (`ResetPlan`), and a group other
than that of the enabled DPUs is only written to single DPUs (`WritePlan`): after
`ufi_write_group` with another group, a cached *select group* would be stale.

*Replays.* That a frame sent again changes nothing of the selection, the groups, the
structure and the mux is `ReplayIdle`; a boot would change nothing of these either, and
what is left is that the frame is no boot. A CI is left out of a selection that sends
its last frame again when it has no DPUs, when the selection is for some CIs only, or
when it is already selected. `Replayable` says of the words on their way to a CI
outside of the mask that they are still (`WordsStill`), and has what that rests on: a
CI whose last frame is a boot has DPUs (`BootAlive`), because disabling its last one
writes its group first (`DisableShape`); a selection of some of the CIs that have DPUs
is part of a reset, whose soft reset has replaced the last frames (`SelectShape`,
`ResetQuiet`), or is the second one of `ci_start_thread_rank`, and that one is for every
CI that has DPUs (`StartShape`); a CI without DPUs is never found to be selected by its
group (`DeadTarget`), so `ufi_select_all` does not put it in the mask; and a boot comes
right after the selection of the CIs it is for (`BootShape`). Of the boots of a reset
`RebootPlan` says that they are left in none but the first steps of a reset, and that
the soft reset before them has forgotten every other selection: they follow the
selection of all the DPUs of each CI that has one, and reach no other CI.

*Boots.* A boot frame names no DPU, so that it boots the right ones depends on the
selection, the groups, the mux and what the host has recorded, each of them written by
another call. `Ready` has three parts. `Aims` is about the words: the last frame of a
CI fits the state the CI will have when it reaches it (`FinalAimed`), a frame is on its
way only when nothing is queued behind it (`Flight`), and a switch of the mux is the
last frame only until the *clear* that follows it (`MuxNext`), before a launch could
record DPUs as running. `Launches` is about the calls: no DPU is both running and
the host's (`Exclusive`); each MRAM that a launch needs is the DPU's, or one of the
requests before the boot takes it from the host (`Freed`); and the boot comes right
before the end, after the selection of the DPUs that the end marks as running
(`BootReady`). `Grouped` is about the group that the selection of a rank names: it is
the set of the enabled DPUs (`GroupsKnown`), except between the `ufi_write_group` and
the record of `dpu_disable_one_dpu` (`Losing`), between `save_enabled_dpus` and the
soft resets (`Early`), and while `dpu_init_groups` runs (`Giving`), when every DPU has
the group of the saved profile or a request left is to give it (`GroupsGiven`, `Owed`,
with the order of these requests in `GivePlan`). The proof needs `Exact`, to conclude
from the caches to the CI, and `Replayable`, for the order of the requests.

### DPU runtime

For all finite sets of tasklets, barriers of any size, semaphores, virtual mutexes,
numbers of hardware mutexes and programs, from `DpuSyncAssumption` (at most
`DPU_NR_THREADS` tasklets, counters that fit in the byte) and `ProgramsAssumption`:

| Theorem | Property |
|---|---|
| `Inductive` | the invariant `IInv` |
| `QueuesExact` | `QueueExact` |
| `UnitsBounded`, `HandshakesPair` | `SemUnits`, `HandshakePaired` |
| `MutexesExclusive` | `VmExclusion` |
| `BarriersGroup` | `BarrierGroups` |
| `BarrierRefines` | `Spec => Group(b)!Spec` for each barrier `b` |

*Locks.* A tasklet is between the acquire and the release of its call exactly when
the bit is its own (`LockInv`), so that two tasklets are never in the critical part
of calls on one object; `PlaceInv` says which places belong to which call.

*Lists.* `QueueExact` speaks of the states in which nobody holds the lock, and the
table `wq` is shared by objects whose locks do not exclude each other. `BarrierInv`
and `SemInv` therefore describe each list at every moment by a numbering of its
members (`Ring`: distinct tasklets, each linked to the next, exactly the ones that
wait there), and what is left of it while the last of a group wakes the others one
by one. Since a tasklet is in one call, the lists are disjoint, and a step on one of
them leaves the links of the others alone (`LinkedElsewhere`, `RingFrame`). The delicate place is
`barrier.c:28`, a load of the link of a tasklet that has already been resumed:
`LinkInv` says that it is in no list at that moment, and what keeps it so is
`InTurn`. Without that assumption about the pipeline the invariant is not preserved,
as a tasklet that is woken and enters another list overwrites the link.

*Counting.* `SemBalance` and `ShakeBalance` (theorem `Counting`) relate the counters
with the whole history. For a semaphore (`SemBalanced`, `Counted`) let *n* be the initial
value plus the gives minus the takes that got past their accesses, as unbounded
integers. The byte is *n* under the conversion `Char`, whatever it has gone over; *n*
plus the number of the ones that wait is not below 0, nor below the initial value if that
is negative; and as long as units fit in the byte and somebody waits, *n* is minus the
number of those. The second part is preserved because a take that passes found the
converted counter not negative, and the counter has not gone under -128: at most 24
tasklets wait (`FewWait`), which is why the initial value is at least -104. It gives
`SemUnits`, for the takes that returned are those that got past their accesses and do
not wait. Of the calls of both sides of a
handshake, the entry of the notifier tells which side is one ahead.

*Virtual mutexes.* The byte in the register of a tasklet is the byte in memory while
it holds the hardware mutex of that byte; a bit is set exactly when its mutex is
held, but for the tasklet that has just stored the byte (`VmInv`). That a lock and an
unlock alternate in a program (`Bracket`) is where `ProgramsAssumption` is needed.

*Refinement.* An arrival, the completion of a group and a departure map to the steps
of `Barrier`, all other steps to stuttering; that at the completion the group has the
right size is `BarrierInv`.

### Buddy allocator

For heaps of 6 to 28 levels (`BuddyAssumption`: 512 bytes at least, see section 2, and
the size of the heap is an `unsigned int`), any sizes and pointers, and any
sequence of calls of `buddy_alloc`, `buddy_free` and `buddy_reset`:

| Theorem | Property |
|---|---|
| `Invariant` | the invariant `IInv` |
| `TreeStaysExact` | `TreeExact` |
| `BlocksDisjoint` | `Disjoint` |
| `AllocComplete` | `Complete` |

`TreeExact` alone is not preserved: two blocks that overlap share bits, and freeing
one would set those of the other. `IInv` adds the types of what is held (`LiveType`),
that a block starts where its size allows (`Aligned`), and that no pointer that is held
lies in the block of another (`Apart`). The argument is about the blocks around an
address, one per level: two addresses in one block are in the same blocks above it
(`Above`), and where the ways to two addresses part they go to two buddies (`Parting`).
A free block whose buddy is not free is one that nobody holds in whole or in part,
and that is in no block that is held (`FreeBlock`): with its buddy's bit at 0 somebody
holds a part of every block above. So what `buddy_alloc` gives is apart from the rest,
and the bits it clears are those from there down. `buddy_search_for_pointer` stops at
the block that the pointer was given for, or refuses (`FreeTarget`), and the climb
sets the bits that no other block needs (`FreedBits`); a pointer that is not held, or
was freed before, changes nothing. For `Complete`, the largest block around an
untouched one that is itself untouched has a buddy that is not free, so the search of
the levels finds it (`UntouchedSource`). The bits of different blocks differ
(`BitInjective`) although the first five levels share a word. Powers of two are derived
from the number of subsets of a set (`PowerNext`), since the provers know `2^n` for
given `n` only.

`buddy_realloc` takes the size of the old block from the wrong place (section 3); the
theorems are about `Spec`, and none is about `ReallocSpec`.

### Only model-checked

Every invariant and every action property of a passing run has a theorem, but for
`SearchExact`, which compares two ways of computing a bit at each level, with leading
zeros and shifts. Liveness
(`CallReturns`, `LaunchReturns`, `PollerStops`, `PreemptReturns`, `RankCallReturns` and
`Quiesces` of `DpuSync`) is under fairness and out of the prover's reach.

## 5. Not modelled, and plan

Not modelled: spurious wake-ups of the polling thread, which scans needlessly, and of
a launch job, which looks again; profiling; asynchronous preemptive launches and preemptive launches of one DPU,
which read uninitialised memory before any step of the protocol; callbacks, and
the creation and end of the worker threads; reads and writes of words, thread and
debug commands of the CIs, which go through the same protocol; the fixed-size
allocator, mutex pools and atomics of the runtime.

Most of the repository's lines have no state to model, and the modules map about
6% of them: tables and encoders of instructions (`dpu_instruction_encoder.h`,
`built_ins.h` and the disassembler), byte interleaving and memory-mapped access
(`hw/`), string and ELF processing, flash tables (`vpd/`), bindings in C++, Java and
Python, logging, the libc subset and compiler-rt of the DPU, and the benchmarks. For
these a model would be a transliteration that checks nothing.

Plan, most important first:

1. done: `ThreadJob` with its first theorems, `Polling`, `Preempt`;
2. done: `RankHandler`, `ControlInterface`, `DpuSync` with the abstract `Barrier`,
   `Buddy`;
3. `Callbacks`, an extension of `ThreadJob`: blocking and non-blocking callbacks,
   `dpu_thread_handle_global_block`, launches inside a callback, `dpu_free`;
4. `Transfer` (matrices, alignment, refusal while DPUs run), as operators checked
   against a reference;
5. an abstract specification of an API call (a set of ranks, each performing the
   call's operation once, in order) that `ThreadJob` implements;
6. proofs: done for the job engine, polling, preemption, the rank handler, the
   synchronisation primitives and the buddy allocator of the DPU runtime, the colours,
   the caches, the replays and the boots of the control interface; left is the
   refinement of 5.
