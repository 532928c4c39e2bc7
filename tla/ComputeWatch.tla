---------------------------- MODULE ComputeWatch ----------------------------
(***************************************************************************)
(* The completion watcher of fpga_host.cpp: a second thread that measures  *)
(* one accelerator job at a time while the main thread (the holder of      *)
(* g_mutex) prepares the next tile.  Main arms the watcher before START,   *)
(* launches it after START and collects the measurement before it drains   *)
(* the job; the atomic g_compute_watch_phase carries the handshake, the    *)
(* mutex and condition variable only the sleep between two jobs.           *)
(*                                                                         *)
(* The accelerator is external: START runs a job, the VPU raises its DONE  *)
(* bit, which stays set until CLEAR_DONE, once the SPU has accepted its    *)
(* last token, and the SPU writes the outputs as it goes, the last one     *)
(* some time after DONE.  The SPU's progress is read from free-running     *)
(* counters of finite width: tokens (COUNT) and streams (DONE) accepted,   *)
(* which stand still once the VPU's DONE is up, and outputs written (OUT). *)
(***************************************************************************)
EXTENDS Naturals

CONSTANTS
    MaxJobs,     \* bound: jobs submitted
    MaxInits,    \* bound: how often the device is mapped
    JobRows,     \* the row counts of a job
    Blocks,      \* job.group_blocks: tokens streamed per row
    Wrap         \* the counters count modulo this (2^32)

ASSUME WatchAssumption ==
    /\ {MaxJobs, MaxInits, Blocks, Wrap} \subseteq Nat \ {0}
    /\ JobRows \subseteq Nat \ {0} /\ \A r \in JobRows : r * Blocks < Wrap

VARIABLES
    phase,       \* g_compute_watch_phase: 0 idle, 1 ready, 2 launched, 3 captured
    stop,        \* g_compute_watch_stop
    created,     \* g_compute_watch_created
    pending,     \* g_compute_watch_pending
    ok,          \* g_compute_watch_ok
    watched,     \* job id of the snapshot g_compute_watch_job, 0 before any
    snapshot,    \* its rows and counter baselines
    watcherPc, mainPc,
    job,         \* job id of the main thread's current tile
    tile,        \* its rows and the counters read before START
    vpuJob,      \* accelerator: the job last started
    vpuDone,     \* accelerator: the DONE bit
    spu,         \* accelerator: counters, job of the last output, outputs owed
    fault,       \* some thread creation, wait or device step has failed
    mapped, inits

watcherVars == <<ok, watcherPc>>
jobVars     == <<job, tile>>
watchedVars == <<watched, snapshot>>
device      == <<vpuJob, vpuDone, spu>>
vars == <<phase, stop, created, pending, ok, watchedVars, watcherPc, mainPc,
          jobVars, device, fault, mapped, inits>>

Counter == 0..Wrap-1
Tiles == [rows : JobRows \cup {0}, count : Counter, done : Counter, out : Counter]

WatcherPc == {"none", "test", "asleep", "announce", "spin", "vpu", "spu",
              "quiet", "unpend", "capture", "exited"}
MainPc == {"idle", "create", "check", "publish", "ready", "start", "launch",
           "collect", "drain", "join", "down", "fatal"}

\* The types of the globals; in particular every store to the phase, by either
\* thread, is one of the four values both of them know.
TypeOK ==
    /\ phase \in 0..3
    /\ {stop, created, pending, ok, vpuDone, fault, mapped} \subseteq BOOLEAN
    /\ watched \in 0..MaxJobs /\ job \in 0..MaxJobs
    /\ vpuJob \in 0..MaxJobs /\ tile \in Tiles /\ snapshot \in Tiles
    /\ spu \in [count : Counter, done : Counter, out : Counter, last : 0..MaxJobs,
                owed : Counter, quiet : BOOLEAN]
    /\ watcherPc \in WatcherPc /\ mainPc \in MainPc
    /\ inits \in 0..MaxInits

NoTile == [rows |-> 0, count |-> 0, done |-> 0, out |-> 0]

\* SPU_CTRL_SOFT_RESET clears the counters and the ownership.
ResetSpu(last) ==
    [count |-> 0, done |-> 0, out |-> 0, last |-> last, owed |-> 0, quiet |-> TRUE]

Init ==
    /\ phase = 0 /\ stop = FALSE /\ created = FALSE /\ pending = FALSE
    /\ ok = FALSE /\ watched = 0 /\ snapshot = NoTile
    /\ watcherPc = "none" /\ mainPc = "down" /\ job = 0 /\ tile = NoTile
    /\ vpuJob = 0 /\ vpuDone = FALSE /\ spu = ResetSpu(0)
    /\ fault = FALSE /\ mapped = FALSE /\ inits = 0

WakeWatcher ==
    watcherPc' = IF watcherPc = "asleep" THEN "test" ELSE watcherPc

-----------------------------------------------------------------------------
(* The tests of wait_spu_stream_outputs for the job id with baselines t    *)

expected_raw(t)  == (t.count + t.rows * Blocks) % Wrap
expected_done(t) == (t.done + 1) % Wrap
target_out(t)    == (t.out + t.rows) % Wrap

Matches(t, id) == /\ spu.count = expected_raw(t) /\ spu.done = expected_done(t)
                  /\ spu.last = id

OutputsIn(t, id) == spu.out >= target_out(t) /\ Matches(t, id)

Mismatch(t, id) ==
    \/ spu.done >= expected_done(t) /\ spu.count # expected_raw(t)
    \/ spu.out >= target_out(t) /\ ~Matches(t, id)

-----------------------------------------------------------------------------
(* The main thread *)

\* A failed step is reported upwards and ends in fpga_fatal.
Fail == mainPc' = "fatal" /\ fault' = TRUE

\* fpga_init maps the device and, after the self tests, resets the SPU stream.
Map ==
    /\ mainPc = "down" /\ inits < MaxInits
    /\ mainPc' = "idle" /\ mapped' = TRUE /\ inits' = inits + 1
    /\ spu' = ResetSpu(spu.last)
    /\ UNCHANGED <<phase, stop, created, pending, watchedVars, watcherVars,
                   jobVars, vpuJob, vpuDone, fault>>

\* fpga_submit_q8_tile_job up to the arm: CLEAR_DONE, descriptors, DMA, the
\* wait for a quiescent SPU and the counters to compare with later.
Submit ==
    /\ mainPc = "idle" /\ job < MaxJobs
    /\ job' = job + 1 /\ vpuDone' = FALSE
    /\ \/ /\ spu.quiet /\ mainPc' = "create"
          /\ \E rows \in JobRows :
                tile' = [rows |-> rows, count |-> spu.count, done |-> spu.done, out |-> spu.out]
          /\ UNCHANGED fault
       \/ Fail /\ UNCHANGED tile
    /\ UNCHANGED <<phase, stop, created, pending, watchedVars, watcherVars,
                   vpuJob, spu, mapped, inits>>

\* fpga_compute_watch_arm creates the thread on the first job ...
ArmCreate ==
    /\ mainPc = "create"
    /\ \/ /\ created /\ mainPc' = "check"
          /\ UNCHANGED <<stop, created, watcherPc, fault>>
       \/ /\ ~created /\ stop' = FALSE
          /\ \/ created' = TRUE /\ watcherPc' = "test" /\ mainPc' = "check"
                /\ UNCHANGED fault
             \/ Fail /\ UNCHANGED <<created, watcherPc>>
    /\ UNCHANGED <<phase, pending, ok, watchedVars, jobVars, device, mapped, inits>>

\* ... requires that the preceding job was collected ...
ArmCheck ==
    /\ mainPc = "check"
    /\ mainPc' = IF phase # 0 THEN "fatal" ELSE "publish"
    /\ UNCHANGED <<phase, stop, created, pending, watchedVars, watcherVars, jobVars,
                   device, fault, mapped, inits>>

\* ... copies the job and wakes the watcher under the mutex ...
ArmPublish ==
    /\ mainPc = "publish" /\ mainPc' = "ready"
    /\ watched' = job /\ snapshot' = tile /\ pending' = TRUE /\ WakeWatcher
    /\ UNCHANGED <<phase, stop, created, ok, jobVars, device, fault, mapped, inits>>

\* ... and spins until the watcher is ready, or for g_ip_timeout_us.
ArmReady ==
    /\ mainPc = "ready" /\ phase = 1 /\ mainPc' = "start"
    /\ UNCHANGED <<phase, stop, created, pending, watchedVars, watcherVars, jobVars,
                   device, fault, mapped, inits>>

ArmTimeout ==
    /\ mainPc = "ready" /\ phase # 1 /\ Fail
    /\ UNCHANGED <<phase, stop, created, pending, watchedVars, watcherVars, jobVars,
                   device, mapped, inits>>

StartVpu ==
    /\ mainPc = "start" /\ mainPc' = "launch" /\ vpuJob' = job
    /\ spu' = [spu EXCEPT !.owed = tile.rows, !.quiet = FALSE]
    /\ UNCHANGED <<phase, stop, created, pending, watchedVars, watcherVars, jobVars,
                   vpuDone, fault, mapped, inits>>

\* fpga_compute_watch_launch.
Launch ==
    /\ mainPc = "launch" /\ mainPc' = "collect" /\ phase' = 2
    /\ UNCHANGED <<stop, created, pending, watchedVars, watcherVars, jobVars, device,
                   fault, mapped, inits>>

\* While the job computes, the preparation of the next tile may fail.
PrepareFails ==
    /\ mainPc = "collect" /\ Fail
    /\ UNCHANGED <<phase, stop, created, pending, watchedVars, watcherVars, jobVars,
                   device, mapped, inits>>

\* What the collector makes of the measurement; ok is false after a timeout, a
\* failed register read or a counter mismatch, all found by the watcher.
CollectResult == mainPc' = IF ok /\ watched = job THEN "drain" ELSE "fatal"

\* Mutant of Collect: any launched phase is taken for a captured one.
CollectEarly ==
    /\ mainPc = "collect" /\ phase \in {2, 3} /\ phase' = 0 /\ CollectResult
    /\ UNCHANGED <<stop, created, pending, watchedVars, watcherVars, jobVars, device,
                   fault, mapped, inits>>

\* Mutant of Collect: the phase is not given back.
CollectKeepsPhase ==
    /\ mainPc = "collect" /\ phase = 3 /\ CollectResult
    /\ UNCHANGED <<phase, stop, created, pending, watchedVars, watcherVars, jobVars,
                   device, fault, mapped, inits>>

\* fpga_compute_watch_collect.
Collect ==
    /\ mainPc = "collect" /\ phase = 3 /\ phase' = 0 /\ CollectResult
    /\ UNCHANGED <<stop, created, pending, watchedVars, watcherVars, jobVars, device,
                   fault, mapped, inits>>

\* The rest of fpga_wait_and_drain_q8_tile_job: main repeats both waits, which
\* may time out, and drains.
Drain ==
    /\ mainPc = "drain"
    /\ \/ /\ vpuDone /\ vpuJob = job /\ OutputsIn(tile, job) /\ spu.quiet
          /\ mainPc' = "idle" /\ UNCHANGED fault
       \/ Fail
    /\ UNCHANGED <<phase, stop, created, pending, watchedVars, watcherVars, jobVars,
                   device, mapped, inits>>

\* Mutant of Shutdown: cleanup goes on to the unmap without joining.
ShutdownNoJoin ==
    /\ mainPc = "idle" /\ created
    /\ stop' = TRUE /\ mainPc' = "down" /\ mapped' = FALSE
    /\ UNCHANGED <<phase, created, pending, watchedVars, watcherVars, jobVars, device,
                   fault, inits>>

\* fpga_compute_watch_shutdown, called first by fpga_cleanup.
Shutdown ==
    /\ mainPc = "idle" /\ created
    /\ stop' = TRUE /\ WakeWatcher /\ mainPc' = "join"
    /\ UNCHANGED <<phase, created, pending, ok, watchedVars, jobVars, device, fault,
                   mapped, inits>>

\* pthread_join and the resets after it; then the device is unmapped.
Join ==
    /\ mainPc = "join" /\ watcherPc = "exited"
    /\ watcherPc' = "none" /\ created' = FALSE /\ pending' = FALSE /\ phase' = 0
    /\ mainPc' = "down" /\ mapped' = FALSE
    /\ UNCHANGED <<stop, ok, watchedVars, jobVars, device, fault, inits>>

\* No job ever ran: there is no watcher to stop.
CleanupUnused ==
    /\ mainPc = "idle" /\ ~created
    /\ mainPc' = "down" /\ mapped' = FALSE
    /\ UNCHANGED <<phase, stop, created, pending, watchedVars, watcherVars, jobVars,
                   device, fault, inits>>

-----------------------------------------------------------------------------
(* The watcher, fpga_compute_watch_main *)

\* The critical section around the condition wait.
WatchTest ==
    /\ watcherPc = "test"
    /\ watcherPc' = IF stop THEN "exited" ELSE IF pending THEN "announce"
                    ELSE "asleep"
    /\ UNCHANGED <<phase, stop, created, pending, ok, watchedVars, mainPc, jobVars,
                   device, fault, mapped, inits>>

WatchSpuriousWakeup ==
    /\ watcherPc = "asleep" /\ watcherPc' = "test"
    /\ UNCHANGED <<phase, stop, created, pending, ok, watchedVars, mainPc, jobVars,
                   device, fault, mapped, inits>>

WatchAnnounce ==
    /\ watcherPc = "announce" /\ watcherPc' = "spin" /\ phase' = 1
    /\ UNCHANGED <<stop, created, pending, ok, watchedVars, mainPc, jobVars, device,
                   fault, mapped, inits>>

WatchSpin ==
    /\ watcherPc = "spin"
    /\ \/ phase = 2 /\ watcherPc' = "vpu"
       \/ phase # 2 /\ stop /\ watcherPc' = "exited"
    /\ UNCHANGED <<phase, stop, created, pending, ok, watchedVars, mainPc, jobVars,
                   device, fault, mapped, inits>>

\* The device reported an error, a wait timed out, the SPU counters do not
\* match or the clock did not advance.
MeasureFails == ok' = FALSE /\ fault' = TRUE /\ watcherPc' = "unpend"

\* wait_vpu_done polls the DONE bit ...
WatchVpu ==
    /\ watcherPc = "vpu"
    /\ \/ vpuDone /\ watcherPc' = "spu" /\ UNCHANGED <<ok, fault>>
       \/ MeasureFails
    /\ UNCHANGED <<phase, stop, created, pending, watchedVars, mainPc, jobVars,
                   device, mapped, inits>>

\* ... then wait_spu_stream_outputs polls the counters against the snapshot.
\* A mismatch is reported at once, without waiting for the timeout.
WatchSpu ==
    /\ watcherPc = "spu"
    /\ \/ OutputsIn(snapshot, watched) /\ watcherPc' = "quiet" /\ UNCHANGED <<ok, fault>>
       \/ Mismatch(snapshot, watched) /\ ok' = FALSE /\ watcherPc' = "unpend" /\ UNCHANGED fault
       \/ MeasureFails
    /\ UNCHANGED <<phase, stop, created, pending, watchedVars, mainPc, jobVars,
                   device, mapped, inits>>

\* Mutant of WatchQuiet: matching counters alone end the measurement.
WatchQuietUnchecked ==
    /\ watcherPc = "quiet" /\ ok' = TRUE /\ watcherPc' = "unpend"
    /\ UNCHANGED <<phase, stop, created, pending, watchedVars, mainPc, jobVars,
                   device, fault, mapped, inits>>

\* Its last wait, for a quiescent SPU.
WatchQuiet ==
    /\ watcherPc = "quiet"
    /\ \/ spu.quiet /\ ok' = TRUE /\ watcherPc' = "unpend" /\ UNCHANGED fault
       \/ MeasureFails
    /\ UNCHANGED <<phase, stop, created, pending, watchedVars, mainPc, jobVars,
                   device, mapped, inits>>

\* Mutant of WatchUnpend: a failed measurement goes straight back to sleep.
WatchFailureSilent ==
    /\ watcherPc = "unpend" /\ pending' = FALSE
    /\ watcherPc' = IF ok THEN "capture" ELSE "test"
    /\ UNCHANGED <<phase, stop, created, ok, watchedVars, mainPc, jobVars, device,
                   fault, mapped, inits>>

\* pending is cleared under the mutex before the capture is published, so it
\* cannot wipe out the arm of the next job.
WatchUnpend ==
    /\ watcherPc = "unpend" /\ watcherPc' = "capture" /\ pending' = FALSE
    /\ UNCHANGED <<phase, stop, created, ok, watchedVars, mainPc, jobVars, device,
                   fault, mapped, inits>>

WatchCapture ==
    /\ watcherPc = "capture" /\ watcherPc' = "test" /\ phase' = 3
    /\ UNCHANGED <<stop, created, pending, ok, watchedVars, mainPc, jobVars, device,
                   fault, mapped, inits>>

-----------------------------------------------------------------------------
(* The accelerator *)

VpuFinishes ==
    /\ vpuJob = job /\ job # 0 /\ ~vpuDone
    /\ vpuDone' = TRUE
    /\ spu' = [spu EXCEPT !.count = (@ + tile.rows * Blocks) % Wrap, !.done = (@ + 1) % Wrap]
    /\ UNCHANGED <<phase, stop, created, pending, watchedVars, watcherVars, mainPc,
                   jobVars, vpuJob, fault, mapped, inits>>

SpuWrites ==
    /\ spu.owed > 1 \/ (spu.owed = 1 /\ vpuDone)
    /\ spu' = [spu EXCEPT !.out = (@ + 1) % Wrap, !.owed = @ - 1, !.last = vpuJob]
    /\ UNCHANGED <<phase, stop, created, pending, watchedVars, watcherVars, mainPc,
                   jobVars, vpuJob, vpuDone, fault, mapped, inits>>

SpuQuiesces ==
    /\ spu.owed = 0 /\ ~spu.quiet /\ spu' = [spu EXCEPT !.quiet = TRUE]
    /\ UNCHANGED <<phase, stop, created, pending, watchedVars, watcherVars, mainPc,
                   jobVars, vpuJob, vpuDone, fault, mapped, inits>>

MainStep == \/ ArmCreate \/ ArmCheck \/ ArmPublish \/ ArmReady \/ StartVpu
            \/ Launch \/ Collect \/ Drain \/ Join
WatcherStep == \/ WatchTest \/ WatchAnnounce \/ WatchSpin \/ WatchVpu
               \/ WatchSpu \/ WatchQuiet \/ WatchUnpend \/ WatchCapture

\* The process has aborted, or is shut down for good.
Ended == mainPc = "fatal" \/ (mainPc = "down" /\ inits = MaxInits)

Next == \/ /\ mainPc # "fatal"
           /\ \/ MainStep \/ WatcherStep \/ Map \/ Submit \/ ArmTimeout
              \/ PrepareFails \/ Shutdown \/ CleanupUnused
              \/ WatchSpuriousWakeup \/ VpuFinishes \/ SpuWrites \/ SpuQuiesces
        \/ Ended /\ UNCHANGED vars

\* Both threads are scheduled.  The waits for the device are bounded by
\* g_ip_timeout_us, so a watcher that measures also makes progress; the device
\* owes nothing, and main's readiness timeout is never counted on.
Fairness == /\ WF_vars(mainPc # "fatal" /\ MainStep)
            /\ WF_vars(mainPc # "fatal" /\ WatcherStep)

Spec == Init /\ [][Next]_vars /\ Fairness

-----------------------------------------------------------------------------
(* Properties *)

\* Main goes on to drain a job only when the watcher has measured that very
\* job to its end: the DONE bit and every SPU output are its own, not left
\* over from the preceding job, and the SPU has let go of its windows, also
\* when a counter wrapped during the job.
MeasuredJobIsFinal ==
    mainPc = "drain" => /\ ok /\ watched = job
                        /\ vpuJob = job /\ vpuDone /\ spu.owed = 0 /\ spu.quiet

\* "The watcher owns a metadata snapshot": main does not overwrite it between
\* its wake-up and the capture, while the watcher reads it without the mutex.
SnapshotStable ==
    [][(watcherPc \in {"spin", "vpu", "spu", "quiet", "unpend", "capture"})
        => watchedVars' = watchedVars]_vars

\* "before any MMIO unmap": no watcher that could still read a device register
\* outlives the mapping.
WatcherGoneBeforeUnmap == ~mapped => watcherPc = "none"

\* The checks of arm, collect and wait_spu_stream_outputs are assertions: no
\* interleaving of healthy threads and a healthy device trips them, save in a
\* job during which the OUT counter wraps: there the plain comparison with
\* target_out holds before the first output and the check that follows it
\* fails.  Wrapping COUNT and DONE counters, which are compared for equality,
\* do no harm.
NoFalseAlarm == mainPc = "fatal" => fault \/ tile.out + tile.rows >= Wrap

\* No wait of main lasts for ever, whatever the device and the watcher do: an
\* armed watcher becomes ready (no wake-up is lost), the unbounded spin of
\* collect ends with the measurement or its failure, and cleanup's join returns.
MainWaitsEnd ==
    /\ mainPc = "ready"   ~> mainPc \in {"start", "fatal"}
    /\ mainPc = "collect" ~> mainPc \in {"drain", "fatal"}
    /\ mainPc = "join"    ~> mainPc = "down"

=============================================================================
