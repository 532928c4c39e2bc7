---------------------------- MODULE DeviceProofs ----------------------------
(***************************************************************************)
(* Proofs about the two parts of the host that wait for the device:        *)
(*   ComputeWatch, for any number of jobs and mappings, any row counts and *)
(*                 any counter width;                                      *)
(*   Zdma,         for copies of any number of chunks and any number of    *)
(*                 copies, with the channel free to be late, to fail and   *)
(*                 to hang.                                                *)
(* The two share no variable.                                              *)
(***************************************************************************)
EXTENDS ComputeWatch, Zdma, TLAPS


(***************************************************************************)
(* The watcher's inductive invariant.  Once main has aborted nothing moves *)
(* any more, so most of it speaks of a process that has not.               *)
(***************************************************************************)

\* Where the watcher may be, for each place of main, and what the shared words
\* then say.
Handshake ==
    mainPc # "fatal" =>
    /\ mapped <=> mainPc # "down"
    /\ created <=> watcherPc # "none"
    /\ created /\ mainPc # "join" => ~stop
    /\ mainPc = "down" => ~created
    /\ mainPc \in {"check", "publish", "ready", "start", "launch", "collect", "drain", "join"}
         => created
    /\ mainPc \in {"idle", "create", "check", "publish", "drain", "down"}
         => phase = 0 /\ ~pending /\ watcherPc \in {"none", "test", "asleep"}
    /\ mainPc = "ready"
         => /\ pending
            /\ \/ phase = 0 /\ watcherPc \in {"test", "announce"}
               \/ phase = 1 /\ watcherPc = "spin"
    /\ mainPc \in {"start", "launch"} => phase = 1 /\ pending /\ watcherPc = "spin"
    /\ mainPc = "collect"
         => \/ phase = 2 /\ pending /\ watcherPc \in {"spin", "vpu", "spu", "quiet", "unpend"}
            \/ phase = 2 /\ ~pending /\ watcherPc = "capture"
            \/ phase = 3 /\ ~pending /\ watcherPc \in {"test", "asleep"}
    /\ mainPc = "join" => stop /\ phase = 0 /\ ~pending /\ watcherPc \in {"test", "exited"}

\* From the arm on, the watcher's copy of the job is main's job.
SnapshotIsTile ==
    mainPc \in {"ready", "start", "launch", "collect", "drain"} => watched = job /\ snapshot = tile

InJob == mainPc \in {"create", "check", "publish", "ready", "start", "launch", "collect", "drain"}
TileHasRows == InJob => tile.rows \in JobRows /\ job # 0

\* Between two jobs the device has finished the last one and stands still.
DeviceRests ==
    mainPc \in {"idle", "join", "down"} =>
        /\ vpuJob = job /\ (job # 0 => vpuDone)
        /\ spu.owed = 0 /\ spu.quiet

\* Until START the counters are the baselines main has read.
DeviceWaits ==
    mainPc \in {"create", "check", "publish", "ready", "start"} =>
        /\ vpuJob # job /\ ~vpuDone /\ spu.owed = 0 /\ spu.quiet
        /\ spu.count = tile.count /\ spu.done = tile.done /\ spu.out = tile.out

OutWraps == tile.out + tile.rows >= Wrap

\* After START the counters tell how far the job has come.
DeviceRuns ==
    mainPc \in {"launch", "collect", "drain"} =>
        /\ vpuJob = job
        /\ vpuDone => spu.count = expected_raw(tile) /\ spu.done = expected_done(tile)
        /\ ~vpuDone => spu.count = tile.count /\ spu.done = tile.done /\ spu.owed >= 1
        /\ spu.owed <= tile.rows
        /\ spu.owed < tile.rows => spu.last = job
        /\ spu.quiet => spu.owed = 0
        /\ ~OutWraps => spu.out = tile.out + (tile.rows - spu.owed)

\* What the watcher has established at each step of its measurement.
Measurement ==
    mainPc = "collect" =>
        /\ watcherPc \in {"spu", "quiet"} => vpuDone
        /\ watcherPc \in {"unpend", "capture"} \/ phase = 3
             => IF ok THEN vpuDone /\ spu.quiet ELSE fault \/ OutWraps

Inv == /\ TypeOK /\ Handshake /\ SnapshotIsTile /\ TileHasRows
       /\ DeviceRests /\ DeviceWaits /\ DeviceRuns /\ Measurement
       /\ WatcherGoneBeforeUnmap /\ MeasuredJobIsFinal /\ NoFalseAlarm

(***************************************************************************)
(* Preliminaries                                                           *)
(***************************************************************************)

\* Every step is one action of a process that has not aborted, or a stutter.
LEMMA NextCases ==
  ASSUME [Next]_vars
  PROVE  \/ /\ mainPc # "fatal"
            /\ \/ ArmCreate \/ ArmCheck \/ ArmPublish \/ ArmReady \/ StartVpu \/ Launch
               \/ Collect \/ Drain \/ Join \/ WatchTest \/ WatchAnnounce \/ WatchSpin
               \/ WatchVpu \/ WatchSpu \/ WatchQuiet \/ WatchUnpend \/ WatchCapture
               \/ Map \/ Submit \/ ArmTimeout \/ PrepareFails \/ Shutdown \/ CleanupUnused
               \/ WatchSpuriousWakeup \/ VpuFinishes \/ SpuWrites \/ SpuQuiesces
         \/ UNCHANGED vars
  BY DEF Next, MainStep, WatcherStep

\* Counters of finite width: below the wrap they are plain numbers.
LEMMA CounterFacts ==
  /\ Wrap \in Nat \ {0} /\ Blocks \in Nat \ {0}
  /\ \A a \in Nat : a % Wrap \in Counter
  /\ \A a \in Counter : a % Wrap = a
<1>1. Wrap \in Nat \ {0} /\ Blocks \in Nat \ {0}
  BY WatchAssumption
<1>2. \A a \in Nat : a % Wrap \in Counter
  BY <1>1 DEF Counter
<1>3. ASSUME NEW a \in Counter PROVE a % Wrap = a
  BY <1>1 DEF Counter
<1> QED
  BY <1>1, <1>2, <1>3

\* A job writes fewer outputs than a counter can count.
LEMMA RowsFit ==
  ASSUME NEW r \in JobRows
  PROVE  r \in Counter /\ r >= 1 /\ r * Blocks \in Nat
<1>1. r \in Nat /\ r >= 1 /\ Blocks \in Nat /\ Blocks >= 1 /\ Wrap \in Nat /\ r * Blocks < Wrap
  BY WatchAssumption
<1>2. r * Blocks \in Nat /\ r * Blocks >= r
  BY <1>1
<1> QED
  BY <1>1, <1>2 DEF Counter

\* The globals keep their types.
LEMMA TypeStep == Inv /\ [Next]_vars => TypeOK'
<1> SUFFICES ASSUME Inv, [Next]_vars PROVE TypeOK'
  OBVIOUS
<1> USE CounterFacts, WatchAssumption
    DEF Inv, TypeOK, watcherVars, jobVars, watchedVars, device, Tiles, WatcherPc, MainPc
<1>1. CASE ArmCreate
  BY <1>1 DEF ArmCreate, Fail
<1>2. CASE ArmCheck
  BY <1>2 DEF ArmCheck
<1>3. CASE ArmPublish
  BY <1>3 DEF ArmPublish, WakeWatcher
<1>4. CASE ArmReady
  BY <1>4 DEF ArmReady
<1>5. CASE StartVpu
  <2>1. tile.rows \in Counter
    BY <1>5, RowsFit DEF StartVpu, TileHasRows, InJob
  <2> QED
    BY <1>5, <2>1 DEF StartVpu
<1>6. CASE Launch
  BY <1>6 DEF Launch
<1>7. CASE Collect
  BY <1>7 DEF Collect, CollectResult
<1>8. CASE Drain
  BY <1>8 DEF Drain, Fail
<1>9. CASE Join
  <2>1. {stop', created', pending', ok', vpuDone', fault', mapped'} \subseteq BOOLEAN
    BY <1>9 DEF Join
  <2> QED
    BY <1>9, <2>1 DEF Join
<1>10. CASE WatchTest
  BY <1>10 DEF WatchTest
<1>11. CASE WatchAnnounce
  BY <1>11 DEF WatchAnnounce
<1>12. CASE WatchSpin
  BY <1>12 DEF WatchSpin
<1>13. CASE WatchVpu
  BY <1>13 DEF WatchVpu, MeasureFails
<1>14. CASE WatchSpu
  BY <1>14 DEF WatchSpu, MeasureFails
<1>15. CASE WatchQuiet
  BY <1>15 DEF WatchQuiet, MeasureFails
<1>16. CASE WatchUnpend
  BY <1>16 DEF WatchUnpend
<1>17. CASE WatchCapture
  BY <1>17 DEF WatchCapture
<1>18. CASE Map
  BY <1>18 DEF Map, ResetSpu
<1>19. CASE Submit
  <2>1. tile' \in Tiles
    BY <1>19 DEF Submit, Fail
  <2>2. job' \in 0..MaxJobs
    <3>1. MaxJobs \in Nat /\ job \in 0..MaxJobs /\ job < MaxJobs /\ job' = job + 1
      BY <1>19 DEF Submit
    <3> QED
      BY <3>1
  <2>3. vpuDone' = FALSE /\ fault' \in BOOLEAN /\ mainPc' \in MainPc
    BY <1>19 DEF Submit, Fail
  <2>4. {stop', created', pending', ok', vpuDone', fault', mapped'} \subseteq BOOLEAN
    BY <1>19, <2>3 DEF Submit
  <2> QED
    BY <1>19, <2>1, <2>2, <2>3, <2>4 DEF Submit
<1>20. CASE ArmTimeout
  BY <1>20 DEF ArmTimeout, Fail
<1>21. CASE PrepareFails
  BY <1>21 DEF PrepareFails, Fail
<1>22. CASE Shutdown
  BY <1>22 DEF Shutdown, WakeWatcher
<1>23. CASE CleanupUnused
  BY <1>23 DEF CleanupUnused
<1>24. CASE WatchSpuriousWakeup
  BY <1>24 DEF WatchSpuriousWakeup
<1>25. CASE VpuFinishes
  <2>1. tile.rows \in Nat
    BY Zenon, tile.rows \in JobRows \cup {0}, JobRows \subseteq Nat, 0 \in Nat
  <2>2. spu.count \in Nat /\ spu.done \in Nat
    BY DEF Counter
  <2>3. tile.rows * Blocks \in Nat
    BY <2>1
  <2>4. (spu.count + tile.rows * Blocks) % Wrap \in Counter /\ (spu.done + 1) % Wrap \in Counter
    BY <2>2, <2>3
  <2> QED
    BY <1>25, <2>4 DEF VpuFinishes
<1>26. CASE SpuWrites
  <2>1. (spu.out + 1) % Wrap \in Counter /\ spu.owed - 1 \in Counter
    BY <1>26 DEF SpuWrites, Counter
  <2> QED
    BY <1>26, <2>1 DEF SpuWrites
<1>27. CASE SpuQuiesces
  BY <1>27 DEF SpuQuiesces
<1>28. CASE UNCHANGED vars
  BY <1>28 DEF vars
<1> QED
    BY NextCases, <1>1, <1>2, <1>3, <1>4, <1>5, <1>6, <1>7, <1>8, <1>9, <1>10, <1>11, <1>12,
     <1>13, <1>14, <1>15, <1>16, <1>17, <1>18, <1>19, <1>20, <1>21, <1>22, <1>23, <1>24,
     <1>25, <1>26, <1>27, <1>28

(***************************************************************************)
(* Control                                                                 *)
(***************************************************************************)

\* The two threads keep in step through phase, pending and stop.
LEMMA HandshakeStep == Inv /\ [Next]_vars => Handshake' /\ WatcherGoneBeforeUnmap'
<1> SUFFICES ASSUME Inv, [Next]_vars PROVE Handshake' /\ WatcherGoneBeforeUnmap'
  OBVIOUS
<1>a. TypeOK /\ Handshake /\ WatcherGoneBeforeUnmap /\ TypeOK'
  BY TypeStep DEF Inv
<1> USE <1>a
    DEF TypeOK, Handshake, WatcherGoneBeforeUnmap, watcherVars, jobVars, watchedVars, device
<1>1. CASE ArmCreate
  BY <1>1 DEF ArmCreate, Fail
<1>2. CASE ArmCheck
  BY <1>2 DEF ArmCheck
<1>3. CASE ArmPublish
  BY <1>3 DEF ArmPublish, WakeWatcher
<1>4. CASE ArmReady
  BY <1>4 DEF ArmReady
<1>5. CASE StartVpu
  BY <1>5 DEF StartVpu
<1>6. CASE Launch
  BY <1>6 DEF Launch
<1>7. CASE Collect
  BY <1>7 DEF Collect, CollectResult
<1>8. CASE Drain
  BY <1>8 DEF Drain, Fail
<1>9. CASE Join
  BY <1>9 DEF Join
<1>10. CASE WatchTest
  BY <1>10 DEF WatchTest
<1>11. CASE WatchAnnounce
  BY <1>11 DEF WatchAnnounce
<1>12. CASE WatchSpin
  BY <1>12 DEF WatchSpin
<1>13. CASE WatchVpu
  BY <1>13 DEF WatchVpu, MeasureFails
<1>14. CASE WatchSpu
  BY <1>14 DEF WatchSpu, MeasureFails
<1>15. CASE WatchQuiet
  BY <1>15 DEF WatchQuiet, MeasureFails
<1>16. CASE WatchUnpend
  BY <1>16 DEF WatchUnpend
<1>17. CASE WatchCapture
  BY <1>17 DEF WatchCapture
<1>18. CASE Map
  BY <1>18 DEF Map, ResetSpu
<1>19. CASE Submit
  BY <1>19 DEF Submit, Fail
<1>20. CASE ArmTimeout
  BY <1>20 DEF ArmTimeout, Fail
<1>21. CASE PrepareFails
  BY <1>21 DEF PrepareFails, Fail
<1>22. CASE Shutdown
  BY <1>22 DEF Shutdown, WakeWatcher
<1>23. CASE CleanupUnused
  BY <1>23 DEF CleanupUnused
<1>24. CASE WatchSpuriousWakeup
  BY <1>24 DEF WatchSpuriousWakeup
<1>25. CASE VpuFinishes
  BY <1>25 DEF VpuFinishes
<1>26. CASE SpuWrites
  BY <1>26 DEF SpuWrites
<1>27. CASE SpuQuiesces
  BY <1>27 DEF SpuQuiesces
<1>28. CASE UNCHANGED vars
  BY <1>28 DEF vars
<1> QED
    BY NextCases, <1>1, <1>2, <1>3, <1>4, <1>5, <1>6, <1>7, <1>8, <1>9, <1>10, <1>11, <1>12,
     <1>13, <1>14, <1>15, <1>16, <1>17, <1>18, <1>19, <1>20, <1>21, <1>22, <1>23, <1>24,
     <1>25, <1>26, <1>27, <1>28

\* From the arm to the drain the snapshot, the job and its rows stay as they are.
LEMMA SnapshotStep == Inv /\ [Next]_vars => SnapshotIsTile' /\ TileHasRows'
<1> SUFFICES ASSUME Inv, [Next]_vars PROVE SnapshotIsTile' /\ TileHasRows'
  OBVIOUS
<1>a. SnapshotIsTile /\ TileHasRows /\ job \in 0..MaxJobs /\ MaxJobs \in Nat
  BY WatchAssumption DEF Inv, TypeOK
<1> USE <1>a DEF SnapshotIsTile, TileHasRows, InJob, watcherVars, jobVars, watchedVars, device
<1>1. CASE ArmCreate
  BY <1>1 DEF ArmCreate, Fail
<1>2. CASE ArmCheck
  BY <1>2 DEF ArmCheck
<1>3. CASE ArmPublish
  BY <1>3 DEF ArmPublish, WakeWatcher
<1>4. CASE ArmReady
  BY <1>4 DEF ArmReady
<1>5. CASE StartVpu
  BY <1>5 DEF StartVpu
<1>6. CASE Launch
  BY <1>6 DEF Launch
<1>7. CASE Collect
  BY <1>7 DEF Collect, CollectResult
<1>8. CASE Drain
  BY <1>8 DEF Drain, Fail
<1>9. CASE Join
  BY <1>9 DEF Join
<1>10. CASE WatchTest
  BY <1>10 DEF WatchTest
<1>11. CASE WatchAnnounce
  BY <1>11 DEF WatchAnnounce
<1>12. CASE WatchSpin
  BY <1>12 DEF WatchSpin
<1>13. CASE WatchVpu
  BY <1>13 DEF WatchVpu, MeasureFails
<1>14. CASE WatchSpu
  BY <1>14 DEF WatchSpu, MeasureFails
<1>15. CASE WatchQuiet
  BY <1>15 DEF WatchQuiet, MeasureFails
<1>16. CASE WatchUnpend
  BY <1>16 DEF WatchUnpend
<1>17. CASE WatchCapture
  BY <1>17 DEF WatchCapture
<1>18. CASE Map
  BY <1>18 DEF Map, ResetSpu
<1>19. CASE Submit
  BY <1>19 DEF Submit, Fail
<1>20. CASE ArmTimeout
  BY <1>20 DEF ArmTimeout, Fail
<1>21. CASE PrepareFails
  BY <1>21 DEF PrepareFails, Fail
<1>22. CASE Shutdown
  BY <1>22 DEF Shutdown, WakeWatcher
<1>23. CASE CleanupUnused
  BY <1>23 DEF CleanupUnused
<1>24. CASE WatchSpuriousWakeup
  BY <1>24 DEF WatchSpuriousWakeup
<1>25. CASE VpuFinishes
  BY <1>25 DEF VpuFinishes
<1>26. CASE SpuWrites
  BY <1>26 DEF SpuWrites
<1>27. CASE SpuQuiesces
  BY <1>27 DEF SpuQuiesces
<1>28. CASE UNCHANGED vars
  BY <1>28 DEF vars
<1> QED
    BY NextCases, <1>1, <1>2, <1>3, <1>4, <1>5, <1>6, <1>7, <1>8, <1>9, <1>10, <1>11, <1>12,
     <1>13, <1>14, <1>15, <1>16, <1>17, <1>18, <1>19, <1>20, <1>21, <1>22, <1>23, <1>24,
     <1>25, <1>26, <1>27, <1>28

(***************************************************************************)
(* The device                                                              *)
(***************************************************************************)

\* The counters tell main's job apart from the one before it.
LEMMA DeviceStep == Inv /\ [Next]_vars => DeviceRests' /\ DeviceWaits' /\ DeviceRuns'
<1> SUFFICES ASSUME Inv, [Next]_vars PROVE DeviceRests' /\ DeviceWaits' /\ DeviceRuns'
  OBVIOUS
<1>a. /\ DeviceRests /\ DeviceWaits /\ DeviceRuns /\ TileHasRows
      /\ Handshake /\ MeasuredJobIsFinal /\ TypeOK
  BY DEF Inv
<1> USE <1>a DEF DeviceRests, DeviceWaits, DeviceRuns, OutWraps, expected_raw, expected_done,
                watcherVars, jobVars, watchedVars, device
<1>1. CASE ArmCreate
  BY <1>1 DEF ArmCreate, Fail
<1>2. CASE ArmCheck
  BY <1>2 DEF ArmCheck
<1>3. CASE ArmPublish
  BY <1>3 DEF ArmPublish, WakeWatcher
<1>4. CASE ArmReady
  BY <1>4 DEF ArmReady
<1>5. CASE StartVpu
  <2>1. tile.rows \in Nat /\ tile.rows >= 1 /\ tile.out \in Nat
    BY <1>5, RowsFit, CounterFacts DEF StartVpu, TileHasRows, InJob, TypeOK, Tiles, Counter
  <2>2. /\ spu'.owed = tile.rows /\ ~spu'.quiet /\ spu'.out = spu.out
        /\ spu'.count = spu.count /\ spu'.done = spu.done
    BY <1>5 DEF StartVpu, TypeOK
  <2> QED
    BY <1>5, <2>1, <2>2 DEF StartVpu
<1>6. CASE Launch
  BY <1>6 DEF Launch
<1>7. CASE Collect
  BY <1>7 DEF Collect, CollectResult
<1>8. CASE Drain
  BY <1>8 DEF Drain, Fail
<1>9. CASE Join
  BY <1>9 DEF Join
<1>10. CASE WatchTest
  BY <1>10 DEF WatchTest
<1>11. CASE WatchAnnounce
  BY <1>11 DEF WatchAnnounce
<1>12. CASE WatchSpin
  BY <1>12 DEF WatchSpin
<1>13. CASE WatchVpu
  BY <1>13 DEF WatchVpu, MeasureFails
<1>14. CASE WatchSpu
  BY <1>14 DEF WatchSpu, MeasureFails
<1>15. CASE WatchQuiet
  BY <1>15 DEF WatchQuiet, MeasureFails
<1>16. CASE WatchUnpend
  BY <1>16 DEF WatchUnpend
<1>17. CASE WatchCapture
  BY <1>17 DEF WatchCapture
<1>18. CASE Map
  BY <1>18 DEF Map, ResetSpu
<1>19. CASE Submit
  BY <1>19 DEF Submit, Fail
<1>20. CASE ArmTimeout
  BY <1>20 DEF ArmTimeout, Fail
<1>21. CASE PrepareFails
  BY <1>21 DEF PrepareFails, Fail
<1>22. CASE Shutdown
  BY <1>22 DEF Shutdown, WakeWatcher
<1>23. CASE CleanupUnused
  BY <1>23 DEF CleanupUnused
<1>24. CASE WatchSpuriousWakeup
  BY <1>24 DEF WatchSpuriousWakeup
<1>25. CASE VpuFinishes
  BY <1>25 DEF VpuFinishes
<1>26. CASE SpuWrites
  <2>1. spu.owed >= 1 /\ spu.owed \in Nat
    BY <1>26, CounterFacts DEF SpuWrites, TypeOK, Counter
  <2>2. mainPc \in {"launch", "collect", "drain", "fatal"}
    BY <2>1 DEF TypeOK, MainPc
  <2>3. /\ spu'.out = (spu.out + 1) % Wrap /\ spu'.owed = spu.owed - 1 /\ spu'.last = vpuJob
        /\ spu'.count = spu.count /\ spu'.done = spu.done /\ spu'.quiet = spu.quiet
        /\ UNCHANGED <<mainPc, job, tile, vpuJob, vpuDone>>
    BY <1>26 DEF SpuWrites, TypeOK
  <2>4. ASSUME mainPc \in {"launch", "collect", "drain"}, ~OutWraps
        PROVE  spu'.out = tile.out + (tile.rows - spu'.owed)
    <3>1. tile.rows \in Nat /\ tile.out \in Nat /\ Wrap \in Nat
      BY <2>4, RowsFit, CounterFacts DEF TileHasRows, InJob, TypeOK, Tiles, Counter
    <3>2. spu.out + 1 \in Counter
      BY <2>1, <2>4, <3>1 DEF Counter
    <3>3. spu'.out = spu.out + 1
      BY <2>3, <3>2, CounterFacts
    <3> QED
      BY <2>1, <2>3, <2>4, <3>1, <3>3
  <2>5. ASSUME mainPc \in {"launch", "collect", "drain"}
        PROVE  ~spu'.quiet /\ spu'.owed <= tile.rows /\ (~vpuDone => spu'.owed >= 1)
    <3>1. tile.rows \in Nat
      BY <2>5, RowsFit, CounterFacts DEF TileHasRows, InJob, Counter
    <3> QED
      BY <1>26, <2>1, <2>3, <2>5, <3>1 DEF SpuWrites
  <2> QED
    BY <2>2, <2>3, <2>4, <2>5
<1>27. CASE SpuQuiesces
  BY <1>27 DEF SpuQuiesces
<1>28. CASE UNCHANGED vars
  BY <1>28 DEF vars
<1> QED
    BY NextCases, <1>1, <1>2, <1>3, <1>4, <1>5, <1>6, <1>7, <1>8, <1>9, <1>10, <1>11, <1>12,
     <1>13, <1>14, <1>15, <1>16, <1>17, <1>18, <1>19, <1>20, <1>21, <1>22, <1>23, <1>24,
     <1>25, <1>26, <1>27, <1>28

\* A measurement that went well saw the end of this job, one that did not has a
\* cause.
LEMMA MeasurementStep ==
  Inv /\ [Next]_vars => Measurement' /\ MeasuredJobIsFinal' /\ NoFalseAlarm'
<1> SUFFICES ASSUME Inv, [Next]_vars PROVE Measurement' /\ MeasuredJobIsFinal' /\ NoFalseAlarm'
  OBVIOUS
<1>a. /\ Measurement /\ MeasuredJobIsFinal /\ NoFalseAlarm /\ DeviceRuns /\ TileHasRows
      /\ Handshake /\ SnapshotIsTile /\ TypeOK
  BY DEF Inv
<1> USE <1>a DEF Measurement, MeasuredJobIsFinal, NoFalseAlarm, Handshake, SnapshotIsTile,
                OutWraps, watcherVars, jobVars, watchedVars, device
<1>1. CASE ArmCreate
  BY <1>1 DEF ArmCreate, Fail
<1>2. CASE ArmCheck
  BY <1>2 DEF ArmCheck
<1>3. CASE ArmPublish
  BY <1>3 DEF ArmPublish, WakeWatcher
<1>4. CASE ArmReady
  BY <1>4 DEF ArmReady
<1>5. CASE StartVpu
  BY <1>5 DEF StartVpu
<1>6. CASE Launch
  BY <1>6 DEF Launch
<1>7. CASE Collect
  <2>1. /\ mainPc = "collect" /\ phase = 3 /\ mainPc' = IF ok /\ watched = job THEN "drain" ELSE "fatal"
        /\ UNCHANGED <<ok, watched, job, tile, vpuJob, vpuDone, spu, fault>>
    BY <1>7 DEF Collect, CollectResult
  <2>2. watched = job /\ vpuJob = job /\ (spu.quiet => spu.owed = 0)
    BY <2>1 DEF DeviceRuns
  <2>3. IF ok THEN vpuDone /\ spu.quiet ELSE fault \/ OutWraps
    BY <2>1
  <2> QED
    BY <2>1, <2>2, <2>3
<1>8. CASE Drain
  BY <1>8 DEF Drain, Fail
<1>9. CASE Join
  BY <1>9 DEF Join
<1>10. CASE WatchTest
  BY <1>10 DEF WatchTest
<1>11. CASE WatchAnnounce
  BY <1>11 DEF WatchAnnounce
<1>12. CASE WatchSpin
  BY <1>12 DEF WatchSpin
<1>13. CASE WatchVpu
  BY <1>13 DEF WatchVpu, MeasureFails
<1>14. CASE WatchSpu
  <2>1. /\ mainPc \in {"collect", "fatal"} /\ watcherPc = "spu" /\ phase' = phase
        /\ UNCHANGED <<watched, snapshot, mainPc, job, tile, vpuJob, vpuDone, spu>>
    BY <1>14 DEF WatchSpu, TypeOK, MainPc
  <2>2. ASSUME mainPc = "collect", Mismatch(snapshot, watched) PROVE OutWraps
    <3>1. /\ snapshot = tile /\ watched = job /\ vpuDone
          /\ spu.count = expected_raw(tile) /\ spu.done = expected_done(tile)
      BY <2>1, <2>2 DEF DeviceRuns
    <3>2. spu.out >= target_out(tile) /\ spu.last # job
      BY <2>2, <3>1 DEF Mismatch, Matches
    <3>3. /\ tile.rows \in Nat /\ tile.rows >= 1 /\ tile.out \in Nat /\ spu.owed \in Nat
          /\ Wrap \in Nat
      BY <2>2, RowsFit, CounterFacts DEF TileHasRows, InJob, TypeOK, Tiles, Counter
    <3>4. ASSUME ~OutWraps PROVE FALSE
      <4>1. tile.out + tile.rows \in Counter
        BY <3>3, <3>4 DEF Counter
      <4>2. target_out(tile) = tile.out + tile.rows
        BY <4>1, CounterFacts DEF target_out
      <4>3. spu.out = tile.out + (tile.rows - spu.owed) /\ (spu.owed < tile.rows => spu.last = job)
        BY <2>2, <3>4 DEF DeviceRuns
      <4> QED
        BY <3>2, <3>3, <4>2, <4>3
    <3> QED
      BY <3>4
  <2>3. \/ watcherPc' = "quiet"
        \/ Mismatch(snapshot, watched) /\ watcherPc' = "unpend" /\ ok' = FALSE /\ fault' = fault
        \/ watcherPc' = "unpend" /\ ok' = FALSE /\ fault' = TRUE
    BY <1>14 DEF WatchSpu, MeasureFails
  <2>4. mainPc = "fatal" => fault' = TRUE \/ fault' = fault
    BY <1>14 DEF WatchSpu, MeasureFails
  <2> QED
    BY <2>1, <2>2, <2>3, <2>4
<1>15. CASE WatchQuiet
  BY <1>15 DEF WatchQuiet, MeasureFails
<1>16. CASE WatchUnpend
  BY <1>16 DEF WatchUnpend
<1>17. CASE WatchCapture
  BY <1>17 DEF WatchCapture
<1>18. CASE Map
  BY <1>18 DEF Map, ResetSpu
<1>19. CASE Submit
  BY <1>19 DEF Submit, Fail
<1>20. CASE ArmTimeout
  BY <1>20 DEF ArmTimeout, Fail
<1>21. CASE PrepareFails
  BY <1>21 DEF PrepareFails, Fail
<1>22. CASE Shutdown
  BY <1>22 DEF Shutdown, WakeWatcher
<1>23. CASE CleanupUnused
  BY <1>23 DEF CleanupUnused
<1>24. CASE WatchSpuriousWakeup
  BY <1>24 DEF WatchSpuriousWakeup
<1>25. CASE VpuFinishes
  BY <1>25 DEF VpuFinishes
<1>26. CASE SpuWrites
  BY <1>26 DEF SpuWrites
<1>27. CASE SpuQuiesces
  BY <1>27 DEF SpuQuiesces
<1>28. CASE UNCHANGED vars
  BY <1>28 DEF vars
<1> QED
    BY NextCases, <1>1, <1>2, <1>3, <1>4, <1>5, <1>6, <1>7, <1>8, <1>9, <1>10, <1>11, <1>12,
     <1>13, <1>14, <1>15, <1>16, <1>17, <1>18, <1>19, <1>20, <1>21, <1>22, <1>23, <1>24,
     <1>25, <1>26, <1>27, <1>28

(***************************************************************************)
(* The theorems                                                            *)
(***************************************************************************)

\* Before the first mapping nothing runs.
LEMMA InitHolds == Init => Inv
<1> SUFFICES ASSUME Init PROVE Inv
  OBVIOUS
<1>1. Wrap \in Nat \ {0} /\ MaxJobs \in Nat /\ MaxInits \in Nat
  BY WatchAssumption
<1>2. 0 \in Counter
  BY <1>1 DEF Counter
<1>3. TypeOK
  <2>1. NoTile \in Tiles
    BY <1>2 DEF NoTile, Tiles
  <2>2. 0 \in 0..MaxJobs /\ 0 \in 0..MaxInits
    BY <1>1
  <2>3. ResetSpu(0) \in [count : Counter, done : Counter, out : Counter, last : 0..MaxJobs,
                         owed : Counter, quiet : BOOLEAN]
    BY <1>2, <2>2 DEF ResetSpu
  <2>4. {stop, created, pending, ok, vpuDone, fault, mapped} \subseteq BOOLEAN
    BY DEF Init
  <2> QED
    BY <2>1, <2>2, <2>3, <2>4 DEF Init, TypeOK, WatcherPc, MainPc
<1>4. DeviceRests /\ WatcherGoneBeforeUnmap
  BY DEF Init, DeviceRests, ResetSpu, WatcherGoneBeforeUnmap
<1> QED
  BY <1>3, <1>4 DEF Init, Inv, Handshake, SnapshotIsTile, TileHasRows, InJob, DeviceWaits,
                    DeviceRuns, Measurement, MeasuredJobIsFinal, NoFalseAlarm

\* Main, the watcher and the device fit together in every reachable state.
THEOREM Inductive == Spec => []Inv
<1>1. Inv /\ [Next]_vars => Inv'
  BY TypeStep, HandshakeStep, SnapshotStep, DeviceStep, MeasurementStep DEF Inv
<1> QED
  BY InitHolds, <1>1, PTL DEF Spec

\* The globals of the watcher and the device registers keep their types; both
\* threads only ever store phases the other one knows.
THEOREM TypeCorrect == Spec => []TypeOK
<1>1. Inv => TypeOK
  BY DEF Inv
<1> QED
  BY Inductive, <1>1, PTL

\* fpga_wait_and_drain_q8_tile_job drains a job only after the watcher has seen
\* that job's own end, for every width of the SPU counters.
THEOREM DrainIsFinal == Spec => []MeasuredJobIsFinal
<1>1. Inv => MeasuredJobIsFinal
  BY DEF Inv
<1> QED
  BY Inductive, <1>1, PTL

\* fpga_cleanup never unmaps the device under a watcher that may still read it.
THEOREM UnmapIsSafe == Spec => []WatcherGoneBeforeUnmap
<1>1. Inv => WatcherGoneBeforeUnmap
  BY DEF Inv
<1> QED
  BY Inductive, <1>1, PTL

\* The checks of fpga_compute_watch_arm and _collect and of
\* wait_spu_stream_outputs are assertions unless OUT wraps during the job.
THEOREM ChecksAreAssertions == Spec => []NoFalseAlarm
<1>1. Inv => NoFalseAlarm
  BY DEF Inv
<1> QED
  BY Inductive, <1>1, PTL

\* fpga_compute_watch_arm never overwrites the snapshot under the watcher, which
\* reads it without the mutex.
THEOREM SnapshotOwned == Spec => SnapshotStable
<1> DEFINE Measuring == watcherPc \in {"spin", "vpu", "spu", "quiet", "unpend", "capture"}
<1>1. Inv /\ [Next]_vars => [Measuring => watchedVars' = watchedVars]_vars
  <2> SUFFICES ASSUME Inv, [Next]_vars, Measuring PROVE watchedVars' = watchedVars \/ UNCHANGED vars
    OBVIOUS
  <2>1. ArmPublish \/ watchedVars' = watchedVars \/ UNCHANGED vars
        BY NextCases DEF ArmCreate, ArmCheck, ArmReady, StartVpu, Launch, Collect, Drain,
           Join, WatchTest, WatchAnnounce, WatchSpin, WatchVpu, WatchSpu, WatchQuiet,
           WatchUnpend, WatchCapture, Map, Submit, ArmTimeout, PrepareFails, Shutdown,
           CleanupUnused, WatchSpuriousWakeup, VpuFinishes, SpuWrites, SpuQuiesces,
           watchedVars
  <2>2. ~ArmPublish
    BY DEF ArmPublish, Inv, Handshake
  <2> QED
    BY <2>1, <2>2
<1> QED
  BY Inductive, <1>1, PTL DEF Spec, SnapshotStable


(***************************************************************************)
(* The ZDMA driver's inductive invariant                                   *)
(***************************************************************************)

\* No descriptor is outstanding: at most the EN bit of a transfer that has
\* already reported DONE is still to fall.
Rest == {"idle", "returned", "gate", "closing", "closed"}

\* The channel was seen disabled and is being prepared.
Preparation == {"clear", "ack", "desc", "start"}

Polling == {"ctrl", "isr"}

RestIsQuiet ==
    pc \in Rest => /\ ~startPosted /\ ~clearPosted
                   /\ work \in {"none", "copied"}
                   /\ en <=> work = "copied"
                   /\ work = "copied" => done
                   /\ pc = "closed" => ~en

PreparationIsQuiet ==
    /\ pc \in Preparation => ~startPosted /\ ~en /\ work = "none"
    /\ pc \in {"desc", "start"} => ~done /\ ~err

\* While the driver polls, DONE belongs to the descriptor it has written: no
\* event is set before the START arrives, and DONE only follows the bytes.
PollingIsOwn ==
    pc \in Polling =>
        /\ startPosted => ~en /\ ~done /\ work = "none"
        /\ ~startPosted => ~clearPosted
        /\ work = "copying" => en /\ ~done
        /\ work = "copied" => dst[chunk] = copy /\ (en \/ ~done)
        /\ work = "none" => ~en
        /\ done => dst[chunk] = copy

\* What the channel will move is the chunk the driver is at.
DescriptorIsCurrent ==
    pc \in Polling \cup {"start"} => desc = [copy |-> copy, chunk |-> chunk]

\* The chunks behind the driver have been moved.
Progress ==
    /\ pc \in Preparation \cup Polling \cup {"gate"} =>
          src = copy /\ \A c \in 1..chunk - 1 : dst[c] = copy
    /\ pc = "returned" => \A c \in ChunkIds : dst[c] = copy

DmaInv == /\ DmaTypeOK /\ RestIsQuiet /\ PreparationIsQuiet /\ PollingIsOwn
       /\ DescriptorIsCurrent /\ Progress

\* The steps of DmaNext, one disjunct per operation of the driver and the channel.
LEMMA DmaNextCases ==
  ASSUME [DmaNext]_dmaVars
  PROVE  \/ Begin \/ Gate \/ ClearIsr \/ AckIsr \/ WriteDescriptor
         \/ StartTransfer \/ PollCtrl \/ PollIsr \/ DrainChannel \/ Close \/ Unmap
         \/ Expire \/ ClearArrives \/ StartArrives \/ MoveBytes \/ RaiseDone
         \/ ClearEn \/ RaiseError \/ UNCHANGED dmaVars
  BY DEF DmaNext, HostStep, ChannelStep

\* The driver starts with the channel closed and every field in its range.
LEMMA InitTyped == DmaInit => DmaTypeOK
<1> SUFFICES ASSUME DmaInit PROVE DmaTypeOK
  OBVIOUS
<1> USE ZdmaAssumption DEF DmaInit, DmaTypeOK, Pc, ChunkIds
<1>1. {hooked, hookFailed, sampledEn, expired} \subseteq BOOLEAN
  OBVIOUS
<1>2. {clearPosted, startPosted, en, done, err} \subseteq BOOLEAN
  OBVIOUS
<1>3. 1 \in ChunkIds /\ 0 \in 0..MaxCopies
  OBVIOUS
<1>4. dst \in [ChunkIds -> 0..MaxCopies] /\ desc \in [copy : 0..MaxCopies, chunk : ChunkIds]
  BY <1>3
<1> QED
  BY <1>1, <1>2, <1>3, <1>4

\* No step leaves the types; in particular the driver stays within the chunks
\* of the copy.
LEMMA DmaTypeStep == DmaTypeOK /\ [DmaNext]_dmaVars => DmaTypeOK'
<1> SUFFICES ASSUME DmaTypeOK, [DmaNext]_dmaVars PROVE DmaTypeOK'
  OBVIOUS
<1> USE ZdmaAssumption DEF DmaTypeOK, ChunkIds, Pc, host, channel, Goto
<1>1. CASE Begin
  <2>1. hooked' \in BOOLEAN
    BY <1>1 DEF Begin
  <2>2. /\ copy' \in 0..MaxCopies /\ src' \in 0..MaxCopies
        /\ chunk' \in 1..Chunks /\ pc' \in Pc
    BY <1>1 DEF Begin
  <2> QED
    BY <1>1, <2>1, <2>2 DEF Begin
<1>2. CASE Gate
  BY <1>2 DEF Gate
<1>3. CASE ClearIsr
  BY <1>3 DEF ClearIsr
<1>4. CASE AckIsr
  BY <1>4 DEF AckIsr
<1>5. CASE WriteDescriptor
  BY <1>5 DEF WriteDescriptor
<1>6. CASE StartTransfer
  BY <1>6 DEF StartTransfer
<1>7. CASE PollCtrl
  BY <1>7 DEF PollCtrl
<1>8. CASE PollIsr
  <2>1. chunk' \in 1..Chunks /\ pc' \in Pc
    BY <1>8 DEF PollIsr, TransferFailed, ChunkComplete
  <2>2. expired' \in BOOLEAN /\ hookFailed' \in BOOLEAN
    BY <1>8 DEF PollIsr, TransferFailed, ChunkComplete
  <2> QED
    BY <1>8, <2>1, <2>2 DEF PollIsr
<1>9. CASE DrainChannel
  BY <1>9 DEF DrainChannel
<1>10. CASE Close
  BY <1>10 DEF Close
<1>11. CASE Unmap
  BY <1>11 DEF Unmap
<1>12. CASE Expire
  BY <1>12 DEF Expire
<1>13. CASE ClearArrives
  BY <1>13 DEF ClearArrives
<1>14. CASE StartArrives
  BY <1>14 DEF StartArrives
<1>15. CASE MoveBytes
  BY <1>15 DEF MoveBytes
<1>16. CASE RaiseDone
  BY <1>16 DEF RaiseDone
<1>17. CASE ClearEn
  BY <1>17 DEF ClearEn
<1>18. CASE RaiseError
  BY <1>18 DEF RaiseError
<1>19. CASE UNCHANGED dmaVars
  BY <1>19 DEF dmaVars
<1> QED
  BY DmaNextCases, <1>1, <1>2, <1>3, <1>4, <1>5, <1>6, <1>7, <1>8, <1>9,
     <1>10, <1>11, <1>12, <1>13, <1>14, <1>15, <1>16, <1>17, <1>18, <1>19

\* The rest of the invariant is preserved by every step of driver and channel.
LEMMA InvStep == DmaInv /\ [DmaNext]_dmaVars => DmaInv'
<1> SUFFICES ASSUME DmaInv, [DmaNext]_dmaVars PROVE DmaInv'
  OBVIOUS
<1>0. DmaTypeOK /\ DmaTypeOK'
  BY DmaTypeStep DEF DmaInv
<1> USE <1>0, ZdmaAssumption
    DEF DmaInv, DmaTypeOK, RestIsQuiet, PreparationIsQuiet, PollingIsOwn,
        DescriptorIsCurrent, Progress, Rest, Preparation, Polling, ChunkIds,
        host, channel, Goto
<1>1. CASE Begin
  BY <1>1 DEF Begin
<1>2. CASE Gate
  BY <1>2 DEF Gate
<1>3. CASE ClearIsr
  BY <1>3 DEF ClearIsr
<1>4. CASE AckIsr
  BY <1>4 DEF AckIsr
<1>5. CASE WriteDescriptor
  BY <1>5 DEF WriteDescriptor
<1>6. CASE StartTransfer
  BY <1>6 DEF StartTransfer
<1>7. CASE PollCtrl
  BY <1>7 DEF PollCtrl
<1>8. CASE PollIsr
  <2> USE <1>8 DEF PollIsr, TransferFailed, ChunkComplete
  <2>1. RestIsQuiet'
    OBVIOUS
  <2>2. PreparationIsQuiet' /\ PollingIsOwn' /\ DescriptorIsCurrent'
    OBVIOUS
  <2>3. Progress'
    <3>1. CASE ~err /\ done /\ ~sampledEn
      <4>1. src = copy /\ \A c \in 1..chunk : dst[c] = copy
        <5>1. src = copy /\ dst[chunk] = copy /\ \A c \in 1..chunk - 1 : dst[c] = copy
          BY <3>1
        <5> QED
          BY <5>1
      <4>2. \/ chunk' = chunk + 1 /\ pc' = "gate"
            \/ chunk = Chunks /\ pc' = "returned"
        BY <3>1
      <4>3. UNCHANGED <<src, copy, dst>>
        OBVIOUS
      <4>4. ASSUME chunk' = chunk + 1
            PROVE  \A c \in 1..chunk' - 1 : dst'[c] = copy'
        <5>1. 1..chunk' - 1 = 1..chunk
          BY <4>4
        <5> QED
          BY <4>1, <4>3, <5>1
      <4>5. ASSUME chunk = Chunks
            PROVE  \A c \in ChunkIds : dst'[c] = copy'
        BY <4>1, <4>3, <4>5
      <4> QED
        BY <4>1, <4>2, <4>3, <4>4, <4>5
    <3>2. CASE ~(~err /\ done /\ ~sampledEn)
      BY <3>2
    <3> QED
      BY <3>1, <3>2
  <2> QED
    BY <2>1, <2>2, <2>3
<1>9. CASE DrainChannel
  BY <1>9 DEF DrainChannel
<1>10. CASE Close
  BY <1>10 DEF Close
<1>11. CASE Unmap
  BY <1>11 DEF Unmap
<1>12. CASE Expire
  BY <1>12 DEF Expire
<1>13. CASE ClearArrives
  BY <1>13 DEF ClearArrives
<1>14. CASE StartArrives
  BY <1>14 DEF StartArrives
<1>15. CASE MoveBytes
  BY <1>15 DEF MoveBytes
<1>16. CASE RaiseDone
  BY <1>16 DEF RaiseDone
<1>17. CASE ClearEn
  BY <1>17 DEF ClearEn
<1>18. CASE RaiseError
  BY <1>18 DEF RaiseError
<1>19. CASE UNCHANGED dmaVars
  BY <1>19 DEF dmaVars
<1> QED
  BY DmaNextCases, <1>1, <1>2, <1>3, <1>4, <1>5, <1>6, <1>7, <1>8, <1>9,
     <1>10, <1>11, <1>12, <1>13, <1>14, <1>15, <1>16, <1>17, <1>18, <1>19

\* The driver's and the channel's variables keep their types for copies of any
\* length: no chunk beyond the last one is ever programmed.
THEOREM DmaTypeCorrect == DmaSpec => []DmaTypeOK
<1>1. DmaInit => DmaTypeOK
  BY InitTyped
<1> QED
  BY <1>1, DmaTypeStep, PTL DEF DmaSpec

\* The invariant that explains the driver: whose transfer DONE and EN speak of
\* at each point of fpga_dma_copy.
THEOREM DmaInductive == DmaSpec => []DmaInv
<1>1. DmaInit => DmaInv
  BY InitTyped DEF DmaInit, DmaInv, RestIsQuiet, PreparationIsQuiet, PollingIsOwn,
     DescriptorIsCurrent, Progress, Rest, Preparation, Polling
<1> QED
  BY <1>1, InvStep, PTL DEF DmaSpec

\* A copy for which fpga_dma_copy reports success has moved each of its chunks,
\* although DONE is sticky and START is posted.
THEOREM SuccessIsReal == DmaSpec => []SuccessMeansMoved
<1>1. DmaInv => SuccessMeansMoved
  BY DEF DmaInv, Progress, SuccessMeansMoved
<1> QED
  BY <1>1, DmaInductive, PTL

\* fpga_cleanup unmaps the channel only after its last transfer, and no START is
\* on its way then.
THEOREM CloseIsSafe == DmaSpec => []ClosedChannelIdle
<1>1. DmaInv => ClosedChannelIdle
  BY DEF DmaInv, RestIsQuiet, Rest, ClosedChannelIdle
<1> QED
  BY <1>1, DmaInductive, PTL

\* No descriptor register changes while CTRL2.EN is set.
THEOREM DescriptorKept == DmaSpec => DescriptorStable
<1>1. DmaInv /\ [DmaNext]_dmaVars => [en => desc' = desc]_dmaVars
  <2> SUFFICES ASSUME DmaInv, [DmaNext]_dmaVars, en PROVE desc' = desc
    OBVIOUS
  <2>1. CASE WriteDescriptor
    BY <2>1 DEF WriteDescriptor, DmaInv, PreparationIsQuiet, Preparation
  <2>2. CASE ~WriteDescriptor
    BY <2>2, DmaNextCases DEF Begin, Gate, ClearIsr, AckIsr, StartTransfer, PollCtrl,
       PollIsr, DrainChannel, Close, Unmap, Expire, ClearArrives, StartArrives,
       MoveBytes, RaiseDone, ClearEn, RaiseError, dmaVars
  <2> QED
    BY <2>1, <2>2
<1> QED
  BY <1>1, DmaInductive, PTL DEF DmaSpec, DescriptorStable
=============================================================================
