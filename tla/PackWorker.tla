----------------------------- MODULE PackWorker -----------------------------
(***************************************************************************)
(* The persistent WEIGHT-pack helper of the FPGA host (fpga_host.cpp) and  *)
(* the one caller that may talk to it at a time: every user of the helper  *)
(* (tile preparation, lookahead, benchmark replay, init and cleanup) holds *)
(* g_mutex.  The caller packs the pairs below HelperBegin of a DDR source  *)
(* slot, the helper the rest, and ZDMA reads the slot afterwards.          *)
(*                                                                         *)
(* Every critical section of g_p2_pack_worker_mutex is one action; a       *)
(* pthread_cond_wait is the pc value "asleep" of the waiting thread, and a *)
(* signal moves it back to the test of its predicate.  Stores to the       *)
(* mapped DDR are volatile but reach the device only when they drain from  *)
(* the thread's store buffer, which mmio_fence (a DSB) waits for.          *)
(***************************************************************************)
EXTENDS Naturals

CONSTANTS
    NumPairs,      \* row pairs of a tile
    HelperBegin,   \* first pair the helper packs (main_pair_end)
    MaxGeneration, \* stands for UINT64_MAX, the last generation
    MaxStarts      \* bound: how often the helper thread is created

ASSUME PackAssumption ==
    /\ NumPairs \in Nat /\ HelperBegin \in 2..NumPairs
    /\ MaxGeneration \in Nat \ {0} /\ MaxStarts \in Nat \ {0}

VARIABLES
    created, stopRequested, taskPending, busy,  \* g_p2_pack_worker_* flags
    nextGeneration,                             \* last generation handed out
    task,                                       \* generation of g_p2_pack_worker_task
    completedGen, completedPairs,       \* completed_generation, completed_words
    helperPc, helperGen, helperNext,    \* helper: its copy of the task, next pair
    callerPc, callerGen, mainNext,      \* the g_mutex holder, likewise
    helperBuffer, callerBuffer,  \* pairs stored that have not reached DDR yet
    ddr,         \* generation of the bytes each pair of the slot holds
    mapped,      \* the DDR aperture is mapped
    starts       \* threads created so far (bound only)

flags     == <<created, stopRequested, taskPending, busy>>
completed == <<completedGen, completedPairs>>
helper    == <<helperPc, helperGen, helperNext>>
caller    == <<callerGen, mainNext>>   \* without callerPc
memory    == <<helperBuffer, callerBuffer, ddr>>
vars      == <<flags, nextGeneration, task, completed, helper, callerPc,
               caller, memory, mapped, starts>>

Pairs       == 1..NumPairs
HelperPairs == HelperBegin..NumPairs
MainPairs   == 1..(HelperBegin - 1)
Generations == 0..MaxGeneration

HelperPc == {"none", "test", "asleep", "packing", "publish", "exited"}
CallerPc == {"down", "idle", "reserved", "signal", "main", "wait", "asleep",
             "fence", "dma", "join", "reset", "stopped", "fatal"}

FlagsOK ==
    /\ created \in BOOLEAN /\ stopRequested \in BOOLEAN
    /\ taskPending \in BOOLEAN /\ busy \in BOOLEAN /\ mapped \in BOOLEAN

DataOK ==
    /\ nextGeneration \in Generations /\ task \in Generations
    /\ completedGen \in Generations /\ completedPairs \in 0..NumPairs
    /\ helperPc \in HelperPc /\ helperGen \in Generations
    /\ helperNext \in HelperBegin..(NumPairs + 1)
    /\ callerPc \in CallerPc /\ callerGen \in Generations
    /\ mainNext \in 1..HelperBegin
    /\ helperBuffer \subseteq HelperPairs /\ callerBuffer \subseteq MainPairs
    /\ ddr \in [Pairs -> Generations]
    /\ starts \in 0..MaxStarts

\* The variables keep the types of the globals of fpga_host.cpp; the
\* generation counter stops at its maximum instead of wrapping to a number
\* that was used before, and neither producer leaves its range of pairs.
TypeOK == FlagsOK /\ DataOK

Init ==
    /\ created = FALSE /\ stopRequested = FALSE
    /\ taskPending = FALSE /\ busy = FALSE
    /\ nextGeneration = 0 /\ task = 0
    /\ completedGen = 0 /\ completedPairs = 0
    /\ helperPc = "none" /\ helperGen = 0 /\ helperNext = HelperBegin
    /\ callerPc = "down" /\ callerGen = 0 /\ mainNext = 1
    /\ helperBuffer = {} /\ callerBuffer = {}
    /\ ddr = [p \in Pairs |-> 0]
    /\ mapped = FALSE
    /\ starts = 0

\* pthread_cond_signal and _broadcast: there is at most one waiter on each.
WakeHelper == helperPc' = IF helperPc = "asleep" THEN "test" ELSE helperPc
WakeCaller == callerPc' = IF callerPc = "asleep" THEN "wait" ELSE callerPc

-----------------------------------------------------------------------------
(* The caller *)

\* fpga_init maps DDR and then starts the helper; pthread_create may fail.
Start ==
    /\ callerPc \in {"down", "stopped"} /\ starts < MaxStarts
    /\ mapped' = TRUE /\ starts' = starts + 1
    /\ IF created \/ taskPending \/ busy
       THEN callerPc' = "fatal" /\ UNCHANGED <<flags, completed, helperPc>>
       ELSE /\ stopRequested' = FALSE
            /\ completedGen' = 0 /\ completedPairs' = 0
            /\ UNCHANGED <<taskPending, busy>>
            /\ \/ created' = TRUE /\ helperPc' = "test" /\ callerPc' = "idle"
               \/ callerPc' = "fatal" /\ UNCHANGED <<created, helperPc>>
    /\ UNCHANGED <<nextGeneration, task, helperGen, helperNext, caller, memory>>

\* Mutant of Reserve: the generation counter is not checked for exhaustion.
ReserveUnbounded ==
    /\ callerPc = "idle"
    /\ IF created /\ ~stopRequested /\ ~taskPending /\ ~busy
       THEN /\ nextGeneration' = nextGeneration + 1
            /\ callerGen' = nextGeneration + 1 /\ mainNext' = 1
            /\ callerPc' = "reserved"
       ELSE callerPc' = "fatal" /\ UNCHANGED <<nextGeneration, caller>>
    /\ UNCHANGED <<flags, task, completed, helper, memory, mapped, starts>>

\* fpga_p2_pack_worker_next_generation; both callers give up when refused.
Reserve ==
    /\ callerPc = "idle"
    /\ IF /\ created /\ ~stopRequested /\ ~taskPending /\ ~busy
          /\ nextGeneration # MaxGeneration
       THEN /\ nextGeneration' = nextGeneration + 1
            /\ callerGen' = nextGeneration + 1 /\ mainNext' = 1
            /\ callerPc' = "reserved"
       ELSE callerPc' = "fatal" /\ UNCHANGED <<nextGeneration, caller>>
    /\ UNCHANGED <<flags, task, completed, helper, memory, mapped, starts>>

\* fpga_p2_pack_worker_submit up to its unlock.
Submit ==
    /\ callerPc = "reserved"
    /\ IF ~created \/ stopRequested \/ taskPending \/ busy \/ callerGen = 0
       THEN callerPc' = "fatal" /\ UNCHANGED <<task, taskPending>>
       ELSE callerPc' = "signal" /\ task' = callerGen /\ taskPending' = TRUE
    /\ UNCHANGED <<created, stopRequested, busy, nextGeneration, completed,
                   helper, caller, memory, mapped, starts>>

\* The notification of submit, deliberately outside the mutex.
Signal ==
    /\ callerPc = "signal" /\ callerPc' = "main" /\ WakeHelper
    /\ UNCHANGED <<flags, nextGeneration, task, completed, helperGen,
                   helperNext, caller, memory, mapped, starts>>

\* What the steps of the caller that only touch its own pc leave alone.
OnlyCallerPc == UNCHANGED <<flags, nextGeneration, task, completed, helper,
                            caller, memory, mapped, starts>>

\* The caller stores its prefix, one pair after the other ...
MainPack ==
    /\ callerPc = "main" /\ mainNext < HelperBegin
    /\ callerBuffer' = callerBuffer \cup {mainNext} /\ mainNext' = mainNext + 1
    /\ UNCHANGED <<flags, nextGeneration, task, completed, helper, callerPc,
                   callerGen, helperBuffer, ddr, mapped, starts>>

\* Mutant of MainDone: an abandoned lookahead is dropped without joining the
\* helper, as without the scope guard.
MainDoneNoJoin ==
    /\ callerPc = "main"
    /\ callerPc' = IF mainNext = HelperBegin THEN "wait" ELSE "idle"
    /\ OnlyCallerPc

\* ... then, or early when a pair cannot be packed or the lookahead is
\* abandoned, goes to wait for the helper: the slot is never left to it.
MainDone == callerPc = "main" /\ callerPc' = "wait" /\ OnlyCallerPc

WaitAgain == created /\ completedGen < callerGen

\* Mutant of WaitSuccess: the generation alone counts as success.
WaitSuccessAnyResult == created /\ completedGen = callerGen

\* completed_success and the word count the callers compare with theirs.
CompletedInFull == completedPairs = NumPairs - HelperBegin + 1

WaitSuccess == created /\ completedGen = callerGen /\ CompletedInFull

\* fpga_p2_pack_worker_wait and the checks both callers make on its result:
\* anything but two complete halves is fatal, before any DMA.
Wait ==
    /\ callerPc = "wait"
    /\ callerPc' = IF WaitAgain THEN "asleep"
                   ELSE IF WaitSuccess /\ mainNext = HelperBegin THEN "fence"
                   ELSE "fatal"
    /\ OnlyCallerPc

CallerSpuriousWakeup == callerPc = "asleep" /\ callerPc' = "wait" /\ OnlyCallerPc

\* The caller's own DSB before it starts DMA out of the slot ...
Fence == callerPc = "fence" /\ callerBuffer = {} /\ callerPc' = "dma" /\ OnlyCallerPc

\* ... and the end of the WEIGHT and SCALE transfers.
DmaDone == callerPc = "dma" /\ callerPc' = "idle" /\ OnlyCallerPc

\* fpga_p2_pack_worker_stop up to pthread_join.
Stop ==
    /\ callerPc = "idle"
    /\ IF ~created
       THEN callerPc' = "stopped" /\ UNCHANGED <<stopRequested, helperPc>>
       ELSE IF taskPending \/ busy
       THEN callerPc' = "fatal" /\ UNCHANGED <<stopRequested, helperPc>>
       ELSE stopRequested' = TRUE /\ WakeHelper /\ callerPc' = "join"
    /\ UNCHANGED <<created, taskPending, busy, nextGeneration, task, completed,
                   helperGen, helperNext, caller, memory, mapped, starts>>

Join ==
    /\ callerPc = "join" /\ helperPc = "exited"
    /\ callerPc' = "reset" /\ helperPc' = "none"
    /\ UNCHANGED <<flags, nextGeneration, task, completed, helperGen,
                   helperNext, caller, memory, mapped, starts>>

\* The last critical section of stop.
Reset ==
    /\ callerPc = "reset" /\ callerPc' = "stopped"
    /\ created' = FALSE /\ stopRequested' = FALSE
    /\ taskPending' = FALSE /\ busy' = FALSE
    /\ UNCHANGED <<nextGeneration, task, completed, helper, caller, memory,
                   mapped, starts>>

\* fpga_cleanup unmaps DDR once stop has returned true.
Unmap ==
    /\ callerPc = "stopped" /\ mapped /\ mapped' = FALSE
    /\ UNCHANGED <<flags, nextGeneration, task, completed, helper, callerPc,
                   caller, memory, starts>>

-----------------------------------------------------------------------------
(* The helper thread, fpga_p2_pack_worker_main *)

\* The first critical section: exit, sleep, or take the task.
HelperTest ==
    /\ helperPc = "test"
    /\ IF stopRequested \/ ~taskPending
       THEN /\ helperPc' = IF stopRequested THEN "exited" ELSE "asleep"
            /\ UNCHANGED <<taskPending, busy, helperGen, helperNext>>
       ELSE /\ helperPc' = "packing" /\ helperGen' = task
            /\ helperNext' = HelperBegin
            /\ taskPending' = FALSE /\ busy' = TRUE
    /\ UNCHANGED <<created, stopRequested, nextGeneration, task, completed,
                   callerPc, caller, memory, mapped, starts>>

\* What the steps of the helper that only touch its own pc leave alone.
OnlyHelperPc == UNCHANGED <<flags, nextGeneration, task, completed, helperGen,
                            helperNext, callerPc, caller, memory, mapped, starts>>

HelperSpuriousWakeup == helperPc = "asleep" /\ helperPc' = "test" /\ OnlyHelperPc

HelperPack ==
    /\ helperPc = "packing" /\ helperNext <= NumPairs
    /\ helperBuffer' = helperBuffer \cup {helperNext}
    /\ helperNext' = helperNext + 1
    /\ UNCHANGED <<flags, nextGeneration, task, completed, helperPc, helperGen,
                   callerPc, caller, callerBuffer, ddr, mapped, starts>>

\* Mutant of HelperFence: completion is published without mmio_fence.
HelperNoFence == helperPc = "packing" /\ helperPc' = "publish" /\ OnlyHelperPc

\* The range is complete, or cannot be packed any further; then mmio_fence.
HelperFence ==
    /\ helperPc = "packing" /\ helperBuffer = {}
    /\ helperPc' = "publish" /\ OnlyHelperPc

\* Mutant of HelperPublish: busy is left for a later critical section.
HelperPublishStillBusy ==
    /\ helperPc = "publish" /\ helperPc' = "test"
    /\ completedGen' = helperGen /\ completedPairs' = helperNext - HelperBegin
    /\ WakeCaller
    /\ UNCHANGED <<flags, nextGeneration, task, helperGen, helperNext, caller,
                   memory, mapped, starts>>

\* Mutant of HelperPublish: done_cv is not broadcast.
HelperPublishNoBroadcast ==
    /\ helperPc = "publish" /\ helperPc' = "test" /\ busy' = FALSE
    /\ completedGen' = helperGen /\ completedPairs' = helperNext - HelperBegin
    /\ UNCHANGED <<created, stopRequested, taskPending, nextGeneration, task,
                   helperGen, helperNext, callerPc, caller, memory, mapped, starts>>

\* The second critical section publishes the result and broadcasts done_cv.
HelperPublish ==
    /\ helperPc = "publish" /\ helperPc' = "test" /\ busy' = FALSE
    /\ completedGen' = helperGen /\ completedPairs' = helperNext - HelperBegin
    /\ WakeCaller
    /\ UNCHANGED <<created, stopRequested, taskPending, nextGeneration, task,
                   helperGen, helperNext, caller, memory, mapped, starts>>

-----------------------------------------------------------------------------
(* A buffered store reaches DDR. *)

DrainHelper(p) ==
    /\ p \in helperBuffer /\ helperBuffer' = helperBuffer \ {p}
    /\ ddr' = [ddr EXCEPT ![p] = helperGen]
    /\ UNCHANGED <<flags, nextGeneration, task, completed, helper, callerPc,
                   caller, callerBuffer, mapped, starts>>

DrainCaller(p) ==
    /\ p \in callerBuffer /\ callerBuffer' = callerBuffer \ {p}
    /\ ddr' = [ddr EXCEPT ![p] = callerGen]
    /\ UNCHANGED <<flags, nextGeneration, task, completed, helper, callerPc,
                   caller, helperBuffer, mapped, starts>>

CallerStep == \/ Reserve \/ Submit \/ Signal \/ MainPack \/ MainDone
              \/ Wait \/ Fence \/ DmaDone \/ Join \/ Reset
HelperStep == HelperTest \/ HelperPack \/ HelperFence \/ HelperPublish
DrainStep  == \E p \in Pairs : DrainHelper(p) \/ DrainCaller(p)
Spurious   == CallerSpuriousWakeup \/ HelperSpuriousWakeup

\* The process has aborted, or is shut down for good.
Ended == callerPc = "fatal" \/ (callerPc = "stopped" /\ ~mapped /\ starts = MaxStarts)

Next == \/ /\ callerPc # "fatal"
           /\ \/ Start \/ CallerStep \/ Stop \/ Unmap
              \/ HelperStep \/ DrainStep \/ Spurious
        \/ Ended /\ UNCHANGED vars

\* Threads that can run are eventually scheduled and stores eventually drain;
\* nobody has to start, stop, reserve or wake up spuriously.
Fairness ==
    /\ WF_vars(callerPc \notin {"fatal", "idle"} /\ CallerStep)
    /\ WF_vars(callerPc # "fatal" /\ HelperStep)
    /\ WF_vars(callerPc # "fatal" /\ DrainStep)

Spec == Init /\ [][Next]_vars /\ Fairness

-----------------------------------------------------------------------------
(* Properties *)

Outstanding == {"signal", "main", "wait", "asleep"}

\* ZDMA is started on a slot only when every pair of it, the caller's prefix
\* and the helper's suffix, holds this tile's bytes and no store of either
\* thread is still on its way: a stale completion, a missing fence or a short
\* range would let the accelerator read the previous tile.
DmaReadsWholeTile ==
    callerPc = "dma" =>
        /\ \A p \in Pairs : ddr[p] = callerGen
        /\ helperBuffer = {} /\ callerBuffer = {}

\* The helper stores only into the slot of the task its caller is committed to
\* wait for, while DDR is mapped: it never scribbles over a slot that was
\* abandoned, handed to DMA or reused, nor through an unmapped pointer.
HelperWritesOnlyOutstandingTask ==
    (helperPc \in {"packing", "publish"} \/ helperBuffer # {}) =>
        /\ mapped /\ created
        /\ callerPc \in Outstanding
        /\ helperGen = callerGen

\* The callers treat a refused reservation, submission or stop as fatal: in a
\* healthy run the helper is always free when the caller turns to it.
HelperFreeWhenCallerIs ==
    callerPc \in {"idle", "reserved"} =>
        created /\ ~stopRequested /\ ~taskPending /\ ~busy

\* Nobody waits forever: the notification given after the unlock of submit and
\* the broadcasts under the mutex lose no wake-up.  A task that was handed over
\* is waited for and comes back, and cleanup's join returns, so that the
\* mappings can be released.
WaitsEnd ==
    /\ callerPc \in Outstanding ~> callerPc \in {"fence", "fatal"}
    /\ callerPc = "join" ~> callerPc = "stopped"

\* The contract's view of the protocol: what a reader that only knows tiles
\* and one source slot would see.
contractPhase ==
    IF callerPc = "fatal" THEN "dead"
    ELSE IF callerPc = "dma" THEN "using"
    ELSE IF callerPc \notin Outstanding \cup {"fence"} THEN "free"
    ELSE IF completedGen # callerGen THEN "offered"
    ELSE IF CompletedInFull THEN "packed" ELSE "spoiled"
contractTile == IF callerPc \in Outstanding \cup {"fence", "dma"}
                THEN callerGen ELSE 0
contractLast == IF callerPc = "reserved" THEN nextGeneration - 1
                                         ELSE nextGeneration

Contract == INSTANCE PackContract WITH
    phase <- contractPhase, tile <- contractTile, last <- contractLast

\* The helper protocol implements the contract a tile's producer relies on:
\* one tile at a time under a fresh number, packed at most once, handed to DMA
\* only when packed in full.
ImplementsContract == Contract!Spec

=============================================================================
