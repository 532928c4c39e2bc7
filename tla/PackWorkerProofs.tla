-------------------------- MODULE PackWorkerProofs --------------------------
(***************************************************************************)
(* Proofs about the packing of a WEIGHT tile: the two-thread protocol of   *)
(* PackWorker for any number of pairs, any split, and any number of        *)
(* generations and restarts; then the addresses of Q8Layout for tiles of   *)
(* every shape.                                                            *)
(***************************************************************************)
EXTENDS PackWorker, Q8Layout, TLAPS

\* The steps of Next, one disjunct per operation.
LEMMA NextCases ==
  ASSUME [Next]_vars
  PROVE  \/ Start \/ Reserve \/ Submit \/ Signal \/ MainPack
         \/ MainDone \/ Wait \/ Fence \/ DmaDone \/ Stop
         \/ Join \/ Reset \/ Unmap \/ HelperTest \/ HelperPack
         \/ HelperFence \/ HelperPublish
         \/ DrainStep \/ Spurious \/ UNCHANGED vars
  BY DEF Next, CallerStep, HelperStep

\* No step makes a flag anything but TRUE or FALSE.
LEMMA FlagsStep == FlagsOK /\ [Next]_vars => FlagsOK'
<1> SUFFICES ASSUME FlagsOK, [Next]_vars PROVE FlagsOK'
  OBVIOUS
<1> USE DEF FlagsOK, flags
<1>1. CASE Start
  BY <1>1, Zenon DEF Start
<1>2. CASE Reserve
  BY <1>2, Zenon DEF Reserve
<1>3. CASE Submit
  BY <1>3, Zenon DEF Submit
<1>4. CASE Signal
  BY <1>4, Zenon DEF Signal, WakeHelper
<1>5. CASE MainPack
  BY <1>5, Zenon DEF MainPack
<1>6. CASE MainDone
  BY <1>6, Zenon DEF MainDone, OnlyCallerPc
<1>7. CASE Wait
  BY <1>7, Zenon DEF Wait, OnlyCallerPc
<1>8. CASE Fence
  BY <1>8, Zenon DEF Fence, OnlyCallerPc
<1>9. CASE DmaDone
  BY <1>9, Zenon DEF DmaDone, OnlyCallerPc
<1>10. CASE Stop
  BY <1>10, Zenon DEF Stop, WakeHelper
<1>11. CASE Join
  BY <1>11, Zenon DEF Join
<1>12. CASE Reset
  BY <1>12, Zenon DEF Reset
<1>13. CASE Unmap
  BY <1>13, Zenon DEF Unmap
<1>14. CASE HelperTest
  BY <1>14, Zenon DEF HelperTest
<1>15. CASE HelperPack
  BY <1>15, Zenon DEF HelperPack
<1>16. CASE HelperFence
  BY <1>16, Zenon DEF HelperFence, OnlyHelperPc
<1>17. CASE HelperPublish
  BY <1>17, Zenon DEF HelperPublish, WakeCaller
<1>18. CASE DrainStep
  BY <1>18, Zenon DEF DrainStep, DrainHelper, DrainCaller
<1>19. CASE Spurious
  BY <1>19, Zenon DEF Spurious, CallerSpuriousWakeup, HelperSpuriousWakeup,
      OnlyCallerPc, OnlyHelperPc
<1>20. CASE UNCHANGED vars
  BY <1>20, Zenon DEF vars
<1> QED
  BY NextCases, <1>1, <1>2, <1>3, <1>4, <1>5, <1>6, <1>7, <1>8, <1>9,
     <1>10, <1>11, <1>12, <1>13, <1>14, <1>15, <1>16, <1>17, <1>18, <1>19,
     <1>20

\* No step leaves the range of a counter, a program counter or a buffer.
LEMMA DataStep == DataOK /\ [Next]_vars => DataOK'
<1> SUFFICES ASSUME DataOK, [Next]_vars PROVE DataOK'
  OBVIOUS
<1> USE PackAssumption DEF DataOK, HelperPc, CallerPc, Generations, Pairs,
        MainPairs, HelperPairs, completed, helper, caller, memory
<1>1. CASE Start
  BY <1>1 DEF Start
<1>2. CASE Reserve
  BY <1>2 DEF Reserve
<1>3. CASE Submit
  BY <1>3 DEF Submit
<1>4. CASE Signal
  BY <1>4 DEF Signal, WakeHelper
<1>5. CASE MainPack
  BY <1>5 DEF MainPack
<1>6. CASE MainDone
  BY <1>6 DEF MainDone, OnlyCallerPc
<1>7. CASE Wait
  BY <1>7 DEF Wait, OnlyCallerPc
<1>8. CASE Fence
  BY <1>8 DEF Fence, OnlyCallerPc
<1>9. CASE DmaDone
  BY <1>9 DEF DmaDone, OnlyCallerPc
<1>10. CASE Stop
  BY <1>10 DEF Stop, WakeHelper
<1>11. CASE Join
  BY <1>11 DEF Join
<1>12. CASE Reset
  BY <1>12 DEF Reset
<1>13. CASE Unmap
  BY <1>13 DEF Unmap
<1>14. CASE HelperTest
  BY <1>14 DEF HelperTest
<1>15. CASE HelperPack
  BY <1>15 DEF HelperPack
<1>16. CASE HelperFence
  BY <1>16 DEF HelperFence, OnlyHelperPc
<1>17. CASE HelperPublish
  BY <1>17 DEF HelperPublish, WakeCaller
<1>18. CASE DrainStep
  <2>1. PICK p \in Pairs : DrainHelper(p) \/ DrainCaller(p)
    BY <1>18 DEF DrainStep
  <2>2. ddr' \in [Pairs -> Generations]
    BY <2>1 DEF DrainHelper, DrainCaller
  <2> QED
    BY <2>1, <2>2 DEF DrainHelper, DrainCaller
<1>19. CASE Spurious
  BY <1>19 DEF Spurious, CallerSpuriousWakeup, HelperSpuriousWakeup,
      OnlyCallerPc, OnlyHelperPc
<1>20. CASE UNCHANGED vars
  BY <1>20 DEF vars
<1> QED
  BY NextCases, <1>1, <1>2, <1>3, <1>4, <1>5, <1>6, <1>7, <1>8, <1>9,
     <1>10, <1>11, <1>12, <1>13, <1>14, <1>15, <1>16, <1>17, <1>18, <1>19,
     <1>20

\* Type correctness: the generation counter never wraps and neither producer
\* leaves its range of pairs, for every tile size, split and lifetime.
THEOREM TypeCorrect == Spec => []TypeOK
<1>1. Init => FlagsOK
  BY Zenon DEF Init, FlagsOK
<1>2. Init => DataOK
  BY PackAssumption DEF Init, DataOK, HelperPc, CallerPc, Generations, Pairs,
     MainPairs, HelperPairs
<1>3. TypeOK /\ [Next]_vars => TypeOK'
  BY FlagsStep, DataStep DEF TypeOK
<1>4. Init => TypeOK
  BY <1>1, <1>2 DEF TypeOK
<1> QED
  BY <1>3, <1>4, PTL DEF Spec

Active == {"idle", "reserved"} \cup Outstanding \cup {"fence", "dma"}

\* The helper thread exists exactly while it may be spoken to, and has work
\* only while its caller is committed to wait.
Lifecycle ==
    /\ callerPc \in {"down", "stopped"} => ~created /\ helperPc = "none"
    /\ callerPc \in Active => /\ created /\ ~stopRequested /\ mapped
                              /\ helperPc \in {"test", "asleep", "packing", "publish"}
    /\ callerPc = "join" => /\ created /\ stopRequested /\ mapped
                            /\ helperPc \in {"test", "exited"}
    /\ callerPc = "reset" => helperPc = "none"
    /\ busy <=> helperPc \in {"packing", "publish"}
    /\ callerPc \notin Outstanding => ~taskPending /\ ~busy

\* The caller's task is pending, being packed, or completed: one of the three.
Accounting ==
    /\ completedGen <= nextGeneration
    /\ callerPc = "reserved" => completedGen < callerGen
    /\ callerPc \in Active \ {"idle"} => callerGen = nextGeneration /\ callerGen > 0
    /\ callerPc \in Outstanding =>
          \/ taskPending /\ ~busy /\ task = callerGen /\ completedGen < callerGen
          \/ ~taskPending /\ busy /\ helperGen = callerGen /\ completedGen < callerGen
          \/ ~taskPending /\ ~busy /\ completedGen = callerGen
    /\ callerPc \in {"fence", "dma"} => completedGen = callerGen

\* Stores wait in a buffer only inside the range their producer has reached,
\* and only between its first store and its fence.
Buffers ==
    /\ helperPc # "packing" => helperBuffer = {}
    /\ callerPc \in {"idle", "reserved", "signal", "dma"} => callerBuffer = {}
    /\ callerPc \in {"down", "join", "reset", "stopped"} => callerBuffer = {}

\* Every pair the caller has passed holds its generation or is on its way.
MainContents ==
    /\ callerPc \in {"reserved", "signal"} => mainNext = 1
    /\ callerPc \in {"main", "wait", "asleep", "fence", "dma"} =>
          \A p \in MainPairs : p < mainNext => p \in callerBuffer \/ ddr[p] = callerGen
    /\ callerPc \in {"fence", "dma"} => mainNext = HelperBegin /\ CompletedInFull

\* Likewise for the helper ...
HelperContents ==
    helperPc \in {"packing", "publish"} =>
        \A p \in HelperPairs : p < helperNext => p \in helperBuffer \/ ddr[p] = helperGen

\* ... and what it has published is in DDR.
PublishedContents ==
    callerPc \in Outstanding \cup {"fence", "dma"} /\ completedGen = callerGen =>
        \A p \in HelperPairs : p < HelperBegin + completedPairs => ddr[p] = callerGen

Inv == TypeOK /\ Lifecycle /\ Accounting /\ Buffers
       /\ MainContents /\ HelperContents /\ PublishedContents

\* No step breaks Lifecycle; that a failed wait leaves no work behind needs the
\* accounting.
LEMMA LifecycleStep == Inv /\ [Next]_vars => Lifecycle'
<1> SUFFICES ASSUME Lifecycle, Accounting, FlagsOK, DataOK, [Next]_vars PROVE Lifecycle'
  BY DEF Inv, TypeOK
<1> USE DEF Lifecycle, Active, Outstanding, flags, completed, helper, caller, memory
<1>1. CASE Start
  BY <1>1 DEF Start
<1>2. CASE Reserve
  BY <1>2 DEF Reserve
<1>3. CASE Submit
  BY <1>3 DEF Submit
<1>4. CASE Signal
  BY <1>4 DEF Signal, WakeHelper
<1>5. CASE MainPack
  BY <1>5 DEF MainPack
<1>6. CASE MainDone
  BY <1>6 DEF MainDone, OnlyCallerPc
<1>7. CASE Wait
  BY <1>7 DEF Wait, OnlyCallerPc, WaitAgain, Accounting, DataOK, Generations
<1>8. CASE Fence
  BY <1>8 DEF Fence, OnlyCallerPc
<1>9. CASE DmaDone
  BY <1>9 DEF DmaDone, OnlyCallerPc
<1>10. CASE Stop
  BY <1>10 DEF Stop, WakeHelper
<1>11. CASE Join
  BY <1>11 DEF Join
<1>12. CASE Reset
  BY <1>12 DEF Reset
<1>13. CASE Unmap
  BY <1>13 DEF Unmap
<1>14. CASE HelperTest
  BY <1>14 DEF HelperTest
<1>15. CASE HelperPack
  BY <1>15 DEF HelperPack
<1>16. CASE HelperFence
  BY <1>16 DEF HelperFence, OnlyHelperPc
<1>17. CASE HelperPublish
  BY <1>17 DEF HelperPublish, WakeCaller
<1>18. CASE DrainStep
  BY <1>18 DEF DrainStep, DrainHelper, DrainCaller
<1>19. CASE Spurious
  BY <1>19 DEF Spurious, CallerSpuriousWakeup, HelperSpuriousWakeup,
      OnlyCallerPc, OnlyHelperPc
<1>20. CASE UNCHANGED vars
  BY <1>20 DEF vars
<1> QED
  BY NextCases, <1>1, <1>2, <1>3, <1>4, <1>5, <1>6, <1>7, <1>8, <1>9,
     <1>10, <1>11, <1>12, <1>13, <1>14, <1>15, <1>16, <1>17, <1>18, <1>19,
     <1>20

\* No step breaks the accounting of the one outstanding task.
LEMMA AccountingStep == Inv /\ [Next]_vars => Accounting'
<1> SUFFICES ASSUME Lifecycle, Accounting, FlagsOK, DataOK, [Next]_vars PROVE Accounting'
  BY DEF Inv, TypeOK
<1> USE DEF Lifecycle, Accounting, Active, Outstanding, flags, completed, helper, caller, memory, DataOK, Generations
<1>1. CASE Start
  BY <1>1 DEF Start
<1>2. CASE Reserve
  BY <1>2 DEF Reserve
<1>3. CASE Submit
  BY <1>3 DEF Submit
<1>4. CASE Signal
  BY <1>4 DEF Signal, WakeHelper
<1>5. CASE MainPack
  BY <1>5 DEF MainPack
<1>6. CASE MainDone
  BY <1>6 DEF MainDone, OnlyCallerPc
<1>7. CASE Wait
  BY <1>7 DEF Wait, OnlyCallerPc, WaitAgain
<1>8. CASE Fence
  BY <1>8 DEF Fence, OnlyCallerPc
<1>9. CASE DmaDone
  BY <1>9 DEF DmaDone, OnlyCallerPc
<1>10. CASE Stop
  BY <1>10 DEF Stop, WakeHelper
<1>11. CASE Join
  BY <1>11 DEF Join
<1>12. CASE Reset
  BY <1>12 DEF Reset
<1>13. CASE Unmap
  BY <1>13 DEF Unmap
<1>14. CASE HelperTest
  BY <1>14 DEF HelperTest
<1>15. CASE HelperPack
  BY <1>15 DEF HelperPack
<1>16. CASE HelperFence
  BY <1>16 DEF HelperFence, OnlyHelperPc
<1>17. CASE HelperPublish
  BY <1>17 DEF HelperPublish, WakeCaller
<1>18. CASE DrainStep
  BY <1>18 DEF DrainStep, DrainHelper, DrainCaller
<1>19. CASE Spurious
  BY <1>19 DEF Spurious, CallerSpuriousWakeup, HelperSpuriousWakeup,
      OnlyCallerPc, OnlyHelperPc
<1>20. CASE UNCHANGED vars
  BY <1>20 DEF vars
<1> QED
  BY NextCases, <1>1, <1>2, <1>3, <1>4, <1>5, <1>6, <1>7, <1>8, <1>9,
     <1>10, <1>11, <1>12, <1>13, <1>14, <1>15, <1>16, <1>17, <1>18, <1>19,
     <1>20

\* No step leaves a store behind a fence.
LEMMA BuffersStep == Inv /\ [Next]_vars => Buffers'
<1> SUFFICES ASSUME Lifecycle, Buffers, DataOK, [Next]_vars PROVE Buffers'
  BY DEF Inv, TypeOK
<1> USE DEF Lifecycle, Buffers, Active, Outstanding, flags, completed, helper, caller, memory
<1>1. CASE Start
  BY <1>1 DEF Start
<1>2. CASE Reserve
  BY <1>2 DEF Reserve
<1>3. CASE Submit
  BY <1>3 DEF Submit
<1>4. CASE Signal
  BY <1>4 DEF Signal, WakeHelper
<1>5. CASE MainPack
  BY <1>5 DEF MainPack
<1>6. CASE MainDone
  BY <1>6 DEF MainDone, OnlyCallerPc
<1>7. CASE Wait
  BY <1>7 DEF Wait, OnlyCallerPc, WaitAgain
<1>8. CASE Fence
  BY <1>8 DEF Fence, OnlyCallerPc
<1>9. CASE DmaDone
  BY <1>9 DEF DmaDone, OnlyCallerPc
<1>10. CASE Stop
  BY <1>10 DEF Stop, WakeHelper
<1>11. CASE Join
  BY <1>11 DEF Join
<1>12. CASE Reset
  BY <1>12 DEF Reset
<1>13. CASE Unmap
  BY <1>13 DEF Unmap
<1>14. CASE HelperTest
  BY <1>14 DEF HelperTest
<1>15. CASE HelperPack
  BY <1>15 DEF HelperPack
<1>16. CASE HelperFence
  BY <1>16 DEF HelperFence, OnlyHelperPc
<1>17. CASE HelperPublish
  BY <1>17 DEF HelperPublish, WakeCaller
<1>18. CASE DrainStep
  BY <1>18 DEF DrainStep, DrainHelper, DrainCaller
<1>19. CASE Spurious
  BY <1>19 DEF Spurious, CallerSpuriousWakeup, HelperSpuriousWakeup,
      OnlyCallerPc, OnlyHelperPc
<1>20. CASE UNCHANGED vars
  BY <1>20 DEF vars
<1> QED
  BY NextCases, <1>1, <1>2, <1>3, <1>4, <1>5, <1>6, <1>7, <1>8, <1>9,
     <1>10, <1>11, <1>12, <1>13, <1>14, <1>15, <1>16, <1>17, <1>18, <1>19,
     <1>20

\* No step overwrites a pair of the prefix with another tile.
LEMMA MainContentsStep == Inv /\ [Next]_vars => MainContents'
<1> SUFFICES ASSUME Lifecycle, Buffers, MainContents, DataOK, [Next]_vars PROVE MainContents'
  BY DEF Inv, TypeOK
<1> USE PackAssumption DEF MainContents, CompletedInFull, flags, completed, helper, caller, memory
<1>1. CASE Start
  BY <1>1 DEF Start
<1>2. CASE Reserve
  BY <1>2 DEF Reserve
<1>3. CASE Submit
  BY <1>3 DEF Submit
<1>4. CASE Signal
  BY <1>4 DEF Signal, WakeHelper, MainPairs, DataOK
<1>5. CASE MainPack
  BY <1>5 DEF MainPack, MainPairs, DataOK
<1>6. CASE MainDone
  BY <1>6 DEF MainDone, OnlyCallerPc
<1>7. CASE Wait
  BY <1>7 DEF Wait, OnlyCallerPc, WaitSuccess
<1>8. CASE Fence
  BY <1>8 DEF Fence, OnlyCallerPc
<1>9. CASE DmaDone
  BY <1>9 DEF DmaDone, OnlyCallerPc
<1>10. CASE Stop
  BY <1>10 DEF Stop, WakeHelper
<1>11. CASE Join
  BY <1>11 DEF Join
<1>12. CASE Reset
  BY <1>12 DEF Reset
<1>13. CASE Unmap
  BY <1>13 DEF Unmap
<1>14. CASE HelperTest
  BY <1>14 DEF HelperTest
<1>15. CASE HelperPack
  BY <1>15 DEF HelperPack
<1>16. CASE HelperFence
  BY <1>16 DEF HelperFence, OnlyHelperPc
<1>17. CASE HelperPublish
  BY <1>17 DEF HelperPublish, WakeCaller, Lifecycle, Outstanding
<1>18. CASE DrainStep
  <2>1. PICK q \in Pairs : DrainHelper(q) \/ DrainCaller(q)
    BY <1>18 DEF DrainStep
  <2>2. CASE DrainHelper(q)
    BY <2>2 DEF DrainHelper, DataOK, Pairs, MainPairs, HelperPairs
  <2>3. CASE DrainCaller(q)
    BY <2>3 DEF DrainCaller, DataOK, Pairs, MainPairs, HelperPairs
  <2> QED
    BY <2>1, <2>2, <2>3
<1>19. CASE Spurious
  BY <1>19 DEF Spurious, CallerSpuriousWakeup, HelperSpuriousWakeup,
      OnlyCallerPc, OnlyHelperPc
<1>20. CASE UNCHANGED vars
  BY <1>20 DEF vars
<1> QED
  BY NextCases, <1>1, <1>2, <1>3, <1>4, <1>5, <1>6, <1>7, <1>8, <1>9,
     <1>10, <1>11, <1>12, <1>13, <1>14, <1>15, <1>16, <1>17, <1>18, <1>19,
     <1>20

\* No step overwrites a pair of the suffix with another tile.
LEMMA HelperContentsStep == Inv /\ [Next]_vars => HelperContents'
<1> SUFFICES ASSUME Lifecycle, Buffers, HelperContents, DataOK, [Next]_vars PROVE HelperContents'
  BY DEF Inv, TypeOK
<1> USE PackAssumption DEF HelperContents, flags, completed, helper, caller, memory
<1>1. CASE Start
  BY <1>1 DEF Start
<1>2. CASE Reserve
  BY <1>2 DEF Reserve
<1>3. CASE Submit
  BY <1>3 DEF Submit
<1>4. CASE Signal
  BY <1>4 DEF Signal, WakeHelper
<1>5. CASE MainPack
  BY <1>5 DEF MainPack
<1>6. CASE MainDone
  BY <1>6 DEF MainDone, OnlyCallerPc
<1>7. CASE Wait
  BY <1>7 DEF Wait, OnlyCallerPc, WaitAgain
<1>8. CASE Fence
  BY <1>8 DEF Fence, OnlyCallerPc
<1>9. CASE DmaDone
  BY <1>9 DEF DmaDone, OnlyCallerPc
<1>10. CASE Stop
  BY <1>10 DEF Stop, WakeHelper
<1>11. CASE Join
  BY <1>11 DEF Join
<1>12. CASE Reset
  BY <1>12 DEF Reset
<1>13. CASE Unmap
  BY <1>13 DEF Unmap
<1>14. CASE HelperTest
  BY <1>14 DEF HelperTest, HelperPairs
<1>15. CASE HelperPack
  BY <1>15 DEF HelperPack, HelperPairs, DataOK
<1>16. CASE HelperFence
  BY <1>16 DEF HelperFence, OnlyHelperPc
<1>17. CASE HelperPublish
  BY <1>17 DEF HelperPublish, WakeCaller
<1>18. CASE DrainStep
  <2>1. PICK q \in Pairs : DrainHelper(q) \/ DrainCaller(q)
    BY <1>18 DEF DrainStep
  <2>2. CASE DrainHelper(q)
    BY <2>2 DEF DrainHelper, DataOK, Pairs, MainPairs, HelperPairs
  <2>3. CASE DrainCaller(q)
    BY <2>3 DEF DrainCaller, DataOK, Pairs, MainPairs, HelperPairs
  <2> QED
    BY <2>1, <2>2, <2>3
<1>19. CASE Spurious
  BY <1>19 DEF Spurious, CallerSpuriousWakeup, HelperSpuriousWakeup,
      OnlyCallerPc, OnlyHelperPc
<1>20. CASE UNCHANGED vars
  BY <1>20 DEF vars
<1> QED
  BY NextCases, <1>1, <1>2, <1>3, <1>4, <1>5, <1>6, <1>7, <1>8, <1>9,
     <1>10, <1>11, <1>12, <1>13, <1>14, <1>15, <1>16, <1>17, <1>18, <1>19,
     <1>20

\* A published suffix is in DDR and stays there until the slot is reused.
LEMMA PublishedContentsStep == Inv /\ [Next]_vars => PublishedContents'
<1> SUFFICES ASSUME Lifecycle, Accounting, Buffers, HelperContents, PublishedContents, DataOK, [Next]_vars PROVE PublishedContents'
  BY DEF Inv, TypeOK
<1> USE PackAssumption DEF PublishedContents, Outstanding, flags, completed, helper, caller, memory
<1>1. CASE Start
  BY <1>1 DEF Start
<1>2. CASE Reserve
  BY <1>2 DEF Reserve
<1>3. CASE Submit
  BY <1>3 DEF Submit, Accounting, DataOK, Generations
<1>4. CASE Signal
  BY <1>4 DEF Signal, WakeHelper
<1>5. CASE MainPack
  BY <1>5 DEF MainPack
<1>6. CASE MainDone
  BY <1>6 DEF MainDone, OnlyCallerPc
<1>7. CASE Wait
  BY <1>7 DEF Wait, OnlyCallerPc, WaitAgain
<1>8. CASE Fence
  BY <1>8 DEF Fence, OnlyCallerPc
<1>9. CASE DmaDone
  BY <1>9 DEF DmaDone, OnlyCallerPc
<1>10. CASE Stop
  BY <1>10 DEF Stop, WakeHelper
<1>11. CASE Join
  BY <1>11 DEF Join
<1>12. CASE Reset
  BY <1>12 DEF Reset
<1>13. CASE Unmap
  BY <1>13 DEF Unmap
<1>14. CASE HelperTest
  BY <1>14 DEF HelperTest
<1>15. CASE HelperPack
  BY <1>15 DEF HelperPack
<1>16. CASE HelperFence
  BY <1>16 DEF HelperFence, OnlyHelperPc
<1>17. CASE HelperPublish
  BY <1>17 DEF HelperPublish, WakeCaller, Lifecycle, Accounting, Buffers,
     HelperContents, DataOK, HelperPairs
<1>18. CASE DrainStep
  <2>1. PICK q \in Pairs : DrainHelper(q) \/ DrainCaller(q)
    BY <1>18 DEF DrainStep
  <2>2. CASE DrainHelper(q)
    BY <2>2 DEF DrainHelper, DataOK, Pairs, MainPairs, HelperPairs, Buffers, Lifecycle, Accounting, Generations
  <2>3. CASE DrainCaller(q)
    BY <2>3 DEF DrainCaller, DataOK, Pairs, MainPairs, HelperPairs
  <2> QED
    BY <2>1, <2>2, <2>3
<1>19. CASE Spurious
  BY <1>19 DEF Spurious, CallerSpuriousWakeup, HelperSpuriousWakeup,
      OnlyCallerPc, OnlyHelperPc
<1>20. CASE UNCHANGED vars
  BY <1>20 DEF vars
<1> QED
  BY NextCases, <1>1, <1>2, <1>3, <1>4, <1>5, <1>6, <1>7, <1>8, <1>9,
     <1>10, <1>11, <1>12, <1>13, <1>14, <1>15, <1>16, <1>17, <1>18, <1>19,
     <1>20

\* The strengthening the safety properties follow from.
THEOREM Inductive == Spec => []Inv
<1>1. Init => Inv
  <2> SUFFICES ASSUME Init PROVE Inv
    OBVIOUS
  <2>1. FlagsOK
    BY Zenon DEF Init, FlagsOK
  <2>2. DataOK
    BY PackAssumption DEF Init, DataOK, HelperPc, CallerPc, Generations, Pairs,
       MainPairs, HelperPairs
  <2>3. Lifecycle /\ Accounting /\ Buffers
    BY DEF Init, Lifecycle, Accounting, Buffers, Active, Outstanding
  <2>4. MainContents /\ HelperContents /\ PublishedContents
    BY DEF Init, MainContents, HelperContents, PublishedContents, Outstanding
  <2> QED
    BY <2>1, <2>2, <2>3, <2>4 DEF Inv, TypeOK
<1>2. Inv /\ [Next]_vars => Inv'
  BY FlagsStep, DataStep, LifecycleStep, AccountingStep, BuffersStep,
     MainContentsStep, HelperContentsStep, PublishedContentsStep DEF Inv, TypeOK
<1> QED
  BY <1>1, <1>2, PTL DEF Spec

\* DMA is started only on a slot that holds the whole of the caller's tile,
\* however the two producers, their store buffers and wake-ups interleave.
THEOREM DmaSafe == Spec => []DmaReadsWholeTile
<1>1. Inv => DmaReadsWholeTile
  <2> SUFFICES ASSUME Inv, callerPc = "dma"
               PROVE  /\ \A p \in Pairs : ddr[p] = callerGen
                      /\ helperBuffer = {} /\ callerBuffer = {}
    BY DEF DmaReadsWholeTile
  <2>1. helperPc # "packing"
    BY DEF Inv, Lifecycle, Outstanding
  <2>2. helperBuffer = {} /\ callerBuffer = {}
    BY <2>1 DEF Inv, Buffers
  <2>3. ASSUME NEW p \in MainPairs PROVE ddr[p] = callerGen
    BY <2>2, PackAssumption DEF Inv, MainContents, MainPairs
  <2>4. completedGen = callerGen
    BY DEF Inv, Accounting
  <2>5. completedPairs = NumPairs - HelperBegin + 1
    BY DEF Inv, MainContents, CompletedInFull
  <2>6. ASSUME NEW p \in HelperPairs PROVE ddr[p] = callerGen
    BY <2>4, <2>5, PackAssumption DEF Inv, PublishedContents, HelperPairs
  <2>7. \A p \in Pairs : p \in MainPairs \/ p \in HelperPairs
    BY PackAssumption DEF Pairs, MainPairs, HelperPairs
  <2> QED
    BY <2>2, <2>3, <2>6, <2>7
<1> QED
  BY <1>1, Inductive, PTL

\* The helper never stores into a slot its caller has given up or handed to
\* DMA, nor after the mapping is gone.
THEOREM HelperConfined == Spec => []HelperWritesOnlyOutstandingTask
<1>1. Inv => HelperWritesOnlyOutstandingTask
  BY DEF Inv, Lifecycle, Accounting, Buffers, Active, Outstanding,
     HelperWritesOnlyOutstandingTask
<1> QED
  BY <1>1, Inductive, PTL

\* The fatal refusals of next_generation, submit and stop are unreachable while
\* generations last.
THEOREM HelperAvailable == Spec => []HelperFreeWhenCallerIs
<1>1. Inv => HelperFreeWhenCallerIs
  BY DEF Inv, Lifecycle, Active, Outstanding, HelperFreeWhenCallerIs
<1> QED
  BY <1>1, Inductive, PTL

\* Every step of the protocol is a step of the contract or invisible in it.
LEMMA ContractStep == Inv /\ [Next]_vars => [Contract!Next]_(Contract!cvars)
<1> SUFFICES ASSUME FlagsOK, DataOK, Lifecycle, Accounting, MainContents, [Next]_vars
             PROVE  [Contract!Next]_(Contract!cvars)
  BY DEF Inv, TypeOK
<1> USE DEF contractPhase, contractTile, contractLast, CompletedInFull, Outstanding,
        Contract!Next, Contract!cvars, Contract!Offer, Contract!Pack,
        Contract!Use, Contract!Release, Contract!Abort, flags, completed, helper, caller, memory
<1>1. CASE Start
  BY <1>1 DEF Start
<1>2. CASE Reserve
  BY <1>2 DEF Reserve, DataOK, Generations
<1>3. CASE Submit
  BY <1>3 DEF Submit, DataOK, Generations, Accounting, Active
<1>4. CASE Signal
  BY <1>4 DEF Signal, WakeHelper
<1>5. CASE MainPack
  BY <1>5 DEF MainPack
<1>6. CASE MainDone
  BY <1>6 DEF MainDone, OnlyCallerPc
<1>7. CASE Wait
  BY <1>7 DEF Wait, OnlyCallerPc, WaitAgain
<1>8. CASE Fence
  BY <1>8 DEF Fence, OnlyCallerPc, Accounting, MainContents
<1>9. CASE DmaDone
  BY <1>9 DEF DmaDone, OnlyCallerPc
<1>10. CASE Stop
  BY <1>10 DEF Stop, WakeHelper
<1>11. CASE Join
  BY <1>11 DEF Join
<1>12. CASE Reset
  BY <1>12 DEF Reset
<1>13. CASE Unmap
  BY <1>13 DEF Unmap
<1>14. CASE HelperTest
  BY <1>14 DEF HelperTest
<1>15. CASE HelperPack
  BY <1>15 DEF HelperPack
<1>16. CASE HelperFence
  BY <1>16 DEF HelperFence, OnlyHelperPc
<1>17. CASE HelperPublish
  BY <1>17 DEF HelperPublish, WakeCaller, Lifecycle, Accounting, Active, DataOK, Generations
<1>18. CASE DrainStep
  BY <1>18 DEF DrainStep, DrainHelper, DrainCaller
<1>19. CASE Spurious
  BY <1>19 DEF Spurious, CallerSpuriousWakeup, HelperSpuriousWakeup,
      OnlyCallerPc, OnlyHelperPc
<1>20. CASE UNCHANGED vars
  BY <1>20 DEF vars
<1> QED
  BY NextCases, <1>1, <1>2, <1>3, <1>4, <1>5, <1>6, <1>7, <1>8, <1>9,
     <1>10, <1>11, <1>12, <1>13, <1>14, <1>15, <1>16, <1>17, <1>18, <1>19,
     <1>20

\* The two-thread protocol implements the sequential contract of the pack.
THEOREM Refinement == Spec => ImplementsContract
<1>1. Init => Contract!Init
  BY DEF Init, Contract!Init, contractPhase, contractTile, contractLast, Outstanding
<1> QED
  BY <1>1, ContractStep, Inductive, PTL DEF Spec, ImplementsContract, Contract!Spec

-----------------------------------------------------------------------------
(***************************************************************************)
(* The address arithmetic of fpga_q8_layout.cpp.                           *)
(***************************************************************************)

\* A quotient of naturals by two, and its remainder, are what they should be.
LEMMA Halves ==
    ASSUME NEW r \in Nat
    PROVE  /\ r \div 2 \in Nat /\ r % 2 \in 0..1
           /\ r = 2 * (r \div 2) + (r % 2)
  OBVIOUS

\* Multiplication by a natural number keeps the order.
LEMMA Monotone ==
    ASSUME NEW a \in Nat, NEW b \in Nat, NEW c \in Nat, a <= b
    PROVE  a * c <= b * c
  <1>1. PICK d \in Nat : b = a + d
    BY b - a \in Nat
  <1>2. b * c = a * c + d * c
    BY <1>1
  <1>3. d * c \in Nat
    OBVIOUS
  <1> QED
    BY <1>2, <1>3

\* Where a pair of rows and a beat of it begin, and the next pair after it.
LEMMA PairWindow ==
    ASSUME NEW beats \in Nat, NEW row \in Nat, NEW beat \in 0..beats - 1
    PROVE  /\ Candidate(beats, row, beat) \in Nat
           /\ (row \div 2) * beats * 2 <= Candidate(beats, row, beat)
           /\ Candidate(beats, row, beat) < (row \div 2 + 1) * beats * 2
  <1> DEFINE p == row \div 2
             o == row % 2
  <1>1. p \in Nat /\ o \in 0..1
    BY Halves
  <1> HIDE DEF p, o
  <1>2. p * beats \in Nat
    BY <1>1
  <1>3. (p + 1) * beats = p * beats + beats
    BY <1>1
  <1> DEFINE q == p * beats
  <1>4. q \in Nat /\ (p + 1) * beats = q + beats
    BY <1>2, <1>3
  <1>5. Candidate(beats, row, beat) = (q + beat) * 2 + o
    BY DEF Candidate, p, o
  <1> HIDE DEF q
  <1>6. /\ (q + beat) * 2 + o \in Nat
        /\ q * 2 <= (q + beat) * 2 + o
        /\ (q + beat) * 2 + o < (q + beats) * 2
    BY <1>1, <1>4
  <1>7. (p + 1) * beats * 2 = (q + beats) * 2 /\ p * beats * 2 = q * 2
    BY <1>4 DEF q
  <1> QED
    BY <1>5, <1>6, <1>7 DEF p

(***************************************************************************)
(* The index test of fpga_weight_layout_word_index (candidate >=           *)
(* payload_words) can refuse nothing: for a row of the payload and a beat  *)
(* of the row the index lies in the payload, whatever the shape.           *)
(***************************************************************************)
THEOREM IndexInPayload ==
    ASSUME NEW rows \in Nat, NEW beats \in Nat,
           NEW row \in 0..PayloadRows(rows) - 1, NEW beat \in 0..beats - 1
    PROVE  Candidate(beats, row, beat) \in 0..PayloadRows(rows) * beats - 1
  <1> DEFINE pairs == (rows + 1) \div 2
             p == row \div 2
  <1>1. pairs \in Nat /\ PayloadRows(rows) = 2 * pairs /\ row \in Nat
    BY DEF PayloadRows
  <1>2. p \in Nat /\ p + 1 <= pairs
    BY <1>1, Halves
  <1> HIDE DEF pairs, p
  <1>3. (p + 1) * beats <= pairs * beats
    BY <1>1, <1>2, Monotone
  <1>4. (p + 1) * beats \in Nat /\ pairs * beats \in Nat
    BY <1>1, <1>2
  <1>5. (p + 1) * beats * 2 <= pairs * beats * 2
    BY <1>3, <1>4
  <1>6. pairs * beats * 2 = PayloadRows(rows) * beats
    BY <1>1
  <1>7. /\ Candidate(beats, row, beat) \in Nat
        /\ Candidate(beats, row, beat) < (p + 1) * beats * 2
    BY <1>1, PairWindow DEF p
  <1> QED
    BY <1>4, <1>5, <1>6, <1>7

(***************************************************************************)
(* No two words of a tile share an index: packing one never overwrites     *)
(* another.                                                                *)
(***************************************************************************)
THEOREM IndexInjective ==
    ASSUME NEW beats \in Nat, NEW row1 \in Nat, NEW row2 \in Nat,
           NEW beat1 \in 0..beats - 1, NEW beat2 \in 0..beats - 1,
           Candidate(beats, row1, beat1) = Candidate(beats, row2, beat2)
    PROVE  row1 = row2 /\ beat1 = beat2
  <1> DEFINE p1 == row1 \div 2
             p2 == row2 \div 2
             c  == Candidate(beats, row1, beat1)
  <1>0. p1 \in Nat /\ p2 \in Nat
    BY Halves
  <1>1. /\ c \in Nat
        /\ p1 * beats * 2 <= c /\ c < (p1 + 1) * beats * 2
        /\ p2 * beats * 2 <= c /\ c < (p2 + 1) * beats * 2
    BY PairWindow
  <1> HIDE DEF c, p1, p2
  <1>2. ~(p1 + 1 <= p2)
    <2> SUFFICES ASSUME p1 + 1 <= p2 PROVE FALSE
      OBVIOUS
    <2>1. (p1 + 1) * beats <= p2 * beats
      BY <1>0, Monotone
    <2>2. (p1 + 1) * beats \in Nat /\ p2 * beats \in Nat
      BY <1>0
    <2> QED
      BY <2>1, <2>2, <1>1
  <1>3. ~(p2 + 1 <= p1)
    <2> SUFFICES ASSUME p2 + 1 <= p1 PROVE FALSE
      OBVIOUS
    <2>1. (p2 + 1) * beats <= p1 * beats
      BY <1>0, Monotone
    <2>2. (p2 + 1) * beats \in Nat /\ p1 * beats \in Nat
      BY <1>0
    <2> QED
      BY <2>1, <2>2, <1>1
  <1>4. p1 = p2
    BY <1>0, <1>2, <1>3
  <1> DEFINE q == p1 * beats
  <1>5. q \in Nat
    BY <1>0
  <1>6. (q + beat1) * 2 + (row1 % 2) = (q + beat2) * 2 + (row2 % 2)
    BY <1>4 DEF Candidate, p1, p2
  <1> HIDE DEF q
  <1>7. row1 % 2 \in 0..1 /\ row2 % 2 \in 0..1
    BY Halves
  <1>8. beat1 = beat2 /\ row1 % 2 = row2 % 2
    BY <1>5, <1>6, <1>7
  <1> QED
    BY <1>4, <1>8, Halves DEF p1, p2

(***************************************************************************)
(* The producer of the pairs pair_begin..pair_end-1, which starts at word  *)
(* pair_begin * 2 * beats (fpga_pack_direct_weight_pair_range), owns       *)
(* exactly the words of its own rows: the caller's and the helper's halves *)
(* of a tile never meet, however it is split.                              *)
(***************************************************************************)
THEOREM PairRangeOwnsItsRows ==
    ASSUME NEW beats \in Nat, NEW row \in Nat, NEW beat \in 0..beats - 1,
           NEW pair_begin \in Nat, NEW pair_end \in Nat
    PROVE  (/\ pair_begin * beats * 2 <= Candidate(beats, row, beat)
            /\ Candidate(beats, row, beat) < pair_end * beats * 2)
           <=> (pair_begin <= row \div 2 /\ row \div 2 < pair_end)
  <1> DEFINE p == row \div 2
             c == Candidate(beats, row, beat)
  <1>0. p \in Nat
    BY Halves
  <1>1. c \in Nat /\ p * beats * 2 <= c /\ c < (p + 1) * beats * 2
    BY PairWindow
  <1> HIDE DEF p, c
  <1>2. /\ p * beats \in Nat /\ (p + 1) * beats \in Nat
        /\ pair_begin * beats \in Nat /\ pair_end * beats \in Nat
    BY <1>0
  <1>3. ASSUME pair_begin <= p PROVE pair_begin * beats * 2 <= c
    <2>1. pair_begin * beats <= p * beats
      BY <1>0, <1>3, Monotone
    <2> QED
      BY <2>1, <1>1, <1>2
  <1>4. ASSUME p + 1 <= pair_begin PROVE c < pair_begin * beats * 2
    <2>1. (p + 1) * beats <= pair_begin * beats
      BY <1>0, <1>4, Monotone
    <2> QED
      BY <2>1, <1>1, <1>2
  <1>5. ASSUME p + 1 <= pair_end PROVE c < pair_end * beats * 2
    <2>1. (p + 1) * beats <= pair_end * beats
      BY <1>0, <1>5, Monotone
    <2> QED
      BY <2>1, <1>1, <1>2
  <1>6. ASSUME pair_end <= p PROVE pair_end * beats * 2 <= c
    <2>1. pair_end * beats <= p * beats
      BY <1>0, <1>6, Monotone
    <2> QED
      BY <2>1, <1>1, <1>2
  <1>7. pair_begin * beats * 2 <= c <=> pair_begin <= p
    <2>1. pair_begin <= p \/ p + 1 <= pair_begin
      BY <1>0
    <2>2. pair_begin * beats * 2 \in Nat
      BY <1>2
    <2> QED
      BY <2>1, <2>2, <1>0, <1>1, <1>3, <1>4
  <1>8. c < pair_end * beats * 2 <=> p < pair_end
    <2>1. p + 1 <= pair_end \/ pair_end <= p
      BY <1>0
    <2>2. pair_end * beats * 2 \in Nat
      BY <1>2
    <2> QED
      BY <2>1, <2>2, <1>0, <1>1, <1>5, <1>6
  <1> QED
    BY <1>7, <1>8 DEF p, c
=============================================================================
