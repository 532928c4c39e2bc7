--------------------------- MODULE LifecycleProofs ---------------------------
(***************************************************************************)
(* Proofs about Lifecycle for every set of settings and every set of       *)
(* defects of the board, however many of them come together.               *)
(***************************************************************************)
EXTENDS Lifecycle, TLAPS

(***************************************************************************)
(* The inductive invariant                                                 *)
(***************************************************************************)

MapsDma  == {"map_vpu", "map_ddr", "gate", "zdma", "admit", "stream", "self_test", "helper", "publish"}
MapsAll  == {"gate", "zdma", "admit", "stream", "self_test", "helper", "publish"}
Admitted == {"stream", "self_test", "helper", "publish"}

\* What each stage of fpga_init has established when the next one begins.
StageDone ==
    ~dead =>
    /\ phase \in MapsDma => mapped["dma"] # "none"
    /\ phase \in MapsAll \cup {"map_ddr"} => mapped["vpu"] # "none"
    /\ phase \in MapsAll => mapped["ddr"] # "none"
    /\ phase = "zdma" /\ P2 => ~foreign
    /\ phase \in Admitted \cup {"admit"} => zdma
    /\ phase \in Admitted => stream /\ (pipeRequested => PipelineCompatible /\ scheduler)
    /\ phase = "publish" => (helper <=> Workers = 2)

\* A host that is ready is not being initialised, and a benchmark never goes
\* past the first stage.
ReadyIsOutside ==
    /\ complete => phase \in {"idle", "enter"}
    /\ passive => complete /\ Has("BENCH")
    /\ Has("BENCH") => /\ phase \in {"idle", "enter"} /\ ~zdma /\ ~helper /\ ~pipeEnabled
                       /\ complete => passive
                       /\ ~complete /\ ~dead => mapped = Unmapped

Inv == TypeOK /\ StageDone /\ ReadyIsOutside /\ ReadyIsWhole

(***************************************************************************)
(* Proof steps                                                             *)
(***************************************************************************)

\* Settings and board do not change while the program runs, and neither do the
\* policies derived from them.
LEMMA PolicyFixed ==
  ASSUME [Next]_vars
  PROVE  /\ UNCHANGED <<env, faults>>
         /\ P2' = P2 /\ Workers' = Workers /\ Qualifying' = Qualifying
         /\ PipelineCompatible' = PipelineCompatible
<1>1. UNCHANGED config
    BY DEF Next, HostStep, vars, Reenter, Enter, EnterBench, Configure, MapDma, MapVpu,
         MapDdr, Gate, ZdmaInit, Admit, StreamMode, SelfTest, StartHelper, Publish,
         MainInit, LoadModel, FirstMulMat, Finish, MainCleanup, ForeignDone, MapRegion
<1> QED
  BY <1>1 DEF config, P2, Workers, Qualifying, PipelineCompatible, SchedulerEnabled,
              StreamSupported, Has, Ok

\* The globals of the host keep their types.
LEMMA TypeStep == TypeOK /\ [Next]_vars => TypeOK'
<1> SUFFICES ASSUME TypeOK, [Next]_vars PROVE TypeOK'
  OBVIOUS
<1> USE DEF TypeOK, Phases, Regions, config, route, world, flags, hardware, Unmapped,
            At, Running, Goto, Check, fpga_fatal
<1>1. CASE Reenter
  BY <1>1, ZenonT(60) DEF Reenter, Return
<1>2. CASE Enter
  BY <1>2 DEF Enter
<1>3. CASE EnterBench
  BY <1>3, ZenonT(60) DEF EnterBench, Return, BenchMapping
<1>4. CASE Configure
  BY <1>4 DEF Configure
<1>5. CASE MapDma
  BY <1>5 DEF MapDma, MapRegion, map_region_prefer_uio
<1>6. CASE MapVpu
  BY <1>6 DEF MapVpu, MapRegion, map_region_prefer_uio
<1>7. CASE MapDdr
  BY <1>7 DEF MapDdr, MapRegion, map_region_prefer_uio
<1>8. CASE Gate
  BY <1>8 DEF Gate
<1>9. CASE ZdmaInit
  BY <1>9 DEF ZdmaInit
<1>10. CASE Admit
  <2>1. stream' \in BOOLEAN /\ scheduler' \in BOOLEAN /\ pipeRequested' \in BOOLEAN
    BY <1>10 DEF Admit, StreamSupported, SchedulerEnabled, PipelineCompatible
  <2> QED
    BY <1>10, <2>1, ZenonT(60) DEF Admit
<1>11. CASE StreamMode
  BY <1>11 DEF StreamMode
<1>12. CASE SelfTest
  BY <1>12 DEF SelfTest
<1>13. CASE StartHelper
  BY <1>13, ZenonT(60) DEF StartHelper, CleanupAndAbort
<1>14. CASE Publish
  BY <1>14, ZenonT(60) DEF Publish, CleanupAndAbort, Return
<1>15. CASE MainInit
  BY <1>15 DEF MainInit
<1>16. CASE LoadModel
  BY <1>16, ZenonT(60) DEF LoadModel
<1>17. CASE FirstMulMat
  BY <1>17 DEF FirstMulMat
<1>18. CASE Finish
  BY <1>18 DEF Finish
<1>19. CASE MainCleanup
  BY <1>19, ZenonT(60) DEF MainCleanup, fpga_cleanup
<1>20. CASE ForeignDone
  BY <1>20 DEF ForeignDone
<1>21. CASE UNCHANGED vars
  BY <1>21 DEF vars
<1> QED
  BY <1>1, <1>2, <1>3, <1>4, <1>5, <1>6, <1>7, <1>8, <1>9, <1>10, <1>11, <1>12, <1>13,
     <1>14, <1>15, <1>16, <1>17, <1>18, <1>19, <1>20, <1>21 DEF Next, HostStep

\* Every stage of fpga_init leaves behind what the next ones rely on.
LEMMA StageStep == Inv /\ [Next]_vars => StageDone'
<1> SUFFICES ASSUME Inv, [Next]_vars PROVE StageDone'
  OBVIOUS
<1> USE PolicyFixed
    DEF Inv, TypeOK, StageDone, MapsDma, MapsAll, Admitted, Regions, Phases, config, route, world,
        flags, hardware, At, Running, Goto, Check, fpga_fatal
<1>1. CASE Reenter
  BY <1>1 DEF Reenter, Return
<1>2. CASE Enter
  BY <1>2 DEF Enter
<1>3. CASE EnterBench
  BY <1>3 DEF EnterBench, Return
<1>4. CASE Configure
  BY <1>4 DEF Configure
<1>5. CASE MapDma
  BY <1>5 DEF MapDma, MapRegion
<1>6. CASE MapVpu
  BY <1>6 DEF MapVpu, MapRegion
<1>7. CASE MapDdr
  BY <1>7 DEF MapDdr, MapRegion
<1>8. CASE Gate
  BY <1>8 DEF Gate
<1>9. CASE ZdmaInit
  BY <1>9 DEF ZdmaInit
<1>10. CASE Admit
  <2>1. ~dead' => StreamSupported /\ phase' = "stream"
    BY <1>10 DEF Admit, ResidencyAdmitted
  <2>2. PipelineCompatible => SchedulerEnabled
    BY DEF PipelineCompatible
  <2>3. ~dead' => stream' /\ (pipeRequested' => PipelineCompatible /\ scheduler')
    BY <1>10, <2>1, <2>2 DEF Admit
  <2> QED
    BY <1>10, <2>1, <2>3 DEF Admit
<1>11. CASE StreamMode
  BY <1>11 DEF StreamMode
<1>12. CASE SelfTest
  BY <1>12 DEF SelfTest
<1>13. CASE StartHelper
  BY <1>13 DEF StartHelper, CleanupAndAbort, Workers
<1>14. CASE Publish
  BY <1>14 DEF Publish, CleanupAndAbort, Return
<1>15. CASE MainInit
  BY <1>15 DEF MainInit
<1>16. CASE LoadModel
  BY <1>16 DEF LoadModel
<1>17. CASE FirstMulMat
  BY <1>17 DEF FirstMulMat
<1>18. CASE Finish
  BY <1>18 DEF Finish
<1>19. CASE MainCleanup
  BY <1>19 DEF MainCleanup, fpga_cleanup
<1>20. CASE ForeignDone
  BY <1>20 DEF ForeignDone
<1>21. CASE UNCHANGED vars
  BY <1>21 DEF vars
<1> QED
  BY <1>1, <1>2, <1>3, <1>4, <1>5, <1>6, <1>7, <1>8, <1>9, <1>10, <1>11, <1>12, <1>13,
     <1>14, <1>15, <1>16, <1>17, <1>18, <1>19, <1>20, <1>21 DEF Next, HostStep

\* Nothing but the last stage, or the benchmark's first one, makes a host ready.
LEMMA OutsideStep == Inv /\ [Next]_vars => ReadyIsOutside'
<1> SUFFICES ASSUME Inv, [Next]_vars PROVE ReadyIsOutside'
  OBVIOUS
<1> USE PolicyFixed
    DEF Inv, TypeOK, ReadyIsOutside, Has, Phases, config, route, world,
        flags, hardware, At, Running, Goto, Check, fpga_fatal
<1>1. CASE Reenter
  BY <1>1 DEF Reenter, Return
<1>2. CASE Enter
  BY <1>2 DEF Enter
<1>3. CASE EnterBench
  BY <1>3 DEF EnterBench, Return
<1>4. CASE Configure
  BY <1>4 DEF Configure
<1>5. CASE MapDma
  BY <1>5 DEF MapDma, MapRegion
<1>6. CASE MapVpu
  BY <1>6 DEF MapVpu, MapRegion
<1>7. CASE MapDdr
  BY <1>7 DEF MapDdr, MapRegion
<1>8. CASE Gate
  BY <1>8 DEF Gate
<1>9. CASE ZdmaInit
  BY <1>9 DEF ZdmaInit
<1>10. CASE Admit
  BY <1>10 DEF Admit
<1>11. CASE StreamMode
  BY <1>11 DEF StreamMode
<1>12. CASE SelfTest
  BY <1>12 DEF SelfTest
<1>13. CASE StartHelper
  BY <1>13 DEF StartHelper, CleanupAndAbort
<1>14. CASE Publish
  BY <1>14 DEF Publish, CleanupAndAbort, Return
<1>15. CASE MainInit
  BY <1>15 DEF MainInit
<1>16. CASE LoadModel
  BY <1>16 DEF LoadModel
<1>17. CASE FirstMulMat
  BY <1>17 DEF FirstMulMat
<1>18. CASE Finish
  BY <1>18 DEF Finish
<1>19. CASE MainCleanup
  BY <1>19 DEF MainCleanup, fpga_cleanup
<1>20. CASE ForeignDone
  BY <1>20 DEF ForeignDone
<1>21. CASE UNCHANGED vars
  BY <1>21 DEF vars
<1> QED
  BY <1>1, <1>2, <1>3, <1>4, <1>5, <1>6, <1>7, <1>8, <1>9, <1>10, <1>11, <1>12, <1>13,
     <1>14, <1>15, <1>16, <1>17, <1>18, <1>19, <1>20, <1>21 DEF Next, HostStep

\* What a ready host is made of does not come apart before cleanup.
LEMMA WholeStep == Inv /\ [Next]_vars => ReadyIsWhole'
<1> SUFFICES ASSUME Inv, [Next]_vars PROVE ReadyIsWhole'
  OBVIOUS
<1> USE PolicyFixed
    DEF Inv, TypeOK, ReadyIsOutside, ReadyIsWhole, Regions, config, route, world,
        flags, hardware, At, Running, Goto, Check, fpga_fatal
<1>1. CASE Reenter
  BY <1>1 DEF Reenter, Return
<1>2. CASE Enter
  BY <1>2 DEF Enter
<1>3. CASE EnterBench
  <2>1. CASE dead'
    BY <1>3, <2>1 DEF EnterBench, Return
  <2>2. CASE ~dead'
    <3>1. Has("BENCH") /\ ~complete /\ ~dead
      BY <1>3 DEF EnterBench
    <3>2. mapped = Unmapped /\ ~zdma /\ ~helper /\ ~pipeEnabled
      BY <3>1
    <3>3. /\ mapped' # Unmapped /\ mapped' = BenchMapping /\ passive'
          /\ UNCHANGED <<zdma, helper, pipeEnabled>>
      BY <1>3, <2>2 DEF EnterBench
    <3>4. mapped' = [Unmapped EXCEPT !["vpu"] = "uio", !["ddr"] = "uio"]
      BY <3>2, <3>3 DEF BenchMapping
    <3>5. mapped' = [dma |-> "none", vpu |-> "uio", ddr |-> "uio"]
      BY <3>4 DEF Unmapped
    <3> QED
      BY <3>2, <3>3, <3>5
  <2> QED
    BY <2>1, <2>2 DEF TypeOK
<1>4. CASE Configure
  BY <1>4 DEF Configure
<1>5. CASE MapDma
  BY <1>5 DEF MapDma, MapRegion
<1>6. CASE MapVpu
  BY <1>6 DEF MapVpu, MapRegion
<1>7. CASE MapDdr
  BY <1>7 DEF MapDdr, MapRegion
<1>8. CASE Gate
  BY <1>8 DEF Gate
<1>9. CASE ZdmaInit
  BY <1>9 DEF ZdmaInit
<1>10. CASE Admit
  BY <1>10 DEF Admit
<1>11. CASE StreamMode
  BY <1>11 DEF StreamMode
<1>12. CASE SelfTest
  BY <1>12 DEF SelfTest
<1>13. CASE StartHelper
  BY <1>13 DEF StartHelper, CleanupAndAbort
<1>14. CASE Publish
  <2>1. /\ ~complete /\ ~passive /\ ~dead /\ phase = "publish"
    BY <1>14 DEF Publish
  <2>2. CASE pipeRequested /\ ~helper
    BY <1>14, <2>1, <2>2 DEF Publish, CleanupAndAbort
  <2>3. CASE ~(pipeRequested /\ ~helper)
    <3>1. /\ pipeEnabled' = pipeRequested /\ passive' = passive
          /\ UNCHANGED <<mapped, zdma, stream, scheduler, helper>>
      BY <1>14, <2>3 DEF Publish
    <3>2. /\ \A r \in Regions : mapped[r] # "none"
          /\ zdma /\ stream /\ (helper <=> Workers = 2)
          /\ pipeRequested => scheduler /\ helper /\ PipelineCompatible
      BY <2>1, <2>3 DEF StageDone, MapsDma, MapsAll, Admitted
    <3>3. PipelineCompatible => ~Qualifying
      BY DEF PipelineCompatible
    <3> QED
      BY <2>1, <3>1, <3>2, <3>3
  <2> QED
    BY <2>2, <2>3
<1>15. CASE MainInit
  BY <1>15 DEF MainInit
<1>16. CASE LoadModel
  BY <1>16 DEF LoadModel
<1>17. CASE FirstMulMat
  BY <1>17 DEF FirstMulMat
<1>18. CASE Finish
  BY <1>18 DEF Finish
<1>19. CASE MainCleanup
  <2>1. UNCHANGED <<zdma, stream, scheduler, pipeEnabled>>
    BY <1>19 DEF MainCleanup
  <2>2. CASE ~complete'
    BY <2>2
  <2>3. CASE complete'
    <3>1. complete /\ UNCHANGED <<mapped, helper, passive>>
      BY <1>19, <2>3 DEF MainCleanup, fpga_cleanup
    <3> QED
      BY <2>1, <3>1
  <2> QED
    BY <2>2, <2>3
<1>20. CASE ForeignDone
  BY <1>20 DEF ForeignDone
<1>21. CASE UNCHANGED vars
  BY <1>21 DEF vars
<1> QED
  BY <1>1, <1>2, <1>3, <1>4, <1>5, <1>6, <1>7, <1>8, <1>9, <1>10, <1>11, <1>12, <1>13,
     <1>14, <1>15, <1>16, <1>17, <1>18, <1>19, <1>20, <1>21 DEF Next, HostStep

(***************************************************************************)
(* The theorems                                                            *)
(***************************************************************************)

\* Before the program has done anything the host is down and unmapped.
LEMMA InitHolds == Init => Inv
<1> SUFFICES ASSUME Init PROVE Inv
  OBVIOUS
<1>1. TypeOK
  <2>1. env \subseteq Options /\ faults \subseteq Faults
    BY DEF Init
  <2> QED
    BY <2>1 DEF Init, TypeOK, Phases, Unmapped
<1> QED
  BY <1>1 DEF Init, Inv, StageDone, ReadyIsOutside, ReadyIsWhole, MapsDma, MapsAll, Admitted

\* The stages of fpga_init add up: the inductive invariant.
THEOREM Inductive == Spec => []Inv
<1>1. Inv /\ [Next]_vars => Inv'
  BY TypeStep, StageStep, OutsideStep, WholeStep DEF Inv
<1> QED
  BY InitHolds, <1>1, PTL DEF Spec

\* The globals of the host keep their types.
THEOREM TypeCorrect == Spec => []TypeOK
<1>1. Inv => TypeOK
  BY DEF Inv
<1> QED
  BY Inductive, <1>1, PTL

\* Whatever is set and whatever is wrong with the board, fpga_init announces
\* only a host that has everything its route uses.
THEOREM ReadyHostIsWhole == Spec => []ReadyIsWhole
<1>1. Inv => ReadyIsWhole
  BY DEF Inv
<1> QED
  BY Inductive, <1>1, PTL

\* fpga_dma_init never writes a channel that another owner still uses.
THEOREM ForeignTransferSpared == Spec => LiveChannelUntouched
<1>1. Inv /\ [Next]_vars => [(zdma' # zdma /\ P2) => ~foreign]_vars
  <2> SUFFICES ASSUME Inv, [Next]_vars, zdma' # zdma, P2 PROVE ~foreign
    OBVIOUS
  <2>1. ZdmaInit
    BY DEF Next, HostStep, vars, hardware, MapRegion, Reenter, Enter, EnterBench, Configure,
           MapDma, MapVpu, MapDdr, Gate, Admit, StreamMode, SelfTest, StartHelper,
           Publish, MainInit, LoadModel, FirstMulMat, Finish, MainCleanup, ForeignDone
  <2> QED
    BY <2>1 DEF Inv, StageDone, ZdmaInit, At
<1> QED
  BY Inductive, <1>1, PTL DEF Spec, LiveChannelUntouched

\* fpga_init called on a ready host, by main or by the first MUL_MAT, returns at
\* once and leaves the host as it is.
THEOREM ReentryKeepsHost == Spec => ReentryImmutable
<1> DEFINE Kept == UNCHANGED <<mapped, zdma, route, complete, passive, dead>>
<1>1. Inv /\ [Next]_vars => [(complete /\ prog # "cleanup") => Kept]_vars
  <2> SUFFICES ASSUME Inv, [Next]_vars, complete, prog # "cleanup" PROVE Kept
    OBVIOUS
  <2> USE DEF At, hardware, flags, route, Running
  <2>1. phase \in {"idle", "enter"} /\ ReentryOk
    BY DEF Inv, ReadyIsOutside, ReadyIsWhole, ReentryOk
  <2>2. Reenter => Kept
    BY <2>1 DEF Reenter, Return, Goto
  <2>3. MainInit \/ LoadModel \/ FirstMulMat \/ Finish \/ ForeignDone \/ UNCHANGED vars => Kept
    BY DEF MainInit, LoadModel, FirstMulMat, Finish, ForeignDone, vars
  <2>4. ~Enter /\ ~EnterBench /\ ~MainCleanup
    BY DEF Enter, EnterBench, MainCleanup
  <2>5. /\ ~Configure /\ ~MapDma /\ ~MapVpu /\ ~MapDdr /\ ~Gate /\ ~ZdmaInit
        /\ ~Admit /\ ~StreamMode /\ ~SelfTest /\ ~StartHelper /\ ~Publish
    BY <2>1 DEF Configure, MapDma, MapVpu, MapDdr, Gate, ZdmaInit, Admit, StreamMode,
                SelfTest, StartHelper, Publish
  <2> QED
    BY <2>2, <2>3, <2>4, <2>5 DEF Next, HostStep
<1> QED
  BY Inductive, <1>1, PTL DEF Spec, ReentryImmutable
=============================================================================
