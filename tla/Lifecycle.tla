------------------------------ MODULE Lifecycle ------------------------------
(***************************************************************************)
(* How the FPGA host comes up and goes down: fpga_init with all its gates, *)
(* fpga_cleanup, and the program around them (main of llama-cli, the       *)
(* pthread_once of the first MUL_MAT, the tensor-validation handshake of   *)
(* the model loader).                                                      *)
(*                                                                         *)
(* fpga_init holds g_mutex from beginning to end and abort()s on every     *)
(* refusal, so what interleaves with it is only the hardware: a transfer   *)
(* that another owner of the ZDMA channel has left running.  An action     *)
(* below is a stage of fpga_init between two effects on the outside world. *)
(*                                                                         *)
(* The environment variables are the set env of the ones that are set, the *)
(* board is the set faults of what is wrong with it.                       *)
(***************************************************************************)
EXTENDS Naturals

CONSTANTS Options,      \* settings of the environment that are considered
          Faults,       \* defects of the board that are considered
          MaxDeviations \* bound: settings and defects present at once

\* The settings, named for their variables.  REJECTED stands for any setting
\* or value refused before mapping whatever else is set (retired variables, a
\* foreign FPGA_PATH, unparsable values, an activation cache), LATE_REJECTED
\* for those refused after the identity reads, STRESS for the coherency tests,
\* DIAGNOSTIC for the switches that only the benchmark refuses.
AllOptions == {"BENCH", "PL_SCALE_ENABLE", "PL_SCALE_DISABLE", "PIPELINE_ENABLE",
               "PIPELINE_DISABLE", "PACK_DMA_ON", "PACK_DMA_OFF", "WORKERS_1",
               "WEIGHT_CACHE", "CONTRACT", "P2_CONTRACT", "TILE_LIMIT",
               "MULTITILE", "RAW_PROPAGATION", "AUDIT", "ALLOW_DEVMEM",
               "DEVMEM_COMPAT_OFF", "VPU_UIO_REQUIRED", "STRESS", "DIAGNOSTIC",
               "DISABLE", "REJECTED", "LATE_REJECTED"}
\* The defects: missing UIO resources, /dev/mem that cannot be opened, a DDR
\* range that is System RAM, and what the registers fail to advertise.
\* "stuck": EN stays set at cleanup.  "thread": pthread_create fails.
AllFaults == {"dma_uio", "vpu_uio", "ddr_uio", "devmem", "ram", "layout",
              "caps", "identity", "two_row", "banks", "stream", "admission",
              "stream_mode", "packed_q8", "self_test", "thread", "stuck"}

ASSUME LifecycleAssumption ==
    /\ Options \subseteq AllOptions /\ Faults \subseteq AllFaults
    /\ MaxDeviations \in Nat

VARIABLES env, faults,  \* fixed in a behaviour
          app,          \* "cli": llama-cli; "lib": a program without FPGA calls
          prog,         \* what the program does next
          phase,        \* stage of fpga_init; "idle" when it is not running
          caller,       \* who called it: "main" or "once"
          onceDone,     \* g_fpga_once has run
          initialized,  \* g_fpga_initialized of ggml-cpu.c
          validated,    \* g_contract_loader_validation_passed
          foreign,      \* another owner's transfer still runs: CTRL2.EN is set
          zdma,         \* fpga_dma_init has written the channel
          mapped,       \* how each region is mapped
          stream, scheduler, pipeRequested, pipeEnabled, helper,
          complete,     \* g_fpga_init_complete
          passive,      \* g_weight_path_bench.passive_mapping
          cleanupDone,  \* g_cleanup_done
          dead          \* abort() was called

config == <<env, faults, app>>
route == <<stream, scheduler, pipeRequested, pipeEnabled, helper>>
world == <<prog, caller, onceDone, initialized, validated>>
flags == <<complete, passive, cleanupDone>>
vars == <<config, phase, foreign, zdma, mapped, route, world, flags, dead>>

Regions == {"dma", "vpu", "ddr"}
Unmapped == [r \in Regions |-> "none"]
Phases == {"idle", "enter", "config", "map_dma", "map_vpu", "map_ddr", "gate",
           "zdma", "admit", "stream", "self_test", "helper", "publish"}

TypeOK ==
    /\ env \subseteq Options /\ faults \subseteq Faults /\ app \in {"cli", "lib"}
    /\ prog \in {"start", "load", "failed", "run", "cleanup", "exit"}
    /\ phase \in Phases /\ caller \in {"main", "once"}
    /\ mapped \in [Regions -> {"none", "uio", "devmem"}]
    /\ {onceDone, initialized, validated, foreign, zdma, stream, scheduler,
        pipeRequested, pipeEnabled, helper, complete, passive, cleanupDone,
        dead} \subseteq BOOLEAN

Has(o) == o \in env
Ok(f) == f \notin faults

-----------------------------------------------------------------------------
\* The policies derived from the environment.

P2 == ~Has("PL_SCALE_DISABLE")                       \* g_p2_init_requested
Workers == IF Has("WORKERS_1") THEN 1 ELSE 2
Qualifying == Has("CONTRACT") \/ Has("P2_CONTRACT")  \* fpga_contract_check_requested
AuditOnly == Has("AUDIT") /\ ~Qualifying             \* fpga_source_audit_only_requested

AllowDevmem == Has("ALLOW_DEVMEM") \/ (P2 /\ ~Has("DEVMEM_COMPAT_OFF"))
AllowVpuDevmem == AllowDevmem \/ (~P2 /\ ~Has("VPU_UIO_REQUIRED"))

\* Settings that contradict each other or the build, refused before mapping.
PolicyRefused ==
    \/ Has("REJECTED") \/ Has("DISABLE") \/ ~Ok("layout")
    \/ Has("PL_SCALE_ENABLE") /\ Has("PL_SCALE_DISABLE")
    \/ P2 /\ (Has("WEIGHT_CACHE") \/ Has("STRESS"))

QualificationRefused ==
    \/ Has("CONTRACT") /\ Has("P2_CONTRACT")
    \/ Has("P2_CONTRACT") /\ Has("TILE_LIMIT") /\ ~Has("MULTITILE")
    \/ Qualifying /\ (Has("AUDIT") \/ ~validated)
    \/ /\ Has("P2_CONTRACT")
       /\ ~P2 \/ \E o \in {"PIPELINE_ENABLE", "WEIGHT_CACHE", "RAW_PROPAGATION"} : Has(o)

BenchRefused ==
    \E o \in {"DISABLE", "WEIGHT_CACHE", "DIAGNOSTIC", "CONTRACT", "P2_CONTRACT",
              "AUDIT", "PIPELINE_ENABLE"} : Has(o)

-----------------------------------------------------------------------------
Init ==
    /\ \E d \in [1..MaxDeviations -> Options \cup Faults \cup {"none"}] :
           /\ env = Options \cap {d[i] : i \in DOMAIN d}
           /\ faults = Faults \cap {d[i] : i \in DOMAIN d}
    /\ ~(Has("PACK_DMA_ON") /\ Has("PACK_DMA_OFF"))  \* values of one variable
    /\ app \in {"cli", "lib"}
    /\ prog = IF app = "cli" THEN "start" ELSE "load"
    /\ phase = "idle" /\ caller = "main"
    /\ onceDone = FALSE /\ initialized = FALSE /\ validated = FALSE
    /\ foreign \in BOOLEAN /\ zdma = FALSE /\ mapped = Unmapped
    /\ stream = FALSE /\ scheduler = FALSE /\ pipeRequested = FALSE
    /\ pipeEnabled = FALSE /\ helper = FALSE
    /\ complete = FALSE /\ passive = FALSE /\ cleanupDone = FALSE
    /\ dead = FALSE

\* Control of fpga_init: at a stage, on to the next, or abort() there.
At(p) == phase = p /\ ~dead
Goto(p) == phase' = p /\ UNCHANGED dead
fpga_fatal == dead' = TRUE /\ UNCHANGED phase
Check(good, p) == IF good THEN Goto(p) ELSE fpga_fatal

\* fpga_init returns 0; do_fpga_init then sets g_fpga_initialized.
Return ==
    /\ Goto("idle")
    /\ initialized' = (initialized \/ caller = "once")
    /\ UNCHANGED <<prog, caller, onceDone, validated>>

-----------------------------------------------------------------------------
\* Mutant: a completed host counts as whole only with all regions mapped.
ReentryOkAllMapped == \A r \in Regions : mapped[r] # "none"

\* A completed host is left alone, a partly mapped one is refused.
ReentryOk ==
    IF passive
    THEN Has("BENCH") /\ mapped["dma"] = "none"
         /\ \A r \in {"vpu", "ddr"} : mapped[r] # "none"
    ELSE \A r \in Regions : mapped[r] # "none"

Reenter ==
    /\ At("enter") /\ complete
    /\ IF ReentryOk THEN Return ELSE fpga_fatal /\ UNCHANGED world
    /\ UNCHANGED <<config, foreign, zdma, mapped, route, flags>>

Enter ==
    /\ At("enter") /\ ~complete /\ ~Has("BENCH")
    /\ Check(mapped = Unmapped, "config")
    /\ UNCHANGED <<config, foreign, zdma, mapped, route, world, flags>>

\* A UIO resource of that name or address with the right size and offset.
UioMaps(r) == Ok([dma |-> "dma_uio", vpu |-> "vpu_uio", ddr |-> "ddr_uio"][r])

\* DDR is looked up in /proc/iomem before it is mapped.
fpga_ddr_iomem_preflight == Ok("ram")

\* The passive benchmark maps VPU and DDR through UIO only and never the ZDMA.
BenchMapping ==
    IF BenchRefused \/ ~Ok("layout") \/ ~UioMaps("vpu") \/ ~fpga_ddr_iomem_preflight \/ ~UioMaps("ddr")
    THEN mapped
    ELSE [mapped EXCEPT !["vpu"] = "uio", !["ddr"] = "uio"]

\* It reads identity and capability registers and writes none.
BenchCapable == \A f \in {"caps", "identity", "two_row", "packed_q8"} : Ok(f)

EnterBench ==
    /\ At("enter") /\ ~complete /\ Has("BENCH")
    /\ mapped' = BenchMapping
    /\ IF mapped' # Unmapped /\ BenchCapable
       THEN /\ passive' = TRUE /\ complete' = TRUE /\ cleanupDone' = FALSE
            /\ Return
       ELSE fpga_fatal /\ UNCHANGED <<flags, world>>
    /\ UNCHANGED <<config, foreign, zdma, route>>

Configure ==
    /\ At("config")
    /\ Check(~PolicyRefused /\ ~QualificationRefused, "map_dma")
    /\ pipeEnabled' = FALSE
    /\ UNCHANGED <<config, foreign, zdma, mapped, stream, scheduler,
                   pipeRequested, helper, world, flags>>

\* UIO when the resource exists, /dev/mem when the policy allows it.
map_region_prefer_uio(r, allow) ==
    IF UioMaps(r) THEN "uio"
    ELSE IF allow /\ Ok("devmem") THEN "devmem" ELSE "none"

MapRegion(r, allow, next) ==
    /\ mapped' = [mapped EXCEPT ![r] = map_region_prefer_uio(r, allow)]
    /\ Check(mapped'[r] # "none", next)
    /\ UNCHANGED <<config, foreign, zdma, route, world, flags>>

MapDma == At("map_dma") /\ MapRegion("dma", AllowDevmem, "map_vpu")
MapVpu == At("map_vpu") /\ MapRegion("vpu", AllowVpuDevmem, "map_ddr")

MapDdr ==
    /\ At("map_ddr")
    /\ IF fpga_ddr_iomem_preflight THEN MapRegion("ddr", AllowDevmem, "gate")
       ELSE fpga_fatal /\ UNCHANGED <<config, foreign, zdma, mapped, route, world, flags>>

\* Mutant: the channel is taken over without looking.
GateSkipped ==
    /\ At("gate") /\ Goto("zdma")
    /\ UNCHANGED <<config, foreign, zdma, mapped, route, world, flags>>

\* p2_zdma_preinit_passive_gate: a live channel belongs to somebody else.
Gate ==
    /\ At("gate")
    /\ Check(~P2 \/ ~foreign, "zdma")
    /\ UNCHANGED <<config, foreign, zdma, mapped, route, world, flags>>

\* fpga_dma_init writes the channel, the stress test uses it (never with P2);
\* from here on cleanup has work to do.
ZdmaInit ==
    /\ At("zdma")
    /\ zdma' = TRUE /\ cleanupDone' = FALSE
    /\ Check(~Has("STRESS") \/ Ok("self_test"), "admit")
    /\ UNCHANGED <<config, foreign, mapped, route, world, complete, passive>>

-----------------------------------------------------------------------------
\* What the identity and capability registers admit.  "admission" is any of a
\* stream that is not quiescent, too few SPU words and a missing pair stream.
StreamSupported == P2 /\ Ok("banks") /\ Ok("stream") /\ Ok("admission")
SchedulerEnabled == P2 /\ Ok("banks") /\ Ok("admission") /\ ~Has("PIPELINE_DISABLE")
PipelineCompatible ==
    ~Qualifying /\ SchedulerEnabled /\ StreamSupported /\ Workers = 2

IdentityRefused == ~Ok("caps") \/ ~Ok("identity") \/ ~Ok("two_row") \/ Has("LATE_REJECTED")
SchedulerRefused ==
    \/ Has("PIPELINE_ENABLE") /\ Has("PIPELINE_DISABLE")
    \/ Has("PACK_DMA_ON") /\ ~PipelineCompatible
    \/ P2 /\ ~Has("PIPELINE_DISABLE") /\ ~SchedulerEnabled
\* Residency is requested always, and needs P2 and a UIO mapping of the DDR.
ResidencyAdmitted == StreamSupported /\ mapped["ddr"] = "uio"

Admit ==
    /\ At("admit")
    /\ Check(~IdentityRefused /\ ~SchedulerRefused /\ ResidencyAdmitted, "stream")
    /\ stream' = StreamSupported /\ scheduler' = SchedulerEnabled
    /\ pipeRequested' = (PipelineCompatible /\ ~Has("PACK_DMA_OFF"))
    /\ UNCHANGED <<config, foreign, zdma, mapped, pipeEnabled, helper, world, flags>>

\* fpga_enforce_p2_stream_mode: quiescent, write mode 0, read it back.
StreamMode ==
    /\ At("stream")
    /\ Check(Ok("stream_mode"), "self_test")
    /\ UNCHANGED <<config, foreign, zdma, mapped, route, world, flags>>

\* The data-plane tests run only without P2, whose initialisation is passive.
DataPlaneTestsPass == Ok("self_test")

SelfTest ==
    /\ At("self_test")
    /\ Check(Ok("packed_q8") /\ (P2 \/ DataPlaneTestsPass), "helper")
    /\ UNCHANGED <<config, foreign, zdma, mapped, route, world, flags>>

-----------------------------------------------------------------------------
\* What fpga_cleanup does: wait for the channel, join the helper, unmap.
fpga_cleanup ==
    IF cleanupDone
    THEN UNCHANGED <<mapped, helper, flags, dead>>
    ELSE /\ cleanupDone' = TRUE
         /\ IF mapped["dma"] # "none" /\ ~Ok("stuck")
            THEN dead' = TRUE /\ UNCHANGED <<mapped, helper, complete, passive>>
            ELSE /\ mapped' = Unmapped /\ helper' = FALSE
                 /\ complete' = FALSE /\ passive' = FALSE /\ UNCHANGED dead

\* Inside fpga_init a failure after the mappings exist tears them down first.
CleanupAndAbort ==
    /\ mapped' = IF Ok("stuck") THEN Unmapped ELSE mapped
    /\ helper' = FALSE /\ cleanupDone' = TRUE
    /\ fpga_fatal

\* Mutant: the result of pthread_create is not looked at.
StartHelperUnchecked ==
    /\ At("helper")
    /\ helper' = (Workers = 2 /\ Ok("thread"))
    /\ Goto("publish")
    /\ UNCHANGED <<config, foreign, zdma, mapped, stream, scheduler, pipeRequested,
                   pipeEnabled, world, flags>>

\* pthread_create may fail.
StartHelper ==
    /\ At("helper")
    /\ IF Workers = 1 \/ Ok("thread")
       THEN /\ helper' = (Workers = 2)
            /\ Goto("publish") /\ UNCHANGED <<mapped, flags>>
       ELSE CleanupAndAbort /\ UNCHANGED <<complete, passive>>
    /\ UNCHANGED <<config, foreign, zdma, stream, scheduler, pipeRequested,
                   pipeEnabled, world>>

\* The pipelined route is published only when its helper exists.
Publish ==
    /\ At("publish")
    /\ IF pipeRequested /\ ~helper
       THEN CleanupAndAbort /\ UNCHANGED <<pipeEnabled, complete, world>>
       ELSE /\ pipeEnabled' = pipeRequested /\ complete' = TRUE
            /\ Return /\ UNCHANGED <<mapped, helper, cleanupDone>>
    /\ UNCHANGED <<config, foreign, zdma, stream, scheduler, pipeRequested, passive>>

-----------------------------------------------------------------------------
\* The program around the host.  It runs while fpga_init does not.
Running(p) == prog = p /\ phase = "idle" /\ ~dead
hardware == <<foreign, zdma, mapped, route, flags, dead>>

\* Mutant: main initialises without waiting for the loader.
MainInitEarly ==
    /\ Running("start")
    /\ prog' = "load"
    /\ phase' = IF AuditOnly THEN "idle" ELSE "enter"
    /\ caller' = "main"
    /\ UNCHANGED <<config, onceDone, initialized, validated, hardware>>

\* main initialises early, unless an audit forbids it or a qualification run
\* has to validate the model first.
MainInit ==
    /\ Running("start")
    /\ prog' = "load"
    /\ phase' = IF AuditOnly \/ Qualifying THEN "idle" ELSE "enter"
    /\ caller' = "main"
    /\ UNCHANGED <<config, onceDone, initialized, validated, hardware>>

\* A model that loads is reported as validated in the runs that asked for it;
\* the program does not outlive one that does not load.
LoadModel ==
    /\ Running("load")
    /\ \/ prog' = "run" /\ validated' = (Qualifying \/ AuditOnly)
       \/ prog' = "failed" /\ UNCHANGED validated
    /\ UNCHANGED <<config, phase, caller, onceDone, initialized, hardware>>

\* The first MUL_MAT runs do_fpga_init through pthread_once.
FirstMulMat ==
    /\ Running("run") /\ ~onceDone /\ ~AuditOnly
    /\ onceDone' = TRUE /\ caller' = "once" /\ phase' = "enter"
    /\ UNCHANGED <<config, prog, initialized, validated, hardware>>

\* llama-cli cleans up after the last evaluation; other programs just end.
Finish ==
    /\ Running("run")
    /\ onceDone \/ AuditOnly
    /\ prog' = IF app = "cli" THEN "cleanup" ELSE "exit"
    /\ UNCHANGED <<config, phase, caller, onceDone, initialized, validated, hardware>>

MainCleanup ==
    /\ Running("cleanup")
    /\ fpga_cleanup
    /\ prog' = "exit"
    /\ UNCHANGED <<config, phase, foreign, zdma, stream, scheduler, pipeRequested,
                   pipeEnabled, caller, onceDone, initialized, validated>>

\* The other owner's transfer ends in its own time (external: the hardware).
ForeignDone ==
    /\ foreign /\ foreign' = FALSE
    /\ UNCHANGED <<config, phase, zdma, mapped, route, world, flags, dead>>

HostStep ==
    \/ Reenter \/ Enter \/ EnterBench \/ Configure \/ MapDma \/ MapVpu \/ MapDdr
    \/ Gate \/ ZdmaInit \/ Admit \/ StreamMode \/ SelfTest \/ StartHelper \/ Publish
    \/ MainInit \/ LoadModel \/ FirstMulMat \/ Finish \/ MainCleanup

Next == HostStep \/ ForeignDone
\* The program keeps running; nothing is assumed of the other owner.
Spec == Init /\ [][Next]_vars /\ WF_vars(HostStep)

-----------------------------------------------------------------------------
\* Whenever fpga_init has announced a ready host (g_fpga_init_complete), the
\* host is whole: all three regions are mapped, the channel has been set up,
\* the helper runs exactly when two workers are configured and the pipelined
\* route is on only with the scheduler, the scale stream and the helper it uses
\* and outside qualification.  A passive benchmark has VPU and DDR, through UIO,
\* and has touched neither the ZDMA nor a thread (lines 8001-8886).
ReadyIsWhole ==
    complete =>
        IF passive
        THEN /\ mapped = [dma |-> "none", vpu |-> "uio", ddr |-> "uio"]
             /\ ~zdma /\ ~helper /\ ~pipeEnabled
        ELSE /\ \A r \in Regions : mapped[r] # "none"
             /\ zdma /\ stream /\ (helper <=> Workers = 2)
             /\ pipeEnabled => scheduler /\ helper /\ ~Qualifying

\* With P2 the host never writes a ZDMA channel that another owner's transfer is
\* using: "P2 must not take ownership of a channel left live by another
\* owner/process" (lines 2879-2901 and 8479-8487). The other owner's transfer is
\* one left live at the start, which can only end: an owner that starts one
\* between the host's look and its first write is outside this property.
LiveChannelUntouched == [][(zdma' # zdma /\ P2) => ~foreign]_vars

\* A completed host is immutable until cleanup: whoever calls fpga_init again,
\* main or the pthread_once of the first MUL_MAT, changes neither mappings nor
\* channel nor route, and does not abort (lines 7996-8026).
ReentryImmutable ==
    [][(complete /\ prog # "cleanup") =>
          UNCHANGED <<mapped, zdma, route, complete, passive, dead>>]_vars

\* Settings the host documents as supported, and the pairs it refuses.  Left out
\* is PL_SCALE_DISABLE, which it documents and refuses: see OptOutAccepted.
Supported == {"PL_SCALE_ENABLE", "PIPELINE_ENABLE", "PIPELINE_DISABLE", "PACK_DMA_ON",
              "PACK_DMA_OFF", "WORKERS_1", "CONTRACT", "P2_CONTRACT", "MULTITILE",
              "TILE_LIMIT", "AUDIT", "ALLOW_DEVMEM", "DEVMEM_COMPAT_OFF",
              "VPU_UIO_REQUIRED", "DIAGNOSTIC", "BENCH"}
Conflicts ==
    {{"PIPELINE_ENABLE", "PIPELINE_DISABLE"}, {"CONTRACT", "P2_CONTRACT"},
     {"P2_CONTRACT", "PIPELINE_ENABLE"}}
    \cup (IF "MULTITILE" \in env THEN {} ELSE {{"P2_CONTRACT", "TILE_LIMIT"}})
    \cup {{"PACK_DMA_ON", o} : o \in {"WORKERS_1", "PIPELINE_DISABLE", "CONTRACT", "P2_CONTRACT"}}
    \cup {{"AUDIT", o} : o \in {"CONTRACT", "P2_CONTRACT"}}
    \cup {{"BENCH", o} : o \in {"CONTRACT", "P2_CONTRACT", "DIAGNOSTIC", "PIPELINE_ENABLE"}}
Healthy ==
    /\ faults = {} /\ env \subseteq Supported
    /\ \A c \in Conflicts : ~(c \subseteq env)

\* On a board without defects every supported set of settings without a refused
\* pair brings the host up: the gates of fpga_init, taken together with the
\* deferral in main and the loader's handshake, refuse nothing else.  Only an
\* audit, a model that does not load, and a channel that somebody else is using
\* keep the host down.
HealthyComesUp ==
    (Healthy /\ ~foreign /\ ~AuditOnly) => <>(complete \/ prog = "failed")

\* "FPGA_PL_SCALE_DISABLE=1 is the explicit production opt-out" (lines
\* 8075-8076): on a board without defects the opt-out alone is not refused.
OptOutAccepted == (env = {"PL_SCALE_DISABLE"} /\ faults = {}) => ~dead

\* "Prefer exact UIO resources when Linux exposes them. If they are absent, the
\* fixed ZCU104 board contract may use bounded /dev/mem mappings" (lines
\* 8252-8254): with default settings, missing UIO resources alone are not fatal
\* (a channel that is found in use, phase "gate", is another matter).
DevmemAccepted ==
    (env = {} /\ faults \subseteq {"dma_uio", "vpu_uio", "ddr_uio"})
        => ~(dead /\ phase # "gate")

=============================================================================
