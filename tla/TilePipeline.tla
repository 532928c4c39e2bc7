---------------------------- MODULE TilePipeline ----------------------------
(***************************************************************************)
(* The tile schedulers of fpga_host.cpp: one matmul cut into tiles.  The   *)
(* ping-pong one prepares tile t in DDR while tile t-1 runs on the         *)
(* accelerator; the single-bank one finishes a tile before the next and,   *)
(* during a qualification, checks each and stops at the tile limit.        *)
(* Three actors: the host thread (it holds g_mutex), the WEIGHT-pack       *)
(* helper, and the accelerator.  Data is abstracted to what it belongs to: *)
(* a weight window to a (row, K) group, an activation window to a (K,      *)
(* column) pair, a scale window to a tile; a WEIGHT or SCALE window is a   *)
(* pair, its prefix packed by the host and its suffix by the helper.       *)
(***************************************************************************)
EXTENDS Integers, Sequences

CONSTANTS
    Shapes,        \* the matmuls considered: [rows, groups, cols], in groups
    MainBatches,   \* poll-hook batches of the host's half of a lookahead
    TileLimits     \* tiles a qualification may still launch in this matmul

ASSUME PipelineAssumption ==
    /\ MainBatches \in Nat \ {0} /\ TileLimits \subseteq Nat \ {0}
    /\ Shapes \subseteq [rows: Nat \ {0}, groups: Nat \ {0}, cols: Nat \ {0}]

VARIABLES
    shape, overlap, pipeline, resident,  \* fixed per run: m, n, nb; the gates
    route,        \* fixed per run: "pingpong", "serial" or "contract"
    limit,        \* fixed per run: g_p2_tile_limit, less what was checked before
    checked,      \* g_p2_tile_q16_checks, counted from the start of this matmul
    boundary,     \* g_p2_tile_contract_boundary_reached
    pc, t,        \* the host: its step, and tile_id
    jobs,         \* slots[2]
    running,      \* which of them is on the accelerator, NoJob for nullptr
    ahead,        \* pipeline_prepared
    staging,      \* fpga_prompt_weight_staging_t: weights in a slot, None
    loaded,       \* weight_bank_loaded[2]
    look,         \* fpga_p2_dma_pipeline_lookahead_t
    accum, dst,
    ddrAct, ddrW, ddrS, ddrOut,          \* DDR windows
    dma,          \* the transfer in progress: its source as it was at START
    helper,       \* the helper's task: [state, tile]
    bankA, bankW, param, out, ip, desc   \* accelerator memories, state, descriptor

tally    == <<checked, boundary>>
hostVars == <<pc, t, jobs, running, ahead, staging, loaded, look, accum, dst, tally>>
ddr      == <<ddrAct, ddrW, ddrS, ddrOut>>
device   == <<bankA, bankW, param, out, ip, desc>>
config   == <<shape, overlap, pipeline, resident, route, limit>>
vars     == <<config, hostVars, ddr, dma, helper, device>>

None     == -1          \* a window that holds nothing whole
NoJob    == 2
NoDma    == <<>>
Window   == 2           \* the resident or cached copy, outside the stage slots
Total    == shape.rows * shape.groups * shape.cols
RowTiles == shape.groups * shape.cols
RowOf(n) == n \div RowTiles
ColOf(n) == n % shape.cols
WeightOf(n) == n \div shape.cols        \* the (row, K) group of tile n
ActOf(n)    == n % RowTiles             \* the (K, column) pair of tile n
Serial   == route # "pingpong"
Bank     == IF Serial THEN 0 ELSE t % 2
Whole(v) == <<v, v>>
Unset    == <<"unset">>
NoResult == [w |-> Whole(None), a |-> None, s |-> Whole(None)]
NoRaw    == <<Whole(None), None>>

Empty   == [c \in 0..shape.cols - 1 |-> <<>>]
\* fpga_tile_job_t: where its weights and scales are read from, and who owns
\* its result (output_dma_ready, hardware_released, result_consumed).
Job(n, src, slot) ==
    [tile |-> n, src |-> src, slot |-> slot, reused |-> FALSE,
     ready |-> FALSE, released |-> FALSE, consumed |-> FALSE]
NoLook  == [valid |-> FALSE, submitted |-> FALSE, tile |-> None, main |-> 0]

Pcs == {"row", "prepare", "drain", "outDma", "release", "accumulate",
        "activation", "admit", "submit", "actDma", "weight", "weightDma",
        "quiescent", "scaleDma", "start", "consume", "transition", "finalize",
        "advance", "rowEnd", "verify", "retire", "boundary", "store",
        "unwind", "returned", "failed", "violated"}

\* The types of the scheduler's state; tile_id never passes the last tile and
\* the lookahead never reaches further than one tile past the current one.
TypeOK ==
    /\ pc \in Pcs /\ t \in 0..Total
    /\ {overlap, pipeline, resident, ahead} \subseteq BOOLEAN
    /\ running \in {0, 1, NoJob}
    /\ \A b \in {0, 1} :
          /\ jobs[b].tile \in {None} \cup 0..Total - 1
          /\ jobs[b].src \in {0, 1, Window}
          /\ loaded[b] \in BOOLEAN
    /\ look.valid \in BOOLEAN /\ look.submitted \in BOOLEAN
    /\ look.main \in 0..MainBatches
    /\ look.valid => look.tile \in {t, t + 1} \cap 0..Total - 1
    /\ helper.state \in {"idle", "working", "half", "done"}
    /\ ip.state \in {"idle", "vpu", "spu", "final"}

Init ==
    /\ shape \in Shapes /\ route \in {"pingpong", "serial", "contract"}
    /\ overlap \in {FALSE, ~Serial} /\ pipeline \in {FALSE, ~Serial}
    /\ resident \in BOOLEAN
    /\ limit \in IF route = "contract" THEN TileLimits ELSE {0}
    /\ checked = 0 /\ boundary = FALSE
    /\ pc = "row" /\ t = 0 /\ running = NoJob /\ ahead = FALSE
    /\ jobs = [b \in {0, 1} |-> Job(None, 0, 0)]
    /\ staging = None /\ loaded = [b \in {0, 1} |-> FALSE] /\ look = NoLook
    /\ accum = Empty /\ dst = [r \in 0..shape.rows - 1 |-> Unset]
    /\ ddrAct = None /\ ddrOut = NoResult
    /\ ddrW = [s \in {0, 1} |-> Whole(None)] /\ ddrS = [s \in {0, 1} |-> Whole(None)]
    /\ dma = NoDma /\ helper = [state |-> "idle", tile |-> None]
    /\ bankA = [b \in {0, 1} |-> None] /\ bankW = [b \in {0, 1} |-> Whole(None)]
    /\ param = Whole(None) /\ out = NoResult
    /\ ip = [state |-> "idle", bank |-> 0, tile |-> None, raw |-> NoRaw]
    /\ desc = [tile |-> None, in |-> "FREE", out |-> "FREE"]

Prepared == jobs[Bank]
Runner   == jobs[running]
Handoff  == Prepared.tile = t      \* in the tile loop, not at the end of a row

\* can_carry_to_row: residency may still want the hardware idle for the next
\* row's first tile, and may change its mind between two evaluations.
CanCarry == overlap /\ shape.cols = 1

(***************************************************************************)
(* Row and tile loops                                                      *)
(***************************************************************************)
\* Mutant: every row starts from a cleared accumulator.
BeginRowAlwaysClears ==
    /\ pc = "row" /\ t < Total /\ pc' = "prepare"
    /\ accum' = Empty
    /\ staging' = None /\ loaded' = [b \in {0, 1} |-> FALSE]
    /\ UNCHANGED <<config, tally, t, jobs, running, ahead, look, dst, ddr, dma, helper, device>>

BeginRow ==
    /\ pc = "row" /\ t < Total /\ pc' = "prepare"
    /\ accum' = IF running = NoJob THEN Empty ELSE accum
    /\ staging' = None /\ loaded' = [b \in {0, 1} |-> FALSE]
    /\ UNCHANGED <<config, tally, t, jobs, running, ahead, look, dst, ddr, dma, helper, device>>

AfterPrepare ==
    pc' = IF Serial THEN "submit" ELSE IF running = NoJob THEN "activation" ELSE "drain"

\* The reuse of a bank's weights is decided when its job has been prepared.
WithReuse(j) == [j EXCEPT !.reused = shape.cols > 1 /\ loaded[Bank]]

ConsumeValid == look.tile = t /\ ~look.submitted /\ look.main = MainBatches

Consume ==
    /\ pc = "prepare" /\ look.valid
    /\ IF ConsumeValid
         THEN /\ jobs' = [jobs EXCEPT ![Bank] = WithReuse(Job(look.tile, look.tile % 2, look.tile % 2))]
              /\ look' = [look EXCEPT !.valid = FALSE] /\ AfterPrepare
         ELSE pc' = "violated" /\ UNCHANGED <<jobs, look>>
    /\ ahead' = TRUE
    /\ UNCHANGED <<config, tally, t, running, staging, loaded, accum, dst, ddr, dma, helper, device>>

\* An earlier column of the same group left its weights in the stage slot.
ReuseDirect == staging = WeightOf(t)

PackWeights(s)  == ddrW' = [ddrW EXCEPT ![s] = Whole(WeightOf(t))]
PackScales(s)   == ddrS' = [ddrS EXCEPT ![s] = Whole(t)]
PackActivation  == ddrAct' = ActOf(t)

\* fpga_prepare_q8_tile_job: a resident (or cached) window already holds the
\* tile's weights; otherwise they are packed into the stage slot or reused.
PrepareDirect ==
    /\ pc = "prepare" /\ ~look.valid
    /\ \E hit \in {FALSE, resident}, useSlots \in {FALSE, pipeline /\ shape.cols = 1} :
          LET s == IF useSlots THEN Bank ELSE 0
          IN /\ IF hit \/ ReuseDirect THEN UNCHANGED ddrW ELSE PackWeights(s)
             /\ PackScales(s)
             /\ jobs' = [jobs EXCEPT ![Bank] =
                            WithReuse(Job(t, IF hit THEN Window ELSE s, s))]
             /\ staging' = IF hit \/ Serial \/ shape.cols = 1 THEN None ELSE WeightOf(t)
    /\ PackActivation /\ ahead' = FALSE /\ AfterPrepare
    /\ UNCHANGED <<config, tally, t, running, loaded, look, accum, dst, ddrOut, dma, helper, device>>

(***************************************************************************)
(* Retiring the running job                                                *)
(***************************************************************************)
SetDesc(j, i, o) == desc' = [tile |-> j.tile, in |-> i, out |-> o]

\* fpga_wait_and_drain_q8_tile_job up to the start of the SPU_OUT transfer.
Drain ==
    /\ pc = "drain"
    /\ IF Runner.ready \/ Runner.released \/ Runner.consumed \/ ip.tile # Runner.tile
         THEN pc' = "violated" /\ UNCHANGED <<dma, desc>>
         ELSE /\ ip.state = "final"
              /\ SetDesc(Runner, "FREE", "DMA_DRAINING")
              /\ dma' = <<out>> /\ pc' = "outDma"
    /\ UNCHANGED <<config, tally, t, jobs, running, ahead, staging, loaded, look, accum, dst, ddr,
                   helper, bankA, bankW, param, out, ip>>

OutDmaDone ==
    /\ pc = "outDma" /\ dma' = NoDma /\ ddrOut' = out
    /\ SetDesc(Runner, "FREE", "HOST_CONSUMING")
    /\ jobs' = [jobs EXCEPT ![running].ready = TRUE]
    /\ pc' = IF route = "contract" THEN "verify"
             ELSE IF overlap /\ Handoff THEN "release" ELSE "accumulate"
    /\ UNCHANGED <<config, tally, t, running, ahead, staging, loaded, look, accum, dst,
                   ddrAct, ddrW, ddrS, helper, bankA, bankW, param, out, ip>>

\* fpga_release_pl_scaled_q8_tile_job(*running, true): the FREE/FREE readback
\* ends hardware ownership while the DDR result still waits for its reader.
Release ==
    /\ pc = "release"
    /\ IF Runner.ready /\ ~Runner.released
         THEN /\ SetDesc(Runner, "FREE", "FREE") /\ pc' = "activation"
              /\ jobs' = [jobs EXCEPT ![running].released = TRUE]
         ELSE pc' = "violated" /\ UNCHANGED <<desc, jobs>>
    /\ UNCHANGED <<config, tally, t, running, ahead, staging, loaded, look, accum, dst, ddr, dma,
                   helper, bankA, bankW, param, out, ip>>

AddResult == accum' = [accum EXCEPT ![ColOf(Runner.tile)] = Append(@, ddrOut)]

\* fpga_accumulate_pl_scaled_q8_tile_job(*running, ..., true), at a handoff
\* without overlap, at the end of a row, or for every single-bank tile.
AccumulateAndRelease ==
    /\ pc = "accumulate"
    /\ IF Runner.ready /\ ~Runner.consumed /\ ~Runner.released
         THEN /\ AddResult /\ SetDesc(Runner, "FREE", "FREE")
              /\ jobs' = [jobs EXCEPT ![running].consumed = TRUE, ![running].released = TRUE]
              /\ IF Handoff /\ ~Serial
                   THEN pc' = "activation" /\ UNCHANGED running
                   ELSE pc' = (IF Serial THEN "retire" ELSE "store") /\ running' = NoJob
         ELSE pc' = "violated" /\ UNCHANGED <<accum, desc, jobs, running>>
    /\ UNCHANGED <<config, tally, t, ahead, staging, loaded, look, dst, ddr, dma, helper,
                   bankA, bankW, param, out, ip>>

\* Mutant: the late read of A also frees A's descriptor, after B has started.
AccumulatePendingAndFree ==
    /\ pc = "consume" /\ AddResult /\ pc' = "transition"
    /\ jobs' = [jobs EXCEPT ![running].consumed = TRUE]
    /\ SetDesc(Runner, "FREE", "FREE")
    /\ UNCHANGED <<config, tally, t, running, ahead, staging, loaded, look, dst, ddr, dma, helper,
                   bankA, bankW, param, out, ip>>

\* The same call with release_after_read = false, after B has started.
AccumulatePending ==
    /\ pc = "consume"
    /\ IF Runner.ready /\ ~Runner.consumed /\ Runner.released
         THEN /\ AddResult /\ pc' = "transition"
              /\ jobs' = [jobs EXCEPT ![running].consumed = TRUE]
         ELSE pc' = "violated" /\ UNCHANGED <<accum, jobs>>
    /\ UNCHANGED <<config, tally, t, running, ahead, staging, loaded, look, dst, ddr, dma, helper, device>>

(***************************************************************************)
(* The single-bank route: one tile outstanding, always in bank 0           *)
(***************************************************************************)
\* fpga_pl_scale_contract_verify_q16_tile: the result DMA'd to DDR against the
\* products of the tile's own weights, activations and scales.
VerifyTile ==
    /\ pc = "verify"
    /\ IF ddrOut = [w |-> Whole(WeightOf(t)), a |-> ActOf(t), s |-> Whole(t)]
         THEN pc' = "accumulate" /\ checked' = checked + 1
         ELSE pc' = "violated" /\ UNCHANGED checked
    /\ UNCHANGED <<config, boundary, t, jobs, running, ahead, staging, loaded, look,
                   accum, dst, ddr, dma, helper, device>>

LimitReached == checked >= limit    \* fpga_p2_cumulative_tile_limit_reached

\* Mutant: the limit stops the tile after the one that reached it.
RetireTileLate ==
    /\ pc = "retire"
    /\ IF route = "contract" /\ checked > limit
         THEN pc' = "boundary" /\ UNCHANGED t
         ELSE /\ t' = t + 1
              /\ pc' = IF (t + 1) % RowTiles = 0 THEN "store" ELSE "prepare"
    /\ UNCHANGED <<config, tally, jobs, running, ahead, staging, loaded, look, accum, dst,
                   ddr, dma, helper, device>>

RetireTile ==
    /\ pc = "retire"
    /\ IF route = "contract" /\ LimitReached
         THEN pc' = "boundary" /\ UNCHANGED t
         ELSE /\ t' = t + 1
              /\ pc' = IF (t + 1) % RowTiles = 0 THEN "store" ELSE "prepare"
    /\ UNCHANGED <<config, tally, jobs, running, ahead, staging, loaded, look, accum, dst,
                   ddr, dma, helper, device>>

\* fpga_p2_complete_tile_contract_boundary: the channel and the SPU at rest and
\* the descriptor read back FREE/FREE; the rest of the matmul is not attempted.
CompleteBoundary ==
    /\ pc = "boundary" /\ dma = NoDma /\ ip.state \in {"idle", "final"}
    /\ IF desc.in = "FREE" /\ desc.out = "FREE"
         THEN pc' = "returned" /\ boundary' = TRUE
         ELSE pc' = "violated" /\ UNCHANGED boundary
    /\ UNCHANGED <<config, checked, t, jobs, running, ahead, staging, loaded, look,
                   accum, dst, ddr, dma, helper, device>>

(***************************************************************************)
(* Preparing and submitting the next job                                   *)
(***************************************************************************)
\* fpga_p2_dma_pipeline_prepare_activation: the one ACT window is written late.
PrepareActivation ==
    /\ pc = "activation" /\ pc' = "admit"
    /\ ddrAct' = IF ahead THEN ActOf(Prepared.tile) ELSE ddrAct
    /\ UNCHANGED <<config, tally, t, jobs, running, ahead, staging, loaded, look, accum, dst,
                   ddrW, ddrS, ddrOut, dma, helper, device>>

\* Mutant: the current tile may sit in the slot the next one will use.
AdmissibleAnySource ==
    /\ pipeline /\ shape.cols = 1 /\ ~look.valid /\ ~Prepared.reused
    /\ t + 1 < Total
    /\ RowOf(t + 1) = RowOf(t) \/ CanCarry

Admissible ==
    /\ pipeline /\ shape.cols = 1 /\ ~look.valid
    /\ ~Prepared.reused /\ Prepared.src = Bank
    /\ t + 1 < Total
    /\ RowOf(t + 1) = RowOf(t) \/ CanCarry

\* fpga_p2_dma_pipeline_admit: the helper starts on its half of tile t+1 at once.
Admit ==
    /\ pc = "admit" /\ Admissible
    /\ IF look.submitted \/ helper.state # "idle"
         THEN pc' = "violated" /\ UNCHANGED <<look, helper>>
         ELSE /\ look' = [valid |-> TRUE, submitted |-> TRUE, tile |-> t + 1, main |-> 0]
              /\ helper' = [state |-> "working", tile |-> t + 1]
              /\ pc' = "submit"
    /\ UNCHANGED <<config, tally, t, jobs, running, ahead, staging, loaded, accum, dst, ddr, dma, device>>

\* Not eligible: too small, too large, resident, or no carry into that row.
AdmitNothing ==
    /\ pc = "admit" /\ pc' = "submit"
    /\ UNCHANGED <<config, tally, t, jobs, running, ahead, staging, loaded, look, accum, dst,
                   ddr, dma, helper, device>>

\* fpga_submit_q8_tile_job, one step per transfer.
Submit ==
    /\ pc = "submit" /\ pc' = "actDma"
    /\ SetDesc(Prepared, "DMA_FILLING", "FREE")
    /\ dma' = <<ddrAct>>
    /\ UNCHANGED <<config, tally, t, jobs, running, ahead, staging, loaded, look, accum, dst,
                   ddr, helper, bankA, bankW, param, out, ip>>

ActDmaDone ==
    /\ pc = "actDma" /\ pc' = "weight"
    /\ dma' = NoDma /\ bankA' = [bankA EXCEPT ![Bank] = ddrAct]
    /\ UNCHANGED <<config, tally, t, jobs, running, ahead, staging, loaded, look, accum, dst,
                   ddr, helper, bankW, param, out, ip, desc>>

WeightSource ==
    IF Prepared.src = Window THEN Whole(WeightOf(Prepared.tile)) ELSE ddrW[Prepared.src]

WeightDma ==
    /\ pc = "weight"
    /\ IF Prepared.reused THEN pc' = "quiescent" /\ UNCHANGED dma
                          ELSE pc' = "weightDma" /\ dma' = <<WeightSource>>
    /\ UNCHANGED <<config, tally, t, jobs, running, ahead, staging, loaded, look, accum, dst,
                   ddr, helper, device>>

WeightDmaDone ==
    /\ pc = "weightDma" /\ pc' = "quiescent"
    /\ dma' = NoDma /\ bankW' = [bankW EXCEPT ![Bank] = WeightSource]
    /\ UNCHANGED <<config, tally, t, jobs, running, ahead, staging, loaded, look, accum, dst,
                   ddr, helper, bankA, param, out, ip, desc>>

\* wait_spu_stream_quiescent, then the transfer into the shared SPU_PARAM window.
ScaleDma ==
    /\ pc = "quiescent" /\ pc' = "scaleDma"
    /\ ip.state \in {"idle", "final"}
    /\ dma' = <<ddrS[Prepared.slot]>>
    /\ UNCHANGED <<config, tally, t, jobs, running, ahead, staging, loaded, look, accum, dst,
                   ddr, helper, device>>

ScaleDmaDone ==
    /\ pc = "scaleDma" /\ pc' = "start"
    /\ dma' = NoDma /\ param' = ddrS[Prepared.slot]
    /\ UNCHANGED <<config, tally, t, jobs, running, ahead, staging, loaded, look, accum, dst,
                   ddr, helper, bankA, bankW, out, ip, desc>>

Start ==
    /\ pc = "start"
    /\ SetDesc(Prepared, "COMPUTING", "FREE")
    /\ ip' = [state |-> "vpu", bank |-> Bank, tile |-> Prepared.tile, raw |-> NoRaw]
    /\ running' = IF Serial THEN Bank ELSE running
    /\ pc' = IF Serial THEN "drain" ELSE IF running = NoJob THEN "finalize"
             ELSE IF overlap THEN "consume" ELSE "transition"
    /\ UNCHANGED <<config, tally, t, jobs, ahead, staging, loaded, look, accum, dst,
                   ddr, dma, helper, bankA, bankW, param, out>>

(***************************************************************************)
(* The host's half of the lookahead                                        *)
(***************************************************************************)
\* fpga_p2_dma_pipeline_pack_batch: the last batch completes the prefix.
PackBatch ==
    LET s == look.tile % 2
        last == look.main + 1 = MainBatches
    IN /\ look' = [look EXCEPT !.main = @ + 1]
       /\ ddrW' = [ddrW EXCEPT ![s][1] = IF last THEN WeightOf(look.tile) ELSE None]
       /\ ddrS' = [ddrS EXCEPT ![s][1] = IF last THEN look.tile ELSE None]

\* fpga_p2_dma_pipeline_poll, called while a transfer of the current tile runs.
Poll ==
    /\ pc \in {"actDma", "weightDma", "scaleDma"}
    /\ look.valid /\ look.main < MainBatches
    /\ PackBatch
    /\ UNCHANGED <<config, tally, pc, t, jobs, running, ahead, staging, loaded, accum, dst,
                   ddrAct, ddrOut, dma, helper, device>>

\* store_rows at a row transition: accum still belongs to A.
Transition ==
    /\ pc = "transition" /\ pc' = "finalize"
    /\ IF RowOf(Runner.tile) # RowOf(t)
         THEN dst' = [dst EXCEPT ![RowOf(Runner.tile)] = accum] /\ accum' = Empty
         ELSE UNCHANGED <<dst, accum>>
    /\ UNCHANGED <<config, tally, t, jobs, running, ahead, staging, loaded, look, ddr, dma,
                   helper, device>>

\* fpga_p2_dma_pipeline_finalize: what the polls left, then the helper.
FinalizePack ==
    /\ pc = "finalize" /\ look.valid /\ look.main < MainBatches
    /\ PackBatch
    /\ UNCHANGED <<config, tally, pc, t, jobs, running, ahead, staging, loaded, accum, dst,
                   ddrAct, ddrOut, dma, helper, device>>

\* Mutant: worker_submitted survives the join.
FinalizeJoinStillSubmitted ==
    /\ pc = "finalize" /\ look.valid /\ look.main = MainBatches
    /\ helper.state = "done"
    /\ helper' = [helper EXCEPT !.state = "idle"]
    /\ pc' = "advance"
    /\ UNCHANGED <<config, tally, t, jobs, running, ahead, staging, loaded, look, accum, dst,
                   ddr, dma, device>>

FinalizeJoin ==
    /\ pc = "finalize" /\ look.valid /\ look.main = MainBatches
    /\ helper.state = "done"
    /\ helper' = [helper EXCEPT !.state = "idle"]
    /\ look' = [look EXCEPT !.submitted = FALSE] /\ pc' = "advance"
    /\ UNCHANGED <<config, tally, t, jobs, running, ahead, staging, loaded, accum, dst, ddr, dma, device>>

NothingToFinalize ==
    /\ pc = "finalize" /\ ~look.valid /\ pc' = "advance"
    /\ UNCHANGED <<config, tally, t, jobs, running, ahead, staging, loaded, look, accum, dst,
                   ddr, dma, helper, device>>

(***************************************************************************)
(* Advancing, row ends, failure                                            *)
(***************************************************************************)
Advance ==
    /\ pc = "advance" /\ running' = Bank /\ t' = t + 1
    /\ IF (t + 1) % shape.cols = 0
         THEN staging' = None /\ loaded' = [b \in {0, 1} |-> FALSE]
         ELSE loaded' = [loaded EXCEPT ![Bank] = TRUE] /\ UNCHANGED staging
    /\ pc' = IF (t + 1) % RowTiles = 0 THEN "rowEnd" ELSE "prepare"
    /\ UNCHANGED <<config, tally, jobs, ahead, look, accum, dst, ddr, dma, helper, device>>

Carry ==
    /\ pc = "rowEnd" /\ t < Total /\ CanCarry /\ pc' = "row"
    /\ UNCHANGED <<config, tally, t, jobs, running, ahead, staging, loaded, look, accum, dst,
                   ddr, dma, helper, device>>

DrainRow ==
    /\ pc = "rowEnd" /\ pc' = "drain"
    /\ t < Total /\ CanCarry => resident
    /\ UNCHANGED <<config, tally, t, jobs, running, ahead, staging, loaded, look, accum, dst,
                   ddr, dma, helper, device>>

\* A qualified matmul is left to the native kernel: its rows are not stored.
StoreRows ==
    /\ pc = "store" /\ pc' = "row"
    /\ dst' = IF route = "contract" THEN dst ELSE [dst EXCEPT ![RowOf(t - 1)] = accum]
    /\ UNCHANGED <<config, tally, t, jobs, running, ahead, staging, loaded, look, accum, ddr,
                   dma, helper, device>>

\* A matmul that ends short of the tile limit leaves the boundary open.
Return ==
    /\ pc = "row" /\ t = Total
    /\ pc' = IF route = "contract" /\ (boundary \/ LimitReached)
             THEN "violated" ELSE "returned"
    /\ UNCHANGED <<config, tally, t, jobs, running, ahead, staging, loaded, look, accum, dst,
                   ddr, dma, helper, device>>

\* Every call the host makes on the way may return false: a failed preparation,
\* a transfer error or timeout, a descriptor that does not read back, a result
\* row with the wrong id, a device that never finishes, a batch or a helper
\* that cannot pack.  The function returns and its scope guard runs.
CallFails ==
    /\ pc \in {"prepare", "drain", "outDma", "release", "accumulate", "activation",
               "admit", "submit", "actDma", "weightDma", "quiescent", "scaleDma",
               "start", "consume", "finalize", "verify", "boundary"}
    /\ pc' = "unwind" /\ dma' = NoDma
    /\ look' = [look EXCEPT !.valid = FALSE]
    /\ UNCHANGED <<config, tally, t, jobs, running, ahead, staging, loaded, accum, dst, ddr,
                   helper, device>>

\* fpga_p2_dma_pipeline_invalidate: the helper is joined before the return.
Unwind ==
    /\ pc = "unwind" /\ pc' = "failed"
    /\ IF look.submitted
         THEN /\ helper.state = "done"
              /\ helper' = [helper EXCEPT !.state = "idle"]
              /\ look' = [look EXCEPT !.submitted = FALSE]
         ELSE UNCHANGED <<helper, look>>
    /\ UNCHANGED <<config, tally, t, jobs, running, ahead, staging, loaded, accum, dst, ddr, dma, device>>

(***************************************************************************)
(* The helper and the accelerator                                          *)
(***************************************************************************)
\* fpga_p2_pack_worker_main on its suffix: torn while it writes, then whole.
HelperBegin ==
    /\ helper.state = "working" /\ helper' = [helper EXCEPT !.state = "half"]
    /\ ddrW' = [ddrW EXCEPT ![helper.tile % 2][2] = None]
    /\ ddrS' = [ddrS EXCEPT ![helper.tile % 2][2] = None]
    /\ UNCHANGED <<config, hostVars, ddrAct, ddrOut, dma, device>>

\* Mutant: the helper starts its range over instead of publishing it.
HelperRepeats ==
    /\ helper.state = "half" /\ helper' = [helper EXCEPT !.state = "working"]
    /\ UNCHANGED <<config, hostVars, ddr, dma, device>>

HelperDone ==
    /\ helper.state = "half" /\ helper' = [helper EXCEPT !.state = "done"]
    /\ ddrW' = [ddrW EXCEPT ![helper.tile % 2][2] = WeightOf(helper.tile)]
    /\ ddrS' = [ddrS EXCEPT ![helper.tile % 2][2] = helper.tile]
    /\ UNCHANGED <<config, hostVars, ddrAct, ddrOut, dma, device>>

\* The VPU multiplies what its bank holds, the SPU scales it with SPU_PARAM.
VpuDone ==
    /\ ip.state = "vpu"
    /\ ip' = [ip EXCEPT !.state = "spu", !.raw = <<bankW[ip.bank], bankA[ip.bank]>>]
    /\ UNCHANGED <<config, hostVars, ddr, dma, helper, bankA, bankW, param, out, desc>>

SpuFinal ==
    /\ ip.state = "spu" /\ ip' = [ip EXCEPT !.state = "final"]
    /\ out' = [w |-> ip.raw[1], a |-> ip.raw[2], s |-> param]
    /\ UNCHANGED <<config, hostVars, ddr, dma, helper, bankA, bankW, param, desc>>

Host ==
    \/ BeginRow \/ Consume \/ PrepareDirect \/ Drain \/ OutDmaDone \/ Release
    \/ AccumulateAndRelease \/ AccumulatePending \/ PrepareActivation \/ Admit
    \/ AdmitNothing \/ Submit \/ ActDmaDone \/ WeightDma \/ WeightDmaDone \/ ScaleDma
    \/ ScaleDmaDone \/ Start \/ Poll \/ Transition \/ FinalizePack \/ FinalizeJoin
    \/ NothingToFinalize \/ Advance \/ Carry \/ DrainRow \/ StoreRows \/ Return
    \/ VerifyTile \/ RetireTile \/ CompleteBoundary \/ CallFails \/ Unwind
Helper == HelperBegin \/ HelperDone
Device == VpuDone \/ SpuFinal

Finished == pc \in {"returned", "failed"} /\ UNCHANGED vars

Next == Host \/ Helper \/ Device \/ Finished

\* The host and the helper are scheduled threads; the accelerator owes nothing:
\* a device that never finishes ends in a timed-out call.
Spec == Init /\ [][Next]_vars /\ WF_vars(Host) /\ WF_vars(Helper)

(***************************************************************************)
(* Properties                                                              *)
(***************************************************************************)
\* No transfer reads a DDR window that someone is writing: neither the poll
\* hook nor the helper, who pack tile t+1 while tile t's WEIGHT and SCALE
\* windows are in flight, nor the next preparation touches its source.
DmaSourceStable ==
    /\ pc = "actDma"    => dma = <<ddrAct>>
    /\ pc = "weightDma" => dma = <<WeightSource>>
    /\ pc = "scaleDma"  => dma = <<ddrS[Prepared.slot]>>
    /\ pc = "outDma"    => dma = <<out>>

\* None of the fail-closed checks of the scheduler can fire on its own account:
\* not the result-ownership checks of drain, release and consume, not the
\* lookahead match at consume, not the busy-helper check at admission, and not
\* the tile, descriptor and limit checks of a qualification.  And however the
\* function returns, the helper has been joined: no thread writes a source slot
\* that the next matmul may use.
OwnershipHolds ==
    /\ pc # "violated"
    /\ pc \in {"returned", "failed"} => helper.state = "idle" /\ ~look.submitted

\* While a job computes, nothing it reads changes: not its bank, not the
\* shared SPU_PARAM window, and not the un-banked descriptor, which A's late
\* accounting must therefore leave alone.
ComputeUndisturbed ==
    [][ip.state \in {"vpu", "spu"} =>
          /\ bankA'[ip.bank] = bankA[ip.bank] /\ bankW'[ip.bank] = bankW[ip.bank]
          /\ param' = param /\ desc' = desc]_vars

\* A matmul always comes back, whatever the accelerator does.
MatmulReturns == <>(pc \in {"returned", "failed"})

\* The schedulers implement the contract of a matmul: whole rows, in order,
\* each once and each the product of its own weights, activations and scales;
\* or, in a qualification, as many tiles as the limit allows and no row.
Contract == INSTANCE MatmulContract WITH
    qualify <- route = "contract",
    status <- IF pc \in {"returned", "failed"} THEN pc ELSE "running"

ImplementsMatmul == Contract!Spec
=============================================================================
