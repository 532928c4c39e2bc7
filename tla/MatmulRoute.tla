----------------------------- MODULE MatmulRoute -----------------------------
(***************************************************************************)
(* How the workers of a ggml thread pool agree on who computes a MUL_MAT   *)
(* node: ggml_compute_forward_mul_mat (ggml-cpu.c) lets thread 0 call      *)
(* fpga_try_matmul_extended (fpga_host.cpp), publishes the answer in one   *)
(* process-wide atomic between two barriers, and every worker then either  *)
(* returns or runs its share of the native kernel.                         *)
(***************************************************************************)
EXTENDS Naturals, Sequences

CONSTANTS
    Pools,         \* the thread pools of the process
    NumThreads,    \* workers of a pool
    Graph,         \* kinds of the MUL_MAT nodes every pool evaluates
    NumChunks,     \* chunks of a native multiplication
    NumTiles,      \* tiles of a matmul on the accelerator
    Limits         \* 0, or the boundary of a qualification run

ASSUME RouteAssumption ==
    /\ NumThreads \in Nat \ {0, 1} /\ NumChunks \in Nat \ {0}
    /\ NumTiles \in Nat \ {0} /\ Limits \subseteq Nat
    /\ Graph \in Seq({"q8", "vocab", "other"}) /\ Graph # <<>>

VARIABLES
    config,      \* what the environment and fpga_init have set up
    route,       \* g_fpga_mul_mat_route
    dead,        \* fpga_fatal was called
    pc, waiting, \* per worker: position, and spinning in ggml_barrier
    node,        \* per worker: index of the node
    taken,       \* per worker: the route it loaded
    chunk,       \* per worker: the chunk it computes
    seen,        \* per worker: n_barrier_passed when it entered
    nBarrier, nPassed, currentChunk,  \* per pool: ggml_threadpool
    decided,     \* per pool: thread 0's answer for its node
    wdata,       \* per worker: node of its slice of the converted src1
    stores,      \* per pool, node and chunk: native stores to dst
    fpgaDst,     \* per pool: nodes whose dst the host has stored
    counts       \* the host's run counters

workers == <<pc, waiting, node, taken, chunk, seen>>
shared  == <<nBarrier, nPassed, currentChunk, decided>>
data    == <<wdata, stores, fpgaDst>>
vars    == <<config, route, dead, workers, shared, data, counts>>

Threads == 0..(NumThreads - 1)
Nodes   == 1..Len(Graph)
Chunks  == 0..(NumChunks - 1)
NotHandled == 0
FpgaDst    == 1
CpuShadow  == 2
Routes  == {NotHandled, FpgaDst, CpuShadow}
Shadow  == config.limit > 0       \* g_contract_cpu_shadow_dst

Barriers == {"b1", "b2", "b3", "b4"}
Pc == Barriers \cup {"hook", "locked", "publish", "load", "convert",
                     "compute", "finished"}

\* The pool's and the host's data have their types; a native chunk index or a
\* node index past the end is never acted upon.
TypeOK ==
    /\ route \in Routes /\ dead \in BOOLEAN
    /\ pc \in [Pools -> [Threads -> Pc]]
    /\ node \in [Pools -> [Threads -> Nodes]]
    /\ taken \in [Pools -> [Threads -> Routes]]
    /\ chunk \in [Pools -> [Threads -> 0..(NumChunks + NumThreads)]]
    /\ nBarrier \in [Pools -> 0..(NumThreads - 1)]
    /\ decided \in [Pools -> Routes]
    /\ stores \in [Pools -> [Nodes -> [Chunks -> 0..NumThreads]]]

PerWorker(v) == [p \in Pools |-> [w \in Threads |-> v]]

\* A qualification counts matmuls (FPGA_CONTRACT_CHECK) or, under P2, tiles
\* (FPGA_PL_SCALE_CONTRACT_CHECK with FPGA_P2_TILE_LIMIT), never both; audit and
\* benchmark refuse either.
Init ==
    /\ config \in [mode : {"normal", "audit", "bench"}, ready : BOOLEAN,
                   vocabBypass : BOOLEAN, abortOnCpu : BOOLEAN, limit : Limits,
                   perTile : BOOLEAN]
    /\ config.mode # "normal" => config.limit = 0
    /\ config.mode = "audit" => ~config.ready
    /\ config.mode = "bench" => ~config.abortOnCpu
    /\ config.perTile => config.limit > 0
    /\ route = NotHandled /\ dead = FALSE
    /\ pc = PerWorker("b1") /\ waiting = PerWorker(FALSE)
    /\ node = PerWorker(1) /\ taken = PerWorker(NotHandled)
    /\ chunk = PerWorker(0) /\ seen = PerWorker(0)
    /\ nBarrier = [p \in Pools |-> 0] /\ nPassed = [p \in Pools |-> 0]
    /\ currentChunk = [p \in Pools |-> 0]
    /\ decided = [p \in Pools |-> NotHandled]
    /\ wdata = PerWorker(0)
    /\ stores = [p \in Pools |-> [n \in Nodes |-> [c \in Chunks |-> 0]]]
    /\ fpgaDst = [p \in Pools |-> {}]
    /\ counts = [candidates |-> 0, intentional |-> 0, unavailable |-> 0,
                 limitBypass |-> 0, fpga |-> 0, checks |-> 0, launched |-> 0]

Set(v, p, w, x) == [v EXCEPT ![p][w] = x]
Goto(p, w, next) == pc' = Set(pc, p, w, next)

-----------------------------------------------------------------------------
(* ggml_barrier: one counter for every barrier of the pool *)

\* Where a worker goes from each barrier of ggml_compute_forward_mul_mat and
\* ggml_graph_compute_thread; "b4" ends the node.
Enabled == config.ready \/ config.mode = "audit"
AfterBarrier(p, w) ==
    CASE pc[p][w] = "b1" -> IF ~Enabled THEN "convert"
                            ELSE IF w = 0 THEN "hook" ELSE "b2"
      [] pc[p][w] = "b2" -> "load"
      [] pc[p][w] = "b3" -> "compute"
      [] pc[p][w] = "b4" -> IF node[p][w] < Len(Graph) THEN "b1" ELSE "finished"

NextNode(p, w) ==
    node' = IF pc[p][w] = "b4" /\ node[p][w] < Len(Graph)
            THEN Set(node, p, w, node[p][w] + 1) ELSE node

\* Every worker begins a native multiplication with the chunk of its number.
FirstChunk(p, w) ==
    chunk' = IF pc[p][w] = "b3" THEN Set(chunk, p, w, w) ELSE chunk

Proceed(p, w) == /\ Goto(p, w, AfterBarrier(p, w))
                 /\ NextNode(p, w) /\ FirstChunk(p, w)

EnterBarrier(p, w) ==
    /\ pc[p][w] \in Barriers /\ ~waiting[p][w]
    /\ IF nBarrier[p] = NumThreads - 1
       THEN /\ nBarrier' = [nBarrier EXCEPT ![p] = 0]
            /\ nPassed' = [nPassed EXCEPT ![p] = @ + 1]
            /\ Proceed(p, w) /\ UNCHANGED <<waiting, seen>>
       ELSE /\ nBarrier' = [nBarrier EXCEPT ![p] = @ + 1]
            /\ seen' = Set(seen, p, w, nPassed[p])
            /\ waiting' = Set(waiting, p, w, TRUE)
            /\ UNCHANGED <<nPassed, pc, node, chunk>>
    /\ UNCHANGED <<config, route, dead, taken, currentChunk, decided, data,
                   counts>>

LeaveBarrier(p, w) ==
    /\ waiting[p][w] /\ nPassed[p] # seen[p][w]
    /\ waiting' = Set(waiting, p, w, FALSE) /\ Proceed(p, w)
    /\ UNCHANGED <<config, route, dead, taken, seen, shared, data, counts>>

-----------------------------------------------------------------------------
(* fpga_try_matmul_extended, called by thread 0 *)

Kind(p) == Graph[node[p][0]]
Candidate(p) == Kind(p) \in {"q8", "vocab"}   \* q8_f32_f32_candidate
Add(field, b) == [counts EXCEPT ![field] = @ + (IF b THEN 1 ELSE 0)]
Called(p) == IF config.mode = "audit" THEN counts ELSE Add("candidates", Candidate(p))

Answer(p, r) == decided' = [decided EXCEPT ![p] = r] /\ Goto(p, 0, "publish")

\* Mutant of AtBoundary: off by one.
PastBoundary(p) == Candidate(p) /\ Shadow /\ counts.checks > config.limit

\* The boundary of a qualification run, read without the mutex.
AtBoundary(p) == Candidate(p) /\ Shadow /\ counts.checks >= config.limit

\* The routes that leave the node to the native kernel: source audit and
\* benchmark capture (either of which may find the tensor bad and abort), the
\* qualification boundary, the vocabulary projection.
LeftToCpu(p) == \/ config.mode \in {"audit", "bench"} \/ AtBoundary(p)
                \/ config.vocabBypass /\ Kind(p) = "vocab"

\* Mutant of CountBypass: the vocabulary bypass is not counted.
CountBypassVocabMissed(p) ==
    [Called(p) EXCEPT !.limitBypass = @ + (IF AtBoundary(p) THEN 1 ELSE 0)]

CountBypass(p) ==
    IF config.mode \in {"audit", "bench"} THEN Called(p)
    ELSE IF AtBoundary(p) THEN [Called(p) EXCEPT !.limitBypass = @ + 1]
    ELSE [Called(p) EXCEPT !.intentional = @ + (IF Candidate(p) THEN 1 ELSE 0)]

HookBypass(p) ==
    /\ pc[p][0] = "hook" /\ LeftToCpu(p)
    /\ counts' = CountBypass(p)
    /\ \/ Answer(p, NotHandled) /\ UNCHANGED dead
       \/ config.mode \in {"audit", "bench"} /\ Candidate(p) /\ dead' = TRUE
          /\ UNCHANGED <<pc, decided>>
    /\ UNCHANGED <<config, route, waiting, node, taken, chunk, seen, nBarrier,
                   nPassed, currentChunk, data>>

\* The tensors are not what the accelerator takes (always so for a node that
\* is not a candidate), or the device is not mapped.
HookReject(p) ==
    /\ pc[p][0] = "hook" /\ ~LeftToCpu(p)
    /\ counts' = [Called(p) EXCEPT
                    !.unavailable = @ + (IF Candidate(p) THEN 1 ELSE 0)]
    /\ IF config.abortOnCpu
       THEN dead' = TRUE /\ UNCHANGED <<pc, decided>>
       ELSE Answer(p, NotHandled) /\ UNCHANGED dead
    /\ UNCHANGED <<config, route, waiting, node, taken, chunk, seen, nBarrier,
                   nPassed, currentChunk, data>>

HookAccept(p) ==
    /\ pc[p][0] = "hook" /\ ~LeftToCpu(p) /\ Candidate(p)
    /\ counts' = Called(p) /\ Goto(p, 0, "locked")
    /\ UNCHANGED <<config, route, dead, waiting, node, taken, chunk, seen,
                   shared, data>>

\* fpga_hw_q8_0_matmul_dma_to_ip: how much of the boundary this matmul uses up.
\* A tile qualification stops the matmul at the limit.
Active == counts.checks < config.limit
Checks == IF ~Active THEN 0 ELSE IF ~config.perTile THEN 1
          ELSE IF NumTiles < config.limit - counts.checks THEN NumTiles
          ELSE config.limit - counts.checks

\* What it launches: past the boundary it would be an ordinary matmul.
Launches == IF Active THEN Checks ELSE IF config.perTile THEN NumTiles ELSE 1

\* Under g_mutex: the hardware matmul, which stores dst itself unless GGML is to
\* do so.  One that reaches the tile limit is not counted as a matmul.  Any
\* failure of it is fatal.
HookRun(p) ==
    /\ pc[p][0] = "locked"
    /\ \/ /\ counts' = [counts EXCEPT !.checks = @ + Checks, !.launched = @ + Launches,
                          !.fpga = @ + (IF config.perTile /\ counts.checks + Checks >= config.limit
                                        THEN 0 ELSE 1)]
          /\ fpgaDst' = IF Shadow THEN fpgaDst
                        ELSE [fpgaDst EXCEPT ![p] = @ \cup {node[p][0]}]
          /\ Answer(p, IF Shadow THEN CpuShadow ELSE FpgaDst)
          /\ UNCHANGED dead
       \/ dead' = TRUE /\ UNCHANGED <<counts, fpgaDst, pc, decided>>
    /\ UNCHANGED <<config, route, waiting, node, taken, chunk, seen, nBarrier,
                   nPassed, currentChunk, wdata, stores>>

\* Mutant of Publish: only a handled node is published.
PublishHandledOnly(p) ==
    /\ pc[p][0] = "publish" /\ Goto(p, 0, "b2")
    /\ route' = IF decided[p] # NotHandled THEN decided[p] ELSE route
    /\ UNCHANGED <<config, dead, waiting, node, taken, chunk, seen, shared,
                   data, counts>>

\* Mutant of Publish: thread 0 returns at once from a node the FPGA has done.
PublishReturns(p) ==
    /\ pc[p][0] = "publish" /\ route' = decided[p]
    /\ Goto(p, 0, IF decided[p] = FpgaDst THEN "b4" ELSE "b2")
    /\ UNCHANGED <<config, dead, waiting, node, taken, chunk, seen, shared,
                   data, counts>>

Publish(p) ==
    /\ pc[p][0] = "publish" /\ Goto(p, 0, "b2") /\ route' = decided[p]
    /\ UNCHANGED <<config, dead, waiting, node, taken, chunk, seen, shared,
                   data, counts>>

-----------------------------------------------------------------------------
(* Every worker *)

\* Mutant of Load: a verification shadow is taken for a finished node.
LoadShadowReturns(p, w) ==
    /\ pc[p][w] = "load" /\ taken' = Set(taken, p, w, route)
    /\ Goto(p, w, IF route # NotHandled THEN "b4" ELSE "convert")
    /\ UNCHANGED <<config, route, dead, waiting, node, chunk, seen, shared,
                   data, counts>>

Load(p, w) ==
    /\ pc[p][w] = "load" /\ taken' = Set(taken, p, w, route)
    /\ Goto(p, w, IF route = FpgaDst THEN "b4" ELSE "convert")
    /\ UNCHANGED <<config, route, dead, waiting, node, chunk, seen, shared,
                   data, counts>>

\* Mutant of Convert: the barrier before the multiplication is missing.
ConvertNoBarrier(p, w) ==
    /\ pc[p][w] = "convert"
    /\ wdata' = Set(wdata, p, w, node[p][w])
    /\ currentChunk' = IF w = 0 THEN [currentChunk EXCEPT ![p] = NumThreads]
                       ELSE currentChunk
    /\ chunk' = Set(chunk, p, w, w) /\ Goto(p, w, "compute")
    /\ UNCHANGED <<config, route, dead, waiting, node, taken, seen, nBarrier,
                   nPassed, decided, stores, fpgaDst, counts>>

\* The worker converts its slice of src1; thread 0 resets the chunk counter.
Convert(p, w) ==
    /\ pc[p][w] = "convert" /\ Goto(p, w, "b3")
    /\ wdata' = Set(wdata, p, w, node[p][w])
    /\ currentChunk' = IF w = 0 THEN [currentChunk EXCEPT ![p] = NumThreads]
                       ELSE currentChunk
    /\ UNCHANGED <<config, route, dead, waiting, node, taken, chunk, seen,
                   nBarrier, nPassed, decided, stores, fpgaDst, counts>>

\* One chunk of the native product; the next one comes from the shared counter.
Compute(p, w) ==
    /\ pc[p][w] = "compute"
    /\ IF chunk[p][w] \in Chunks
       THEN /\ stores' = [stores EXCEPT ![p][node[p][w]][chunk[p][w]] = @ + 1]
            /\ IF NumThreads >= NumChunks
               THEN Goto(p, w, "b4") /\ UNCHANGED <<chunk, currentChunk>>
               ELSE /\ chunk' = Set(chunk, p, w, currentChunk[p])
                    /\ currentChunk' = [currentChunk EXCEPT ![p] = @ + 1]
                    /\ UNCHANGED pc
       ELSE Goto(p, w, "b4") /\ UNCHANGED <<stores, chunk, currentChunk>>
    /\ UNCHANGED <<config, route, dead, waiting, node, taken, seen, nBarrier,
                   nPassed, decided, wdata, fpgaDst, counts>>

Hook(p) == HookBypass(p) \/ HookReject(p) \/ HookAccept(p) \/ HookRun(p) \/ Publish(p)

Step(p, w) == /\ ~dead
              /\ \/ EnterBarrier(p, w) \/ LeaveBarrier(p, w)
                 \/ w = 0 /\ Hook(p)
                 \/ Load(p, w) \/ Convert(p, w) \/ Compute(p, w)

Finished == \A p \in Pools, w \in Threads : pc[p][w] = "finished"

\* The barrier is a spin loop, and an aborted or finished process stays so.
Spins == \E p \in Pools, w \in Threads : waiting[p][w]

Next == \/ \E p \in Pools, w \in Threads : Step(p, w)
        \/ (dead \/ Finished \/ Spins) /\ UNCHANGED vars

\* Every worker that can run is scheduled.
Fairness == \A p \in Pools, w \in Threads : WF_vars(Step(p, w))

Spec == Init /\ [][Next]_vars /\ Fairness

-----------------------------------------------------------------------------
(* Properties *)

\* "Every worker consumes that same decision": what a worker acts upon is the
\* answer the host gave to this pool for this node.
OneDecision ==
    \A p \in Pools, w \in Threads :
        pc[p][w] \in {"convert", "b3", "compute", "b4"} /\ Enabled
            => taken[p][w] = decided[p]

\* When all workers are past a node, its dst was stored by exactly one owner:
\* the host alone, or each chunk once by the native kernel.
DstStoredOnce ==
    \A p \in Pools, n \in Nodes :
        (\A w \in Threads : node[p][w] > n \/ pc[p][w] = "finished") =>
            \A c \in Chunks : stores[p][n][c] = IF n \in fpgaDst[p] THEN 0 ELSE 1

\* A native chunk is computed from a completely converted src1.
NativeReadsConverted ==
    \A p \in Pools, w \in Threads : pc[p][w] = "compute" =>
        \A v \in Threads : wdata[p][v] = node[p][w]

\* N is "a strict qualification boundary": no more than N matmuls of a
\* qualification run, or tiles of all its matmuls together, reach the hardware,
\* and nothing reaches it unchecked.
StrictBoundary ==
    Shadow => counts.launched <= config.limit /\ counts.launched = counts.checks

\* The coverage report of cleanup: without a qualification limit, every
\* candidate was either run on the FPGA or counted as one of the exceptions.
CoverageExact ==
    (config.mode = "normal" /\ config.limit = 0 /\ ~dead
        /\ \A p \in Pools : pc[p][0] # "locked") =>
        counts.fpga = counts.candidates - counts.intentional - counts.unavailable

\* Every graph is evaluated to its end unless the host aborts.
GraphFinishes == <>(dead \/ Finished)

=============================================================================
