-------------------------- MODULE MatmulRouteProofs --------------------------
(***************************************************************************)
(* Proofs about MatmulRoute for any number of workers, chunks and tiles,   *)
(* any graph and any qualification limit, in a process with one pool.      *)
(* With two pools the decision is not shared correctly, as a run shows.    *)
(***************************************************************************)
EXTENDS MatmulRoute, FiniteSetTheorems, TLAPS

\* The process computes graphs on one thread pool at a time.
OnePool == \A p, q \in Pools : p = q

(***************************************************************************)
(* The inductive invariant.  The workers of a pool are always in the same  *)
(* section between two barriers: X is the barrier that opened the section  *)
(* and n the node it belongs to (for "b4" the one just finished).          *)
(***************************************************************************)
Blocked(p, w)  == waiting[p][w] /\ seen[p][w] = nPassed[p]
Released(p, w) == waiting[p][w] /\ seen[p][w] # nPassed[p]

BarrierCounts(p) ==
    /\ nBarrier[p] = Cardinality({w \in Threads : Blocked(p, w)})
    /\ nBarrier[p] <= NumThreads - 1
    /\ \A w \in Threads : waiting[p][w] => pc[p][w] \in Barriers /\ seen[p][w] <= nPassed[p]

\* Where a worker may be in section X.
Positions(p, w, X) ==
    CASE X = "b1" -> IF ~Enabled THEN {"convert", "b3"}
                     ELSE IF w = 0 THEN {"hook", "locked", "publish", "b2"} ELSE {"b2"}
      [] X = "b2" -> {"load"} \cup (IF decided[p] = FpgaDst THEN {"b4"} ELSE {"convert", "b3"})
      [] X = "b3" -> {"compute", "b4"}
      [] X = "b4" -> {"b1", "finished"}

\* A released worker still stands at the barrier that opened the section.
Member(p, w, X, n) ==
    IF Released(p, w) THEN pc[p][w] = X /\ node[p][w] = n
    ELSE /\ pc[p][w] \in Positions(p, w, X)
         /\ pc[p][w] = "finished" => n = Len(Graph)
         /\ pc[p][w] = "b1" => n < Len(Graph)
         /\ node[p][w] = IF pc[p][w] = "b1" THEN n + 1 ELSE n

Together(p, X, n) == \A w \in Threads : Member(p, w, X, n)

\* The answer in decided is the one published, and the one taken.
Agreed(p, X) ==
    /\ X = "b2" => Enabled /\ route = decided[p]
    /\ X = "b1" /\ pc[p][0] = "b2" => route = decided[p]
    /\ Enabled => /\ X = "b3" => decided[p] # FpgaDst
                  /\ \A w \in Threads : pc[p][w] \in {"convert", "b3", "compute", "b4"}
                        => taken[p][w] = decided[p]

Answered(p, X) == X = "b2" \/ (X = "b1" /\ pc[p][0] \in {"publish", "b2"})

\* The host has stored the node exactly when that is its answer.
HostStores(p, X, n) ==
    /\ \A m \in fpgaDst[p] : m <= n
    /\ X # "b4" => (n \in fpgaDst[p] <=> Answered(p, X) /\ decided[p] = FpgaDst)

Converted(p, X, n) ==
    /\ \A w \in Threads : X = "b3" \/ pc[p][w] = "b3" => wdata[p][w] = n
    /\ X \in {"b1", "b2"} /\ pc[p][0] = "b3" => currentChunk[p] = NumThreads

\* The chunks a worker of section "b3" has been given and not yet computed.
Held(p, w) == IF pc[p][w] = "b3" THEN {w}
              ELSE IF pc[p][w] = "compute" THEN {chunk[p][w]} ELSE {}

\* Every chunk below the shared counter is held by one worker or stored once.
ChunksDealt(p, n) ==
    /\ currentChunk[p] >= NumThreads
    /\ \A w \in Threads : \A c \in Held(p, w) : c < currentChunk[p]
    /\ \A v, w \in Threads : v # w => Held(p, v) \cap Held(p, w) = {}
    /\ \A w \in Threads : pc[p][w] = "b4" => currentChunk[p] >= NumChunks
    /\ \A c \in Chunks : stores[p][n][c] =
          IF c < currentChunk[p] /\ \A w \in Threads : c \notin Held(p, w) THEN 1 ELSE 0

Completed(p, m) == \A c \in Chunks : stores[p][m][c] = IF m \in fpgaDst[p] THEN 0 ELSE 1

NativeStores(p, X, n) ==
    /\ \A m \in Nodes : m > n \/ (m = n /\ X \in {"b1", "b2"}) => \A c \in Chunks : stores[p][m][c] = 0
    /\ \A m \in Nodes : m < n \/ (m = n /\ X = "b4") => Completed(p, m)
    /\ X = "b3" => ChunksDealt(p, n)

Section(p, X, n) ==
    /\ X = "b4" \/ n # 0
    /\ Together(p, X, n) /\ Agreed(p, X) /\ HostStores(p, X, n)
    /\ Converted(p, X, n) /\ NativeStores(p, X, n)

Types ==
    /\ route \in Routes /\ dead \in BOOLEAN
    /\ pc \in [Pools -> [Threads -> Pc]] /\ waiting \in [Pools -> [Threads -> BOOLEAN]]
    /\ node \in [Pools -> [Threads -> Nodes]] /\ taken \in [Pools -> [Threads -> Routes]]
    /\ chunk \in [Pools -> [Threads -> Nat]] /\ seen \in [Pools -> [Threads -> Nat]]
    /\ nBarrier \in [Pools -> Nat] /\ nPassed \in [Pools -> Nat]
    /\ currentChunk \in [Pools -> Nat] /\ decided \in [Pools -> Routes]
    /\ wdata \in [Pools -> [Threads -> Nat]]
    /\ stores \in [Pools -> [Nodes -> [Chunks -> Nat]]]
    /\ fpgaDst \in [Pools -> SUBSET Nodes]

PoolInv == \A p \in Pools : BarrierCounts(p) /\ \E X \in Barriers, n \in 0..Len(Graph) : Section(p, X, n)

\* The run counters add up, with a matmul on the hardware still to be counted.
CountsTyped ==
    /\ counts \in [candidates : Nat, intentional : Nat, unavailable : Nat,
                   limitBypass : Nat, fpga : Nat, checks : Nat, launched : Nat]
    /\ config.limit \in Nat /\ (config.perTile => config.limit > 0)

BoundaryKept ==
    Shadow => /\ counts.launched = counts.checks /\ counts.checks <= config.limit
              /\ \A p \in Pools : pc[p][0] = "locked" => counts.checks < config.limit

CoverageAdds ==
    config.mode = "normal" /\ config.limit = 0 =>
        counts.candidates = counts.fpga + counts.intentional + counts.unavailable
            + (IF \E p \in Pools : pc[p][0] = "locked" THEN 1 ELSE 0)

CountsInv == CountsTyped /\ BoundaryKept /\ CoverageAdds

Inv == Types /\ PoolInv /\ CountsInv

(***************************************************************************)
(* Preliminaries                                                           *)
(***************************************************************************)

\* The constants, in the form the proofs use them.
LEMMA Constants ==
  /\ NumThreads \in Nat /\ NumThreads >= 2 /\ 0 \in Threads /\ Threads \subseteq Nat
  /\ NumChunks \in Nat /\ NumTiles \in Nat /\ NumTiles >= 1 /\ Chunks \subseteq Nat
  /\ Len(Graph) \in Nat /\ Len(Graph) >= 1 /\ Nodes \subseteq Nat
  /\ \A n \in Nodes : Graph[n] \in {"q8", "vocab", "other"}
  BY RouteAssumption DEF Threads, Chunks, Nodes

\* A store to one worker's field leaves the others' alone.
LEMMA SetAt ==
  ASSUME NEW S, NEW f \in [Pools -> [Threads -> S]], NEW p \in Pools, NEW w \in Threads, NEW x \in S
  PROVE  /\ Set(f, p, w, x) \in [Pools -> [Threads -> S]]
         /\ Set(f, p, w, x)[p][w] = x
         /\ \A v \in Threads : v # w => Set(f, p, w, x)[p][v] = f[p][v]
  BY DEF Set

\* A step is an action of one worker of one pool, or changes nothing.
LEMMA NextCases ==
  ASSUME [Next]_vars
  PROVE  \/ \E p \in Pools, w \in Threads :
               \/ EnterBarrier(p, w) \/ LeaveBarrier(p, w)
               \/ w = 0 /\ (HookBypass(p) \/ HookReject(p) \/ HookAccept(p) \/ HookRun(p) \/ Publish(p))
               \/ Load(p, w) \/ Convert(p, w) \/ Compute(p, w)
         \/ UNCHANGED vars
  BY DEF Next, Step, Hook

\* Passing a barrier leads to another place of the same or the next node.
LEMMA ProceedTyped ==
  ASSUME Types, NEW p \in Pools, NEW w \in Threads, pc[p][w] \in Barriers, Proceed(p, w)
  PROVE  /\ pc' \in [Pools -> [Threads -> Pc]] /\ node' \in [Pools -> [Threads -> Nodes]]
         /\ chunk' \in [Pools -> [Threads -> Nat]]
<1>1. AfterBarrier(p, w) \in Pc
  BY DEF AfterBarrier, Barriers, Pc
<1>2. pc' \in [Pools -> [Threads -> Pc]]
  BY <1>1, SetAt DEF Proceed, Goto, Types
<1>3. node[p][w] \in Nodes /\ (node[p][w] < Len(Graph) => node[p][w] + 1 \in Nodes)
  BY Constants DEF Types, Nodes
<1>4. node' \in [Pools -> [Threads -> Nodes]]
  BY <1>3, SetAt DEF Proceed, NextNode, Types
<1>5. chunk' \in [Pools -> [Threads -> Nat]]
  BY Constants, SetAt DEF Proceed, FirstChunk, Types
<1> QED
  BY <1>2, <1>4, <1>5

\* Thread 0 has an answer for its node.
LEMMA AnswerTyped ==
  ASSUME Types, NEW p \in Pools, NEW r \in Routes, Answer(p, r)
  PROVE  pc' \in [Pools -> [Threads -> Pc]] /\ decided' \in [Pools -> Routes]
<1>1. Set(pc, p, 0, "publish") \in [Pools -> [Threads -> Pc]]
  BY Constants, SetAt DEF Types, Pc
<1>2. [decided EXCEPT ![p] = r] \in [Pools -> Routes]
  BY DEF Types
<1> QED
  BY <1>1, <1>2 DEF Answer, Goto

\* The pool's and the host's data keep their types.
LEMMA TypesStep ==
  ASSUME Types, \A p \in Pools : BarrierCounts(p), [Next]_vars
  PROVE  Types'
<1> USE DEF workers, shared, data
<1>1. ASSUME NEW p \in Pools, NEW w \in Threads, EnterBarrier(p, w) PROVE Types'
  <2>1. CASE nBarrier[p] = NumThreads - 1
    <3>1. pc[p][w] \in Barriers /\ Proceed(p, w)
      BY <1>1, <2>1 DEF EnterBarrier
    <3>2. /\ nBarrier' = [nBarrier EXCEPT ![p] = 0] /\ nPassed' = [nPassed EXCEPT ![p] = @ + 1]
          /\ UNCHANGED <<waiting, seen, route, dead, taken, currentChunk, decided, data>>
      BY <1>1, <2>1 DEF EnterBarrier
    <3>3. nBarrier' \in [Pools -> Nat] /\ nPassed' \in [Pools -> Nat]
      BY <3>2 DEF Types
    <3> QED
      BY <3>1, <3>2, <3>3, ProceedTyped DEF Types
  <2>2. CASE nBarrier[p] # NumThreads - 1
    <3>1. /\ nBarrier' = [nBarrier EXCEPT ![p] = @ + 1] /\ seen' = Set(seen, p, w, nPassed[p])
          /\ waiting' = Set(waiting, p, w, TRUE)
          /\ UNCHANGED <<nPassed, pc, node, chunk, route, dead, taken, currentChunk, decided, data>>
      BY <1>1, <2>2 DEF EnterBarrier
    <3>2. nPassed[p] \in Nat /\ TRUE \in BOOLEAN /\ seen \in [Pools -> [Threads -> Nat]]
          /\ waiting \in [Pools -> [Threads -> BOOLEAN]]
      BY DEF Types
    <3>3. seen' \in [Pools -> [Threads -> Nat]]
      BY <3>1, <3>2, SetAt
    <3>4. waiting' \in [Pools -> [Threads -> BOOLEAN]]
      BY <3>1, <3>2, SetAt
    <3>5. nBarrier' \in [Pools -> Nat]
      BY <3>1 DEF Types
    <3> QED
      BY <3>1, <3>3, <3>4, <3>5 DEF Types
  <2> QED
    BY <2>1, <2>2
<1>2. ASSUME NEW p \in Pools, NEW w \in Threads, LeaveBarrier(p, w) PROVE Types'
  <2>1. waiting' \in [Pools -> [Threads -> BOOLEAN]]
    BY <1>2, SetAt DEF LeaveBarrier, Types
  <2>2. pc[p][w] \in Barriers /\ Proceed(p, w)
    BY <1>2 DEF LeaveBarrier, BarrierCounts
  <2> QED
    BY <1>2, <2>1, <2>2, ProceedTyped DEF LeaveBarrier, Types
<1>3. ASSUME NEW p \in Pools, HookBypass(p) \/ HookReject(p) PROVE Types'
  <2>1. \/ Answer(p, NotHandled) /\ UNCHANGED dead
        \/ UNCHANGED <<pc, decided>> /\ dead' = TRUE
    <3>1. CASE HookBypass(p)
      BY <3>1 DEF HookBypass
    <3>2. CASE HookReject(p)
      BY <3>2 DEF HookReject
    <3> QED
      BY <1>3, <3>1, <3>2
  <2>2. pc' \in [Pools -> [Threads -> Pc]] /\ decided' \in [Pools -> Routes] /\ dead' \in BOOLEAN
    BY <2>1, AnswerTyped DEF Types, Routes
  <2> QED
    BY <1>3, <2>2 DEF HookBypass, HookReject, Types
<1>4. ASSUME NEW p \in Pools, HookAccept(p) \/ Publish(p) PROVE Types'
  <2>1. \A x \in Pc : Set(pc, p, 0, x) \in [Pools -> [Threads -> Pc]]
    BY Constants, SetAt DEF Types
  <2>2. pc' \in [Pools -> [Threads -> Pc]] /\ route' \in Routes
    BY <1>4, <2>1 DEF HookAccept, Publish, Goto, Types, Pc, Barriers
  <2> QED
    BY <1>4, <2>2 DEF HookAccept, Publish, Types
<1>5. ASSUME NEW p \in Pools, HookRun(p) PROVE Types'
  <2>1. \/ Answer(p, CpuShadow) /\ UNCHANGED dead
        \/ Answer(p, FpgaDst) /\ UNCHANGED dead
        \/ UNCHANGED <<pc, decided>> /\ dead' = TRUE
    BY <1>5 DEF HookRun
  <2>2. pc' \in [Pools -> [Threads -> Pc]] /\ decided' \in [Pools -> Routes] /\ dead' \in BOOLEAN
    BY <2>1, AnswerTyped DEF Types, Routes
  <2>3. fpgaDst[p] \cup {node[p][0]} \in SUBSET Nodes
    BY Constants DEF Types
  <2>4. [fpgaDst EXCEPT ![p] = @ \cup {node[p][0]}] \in [Pools -> SUBSET Nodes]
    BY <2>3 DEF Types
  <2>5. fpgaDst' \in [Pools -> SUBSET Nodes]
    BY <1>5, <2>4 DEF HookRun, Types
  <2> QED
    BY <1>5, <2>2, <2>5 DEF HookRun, Types
<1>6. ASSUME NEW p \in Pools, NEW w \in Threads, Load(p, w) PROVE Types'
  <2>1. pc' \in [Pools -> [Threads -> Pc]]
    BY <1>6, SetAt DEF Load, Goto, Types, Pc, Barriers
  <2>2. taken' \in [Pools -> [Threads -> Routes]]
    BY <1>6, SetAt DEF Load, Types
  <2> QED
    BY <1>6, <2>1, <2>2 DEF Load, Types
<1>7. ASSUME NEW p \in Pools, NEW w \in Threads, Convert(p, w) PROVE Types'
  <2>1. pc' \in [Pools -> [Threads -> Pc]]
    BY <1>7, SetAt DEF Convert, Goto, Types, Pc, Barriers
  <2>2. wdata' \in [Pools -> [Threads -> Nat]]
    <3>1. node[p][w] \in Nodes
      BY DEF Types
    <3>2. node[p][w] \in Nat
      BY <3>1, Constants
    <3> QED
      BY <1>7, <3>2, SetAt DEF Convert, Types
  <2>3. currentChunk' \in [Pools -> Nat]
    BY <1>7, Constants DEF Convert, Types
  <2> QED
    BY <1>7, <2>1, <2>2, <2>3 DEF Convert, Types
<1>8. ASSUME NEW p \in Pools, NEW w \in Threads, Compute(p, w) PROVE Types'
  <2>1. pc' \in [Pools -> [Threads -> Pc]]
    <3>1. Set(pc, p, w, "b4") \in [Pools -> [Threads -> Pc]]
      BY SetAt DEF Types, Pc, Barriers
    <3> QED
      BY <1>8, <3>1 DEF Compute, Goto, Types
  <2>2. chunk' \in [Pools -> [Threads -> Nat]]
    <3>1. Set(chunk, p, w, currentChunk[p]) \in [Pools -> [Threads -> Nat]]
      BY SetAt DEF Types
    <3> QED
      BY <1>8, <3>1 DEF Compute, Types
  <2>3. currentChunk' \in [Pools -> Nat]
    BY <1>8 DEF Compute, Types
  <2>4. stores' \in [Pools -> [Nodes -> [Chunks -> Nat]]]
    <3>1. CASE chunk[p][w] \in Chunks
      <4>1. stores' = [stores EXCEPT ![p][node[p][w]][chunk[p][w]] = @ + 1]
        BY <1>8, <3>1 DEF Compute
      <4>2. node[p][w] \in Nodes /\ stores[p][node[p][w]][chunk[p][w]] + 1 \in Nat
        BY <3>1 DEF Types
      <4> QED
        BY <3>1, <4>1, <4>2 DEF Types
    <3>2. CASE chunk[p][w] \notin Chunks
      BY <1>8, <3>2 DEF Compute, Types
    <3> QED
      BY <3>1, <3>2
  <2> QED
    BY <1>8, <2>1, <2>2, <2>3, <2>4 DEF Compute, Types
<1>9. CASE UNCHANGED vars
  BY <1>9 DEF vars, Types
<1> QED
  BY NextCases, <1>1, <1>2, <1>3, <1>4, <1>5, <1>6, <1>7, <1>8, <1>9

(***************************************************************************)
(* The barrier                                                             *)
(***************************************************************************)

\* The last worker to arrive finds all others blocked.
LEMMA LastArrives ==
  ASSUME NEW p \in Pools, BarrierCounts(p), nBarrier[p] = NumThreads - 1,
         NEW w \in Threads, ~Blocked(p, w)
  PROVE  \A v \in Threads \ {w} : Blocked(p, v)
<1> DEFINE B == {v \in Threads : Blocked(p, v)}
<1>1. IsFiniteSet(Threads) /\ Cardinality(Threads) = NumThreads
  BY Constants, FS_Interval DEF Threads
<1>2. IsFiniteSet(Threads \ {w}) /\ Cardinality(Threads \ {w}) = NumThreads - 1
  BY <1>1, FS_RemoveElement
<1>3. B \in SUBSET (Threads \ {w}) /\ Cardinality(B) = NumThreads - 1
  BY DEF BarrierCounts
<1>4. Threads \ {w} = B
  BY <1>2, <1>3, FS_Subset
<1> QED
  BY <1>4

\* A worker that arrives before the others blocks, and is counted.
LEMMA ArriveCounts ==
  ASSUME Types, NEW p \in Pools, NEW w \in Threads, BarrierCounts(p),
         EnterBarrier(p, w), nBarrier[p] # NumThreads - 1
  PROVE  /\ BarrierCounts(p)' /\ ~Released(p, w) /\ ~Released(p, w)'
         /\ \A v \in Threads : v # w => (Released(p, v)' <=> Released(p, v))
<1>1. /\ pc[p][w] \in Barriers /\ ~waiting[p][w]
      /\ nBarrier' = [nBarrier EXCEPT ![p] = @ + 1] /\ seen' = Set(seen, p, w, nPassed[p])
      /\ waiting' = Set(waiting, p, w, TRUE) /\ UNCHANGED <<nPassed, pc>>
  BY DEF EnterBarrier
<1>2. /\ seen'[p][w] = nPassed[p] /\ waiting'[p][w] = TRUE
      /\ \A v \in Threads : v # w => seen'[p][v] = seen[p][v] /\ waiting'[p][v] = waiting[p][v]
  <2>1. seen \in [Pools -> [Threads -> Nat]] /\ nPassed[p] \in Nat
    BY DEF Types
  <2>2. seen'[p][w] = nPassed[p] /\ \A v \in Threads : v # w => seen'[p][v] = seen[p][v]
    BY <1>1, <2>1 DEF Set
  <2>3. waiting \in [Pools -> [Threads -> BOOLEAN]] /\ TRUE \in BOOLEAN
    BY DEF Types
  <2>4. waiting'[p][w] = TRUE /\ \A v \in Threads : v # w => waiting'[p][v] = waiting[p][v]
    BY <1>1, <2>3 DEF Set
  <2> QED
    BY <2>2, <2>4
<1>3. {v \in Threads : Blocked(p, v)'} = {v \in Threads : Blocked(p, v)} \cup {w}
  BY <1>1, <1>2 DEF Blocked
<1>4. IsFiniteSet({v \in Threads : Blocked(p, v)})
  <2>1. IsFiniteSet(Threads)
    BY Constants, FS_Interval DEF Threads
  <2> QED
    BY <2>1, FS_Subset
<1>5. Cardinality({v \in Threads : Blocked(p, v)'}) = Cardinality({v \in Threads : Blocked(p, v)}) + 1
  BY <1>1, <1>3, <1>4, FS_AddElement DEF Blocked
<1>6. nBarrier'[p] = nBarrier[p] + 1 /\ nBarrier[p] \in Nat /\ nPassed[p] \in Nat
  BY <1>1 DEF Types
<1>7. nBarrier'[p] = Cardinality({v \in Threads : Blocked(p, v)'}) /\ nBarrier'[p] <= NumThreads - 1
  BY <1>5, <1>6, Constants DEF BarrierCounts
<1>8. \A v \in Threads : waiting'[p][v] => pc'[p][v] \in Barriers /\ seen'[p][v] <= nPassed'[p]
  <2>1. ASSUME NEW v \in Threads, v # w, waiting[p][v] PROVE pc[p][v] \in Barriers /\ seen[p][v] <= nPassed[p]
    BY <2>1 DEF BarrierCounts
  <2>2. pc' = pc /\ nPassed' = nPassed /\ nPassed[p] <= nPassed[p]
    BY <1>1, <1>6
  <2> QED
    BY <1>1, <1>2, <2>1, <2>2, Zenon
<1> QED
  BY <1>1, <1>2, <1>7, <1>8 DEF BarrierCounts, Released, Blocked

\* The last one opens the barrier for all: the others are released.
LEMMA OpenCounts ==
  ASSUME Types, Types', NEW p \in Pools, NEW w \in Threads, BarrierCounts(p),
         EnterBarrier(p, w), nBarrier[p] = NumThreads - 1
  PROVE  /\ BarrierCounts(p)' /\ ~Released(p, w) /\ ~Released(p, w)'
         /\ \A v \in Threads : v # w => Blocked(p, v) /\ Released(p, v)' /\ pc[p][v] \in Barriers
<1>1. /\ pc[p][w] \in Barriers /\ ~waiting[p][w]
      /\ nBarrier' = [nBarrier EXCEPT ![p] = 0] /\ nPassed' = [nPassed EXCEPT ![p] = @ + 1]
      /\ Goto(p, w, AfterBarrier(p, w)) /\ UNCHANGED <<waiting, seen>>
  BY DEF EnterBarrier, Proceed
<1>2. nBarrier'[p] = 0 /\ nPassed'[p] = nPassed[p] + 1 /\ nPassed[p] \in Nat
  BY <1>1 DEF Types
<1>3. \A v \in Threads : v # w => Blocked(p, v)
  BY <1>1, LastArrives DEF Blocked
<1>4. \A v \in Threads : seen[p][v] \in Nat
  BY DEF Types
<1>5. {v \in Threads : Blocked(p, v)'} = {}
  BY <1>1, <1>2, <1>4 DEF Blocked, BarrierCounts
<1>6. nBarrier'[p] = Cardinality({v \in Threads : Blocked(p, v)'}) /\ nBarrier'[p] <= NumThreads - 1
  <2>1. Cardinality({v \in Threads : Blocked(p, v)'}) = 0
    BY <1>5, FS_EmptySet, Zenon
  <2> QED
    BY <1>2, <2>1, Constants
<1>7. \A v \in Threads : v # w => pc'[p][v] = pc[p][v]
  BY <1>1 DEF Goto, Set, Types
<1>8. \A v \in Threads : waiting'[p][v] => pc'[p][v] \in Barriers /\ seen'[p][v] <= nPassed'[p]
  BY <1>1, <1>2, <1>4, <1>7 DEF BarrierCounts
<1>9. \A v \in Threads : v # w => Released(p, v)' /\ pc[p][v] \in Barriers
  BY <1>1, <1>2, <1>3 DEF Blocked, Released, BarrierCounts
<1> QED
  BY <1>1, <1>3, <1>6, <1>8, <1>9 DEF BarrierCounts, Released

\* A released worker that moves on, and a worker between two barriers, change
\* nothing for the others.
LEMMA LocalCounts ==
  ASSUME Types, NEW p \in Pools, NEW w \in Threads, BarrierCounts(p),
         UNCHANGED <<nBarrier, nPassed, seen>>, ~waiting'[p][w],
         \A v \in Threads : v # w => waiting'[p][v] = waiting[p][v] /\ pc'[p][v] = pc[p][v],
         ~Blocked(p, w)
  PROVE  /\ BarrierCounts(p)' /\ ~Released(p, w)'
         /\ \A v \in Threads : v # w => (Released(p, v)' <=> Released(p, v))
<1>1. {v \in Threads : Blocked(p, v)'} = {v \in Threads : Blocked(p, v)}
  BY DEF Blocked
<1>2. nBarrier'[p] = Cardinality({v \in Threads : Blocked(p, v)'}) /\ nBarrier'[p] <= NumThreads - 1
  BY <1>1 DEF BarrierCounts
<1>3. \A v \in Threads : waiting'[p][v] => pc'[p][v] \in Barriers /\ seen'[p][v] <= nPassed'[p]
  BY DEF BarrierCounts
<1> QED
  BY <1>2, <1>3 DEF BarrierCounts, Released

(***************************************************************************)
(* The sections                                                            *)
(***************************************************************************)

\* A worker between two barriers is where its section allows.
LEMMA Placed ==
  ASSUME Types, NEW p \in Pools, NEW w \in Threads, NEW X \in Barriers, NEW n \in Nat,
         BarrierCounts(p), Member(p, w, X, n), pc[p][w] \notin Barriers
  PROVE  /\ ~waiting[p][w] /\ ~Released(p, w) /\ ~Blocked(p, w)
         /\ pc[p][w] \in Positions(p, w, X) /\ node[p][w] = n
<1>1. ~waiting[p][w]
  BY DEF BarrierCounts
<1>2. ~Released(p, w) /\ ~Blocked(p, w)
  BY <1>1 DEF Released, Blocked
<1> QED
  BY <1>1, <1>2 DEF Member, Barriers

\* A worker that does not move stays in its section.
LEMMA Stays ==
  ASSUME NEW p \in Pools, NEW v \in Threads, NEW X, NEW n, Member(p, v, X, n),
         pc'[p][v] = pc[p][v], node'[p][v] = node[p][v], Released(p, v)' <=> Released(p, v),
         Positions(p, v, X)' = Positions(p, v, X)
  PROVE  Member(p, v, X, n)'
  BY DEF Member

\* Steps that store nothing and deal no chunk keep the account of the stores.
LEMMA StoresStay ==
  ASSUME NEW p \in Pools, NEW X \in Barriers, NEW n \in 0..Len(Graph), NativeStores(p, X, n),
         UNCHANGED <<stores, fpgaDst, currentChunk>>,
         X = "b3" => \A w \in Threads : Held(p, w)' = Held(p, w) /\ (pc'[p][w] = "b4" => pc[p][w] = "b4")
  PROVE  NativeStores(p, X, n)'
<1>1. \A m \in Nodes : Completed(p, m)' <=> Completed(p, m)
  BY DEF Completed
<1>2. CASE X = "b3"
  <2>1. ChunksDealt(p, n)
    BY <1>2 DEF NativeStores
  <2>2. /\ currentChunk'[p] >= NumThreads
        /\ \A w \in Threads : \A c \in Held(p, w)' : c < currentChunk'[p]
        /\ \A v, w \in Threads : v # w => Held(p, v)' \cap Held(p, w)' = {}
        /\ \A w \in Threads : pc'[p][w] = "b4" => currentChunk'[p] >= NumChunks
    BY <1>2, <2>1 DEF ChunksDealt
  <2>3. \A c \in Chunks : stores'[p][n][c] =
          IF c < currentChunk'[p] /\ \A w \in Threads : c \notin Held(p, w)' THEN 1 ELSE 0
    <3>1. \A c \in Chunks : (\A w \in Threads : c \notin Held(p, w)') <=> \A w \in Threads : c \notin Held(p, w)
      BY <1>2
    <3> QED
      BY <2>1, <3>1 DEF ChunksDealt
  <2>4. ChunksDealt(p, n)'
    BY <2>2, <2>3 DEF ChunksDealt
  <2> QED
    BY <1>1, <2>4 DEF NativeStores
<1>3. CASE X # "b3"
  BY <1>1, <1>3 DEF NativeStores
<1> QED
  BY <1>2, <1>3

\* A worker that blocks leaves the section as it is.
LEMMA ArriveSection ==
  ASSUME Types, NEW p \in Pools, NEW w \in Threads, BarrierCounts(p),
         EnterBarrier(p, w), nBarrier[p] # NumThreads - 1,
         NEW X \in Barriers, NEW n \in 0..Len(Graph), Section(p, X, n)
  PROVE  Section(p, X, n)'
<1>1. UNCHANGED <<pc, node, chunk, config, route, taken, currentChunk, decided, wdata, stores, fpgaDst>>
  BY DEF EnterBarrier, data
<1>2. Together(p, X, n)'
  <2>1. ASSUME NEW v \in Threads PROVE Member(p, v, X, n)'
    <3>1. Released(p, v)' <=> Released(p, v)
      BY ArriveCounts
    <3>2. Positions(p, v, X)' = Positions(p, v, X)
      BY <1>1 DEF Positions, Enabled
    <3> QED
      BY <1>1, <3>1, <3>2, Stays DEF Section, Together
  <2> QED
    BY <2>1 DEF Together
<1>3. Agreed(p, X)'
  BY <1>1 DEF Section, Agreed, Enabled
<1>4. HostStores(p, X, n)'
  BY <1>1 DEF Section, HostStores, Answered
<1>5. Converted(p, X, n)'
  BY <1>1 DEF Section, Converted
<1>6. NativeStores(p, X, n)'
  <2>1. \A v \in Threads : Held(p, v)' = Held(p, v)
    BY <1>1 DEF Held
  <2> QED
    BY <1>1, <2>1, StoresStay DEF Section
<1> QED
  BY <1>2, <1>3, <1>4, <1>5, <1>6 DEF Section

\* Before a barrier opens all workers stand at it, in the same node.
LEMMA AllArrived ==
  ASSUME NEW p \in Pools, NEW X \in Barriers, NEW n \in 0..Len(Graph), Section(p, X, n),
         \A v \in Threads : ~Released(p, v) /\ pc[p][v] \in Barriers
  PROVE  \E Y \in Barriers, m \in 0..Len(Graph) :
           /\ \A v \in Threads : pc[p][v] = Y /\ node[p][v] = m
           /\ \/ X = "b1" /\ Y = "b2" /\ m = n /\ Enabled
              \/ X = "b1" /\ Y = "b3" /\ m = n /\ ~Enabled
              \/ X = "b2" /\ Y = "b4" /\ m = n /\ decided[p] = FpgaDst
              \/ X = "b2" /\ Y = "b3" /\ m = n /\ decided[p] # FpgaDst
              \/ X = "b3" /\ Y = "b4" /\ m = n
              \/ X = "b4" /\ Y = "b1" /\ m = n + 1 /\ n < Len(Graph)
<1>1. \A v \in Threads :
        /\ pc[p][v] \in Positions(p, v, X) /\ pc[p][v] \in Barriers
        /\ pc[p][v] = "b1" => n < Len(Graph)
        /\ node[p][v] = IF pc[p][v] = "b1" THEN n + 1 ELSE n
  BY DEF Section, Together, Member
<1>2. n \in 0..Len(Graph) /\ (n < Len(Graph) => n + 1 \in 0..Len(Graph)) /\ 0 \in Threads
  BY Constants
<1>3. CASE X = "b1" /\ Enabled
  <2>1. \A v \in Threads : pc[p][v] = "b2" /\ node[p][v] = n
    BY <1>1, <1>3 DEF Positions, Barriers
  <2> QED
    BY <1>2, <1>3, <2>1 DEF Barriers
<1>4. CASE X = "b1" /\ ~Enabled
  <2>1. \A v \in Threads : pc[p][v] = "b3" /\ node[p][v] = n
    BY <1>1, <1>4 DEF Positions, Barriers
  <2> QED
    BY <1>2, <1>4, <2>1 DEF Barriers
<1>5. CASE X = "b2" /\ decided[p] = FpgaDst
  <2>1. \A v \in Threads : pc[p][v] = "b4" /\ node[p][v] = n
    BY <1>1, <1>5 DEF Positions, Barriers
  <2> QED
    BY <1>2, <1>5, <2>1 DEF Barriers
<1>6. CASE X = "b2" /\ decided[p] # FpgaDst
  <2>1. \A v \in Threads : pc[p][v] = "b3" /\ node[p][v] = n
    BY <1>1, <1>6 DEF Positions, Barriers
  <2> QED
    BY <1>2, <1>6, <2>1 DEF Barriers
<1>7. CASE X = "b3"
  <2>1. \A v \in Threads : pc[p][v] = "b4" /\ node[p][v] = n
    BY <1>1, <1>7 DEF Positions, Barriers
  <2> QED
    BY <1>2, <1>7, <2>1 DEF Barriers
<1>8. CASE X = "b4"
  <2>1. \A v \in Threads : pc[p][v] = "b1" /\ node[p][v] = n + 1 /\ n < Len(Graph)
    BY <1>1, <1>8 DEF Positions, Barriers
  <2> QED
    BY <1>2, <1>8, <2>1 DEF Barriers
<1> QED
  BY <1>3, <1>4, <1>5, <1>6, <1>7, <1>8 DEF Barriers

\* What passing barrier Y of node m does to the worker.
LEMMA ProceedMember ==
  ASSUME Types, NEW p \in Pools, NEW w \in Threads, NEW Y \in Barriers, NEW m \in 0..Len(Graph),
         pc[p][w] = Y, node[p][w] = m, Proceed(p, w), UNCHANGED <<config, decided>>, ~Released(p, w)'
  PROVE  /\ Member(p, w, Y, m)' /\ pc'[p][w] \notin {"b3", "b4", "publish", "locked"}
         /\ Y = "b1" => pc'[p][w] \in (IF ~Enabled THEN {"convert"} ELSE IF w = 0 THEN {"hook"} ELSE {"b2"})
         /\ Y = "b2" => pc'[p][w] = "load"
         /\ Y = "b3" => pc'[p][w] = "compute" /\ chunk'[p][w] = w
         /\ Y = "b4" => pc'[p][w] \in {"b1", "finished"}
         /\ \A v \in Threads : v # w =>
              pc'[p][v] = pc[p][v] /\ node'[p][v] = node[p][v] /\ chunk'[p][v] = chunk[p][v]
<1>1. pc'[p][w] = AfterBarrier(p, w) /\ \A v \in Threads : v # w => pc'[p][v] = pc[p][v]
  BY DEF Proceed, Goto, Set, Types
<1>2. /\ node'[p][w] = IF Y = "b4" /\ m < Len(Graph) THEN m + 1 ELSE m
      /\ \A v \in Threads : v # w => node'[p][v] = node[p][v]
  BY DEF Proceed, NextNode, Set, Types
<1>3. /\ Y = "b3" => chunk'[p][w] = w
      /\ \A v \in Threads : v # w => chunk'[p][v] = chunk[p][v]
  BY DEF Proceed, FirstChunk, Set, Types
<1>4. /\ pc'[p][w] \notin {"b3", "b4", "publish", "locked"}
      /\ Y = "b1" => pc'[p][w] \in (IF ~Enabled THEN {"convert"} ELSE IF w = 0 THEN {"hook"} ELSE {"b2"})
      /\ Y = "b2" => pc'[p][w] = "load"
      /\ Y = "b3" => pc'[p][w] = "compute"
      /\ Y = "b4" => pc'[p][w] = IF m < Len(Graph) THEN "b1" ELSE "finished"
  BY <1>1 DEF AfterBarrier, Barriers
<1>5. m \in Nat /\ m <= Len(Graph) /\ Len(Graph) \in Nat
  BY Constants
<1>6. Member(p, w, Y, m)'
  <2>1. CASE Y = "b1"
    BY <1>2, <1>4, <2>1 DEF Member, Positions, Enabled
  <2>2. CASE Y = "b2"
    BY <1>2, <1>4, <2>2 DEF Member, Positions, Enabled
  <2>3. CASE Y = "b3"
    BY <1>2, <1>4, <2>3 DEF Member, Positions, Enabled
  <2>4. CASE Y = "b4"
    BY <1>2, <1>4, <1>5, <2>4 DEF Member, Positions, Enabled
  <2> QED
    BY <2>1, <2>2, <2>3, <2>4 DEF Barriers
<1> QED
  BY <1>1, <1>2, <1>3, <1>4, <1>6

\* The chunks of a multiplication are dealt out when its barrier opens: each
\* worker has the one of its number, and nothing is stored yet.
LEMMA DealStarts ==
  ASSUME NEW p \in Pools, NEW n, currentChunk'[p] = NumThreads,
         \A v \in Threads : pc'[p][v] \in {"b3", "compute"} /\ Held(p, v)' = {v},
         \A c \in Chunks : stores'[p][n][c] = 0
  PROVE  ChunksDealt(p, n)'
<1>1. \A v \in Threads : v < NumThreads
  BY Constants DEF Threads
<1>2. \A c \in Chunks : c < NumThreads => c \in Threads
  BY Constants DEF Threads, Chunks
<1>3. \A c \in Chunks : ~(c < currentChunk'[p] /\ \A v \in Threads : c \notin Held(p, v)')
  BY <1>2
<1>4. /\ currentChunk'[p] >= NumThreads
      /\ \A w \in Threads : \A c \in Held(p, w)' : c < currentChunk'[p]
      /\ \A v, w \in Threads : v # w => Held(p, v)' \cap Held(p, w)' = {}
      /\ \A w \in Threads : pc'[p][w] = "b4" => currentChunk'[p] >= NumChunks
  BY <1>1, Constants
<1> QED
  BY <1>3, <1>4 DEF ChunksDealt

\* The last worker to arrive opens the next section.
LEMMA OpenSection ==
  ASSUME Types, Types', NEW p \in Pools, NEW w \in Threads, BarrierCounts(p),
         EnterBarrier(p, w), nBarrier[p] = NumThreads - 1,
         NEW X \in Barriers, NEW n \in 0..Len(Graph), Section(p, X, n)
  PROVE  \E Y \in Barriers, m \in 0..Len(Graph) : Section(p, Y, m)'
<1>1. /\ UNCHANGED <<config, route, taken, currentChunk, decided, wdata, stores, fpgaDst>>
      /\ pc[p][w] \in Barriers /\ Proceed(p, w)
  BY DEF EnterBarrier, data
<1>2. /\ ~Released(p, w) /\ ~Released(p, w)'
      /\ \A v \in Threads : v # w => Released(p, v)' /\ ~Released(p, v) /\ pc[p][v] \in Barriers
  BY OpenCounts DEF Blocked, Released
<1>3. PICK Y \in Barriers, m \in 0..Len(Graph) :
           /\ \A v \in Threads : pc[p][v] = Y /\ node[p][v] = m
           /\ \/ X = "b1" /\ Y = "b2" /\ m = n /\ Enabled
              \/ X = "b1" /\ Y = "b3" /\ m = n /\ ~Enabled
              \/ X = "b2" /\ Y = "b4" /\ m = n /\ decided[p] = FpgaDst
              \/ X = "b2" /\ Y = "b3" /\ m = n /\ decided[p] # FpgaDst
              \/ X = "b3" /\ Y = "b4" /\ m = n
              \/ X = "b4" /\ Y = "b1" /\ m = n + 1 /\ n < Len(Graph)
  BY <1>1, <1>2, AllArrived
<1>4. /\ Member(p, w, Y, m)' /\ pc'[p][w] \notin {"b3", "b4", "publish", "locked"}
      /\ Y = "b1" => pc'[p][w] \in (IF ~Enabled THEN {"convert"} ELSE IF w = 0 THEN {"hook"} ELSE {"b2"})
      /\ Y = "b2" => pc'[p][w] = "load"
      /\ Y = "b3" => pc'[p][w] = "compute" /\ chunk'[p][w] = w
      /\ Y = "b4" => pc'[p][w] \in {"b1", "finished"}
      /\ \A v \in Threads : v # w => pc'[p][v] = Y /\ node'[p][v] = m
  BY <1>1, <1>2, <1>3, ProceedMember
<1>5. n \in Nat /\ m \in Nat /\ Len(Graph) \in Nat /\ 0 \in Threads
  BY Constants
<1>6. Together(p, Y, m)'
  <2>1. ASSUME NEW v \in Threads, v # w PROVE Member(p, v, Y, m)'
    BY <1>2, <1>4, <2>1 DEF Member
  <2> QED
    BY <1>4, <2>1 DEF Together
<1>7. pc'[p][0] \notin {"publish", "locked"} /\ (pc'[p][0] = "b2" => Y = "b2") /\ (pc'[p][0] = "b3" => Y = "b3")
  <2>1. CASE w = 0
    BY <1>4, <2>1 DEF Barriers
  <2>2. CASE w # 0
    BY <1>4, <1>5, <2>2 DEF Barriers
  <2> QED
    BY <2>1, <2>2
<1>8. Agreed(p, Y)'
  <2>1. Agreed(p, X) /\ (Enabled' <=> Enabled)
    BY <1>1 DEF Section, Enabled
  <2>2. Y = "b2" => Enabled' /\ route' = decided'[p]
    BY <1>1, <1>3, <1>5, <2>1 DEF Agreed
  <2>3. ~(Y = "b1" /\ pc'[p][0] = "b2")
    BY <1>7
  <2>4. Enabled' /\ Y = "b3" => decided'[p] # FpgaDst
    BY <1>1, <1>3, <2>1
  <2>5. ASSUME Enabled, NEW v \in Threads, pc'[p][v] \in {"convert", "b3", "compute", "b4"}
        PROVE  taken'[p][v] = decided'[p]
    <3>1. pc[p][v] \in {"convert", "b3", "compute", "b4"}
      BY <1>3, <1>4, <2>5 DEF Barriers
    <3> QED
      BY <1>1, <2>1, <2>5, <3>1 DEF Agreed
  <2> QED
    BY <2>1, <2>2, <2>3, <2>4, <2>5 DEF Agreed
<1>9. HostStores(p, Y, m)'
  <2>1. HostStores(p, X, n)
    BY DEF Section
  <2>2. fpgaDst[p] \in SUBSET Nodes /\ fpgaDst' = fpgaDst /\ decided' = decided
    BY <1>1 DEF Types
  <2>3. \A j \in fpgaDst[p] : j \in Nat /\ j <= n /\ j <= m
    <3>1. n <= m
      BY <1>3, <1>5
    <3>2. \A j \in fpgaDst[p] : j \in Nat /\ j <= n
      BY <2>1, <2>2, Constants DEF HostStores
    <3> QED
      BY <1>5, <3>1, <3>2
  <2>4. Answered(p, Y)' <=> Y = "b2"
    BY <1>7 DEF Answered
  <2>5. Y # "b4" => (m \in fpgaDst[p] <=> Y = "b2" /\ decided[p] = FpgaDst)
    <3>1. CASE Y = "b1"
      BY <1>3, <1>5, <2>3, <3>1
    <3>2. CASE Y = "b2"
      <4>1. X = "b1" /\ m = n /\ pc[p][0] = "b2"
        BY <1>3, <1>5, <3>2
      <4> QED
        BY <2>1, <3>2, <4>1 DEF HostStores, Answered
    <3>3. CASE Y = "b3"
      <4>1. m = n /\ pc[p][0] = "b3" /\ ((X = "b1") \/ (X = "b2" /\ decided[p] # FpgaDst))
        BY <1>3, <1>5, <3>3
      <4> QED
        BY <2>1, <3>3, <4>1 DEF HostStores, Answered
    <3> QED
      BY <3>1, <3>2, <3>3 DEF Barriers
  <2> QED
    BY <2>2, <2>3, <2>4, <2>5 DEF HostStores
<1>10. Converted(p, Y, m)'
  <2>1. Y = "b3" => \A v \in Threads : wdata[p][v] = m
    BY <1>3 DEF Section, Converted
  <2>2. \A v \in Threads : pc'[p][v] = "b3" => Y = "b3"
    BY <1>4
  <2> QED
    BY <1>1, <1>7, <2>1, <2>2 DEF Converted
<1>11. NativeStores(p, Y, m)'
  <2>1. NativeStores(p, X, n) /\ HostStores(p, X, n) /\ Nodes \subseteq Nat
    BY Constants DEF Section
  <2>2. \A j \in Nodes : Completed(p, j)' <=> Completed(p, j)
    BY <1>1 DEF Completed
  <2>3. ASSUME NEW j \in Nodes, j > m \/ (j = m /\ Y \in {"b1", "b2"}) PROVE \A c \in Chunks : stores'[p][j][c] = 0
    <3>1. j > n \/ (j = n /\ X \in {"b1", "b2"})
      BY <1>3, <1>5, <2>1, <2>3
    <3> QED
      BY <1>1, <2>1, <3>1 DEF NativeStores
  <2>4. ASSUME NEW j \in Nodes, j < m \/ (j = m /\ Y = "b4") PROVE Completed(p, j)
    <3>1. CASE j < n \/ (j = n /\ X = "b4")
      BY <2>1, <3>1 DEF NativeStores
    <3>2. CASE ~(j < n \/ (j = n /\ X = "b4"))
      <4>1. Y = "b4" /\ m = n /\ j = n /\ X \in {"b2", "b3"} /\ (X = "b2" => decided[p] = FpgaDst)
        BY <1>3, <1>5, <2>1, <2>4, <3>2
      <4>2. CASE X = "b2"
        <5>1. n \in fpgaDst[p]
          BY <2>1, <4>1, <4>2 DEF HostStores, Answered
        <5>2. \A c \in Chunks : stores[p][n][c] = 0
          BY <2>1, <4>1, <4>2 DEF NativeStores
        <5> QED
          BY <4>1, <5>1, <5>2 DEF Completed
      <4>3. CASE X = "b3"
        <5>1. n \notin fpgaDst[p]
          BY <2>1, <4>3 DEF HostStores, Answered
        <5>2. \A v \in Threads : pc[p][v] = "b4" /\ Held(p, v) = {}
          BY <1>3, <4>1 DEF Held
        <5>3. ChunksDealt(p, n) /\ currentChunk[p] \in Nat
          BY <2>1, <4>3 DEF NativeStores, Types
        <5>4. currentChunk[p] >= NumChunks
          BY <1>5, <5>2, <5>3 DEF ChunksDealt
        <5>5. \A c \in Chunks : c < currentChunk[p]
          BY <5>3, <5>4, Constants DEF Chunks
        <5>6. \A c \in Chunks : stores[p][n][c] = 1
          BY <5>2, <5>3, <5>5 DEF ChunksDealt
        <5> QED
          BY <4>1, <5>1, <5>6 DEF Completed
      <4> QED
        BY <4>1, <4>2, <4>3
    <3> QED
      BY <3>1, <3>2
  <2>5. ASSUME Y = "b3" PROVE ChunksDealt(p, m)'
    <3>1. m = n /\ X \in {"b1", "b2"} /\ pc[p][0] = "b3"
      BY <1>3, <1>5, <2>5
    <3>2. currentChunk'[p] = NumThreads
      BY <1>1, <3>1 DEF Section, Converted
    <3>3. m \in Nodes /\ \A c \in Chunks : stores'[p][m][c] = 0
      <4>1. node[p][0] \in Nodes
        BY <1>5 DEF Types
      <4>2. m \in Nodes
        BY <1>3, <1>5, <4>1
      <4> QED
        BY <1>1, <2>1, <3>1, <4>2 DEF NativeStores
    <3>4. \A v \in Threads : pc'[p][v] \in {"b3", "compute"} /\ Held(p, v)' = {v}
      BY <1>4, <2>5 DEF Held
    <3> QED
      BY <3>2, <3>3, <3>4, DealStarts
  <2> QED
    BY <2>2, <2>3, <2>4, <2>5 DEF NativeStores
<1>12. Y = "b4" \/ m # 0
  BY <1>3, <1>5 DEF Section
<1>13. Section(p, Y, m)'
  BY <1>6, <1>8, <1>9, <1>10, <1>11, <1>12 DEF Section
<1> QED
  BY <1>13

\* A released worker joins the others in the section.
LEMMA LeaveSection ==
  ASSUME Types, Types', NEW p \in Pools, NEW w \in Threads, BarrierCounts(p), LeaveBarrier(p, w),
         NEW X \in Barriers, NEW n \in 0..Len(Graph), Section(p, X, n)
  PROVE  BarrierCounts(p)' /\ Section(p, X, n)'
<1>1. /\ UNCHANGED <<config, route, taken, seen, nBarrier, nPassed, currentChunk, decided, wdata, stores, fpgaDst>>
      /\ waiting' = Set(waiting, p, w, FALSE) /\ Proceed(p, w) /\ Released(p, w)
  BY DEF LeaveBarrier, data, shared, Released
<1>2. pc[p][w] = X /\ node[p][w] = n
  BY <1>1 DEF Section, Together, Member
<1>3. ~waiting'[p][w] /\ \A v \in Threads : v # w => waiting'[p][v] = waiting[p][v]
  <2>1. waiting \in [Pools -> [Threads -> BOOLEAN]]
    BY DEF Types
  <2> QED
    BY <1>1, <2>1 DEF Set
<1>4. ~Released(p, w)'
  BY <1>3 DEF Released
<1>5. /\ Member(p, w, X, n)' /\ pc'[p][w] \notin {"b3", "b4", "publish", "locked"}
      /\ X = "b1" => pc'[p][w] \in (IF ~Enabled THEN {"convert"} ELSE IF w = 0 THEN {"hook"} ELSE {"b2"})
      /\ X = "b2" => pc'[p][w] = "load"
      /\ X = "b3" => pc'[p][w] = "compute" /\ chunk'[p][w] = w
      /\ X = "b4" => pc'[p][w] \in {"b1", "finished"}
      /\ \A v \in Threads : v # w =>
           pc'[p][v] = pc[p][v] /\ node'[p][v] = node[p][v] /\ chunk'[p][v] = chunk[p][v]
  BY <1>1, <1>2, <1>4, ProceedMember
<1>6. BarrierCounts(p)' /\ \A v \in Threads : v # w => (Released(p, v)' <=> Released(p, v))
  <2>1. ~Blocked(p, w) /\ UNCHANGED <<nBarrier, nPassed, seen>>
    BY <1>1 DEF Released, Blocked
  <2> QED
    BY <1>3, <1>5, <2>1, LocalCounts
<1>7. Together(p, X, n)'
  <2>1. ASSUME NEW v \in Threads, v # w PROVE Member(p, v, X, n)'
    <3>1. Positions(p, v, X)' = Positions(p, v, X)
      BY <1>1 DEF Positions, Enabled
    <3> QED
      BY <1>5, <1>6, <2>1, <3>1, Stays DEF Section, Together
  <2> QED
    BY <1>5, <2>1 DEF Together
<1>8. /\ pc'[p][0] \in {"publish", "b2", "b3"} => pc'[p][0] = pc[p][0] \/ X = "b2"
      /\ X = "b1" => (pc'[p][0] \in {"publish", "b2"} <=> pc[p][0] \in {"publish", "b2"})
  <2>1. CASE w = 0
    BY <1>2, <1>5, <2>1 DEF Barriers
  <2>2. CASE w # 0
    BY <1>5, <2>2, Constants
  <2> QED
    BY <2>1, <2>2
<1>9. Agreed(p, X)'
  <2>1. Agreed(p, X) /\ (Enabled' <=> Enabled)
    BY <1>1 DEF Section, Enabled
  <2>2. ASSUME Enabled, NEW v \in Threads, pc'[p][v] \in {"convert", "b3", "compute", "b4"}
        PROVE  taken'[p][v] = decided'[p]
    <3>1. pc[p][v] \in {"convert", "b3", "compute", "b4"}
      BY <1>2, <1>5, <2>2 DEF Barriers
    <3> QED
      BY <1>1, <2>1, <2>2, <3>1 DEF Agreed
  <2>3. X = "b1" /\ pc'[p][0] = "b2" => route' = decided'[p]
    BY <1>1, <1>8, <2>1 DEF Agreed
  <2> QED
    BY <1>1, <2>1, <2>2, <2>3 DEF Agreed
<1>10. HostStores(p, X, n)'
  <2>1. Answered(p, X)' <=> Answered(p, X)
    BY <1>8 DEF Answered
  <2> QED
    BY <1>1, <2>1 DEF Section, HostStores
<1>11. Converted(p, X, n)'
  <2>1. Converted(p, X, n)
    BY DEF Section
  <2>2. \A v \in Threads : pc'[p][v] = "b3" => pc[p][v] = "b3"
    BY <1>5
  <2> QED
    BY <1>1, <2>1, <2>2, Constants DEF Converted
<1>12. NativeStores(p, X, n)'
  <2>1. ASSUME X = "b3", NEW v \in Threads PROVE Held(p, v)' = Held(p, v) /\ (pc'[p][v] = "b4" => pc[p][v] = "b4")
    <3>1. CASE v = w
      BY <1>2, <1>5, <2>1, <3>1 DEF Held
    <3>2. CASE v # w
      BY <1>5, <3>2 DEF Held
    <3> QED
      BY <3>1, <3>2
  <2> QED
    BY <1>1, <2>1, StoresStay DEF Section
<1> QED
  BY <1>6, <1>7, <1>9, <1>10, <1>11, <1>12 DEF Section

\* A worker that moves between two barriers, and changes no answer the others
\* depend on, leaves them in the section.
LEMMA MoveTogether ==
  ASSUME Types, NEW p \in Pools, NEW w \in Threads, BarrierCounts(p),
         NEW X \in Barriers, NEW n \in 0..Len(Graph), Together(p, X, n), pc[p][w] \notin Barriers,
         UNCHANGED <<config, waiting, node, seen, nBarrier, nPassed>>, X = "b2" => UNCHANGED decided,
         NEW x, pc' = Set(pc, p, w, x), x \in Positions(p, w, X), x \notin {"b1", "finished"}
  PROVE  /\ BarrierCounts(p)' /\ Together(p, X, n)' /\ pc'[p][w] = x
         /\ \A v \in Threads : v # w => pc'[p][v] = pc[p][v]
<1>1. ~waiting[p][w] /\ ~Blocked(p, w) /\ node[p][w] = n
  <2>1. Member(p, w, X, n) /\ n \in Nat
    BY Constants DEF Together
  <2> QED
    BY <2>1, Placed
<1>2. pc'[p][w] = x /\ \A v \in Threads : v # w => pc'[p][v] = pc[p][v]
  BY DEF Set, Types
<1>3. BarrierCounts(p)' /\ ~Released(p, w)' /\ \A v \in Threads : v # w => (Released(p, v)' <=> Released(p, v))
  BY <1>1, <1>2, LocalCounts
<1>4. \A v \in Threads : Positions(p, v, X)' = Positions(p, v, X)
  <2>1. CASE X = "b2"
    BY <2>1 DEF Positions, Enabled
  <2>2. CASE X # "b2"
    BY <2>2 DEF Positions, Enabled, Barriers
  <2> QED
    BY <2>1, <2>2
<1>5. ASSUME NEW v \in Threads, v # w PROVE Member(p, v, X, n)'
  BY <1>2, <1>3, <1>4, <1>5, Stays DEF Together
<1>6. Member(p, w, X, n)'
  BY <1>1, <1>2, <1>3, <1>4 DEF Member
<1> QED
  BY <1>2, <1>3, <1>5, <1>6 DEF Together

\* The hook runs in the section that the first barrier opens, and leaves the
\* workers' data alone.  It answers once, and it has stored dst exactly if it
\* says so.
LEMMA HookSection ==
  ASSUME Types, NEW p \in Pools, BarrierCounts(p),
         NEW X \in Barriers, NEW n \in 0..Len(Graph), Section(p, X, n),
         pc[p][0] \in {"hook", "locked", "publish"},
         NEW x \in {"hook", "locked", "publish", "b2"}, pc' = Set(pc, p, 0, x),
         UNCHANGED <<config, waiting, node, taken, chunk, seen, nBarrier, nPassed, currentChunk, wdata, stores>>,
         x = "b2" => route' = decided'[p],
         \/ pc[p][0] = "publish" /\ x = "b2" /\ UNCHANGED <<decided, fpgaDst>>
         \/ pc[p][0] # "publish" /\ x \in {"hook", "locked"} /\ UNCHANGED fpgaDst
         \/ pc[p][0] # "publish" /\ x = "publish" /\ decided'[p] # FpgaDst /\ UNCHANGED fpgaDst
         \/ /\ pc[p][0] # "publish" /\ x = "publish" /\ decided'[p] = FpgaDst
            /\ fpgaDst'[p] = fpgaDst[p] \cup {node[p][0]}
  PROVE  BarrierCounts(p)' /\ Section(p, X, n)'
<1>1. 0 \in Threads /\ pc[p][0] \notin Barriers /\ n \in Nat
  BY Constants DEF Barriers
<1>2. pc[p][0] \in Positions(p, 0, X) /\ node[p][0] = n
  BY <1>1, Placed DEF Section, Together
<1>3. X = "b1" /\ Enabled
  BY <1>2 DEF Positions, Barriers
<1>4. x \in Positions(p, 0, X)
  BY <1>3 DEF Positions
<1>5. /\ BarrierCounts(p)' /\ Together(p, X, n)' /\ pc'[p][0] = x
      /\ \A v \in Threads : v # 0 => pc'[p][v] = pc[p][v]
  <2>1. Together(p, X, n) /\ x \notin {"b1", "finished"} /\ X # "b2"
    BY <1>3 DEF Section
  <2> QED
    BY <1>1, <1>4, <2>1, MoveTogether
<1>6. \A v \in Threads : pc'[p][v] \in {"b1", "hook", "locked", "publish", "b2"}
  <2>1. ASSUME NEW v \in Threads, v # 0 PROVE pc[p][v] \in {"b1", "b2"}
    BY <1>3, <2>1 DEF Section, Together, Member, Positions
  <2> QED
    BY <1>5, <2>1
<1>7. Agreed(p, X)'
  BY <1>3, <1>5, <1>6 DEF Agreed
<1>8. \A m \in Nodes : m # n => (m \in fpgaDst'[p] <=> m \in fpgaDst[p])
  BY <1>2
<1>9. HostStores(p, X, n)'
  <2>1. HostStores(p, X, n)
    BY DEF Section
  <2>2. \A m \in fpgaDst'[p] : m <= n
    <3>1. \A m \in fpgaDst'[p] : m \in fpgaDst[p] \/ m = n
      BY <1>2
    <3> QED
      BY <1>1, <2>1, <3>1 DEF HostStores
  <2>3. n \in fpgaDst[p] <=> pc[p][0] = "publish" /\ decided[p] = FpgaDst
    BY <1>3, <2>1 DEF HostStores, Answered
  <2>4. n \in fpgaDst'[p] <=> x \in {"publish", "b2"} /\ decided'[p] = FpgaDst
    BY <1>2, <2>3
  <2>5. Answered(p, X)' <=> x \in {"publish", "b2"}
    BY <1>3, <1>5 DEF Answered
  <2> QED
    BY <2>2, <2>4, <2>5 DEF HostStores
<1>10. Converted(p, X, n)'
  BY <1>1, <1>3, <1>6 DEF Converted
<1>11. NativeStores(p, X, n)'
  <2>1. NativeStores(p, X, n)
    BY DEF Section
  <2>2. ASSUME NEW m \in Nodes, m < n PROVE Completed(p, m)'
    <3>1. Completed(p, m) /\ m # n
      BY <1>1, <2>1, <2>2, Constants DEF NativeStores
    <3> QED
      BY <1>8, <3>1 DEF Completed
  <2> QED
    BY <1>3, <2>1, <2>2 DEF NativeStores
<1> QED
  BY <1>3, <1>5, <1>7, <1>9, <1>10, <1>11 DEF Section

\* The five actions of thread 0 in the hook.
LEMMA HookKeepsSection ==
  ASSUME Types, NEW p \in Pools, BarrierCounts(p),
         NEW X \in Barriers, NEW n \in 0..Len(Graph), Section(p, X, n),
         HookBypass(p) \/ HookReject(p) \/ HookAccept(p) \/ HookRun(p) \/ Publish(p)
  PROVE  BarrierCounts(p)' /\ Section(p, X, n)'
<1>1. /\ decided \in [Pools -> Routes] /\ fpgaDst \in [Pools -> SUBSET Nodes] /\ 0 \in Threads
      /\ NotHandled # FpgaDst /\ CpuShadow # FpgaDst
      /\ pc = Set(pc, p, 0, pc[p][0])
  <2>1. pc = Set(pc, p, 0, pc[p][0])
    BY Constants DEF Types, Set
  <2> QED
    BY <2>1, Constants DEF Types, NotHandled, FpgaDst, CpuShadow
<1>2. ASSUME HookBypass(p) \/ HookReject(p) PROVE BarrierCounts(p)' /\ Section(p, X, n)'
  <2>1. /\ pc[p][0] = "hook" /\ ((Answer(p, NotHandled)) \/ (UNCHANGED <<pc, decided>>))
        /\ UNCHANGED <<config, waiting, node, taken, chunk, seen, nBarrier, nPassed, currentChunk, wdata, stores, fpgaDst>>
    <3>1. CASE HookBypass(p)
      BY <3>1 DEF HookBypass, data
    <3>2. CASE HookReject(p)
      BY <3>2 DEF HookReject, data
    <3> QED
      BY <1>2, <3>1, <3>2
  <2>2. CASE Answer(p, NotHandled)
    <3>1. pc' = Set(pc, p, 0, "publish") /\ decided'[p] # FpgaDst
      BY <1>1, <2>2 DEF Answer, Goto
    <3> QED
      BY <2>1, <3>1, HookSection
  <2>3. CASE UNCHANGED <<pc, decided>>
    <3>1. pc' = Set(pc, p, 0, "hook")
      BY <1>1, <2>1, <2>3
    <3> QED
      BY <2>1, <3>1, HookSection
  <2> QED
    BY <2>1, <2>2, <2>3
<1>3. ASSUME HookAccept(p) PROVE BarrierCounts(p)' /\ Section(p, X, n)'
  <2>1. /\ pc[p][0] = "hook" /\ pc' = Set(pc, p, 0, "locked")
        /\ UNCHANGED <<config, waiting, node, taken, chunk, seen, nBarrier, nPassed, currentChunk, wdata, stores, fpgaDst>>
    BY <1>3 DEF HookAccept, data, shared, Goto
  <2> QED
    BY <2>1, HookSection
<1>4. ASSUME HookRun(p) PROVE BarrierCounts(p)' /\ Section(p, X, n)'
  <2>1. /\ pc[p][0] = "locked"
        /\ UNCHANGED <<config, waiting, node, taken, chunk, seen, nBarrier, nPassed, currentChunk, wdata, stores>>
        /\ \/ Answer(p, CpuShadow) /\ UNCHANGED fpgaDst
           \/ Answer(p, FpgaDst) /\ fpgaDst' = [fpgaDst EXCEPT ![p] = @ \cup {node[p][0]}]
           \/ UNCHANGED <<pc, decided, fpgaDst>>
    BY <1>4 DEF HookRun
  <2>2. CASE Answer(p, CpuShadow) /\ UNCHANGED fpgaDst
    <3>1. pc' = Set(pc, p, 0, "publish") /\ decided'[p] # FpgaDst
      BY <1>1, <2>2 DEF Answer, Goto
    <3> QED
      BY <2>1, <2>2, <3>1, HookSection
  <2>3. CASE Answer(p, FpgaDst) /\ fpgaDst' = [fpgaDst EXCEPT ![p] = @ \cup {node[p][0]}]
    <3>1. pc' = Set(pc, p, 0, "publish") /\ decided'[p] = FpgaDst
      BY <1>1, <2>3 DEF Answer, Goto
    <3>2. fpgaDst'[p] = fpgaDst[p] \cup {node[p][0]}
      BY <1>1, <2>3
    <3> QED
      BY <2>1, <3>1, <3>2, HookSection
  <2>4. CASE UNCHANGED <<pc, decided, fpgaDst>>
    <3>1. pc' = Set(pc, p, 0, "locked")
      BY <1>1, <2>1, <2>4
    <3> QED
      BY <2>1, <2>4, <3>1, HookSection
  <2> QED
    BY <2>1, <2>2, <2>3, <2>4
<1>5. ASSUME Publish(p) PROVE BarrierCounts(p)' /\ Section(p, X, n)'
  <2>1. /\ pc[p][0] = "publish" /\ pc' = Set(pc, p, 0, "b2") /\ route' = decided'[p]
        /\ UNCHANGED <<config, waiting, node, taken, chunk, seen, nBarrier, nPassed, currentChunk, wdata, stores>>
        /\ UNCHANGED <<decided, fpgaDst>>
    BY <1>5 DEF Publish, data, shared, Goto
  <2> QED
    BY <2>1, HookSection
<1> QED
  BY <1>2, <1>3, <1>4, <1>5

\* A worker loads the answer of its own node.
LEMMA LoadSection ==
  ASSUME Types, NEW p \in Pools, NEW w \in Threads, BarrierCounts(p), Load(p, w),
         NEW X \in Barriers, NEW n \in 0..Len(Graph), Section(p, X, n)
  PROVE  BarrierCounts(p)' /\ Section(p, X, n)'
<1> DEFINE x == IF route = FpgaDst THEN "b4" ELSE "convert"
<1>1. /\ pc[p][w] = "load" /\ taken' = Set(taken, p, w, route) /\ pc' = Set(pc, p, w, x)
      /\ UNCHANGED <<config, waiting, node, seen, nBarrier, nPassed>>
      /\ UNCHANGED <<route, chunk, currentChunk, decided, wdata, stores, fpgaDst>>
  BY DEF Load, Goto, data, shared
<1>2. pc[p][w] \notin Barriers /\ n \in Nat
  BY <1>1, Constants DEF Barriers
<1>3. pc[p][w] \in Positions(p, w, X) /\ node[p][w] = n
  BY <1>2, Placed DEF Section, Together
<1>4. X = "b2" /\ Enabled /\ route = decided[p]
  <2>1. X = "b2"
    BY <1>1, <1>3 DEF Positions, Barriers
  <2> QED
    BY <2>1 DEF Section, Agreed
<1>5. x \in Positions(p, w, X)
  BY <1>4 DEF Positions
<1>6. /\ BarrierCounts(p)' /\ Together(p, X, n)' /\ pc'[p][w] = x
      /\ \A v \in Threads : v # w => pc'[p][v] = pc[p][v]
  <2>1. Together(p, X, n) /\ x \notin {"b1", "finished"}
    BY DEF Section
  <2> HIDE DEF x
  <2> QED
    BY <1>1, <1>2, <1>5, <2>1, MoveTogether
<1>7. taken'[p][w] = decided[p] /\ \A v \in Threads : v # w => taken'[p][v] = taken[p][v]
  BY <1>1, <1>4 DEF Set, Types
<1>8. Agreed(p, X)'
  BY <1>1, <1>4, <1>6, <1>7 DEF Section, Agreed, Enabled
<1>9. HostStores(p, X, n)'
  BY <1>1, <1>4 DEF Section, HostStores, Answered
<1>10. Converted(p, X, n)'
  <2>1. \A v \in Threads : pc'[p][v] = "b3" => pc[p][v] = "b3"
    BY <1>6
  <2> QED
    BY <1>1, <1>4, <2>1, Constants DEF Section, Converted
<1>11. NativeStores(p, X, n)'
  BY <1>1, <1>4, StoresStay DEF Section
<1> QED
  BY <1>4, <1>6, <1>8, <1>9, <1>10, <1>11 DEF Section

\* A worker converts its slice of src1 for its node.
LEMMA ConvertSection ==
  ASSUME Types, NEW p \in Pools, NEW w \in Threads, BarrierCounts(p), Convert(p, w),
         NEW X \in Barriers, NEW n \in 0..Len(Graph), Section(p, X, n)
  PROVE  BarrierCounts(p)' /\ Section(p, X, n)'
<1>1. /\ pc[p][w] = "convert" /\ pc' = Set(pc, p, w, "b3") /\ wdata' = Set(wdata, p, w, node[p][w])
      /\ currentChunk' = IF w = 0 THEN [currentChunk EXCEPT ![p] = NumThreads] ELSE currentChunk
      /\ UNCHANGED <<config, waiting, node, seen, nBarrier, nPassed>>
      /\ UNCHANGED <<route, taken, chunk, decided, stores, fpgaDst>>
  BY DEF Convert, Goto
<1>2. pc[p][w] \notin Barriers /\ n \in Nat
  BY <1>1, Constants DEF Barriers
<1>3. pc[p][w] \in Positions(p, w, X) /\ node[p][w] = n
  BY <1>2, Placed DEF Section, Together
<1>4. X \in {"b1", "b2"} /\ "b3" \in Positions(p, w, X)
  BY <1>1, <1>3 DEF Positions, Barriers
<1>5. /\ BarrierCounts(p)' /\ Together(p, X, n)' /\ pc'[p][w] = "b3"
      /\ \A v \in Threads : v # w => pc'[p][v] = pc[p][v]
  <2>1. Together(p, X, n) /\ "b3" \notin {"b1", "finished"}
    BY DEF Section
  <2> QED
    BY <1>1, <1>2, <1>4, <2>1, MoveTogether
<1>6. wdata'[p][w] = n /\ \A v \in Threads : v # w => wdata'[p][v] = wdata[p][v]
  BY <1>1, <1>3 DEF Set, Types
<1>7. Agreed(p, X)'
  <2>1. Agreed(p, X) /\ (Enabled' <=> Enabled) /\ 0 \in Threads
    BY <1>1, Constants DEF Section, Enabled
  <2>2. pc'[p][0] = "b2" => pc[p][0] = "b2"
    BY <1>5, <2>1
  <2>3. ASSUME Enabled, NEW v \in Threads, pc'[p][v] \in {"convert", "b3", "compute", "b4"}
        PROVE  taken'[p][v] = decided'[p]
    <3>1. pc[p][v] \in {"convert", "b3", "compute", "b4"}
      BY <1>1, <1>5, <2>3
    <3> QED
      BY <1>1, <2>1, <2>3, <3>1 DEF Agreed
  <2> QED
    BY <1>1, <2>1, <2>2, <2>3 DEF Agreed
<1>8. HostStores(p, X, n)'
  <2>1. Answered(p, X)' <=> Answered(p, X)
    <3>1. pc'[p][0] \in {"publish", "b2"} <=> pc[p][0] \in {"publish", "b2"}
      BY <1>1, <1>5, Constants
    <3> QED
      BY <3>1 DEF Answered
  <2> QED
    BY <1>1, <2>1 DEF Section, HostStores
<1>9. Converted(p, X, n)'
  <2>1. Converted(p, X, n)
    BY DEF Section
  <2>2. \A v \in Threads : X = "b3" \/ pc'[p][v] = "b3" => wdata'[p][v] = n
    BY <1>4, <1>5, <1>6, <2>1 DEF Converted
  <2>3. pc'[p][0] = "b3" => currentChunk'[p] = NumThreads
    <3>1. CASE w = 0
      BY <1>1, <3>1 DEF Types
    <3>2. CASE w # 0
      BY <1>1, <1>4, <1>5, <2>1, <3>2, Constants DEF Converted
    <3> QED
      BY <3>1, <3>2
  <2> QED
    BY <2>2, <2>3 DEF Converted
<1>10. NativeStores(p, X, n)'
  <2>1. \A m \in Nodes : Completed(p, m)' <=> Completed(p, m)
    BY <1>1 DEF Completed
  <2> QED
    BY <1>1, <1>4, <2>1 DEF Section, NativeStores
<1> QED
  BY <1>5, <1>7, <1>8, <1>9, <1>10 DEF Section

\* What one turn of the native kernel does to the account of the chunks, from
\* what it does to the worker: it stored the chunk it held, if that was one of
\* the product's, and holds what it drew from the counter instead.
LEMMA DealGoesOn ==
  ASSUME Types, NEW p \in Pools, NEW w \in Threads, NEW n \in Nodes, ChunksDealt(p, n),
         Held(p, w) = {chunk[p][w]}, Held(p, w)' \in {{}, {currentChunk[p]}},
         currentChunk'[p] = IF Held(p, w)' = {} THEN currentChunk[p] ELSE currentChunk[p] + 1,
         \A v \in Threads : v # w => Held(p, v)' = Held(p, v) /\ pc'[p][v] = pc[p][v],
         pc'[p][w] = "b4" => currentChunk[p] >= NumChunks,
         \A c \in Chunks : stores'[p][n][c] = stores[p][n][c] + (IF c = chunk[p][w] THEN 1 ELSE 0)
  PROVE  ChunksDealt(p, n)'
<1> DEFINE k == currentChunk[p]
           kk == currentChunk'[p]
<1>1. /\ k \in Nat /\ kk \in Nat /\ k >= NumThreads /\ k <= kk /\ chunk[p][w] \in Nat /\ chunk[p][w] < k
      /\ Held(p, w)' # {} => kk = k + 1
  BY DEF ChunksDealt, Types
<1>2. \A v \in Threads : v # w => Held(p, v) \subseteq Nat /\ chunk[p][w] \notin Held(p, v)
  <2>1. ASSUME NEW v \in Threads, v # w PROVE Held(p, v) \subseteq Nat
    BY Constants DEF Held, Types
  <2> QED
    BY <2>1 DEF ChunksDealt
<1>3. kk >= NumThreads
  BY <1>1, Constants
<1>4. ASSUME NEW v \in Threads, NEW c \in Held(p, v)' PROVE c < kk
  <2>1. CASE v = w
    BY <1>1, <1>4, <2>1
  <2>2. CASE v # w
    <3>1. c \in Held(p, v) /\ c \in Nat /\ c < k
      BY <1>2, <1>4, <2>2 DEF ChunksDealt
    <3> QED
      BY <1>1, <3>1
  <2> QED
    BY <2>1, <2>2
<1>5. ASSUME NEW u \in Threads, NEW v \in Threads, u # v PROVE Held(p, u)' \cap Held(p, v)' = {}
  <2>1. \A y \in Threads : y # w => k \notin Held(p, y)
    BY <1>1, <1>2 DEF ChunksDealt
  <2>2. CASE u # w /\ v # w
    BY <1>5, <2>2 DEF ChunksDealt
  <2>3. CASE u = w
    BY <1>5, <2>1, <2>3
  <2>4. CASE v = w
    BY <1>5, <2>1, <2>4
  <2> QED
    BY <2>2, <2>3, <2>4
<1>6. ASSUME NEW v \in Threads, pc'[p][v] = "b4" PROVE kk >= NumChunks
  <2>1. k >= NumChunks
    BY <1>6 DEF ChunksDealt
  <2> QED
    BY <1>1, <2>1, Constants
<1>7. ASSUME NEW c \in Chunks
      PROVE  stores'[p][n][c] = IF c < kk /\ \A v \in Threads : c \notin Held(p, v)' THEN 1 ELSE 0
  <2>1. c \in Nat
    BY Constants
  <2>2. stores[p][n][c] = IF c < k /\ \A v \in Threads : c \notin Held(p, v) THEN 1 ELSE 0
    BY DEF ChunksDealt
  <2>3. CASE c = chunk[p][w]
    <3>1. stores'[p][n][c] = 1
      BY <2>2, <2>3
    <3>2. c < kk /\ \A v \in Threads : c \notin Held(p, v)'
      BY <1>1, <1>2, <2>1, <2>3
    <3> QED
      BY <3>1, <3>2
  <2>4. CASE c # chunk[p][w] /\ c \notin Held(p, w)'
    <3>1. (\A v \in Threads : c \notin Held(p, v)') <=> \A v \in Threads : c \notin Held(p, v)
      BY <2>4
    <3>2. c < kk <=> c < k
      BY <1>1, <2>1, <2>4
    <3>3. stores'[p][n][c] = stores[p][n][c]
      BY <2>2, <2>4
    <3> QED
      BY <2>2, <3>1, <3>2, <3>3
  <2>5. CASE c # chunk[p][w] /\ c \in Held(p, w)'
    <3>1. c = k /\ ~(c < k)
      BY <1>1, <2>5
    <3>2. stores'[p][n][c] = 0
      BY <2>2, <2>5, <3>1
    <3> QED
      BY <2>5, <3>2
  <2> QED
    BY <2>3, <2>4, <2>5
<1> QED
  BY <1>3, <1>4, <1>5, <1>6, <1>7 DEF ChunksDealt

\* A worker computes the chunk it holds and draws the next one.
LEMMA ComputeSection ==
  ASSUME Types, Types', NEW p \in Pools, NEW w \in Threads, BarrierCounts(p), Compute(p, w),
         NEW X \in Barriers, NEW n \in 0..Len(Graph), Section(p, X, n)
  PROVE  BarrierCounts(p)' /\ Section(p, X, n)'
<1>1. /\ pc[p][w] = "compute" /\ pc[p][w] \notin Barriers /\ n \in Nat /\ 0 \in Threads
      /\ UNCHANGED <<config, waiting, node, seen, nBarrier, nPassed>>
      /\ UNCHANGED <<route, taken, decided, wdata, fpgaDst>>
  BY Constants DEF Compute, Barriers
<1>2. pc[p][w] \in Positions(p, w, X) /\ node[p][w] = n
  BY <1>1, Placed DEF Section, Together
<1>3. X = "b3" /\ n \in Nodes
  BY <1>1, <1>2 DEF Positions, Barriers, Types
<1>4. ChunksDealt(p, n)
  BY <1>3 DEF Section, NativeStores
<1>5. PICK x \in {"compute", "b4"} : pc' = Set(pc, p, w, x)
  <2>1. pc = Set(pc, p, w, "compute")
    BY <1>1 DEF Set, Types
  <2> QED
    BY <2>1 DEF Compute, Goto
<1>6. /\ BarrierCounts(p)' /\ Together(p, X, n)' /\ pc'[p][w] = x
      /\ \A v \in Threads : v # w => pc'[p][v] = pc[p][v]
  <2>1. Together(p, X, n) /\ x \in Positions(p, w, X) /\ x \notin {"b1", "finished"}
    BY <1>3 DEF Section, Positions
  <2> QED
    BY <1>1, <1>5, <2>1, MoveTogether
<1>7. Agreed(p, X)'
  <2>1. Agreed(p, X) /\ (Enabled' <=> Enabled)
    BY <1>1 DEF Section, Enabled
  <2>2. ASSUME Enabled, NEW v \in Threads, pc'[p][v] \in {"convert", "b3", "compute", "b4"}
        PROVE  taken'[p][v] = decided'[p]
    <3>1. pc[p][v] \in {"convert", "b3", "compute", "b4"}
      BY <1>1, <1>6, <2>2
    <3> QED
      BY <1>1, <2>1, <2>2, <3>1 DEF Agreed
  <2> QED
    BY <1>1, <1>3, <2>1, <2>2 DEF Agreed
<1>8. HostStores(p, X, n)'
  BY <1>1, <1>3 DEF Section, HostStores, Answered
<1>9. Converted(p, X, n)'
  BY <1>1, <1>3 DEF Section, Converted
<1>10. /\ \A c \in Chunks : stores'[p][n][c] = stores[p][n][c] + (IF c = chunk[p][w] THEN 1 ELSE 0)
       /\ \A m \in Nodes : m # n => stores'[p][m] = stores[p][m]
  <2>1. stores \in [Pools -> [Nodes -> [Chunks -> Nat]]]
    BY DEF Types
  <2>2. \A c \in Chunks : stores[p][n][c] \in Nat
    BY <1>3, <2>1
  <2>3. CASE chunk[p][w] \in Chunks
    <3>1. stores' = [stores EXCEPT ![p][n][chunk[p][w]] = @ + 1]
      BY <1>2, <2>3 DEF Compute
    <3> QED
      BY <1>3, <2>1, <2>2, <2>3, <3>1
  <2>4. CASE chunk[p][w] \notin Chunks
    <3>1. stores' = stores
      BY <2>4 DEF Compute
    <3> QED
      BY <2>2, <2>4, <3>1
  <2> QED
    BY <2>3, <2>4
<1>11. Held(p, w) = {chunk[p][w]} /\ \A v \in Threads : v # w => Held(p, v)' = Held(p, v)
  <2>1. \A v \in Threads : v # w => chunk'[p][v] = chunk[p][v]
    <3>1. chunk' = chunk \/ chunk' = Set(chunk, p, w, currentChunk[p])
      BY DEF Compute
    <3>2. chunk \in [Pools -> [Threads -> Nat]]
      BY DEF Types
    <3> QED
      BY <3>1, <3>2 DEF Set
  <2> QED
    BY <1>1, <1>6, <2>1 DEF Held
<1>12. /\ Held(p, w)' \in {{}, {currentChunk[p]}}
       /\ currentChunk'[p] = IF Held(p, w)' = {} THEN currentChunk[p] ELSE currentChunk[p] + 1
       /\ pc'[p][w] = "b4" => currentChunk[p] >= NumChunks
  <2>1. /\ currentChunk[p] \in Nat /\ currentChunk[p] >= NumThreads
        /\ chunk[p][w] \in Nat /\ chunk[p][w] < currentChunk[p]
    BY <1>4, <1>11 DEF ChunksDealt, Types
  <2>2. CASE chunk[p][w] \in Chunks /\ NumThreads < NumChunks
    <3>1. /\ pc' = pc /\ chunk' = Set(chunk, p, w, currentChunk[p])
          /\ currentChunk' = [currentChunk EXCEPT ![p] = @ + 1]
      BY <2>2, Constants DEF Compute
    <3>2. pc'[p][w] = "compute" /\ chunk'[p][w] = currentChunk[p] /\ currentChunk'[p] = currentChunk[p] + 1
      BY <1>1, <3>1 DEF Set, Types
    <3> QED
      BY <3>2 DEF Held
  <2>3. CASE ~(chunk[p][w] \in Chunks /\ NumThreads < NumChunks)
    <3>1. pc' = Set(pc, p, w, "b4") /\ currentChunk' = currentChunk
      BY <2>3, Constants DEF Compute, Goto
    <3>2. pc'[p][w] = "b4"
      BY <3>1 DEF Set, Types
    <3>3. currentChunk[p] >= NumChunks
      BY <2>1, <2>3, Constants DEF Chunks
    <3> QED
      BY <3>1, <3>2, <3>3 DEF Held
  <2> QED
    BY <2>2, <2>3
<1>13. ChunksDealt(p, n)'
  BY <1>3, <1>4, <1>6, <1>10, <1>11, <1>12, DealGoesOn
<1>14. NativeStores(p, X, n)'
  <2>1. NativeStores(p, X, n)
    BY DEF Section
  <2>2. ASSUME NEW m \in Nodes, m > n PROVE \A c \in Chunks : stores'[p][m][c] = 0
    <3>1. m # n
      BY <1>1, <2>2, Constants
    <3> QED
      BY <1>10, <2>1, <2>2, <3>1 DEF NativeStores
  <2>3. ASSUME NEW m \in Nodes, m < n PROVE Completed(p, m)'
    <3>1. m # n
      BY <1>1, <2>3, Constants
    <3> QED
      BY <1>1, <1>10, <2>1, <2>3, <3>1 DEF NativeStores, Completed
  <2> QED
    BY <1>3, <1>13, <2>2, <2>3 DEF NativeStores
<1> QED
  BY <1>3, <1>6, <1>7, <1>8, <1>9, <1>14 DEF Section

\* The pool's part of the invariant is kept by every step of its workers.
LEMMA PoolStep ==
  ASSUME OnePool, Types, Types', PoolInv, [Next]_vars
  PROVE  PoolInv'
<1> DEFINE Good(p) == BarrierCounts(p) /\ \E X \in Barriers, n \in 0..Len(Graph) : Section(p, X, n)
<1>1. SUFFICES ASSUME NEW p \in Pools PROVE Good(p)'
  BY <1>1 DEF PoolInv
<1>2. BarrierCounts(p)
  BY DEF PoolInv
<1>3. PICK X \in Barriers, n \in 0..Len(Graph) : Section(p, X, n)
  BY DEF PoolInv
<1>4. CASE UNCHANGED vars
  <2>1. UNCHANGED <<pc, waiting, node, seen, nBarrier, nPassed>>
    BY <1>4 DEF vars, workers, shared
  <2>2. UNCHANGED <<config, route, taken, chunk, currentChunk, decided, wdata, stores, fpgaDst>>
    BY <1>4 DEF vars, workers, shared, data
  <2>3. BarrierCounts(p)'
    BY <1>2, <2>1 DEF BarrierCounts, Blocked
  <2>4. Together(p, X, n)'
    <3>1. ASSUME NEW v \in Threads PROVE Member(p, v, X, n)'
      <4>1. Positions(p, v, X)' = Positions(p, v, X) /\ (Released(p, v)' <=> Released(p, v))
        BY <2>1, <2>2 DEF Positions, Enabled, Released
      <4> QED
        BY <1>3, <2>1, <4>1, Stays DEF Section, Together
    <3> QED
      BY <3>1 DEF Together
  <2>5. Agreed(p, X)' /\ HostStores(p, X, n)' /\ Converted(p, X, n)'
    BY <1>3, <2>1, <2>2 DEF Section, Agreed, Enabled, HostStores, Answered, Converted
  <2>6. NativeStores(p, X, n)'
    <3>1. \A v \in Threads : Held(p, v)' = Held(p, v) /\ pc'[p][v] = pc[p][v]
      BY <2>1, <2>2 DEF Held
    <3> QED
      BY <1>3, <2>2, <3>1, StoresStay DEF Section
  <2>7. Section(p, X, n)'
    BY <1>3, <2>4, <2>5, <2>6 DEF Section
  <2> QED
    BY <2>3, <2>7
<1>5. ASSUME NEW q \in Pools, NEW w \in Threads,
             \/ EnterBarrier(q, w) \/ LeaveBarrier(q, w)
             \/ w = 0 /\ (HookBypass(q) \/ HookReject(q) \/ HookAccept(q) \/ HookRun(q) \/ Publish(q))
             \/ Load(q, w) \/ Convert(q, w) \/ Compute(q, w)
      PROVE  Good(p)'
  <2>1. q = p
    BY DEF OnePool
  <2>2. CASE EnterBarrier(p, w) /\ nBarrier[p] = NumThreads - 1
    <3>1. BarrierCounts(p)'
      BY <1>2, <2>2, OpenCounts
    <3>2. \E Y \in Barriers, m \in 0..Len(Graph) : Section(p, Y, m)'
      BY <1>2, <1>3, <2>2, OpenSection
    <3> QED
      BY <3>1, <3>2
  <2>3. CASE EnterBarrier(p, w) /\ nBarrier[p] # NumThreads - 1
    <3>1. BarrierCounts(p)'
      BY <1>2, <2>3, ArriveCounts
    <3>2. Section(p, X, n)'
      BY <1>2, <1>3, <2>3, ArriveSection
    <3> QED
      BY <3>1, <3>2
  <2>4. CASE LeaveBarrier(p, w)
    <3>1. BarrierCounts(p)' /\ Section(p, X, n)'
      BY <1>2, <1>3, <2>4, LeaveSection
    <3> QED
      BY <3>1
  <2>5. CASE HookBypass(p) \/ HookReject(p) \/ HookAccept(p) \/ HookRun(p) \/ Publish(p)
    <3>1. BarrierCounts(p)' /\ Section(p, X, n)'
      BY <1>2, <1>3, <2>5, HookKeepsSection
    <3> QED
      BY <3>1
  <2>6. CASE Load(p, w)
    <3>1. BarrierCounts(p)' /\ Section(p, X, n)'
      BY <1>2, <1>3, <2>6, LoadSection
    <3> QED
      BY <3>1
  <2>7. CASE Convert(p, w)
    <3>1. BarrierCounts(p)' /\ Section(p, X, n)'
      BY <1>2, <1>3, <2>7, ConvertSection
    <3> QED
      BY <3>1
  <2>8. CASE Compute(p, w)
    <3>1. BarrierCounts(p)' /\ Section(p, X, n)'
      BY <1>2, <1>3, <2>8, ComputeSection
    <3> QED
      BY <3>1
  <2> QED
    BY <1>5, <2>1, <2>2, <2>3, <2>4, <2>5, <2>6, <2>7, <2>8
<1> HIDE DEF Good
<1> QED
  BY <1>4, <1>5, NextCases

(***************************************************************************)
(* The run counters                                                        *)
(***************************************************************************)

\* Only the hook takes or returns g_mutex, and only it counts.
LEMMA OutsideHook ==
  ASSUME Types, NEW p \in Pools, NEW w \in Threads, BarrierCounts(p),
         EnterBarrier(p, w) \/ LeaveBarrier(p, w) \/ Load(p, w) \/ Convert(p, w) \/ Compute(p, w)
  PROVE  UNCHANGED <<counts, config>> /\ (pc'[p][0] = "locked" <=> pc[p][0] = "locked")
<1>1. UNCHANGED <<counts, config>>
  BY DEF EnterBarrier, LeaveBarrier, Load, Convert, Compute
<1>2. pc[p][w] # "locked" /\ \E x : x # "locked" /\ (pc' = Set(pc, p, w, x) \/ pc' = pc)
  <2>1. ASSUME pc[p][w] \in Barriers PROVE AfterBarrier(p, w) # "locked" /\ pc[p][w] # "locked"
    BY <2>1 DEF AfterBarrier, Barriers
  <2>2. CASE EnterBarrier(p, w)
    <3>1. pc[p][w] \in Barriers /\ (Goto(p, w, AfterBarrier(p, w)) \/ pc' = pc)
      BY <2>2 DEF EnterBarrier, Proceed
    <3> QED
      BY <2>1, <3>1 DEF Goto
  <2>3. CASE LeaveBarrier(p, w)
    <3>1. pc[p][w] \in Barriers /\ Goto(p, w, AfterBarrier(p, w))
      BY <2>3 DEF LeaveBarrier, Proceed, BarrierCounts
    <3> QED
      BY <2>1, <3>1 DEF Goto
  <2>4. CASE Load(p, w)
    <3>1. pc[p][w] = "load" /\ (pc' = Set(pc, p, w, "b4") \/ pc' = Set(pc, p, w, "convert"))
      BY <2>4 DEF Load, Goto
    <3> QED
      BY <3>1
  <2>5. CASE Convert(p, w)
    <3>1. pc[p][w] = "convert" /\ pc' = Set(pc, p, w, "b3")
      BY <2>5 DEF Convert, Goto
    <3> QED
      BY <3>1
  <2>6. CASE Compute(p, w)
    <3>1. pc[p][w] = "compute" /\ (pc' = Set(pc, p, w, "b4") \/ pc' = pc)
      BY <2>6 DEF Compute, Goto
    <3> QED
      BY <3>1
  <2> QED
    BY <2>2, <2>3, <2>4, <2>5, <2>6
<1>3. pc'[p][0] = "locked" <=> pc[p][0] = "locked"
  <2>1. pc \in [Pools -> [Threads -> Pc]]
    BY DEF Types
  <2> QED
    BY <1>2, <2>1, Constants DEF Set
<1> QED
  BY <1>1, <1>3

\* A call of the hook counts a candidate, unless it is a source audit.
LEMMA CalledCounts ==
  ASSUME CountsTyped, NEW p \in Pools
  PROVE  /\ Called(p) \in [candidates : Nat, intentional : Nat, unavailable : Nat,
                           limitBypass : Nat, fpga : Nat, checks : Nat, launched : Nat]
         /\ Called(p).checks = counts.checks /\ Called(p).launched = counts.launched
         /\ Called(p).fpga = counts.fpga /\ Called(p).intentional = counts.intentional
         /\ Called(p).unavailable = counts.unavailable
         /\ config.mode = "normal" =>
              Called(p).candidates = counts.candidates + (IF Candidate(p) THEN 1 ELSE 0)
<1>1. counts \in [candidates : Nat, intentional : Nat, unavailable : Nat,
                  limitBypass : Nat, fpga : Nat, checks : Nat, launched : Nat]
  BY DEF CountsTyped
<1>2. CASE config.mode = "audit"
  BY <1>1, <1>2 DEF Called
<1>3. CASE config.mode # "audit"
  <2>1. Called(p) = [counts EXCEPT !.candidates = @ + (IF Candidate(p) THEN 1 ELSE 0)]
    BY <1>3 DEF Called, Add
  <2>2. (IF Candidate(p) THEN 1 ELSE 0) \in Nat
    OBVIOUS
  <2> QED
    BY <1>1, <2>1, <2>2
<1> QED
  BY <1>2, <1>3

\* A matmul on the hardware stays within the boundary, and in a qualification
\* every launch is checked.
LEMMA RunsWithin ==
  ASSUME CountsTyped
  PROVE  /\ Checks \in Nat /\ Launches \in Nat
         /\ Active => Launches = Checks /\ counts.checks + Checks <= config.limit
<1>1. counts.checks \in Nat /\ config.limit \in Nat /\ NumTiles \in Nat /\ NumTiles >= 1
  BY Constants DEF CountsTyped
<1>2. CASE Active
  BY <1>1, <1>2 DEF Active, Checks, Launches
<1>3. CASE ~Active
  BY <1>1, <1>3 DEF Checks, Launches
<1> QED
  BY <1>2, <1>3

\* The counters add up after every step.
LEMMA CountsStep ==
  ASSUME OnePool, Types, PoolInv, CountsInv, [Next]_vars
  PROVE  CountsInv'
<1> DEFINE R == [candidates : Nat, intentional : Nat, unavailable : Nat,
                 limitBypass : Nat, fpga : Nat, checks : Nat, launched : Nat]
<1>1. CountsTyped /\ BoundaryKept /\ CoverageAdds
  BY DEF CountsInv
<1>2. counts \in R /\ config.limit \in Nat /\ (config.perTile => config.limit > 0)
  BY <1>1 DEF CountsTyped
<1>3. /\ counts.candidates \in Nat /\ counts.intentional \in Nat /\ counts.unavailable \in Nat
      /\ counts.fpga \in Nat /\ counts.checks \in Nat /\ counts.launched \in Nat
  BY <1>2
\* It suffices to account for the only pool.
<1>4. ASSUME NEW p \in Pools, config' = config, counts' \in R,
             Shadow => /\ counts'.launched = counts'.checks /\ counts'.checks <= config.limit
                       /\ pc'[p][0] = "locked" => counts'.checks < config.limit,
             config.mode = "normal" /\ config.limit = 0 =>
               counts'.candidates = counts'.fpga + counts'.intentional + counts'.unavailable
                                    + (IF pc'[p][0] = "locked" THEN 1 ELSE 0)
      PROVE  CountsInv'
  <2>1. \A q \in Pools : q = p
    BY DEF OnePool
  <2>2. CountsTyped'
    BY <1>2, <1>4 DEF CountsTyped
  <2>3. BoundaryKept'
    BY <1>4, <2>1 DEF BoundaryKept, Shadow
  <2>4. (\E q \in Pools : pc'[q][0] = "locked") <=> pc'[p][0] = "locked"
    BY <2>1
  <2>5. CoverageAdds'
    BY <1>4, <2>4 DEF CoverageAdds
  <2> QED
    BY <2>2, <2>3, <2>5 DEF CountsInv
<1>5. ASSUME NEW p \in Pools
      PROVE  /\ Shadow => /\ counts.launched = counts.checks /\ counts.checks <= config.limit
                          /\ pc[p][0] = "locked" => counts.checks < config.limit
             /\ config.mode = "normal" /\ config.limit = 0 =>
                  counts.candidates = counts.fpga + counts.intentional + counts.unavailable
                                      + (IF pc[p][0] = "locked" THEN 1 ELSE 0)
  <2>1. (\E q \in Pools : pc[q][0] = "locked") <=> pc[p][0] = "locked"
    BY DEF OnePool
  <2> QED
    BY <1>1, <2>1 DEF BoundaryKept, CoverageAdds
<1>6. ASSUME NEW p \in Pools, NEW x, pc' = Set(pc, p, 0, x) PROVE pc'[p][0] = x
  BY <1>6, Constants DEF Set, Types
<1>7. ASSUME NEW p \in Pools, UNCHANGED <<counts, config>>, pc'[p][0] = "locked" <=> pc[p][0] = "locked"
      PROVE  CountsInv'
  BY <1>2, <1>4, <1>5, <1>7
<1>8. ASSUME NEW p \in Pools, HookBypass(p) PROVE CountsInv'
  <2>1. pc[p][0] = "hook" /\ counts' = CountBypass(p) /\ config' = config /\ pc'[p][0] # "locked"
    <3>1. CASE Answer(p, NotHandled)
      BY <1>6, <1>8, <3>1 DEF HookBypass, Answer, Goto
    <3>2. CASE ~Answer(p, NotHandled)
      BY <1>8, <3>2 DEF HookBypass
    <3> QED
      BY <3>1, <3>2
  <2>2. Called(p) \in R
    BY <1>1, CalledCounts
  <2>3. counts' \in R /\ counts'.checks = Called(p).checks /\ counts'.launched = Called(p).launched
    <3>1. CASE config.mode \in {"audit", "bench"}
      BY <2>1, <2>2, <3>1 DEF CountBypass
    <3>2. CASE config.mode \notin {"audit", "bench"} /\ AtBoundary(p)
      <4>1. counts' = [Called(p) EXCEPT !.limitBypass = @ + 1]
        BY <2>1, <3>2 DEF CountBypass
      <4> QED
        BY <2>2, <4>1
    <3>3. CASE config.mode \notin {"audit", "bench"} /\ ~AtBoundary(p)
      <4>1. counts' = [Called(p) EXCEPT !.intentional = @ + (IF Candidate(p) THEN 1 ELSE 0)]
        BY <2>1, <3>3 DEF CountBypass
      <4> QED
        BY <2>2, <4>1
    <3> QED
      BY <3>1, <3>2, <3>3
  <2>4. ASSUME config.mode = "normal", config.limit = 0
        PROVE  counts'.candidates = counts'.fpga + counts'.intentional + counts'.unavailable
    <3>1. ~AtBoundary(p)
      BY <2>4 DEF AtBoundary, Shadow
    <3>2. counts' = [Called(p) EXCEPT !.intentional = @ + (IF Candidate(p) THEN 1 ELSE 0)]
      BY <2>1, <2>4, <3>1 DEF CountBypass
    <3>3. /\ counts'.candidates = counts.candidates + (IF Candidate(p) THEN 1 ELSE 0)
          /\ counts'.intentional = counts.intentional + (IF Candidate(p) THEN 1 ELSE 0)
          /\ counts'.fpga = counts.fpga /\ counts'.unavailable = counts.unavailable
      BY <1>1, <2>2, <2>4, <3>2, CalledCounts
    <3> QED
      BY <1>3, <1>5, <2>1, <2>4, <3>3
  <2>5. counts'.candidates \in Nat /\ counts'.fpga \in Nat /\ counts'.intentional \in Nat /\ counts'.unavailable \in Nat
    BY <2>3
  <2>6. counts'.checks = counts.checks /\ counts'.launched = counts.launched
    BY <1>1, <2>3, CalledCounts
  <2> QED
    BY <1>4, <1>5, <2>1, <2>3, <2>4, <2>5, <2>6
<1>9. ASSUME NEW p \in Pools, HookReject(p) PROVE CountsInv'
  <2>1. /\ pc[p][0] = "hook" /\ config' = config /\ pc'[p][0] # "locked"
        /\ counts' = [Called(p) EXCEPT !.unavailable = @ + (IF Candidate(p) THEN 1 ELSE 0)]
    <3>1. CASE Answer(p, NotHandled)
      BY <1>6, <1>9, <3>1 DEF HookReject, Answer, Goto
    <3>2. CASE ~Answer(p, NotHandled)
      BY <1>9, <3>2 DEF HookReject
    <3> QED
      BY <3>1, <3>2
  <2>2. Called(p) \in R
    BY <1>1, CalledCounts
  <2>3. counts' \in R /\ counts'.checks = counts.checks /\ counts'.launched = counts.launched
    BY <1>1, <2>1, <2>2, CalledCounts
  <2>4. ASSUME config.mode = "normal", config.limit = 0
        PROVE  counts'.candidates = counts'.fpga + counts'.intentional + counts'.unavailable
    <3>1. /\ counts'.candidates = counts.candidates + (IF Candidate(p) THEN 1 ELSE 0)
          /\ counts'.unavailable = counts.unavailable + (IF Candidate(p) THEN 1 ELSE 0)
          /\ counts'.fpga = counts.fpga /\ counts'.intentional = counts.intentional
      BY <1>1, <2>1, <2>2, <2>4, CalledCounts
    <3> QED
      BY <1>3, <1>5, <2>1, <2>4, <3>1
  <2>5. counts'.candidates \in Nat /\ counts'.fpga \in Nat /\ counts'.intentional \in Nat /\ counts'.unavailable \in Nat
    BY <2>3
  <2> QED
    BY <1>4, <1>5, <2>1, <2>3, <2>4, <2>5
<1>10. ASSUME NEW p \in Pools, HookAccept(p) PROVE CountsInv'
  <2>1. /\ pc[p][0] = "hook" /\ config' = config /\ pc'[p][0] = "locked" /\ counts' = Called(p)
        /\ Candidate(p) /\ ~AtBoundary(p)
    BY <1>6, <1>10 DEF HookAccept, Goto, LeftToCpu
  <2>2. counts' \in R /\ counts'.checks = counts.checks /\ counts'.launched = counts.launched
    BY <1>1, <2>1, CalledCounts
  <2>3. Shadow => counts.checks < config.limit
    BY <1>2, <1>3, <2>1 DEF AtBoundary
  <2>4. ASSUME config.mode = "normal", config.limit = 0
        PROVE  counts'.candidates = counts'.fpga + counts'.intentional + counts'.unavailable + 1
    <3>1. /\ counts'.candidates = counts.candidates + 1 /\ counts'.unavailable = counts.unavailable
          /\ counts'.fpga = counts.fpga /\ counts'.intentional = counts.intentional
      BY <1>1, <2>1, <2>4, CalledCounts
    <3> QED
      BY <1>3, <1>5, <2>1, <2>4, <3>1
  <2> QED
    BY <1>4, <1>5, <2>1, <2>2, <2>3, <2>4
<1>11. ASSUME NEW p \in Pools, HookRun(p) PROVE CountsInv'
  <2>1. CASE UNCHANGED <<counts, pc>>
    BY <1>7, <1>11, <2>1 DEF HookRun
  <2>2. CASE ~UNCHANGED <<counts, pc>>
    <3>1. /\ pc[p][0] = "locked" /\ config' = config
          /\ \E r : Answer(p, r)
          /\ counts' = [counts EXCEPT !.checks = @ + Checks, !.launched = @ + Launches,
                          !.fpga = @ + (IF config.perTile /\ counts.checks + Checks >= config.limit
                                        THEN 0 ELSE 1)]
      BY <1>11, <2>2 DEF HookRun
    <3>2. pc'[p][0] = "publish"
      BY <1>6, <3>1 DEF Answer, Goto
    <3>3. Checks \in Nat /\ Launches \in Nat /\ (Active => Launches = Checks /\ counts.checks + Checks <= config.limit)
      BY <1>1, RunsWithin
    <3>4. /\ counts' \in R /\ counts'.checks = counts.checks + Checks
          /\ counts'.launched = counts.launched + Launches
          /\ counts'.candidates = counts.candidates /\ counts'.intentional = counts.intentional
          /\ counts'.unavailable = counts.unavailable
          /\ ~config.perTile => counts'.fpga = counts.fpga + 1
      <4>1. PICK d \in {0, 1} : /\ ~config.perTile => d = 1
                               /\ counts' = [counts EXCEPT !.checks = @ + Checks, !.launched = @ + Launches,
                                               !.fpga = @ + d]
        BY <3>1
      <4>2. counts.checks + Checks \in Nat /\ counts.launched + Launches \in Nat /\ counts.fpga + d \in Nat
        BY <1>3, <3>3
      <4> QED
        BY <1>2, <4>1, <4>2
    <3>5. Shadow => counts'.launched = counts'.checks /\ counts'.checks <= config.limit
      <4>1. Shadow => Active /\ counts.launched = counts.checks
        BY <1>5, <3>1 DEF Active
      <4> QED
        BY <3>3, <3>4, <4>1
    <3>6. ASSUME config.mode = "normal", config.limit = 0
          PROVE  counts'.candidates = counts'.fpga + counts'.intentional + counts'.unavailable
      <4>1. ~config.perTile
        BY <1>2, <3>6
      <4>2. counts.candidates = counts.fpga + counts.intentional + counts.unavailable + 1
        BY <1>5, <3>1, <3>6
      <4> QED
        BY <1>3, <3>4, <4>1, <4>2
    <3>7. counts'.candidates \in Nat /\ counts'.fpga \in Nat /\ counts'.intentional \in Nat /\ counts'.unavailable \in Nat
      BY <3>4
    <3> QED
      BY <1>4, <3>1, <3>2, <3>4, <3>5, <3>6, <3>7
  <2> QED
    BY <2>1, <2>2
<1>12. ASSUME NEW p \in Pools, Publish(p) PROVE CountsInv'
  <2>1. pc[p][0] = "publish" /\ UNCHANGED <<counts, config>> /\ pc' = Set(pc, p, 0, "b2")
    BY <1>12 DEF Publish, Goto
  <2>2. pc'[p][0] = "b2"
    BY <1>6, <2>1
  <2> QED
    BY <1>7, <2>1, <2>2
<1>13. ASSUME NEW p \in Pools, NEW w \in Threads,
              EnterBarrier(p, w) \/ LeaveBarrier(p, w) \/ Load(p, w) \/ Convert(p, w) \/ Compute(p, w)
       PROVE  CountsInv'
  BY <1>7, <1>13, OutsideHook DEF PoolInv
<1>14. CASE UNCHANGED vars
  BY <1>14 DEF vars, workers, CountsInv, CountsTyped, BoundaryKept, CoverageAdds, Shadow
<1> QED
  BY <1>8, <1>9, <1>10, <1>11, <1>12, <1>13, <1>14, NextCases

(***************************************************************************)
(* Theorems                                                                *)
(***************************************************************************)

\* Every worker starts in front of the first node's first barrier, as if a
\* node 0 had just been finished.
LEMMA InitHolds ==
  ASSUME Init PROVE Inv
<1>1. /\ pc = PerWorker("b1") /\ waiting = PerWorker(FALSE) /\ node = PerWorker(1)
      /\ taken = PerWorker(NotHandled) /\ chunk = PerWorker(0) /\ seen = PerWorker(0)
      /\ wdata = PerWorker(0)
      /\ stores = [p \in Pools |-> [n \in Nodes |-> [c \in Chunks |-> 0]]]
      /\ fpgaDst = [p \in Pools |-> {}]
  BY DEF Init
<1>2. 1 \in Nodes /\ 0 \in 0..Len(Graph) /\ "b4" \in Barriers /\ 0 \in Threads /\ 0 < Len(Graph)
      /\ Nodes \subseteq Nat \ {0}
  BY Constants DEF Nodes, Barriers
<1>3. Types
  <2>1. /\ "b1" \in Pc /\ FALSE \in BOOLEAN /\ NotHandled \in Routes
    BY DEF Pc, Barriers, Routes
  <2>2. /\ pc \in [Pools -> [Threads -> Pc]] /\ waiting \in [Pools -> [Threads -> BOOLEAN]]
        /\ node \in [Pools -> [Threads -> Nodes]] /\ taken \in [Pools -> [Threads -> Routes]]
    BY <1>1, <1>2, <2>1 DEF PerWorker
  <2>3. /\ chunk \in [Pools -> [Threads -> Nat]] /\ seen \in [Pools -> [Threads -> Nat]]
        /\ wdata \in [Pools -> [Threads -> Nat]]
    BY <1>1 DEF PerWorker
  <2>4. /\ stores \in [Pools -> [Nodes -> [Chunks -> Nat]]] /\ fpgaDst \in [Pools -> SUBSET Nodes]
    BY <1>1
  <2>5. /\ route \in Routes /\ dead \in BOOLEAN /\ nBarrier \in [Pools -> Nat] /\ nPassed \in [Pools -> Nat]
        /\ currentChunk \in [Pools -> Nat] /\ decided \in [Pools -> Routes]
    BY <2>1 DEF Init
  <2> QED
    BY <2>2, <2>3, <2>4, <2>5 DEF Types
<1>4. PoolInv
  <2>1. SUFFICES ASSUME NEW p \in Pools PROVE BarrierCounts(p) /\ Section(p, "b4", 0)
    BY <1>2, <2>1 DEF PoolInv
  <2>2. \A w \in Threads : pc[p][w] = "b1" /\ waiting[p][w] = FALSE /\ node[p][w] = 1
    BY <1>1 DEF PerWorker
  <2>3. BarrierCounts(p)
    <3>1. {w \in Threads : Blocked(p, w)} = {}
      BY <2>2 DEF Blocked
    <3>2. Cardinality({w \in Threads : Blocked(p, w)}) = 0
      BY <3>1, FS_EmptySet, Zenon
    <3>3. nBarrier[p] = 0
      BY DEF Init
    <3> QED
      BY <2>2, <3>2, <3>3, Constants DEF BarrierCounts
  <2>4. Together(p, "b4", 0)
    BY <1>2, <2>2 DEF Together, Member, Released, Positions
  <2>5. Agreed(p, "b4")
    BY <2>2 DEF Agreed
  <2>6. HostStores(p, "b4", 0)
    BY <1>1 DEF HostStores
  <2>7. Converted(p, "b4", 0)
    BY <2>2 DEF Converted
  <2>8. NativeStores(p, "b4", 0)
    BY <1>1, <1>2 DEF NativeStores
  <2> QED
    BY <2>3, <2>4, <2>5, <2>6, <2>7, <2>8 DEF Section
<1>5. CountsInv
  <2>1. /\ counts = [candidates |-> 0, intentional |-> 0, unavailable |-> 0,
                     limitBypass |-> 0, fpga |-> 0, checks |-> 0, launched |-> 0]
        /\ config.limit \in Nat /\ (config.perTile => config.limit > 0)
    BY RouteAssumption DEF Init
  <2>2. \A p \in Pools : pc[p][0] = "b1"
    BY <1>1, <1>2 DEF PerWorker
  <2> QED
    BY <2>1, <2>2 DEF CountsInv, CountsTyped, BoundaryKept, CoverageAdds, Shadow
<1> QED
  BY <1>3, <1>4, <1>5 DEF Inv

\* The invariant holds throughout: the workers of the pool go through the
\* barriers of every node section by section.
THEOREM Inductive == ASSUME OnePool PROVE Spec => []Inv
<1>1. Init => Inv
  BY InitHolds
<1>2. Inv /\ [Next]_vars => Inv'
  <2>1. SUFFICES ASSUME Inv, [Next]_vars PROVE Inv'
    OBVIOUS
  <2>2. Types /\ PoolInv /\ CountsInv /\ \A p \in Pools : BarrierCounts(p)
    BY <2>1 DEF Inv, PoolInv
  <2>3. Types'
    BY <2>1, <2>2, TypesStep
  <2>4. PoolInv'
    BY <2>1, <2>2, <2>3, PoolStep
  <2>5. CountsInv'
    BY <2>1, <2>2, CountsStep
  <2> QED
    BY <2>3, <2>4, <2>5 DEF Inv
<1> QED
  BY <1>1, <1>2, PTL DEF Spec

\* With one pool every worker acts upon the answer the host gave for its node.
THEOREM DecisionShared == ASSUME OnePool PROVE Spec => []OneDecision
<1>1. Inv => OneDecision
  <2>1. SUFFICES ASSUME Inv, NEW p \in Pools, NEW w \in Threads, Enabled,
                        pc[p][w] \in {"convert", "b3", "compute", "b4"}
                 PROVE  taken[p][w] = decided[p]
    BY DEF OneDecision
  <2>2. \E X \in Barriers : Agreed(p, X)
    BY <2>1 DEF Inv, PoolInv, Section
  <2> QED
    BY <2>1, <2>2 DEF Agreed
<1> QED
  BY <1>1, Inductive, PTL

\* The native kernel reads src1 only after every worker has converted its slice.
THEOREM ConvertedBeforeUse == ASSUME OnePool PROVE Spec => []NativeReadsConverted
<1>1. Inv => NativeReadsConverted
  <2>1. SUFFICES ASSUME Inv, NEW p \in Pools, NEW w \in Threads, pc[p][w] = "compute"
                 PROVE  \A v \in Threads : wdata[p][v] = node[p][w]
    BY DEF NativeReadsConverted
  <2>2. Types /\ BarrierCounts(p)
    BY <2>1 DEF Inv, PoolInv
  <2>3. PICK X \in Barriers, n \in 0..Len(Graph) : Section(p, X, n)
    BY <2>1 DEF Inv, PoolInv
  <2>4. pc[p][w] \notin Barriers /\ n \in Nat /\ Member(p, w, X, n)
    BY <2>1, <2>3, Constants DEF Barriers, Section, Together
  <2>5. pc[p][w] \in Positions(p, w, X) /\ node[p][w] = n
    BY <2>2, <2>4, Placed
  <2>6. X = "b3"
    BY <2>1, <2>5 DEF Positions, Barriers
  <2> QED
    BY <2>3, <2>5, <2>6 DEF Section, Converted
<1> QED
  BY <1>1, Inductive, PTL

\* Every dst is stored once, by the host or chunk by chunk by the native kernel.
THEOREM StoredOnce == ASSUME OnePool PROVE Spec => []DstStoredOnce
<1>1. Inv => DstStoredOnce
  <2>1. SUFFICES ASSUME Inv, NEW p \in Pools, NEW m \in Nodes,
                        \A w \in Threads : node[p][w] > m \/ pc[p][w] = "finished"
                 PROVE  Completed(p, m)
    BY DEF DstStoredOnce, Completed
  <2>2. PICK X \in Barriers, n \in 0..Len(Graph) : Section(p, X, n)
    BY <2>1 DEF Inv, PoolInv
  <2>3. n \in Nat /\ m \in Nat /\ m <= Len(Graph) /\ Len(Graph) \in Nat /\ 0 \in Threads
    BY Constants DEF Nodes
  <2>4. Member(p, 0, X, n) /\ (node[p][0] > m \/ pc[p][0] = "finished")
    BY <2>1, <2>2, <2>3 DEF Section, Together
  <2>5. m < n \/ (m = n /\ X = "b4")
    <3>1. CASE Released(p, 0)
      BY <2>3, <2>4, <3>1 DEF Member, Barriers
    <3>2. CASE ~Released(p, 0)
      <4>1. pc[p][0] \in {"b1", "finished"} => X = "b4"
        BY <2>4, <3>2 DEF Member, Positions, Barriers
      <4> QED
        BY <2>3, <2>4, <3>2, <4>1 DEF Member
    <3> QED
      BY <3>1, <3>2
  <2> QED
    BY <2>2, <2>5 DEF Section, NativeStores
<1> QED
  BY <1>1, Inductive, PTL

\* A qualification run launches no more than its limit, and nothing unchecked.
THEOREM BoundaryIsStrict == ASSUME OnePool PROVE Spec => []StrictBoundary
<1>1. Inv => StrictBoundary
  BY DEF Inv, CountsInv, BoundaryKept, StrictBoundary
<1> QED
  BY <1>1, Inductive, PTL

\* The coverage report adds up: what did not run on the FPGA is an exception.
THEOREM ReportIsExact == ASSUME OnePool PROVE Spec => []CoverageExact
<1>1. Inv => CoverageExact
  <2>1. SUFFICES ASSUME Inv, config.mode = "normal", config.limit = 0, \A p \in Pools : pc[p][0] # "locked"
                 PROVE  counts.fpga = counts.candidates - counts.intentional - counts.unavailable
    BY DEF CoverageExact
  <2>2. /\ counts.candidates \in Nat /\ counts.intentional \in Nat /\ counts.unavailable \in Nat
        /\ counts.fpga \in Nat
    BY <2>1 DEF Inv, CountsInv, CountsTyped
  <2>3. counts.candidates = counts.fpga + counts.intentional + counts.unavailable
    BY <2>1, <2>2 DEF Inv, CountsInv, CoverageAdds
  <2> QED
    BY <2>2, <2>3
<1> QED
  BY <1>1, Inductive, PTL

=============================================================================
