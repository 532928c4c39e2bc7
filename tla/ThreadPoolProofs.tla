--------------------------- MODULE ThreadPoolProofs ---------------------------
(***************************************************************************)
(* Proofs about ThreadPool for any number of threads, nodes and graphs,    *)
(* when all graphs ask for one thread count.  With counts that vary a      *)
(* polling worker can walk through a graph it has no part in, as a run     *)
(* shows.                                                                  *)
(***************************************************************************)
EXTENDS ThreadPool, FiniteSetTheorems, TLAPS

\* Every compute plan of the pool has the same n_threads.
OneCount == CountsVary = FALSE

(***************************************************************************)
(* The inductive invariant.  The threads that take part in a graph are     *)
(* always in one section between two barriers: all at node n, or behind    *)
(* it, or at rest between two graphs.                                      *)
(***************************************************************************)
Outside  == {"top", "pauselock", "pausing", "stop", "work", "poll", "lock", "asleep", "exited"}
Resting  == {"idle", "kickoff", "kick", "join", "freed"}
Spinning == {"spin", "finalspin"}
Pc == Outside \cup Resting \cup Spinning \cup {"found", "test", "node", "between", "final"}

Part == 0..count - 1

Blocked(w)  == pc[w] \in Spinning /\ seen[w] = n_passed
Released(w) == pc[w] \in Spinning /\ seen[w] # n_passed

Types ==
    /\ pc \in [Threads -> Pc] /\ count \in 1..NThreadsMax /\ n_threads_cur \in 1..NThreadsMax
    /\ n_graph \in Nat /\ n_barrier \in Nat /\ n_passed \in Nat /\ abort \in Int
    /\ at \in [Threads -> Nat] /\ executed \in [Threads -> Nat] /\ seen \in [Threads -> Nat]
    /\ last_graph \in [Threads -> Nat] /\ new_graph \in [Threads -> Nat]

BarrierCounts ==
    /\ n_barrier = Cardinality({w \in Threads : Blocked(w)})
    /\ n_barrier <= count - 1
    /\ \A w \in Threads : seen[w] <= n_passed

\* The walk ends at node n: an abort came before it, or it is the last one.
Ends(n) == abort = n \/ n + 1 = NumNodes

\* Thread w has come to node n.
Here(w, n) ==
    /\ at[w] = n /\ (w # 0 => last_graph[w] = n_graph)
    /\ \/ pc[w] = "test" /\ executed[w] = n
       \/ pc[w] = "node" /\ executed[w] = n /\ abort # n
       \/ /\ pc[w] = IF Ends(n) THEN "final" ELSE "between"
          /\ executed[w] = IF abort = n THEN n ELSE n + 1
       \/ /\ pc[w] = (IF Ends(n) THEN "finalspin" ELSE "spin") /\ Blocked(w)
          /\ executed[w] = IF abort = n THEN n ELSE n + 1

\* Thread w has not come to node n: it has not seen the graph, or not seen that
\* the barrier before the node is open.
Behind(w, n) ==
    IF n = 0
    THEN /\ w # 0 /\ last_graph[w] = n_graph - 1 /\ executed[w] = 0
         /\ \/ pc[w] \in Outside
            \/ pc[w] = "found" /\ new_graph[w] = n_graph
            \/ pc[w] = "finalspin" /\ Released(w)
    ELSE /\ pc[w] = "spin" /\ Released(w) /\ at[w] = n - 1 /\ executed[w] = n
         /\ w # 0 => last_graph[w] = n_graph

\* An abort is for this node, or for the next one once thread 0 has asked.
AbortFor(n) ==
    /\ abort \in {-1, n, n + 1} /\ abort # 0
    /\ abort = n + 1 => pc[0] \notin {"test", "node"} /\ at[0] = n

InGraph(n) ==
    /\ n_graph # 0 /\ n_threads_cur = count /\ AbortFor(n)
    /\ \A w \in Part : Here(w, n) \/ Behind(w, n)

\* Thread w has left the last graph, or has not yet seen that it may.
Left(w) ==
    /\ w # 0 => last_graph[w] = n_graph
    /\ \/ pc[w] \in IF w = 0 THEN Resting ELSE Outside
       \/ pc[w] = "finalspin" /\ Released(w)

AtRest ==
    /\ \A w \in Part : Left(w) /\ executed[w] = executed[0]
    /\ n_graph # 0 \/ pc[0] = "kick" => n_threads_cur = count
    /\ n_graph = 0 => executed[0] = 0
    /\ pc[0] \in {"kickoff", "kick"} => executed[0] = 0 /\ abort = -1

\* The other threads take part in nothing.
OthersIdle ==
    \A w \in Threads \ Part :
        /\ pc[w] \in Outside \cup {"found"} /\ executed[w] = 0
        /\ n_graph = 0 => last_graph[w] = 0 /\ pc[w] # "found"

Section == AtRest \/ \E n \in 0..NumNodes - 1 : InGraph(n)

Inv == /\ Types /\ BarrierCounts /\ OthersIdle
       /\ Section

(***************************************************************************)
(* Preliminaries                                                           *)
(***************************************************************************)

\* The constants, in the form the proofs use them.
LEMMA Constants ==
  /\ NThreadsMax \in Nat /\ NThreadsMax >= 1 /\ 0 \in Threads /\ Threads \subseteq Nat
  /\ Workers \subseteq Threads /\ 0 \notin Workers /\ IsFiniteSet(Threads)
  /\ NumNodes \in Nat /\ NumNodes >= 1 /\ Counts \subseteq 1..NThreadsMax
  /\ \A w \in Workers : w # 0 /\ w >= 1
<1>1. /\ NThreadsMax \in Nat /\ NThreadsMax >= 1 /\ NumNodes \in Nat /\ NumNodes >= 1
      /\ Counts \subseteq 1..NThreadsMax
  BY PoolAssumption
<1>2. IsFiniteSet(Threads)
  BY <1>1, FS_Interval DEF Threads
<1> QED
  BY <1>1, <1>2 DEF Threads, Workers

\* With one count the parts of the threads never change.
LEMMA PartFixed ==
  ASSUME Types
  PROVE  /\ Part \subseteq Threads /\ 0 \in Part
         /\ \A w \in Threads : w \in Part <=> w < count
  BY Constants DEF Types, Part, Threads

\* What a thread's place in its section depends on: its own variables, and
\* whether the walk ends at the node.  Moving about outside changes nothing.
Framed(v, n) ==
    /\ \/ pc'[v] = pc[v]
       \/ pc[v] \in Outside /\ pc'[v] \in Outside
       \/ v = 0 /\ pc[v] \in Resting /\ pc'[v] \in Resting
    /\ at'[v] = at[v] /\ executed'[v] = executed[v] /\ seen'[v] = seen[v]
    /\ last_graph'[v] = last_graph[v] /\ new_graph'[v] = new_graph[v]
    /\ n_graph' = n_graph /\ n_passed' = n_passed
    /\ abort' = n <=> abort = n

\* A step that is framed for a thread keeps its place.
LEMMA Frame ==
  ASSUME NEW v, NEW n, Framed(v, n)
  PROVE  /\ Here(v, n) => Here(v, n)'
         /\ Behind(v, n) => Behind(v, n)'
         /\ Left(v) => Left(v)'
         /\ Blocked(v)' <=> Blocked(v)
<1> USE DEF Framed, Outside, Resting, Spinning
<1>1. Blocked(v)' <=> Blocked(v)
  BY DEF Blocked
<1>2. Released(v)' <=> Released(v)
  BY DEF Released
<1>3. Here(v, n) => Here(v, n)'
  BY <1>1 DEF Here, Ends
<1>4. Behind(v, n) => Behind(v, n)'
  BY <1>2 DEF Behind
<1>5. Left(v) => Left(v)'
  BY <1>2 DEF Left
<1> QED
  BY <1>1, <1>3, <1>4, <1>5

\* A thread in the middle of a graph is in the section of its node.
LEMMA Walker ==
  ASSUME Inv, NEW w \in Threads, pc[w] \in {"test", "node", "between", "final"}
  PROVE  /\ w \in Part /\ \E n \in 0..NumNodes - 1 : InGraph(n) /\ Here(w, n)
<1>1. w \in Part
  BY DEF Inv, OthersIdle, Outside
<1>2. ~AtRest
  BY <1>1 DEF AtRest, Left, Resting, Outside
<1>3. PICK n \in 0..NumNodes - 1 : InGraph(n)
  BY <1>2 DEF Inv, Section
<1>4. ~Behind(w, n)
  BY DEF Behind, Outside
<1> QED
  BY <1>1, <1>3, <1>4 DEF InGraph

\* The steps of Next: what the caller does between graphs, what a worker does
\* outside, and what every thread does in a graph.
LEMMA NextCases ==
  ASSUME [Next]_vars
  PROVE  \/ SetGraph \/ KickThreads \/ KickGraph \/ PauseOrResume \/ Free \/ Join
         \/ \E w \in Workers : \/ PauseLoop(w) \/ PollOrNot(w) \/ PollEnds(w) \/ PollFinds(w)
                               \/ PollTakes(w) \/ LockedCheck(w) \/ SpuriousWakeup(w)
         \/ \E w \in Threads : TestNode(w) \/ ExecuteNode(w) \/ EnterBarrier(w) \/ LeaveBarrier(w)
         \/ UNCHANGED vars
  BY Constants DEF Next, Caller, Worker, Walk

\* Only SetGraph could change the count.
LEMMA CountFixed ==
  ASSUME OneCount, [Next]_vars
  PROVE  count' = count
<1> USE DEF graphVars
<1>1. CASE SetGraph \/ KickThreads \/ KickGraph \/ PauseOrResume \/ Free \/ Join
  BY <1>1 DEF OneCount, SetGraph, KickThreads, KickGraph, PauseOrResume, Free, Join
<1>2. ASSUME NEW w \in Workers, \/ PauseLoop(w) \/ PollOrNot(w) \/ PollEnds(w) \/ PollFinds(w)
                                \/ PollTakes(w) \/ LockedCheck(w) \/ SpuriousWakeup(w)
      PROVE  count' = count
  BY <1>2 DEF PauseLoop, PollOrNot, PollEnds, PollFinds, PollTakes, LockedCheck, SpuriousWakeup
<1>3. ASSUME NEW w \in Threads,
             TestNode(w) \/ ExecuteNode(w) \/ EnterBarrier(w) \/ LeaveBarrier(w)
      PROVE  count' = count
  BY <1>3 DEF TestNode, ExecuteNode, EnterBarrier, LeaveBarrier
<1>4. CASE UNCHANGED vars
  BY <1>4 DEF vars
<1> QED
  BY <1>1, <1>2, <1>3, <1>4, NextCases

\* A broadcast moves sleepers only, and they stay outside.
LEMMA BroadcastMoves ==
  ASSUME Types, NEW next \in Resting \cup {"test"}, pc[0] \in Resting, Broadcast(next)
  PROVE  /\ pc' \in [Threads -> Pc] /\ pc'[0] = next
         /\ \A v \in Workers : \/ pc'[v] = pc[v]
                               \/ pc[v] \in Outside /\ pc'[v] \in Outside
<1>1. DOMAIN pc' = Threads /\ pc' = [w \in Threads |-> pc'[w]]
  BY DEF Broadcast
<1>2. pc'[0] = next /\ next \in Pc
  <2>1. pc'[0] = CASE 0 = 0 -> next [] pc[0] = "pausing" -> "top"
                   [] pc[0] = "asleep" -> "lock" [] OTHER -> pc[0]
    BY Constants DEF Broadcast
  <2>2. pc[0] \notin {"pausing", "asleep"}
    BY DEF Resting
  <2> QED
    BY <2>1, <2>2 DEF Pc
<1>3. ASSUME NEW v \in Workers
      PROVE  pc'[v] = pc[v] \/ (pc[v] \in Outside /\ pc'[v] \in Outside)
  <2>1. pc'[v] = CASE v = 0 -> next [] pc[v] = "pausing" -> "top"
                   [] pc[v] = "asleep" -> "lock" [] OTHER -> pc[v]
    BY Constants DEF Broadcast
  <2> QED
    BY <2>1, Constants DEF Outside
<1>4. ASSUME NEW v \in Threads PROVE pc'[v] \in Pc
  BY <1>2, <1>3, Constants DEF Workers, Types, Pc
<1> QED
  BY <1>1, <1>2, <1>3, <1>4

\* No step leaves the types.
LEMMA TypesStep ==
  ASSUME OneCount, Types, [Next]_vars
  PROVE  Types'
<1> USE Constants, CountFixed
    DEF Types, graphVars, kickVars, flagVars, barVars, workVars, nodeVars, Goto, Each
<1> DEFINE Places == pc' \in [Threads -> Pc]
<1>1. CASE SetGraph \/ KickThreads \/ Join
  <2>1. Places
    BY <1>1 DEF SetGraph, KickThreads, Join, Pc, Resting
  <2> QED
    BY <1>1, <2>1 DEF SetGraph, KickThreads, Join
<1>2. CASE KickGraph \/ PauseOrResume \/ Free
  <2>1. Places
    BY <1>2, BroadcastMoves DEF KickGraph, PauseOrResume, Free, Resting
  <2> QED
    BY <1>2, <2>1 DEF KickGraph, PauseOrResume, Free
<1>3. ASSUME NEW w \in Workers, PauseLoop(w) \/ PollOrNot(w) \/ PollEnds(w) \/ SpuriousWakeup(w)
      PROVE  Types'
  <2>1. Places
    BY <1>3 DEF PauseLoop, PollOrNot, PollEnds, SpuriousWakeup, Pc, Outside
  <2> QED
    BY <1>3, <2>1 DEF PauseLoop, PollOrNot, PollEnds, SpuriousWakeup
<1>4. ASSUME NEW w \in Workers, PollFinds(w) \/ PollTakes(w) \/ LockedCheck(w)
      PROVE  Types'
  <2>1. Places
    BY <1>4 DEF PollFinds, PollTakes, LockedCheck, Begin, Pc, Outside
  <2>2. /\ at' \in [Threads -> Nat] /\ last_graph' \in [Threads -> Nat]
        /\ new_graph' \in [Threads -> Nat]
    BY <1>4 DEF PollFinds, PollTakes, LockedCheck, Begin
  <2> QED
    BY <1>4, <2>1, <2>2 DEF PollFinds, PollTakes, LockedCheck
<1>5. ASSUME NEW w \in Threads, TestNode(w) \/ ExecuteNode(w)
      PROVE  Types'
  <2>1. Places
    BY <1>5 DEF TestNode, ExecuteNode, Pc
  <2>2. executed' \in [Threads -> Nat] /\ abort' \in Int
    BY <1>5 DEF TestNode, ExecuteNode
  <2> QED
    BY <1>5, <2>1, <2>2 DEF TestNode, ExecuteNode
<1>6. ASSUME NEW w \in Threads, EnterBarrier(w) \/ LeaveBarrier(w)
      PROVE  Types'
  <2>1. Places
    BY <1>6 DEF EnterBarrier, LeaveBarrier, Leave, Pc, Outside, Resting, Spinning
  <2>2. at' \in [Threads -> Nat] /\ seen' \in [Threads -> Nat]
    BY <1>6 DEF EnterBarrier, LeaveBarrier, Leave
  <2>3. n_barrier' \in Nat /\ n_passed' \in Nat
    BY <1>6 DEF EnterBarrier, LeaveBarrier
  <2> QED
    BY <1>6, <2>1, <2>2, <2>3 DEF EnterBarrier, LeaveBarrier
<1>7. CASE UNCHANGED vars
  BY <1>7 DEF vars
<1> QED
  BY <1>1, <1>2, <1>3, <1>4, <1>5, <1>6, <1>7, NextCases

(***************************************************************************)
(* Steps outside a graph                                                   *)
(***************************************************************************)

\* The barrier is as it was when nobody has entered or left it.
LEMMA CountsStay ==
  ASSUME BarrierCounts, UNCHANGED <<count, n_barrier, n_passed, seen>>,
         \A v \in Threads : Blocked(v)' <=> Blocked(v)
  PROVE  BarrierCounts'
<1>1. {v \in Threads : Blocked(v)}' = {v \in Threads : Blocked(v)}
  BY DEF Threads
<1> QED
  BY <1>1 DEF BarrierCounts, Threads

\* Threads move about outside, or the caller between graphs.
LEMMA MovesOutside ==
  ASSUME Inv, Types',
         UNCHANGED <<count, n_graph, n_threads_cur, n_barrier, n_passed, seen, at, executed,
                     last_graph, new_graph, abort>>,
         \A v \in Threads : \/ pc'[v] = pc[v]
                            \/ pc[v] \in Outside /\ pc'[v] \in Outside
                            \/ v = 0 /\ pc[v] \in Resting /\ pc'[v] \in Resting \ {"kickoff", "kick"}
  PROVE  Inv'
<1>1. Part' = Part /\ Part \subseteq Threads /\ 0 \in Part
  BY PartFixed DEF Part, Inv
<1>2. ASSUME NEW v \in Threads, NEW n PROVE Framed(v, n)
  BY DEF Framed
<1>3. ASSUME NEW v \in Threads PROVE /\ Blocked(v)' <=> Blocked(v)
                                     /\ Left(v) => Left(v)'
  BY <1>2, Frame
<1>4. BarrierCounts'
  BY <1>3, CountsStay DEF Inv
<1>5. OthersIdle'
  <2> SUFFICES ASSUME NEW v \in Threads \ Part
               PROVE  /\ pc'[v] \in Outside \cup {"found"} /\ executed'[v] = 0
                      /\ n_graph' = 0 => last_graph'[v] = 0 /\ pc'[v] # "found"
    BY <1>1 DEF OthersIdle, Threads
  <2> QED
    BY <1>1 DEF Inv, OthersIdle, Outside
<1>6. CASE AtRest
  <2>1. pc'[0] \in {"kickoff", "kick"} => pc'[0] = pc[0]
    BY Constants DEF Outside
  <2>2. AtRest'
    BY <1>1, <1>3, <1>6, <2>1 DEF AtRest
  <2> QED
    BY <1>4, <1>5, <2>2 DEF Inv, Section
<1>7. ASSUME NEW n \in 0..NumNodes - 1, InGraph(n) PROVE InGraph(n)'
  <2>1. \A v \in Part : (Here(v, n) => Here(v, n)') /\ (Behind(v, n) => Behind(v, n)')
    BY <1>1, <1>2, Frame
  <2>2. ~(pc[0] \in Resting \cup Outside)
    BY <1>1, <1>7 DEF InGraph, Here, Behind, Resting, Outside, Spinning
  <2> QED
    BY <1>1, <1>7, <2>1, <2>2, Constants DEF InGraph, AbortFor
<1> QED
  BY <1>4, <1>5, <1>6, <1>7 DEF Inv, Section

\* SetGraph and KickThreads keep the pool at rest.
LEMMA StillAtRest ==
  ASSUME OneCount, Inv, Types', count' = count, SetGraph \/ KickThreads
  PROVE  Inv'
<1> USE DEF kickVars, flagVars, barVars, workVars, nodeVars
<1>1. Part' = Part /\ Part \subseteq Threads /\ 0 \in Part
  BY PartFixed DEF Part, Inv
<1>2. pc[0] \in Resting /\ pc'[0] \in Resting /\ \A v \in Threads \ {0} : pc'[v] = pc[v]
  BY Constants DEF SetGraph, KickThreads, Resting, Goto, Inv, Types
<1>3. AtRest
  BY <1>1, <1>2 DEF Inv, Section, InGraph, Here, Behind, Resting, Outside, Spinning
<1>4. /\ UNCHANGED <<n_graph, n_barrier, n_passed, seen, at, last_graph, new_graph>>
      /\ \A v \in Threads : executed'[v] = IF SetGraph THEN 0 ELSE executed[v]
  BY DEF SetGraph, KickThreads, Each
<1>5. ASSUME NEW v \in Threads PROVE (Blocked(v)' <=> Blocked(v)) /\ (Left(v) => Left(v)')
  BY <1>2, <1>4, Constants DEF Blocked, Released, Left, Resting, Spinning
<1>6. BarrierCounts'
  BY <1>4, <1>5, CountsStay DEF Inv
<1>7. OthersIdle'
  <2> SUFFICES ASSUME NEW v \in Threads \ Part
               PROVE  /\ pc'[v] \in Outside \cup {"found"} /\ executed'[v] = 0
                      /\ n_graph' = 0 => last_graph'[v] = 0 /\ pc'[v] # "found"
    BY <1>1 DEF OthersIdle, Threads
  <2> QED
    BY <1>1, <1>2, <1>4 DEF Inv, OthersIdle
<1>8. \A v \in Part : Left(v)' /\ executed'[v] = executed'[0]
  BY <1>1, <1>3, <1>4, <1>5 DEF AtRest
<1>9. AtRest'
  <2>1. CASE SetGraph
    BY <1>1, <1>3, <1>4, <1>8, <2>1, Constants DEF AtRest, SetGraph, Inv, Types, Goto
  <2>2. CASE KickThreads
    BY <1>1, <1>3, <1>4, <1>8, <2>2, Constants DEF AtRest, KickThreads, Inv, Types, Goto
  <2> QED
    BY <2>1, <2>2
<1> QED
  BY <1>6, <1>7, <1>9 DEF Inv, Section

\* KickGraph puts every thread with a part behind node 0, the caller at it.
LEMMA GraphBegins ==
  ASSUME Inv, Types', count' = count, KickGraph
  PROVE  Inv'
<1> USE DEF barVars, workVars
<1>1. Part' = Part /\ Part \subseteq Threads /\ 0 \in Part
  BY PartFixed DEF Part, Inv
<1>2. /\ pc[0] = "kick" /\ pc'[0] = "test"
      /\ \A v \in Workers : pc'[v] = pc[v] \/ (pc[v] \in Outside /\ pc'[v] \in Outside)
  BY BroadcastMoves DEF KickGraph, Inv, Resting
<1>3. AtRest
  BY <1>1, <1>2 DEF Inv, Section, InGraph, Here, Behind, Outside, Spinning
<1>4. /\ UNCHANGED <<n_threads_cur, n_barrier, n_passed, seen, last_graph, new_graph, executed, abort>>
      /\ n_graph' = n_graph + 1 /\ at'[0] = 0 /\ n_graph \in Nat
  BY Constants DEF KickGraph, Inv, Types
<1>5. ASSUME NEW v \in Threads PROVE (Blocked(v)' <=> Blocked(v)) /\ (Released(v)' <=> Released(v))
  BY <1>2, <1>4, Constants DEF Blocked, Released, Workers, Spinning, Outside
<1>6. BarrierCounts'
  BY <1>4, <1>5, CountsStay DEF Inv
<1>7. OthersIdle'
  <2> SUFFICES ASSUME NEW v \in Threads \ Part
               PROVE  pc'[v] \in Outside \cup {"found"} /\ executed'[v] = 0
    BY <1>1, <1>4 DEF OthersIdle, Threads
  <2> QED
    BY <1>1, <1>2, <1>4 DEF Inv, OthersIdle, Workers, Outside
<1>8. Here(0, 0)'
  BY <1>1, <1>2, <1>3, <1>4 DEF Here, AtRest
<1>9. ASSUME NEW v \in Part \ {0} PROVE Behind(v, 0)'
  BY <1>1, <1>2, <1>3, <1>4, <1>5 DEF Behind, AtRest, Left, Workers, Outside
<1>10. InGraph(0)'
  BY <1>1, <1>2, <1>3, <1>4, <1>8, <1>9 DEF InGraph, AbortFor, AtRest
<1> QED
  BY <1>6, <1>7, <1>10, Constants DEF Inv, Section

(***************************************************************************)
(* Steps of one thread                                                     *)
(***************************************************************************)
Others(w) ==
    \A v \in Threads \ {w} :
        /\ pc'[v] = pc[v] /\ at'[v] = at[v] /\ executed'[v] = executed[v] /\ seen'[v] = seen[v]
        /\ last_graph'[v] = last_graph[v] /\ new_graph'[v] = new_graph[v]

\* A step of thread w that leaves the barrier alone keeps the invariant when
\* w itself has a place in the section.
LEMMA OneMoves ==
  ASSUME Inv, Types', NEW w \in Threads, Others(w), ~Blocked(w), ~Blocked(w)',
         UNCHANGED <<count, n_graph, n_threads_cur, n_barrier, n_passed, seen>>,
         w \notin Part => /\ pc'[w] \in Outside \cup {"found"} /\ executed'[w] = 0
                          /\ n_graph = 0 => last_graph'[w] = 0 /\ pc'[w] # "found",
         AtRest => /\ w \in Part => Left(w)' /\ executed'[w] = executed[w]
                   /\ w = 0 => pc'[0] \notin {"kickoff", "kick"},
         \A n \in 0..NumNodes - 1 : InGraph(n) =>
            /\ w \in Part => Here(w, n)' \/ Behind(w, n)'
            /\ AbortFor(n)' /\ (abort' = n <=> abort = n),
         AtRest => abort' = abort
  PROVE  Inv'
<1>1. Part' = Part /\ Part \subseteq Threads /\ 0 \in Part /\ 0 \in Threads
  BY PartFixed, Constants DEF Part, Inv
<1>2. ASSUME NEW v \in Threads \ {w}, NEW n, abort' = n <=> abort = n PROVE Framed(v, n)
  BY <1>2 DEF Framed, Others
<1>3. ASSUME NEW v \in Threads PROVE Blocked(v)' <=> Blocked(v)
  BY DEF Blocked, Others
<1>4. BarrierCounts'
  BY <1>3, CountsStay DEF Inv
<1>5. OthersIdle'
  <2> SUFFICES ASSUME NEW v \in Threads \ Part
               PROVE  /\ pc'[v] \in Outside \cup {"found"} /\ executed'[v] = 0
                      /\ n_graph' = 0 => last_graph'[v] = 0 /\ pc'[v] # "found"
    BY <1>1 DEF OthersIdle, Threads
  <2> QED
    BY <1>1 DEF Inv, OthersIdle, Others
<1>6. CASE AtRest
  <2>1. ASSUME NEW v \in Part \ {w} PROVE Left(v)' /\ executed'[v] = executed[v]
    BY <1>1, <1>2, <1>6, Frame DEF AtRest, Others
  <2>2. /\ pc'[0] \in {"kickoff", "kick"} => pc'[0] = pc[0]
        /\ executed'[0] = executed[0] /\ abort' = abort
    BY <1>1, <1>6 DEF Others
  <2>3. AtRest'
    BY <1>1, <1>6, <2>1, <2>2 DEF AtRest
  <2> QED
    BY <1>4, <1>5, <2>3 DEF Inv, Section
<1>7. ASSUME NEW n \in 0..NumNodes - 1, InGraph(n) PROVE InGraph(n)'
  <2>1. ASSUME NEW v \in Part \ {w} PROVE Here(v, n)' \/ Behind(v, n)'
    BY <1>1, <1>2, <1>7, Frame DEF InGraph
  <2> QED
    BY <1>1, <1>7, <2>1 DEF InGraph
<1> QED
  BY <1>4, <1>5, <1>6, <1>7 DEF Inv, Section

\* A worker with a part that is outside, or has found a graph, is behind node 0
\* or at rest.
LEMMA Comer ==
  ASSUME Inv, NEW w \in Workers, w \in Part, pc[w] \in Outside \cup {"found"}
  PROVE  /\ AtRest => last_graph[w] = n_graph /\ pc[w] # "found"
         /\ \A n \in 0..NumNodes - 1 : InGraph(n) => n = 0 /\ Behind(w, 0)
  BY Constants DEF AtRest, InGraph, Here, Behind, Left, Outside, Spinning, Blocked

\* A worker that polls, or tests under the mutex, enters its graph at node 0.
LEMMA WorkerStep ==
  ASSUME Inv, Types', NEW w \in Workers, PollFinds(w) \/ PollTakes(w) \/ LockedCheck(w)
  PROVE  Inv'
<1> USE DEF graphVars, kickVars, flagVars, barVars, workVars, nodeVars, Goto
<1>1. w \in Threads /\ w # 0 /\ 0 \in Threads
  BY Constants
<1>2. pc[w] \in Outside \cup {"found"} /\ ~Blocked(w)
  BY DEF PollFinds, PollTakes, LockedCheck, Outside, Blocked, Spinning
<1>3. UNCHANGED <<count, n_graph, n_threads_cur, n_barrier, n_passed, seen, abort, executed>>
  BY DEF PollFinds, PollTakes, LockedCheck
<1>4. Others(w)
  BY DEF Others, PollFinds, PollTakes, LockedCheck, Begin, Inv, Types
<1>5. pc'[w] \in Outside \cup {"found", "test"} /\ ~Blocked(w)'
  BY <1>1 DEF PollFinds, PollTakes, LockedCheck, Begin, Outside, Blocked, Spinning, Inv, Types
<1>6. ASSUME NEW n \in 0..NumNodes - 1, InGraph(n)
      PROVE  AbortFor(n)' /\ (abort' = n <=> abort = n)
  BY <1>1, <1>3, <1>4, <1>6 DEF InGraph, AbortFor, Others
<1>7. CASE w \notin Part
  <2>1. pc[w] \in Outside \cup {"found"} /\ executed[w] = 0
        /\ (n_graph = 0 => last_graph[w] = 0 /\ pc[w] # "found")
    BY <1>1, <1>7 DEF Inv, OthersIdle
  <2>2. n_graph # 0 => ~Active(w)
    <3>1. n_graph # 0 => n_threads_cur = count
      BY DEF Inv, Section, AtRest, InGraph
    <3> QED
      BY <1>1, <1>7, <3>1, PartFixed, Constants DEF Active, Inv, Types
  <2>3. /\ pc'[w] \in Outside \cup {"found"}
        /\ n_graph = 0 => last_graph'[w] = 0 /\ pc'[w] # "found"
    <3>1. CASE PollFinds(w)
      BY <1>1, <2>1, <3>1 DEF PollFinds, Inv, Types
    <3>2. CASE PollTakes(w)
      BY <1>1, <2>1, <2>2, <3>2 DEF PollTakes, Inv, Types, Outside
    <3>3. CASE LockedCheck(w)
      BY <1>1, <2>1, <2>2, <3>3 DEF LockedCheck, Inv, Types, Outside
    <3> QED
      BY <3>1, <3>2, <3>3
  <2> QED
    BY <1>1, <1>2, <1>3, <1>4, <1>5, <1>6, <1>7, <2>1, <2>3, OneMoves
<1>8. CASE w \in Part
  <2>1. AtRest => Left(w)'
    <3> SUFFICES ASSUME AtRest PROVE Left(w)'
      OBVIOUS
    <3>1. last_graph[w] = n_graph /\ pc[w] # "found"
      BY <1>2, <1>8, Comer
    <3> QED
      BY <1>1, <1>3, <3>1 DEF PollFinds, PollTakes, LockedCheck, Left, Outside, Inv, Types
  <2>2. ASSUME NEW n \in 0..NumNodes - 1, InGraph(n) PROVE Here(w, n)' \/ Behind(w, n)'
    <3>1. n = 0 /\ Behind(w, 0) /\ Active(w) /\ n_graph \in Nat
      BY <1>1, <1>2, <1>8, <2>2, Comer, PartFixed DEF Active, InGraph, Inv, Types
    <3>2. CASE PollFinds(w)
      BY <1>1, <1>3, <3>1, <3>2 DEF PollFinds, Behind, Inv, Types
    <3>3. CASE PollTakes(w)
      BY <1>1, <1>3, <3>1, <3>3 DEF PollTakes, Begin, Behind, Here, Inv, Types, Outside
    <3>4. CASE LockedCheck(w)
      BY <1>1, <1>3, <3>1, <3>4 DEF LockedCheck, Begin, Behind, Here, Inv, Types, Outside
    <3> QED
      BY <3>2, <3>3, <3>4
  <2> QED
    BY <1>1, <1>2, <1>3, <1>4, <1>5, <1>6, <1>8, <2>1, <2>2, OneMoves
<1> QED
  BY <1>7, <1>8

\* A thread tests whether the walk goes on, or executes its node.
LEMMA NodeStep ==
  ASSUME Inv, Types', NEW w \in Threads, TestNode(w) \/ ExecuteNode(w)
  PROVE  Inv'
<1> USE DEF graphVars, kickVars, flagVars, barVars, workVars, nodeVars, Goto
<1>1. pc[w] \in {"test", "node"} /\ ~Blocked(w)
  BY DEF TestNode, ExecuteNode, Blocked, Spinning
<1>2. w \in Part /\ ~AtRest
  BY <1>1, Walker DEF AtRest, Left, Resting, Outside
<1>3. UNCHANGED <<count, n_graph, n_threads_cur, n_barrier, n_passed, seen, at, last_graph, new_graph>>
  BY DEF TestNode, ExecuteNode
<1>4. Others(w)
  BY DEF Others, TestNode, ExecuteNode, Inv, Types
<1>5. pc'[w] \in {"node", "between", "final"} /\ ~Blocked(w)'
  BY DEF TestNode, ExecuteNode, Blocked, Spinning, Inv, Types
<1>6. ASSUME NEW n \in 0..NumNodes - 1, InGraph(n)
      PROVE  /\ Here(w, n)'
             /\ AbortFor(n)' /\ (abort' = n <=> abort = n)
  <2>1. Here(w, n) /\ at[w] = n /\ executed[w] = n /\ n \in Nat /\ AbortFor(n)
    BY <1>1, <1>2, <1>6 DEF InGraph, Here, Behind, Outside, Spinning
  <2>2. CASE TestNode(w)
    <3>1. abort' = abort /\ executed' = executed
          /\ pc' = [pc EXCEPT ![w] = IF abort = n THEN "final" ELSE "node"]
      BY <2>1, <2>2 DEF TestNode
    <3>2. AbortFor(n)'
      BY <1>1, <1>3, <2>1, <3>1, Constants DEF AbortFor, Inv, Types
    <3>3. Here(w, n)'
      BY <1>3, <2>1, <3>1 DEF Here, Ends, Inv, Types
    <3> QED
      BY <3>1, <3>2, <3>3
  <2>3. CASE ExecuteNode(w)
    <3>1. /\ executed'[w] = n + 1 /\ abort # n
          /\ pc'[w] = IF n + 1 < NumNodes THEN "between" ELSE "final"
          /\ abort' = abort \/ (w = 0 /\ abort' = n + 1)
      BY <2>1, <2>3 DEF ExecuteNode, Here, Spinning, Inv, Types
    <3>2. AbortFor(n)'
      BY <1>1, <1>3, <1>4, <2>1, <3>1, Constants DEF AbortFor, Others
    <3>3. Here(w, n)'
      BY <1>3, <2>1, <3>1, Constants DEF Here, Ends, AbortFor
    <3> QED
      BY <2>1, <3>1, <3>2, <3>3 DEF AbortFor
  <2> QED
    BY <2>2, <2>3
<1> QED
  BY <1>1, <1>2, <1>3, <1>4, <1>5, <1>6, OneMoves

(***************************************************************************)
(* The barrier                                                             *)
(***************************************************************************)

\* When all but one of n threads are blocked, so are all others.
LEMMA LastArrives ==
  ASSUME NEW n \in Nat, NEW w \in 0..n - 1, NEW B \in SUBSET (0..n - 1), w \notin B,
         Cardinality(B) = n - 1
  PROVE  B = (0..n - 1) \ {w}
<1>1. IsFiniteSet(0..n - 1) /\ Cardinality(0..n - 1) = n
  BY FS_Interval
<1>2. IsFiniteSet((0..n - 1) \ {w}) /\ Cardinality((0..n - 1) \ {w}) = n - 1
  BY <1>1, FS_RemoveElement
<1>3. B \subseteq (0..n - 1) \ {w}
  OBVIOUS
<1> QED
  BY <1>2, <1>3, FS_Subset

\* Only threads with a part wait in a barrier.
LEMMA BlockedPart ==
  ASSUME Inv
  PROVE  {v \in Threads : Blocked(v)} \subseteq Part
  BY DEF Inv, OthersIdle, Blocked, Outside, Spinning

\* The threads released from the barrier find their way out of it.
LEMMA Leaves ==
  ASSUME Inv, Types', NEW w \in Threads, LeaveBarrier(w)
  PROVE  Inv'
<1> USE DEF graphVars, kickVars, flagVars, barVars, workVars, nodeVars, Goto
<1>1. pc[w] \in Spinning /\ Released(w) /\ ~Blocked(w)
  BY DEF LeaveBarrier, Spinning, Released, Blocked
<1>2. w \in Part
  BY <1>1 DEF Inv, OthersIdle, Outside, Spinning
<1>3. /\ UNCHANGED <<count, n_graph, n_threads_cur, n_barrier, n_passed, seen, last_graph,
                     new_graph, abort, executed>>
      /\ Leave(w)
  BY DEF LeaveBarrier
<1>4. Others(w)
  BY <1>3 DEF Others, Leave, Inv, Types
<1>5. /\ pc'[w] = IF pc[w] = "spin" THEN "test" ELSE IF w = 0 THEN "idle" ELSE "top"
      /\ at'[w] = IF pc[w] = "spin" THEN at[w] + 1 ELSE at[w]
  BY <1>1, <1>3 DEF Leave, Inv, Types, Spinning
<1>6. ~Blocked(w)'
  BY <1>5 DEF Blocked, Spinning
<1>7. ASSUME AtRest PROVE Left(w)' /\ (w = 0 => pc'[0] \notin {"kickoff", "kick"})
  <2>1. Left(w) /\ pc[w] = "finalspin"
    BY <1>1, <1>2, <1>7 DEF AtRest, Left, Resting, Outside, Spinning
  <2> QED
    BY <1>3, <1>5, <2>1 DEF Left, Resting, Outside
<1>8. ASSUME NEW n \in 0..NumNodes - 1, InGraph(n)
      PROVE  Here(w, n)' \/ Behind(w, n)'
  <2>1. Behind(w, n) /\ n \in Nat
    BY <1>1, <1>2, <1>8 DEF InGraph, Here, Spinning
  <2>2. CASE n = 0
    BY <1>1, <1>3, <1>5, <2>1, <2>2 DEF Behind, Outside, Spinning
  <2>3. CASE n # 0
    BY <1>1, <1>3, <1>5, <2>1, <2>3 DEF Behind, Here, Spinning
  <2> QED
    BY <2>2, <2>3
<1>9. ASSUME NEW n \in 0..NumNodes - 1, InGraph(n)
      PROVE  AbortFor(n)' /\ (abort' = n <=> abort = n)
  <2>1. CASE w = 0
    <3>1. Behind(0, n) /\ AbortFor(n) /\ n \in Nat
      BY <1>1, <1>2, <1>9, <2>1 DEF InGraph, Here, Spinning
    <3>2. abort # n + 1
      BY <3>1 DEF Behind, AbortFor
    <3> QED
      BY <1>3, <3>1, <3>2 DEF AbortFor
  <2>2. CASE w # 0
    BY <1>3, <1>4, <1>9, <2>2, Constants DEF InGraph, AbortFor, Others
  <2> QED
    BY <2>1, <2>2
<1> QED
  BY <1>1, <1>2, <1>3, <1>4, <1>6, <1>7, <1>8, <1>9, OneMoves

\* A thread that is not the last one waits.
LEMMA Waits ==
  ASSUME Inv, Types', NEW w \in Threads, EnterBarrier(w),
         n_threads_cur # 1, n_barrier # n_threads_cur - 1
  PROVE  Inv'
<1> USE DEF graphVars, kickVars, flagVars, barVars, workVars, nodeVars, Goto
<1>1. pc[w] \in {"between", "final"} /\ ~Blocked(w)
  BY DEF EnterBarrier, Blocked, Spinning
<1>2. PICK n \in 0..NumNodes - 1 : w \in Part /\ InGraph(n) /\ Here(w, n)
  BY <1>1, Walker
<1>3. /\ UNCHANGED <<count, n_graph, n_threads_cur, n_passed, at, last_graph, new_graph, abort, executed>>
      /\ n_barrier' = n_barrier + 1 /\ seen' = [seen EXCEPT ![w] = n_passed]
      /\ pc' = [pc EXCEPT ![w] = IF pc[w] = "between" THEN "spin" ELSE "finalspin"]
  BY DEF EnterBarrier
<1>4. /\ Part' = Part /\ Part \subseteq Threads /\ 0 \in Part /\ 0 \in Threads
      /\ n_threads_cur = count /\ count \in Nat
  BY <1>2, <1>3, PartFixed, Constants DEF Part, Inv, InGraph, Types
<1>5. Others(w)
  BY <1>3 DEF Others, Inv, Types
<1>6. Blocked(w)' /\ pc'[w] \in Spinning
  BY <1>1, <1>3 DEF Blocked, Spinning, Inv, Types
<1>7. ASSUME NEW v \in Threads \ {w} PROVE Framed(v, n) /\ (Blocked(v)' <=> Blocked(v))
  BY <1>3, <1>5 DEF Framed, Others, Blocked
<1>8. BarrierCounts'
  <2>1. {v \in Threads : Blocked(v)}' = {v \in Threads : Blocked(v)} \cup {w}
    BY <1>6, <1>7 DEF Threads
  <2>2. IsFiniteSet({v \in Threads : Blocked(v)})
    BY Constants, FS_Subset
  <2>3. Cardinality({v \in Threads : Blocked(v)} \cup {w})
           = Cardinality({v \in Threads : Blocked(v)}) + 1
    BY <1>1, <2>2, FS_AddElement
  <2>4. \A v \in Threads : seen'[v] <= n_passed'
    BY <1>3 DEF Inv, Types, BarrierCounts
  <2>5. n_barrier' = Cardinality({v \in Threads : Blocked(v)}')
    BY <1>3, <2>1, <2>3 DEF BarrierCounts, Inv
  <2>6. n_barrier' <= count' - 1
    BY <1>3, <1>4 DEF BarrierCounts, Inv, Types
  <2> QED
    BY <2>4, <2>5, <2>6 DEF BarrierCounts, Threads
<1>9. OthersIdle'
  <2> SUFFICES ASSUME NEW v \in Threads \ Part
               PROVE  /\ pc'[v] \in Outside \cup {"found"} /\ executed'[v] = 0
                      /\ n_graph' = 0 => last_graph'[v] = 0 /\ pc'[v] # "found"
    BY <1>4 DEF OthersIdle, Threads
  <2> QED
    BY <1>2, <1>3, <1>5 DEF Inv, OthersIdle, Others
<1>10. Here(w, n)'
  <2>1. pc[w] = IF Ends(n) THEN "final" ELSE "between"
    BY <1>1, <1>2 DEF Here
  <2>2. pc'[w] = IF Ends(n) THEN "finalspin" ELSE "spin"
    BY <1>3, <2>1 DEF Inv, Types
  <2> QED
    BY <1>1, <1>2, <1>3, <1>6, <2>2 DEF Here, Ends
<1>11. ASSUME NEW v \in Part \ {w} PROVE Here(v, n)' \/ Behind(v, n)'
  BY <1>2, <1>4, <1>7, Frame DEF InGraph
<1>12. AbortFor(n)'
  BY <1>1, <1>2, <1>3, <1>4, <1>5, <1>6 DEF InGraph, AbortFor, Others, Spinning
<1>13. InGraph(n)'
  BY <1>2, <1>3, <1>4, <1>10, <1>11, <1>12 DEF InGraph
<1> QED
  BY <1>8, <1>9, <1>13 DEF Inv, Section

\* The last thread opens the barrier: all go on to the next node, or rest.
LEMMA Opens ==
  ASSUME Inv, Types', NEW w \in Threads, EnterBarrier(w),
         n_threads_cur = 1 \/ n_barrier = n_threads_cur - 1
  PROVE  Inv'
<1> USE DEF graphVars, kickVars, flagVars, barVars, workVars, nodeVars, Goto
<1>1. pc[w] \in {"between", "final"} /\ ~Blocked(w)
  BY DEF EnterBarrier, Blocked, Spinning
<1>2. PICK n \in 0..NumNodes - 1 : w \in Part /\ InGraph(n) /\ Here(w, n)
  BY <1>1, Walker
<1>3. /\ UNCHANGED <<count, n_graph, n_threads_cur, seen, last_graph, new_graph, abort, executed>>
      /\ Leave(w)
  BY DEF EnterBarrier
<1>4. /\ Part' = Part /\ Part \subseteq Threads /\ 0 \in Part /\ 0 \in Threads
      /\ n_threads_cur = count /\ count \in Nat /\ n \in Nat
  BY <1>2, <1>3, PartFixed, Constants DEF Part, Inv, InGraph, Types
<1>5. \A v \in Threads : Blocked(v) <=> v \in Part \ {w}
  <2>1. Cardinality({v \in Threads : Blocked(v)}) = count - 1
    BY <1>4 DEF Inv, BarrierCounts, Types
  <2>2. {v \in Threads : Blocked(v)} = Part \ {w}
    BY <1>1, <1>2, <1>4, <2>1, BlockedPart, LastArrives DEF Part
  <2> QED
    BY <2>2
<1>6. n_barrier' = 0
  BY <1>4, <1>3 DEF EnterBarrier, Inv, BarrierCounts, Types
<1>7. /\ \A v \in Threads : seen[v] <= n_passed' /\ seen'[v] = seen[v]
      /\ \A v \in Part \ {w} : seen[v] # n_passed'
      /\ n_passed' \in Nat
  <2>1. CASE n_threads_cur = 1
    BY <1>2, <1>4, <1>3, <2>1 DEF EnterBarrier, Inv, BarrierCounts, Types, Part
  <2>2. CASE n_threads_cur # 1
    BY <1>4, <1>3, <2>2 DEF EnterBarrier, Inv, BarrierCounts, Types
  <2> QED
    BY <2>1, <2>2
<1>8. /\ \A v \in Threads \ {w} : pc'[v] = pc[v] /\ at'[v] = at[v]
      /\ pc'[w] = IF pc[w] = "between" THEN "test" ELSE IF w = 0 THEN "idle" ELSE "top"
      /\ at'[w] = IF pc[w] = "between" THEN at[w] + 1 ELSE at[w]
  BY <1>1, <1>3 DEF Leave, Inv, Types
<1>9. /\ \A v \in Part \ {w} : pc[v] \in Spinning /\ Released(v)'
      /\ \A v \in Threads : ~Blocked(v)'
  <2>1. \A v \in Part \ {w} : pc[v] \in Spinning /\ Released(v)' /\ ~Blocked(v)'
    BY <1>4, <1>5, <1>7, <1>8 DEF Blocked, Released
  <2>2. \A v \in Threads \ Part : pc[v] \notin Spinning /\ pc'[v] = pc[v]
    BY <1>2, <1>8 DEF Inv, OthersIdle, Outside, Spinning
  <2>3. pc'[w] \notin Spinning
    BY <1>8 DEF Spinning
  <2> QED
    BY <1>4, <2>1, <2>2, <2>3 DEF Blocked
<1>10. BarrierCounts'
  <2>1. {v \in Threads : Blocked(v)}' = {}
    BY <1>9 DEF Threads
  <2>2. n_barrier' = Cardinality({v \in Threads : Blocked(v)}')
    BY <1>6, <2>1, FS_EmptySet
  <2>3. n_barrier' <= count' - 1
    BY <1>4, <1>3, <1>6 DEF Inv, Types
  <2> QED
    BY <1>7, <2>2, <2>3 DEF BarrierCounts, Threads
<1>11. OthersIdle'
  <2> SUFFICES ASSUME NEW v \in Threads \ Part
               PROVE  /\ pc'[v] \in Outside \cup {"found"} /\ executed'[v] = 0
                      /\ n_graph' = 0 => last_graph'[v] = 0 /\ pc'[v] # "found"
    BY <1>4 DEF OthersIdle, Threads
  <2> QED
    BY <1>2, <1>3, <1>8 DEF Inv, OthersIdle
<1>12. ASSUME NEW v \in Part
       PROVE  /\ at[v] = n /\ executed[v] = IF abort = n THEN n ELSE n + 1
              /\ v # 0 => last_graph[v] = n_graph
              /\ pc[v] \in IF Ends(n) THEN {"final", "finalspin"} ELSE {"between", "spin"}
  <2>1. Here(v, n)
    <3>1. CASE v = w
      BY <1>2, <3>1
    <3>2. CASE v # w
      BY <1>2, <1>4, <1>5, <3>2 DEF InGraph, Behind, Blocked, Released, Outside, Spinning
    <3> QED
      BY <3>1, <3>2
  <2>2. pc[v] \notin {"test", "node"}
    BY <1>1, <1>9 DEF Spinning
  <2> QED
    BY <2>1, <2>2 DEF Here
<1>13. CASE Ends(n)
  <2>1. pc[w] = "final" /\ \A v \in Part \ {w} : pc[v] = "finalspin"
    BY <1>1, <1>2, <1>9, <1>12, <1>13 DEF Spinning
  <2>2. ASSUME NEW v \in Part PROVE Left(v)' /\ executed'[v] = executed'[0]
    BY <1>4, <1>3, <1>8, <1>9, <1>12, <2>1 DEF Left, Resting, Outside
  <2>3. pc'[0] \notin {"kick", "kickoff"}
    BY <1>4, <1>8, <2>1
  <2>4. AtRest'
    BY <1>2, <1>4, <1>3, <2>2, <2>3 DEF AtRest, InGraph
  <2> QED
    BY <1>10, <1>11, <2>4 DEF Inv, Section
<1>14. CASE ~Ends(n)
  <2>1. pc[w] = "between" /\ \A v \in Part \ {w} : pc[v] = "spin"
    BY <1>1, <1>2, <1>9, <1>12, <1>14 DEF Spinning
  <2>2. abort # n /\ n + 1 \in 0..NumNodes - 1 /\ n + 1 # 0
    BY <1>2, <1>14, Constants DEF Ends
  <2>3. Here(w, n + 1)'
    BY <1>2, <1>3, <1>8, <1>12, <2>1, <2>2 DEF Here
  <2>4. ASSUME NEW v \in Part \ {w} PROVE Behind(v, n + 1)'
    BY <1>4, <1>3, <1>8, <1>9, <1>12, <2>1, <2>2 DEF Behind
  <2>5. AbortFor(n + 1)'
    BY <1>2, <1>4, <1>3, <2>2 DEF InGraph, AbortFor
  <2>6. InGraph(n + 1)'
    BY <1>2, <1>4, <1>3, <2>3, <2>4, <2>5 DEF InGraph
  <2> QED
    BY <1>10, <1>11, <2>2, <2>6 DEF Inv, Section
<1> QED
  BY <1>13, <1>14

(***************************************************************************)
(* Theorems                                                                *)
(***************************************************************************)

\* A new pool is at rest and no graph has been computed.
LEMMA InitHolds == Init => Inv
<1> SUFFICES ASSUME Init PROVE Inv
  OBVIOUS
<1> USE Constants DEF Init, Each
<1>1. Types
  <2>1. pc \in [Threads -> Pc]
    BY DEF Pc, Outside, Resting
  <2>2. count \in 1..NThreadsMax /\ n_threads_cur \in 1..NThreadsMax
    OBVIOUS
  <2> QED
    BY <2>1, <2>2 DEF Types
<1>2. Part \subseteq Threads /\ 0 \in Part
  BY <1>1, PartFixed
<1>3. BarrierCounts
  <2>1. {w \in Threads : Blocked(w)} = {}
    BY DEF Blocked, Spinning
  <2> QED
    BY <1>1, <2>1, FS_EmptySet DEF BarrierCounts, Types
<1>4. OthersIdle
  BY <1>2 DEF OthersIdle, Outside
<1>5. AtRest
  BY <1>2 DEF AtRest, Left, Outside, Resting
<1> QED
  BY <1>1, <1>3, <1>4, <1>5 DEF Inv, Section

\* Every step keeps the invariant.
LEMMA InvStep ==
  ASSUME OneCount, Inv, [Next]_vars
  PROVE  Inv'
<1>1. Types' /\ count' = count
  BY TypesStep, CountFixed DEF Inv
<1>2. CASE SetGraph \/ KickThreads
  BY <1>1, <1>2, StillAtRest
<1>3. CASE KickGraph
  BY <1>1, <1>3, GraphBegins
<1>4. CASE PauseOrResume \/ Free
  <2>1. /\ pc[0] = "idle" /\ pc'[0] \in {"idle", "join"}
        /\ \A v \in Workers : pc'[v] = pc[v] \/ (pc[v] \in Outside /\ pc'[v] \in Outside)
    BY <1>4, BroadcastMoves DEF PauseOrResume, Free, Inv, Resting
  <2>2. UNCHANGED <<n_graph, n_threads_cur, n_barrier, n_passed, seen, at, executed,
                    last_graph, new_graph, abort>>
    BY <1>4 DEF PauseOrResume, Free, kickVars, barVars, workVars, nodeVars
  <2> QED
    BY <1>1, <2>1, <2>2, MovesOutside DEF Workers, Resting
<1>5. CASE Join
  <2>1. UNCHANGED <<n_graph, n_threads_cur, n_barrier, n_passed, seen, at, executed,
                    last_graph, new_graph, abort>>
    BY <1>5 DEF Join, kickVars, barVars, workVars, nodeVars
  <2>2. /\ pc[0] = "join" /\ pc'[0] = "freed"
        /\ \A v \in Threads \ {0} : pc'[v] = pc[v]
    BY <1>5, Constants DEF Join, Goto, Inv, Types
  <2> QED
    BY <1>1, <2>1, <2>2, MovesOutside DEF Resting
<1>6. ASSUME NEW w \in Workers, PauseLoop(w) \/ PollOrNot(w) \/ PollEnds(w) \/ SpuriousWakeup(w)
      PROVE  Inv'
  <2>1. UNCHANGED <<n_graph, n_threads_cur, n_barrier, n_passed, seen, at, executed,
                    last_graph, new_graph, abort>>
    BY <1>6 DEF PauseLoop, PollOrNot, PollEnds, SpuriousWakeup, kickVars, barVars, workVars, nodeVars
  <2>2. /\ \A v \in Threads \ {w} : pc'[v] = pc[v]
        /\ pc[w] \in Outside /\ pc'[w] \in Outside
    BY <1>6, Constants DEF PauseLoop, PollOrNot, PollEnds, SpuriousWakeup, Goto, Inv, Types, Outside
  <2> QED
    BY <1>1, <2>1, <2>2, MovesOutside
<1>7. ASSUME NEW w \in Workers, PollFinds(w) \/ PollTakes(w) \/ LockedCheck(w)
      PROVE  Inv'
  BY <1>1, <1>7, WorkerStep
<1>8. ASSUME NEW w \in Threads, TestNode(w) \/ ExecuteNode(w)
      PROVE  Inv'
  BY <1>1, <1>8, NodeStep
<1>9. ASSUME NEW w \in Threads, EnterBarrier(w) \/ LeaveBarrier(w)
      PROVE  Inv'
  BY <1>1, <1>9, Leaves, Waits, Opens
<1>10. CASE UNCHANGED vars
  BY <1>1, <1>10, MovesOutside DEF vars, graphVars, kickVars, barVars, workVars, nodeVars
<1> QED
  BY <1>2, <1>3, <1>4, <1>5, <1>6, <1>7, <1>8, <1>9, <1>10, NextCases

\* With one count the threads that take part in a graph (ggml_barrier,
\* ggml_graph_compute_thread) are always in one section: at rest, or all at or
\* just before the same node.
THEOREM Inductive == ASSUME OneCount PROVE Spec => []Inv
<1>1. Init => Inv
  BY InitHolds
<1>2. Inv /\ [Next]_vars => Inv'
  BY InvStep
<1> QED
  BY <1>1, <1>2, PTL DEF Spec

\* No two threads execute different nodes at once, and when ggml_graph_compute
\* returns, each thread of the plan has executed the nodes the caller has, and
\* the others none: for any number of threads and nodes, wherever the abort
\* callback asks to stop.
THEOREM WalkInStep == ASSUME OneCount PROVE Spec => []NodesInStep
<1>1. Inv => NodesInStep
  <2> SUFFICES ASSUME Inv PROVE NodesInStep
    OBVIOUS
  <2>1. ASSUME NEW v \in Threads, NEW w \in Threads, pc[v] = "node", pc[w] = "node"
        PROVE  at[v] = at[w]
    <3>1. PICK n \in 0..NumNodes - 1 : v \in Part /\ InGraph(n) /\ Here(v, n)
      BY <2>1, Walker
    <3>2. w \in Part
      BY <2>1, Walker
    <3>3. Here(w, n)
      BY <2>1, <3>1, <3>2 DEF InGraph, Behind, Outside
    <3> QED
      BY <3>1, <3>3 DEF Here
  <2>2. ASSUME pc[0] = "idle", NEW w \in Workers
        PROVE  executed[w] = IF Active(w) THEN executed[0] ELSE 0
    <3>1. /\ AtRest /\ w \in Threads /\ 0 \in Part
          /\ w \in Part <=> w < count
      BY <2>2, PartFixed, Constants
         DEF Inv, Section, InGraph, Here, Behind, Outside, Spinning
    <3>2. CASE n_graph # 0
      BY <3>1, <3>2 DEF AtRest, Active, Inv, OthersIdle
    <3>3. CASE n_graph = 0
      BY <3>1, <3>3 DEF AtRest, Inv, OthersIdle
    <3> QED
      BY <3>2, <3>3
  <2> QED
    BY <2>1, <2>2 DEF NodesInStep
<1> QED
  BY <1>1, Inductive, PTL

\* "No worker threads should be accessing the parameters below at this stage":
\* with one count the comment in ggml_graph_compute is right, for any number of
\* threads, whichever of them poll, sleep or are still leaving the last barrier.
THEOREM ParametersOwned == ASSUME OneCount PROVE Spec => []ParametersQuiet
<1>1. Inv => ParametersQuiet
  <2> SUFFICES ASSUME Inv, pc[0] = "idle", NEW w \in Workers PROVE pc[w] \notin Walking
    BY DEF ParametersQuiet
  <2>1. AtRest /\ w \in Threads /\ w # 0
    BY PartFixed, Constants DEF Inv, Section, InGraph, Here, Behind, Outside, Spinning
  <2>2. CASE w \in Part
    BY <2>1, <2>2 DEF AtRest, Left, Outside, Walking
  <2>3. CASE w \notin Part
    BY <2>1, <2>3 DEF Inv, OthersIdle, Outside, Walking
  <2> QED
    BY <2>2, <2>3
<1> QED
  BY <1>1, Inductive, PTL
=============================================================================
