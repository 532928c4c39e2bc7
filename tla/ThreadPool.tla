------------------------------ MODULE ThreadPool ------------------------------
(***************************************************************************)
(* The ggml thread pool of ggml-cpu.c (built without OpenMP): how the      *)
(* thread that calls ggml_graph_compute hands a graph to the workers, how  *)
(* they walk through its nodes in step, and how the pool is paused,        *)
(* resumed and freed.  What a node computes is not modelled here; see      *)
(* MatmulRoute for a MUL_MAT node.                                         *)
(*                                                                         *)
(* Thread 0 is the caller.  The others poll for a new graph without the    *)
(* mutex for a while and then sleep on the condition variable.             *)
(***************************************************************************)
EXTENDS Integers

CONSTANTS
    NThreadsMax,   \* n_threads_max, the caller included
    Counts,        \* the thread counts of a compute plan
    CountsVary,    \* may two graphs ask for different counts?
    NumNodes,      \* nodes of a graph
    MaxGraphs      \* bound: graphs computed

ASSUME PoolAssumption ==
    /\ NThreadsMax \in Nat \ {0} /\ Counts \subseteq 1..NThreadsMax
    /\ CountsVary \in BOOLEAN /\ {NumNodes, MaxGraphs} \subseteq Nat \ {0}

VARIABLES
    pc,              \* per thread
    graphs, count,   \* graphs begun, and the thread count of the plan
    n_graph, n_threads_cur, pause, stop, abort, n_barrier, n_passed,
    held,            \* the caller holds the mutex between two of its steps
    at,              \* per thread: node_n
    seen,            \* per thread: n_barrier_passed when it entered
    last_graph,      \* per thread
    new_graph,       \* per thread: the n_graph it has just read
    executed         \* per thread: nodes it has executed of the current graph

graphVars  == <<graphs, count>>
kickVars   == <<n_graph, n_threads_cur, held>>
flagVars   == <<pause, stop>>
barVars    == <<n_barrier, n_passed, seen>>
workVars   == <<last_graph, new_graph>>
nodeVars   == <<abort, at, executed>>
vars == <<pc, graphVars, kickVars, flagVars, barVars, workVars, nodeVars>>

Threads == 0..(NThreadsMax - 1)
Workers == Threads \ {0}

Each(v) == [w \in Threads |-> v]
Goto(w, next) == pc' = [pc EXCEPT ![w] = next]

\* ggml_threadpool_new: the pool may be created paused.
Init ==
    /\ pc = [w \in Threads |-> IF w = 0 THEN "idle" ELSE "top"]
    /\ graphs = 0 /\ count \in Counts
    /\ n_graph = 0 /\ n_threads_cur = NThreadsMax /\ held = FALSE
    /\ pause \in BOOLEAN /\ stop = FALSE /\ abort = -1
    /\ n_barrier = 0 /\ n_passed = 0
    /\ at = Each(0) /\ seen = Each(0) /\ executed = Each(0)
    /\ last_graph = Each(0) /\ new_graph = Each(0)

-----------------------------------------------------------------------------
(* The caller between graphs *)

\* ggml_cond_broadcast, with the caller's own next step.
Broadcast(next) ==
    pc' = [w \in Threads |-> CASE w = 0 -> next
                               [] pc[w] = "pausing" -> "top"
                               [] pc[w] = "asleep" -> "lock"
                               [] OTHER -> pc[w]]

\* ggml_graph_compute sets the parameters of the graph.
SetGraph ==
    /\ pc[0] = "idle" /\ graphs < MaxGraphs
    /\ graphs' = graphs + 1
    /\ IF CountsVary THEN count' \in Counts ELSE UNCHANGED count
    /\ abort' = -1 /\ executed' = Each(0)
    /\ Goto(0, "kickoff")
    /\ UNCHANGED <<kickVars, flagVars, barVars, workVars, at>>

\* ggml_graph_compute_kickoff: with the mutex, but the pollers look without it.
KickThreads ==
    /\ pc[0] = "kickoff" /\ Goto(0, "kick")
    /\ held' = TRUE /\ n_threads_cur' = count
    /\ UNCHANGED <<graphVars, n_graph, flagVars, barVars, workVars, nodeVars>>

\* Mutant of KickGraph: sleeping workers are only woken out of a pause.
KickGraphQuiet ==
    /\ pc[0] = "kick"
    /\ n_graph' = n_graph + 1 /\ pause' = FALSE /\ held' = FALSE
    /\ IF pause THEN Broadcast("test") ELSE Goto(0, "test")
    /\ at' = [at EXCEPT ![0] = 0]
    /\ UNCHANGED <<graphVars, n_threads_cur, stop, barVars, workVars, abort, executed>>

KickGraph ==
    /\ pc[0] = "kick"
    /\ n_graph' = n_graph + 1 /\ pause' = FALSE /\ held' = FALSE
    /\ Broadcast("test")
    /\ at' = [at EXCEPT ![0] = 0]
    /\ UNCHANGED <<graphVars, n_threads_cur, stop, barVars, workVars, abort, executed>>

\* ggml_threadpool_pause and _resume.
PauseOrResume ==
    /\ pc[0] = "idle" /\ pause' = ~pause /\ Broadcast("idle")
    /\ UNCHANGED <<graphVars, kickVars, stop, barVars, workVars, nodeVars>>

\* ggml_threadpool_free: stop, then join every worker.
Free ==
    /\ pc[0] = "idle" /\ stop' = TRUE /\ pause' = FALSE /\ Broadcast("join")
    /\ UNCHANGED <<graphVars, kickVars, barVars, workVars, nodeVars>>

Join ==
    /\ pc[0] = "join" /\ \A w \in Workers : pc[w] = "exited"
    /\ Goto(0, "freed")
    /\ UNCHANGED <<graphVars, kickVars, flagVars, barVars, workVars, nodeVars>>

-----------------------------------------------------------------------------
(* ggml_graph_compute_secondary_thread *)

\* The pause loop, without and then with the mutex, and the stop flag.
PauseLoop(w) ==
    /\ \/ pc[w] = "top" /\ Goto(w, IF pause THEN "pauselock" ELSE "stop")
       \/ pc[w] = "pauselock" /\ ~held /\ Goto(w, IF pause THEN "pausing" ELSE "top")
       \/ pc[w] = "stop" /\ Goto(w, IF stop THEN "exited" ELSE "work")
    /\ UNCHANGED <<graphVars, kickVars, flagVars, barVars, workVars, nodeVars>>

\* ggml_graph_compute_thread_active.
Active(w) == w < n_threads_cur

\* ggml_graph_compute_poll_for_work: not for a thread without a part.
PollOrNot(w) ==
    /\ pc[w] = "work" /\ Goto(w, IF Active(w) THEN "poll" ELSE "lock")
    /\ UNCHANGED <<graphVars, kickVars, flagVars, barVars, workVars, nodeVars>>

\* One round of polling, ggml_graph_compute_thread_ready without the mutex:
\* the flags, then n_graph and, in another step, n_threads_cur.  The rounds
\* are bounded.
PollEnds(w) ==
    /\ pc[w] = "poll"
    /\ stop \/ pause \/ n_graph = last_graph[w]
    /\ Goto(w, "lock")
    /\ UNCHANGED <<graphVars, kickVars, flagVars, barVars, workVars, nodeVars>>

PollFinds(w) ==
    /\ pc[w] = "poll" /\ ~stop /\ ~pause /\ n_graph # last_graph[w]
    /\ new_graph' = [new_graph EXCEPT ![w] = n_graph] /\ Goto(w, "found")
    /\ UNCHANGED <<graphVars, kickVars, flagVars, barVars, last_graph, nodeVars>>

\* Enter ggml_graph_compute_thread.
Begin(w) == Goto(w, "test") /\ at' = [at EXCEPT ![w] = 0]

PollTakes(w) ==
    /\ pc[w] = "found"
    /\ last_graph' = [last_graph EXCEPT ![w] = new_graph[w]]
    /\ \/ Active(w) /\ Begin(w)
       \/ ~Active(w) /\ Goto(w, "poll") /\ UNCHANGED at
    /\ UNCHANGED <<graphVars, kickVars, flagVars, barVars, new_graph, abort, executed>>

\* Mutant of LockedCheck: the graph is not remembered.
LockedCheckForgets(w) ==
    /\ pc[w] = "lock" /\ ~held
    /\ \/ (stop \/ pause) /\ Goto(w, "top") /\ UNCHANGED at
       \/ ~stop /\ ~pause /\ n_graph # last_graph[w] /\ Active(w) /\ Begin(w)
       \/ ~stop /\ ~pause /\ (n_graph = last_graph[w] \/ ~Active(w)) /\ Goto(w, "asleep") /\ UNCHANGED at
    /\ UNCHANGED <<graphVars, kickVars, flagVars, barVars, workVars, abort, executed>>

\* ggml_graph_compute_check_for_work with the mutex: nothing changes meanwhile.
LockedCheck(w) ==
    /\ pc[w] = "lock" /\ ~held
    /\ \/ (stop \/ pause) /\ Goto(w, "top") /\ UNCHANGED <<last_graph, at>>
       \/ /\ ~stop /\ ~pause
          /\ last_graph' = [last_graph EXCEPT ![w] = n_graph]
          /\ IF n_graph # last_graph[w] /\ Active(w) THEN Begin(w)
             ELSE Goto(w, "asleep") /\ UNCHANGED at
    /\ UNCHANGED <<graphVars, kickVars, flagVars, barVars, new_graph, abort, executed>>

SpuriousWakeup(w) ==
    /\ \/ pc[w] = "pausing" /\ Goto(w, "top")
       \/ pc[w] = "asleep" /\ Goto(w, "lock")
    /\ UNCHANGED <<graphVars, kickVars, flagVars, barVars, workVars, nodeVars>>

-----------------------------------------------------------------------------
(* ggml_graph_compute_thread, every thread *)

\* Mutant of TestNode: any abort ends the walk.
TestNodeAnyAbort(w) ==
    /\ pc[w] = "test" /\ Goto(w, IF abort # -1 THEN "final" ELSE "node")
    /\ UNCHANGED <<graphVars, kickVars, flagVars, barVars, workVars, nodeVars>>

\* The loop condition: an abort counts from the node after the one it came in.
TestNode(w) ==
    /\ pc[w] = "test" /\ Goto(w, IF abort = at[w] THEN "final" ELSE "node")
    /\ UNCHANGED <<graphVars, kickVars, flagVars, barVars, workVars, nodeVars>>

\* One node; the caller asks the abort callback after it.
ExecuteNode(w) ==
    /\ pc[w] = "node" /\ executed' = [executed EXCEPT ![w] = @ + 1]
    /\ Goto(w, IF at[w] + 1 < NumNodes THEN "between" ELSE "final")
    /\ \/ UNCHANGED abort
       \/ w = 0 /\ abort' = at[w] + 1
    /\ UNCHANGED <<graphVars, kickVars, flagVars, barVars, workVars, at>>

\* Past a barrier: to the next node, or out of the graph.
Leave(w) ==
    IF pc[w] \in {"between", "spin"}
    THEN Goto(w, "test") /\ at' = [at EXCEPT ![w] = @ + 1]
    ELSE Goto(w, IF w = 0 THEN "idle" ELSE "top") /\ UNCHANGED at

\* ggml_barrier; the last of n_threads_cur threads lets the others go.
EnterBarrier(w) ==
    /\ pc[w] \in {"between", "final"}
    /\ \/ n_threads_cur = 1 /\ Leave(w) /\ UNCHANGED barVars
       \/ /\ n_threads_cur # 1 /\ n_barrier = n_threads_cur - 1
          /\ n_barrier' = 0 /\ n_passed' = n_passed + 1
          /\ Leave(w) /\ UNCHANGED seen
       \/ /\ n_threads_cur # 1 /\ n_barrier # n_threads_cur - 1
          /\ n_barrier' = n_barrier + 1 /\ seen' = [seen EXCEPT ![w] = n_passed]
          /\ Goto(w, IF pc[w] = "between" THEN "spin" ELSE "finalspin")
          /\ UNCHANGED <<n_passed, at>>
    /\ UNCHANGED <<graphVars, kickVars, flagVars, workVars, abort, executed>>

LeaveBarrier(w) ==
    /\ pc[w] \in {"spin", "finalspin"} /\ n_passed # seen[w]
    /\ Leave(w)
    /\ UNCHANGED <<graphVars, kickVars, flagVars, barVars, workVars, abort, executed>>

Walk(w) == TestNode(w) \/ ExecuteNode(w) \/ EnterBarrier(w) \/ LeaveBarrier(w)

Caller == KickThreads \/ KickGraph \/ Join \/ Walk(0)

Worker(w) == \/ PauseLoop(w) \/ PollOrNot(w) \/ PollEnds(w) \/ PollFinds(w)
             \/ PollTakes(w) \/ LockedCheck(w) \/ Walk(w)

\* The program has freed the pool, or computes no more graphs.
Ended == pc[0] = "freed" \/ (pc[0] = "idle" /\ graphs = MaxGraphs)

Next == \/ Caller \/ SetGraph \/ PauseOrResume \/ Free
        \/ \E w \in Workers : Worker(w) \/ SpuriousWakeup(w)
        \/ Ended /\ UNCHANGED vars

\* Every thread that can run is scheduled; polling ends by itself.
Fairness == WF_vars(Caller) /\ \A w \in Workers : WF_vars(Worker(w))

Spec == Init /\ [][Next]_vars /\ Fairness

-----------------------------------------------------------------------------
(* Properties *)

Walking == {"test", "node", "between", "spin", "final"}

\* The nodes of a graph depend on one another: no thread executes a node
\* while another is at a different one, and when ggml_graph_compute returns,
\* every thread with a part in the graph has executed the same nodes, once
\* each, also after an abort; the others none.
NodesInStep ==
    /\ \A v, w \in Threads : pc[v] = "node" /\ pc[w] = "node" => at[v] = at[w]
    /\ pc[0] = "idle" => \A w \in Workers :
          executed[w] = IF Active(w) THEN executed[0] ELSE 0

\* "No worker threads should be accessing the parameters below at this stage":
\* while the caller is between two graphs, no worker walks through one.
ParametersQuiet == pc[0] = "idle" => \A w \in Workers : pc[w] \notin Walking

\* Every graph that was kicked off is computed and every pool that is freed is
\* joined, whichever workers poll, sleep, pause or wake up for nothing.
CallerReturns ==
    /\ pc[0] = "kickoff" ~> pc[0] = "idle"
    /\ pc[0] = "join" ~> pc[0] = "freed"
=============================================================================
