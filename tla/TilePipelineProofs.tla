-------------------------- MODULE TilePipelineProofs --------------------------
(***************************************************************************)
(* Proofs about TilePipeline for matmuls of any shape, any number of       *)
(* poll-hook batches and any tile limit, on all three routes.              *)
(***************************************************************************)
EXTENDS TilePipeline, SequenceTheorems, TLAPS

(***************************************************************************)
(* The inductive invariant                                                 *)
(***************************************************************************)

Banks == {0, 1}
JobType == [tile : Int, src : {0, 1, Window}, slot : Banks, reused : BOOLEAN,
            ready : BOOLEAN, released : BOOLEAN, consumed : BOOLEAN]
Pair == Int \X Int

ConfigTypes ==
    /\ shape \in [rows : Nat \ {0}, groups : Nat \ {0}, cols : Nat \ {0}]
    /\ overlap \in BOOLEAN /\ pipeline \in BOOLEAN /\ resident \in BOOLEAN
    /\ route \in {"pingpong", "serial", "contract"} /\ limit \in Nat
    /\ Serial => ~overlap /\ ~pipeline

HostTypes ==
    /\ pc \in Pcs /\ t \in Nat /\ running \in {0, 1, NoJob}
    /\ ahead \in BOOLEAN /\ boundary \in BOOLEAN /\ checked \in Nat
    /\ jobs \in [Banks -> JobType] /\ loaded \in [Banks -> BOOLEAN] /\ staging \in Int
    /\ look \in [valid : BOOLEAN, submitted : BOOLEAN, tile : Int, main : Nat]

DataTypes ==
    /\ ddrW \in [Banks -> Pair] /\ ddrS \in [Banks -> Pair]
    /\ helper \in [state : {"idle", "working", "half", "done"}, tile : Int]
    /\ bankA \in [Banks -> Int] /\ bankW \in [Banks -> Pair] /\ ddrAct \in Int
    /\ ip \in [state : {"idle", "vpu", "spu", "final"}, bank : Banks, tile : Int, raw : Pair \X Int]

Types == ConfigTypes /\ HostTypes /\ DataTypes

\* The steps of a tile: what precedes its START, what a submission begins, and
\* all of them, after the preparation.
Submitting == {"submit", "actDma", "weight", "weightDma", "quiescent", "scaleDma", "start"}
Packing    == Submitting \cup {"consume", "transition", "finalize"}
InTile     == {"activation", "admit"} \cup Packing \cup {"advance"}
Retiring   == {"drain", "outDma", "verify", "release", "accumulate"}
Between    == {"rowEnd", "row", "prepare"}

\* The helper works for the lookahead alone, from admission to the join, and
\* the lookahead is for the tile after the one being submitted.
Lookahead ==
    /\ look.submitted <=> helper.state # "idle"
    /\ look.submitted => /\ helper.tile = look.tile
                         /\ pc = "unwind" \/ (pc \in Packing /\ look.valid)
    /\ look.valid =>
         /\ pipeline /\ shape.cols = 1 /\ look.tile < Total
         /\ \/ /\ pc \in Packing /\ look.submitted /\ look.tile = t + 1
               /\ Prepared.src = Bank /\ Prepared.slot = Bank /\ look.main <= MainBatches
            \/ /\ pc = "advance" /\ look.tile = t + 1
               /\ ~look.submitted /\ look.main = MainBatches
            \/ /\ pc \in Between \cup {"drain", "outDma", "accumulate", "store"} /\ look.tile = t
               /\ ~look.submitted /\ look.main = MainBatches /\ Prepared.tile # t

Fresh(b) == ~jobs[b].ready /\ ~jobs[b].released /\ ~jobs[b].consumed

\* Which tile the jobs are for, and which of them is prepared.
Scheduled ==
    /\ \A b \in Banks : jobs[b].tile <= t /\ jobs[b].src \in {jobs[b].slot, Window}
    /\ pc \in Between \cup {"store"} => Prepared.tile # t
    /\ pc \in InTile \cup {"release"} => Prepared.tile = t
    /\ Serial /\ pc \in Retiring \cup {"retire", "boundary"} => Prepared.tile = t
    /\ pc \in InTile => Fresh(Bank)
    /\ ~Serial /\ Prepared.tile = t => Fresh(Bank)

\* Which job runs, and who owns its result.
Owned ==
    /\ running # NoJob => running = (IF Serial THEN 0 ELSE 1 - Bank)
    /\ pc \in Retiring \cup {"rowEnd", "consume"} => running # NoJob
    /\ pc \in {"store", "retire", "boundary"} => running = NoJob
    /\ Serial => /\ pc \notin {"release", "consume", "transition", "finalize", "advance", "rowEnd", "activation", "admit"}
                 /\ pc \in {"row", "prepare"} \cup Submitting => running = NoJob
    /\ pc \in {"verify", "boundary"} => route = "contract"
    /\ pc = "retire" => Serial
    /\ pc = "accumulate" /\ Prepared.tile = t => ~overlap
    /\ pc \in {"release", "consume"} => overlap
    /\ running # NoJob =>
         /\ pc \in Between \cup {"drain", "outDma"} => Fresh(running) /\ ip.tile = Runner.tile
         /\ pc \in {"verify", "release", "accumulate"} =>
              Runner.ready /\ ~Runner.released /\ ~Runner.consumed
         /\ overlap /\ pc \in {"activation", "admit", "consume"} \cup Submitting =>
              Runner.ready /\ Runner.released /\ ~Runner.consumed
    /\ pc \in {"consume", "transition", "finalize", "advance"} => ip.tile = t

\* From the drain of a job to the START of the next one the accelerator rests.
Quiet ==
    /\ \/ pc \in {"outDma", "verify", "release", "accumulate", "retire", "boundary", "store",
                  "activation", "admit"} \cup Submitting
       \/ pc \in {"row", "prepare"} /\ running = NoJob
       => ip.state \in {"idle", "final"}
    /\ pc = "outDma" => ip.state = "final"

\* A qualification that goes on has not reached its limit.
Qualified ==
    /\ boundary => pc = "returned"
    /\ route = "contract" /\ pc \notin {"accumulate", "retire", "boundary", "returned", "unwind", "failed"}
         => checked < limit
    /\ pc \in {"retire", "boundary"} => desc.in = "FREE" /\ desc.out = "FREE"

\* What a prepared tile reads is its own: its windows in DDR, ...
Staged ==
    Prepared.tile = t /\ pc \in Retiring \cup InTile =>
        /\ ~ahead \/ pc \notin Retiring \cup {"activation"} => ddrAct = ActOf(t)
        /\ IF Prepared.reused THEN bankW[Bank] = Whole(WeightOf(t))
           ELSE WeightSource = Whole(WeightOf(t))
        /\ ddrS[Prepared.slot] = Whole(t)

\* ... the slot of a lookahead that has been packed by both sides, ...
Ahead ==
    look.valid =>
        /\ look.main = MainBatches =>
             ddrW[look.tile % 2][1] = WeightOf(look.tile) /\ ddrS[look.tile % 2][1] = look.tile
        /\ helper.state \in {"idle", "done"} =>
             ddrW[look.tile % 2][2] = WeightOf(look.tile) /\ ddrS[look.tile % 2][2] = look.tile

\* ... weights that an earlier column left behind, ...
Reusable ==
    /\ pc \notin {"unwind", "failed", "returned"} =>
         /\ \A b \in Banks : loaded[b] => bankW[b] = Whole(WeightOf(t))
         /\ staging # None => ddrW[0] = Whole(staging)
    /\ staging # None => shape.cols > 1
    /\ Serial => staging = None /\ \A b \in Banks : ~loaded[b]

\* ... what has been transferred to its bank, ...
Transferred ==
    /\ pc \in {"weight", "weightDma", "quiescent", "scaleDma", "start"} => bankA[Bank] = ActOf(t)
    /\ pc \in {"quiescent", "scaleDma", "start", "consume", "transition", "finalize", "advance"} =>
         bankW[Bank] = Whole(WeightOf(t))
    /\ pc = "weightDma" => ~Prepared.reused
    /\ pc = "start" => param = Whole(t)

\* ... what the accelerator computes from it, and the result in DDR.
Product(n) == [w |-> Whole(WeightOf(n)), a |-> ActOf(n), s |-> Whole(n)]

Computed ==
    /\ ip.state = "vpu" => bankA[ip.bank] = ActOf(ip.tile) /\ bankW[ip.bank] = Whole(WeightOf(ip.tile))
    /\ ip.state = "spu" => ip.raw = <<Whole(WeightOf(ip.tile)), ActOf(ip.tile)>>
    /\ ip.state \in {"vpu", "spu"} => param = Whole(ip.tile)
    /\ ip.state = "final" => out = Product(ip.tile)
    /\ running # NoJob /\ pc \in {"verify", "release", "accumulate", "activation", "admit", "consume"} \cup Submitting =>
         (Runner.ready /\ ~Runner.consumed => ddrOut = Product(Runner.tile))

Control == Lookahead /\ Scheduled /\ Owned /\ Quiet /\ Qualified
Contents == Staged /\ Ahead /\ Reusable /\ Transferred /\ Computed

Inv == Types /\ Control /\ OwnershipHolds /\ DmaSourceStable /\ Contents

(***************************************************************************)
(* Preliminaries                                                           *)
(***************************************************************************)

\* The numbers of a shape.
LEMMA Numbers ==
  ASSUME ConfigTypes
  PROVE  /\ RowTiles \in Nat \ {0} /\ Total \in Nat
         /\ \A n \in Int : WeightOf(n) \in Int /\ ActOf(n) \in Int
         /\ \A n \in Nat : WeightOf(n) \in Nat
         /\ \A n \in Nat : (n + 1) % shape.cols # 0 => WeightOf(n + 1) = WeightOf(n)
<1>1. shape.rows \in Nat \ {0} /\ shape.groups \in Nat \ {0} /\ shape.cols \in Nat \ {0}
  BY DEF ConfigTypes
<1>2. \A a, b \in Nat \ {0} : a * b \in Nat \ {0}
  OBVIOUS
<1>3. RowTiles \in Nat \ {0}
  BY <1>1, <1>2 DEF RowTiles
<1>4. Total \in Nat
  BY <1>1, <1>2 DEF Total
<1>5. \A n \in Int, d \in Nat \ {0} : n \div d \in Int /\ n % d \in Int
  OBVIOUS
<1>6. \A n \in Nat, d \in Nat \ {0} : n \div d \in Nat
  OBVIOUS
<1>7. \A n \in Int : WeightOf(n) \in Int /\ ActOf(n) \in Int
  BY <1>1, <1>3, <1>5 DEF WeightOf, ActOf
<1>8. \A n \in Nat : WeightOf(n) \in Nat
  BY <1>1, <1>6 DEF WeightOf
<1>9. \A n \in Nat, d \in Nat \ {0} : (n + 1) % d # 0 => (n + 1) \div d = n \div d
  OBVIOUS
<1> QED
  BY <1>1, <1>3, <1>4, <1>7, <1>8, <1>9 DEF WeightOf

(***************************************************************************)
(* What the updates of the jobs and of the windows do                      *)
(***************************************************************************)

\* The gates and the shape are fixed for a matmul.
LEMMA ConfigFixed ==
  ASSUME [Next]_vars PROVE UNCHANGED config
  BY DEF Next, Host, Helper, Device, Finished, vars, BeginRow, Consume, PrepareDirect,
     Drain, OutDmaDone, Release, AccumulateAndRelease, AccumulatePending, PrepareActivation,
     Admit, AdmitNothing, Submit, ActDmaDone, WeightDma, WeightDmaDone, ScaleDma,
     ScaleDmaDone, Start, Poll, Transition, FinalizePack, FinalizeJoin, NothingToFinalize,
     Advance, Carry, DrainRow, StoreRows, Return, VerifyTile, RetireTile, CompleteBoundary,
     CallFails, Unwind, HelperBegin, HelperDone, VpuDone, SpuFinal

\* The bank of a tile, and the one of the tile after it.
LEMMA BankFacts ==
  ASSUME Types
  PROVE  /\ Bank \in Banks /\ t \in Int /\ 1 - Bank \in Banks /\ 1 - Bank # Bank
         /\ ~Serial => Bank = t % 2 /\ (t + 1) % 2 = 1 - Bank
         /\ Serial => Bank = 0
         /\ \A n \in Int : n % 2 \in Banks
  BY DEF Types, HostTypes, Bank, Banks

\* A new job replaces the one of its bank.
LEMMA JobStored ==
  ASSUME Types, NEW n \in Int, NEW src \in {0, 1, Window}, NEW slot \in Banks,
         jobs' = [jobs EXCEPT ![Bank] = WithReuse(Job(n, src, slot))]
  PROVE  /\ jobs' \in [Banks -> JobType]
         /\ jobs'[Bank].tile = n /\ jobs'[Bank].src = src /\ jobs'[Bank].slot = slot
         /\ jobs'[Bank].reused <=> shape.cols > 1 /\ loaded[Bank]
         /\ ~jobs'[Bank].ready /\ ~jobs'[Bank].released /\ ~jobs'[Bank].consumed
         /\ \A b \in Banks : b # Bank => jobs'[b] = jobs[b]
<1> DEFINE j == WithReuse(Job(n, src, slot))
<1>1. PICK r \in BOOLEAN : r = (shape.cols > 1 /\ loaded[Bank])
  OBVIOUS
<1>2. j = [tile |-> n, src |-> src, slot |-> slot, reused |-> r,
           ready |-> FALSE, released |-> FALSE, consumed |-> FALSE]
  <2>1. j = [Job(n, src, slot) EXCEPT !.reused = r]
    BY <1>1, Zenon DEF WithReuse
  <2> QED
    BY <2>1 DEF Job
<1>3. j \in JobType
  BY <1>2 DEF JobType
<1>4. Bank \in Banks /\ jobs \in [Banks -> JobType]
  BY BankFacts DEF Types, HostTypes
<1>5. jobs' \in [Banks -> JobType] /\ jobs'[Bank] = j /\ \A b \in Banks : b # Bank => jobs'[b] = jobs[b]
  BY <1>3, <1>4
<1>6. jobs'[Bank].reused <=> shape.cols > 1 /\ loaded[Bank]
  <2>1. jobs'[Bank].reused = r
    BY <1>2, <1>5
  <2> QED
    BY <1>1, <2>1, Zenon
<1> HIDE DEF j
<1> QED
  BY <1>2, <1>5, <1>6

\* Flags of the running job are set, its job becomes j.
Flags(j) == /\ jobs' = [jobs EXCEPT ![running] = j] /\ j \in JobType
            /\ j.tile = Runner.tile /\ j.src = Runner.src
            /\ j.slot = Runner.slot /\ j.reused = Runner.reused

\* Setting flags of the running job leaves the other job and the rest of it alone.
LEMMA JobFlagged ==
  ASSUME Types, running \in Banks, NEW j, Flags(j)
  PROVE  /\ jobs' \in [Banks -> JobType] /\ jobs'[running] = j
         /\ \A b \in Banks : /\ jobs'[b].tile = jobs[b].tile /\ jobs'[b].src = jobs[b].src
                             /\ jobs'[b].slot = jobs[b].slot /\ jobs'[b].reused = jobs[b].reused
                             /\ b # running => jobs'[b] = jobs[b]
<1>1. jobs \in [Banks -> JobType]
  BY DEF Types, HostTypes
<1>2. jobs' \in [Banks -> JobType] /\ jobs'[running] = j /\ \A b \in Banks : b # running => jobs'[b] = jobs[b]
  BY <1>1 DEF Flags
<1> QED
  BY <1>2 DEF Flags, Runner

\* What drain, release and read do to the flags.
LEMMA FlagsSet ==
  ASSUME Types, running \in Banks
  PROVE  /\ jobs' = [jobs EXCEPT ![running].ready = TRUE] =>
              Flags([Runner EXCEPT !.ready = TRUE])
         /\ jobs' = [jobs EXCEPT ![running].released = TRUE] =>
              Flags([Runner EXCEPT !.released = TRUE])
         /\ jobs' = [jobs EXCEPT ![running].consumed = TRUE] =>
              Flags([Runner EXCEPT !.consumed = TRUE])
         /\ jobs' = [jobs EXCEPT ![running].consumed = TRUE, ![running].released = TRUE] =>
              Flags([Runner EXCEPT !.consumed = TRUE, !.released = TRUE])
<1>1. jobs \in [Banks -> JobType] /\ Runner \in JobType /\ Runner = jobs[running]
  BY DEF Types, HostTypes, Runner
<1>2. \A j \in JobType : /\ [j EXCEPT !.ready = TRUE] \in JobType
                         /\ [j EXCEPT !.released = TRUE] \in JobType
                         /\ [j EXCEPT !.consumed = TRUE] \in JobType
                         /\ [j EXCEPT !.consumed = TRUE, !.released = TRUE] \in JobType
  BY DEF JobType
<1>3. /\ [jobs EXCEPT ![running].ready = TRUE] = [jobs EXCEPT ![running] = [Runner EXCEPT !.ready = TRUE]]
      /\ [jobs EXCEPT ![running].released = TRUE] = [jobs EXCEPT ![running] = [Runner EXCEPT !.released = TRUE]]
      /\ [jobs EXCEPT ![running].consumed = TRUE] = [jobs EXCEPT ![running] = [Runner EXCEPT !.consumed = TRUE]]
  BY <1>1
<1>4. [jobs EXCEPT ![running].consumed = TRUE, ![running].released = TRUE]
        = [jobs EXCEPT ![running] = [Runner EXCEPT !.consumed = TRUE, !.released = TRUE]]
  BY <1>1
<1>5. ASSUME jobs' = [jobs EXCEPT ![running].ready = TRUE] PROVE Flags([Runner EXCEPT !.ready = TRUE])
  BY <1>1, <1>2, <1>3, <1>5, ZenonT(60) DEF Flags, JobType
<1>6. ASSUME jobs' = [jobs EXCEPT ![running].released = TRUE] PROVE Flags([Runner EXCEPT !.released = TRUE])
  BY <1>1, <1>2, <1>3, <1>6, ZenonT(60) DEF Flags, JobType
<1>7. ASSUME jobs' = [jobs EXCEPT ![running].consumed = TRUE] PROVE Flags([Runner EXCEPT !.consumed = TRUE])
  BY <1>1, <1>2, <1>3, <1>7, ZenonT(60) DEF Flags, JobType
<1>8. ASSUME jobs' = [jobs EXCEPT ![running].consumed = TRUE, ![running].released = TRUE]
      PROVE  Flags([Runner EXCEPT !.consumed = TRUE, !.released = TRUE])
  BY <1>1, <1>2, <1>4, <1>8 DEF Flags, JobType
<1> QED
  BY <1>5, <1>6, <1>7, <1>8

\* The prefix of a window is written.
LEMMA PrefixWritten ==
  ASSUME NEW f \in [Banks -> Pair], NEW b \in Banks, NEW x \in Int
  PROVE  /\ [f EXCEPT ![b][1] = x] \in [Banks -> Pair]
         /\ [f EXCEPT ![b][1] = x][b] = <<x, f[b][2]>>
         /\ \A c \in Banks : c # b => [f EXCEPT ![b][1] = x][c] = f[c]
<1>1. f[b] \in Int \X Int
  BY DEF Pair
<1>2. [f[b] EXCEPT ![1] = x] = <<x, f[b][2]>> /\ <<x, f[b][2]>> \in Pair
  BY <1>1 DEF Pair
<1> QED
  BY <1>2

\* The suffix of a window is written.
LEMMA SuffixWritten ==
  ASSUME NEW f \in [Banks -> Pair], NEW b \in Banks, NEW x \in Int
  PROVE  /\ [f EXCEPT ![b][2] = x] \in [Banks -> Pair]
         /\ [f EXCEPT ![b][2] = x][b] = <<f[b][1], x>>
         /\ \A c \in Banks : c # b => [f EXCEPT ![b][2] = x][c] = f[c]
<1>1. f[b] \in Int \X Int
  BY DEF Pair
<1>2. [f[b] EXCEPT ![2] = x] = <<f[b][1], x>> /\ <<f[b][1], x>> \in Pair
  BY <1>1 DEF Pair
<1> QED
  BY <1>2

\* What retiring the running job does to the jobs.
LEMMA RetireEffects ==
  ASSUME Types, running \in Banks,
         OutDmaDone \/ Release \/ AccumulateAndRelease \/ AccumulatePending
  PROVE  /\ jobs' \in [Banks -> JobType]
         /\ \A b \in Banks : /\ jobs'[b].tile = jobs[b].tile /\ jobs'[b].src = jobs[b].src
                             /\ jobs'[b].slot = jobs[b].slot /\ jobs'[b].reused = jobs[b].reused
                             /\ b # running => jobs'[b] = jobs[b]
         /\ OutDmaDone => /\ jobs'[running].ready /\ jobs'[running].released = Runner.released
                          /\ jobs'[running].consumed = Runner.consumed
         /\ Release /\ Runner.ready /\ ~Runner.released =>
              jobs'[running].ready /\ jobs'[running].released /\ jobs'[running].consumed = Runner.consumed
<1>1. jobs \in [Banks -> JobType] /\ Runner \in JobType /\ Runner = jobs[running]
  BY DEF Types, HostTypes, Runner
<1>2. CASE OutDmaDone
  <2>1. Flags([Runner EXCEPT !.ready = TRUE])
    BY <1>2, FlagsSet DEF OutDmaDone
  <2>2. ~Release
    BY <1>2 DEF OutDmaDone, Release
  <2> QED
    BY <1>1, <2>1, <2>2, JobFlagged DEF JobType
<1>3. CASE Release
  <2>1. ~OutDmaDone
    BY <1>3 DEF OutDmaDone, Release
  <2>2. CASE Runner.ready /\ ~Runner.released
    <3>1. Flags([Runner EXCEPT !.released = TRUE])
      BY <1>3, <2>2, FlagsSet DEF Release
    <3> QED
      BY <1>1, <2>1, <2>2, <3>1, JobFlagged DEF JobType
  <2>3. CASE ~(Runner.ready /\ ~Runner.released)
    BY <1>1, <1>3, <2>1, <2>3 DEF Release
  <2> QED
    BY <2>2, <2>3
<1>4. CASE AccumulateAndRelease
  <2>1. ~OutDmaDone /\ ~Release
    BY <1>4 DEF OutDmaDone, Release, AccumulateAndRelease
  <2>2. CASE Runner.ready /\ ~Runner.consumed /\ ~Runner.released
    <3>1. Flags([Runner EXCEPT !.consumed = TRUE, !.released = TRUE])
      BY <1>4, <2>2, FlagsSet DEF AccumulateAndRelease
    <3> QED
      BY <2>1, <3>1, JobFlagged
  <2>3. CASE ~(Runner.ready /\ ~Runner.consumed /\ ~Runner.released)
    BY <1>1, <1>4, <2>1, <2>3 DEF AccumulateAndRelease
  <2> QED
    BY <2>2, <2>3
<1>5. CASE AccumulatePending
  <2>1. ~OutDmaDone /\ ~Release
    BY <1>5 DEF OutDmaDone, Release, AccumulatePending
  <2>2. CASE Runner.ready /\ ~Runner.consumed /\ Runner.released
    <3>1. Flags([Runner EXCEPT !.consumed = TRUE])
      BY <1>5, <2>2, FlagsSet DEF AccumulatePending
    <3> QED
      BY <2>1, <3>1, JobFlagged
  <2>3. CASE ~(Runner.ready /\ ~Runner.consumed /\ Runner.released)
    BY <1>1, <1>5, <2>1, <2>3 DEF AccumulatePending
  <2> QED
    BY <2>2, <2>3
<1> QED
  BY <1>2, <1>3, <1>4, <1>5

\* A batch of the host's half writes the prefix of the lookahead's slot.
LEMMA BatchEffects ==
  ASSUME Types, PackBatch
  PROVE  /\ look' \in [valid : BOOLEAN, submitted : BOOLEAN, tile : Int, main : Nat]
         /\ look'.valid = look.valid /\ look'.submitted = look.submitted
         /\ look'.tile = look.tile /\ look'.main = look.main + 1
         /\ ddrW' \in [Banks -> Pair] /\ ddrS' \in [Banks -> Pair]
         /\ \A b \in Banks : /\ b # look.tile % 2 => ddrW'[b] = ddrW[b] /\ ddrS'[b] = ddrS[b]
                             /\ ddrW'[b][2] = ddrW[b][2] /\ ddrS'[b][2] = ddrS[b][2]
         /\ look.main + 1 = MainBatches =>
              ddrW'[look.tile % 2][1] = WeightOf(look.tile) /\ ddrS'[look.tile % 2][1] = look.tile
<1>1. /\ look \in [valid : BOOLEAN, submitted : BOOLEAN, tile : Int, main : Nat] /\ look.tile \in Int
      /\ look.tile % 2 \in Banks /\ ddrW \in [Banks -> Pair] /\ ddrS \in [Banks -> Pair]
      /\ WeightOf(look.tile) \in Int /\ None \in Int
  BY BankFacts, Numbers DEF Types, HostTypes, DataTypes, None
<1>2. look' = [look EXCEPT !.main = @ + 1]
  BY DEF PackBatch
<1>3. PICK x \in Int, y \in Int :
         /\ ddrW' = [ddrW EXCEPT ![look.tile % 2][1] = x]
         /\ ddrS' = [ddrS EXCEPT ![look.tile % 2][1] = y]
         /\ look.main + 1 = MainBatches => x = WeightOf(look.tile) /\ y = look.tile
  BY <1>1 DEF PackBatch
<1>4. /\ ddrW' \in [Banks -> Pair] /\ ddrW'[look.tile % 2] = <<x, ddrW[look.tile % 2][2]>>
      /\ \A b \in Banks : b # look.tile % 2 => ddrW'[b] = ddrW[b]
  BY <1>1, <1>3, PrefixWritten
<1>5. /\ ddrS' \in [Banks -> Pair] /\ ddrS'[look.tile % 2] = <<y, ddrS[look.tile % 2][2]>>
      /\ \A b \in Banks : b # look.tile % 2 => ddrS'[b] = ddrS[b]
  BY <1>1, <1>3, PrefixWritten
<1>6. \A b \in Banks : ddrW'[b][2] = ddrW[b][2] /\ ddrS'[b][2] = ddrS[b][2]
  BY <1>4, <1>5
<1>7. /\ look' \in [valid : BOOLEAN, submitted : BOOLEAN, tile : Int, main : Nat]
      /\ look'.valid = look.valid /\ look'.submitted = look.submitted
      /\ look'.tile = look.tile /\ look'.main = look.main + 1
  BY <1>1, <1>2
<1>8. look.main + 1 = MainBatches =>
         ddrW'[look.tile % 2][1] = WeightOf(look.tile) /\ ddrS'[look.tile % 2][1] = look.tile
  BY <1>3, <1>4, <1>5
<1> QED
  BY <1>4, <1>5, <1>6, <1>7, <1>8

\* The helper writes the suffix of its task's slot.
LEMMA HelperEffects ==
  ASSUME Types, HelperBegin \/ HelperDone
  PROVE  /\ helper' \in [state : {"idle", "working", "half", "done"}, tile : Int]
         /\ helper'.tile = helper.tile /\ helper.state # "idle"
         /\ HelperBegin => helper'.state = "half"
         /\ HelperDone => helper'.state = "done"
         /\ ddrW' \in [Banks -> Pair] /\ ddrS' \in [Banks -> Pair]
         /\ \A b \in Banks : /\ b # helper.tile % 2 => ddrW'[b] = ddrW[b] /\ ddrS'[b] = ddrS[b]
                             /\ ddrW'[b][1] = ddrW[b][1] /\ ddrS'[b][1] = ddrS[b][1]
         /\ HelperDone =>
              ddrW'[helper.tile % 2][2] = WeightOf(helper.tile) /\ ddrS'[helper.tile % 2][2] = helper.tile
<1>1. /\ helper \in [state : {"idle", "working", "half", "done"}, tile : Int] /\ helper.tile \in Int
      /\ helper.tile % 2 \in Banks /\ ddrW \in [Banks -> Pair] /\ ddrS \in [Banks -> Pair]
      /\ WeightOf(helper.tile) \in Int /\ None \in Int
  BY BankFacts, Numbers DEF Types, HostTypes, DataTypes, None
<1>2. /\ helper' \in [state : {"idle", "working", "half", "done"}, tile : Int]
      /\ helper'.tile = helper.tile /\ helper.state # "idle"
      /\ HelperBegin => helper'.state = "half"
      /\ HelperDone => helper'.state = "done"
  BY <1>1 DEF HelperBegin, HelperDone
<1>3. PICK x \in Int, y \in Int :
         /\ ddrW' = [ddrW EXCEPT ![helper.tile % 2][2] = x]
         /\ ddrS' = [ddrS EXCEPT ![helper.tile % 2][2] = y]
         /\ HelperDone => x = WeightOf(helper.tile) /\ y = helper.tile
  <2>1. CASE HelperBegin
    BY <1>1, <2>1 DEF HelperBegin, HelperDone
  <2>2. CASE HelperDone
    BY <1>1, <2>2 DEF HelperDone
  <2> QED
    BY <2>1, <2>2
<1>4. /\ ddrW' \in [Banks -> Pair] /\ ddrW'[helper.tile % 2] = <<ddrW[helper.tile % 2][1], x>>
      /\ \A b \in Banks : b # helper.tile % 2 => ddrW'[b] = ddrW[b]
  BY <1>1, <1>3, SuffixWritten, ZenonT(60)
<1>5. /\ ddrS' \in [Banks -> Pair] /\ ddrS'[helper.tile % 2] = <<ddrS[helper.tile % 2][1], y>>
      /\ \A b \in Banks : b # helper.tile % 2 => ddrS'[b] = ddrS[b]
  BY <1>1, <1>3, SuffixWritten, ZenonT(60)
<1>6. \A b \in Banks : ddrW'[b][1] = ddrW[b][1] /\ ddrS'[b][1] = ddrS[b][1]
  BY <1>4, <1>5
<1>7. HelperDone =>
         ddrW'[helper.tile % 2][2] = WeightOf(helper.tile) /\ ddrS'[helper.tile % 2][2] = helper.tile
  BY <1>3, <1>4, <1>5
<1> QED
  BY <1>2, <1>4, <1>5, <1>6, <1>7

\* A direct preparation packs into slot s, or leaves the weights to a window
\* that holds them.
LEMMA DirectEffects ==
  ASSUME Types, PrepareDirect
  PROVE  \E s \in Banks, src \in {0, 1, Window} :
           /\ s = 0 \/ (s = Bank /\ pipeline /\ shape.cols = 1)
           /\ src \in {s, Window}
           /\ jobs' = [jobs EXCEPT ![Bank] = WithReuse(Job(t, src, s))]
           /\ ddrS' \in [Banks -> Pair] /\ ddrS'[s] = Whole(t)
           /\ ddrW' \in [Banks -> Pair]
           /\ \/ (src = Window \/ ReuseDirect) /\ ddrW' = ddrW
              \/ src = s /\ ddrW'[s] = Whole(WeightOf(t))
           /\ staging' \in {None, WeightOf(t)}
           /\ staging' # None => src = s /\ ~Serial /\ shape.cols # 1
<1>1. /\ t \in Int /\ WeightOf(t) \in Int /\ Bank \in Banks /\ None \in Int
      /\ ddrW \in [Banks -> Pair] /\ ddrS \in [Banks -> Pair] /\ 0 \in Banks
  BY BankFacts, Numbers DEF Types, HostTypes, DataTypes, None, Banks
<1>2. PICK hit \in {FALSE, resident}, useSlots \in {FALSE, pipeline /\ shape.cols = 1} :
          LET s == IF useSlots THEN Bank ELSE 0
          IN /\ IF hit \/ ReuseDirect THEN UNCHANGED ddrW ELSE PackWeights(s)
             /\ PackScales(s)
             /\ jobs' = [jobs EXCEPT ![Bank] =
                            WithReuse(Job(t, IF hit THEN Window ELSE s, s))]
             /\ staging' = IF hit \/ Serial \/ shape.cols = 1 THEN None ELSE WeightOf(t)
  BY DEF PrepareDirect
<1>3. PICK s \in Banks : s = IF useSlots THEN Bank ELSE 0
  BY <1>1
<1>4. PICK src \in {s, Window} : src = IF hit THEN Window ELSE s
  OBVIOUS
<1>5. s = 0 \/ (s = Bank /\ pipeline /\ shape.cols = 1)
  BY <1>3
<1>6. jobs' = [jobs EXCEPT ![Bank] = WithReuse(Job(t, src, s))]
  BY <1>2, <1>3, <1>4, Zenon
<1>7. ddrS' = [ddrS EXCEPT ![s] = Whole(t)]
  BY <1>2, <1>3, Zenon DEF PackScales
<1>8. ddrS' \in [Banks -> Pair] /\ ddrS'[s] = Whole(t)
  BY <1>1, <1>7 DEF Whole, Pair
<1>9. \/ (src = Window \/ ReuseDirect) /\ ddrW' = ddrW
      \/ src = s /\ ddrW' = [ddrW EXCEPT ![s] = Whole(WeightOf(t))]
  BY <1>2, <1>3, <1>4, Zenon DEF PackWeights
<1>10. ddrW' \in [Banks -> Pair] /\ (ddrW' = [ddrW EXCEPT ![s] = Whole(WeightOf(t))] => ddrW'[s] = Whole(WeightOf(t)))
  BY <1>1, <1>9 DEF Whole, Pair
<1>11. staging' = IF hit \/ Serial \/ shape.cols = 1 THEN None ELSE WeightOf(t)
  BY <1>2, Zenon
<1>12. staging' \in {None, WeightOf(t)} /\ (staging' # None => src = s /\ ~Serial /\ shape.cols # 1)
  BY <1>4, <1>11
<1>13. src \in {0, 1, Window}
  BY DEF Banks
<1> QED
  BY <1>5, <1>6, <1>8, <1>9, <1>10, <1>12, <1>13

\* Every action keeps the types.
LEMMA TypesStep ==
  ASSUME Types, Owned, [Next]_vars
  PROVE  Types'
<1> USE DEF config, tally, hostVars, ddr, device
<1>1. ConfigTypes'
  BY ConfigFixed DEF Types, ConfigTypes, Serial
<1>2. /\ \A n \in Int : WeightOf(n) \in Int /\ ActOf(n) \in Int
      /\ t \in Nat /\ t \in Int /\ Bank \in Banks /\ look.tile \in Int /\ look.tile % 2 \in Banks
  BY Numbers DEF Types, HostTypes, Bank, Banks
<1>3. CASE Drain \/ AdmitNothing \/ Submit
  BY <1>3, <1>1, <1>2 DEF Drain, AdmitNothing, Submit, Types, HostTypes, DataTypes, Pcs
<1>4. CASE WeightDma \/ ScaleDma \/ ScaleDmaDone
  BY <1>4, <1>1, <1>2 DEF WeightDma, ScaleDma, ScaleDmaDone, Types, HostTypes, DataTypes, Pcs
<1>5. CASE Transition \/ FinalizeJoin \/ NothingToFinalize
  <2>1. CASE Transition
    BY <2>1, <1>1, <1>2 DEF Transition, Types, HostTypes, DataTypes, Pcs
  <2>2. CASE FinalizeJoin
    BY <2>2, <1>1, <1>2 DEF FinalizeJoin, Types, HostTypes, DataTypes, Pcs
  <2>3. CASE NothingToFinalize
    BY <2>3, <1>1, <1>2 DEF NothingToFinalize, Types, HostTypes, DataTypes, Pcs
  <2> QED
    BY <1>5, <2>1, <2>2, <2>3
<1>6. CASE Carry \/ DrainRow \/ StoreRows
  BY <1>6, <1>1, <1>2 DEF Carry, DrainRow, StoreRows, Types, HostTypes, DataTypes, Pcs
<1>7. CASE Return \/ VerifyTile \/ RetireTile
  BY <1>7, <1>1, <1>2 DEF Return, VerifyTile, RetireTile, Types, HostTypes, DataTypes, Pcs
<1>8. CASE CompleteBoundary \/ CallFails \/ Unwind
  <2>1. CASE CompleteBoundary
    BY <2>1, <1>1, <1>2, ZenonT(60) DEF CompleteBoundary, Types, HostTypes, DataTypes, Pcs
  <2>2. CASE CallFails
    BY <2>2, <1>1, <1>2, ZenonT(60) DEF CallFails, Types, HostTypes, DataTypes, Pcs
  <2>3. CASE Unwind
    BY <2>3, <1>1, <1>2, ZenonT(60) DEF Unwind, Types, HostTypes, DataTypes, Pcs
  <2> QED
    BY <1>8, <2>1, <2>2, <2>3
<1>9. CASE SpuFinal
  BY <1>9, <1>1, <1>2, SMTT(30) DEF SpuFinal, Types, HostTypes, DataTypes, Pcs
<1>10. CASE BeginRow
  <2>1. loaded' \in [Banks -> BOOLEAN] /\ staging' \in Int /\ pc' \in Pcs
    BY <1>10 DEF BeginRow, Banks, Pcs, None
  <2> QED
    BY <1>10, <1>1, <2>1 DEF BeginRow, Types, HostTypes, DataTypes
<1>11. CASE Consume
  <2>1. jobs' \in [Banks -> JobType]
    <3>1. CASE ConsumeValid
      BY <1>11, <1>2, <3>1, JobStored DEF Consume, Banks
    <3>2. CASE ~ConsumeValid
      BY <1>11, <3>2 DEF Consume, Types, HostTypes
    <3> QED
      BY <3>1, <3>2
  <2>2. look' \in [valid : BOOLEAN, submitted : BOOLEAN, tile : Int, main : Nat]
    BY <1>11 DEF Consume, Types, HostTypes
  <2>3. pc' \in Pcs
    BY <1>11 DEF Consume, AfterPrepare, Pcs
  <2> QED
    BY <1>11, <1>1, <2>1, <2>2, <2>3 DEF Consume, Types, HostTypes, DataTypes
<1>12. CASE PrepareDirect
  <2>1. jobs' \in [Banks -> JobType] /\ ddrW' \in [Banks -> Pair] /\ ddrS' \in [Banks -> Pair] /\ staging' \in Int
    BY <1>12, <1>2, DirectEffects, JobStored DEF None
  <2>2. pc' \in Pcs /\ ahead' \in BOOLEAN /\ ddrAct' \in Int
    BY <1>12, <1>2 DEF PrepareDirect, AfterPrepare, PackActivation, Pcs
  <2> QED
    BY <1>12, <1>1, <2>1, <2>2 DEF PrepareDirect, Types, HostTypes, DataTypes
<1>13. CASE OutDmaDone
  <2>1. running \in Banks
    BY <1>13 DEF OutDmaDone, Owned, Retiring, Types, HostTypes, Banks, NoJob
  <2>2. jobs' \in [Banks -> JobType]
    BY <1>13, <2>1, RetireEffects
  <2>3. pc' \in Pcs /\ running' \in {0, 1, NoJob}
    BY <1>13 DEF OutDmaDone, Pcs, Types, HostTypes
  <2> QED
    BY <1>13, <1>1, <2>2, <2>3 DEF OutDmaDone, Types, HostTypes, DataTypes
<1>14. CASE Release
  <2>1. running \in Banks
    BY <1>14 DEF Release, Owned, Retiring, Types, HostTypes, Banks, NoJob
  <2>2. jobs' \in [Banks -> JobType]
    BY <1>14, <2>1, RetireEffects
  <2>3. pc' \in Pcs /\ running' \in {0, 1, NoJob}
    BY <1>14 DEF Release, Pcs, Types, HostTypes
  <2> QED
    BY <1>14, <1>1, <2>2, <2>3 DEF Release, Types, HostTypes, DataTypes
<1>15. CASE AccumulateAndRelease
  <2>1. running \in Banks
    BY <1>15 DEF AccumulateAndRelease, Owned, Retiring, Types, HostTypes, Banks, NoJob
  <2>2. jobs' \in [Banks -> JobType]
    BY <1>15, <2>1, RetireEffects
  <2>3. pc' \in Pcs /\ running' \in {0, 1, NoJob}
    BY <1>15 DEF AccumulateAndRelease, Pcs, Types, HostTypes
  <2> QED
    BY <1>15, <1>1, <2>2, <2>3 DEF AccumulateAndRelease, Types, HostTypes, DataTypes
<1>16. CASE AccumulatePending
  <2>1. running \in Banks
    BY <1>16 DEF AccumulatePending, Owned, Retiring, Types, HostTypes, Banks, NoJob
  <2>2. jobs' \in [Banks -> JobType]
    BY <1>16, <2>1, RetireEffects
  <2>3. pc' \in Pcs /\ running' \in {0, 1, NoJob}
    BY <1>16 DEF AccumulatePending, Pcs, Types, HostTypes
  <2> QED
    BY <1>16, <1>1, <2>2, <2>3 DEF AccumulatePending, Types, HostTypes, DataTypes
<1>17. CASE PrepareActivation
  <2>1. Prepared.tile \in Int
    BY <1>2 DEF Types, HostTypes, JobType, Prepared
  <2>2. ddrAct' \in Int
    BY <1>17, <1>2, <2>1 DEF PrepareActivation, Types, DataTypes
  <2> QED
    BY <1>17, <1>1, <2>2 DEF PrepareActivation, Types, HostTypes, DataTypes, Pcs
<1>18. CASE Admit
  <2>1. /\ look' \in [valid : BOOLEAN, submitted : BOOLEAN, tile : Int, main : Nat]
        /\ helper' \in [state : {"idle", "working", "half", "done"}, tile : Int]
    <3>1. CASE look.submitted \/ helper.state # "idle"
      BY <1>18, <3>1 DEF Admit, Types, HostTypes, DataTypes
    <3>2. CASE ~(look.submitted \/ helper.state # "idle")
      <4>1. /\ look' = [valid |-> TRUE, submitted |-> TRUE, tile |-> t + 1, main |-> 0]
            /\ helper' = [state |-> "working", tile |-> t + 1]
        BY <1>18, <3>2 DEF Admit
      <4> QED
        BY <1>2, <4>1
    <3> QED
      BY <3>1, <3>2
  <2> QED
    BY <1>18, <1>1, <2>1 DEF Admit, Types, HostTypes, DataTypes, Pcs
<1>19. CASE ActDmaDone
  <2>1. bankA' \in [Banks -> Int]
    BY <1>19, <1>2 DEF ActDmaDone, Types, DataTypes
  <2> QED
    BY <1>19, <1>1, <2>1 DEF ActDmaDone, Types, HostTypes, DataTypes, Pcs
<1>20. CASE WeightDmaDone
  <2>1. WeightSource \in Pair
    BY <1>2 DEF WeightSource, Prepared, Types, HostTypes, DataTypes, JobType, Whole, Pair,
       Window, Banks
  <2>2. bankW' \in [Banks -> Pair]
    BY <1>20, <1>2, <2>1 DEF WeightDmaDone, Types, DataTypes
  <2> QED
    BY <1>20, <1>1, <2>2 DEF WeightDmaDone, Types, HostTypes, DataTypes, Pcs
<1>21. CASE Start
  <2>1. Prepared.tile \in Int /\ NoRaw \in Pair \X Int
    BY <1>2 DEF Types, HostTypes, JobType, Prepared, NoRaw, Whole, None, Pair
  <2>2. ip' \in [state : {"idle", "vpu", "spu", "final"}, bank : Banks, tile : Int, raw : Pair \X Int]
    BY <1>21, <1>2, <2>1 DEF Start
  <2>3. pc' \in Pcs /\ running' \in {0, 1, NoJob}
    BY <1>21, <1>2 DEF Start, Types, HostTypes, Pcs, Banks
  <2> QED
    BY <1>21, <1>1, <2>2, <2>3 DEF Start, Types, HostTypes, DataTypes
<1>22. CASE Poll
  <2>1. PackBatch
    BY <1>22 DEF Poll
  <2> QED
    BY <1>22, <1>1, <2>1, BatchEffects DEF Poll, Types, HostTypes, DataTypes
<1>23. CASE FinalizePack
  <2>1. PackBatch
    BY <1>23 DEF FinalizePack
  <2> QED
    BY <1>23, <1>1, <2>1, BatchEffects DEF FinalizePack, Types, HostTypes, DataTypes
<1>24. CASE Advance
  <2>1. loaded' \in [Banks -> BOOLEAN] /\ staging' \in Int /\ pc' \in Pcs
    <3>1. [loaded EXCEPT ![Bank] = TRUE] \in [Banks -> BOOLEAN] /\ [b \in {0, 1} |-> FALSE] \in [Banks -> BOOLEAN]
      BY <1>2 DEF Types, HostTypes, Banks
    <3>2. /\ loaded' \in {[loaded EXCEPT ![Bank] = TRUE], [b \in {0, 1} |-> FALSE]}
          /\ staging' \in {staging, None} /\ pc' \in {"rowEnd", "prepare"}
      BY <1>24 DEF Advance
    <3>3. staging \in Int /\ None \in Int
      BY DEF Types, HostTypes, None
    <3> QED
      BY <3>1, <3>2, <3>3 DEF Pcs
  <2> QED
    BY <1>24, <1>1, <1>2, <2>1 DEF Advance, Types, HostTypes, DataTypes, Banks
<1>25. CASE HelperBegin
  BY <1>25, <1>1, HelperEffects DEF HelperBegin, Types, HostTypes, DataTypes
<1>26. CASE HelperDone
  BY <1>26, <1>1, HelperEffects DEF HelperDone, Types, HostTypes, DataTypes
<1>27. CASE VpuDone
  <2>1. <<bankW[ip.bank], bankA[ip.bank]>> \in Pair \X Int
    BY DEF Types, DataTypes
  <2>2. ip' \in [state : {"idle", "vpu", "spu", "final"}, bank : Banks, tile : Int, raw : Pair \X Int]
    BY <1>27, <2>1 DEF VpuDone, Types, DataTypes
  <2> QED
    BY <1>27, <1>1, <2>2 DEF VpuDone, Types, HostTypes, DataTypes
<1>28. CASE UNCHANGED vars
  BY <1>28, <1>1, <1>2 DEF vars, Types, HostTypes, DataTypes, Pcs
<1> QED
  BY <1>3, <1>4, <1>5, <1>6, <1>7, <1>8, <1>9, <1>10, <1>11, <1>12, <1>13, <1>14, <1>15,
     <1>16, <1>17, <1>18, <1>19, <1>20, <1>21, <1>22, <1>23, <1>24, <1>25, <1>26, <1>27,
     <1>28 DEF Next, Host, Helper, Device, Finished

\* None of the scheduler's own checks finds anything wrong.
LEMMA ChecksHold ==
  ASSUME Types, Lookahead, Scheduled, Owned, Qualified
  PROVE  /\ pc = "prepare" /\ look.valid => ConsumeValid
         /\ pc = "drain" => ~(Runner.ready \/ Runner.released \/ Runner.consumed \/ ip.tile # Runner.tile)
         /\ pc = "release" => Runner.ready /\ ~Runner.released
         /\ pc = "accumulate" => Runner.ready /\ ~Runner.consumed /\ ~Runner.released
         /\ pc = "consume" => Runner.ready /\ ~Runner.consumed /\ Runner.released
         /\ pc = "admit" => ~(look.submitted \/ helper.state # "idle")
         /\ pc = "boundary" => desc.in = "FREE" /\ desc.out = "FREE"
         /\ pc = "row" /\ route = "contract" => ~(boundary \/ LimitReached)
         /\ pc \in Retiring \cup {"consume"} => running \in Banks
<1>1. pc \in Retiring \cup {"consume"} => running \in Banks
  BY DEF Types, HostTypes, Owned, NoJob, Banks
<1>2. pc = "prepare" /\ look.valid => ConsumeValid
  BY DEF Lookahead, ConsumeValid, Packing, Submitting
<1>3. pc = "drain" => ~(Runner.ready \/ Runner.released \/ Runner.consumed \/ ip.tile # Runner.tile)
  BY DEF Owned, Retiring, Between, Fresh, Runner
<1>4. /\ pc = "release" => Runner.ready /\ ~Runner.released
      /\ pc = "accumulate" => Runner.ready /\ ~Runner.consumed /\ ~Runner.released
      /\ pc = "consume" => Runner.ready /\ ~Runner.consumed /\ Runner.released
  BY DEF Owned, Retiring
<1>5. pc = "admit" => ~(look.submitted \/ helper.state # "idle")
  BY DEF Lookahead, Packing, Submitting
<1>6. pc = "row" /\ route = "contract" => ~(boundary \/ LimitReached)
  BY DEF Qualified, LimitReached, Types, HostTypes, ConfigTypes
<1> QED
  BY <1>1, <1>2, <1>3, <1>4, <1>5, <1>6 DEF Qualified

\* The lookahead and the helper go together through every step.
LEMMA LookaheadStep ==
  ASSUME Types, Types', Lookahead, Scheduled, Owned, Qualified, [Next]_vars
  PROVE  Lookahead'
<1> USE DEF config, tally, hostVars, ddr, device
<1>1. /\ UNCHANGED <<shape, overlap, pipeline, resident, route, limit>>
      /\ (Serial' <=> Serial) /\ Total' = Total /\ (t' = t => Bank' = Bank)
  BY ConfigFixed DEF Bank, Serial, Total
<1>2. /\ Bank \in Banks /\ t \in Nat /\ (~Serial => (t + 1) % 2 = 1 - Bank) /\ (Serial => Bank = 0)
      /\ pc \in Pcs /\ jobs \in [Banks -> JobType] /\ (Serial => ~overlap /\ ~pipeline)
  BY BankFacts DEF Types, HostTypes, ConfigTypes
<1>3. t' \in Nat /\ Bank' \in Banks
  <2>1. t' \in Nat
    BY DEF Types, HostTypes
  <2>2. \A n \in Nat : n % 2 \in Banks /\ 0 \in Banks
    BY DEF Banks
  <2> QED
    BY <2>1, <2>2 DEF Bank
<1>4. CASE BeginRow \/ PrepareDirect \/ Release
  BY <1>4, <1>1, <1>2 DEF BeginRow, PrepareDirect, Release, Lookahead, Prepared, Submitting,
     Packing, Between
<1>5. CASE PrepareActivation \/ AdmitNothing \/ Submit
  BY <1>5, <1>1, <1>2 DEF PrepareActivation, AdmitNothing, Submit, Lookahead, Prepared,
     Submitting, Packing, Between
<1>6. CASE ActDmaDone \/ WeightDma \/ WeightDmaDone
  BY <1>6, <1>1, <1>2 DEF ActDmaDone, WeightDma, WeightDmaDone, Lookahead, Prepared,
     Submitting, Packing, Between
<1>7. CASE ScaleDma \/ ScaleDmaDone \/ Start
  BY <1>7, <1>1, <1>2 DEF ScaleDma, ScaleDmaDone, Start, Lookahead, Prepared, Submitting,
     Packing, Between
<1>8. CASE Transition \/ NothingToFinalize \/ Carry
  BY <1>8, <1>1, <1>2 DEF Transition, NothingToFinalize, Carry, Lookahead, Prepared,
     Submitting, Packing, Between
<1>9. CASE DrainRow \/ StoreRows \/ Return
  BY <1>9, <1>1, <1>2 DEF DrainRow, StoreRows, Return, Lookahead, Prepared, Submitting,
     Packing, Between
<1>10. CASE VerifyTile \/ RetireTile \/ CompleteBoundary
  BY <1>10, <1>1, <1>2 DEF VerifyTile, RetireTile, CompleteBoundary, Lookahead, Prepared,
     Submitting, Packing, Between
<1>11. CASE Consume
  <2>1. ConsumeValid
    BY <1>11, ChecksHold DEF Consume
  <2>2. ~look.submitted /\ look'.valid = FALSE /\ look'.submitted = look.submitted /\ helper' = helper
    BY <1>11, <2>1 DEF Consume, ConsumeValid, Types, HostTypes
  <2> QED
    BY <2>2 DEF Lookahead
<1>12. CASE Drain
  <2>1. pc = "drain" /\ pc' = "outDma"
    BY <1>12, ChecksHold DEF Drain
  <2> QED
    BY <1>12, <1>1, <1>2, <2>1 DEF Drain, Lookahead, Prepared, Submitting, Packing, Between
<1>13. CASE OutDmaDone
  <2>1. running \in Banks
    BY <1>13, ChecksHold DEF OutDmaDone, Retiring
  <2>2. \A b \in Banks : jobs'[b].tile = jobs[b].tile
    BY <1>13, <2>1, RetireEffects
  <2>3. pc = "outDma" /\ UNCHANGED <<look, helper, t>>
    BY <1>13 DEF OutDmaDone
  <2>4. look.valid => pc' = "accumulate"
    <3>1. look.valid => Prepared.tile # t /\ pipeline
      BY <2>3 DEF Lookahead, Prepared, Submitting, Packing, Between
    <3> QED
      BY <1>13, <1>2, <3>1 DEF OutDmaDone, Handoff, Serial
  <2> QED
    BY <1>1, <1>2, <2>2, <2>3, <2>4 DEF Lookahead, Prepared, Submitting, Packing, Between
<1>14. CASE AccumulateAndRelease
  <2>1. running \in Banks /\ Runner.ready /\ ~Runner.consumed /\ ~Runner.released
    BY <1>14, ChecksHold DEF AccumulateAndRelease, Retiring
  <2>2. \A b \in Banks : jobs'[b].tile = jobs[b].tile
    BY <1>14, <2>1, RetireEffects
  <2>3. pc = "accumulate" /\ UNCHANGED <<look, helper, t>>
    BY <1>14 DEF AccumulateAndRelease
  <2>4. look.valid => pc' = "store"
    <3>1. look.valid => Prepared.tile # t /\ pipeline
      BY <2>3 DEF Lookahead, Prepared, Submitting, Packing, Between
    <3> QED
      BY <1>14, <1>2, <2>1, <3>1 DEF AccumulateAndRelease, Handoff
  <2> QED
    BY <1>1, <1>2, <2>2, <2>3, <2>4 DEF Lookahead, Prepared, Submitting, Packing, Between
<1>15. CASE AccumulatePending
  <2>1. running \in Banks /\ Runner.ready /\ ~Runner.consumed /\ Runner.released
    BY <1>15, ChecksHold DEF AccumulatePending, Retiring
  <2>2. \A b \in Banks : jobs'[b].src = jobs[b].src /\ jobs'[b].slot = jobs[b].slot
    BY <1>15, <2>1, RetireEffects
  <2>3. pc = "consume" /\ pc' = "transition" /\ UNCHANGED <<look, helper, t>>
    BY <1>15, <2>1 DEF AccumulatePending
  <2> QED
    BY <1>1, <1>2, <2>2, <2>3 DEF Lookahead, Prepared, Submitting, Packing, Between
<1>16. CASE Admit
  <2>1. ~(look.submitted \/ helper.state # "idle")
    BY <1>16, ChecksHold DEF Admit
  <2>2. /\ look' = [valid |-> TRUE, submitted |-> TRUE, tile |-> t + 1, main |-> 0]
        /\ helper' = [state |-> "working", tile |-> t + 1] /\ pc' = "submit" /\ UNCHANGED <<t, jobs>>
    BY <1>16, <2>1 DEF Admit
  <2>3. /\ look'.valid /\ look'.submitted /\ look'.tile = t + 1 /\ look'.main = 0
        /\ helper'.state # "idle" /\ helper'.tile = t + 1
    BY <2>2
  <2>4. pipeline /\ shape.cols = 1 /\ Prepared.src = Bank /\ t + 1 < Total /\ Prepared.slot = Bank
    <3>1. Prepared.src \in {Prepared.slot, Window} /\ Window \notin Banks
      BY <1>2 DEF Scheduled, Prepared, Window, Banks
    <3> QED
      BY <1>16, <1>2, <3>1 DEF Admit, Admissible
  <2> QED
    BY <1>1, <1>2, <2>2, <2>3, <2>4, PipelineAssumption DEF Lookahead, Prepared, Submitting,
       Packing, Between
<1>17. CASE Poll
  <2>1. PackBatch /\ look.valid /\ look.main < MainBatches /\ UNCHANGED <<pc, t, jobs, helper>>
    BY <1>17 DEF Poll
  <2>2. /\ look'.valid = look.valid /\ look'.submitted = look.submitted
        /\ look'.tile = look.tile /\ look'.main = look.main + 1
    BY <2>1, BatchEffects
  <2>3. look.main \in Nat /\ MainBatches \in Nat
    BY PipelineAssumption DEF Types, HostTypes
  <2>4. look.main + 1 <= MainBatches /\ look.main # MainBatches
    BY <2>1, <2>3
  <2> QED
    BY <1>17, <1>1, <1>2, <2>1, <2>2, <2>4 DEF Poll, Lookahead, Prepared, Submitting,
       Packing, Between
<1>18. CASE FinalizePack
  <2>1. PackBatch /\ look.valid /\ look.main < MainBatches /\ UNCHANGED <<pc, t, jobs, helper>>
    BY <1>18 DEF FinalizePack
  <2>2. /\ look'.valid = look.valid /\ look'.submitted = look.submitted
        /\ look'.tile = look.tile /\ look'.main = look.main + 1
    BY <2>1, BatchEffects
  <2>3. look.main \in Nat /\ MainBatches \in Nat
    BY PipelineAssumption DEF Types, HostTypes
  <2>4. look.main + 1 <= MainBatches /\ look.main # MainBatches
    BY <2>1, <2>3
  <2> QED
    BY <1>18, <1>1, <1>2, <2>1, <2>2, <2>4 DEF FinalizePack, Lookahead, Prepared,
       Submitting, Packing, Between
<1>19. CASE FinalizeJoin
  BY <1>19, <1>1, <1>2 DEF FinalizeJoin, Lookahead, Prepared, Submitting, Packing, Between
<1>20. CASE Advance
  <2>1. pc = "advance" /\ t' = t + 1 /\ pc' \in Between /\ UNCHANGED <<look, helper, jobs>>
    BY <1>20 DEF Advance, Between
  <2>2. jobs[Bank'].tile <= t /\ jobs[Bank'].tile \in Int
    BY <1>2, <1>3 DEF Scheduled, JobType
  <2>3. Prepared'.tile # t'
    BY <1>2, <2>1, <2>2 DEF Prepared
  <2>4. look.valid => look.tile = t + 1 /\ ~look.submitted /\ look.main = MainBatches
    BY <2>1 DEF Lookahead, Prepared, Submitting, Packing, Between
  <2>5. ~look.submitted
    BY <2>1 DEF Lookahead, Prepared, Submitting, Packing, Between
  <2> QED
    BY <1>1, <2>1, <2>3, <2>4, <2>5 DEF Lookahead
<1>21. CASE CallFails
  BY <1>21, <1>1, <1>2 DEF CallFails, Lookahead, Prepared, Submitting, Packing, Between
<1>22. CASE Unwind
  <2>1. pc = "unwind" /\ look \in [valid : BOOLEAN, submitted : BOOLEAN, tile : Int, main : Nat]
    BY <1>22 DEF Unwind, Types, HostTypes
  <2>2. ~look.valid
    BY <2>1 DEF Lookahead, Prepared, Submitting, Packing, Between
  <2>3. ~look'.submitted /\ ~look'.valid /\ helper'.state = "idle"
    <3>1. CASE look.submitted
      <4>1. helper' = [helper EXCEPT !.state = "idle"] /\ look' = [look EXCEPT !.submitted = FALSE]
        BY <1>22, <3>1 DEF Unwind
      <4> QED
        BY <2>1, <2>2, <4>1 DEF Types, DataTypes
    <3>2. CASE ~look.submitted
      BY <1>22, <2>2, <3>2 DEF Unwind, Lookahead
    <3> QED
      BY <3>1, <3>2
  <2> QED
    BY <2>3 DEF Lookahead
<1>23. CASE HelperBegin
  BY <1>23, <1>1, <1>2 DEF HelperBegin, Lookahead, Prepared, Submitting, Packing, Between
<1>24. CASE HelperDone
  BY <1>24, <1>1, <1>2 DEF HelperDone, Lookahead, Prepared, Submitting, Packing, Between
<1>25. CASE VpuDone
  BY <1>25, <1>1, <1>2 DEF VpuDone, Lookahead, Prepared, Submitting, Packing, Between
<1>26. CASE SpuFinal
  BY <1>26, <1>1, <1>2 DEF SpuFinal, Lookahead, Prepared, Submitting, Packing, Between
<1>27. CASE UNCHANGED vars
  BY <1>27, <1>1, <1>2 DEF vars, Lookahead, Prepared, Submitting, Packing, Between
<1> QED
  BY <1>4, <1>5, <1>6, <1>7, <1>8, <1>9, <1>10, <1>11, <1>12, <1>13, <1>14, <1>15, <1>16,
     <1>17, <1>18, <1>19, <1>20, <1>21, <1>22, <1>23, <1>24, <1>25, <1>26, <1>27 DEF Next,
     Host, Helper, Device, Finished

\* The jobs stay those of this tile and of the ones before it.
LEMMA ScheduledStep ==
  ASSUME Types, Types', Lookahead, Scheduled, Owned, Qualified, [Next]_vars
  PROVE  Scheduled'
<1> USE DEF config, tally, hostVars, ddr, device
<1>1. /\ UNCHANGED <<shape, overlap, pipeline, resident, route, limit>>
      /\ (Serial' <=> Serial) /\ Total' = Total /\ (t' = t => Bank' = Bank)
  BY ConfigFixed DEF Bank, Serial, Total
<1>2. /\ Bank \in Banks /\ t \in Nat /\ (~Serial => (t + 1) % 2 = 1 - Bank) /\ (Serial => Bank = 0)
      /\ pc \in Pcs /\ jobs \in [Banks -> JobType] /\ (Serial => ~overlap /\ ~pipeline)
  BY BankFacts DEF Types, HostTypes, ConfigTypes
<1>3. t' \in Nat /\ Bank' \in Banks
  <2>1. t' \in Nat
    BY DEF Types, HostTypes
  <2>2. \A n \in Nat : n % 2 \in Banks /\ 0 \in Banks
    BY DEF Banks
  <2> QED
    BY <2>1, <2>2 DEF Bank
<1>4. CASE BeginRow \/ Drain \/ PrepareActivation \/ Admit \/ AdmitNothing \/ Submit
  BY <1>4, <1>1, <1>2, <1>3 DEF BeginRow, Drain, PrepareActivation, Admit, AdmitNothing,
     Submit, Scheduled, Prepared, Fresh, Submitting, Packing, InTile, Between, Retiring
<1>5. CASE ActDmaDone \/ WeightDma \/ WeightDmaDone \/ ScaleDma \/ ScaleDmaDone \/ Start
  BY <1>5, <1>1, <1>2, <1>3 DEF ActDmaDone, WeightDma, WeightDmaDone, ScaleDma,
     ScaleDmaDone, Start, Scheduled, Prepared, Fresh, Submitting, Packing, InTile, Between,
     Retiring
<1>6. CASE Poll \/ Transition \/ FinalizePack \/ FinalizeJoin \/ NothingToFinalize \/ Carry
  BY <1>6, <1>1, <1>2, <1>3 DEF Poll, Transition, FinalizePack, FinalizeJoin,
     NothingToFinalize, Carry, Scheduled, Prepared, Fresh, Submitting, Packing, InTile,
     Between, Retiring
<1>7. CASE StoreRows \/ Return \/ VerifyTile \/ CompleteBoundary \/ CallFails \/ Unwind
  BY <1>7, <1>1, <1>2, <1>3 DEF StoreRows, Return, VerifyTile, CompleteBoundary, CallFails,
     Unwind, Scheduled, Prepared, Fresh, Submitting, Packing, InTile, Between, Retiring
<1>8. CASE HelperBegin \/ HelperDone \/ VpuDone \/ SpuFinal
  BY <1>8, <1>1, <1>2, <1>3 DEF HelperBegin, HelperDone, VpuDone, SpuFinal, Scheduled,
     Prepared, Fresh, Submitting, Packing, InTile, Between, Retiring
<1>9. CASE Consume
  <2>1. ConsumeValid /\ pipeline
    BY <1>9, ChecksHold DEF Consume, Lookahead
  <2>2. look.tile = t /\ ~Serial /\ look.tile % 2 = Bank /\ t \in Int
    BY <1>2, <2>1, BankFacts DEF ConsumeValid
  <2>3. jobs' = [jobs EXCEPT ![Bank] = WithReuse(Job(t, Bank, Bank))] /\ t' = t /\ Bank \in {0, 1, Window}
    BY <1>9, <1>2, <2>1, <2>2 DEF Consume, Banks
  <2>4. /\ jobs'[Bank].tile = t /\ jobs'[Bank].src = Bank /\ jobs'[Bank].slot = Bank
        /\ ~jobs'[Bank].ready /\ ~jobs'[Bank].released /\ ~jobs'[Bank].consumed
        /\ \A b \in Banks : b # Bank => jobs'[b] = jobs[b]
    BY <1>2, <2>2, <2>3, JobStored, ZenonT(60)
  <2>5. pc' \in {"activation", "drain"}
    BY <1>9, <2>1, <2>2 DEF Consume, AfterPrepare
  <2> QED
    BY <1>1, <1>2, <2>2, <2>3, <2>4, <2>5 DEF Scheduled, Prepared, Fresh, Submitting,
       Packing, InTile, Between, Retiring
<1>10. CASE PrepareDirect
  <2>1. t' = t /\ t \in Int /\ pc' \in {"submit", "activation", "drain"} /\ (Serial => pc' = "submit")
    BY <1>10, <1>2 DEF PrepareDirect, AfterPrepare
  <2>2. PICK s \in Banks, src \in {0, 1, Window} :
           src \in {s, Window} /\ jobs' = [jobs EXCEPT ![Bank] = WithReuse(Job(t, src, s))]
    BY <1>10, DirectEffects
  <2>3. /\ jobs'[Bank].tile = t /\ jobs'[Bank].src = src /\ jobs'[Bank].slot = s
        /\ ~jobs'[Bank].ready /\ ~jobs'[Bank].released /\ ~jobs'[Bank].consumed
        /\ \A b \in Banks : b # Bank => jobs'[b] = jobs[b]
    BY <2>1, <2>2, JobStored
  <2> QED
    BY <1>1, <1>2, <2>1, <2>2, <2>3 DEF Scheduled, Prepared, Fresh, Submitting, Packing,
       InTile, Between, Retiring
<1>11. CASE OutDmaDone
  <2>1. pc = "outDma" /\ t' = t /\ running \in Banks
    BY <1>11, ChecksHold DEF OutDmaDone, Retiring
  <2>2. \A b \in Banks : /\ jobs'[b].tile = jobs[b].tile /\ jobs'[b].src = jobs[b].src
                         /\ jobs'[b].slot = jobs[b].slot /\ (b # running => jobs'[b] = jobs[b])
    BY <1>11, <2>1, RetireEffects
  <2>3. ~Serial => running # Bank
    BY <1>2, <2>1 DEF Owned, Banks, NoJob
  <2>4. pc' \in {"verify", "release", "accumulate"} /\ (pc' = "release" => Prepared.tile = t /\ ~Serial)
    BY <1>11, <1>2, <2>1 DEF OutDmaDone, Handoff
  <2> QED
    BY <1>1, <1>2, <2>1, <2>2, <2>3, <2>4 DEF Scheduled, Prepared, Fresh, Submitting,
       Packing, InTile, Between, Retiring
<1>12. CASE Release
  <2>1. pc = "release" /\ t' = t /\ running \in Banks
    BY <1>12, ChecksHold DEF Release, Retiring
  <2>2. \A b \in Banks : /\ jobs'[b].tile = jobs[b].tile /\ jobs'[b].src = jobs[b].src
                         /\ jobs'[b].slot = jobs[b].slot /\ (b # running => jobs'[b] = jobs[b])
    BY <1>12, <2>1, RetireEffects
  <2>3. ~Serial => running # Bank
    BY <1>2, <2>1 DEF Owned, Banks, NoJob
  <2>4. pc' = "activation" /\ ~Serial
    BY <1>12, <2>1, ChecksHold DEF Release, Owned
  <2> QED
    BY <1>1, <1>2, <2>1, <2>2, <2>3, <2>4 DEF Scheduled, Prepared, Fresh, Submitting,
       Packing, InTile, Between, Retiring
<1>13. CASE AccumulateAndRelease
  <2>1. pc = "accumulate" /\ t' = t /\ running \in Banks
    BY <1>13, ChecksHold DEF AccumulateAndRelease, Retiring
  <2>2. \A b \in Banks : /\ jobs'[b].tile = jobs[b].tile /\ jobs'[b].src = jobs[b].src
                         /\ jobs'[b].slot = jobs[b].slot /\ (b # running => jobs'[b] = jobs[b])
    BY <1>13, <2>1, RetireEffects
  <2>3. ~Serial => running # Bank
    BY <1>2, <2>1 DEF Owned, Banks, NoJob
  <2>4. \/ pc' = "activation" /\ Prepared.tile = t /\ ~Serial
        \/ pc' = "retire" /\ Serial
        \/ pc' = "store" /\ Prepared.tile # t /\ ~Serial
    BY <1>13, <2>1, ChecksHold DEF AccumulateAndRelease, Handoff
  <2> QED
    BY <1>1, <1>2, <2>1, <2>2, <2>3, <2>4 DEF Scheduled, Prepared, Fresh, Submitting,
       Packing, InTile, Between, Retiring
<1>14. CASE AccumulatePending
  <2>1. pc = "consume" /\ t' = t /\ running \in Banks
    BY <1>14, ChecksHold DEF AccumulatePending, Retiring
  <2>2. \A b \in Banks : /\ jobs'[b].tile = jobs[b].tile /\ jobs'[b].src = jobs[b].src
                         /\ jobs'[b].slot = jobs[b].slot /\ (b # running => jobs'[b] = jobs[b])
    BY <1>14, <2>1, RetireEffects
  <2>3. ~Serial => running # Bank
    BY <1>2, <2>1 DEF Owned, Banks, NoJob
  <2>4. pc' = "transition" /\ ~Serial
    BY <1>14, <2>1, ChecksHold DEF AccumulatePending, Owned
  <2> QED
    BY <1>1, <1>2, <2>1, <2>2, <2>3, <2>4 DEF Scheduled, Prepared, Fresh, Submitting,
       Packing, InTile, Between, Retiring
<1>15. CASE Advance
  <2>1. t' = t + 1 /\ pc' \in {"rowEnd", "prepare"} /\ jobs' = jobs
    BY <1>15 DEF Advance
  <2>2. \A b \in Banks : jobs[b].tile \in Int
    BY <1>2 DEF JobType
  <2>3. \A b \in Banks : jobs'[b].tile <= t' /\ jobs'[b].tile # t'
    BY <1>2, <2>1, <2>2 DEF Scheduled
  <2> QED
    BY <1>3, <2>1, <2>3 DEF Scheduled, Prepared, Fresh, Submitting, Packing, InTile,
       Between, Retiring
<1>16. CASE DrainRow
  <2>1. ~Serial
    BY <1>16 DEF DrainRow, Owned
  <2> QED
    BY <1>16, <1>1, <1>2, <1>3, <2>1 DEF DrainRow, Scheduled, Prepared, Fresh, Submitting,
       Packing, InTile, Between, Retiring
<1>17. CASE RetireTile
  <2>1. pc = "retire" /\ Serial /\ jobs' = jobs
    BY <1>17 DEF RetireTile, Owned
  <2>2. CASE t' = t /\ pc' = "boundary"
    BY <1>1, <1>2, <2>1, <2>2 DEF Scheduled, Prepared, Fresh, Submitting, Packing, InTile,
       Between, Retiring
  <2>3. CASE t' = t + 1 /\ pc' \in {"store", "prepare"}
    <3>1. \A b \in Banks : jobs[b].tile \in Int
      BY <1>2 DEF JobType
    <3>2. \A b \in Banks : jobs'[b].tile <= t' /\ jobs'[b].tile # t'
      BY <1>2, <2>1, <2>3, <3>1 DEF Scheduled
    <3> QED
      BY <1>1, <1>3, <2>1, <2>3, <3>2 DEF Scheduled, Prepared, Fresh, Submitting, Packing,
         InTile, Between, Retiring
  <2> QED
    BY <1>17, <2>2, <2>3 DEF RetireTile
<1>18. CASE UNCHANGED vars
  BY <1>18, <1>1, <1>2, <1>3 DEF vars, Scheduled, Prepared, Fresh, Submitting, Packing,
     InTile, Between, Retiring
<1> QED
  BY <1>4, <1>5, <1>6, <1>7, <1>8, <1>9, <1>10, <1>11, <1>12, <1>13, <1>14, <1>15, <1>16,
     <1>17, <1>18 DEF Next, Host, Helper, Device, Finished

\* The accelerator rests from the drain to the next START.
LEMMA QuietStep ==
  ASSUME Types, Types', Lookahead, Scheduled, Owned, Quiet, Qualified, [Next]_vars
  PROVE  Quiet'
<1> USE DEF config, tally, hostVars, ddr, device
<1>1. /\ UNCHANGED <<shape, overlap, pipeline, resident, route, limit>>
      /\ (Serial' <=> Serial) /\ Total' = Total /\ (t' = t => Bank' = Bank)
  BY ConfigFixed DEF Bank, Serial, Total
<1>2. /\ Bank \in Banks /\ t \in Nat /\ (~Serial => (t + 1) % 2 = 1 - Bank) /\ (Serial => Bank = 0)
      /\ pc \in Pcs /\ jobs \in [Banks -> JobType] /\ (Serial => ~overlap /\ ~pipeline)
  BY BankFacts DEF Types, HostTypes, ConfigTypes
<1>3. t' \in Nat /\ Bank' \in Banks
  <2>1. t' \in Nat
    BY DEF Types, HostTypes
  <2>2. \A n \in Nat : n % 2 \in Banks /\ 0 \in Banks
    BY DEF Banks
  <2> QED
    BY <2>1, <2>2 DEF Bank
<1>4. CASE BeginRow \/ Drain \/ OutDmaDone \/ Release \/ AccumulateAndRelease
          \/ AccumulatePending
  BY <1>4, <1>1, <1>2, <1>3 DEF BeginRow, Drain, OutDmaDone, Release, AccumulateAndRelease,
     AccumulatePending, Quiet, Submitting, Retiring, Between
<1>5. CASE PrepareActivation \/ Admit \/ AdmitNothing \/ Submit \/ ActDmaDone \/ WeightDma
  BY <1>5, <1>1, <1>2, <1>3 DEF PrepareActivation, Admit, AdmitNothing, Submit, ActDmaDone,
     WeightDma, Quiet, Submitting, Retiring, Between
<1>6. CASE WeightDmaDone \/ ScaleDma \/ ScaleDmaDone \/ Start \/ Poll \/ Transition
  BY <1>6, <1>1, <1>2, <1>3 DEF WeightDmaDone, ScaleDma, ScaleDmaDone, Start, Poll,
     Transition, Quiet, Submitting, Retiring, Between
<1>7. CASE FinalizePack \/ FinalizeJoin \/ NothingToFinalize \/ DrainRow \/ StoreRows
          \/ Return
  BY <1>7, <1>1, <1>2, <1>3 DEF FinalizePack, FinalizeJoin, NothingToFinalize, DrainRow,
     StoreRows, Return, Quiet, Submitting, Retiring, Between
<1>8. CASE VerifyTile \/ RetireTile \/ CompleteBoundary \/ CallFails \/ Unwind
          \/ HelperBegin
  BY <1>8, <1>1, <1>2, <1>3 DEF VerifyTile, RetireTile, CompleteBoundary, CallFails, Unwind,
     HelperBegin, Quiet, Submitting, Retiring, Between
<1>9. CASE HelperDone \/ VpuDone \/ SpuFinal
  BY <1>9, <1>1, <1>2, <1>3 DEF HelperDone, VpuDone, SpuFinal, Quiet, Submitting, Retiring, Between
<1>10. CASE Consume
  <2>1. ConsumeValid
    BY <1>10, ChecksHold DEF Consume
  <2>2. Serial => running = NoJob
    BY <1>10 DEF Consume, Owned
  <2> QED
    BY <1>10, <1>1, <2>1, <2>2 DEF Consume, AfterPrepare, Quiet, Submitting
<1>11. CASE PrepareDirect
  <2>1. Serial => running = NoJob
    BY <1>11 DEF PrepareDirect, Owned
  <2> QED
    BY <1>11, <1>1, <2>1 DEF PrepareDirect, AfterPrepare, Quiet, Submitting
<1>12. CASE Advance
  <2>1. pc' \in {"rowEnd", "prepare"} /\ running' # NoJob
    BY <1>12, <1>2 DEF Advance, Banks, NoJob
  <2> QED
    BY <2>1 DEF Quiet, Submitting
<1>13. CASE Carry
  <2>1. pc' = "row" /\ running' # NoJob
    BY <1>13 DEF Carry, Owned
  <2> QED
    BY <2>1 DEF Quiet, Submitting
<1>14. CASE UNCHANGED vars
  BY <1>14, <1>1, <1>2, <1>3 DEF vars, Quiet, Submitting, Retiring, Between
<1> QED
  BY <1>4, <1>5, <1>6, <1>7, <1>8, <1>9, <1>10, <1>11, <1>12, <1>13, <1>14 DEF Next, Host,
     Helper, Device, Finished

\* A qualification goes on only below its limit.
LEMMA QualifiedStep ==
  ASSUME Types, Types', Lookahead, Scheduled, Owned, Qualified, [Next]_vars
  PROVE  Qualified'
<1> USE DEF config, tally, hostVars, ddr, device
<1>1. /\ UNCHANGED <<shape, overlap, pipeline, resident, route, limit>>
      /\ (Serial' <=> Serial) /\ Total' = Total /\ (t' = t => Bank' = Bank)
  BY ConfigFixed DEF Bank, Serial, Total
<1>2. /\ Bank \in Banks /\ t \in Nat /\ (~Serial => (t + 1) % 2 = 1 - Bank) /\ (Serial => Bank = 0)
      /\ pc \in Pcs /\ jobs \in [Banks -> JobType] /\ (Serial => ~overlap /\ ~pipeline)
  BY BankFacts DEF Types, HostTypes, ConfigTypes
<1>3. t' \in Nat /\ Bank' \in Banks
  <2>1. t' \in Nat
    BY DEF Types, HostTypes
  <2>2. \A n \in Nat : n % 2 \in Banks /\ 0 \in Banks
    BY DEF Banks
  <2> QED
    BY <2>1, <2>2 DEF Bank
<1>4. CASE BeginRow \/ Drain \/ OutDmaDone \/ Release \/ AccumulatePending
          \/ PrepareActivation
  BY <1>4, <1>1, <1>2, <1>3 DEF BeginRow, Drain, OutDmaDone, Release, AccumulatePending,
     PrepareActivation, Qualified
<1>5. CASE Admit \/ AdmitNothing \/ Submit \/ ActDmaDone \/ WeightDma \/ WeightDmaDone
  BY <1>5, <1>1, <1>2, <1>3 DEF Admit, AdmitNothing, Submit, ActDmaDone, WeightDma,
     WeightDmaDone, Qualified
<1>6. CASE ScaleDma \/ ScaleDmaDone \/ Start \/ Poll \/ Transition \/ FinalizePack
  BY <1>6, <1>1, <1>2, <1>3 DEF ScaleDma, ScaleDmaDone, Start, Poll, Transition,
     FinalizePack, Qualified
<1>7. CASE FinalizeJoin \/ NothingToFinalize \/ Advance \/ Carry \/ DrainRow \/ StoreRows
  BY <1>7, <1>1, <1>2, <1>3 DEF FinalizeJoin, NothingToFinalize, Advance, Carry, DrainRow,
     StoreRows, Qualified
<1>8. CASE Return \/ VerifyTile \/ CompleteBoundary \/ CallFails \/ Unwind \/ HelperBegin
  BY <1>8, <1>1, <1>2, <1>3 DEF Return, VerifyTile, CompleteBoundary, CallFails, Unwind,
     HelperBegin, Qualified
<1>9. CASE HelperDone \/ VpuDone \/ SpuFinal
  BY <1>9, <1>1, <1>2, <1>3 DEF HelperDone, VpuDone, SpuFinal, Qualified
<1>10. CASE Consume
  <2>1. ConsumeValid
    BY <1>10, ChecksHold DEF Consume
  <2> QED
    BY <1>10, <1>1, <2>1 DEF Consume, AfterPrepare, Qualified
<1>11. CASE PrepareDirect
  BY <1>11, <1>1 DEF PrepareDirect, AfterPrepare, Qualified
<1>12. CASE AccumulateAndRelease
  <2>1. Runner.ready /\ ~Runner.consumed /\ ~Runner.released
    BY <1>12, ChecksHold DEF AccumulateAndRelease
  <2>2. pc = "accumulate" /\ pc' \in {"activation", "retire", "store"} /\ UNCHANGED <<checked, boundary>>
        /\ (pc' = "retire" <=> Serial) /\ desc' = [tile |-> Runner.tile, in |-> "FREE", out |-> "FREE"]
    BY <1>12, <2>1 DEF AccumulateAndRelease, SetDesc
  <2>3. pc' # "retire" => route # "contract"
    BY <2>2 DEF Serial
  <2> QED
    BY <1>1, <2>2, <2>3 DEF Qualified
<1>13. CASE RetireTile
  <2>1. pc = "retire" /\ UNCHANGED <<checked, boundary, desc>>
    BY <1>13 DEF RetireTile
  <2>2. CASE route = "contract" /\ LimitReached
    BY <1>13, <1>1, <2>1, <2>2 DEF RetireTile, Qualified
  <2>3. CASE ~(route = "contract" /\ LimitReached)
    <3>1. pc' \in {"store", "prepare"} /\ (route = "contract" => checked < limit)
      BY <1>13, <2>3 DEF RetireTile, LimitReached, Types, HostTypes, ConfigTypes
    <3> QED
      BY <1>1, <2>1, <3>1 DEF Qualified
  <2> QED
    BY <2>2, <2>3
<1>14. CASE UNCHANGED vars
  BY <1>14, <1>1, <1>2, <1>3 DEF vars, Qualified
<1> QED
  BY <1>4, <1>5, <1>6, <1>7, <1>8, <1>9, <1>10, <1>11, <1>12, <1>13, <1>14 DEF Next, Host,
     Helper, Device, Finished

\* The running job and the owner of its result stay what the schedule says.
LEMMA OwnedStep ==
  ASSUME Types, Types', Lookahead, Scheduled, Owned, Qualified, [Next]_vars
  PROVE  Owned'
<1> USE DEF config, tally, hostVars, ddr, device
<1>1. /\ UNCHANGED <<shape, overlap, pipeline, resident, route, limit>>
      /\ (Serial' <=> Serial) /\ Total' = Total /\ (t' = t => Bank' = Bank)
  BY ConfigFixed DEF Bank, Serial, Total
<1>2. /\ Bank \in Banks /\ t \in Nat /\ (~Serial => (t + 1) % 2 = 1 - Bank) /\ (Serial => Bank = 0)
      /\ pc \in Pcs /\ jobs \in [Banks -> JobType] /\ (Serial => ~overlap /\ ~pipeline)
  BY BankFacts DEF Types, HostTypes, ConfigTypes
<1>3. t' \in Nat /\ Bank' \in Banks
  <2>1. t' \in Nat
    BY DEF Types, HostTypes
  <2>2. \A n \in Nat : n % 2 \in Banks /\ 0 \in Banks
    BY DEF Banks
  <2> QED
    BY <2>1, <2>2 DEF Bank
<1>4. CASE BeginRow \/ Drain \/ AccumulatePending \/ PrepareActivation
  BY <1>4, <1>1, <1>2, <1>3 DEF BeginRow, Drain, AccumulatePending, PrepareActivation,
     Owned, Runner, Prepared, Fresh, Submitting, Retiring, Between, NoJob
<1>5. CASE Admit \/ AdmitNothing \/ Submit \/ ActDmaDone
  BY <1>5, <1>1, <1>2, <1>3 DEF Admit, AdmitNothing, Submit, ActDmaDone, Owned, Runner,
     Prepared, Fresh, Submitting, Retiring, Between, NoJob
<1>6. CASE WeightDma \/ WeightDmaDone \/ ScaleDma \/ ScaleDmaDone
  BY <1>6, <1>1, <1>2, <1>3 DEF WeightDma, WeightDmaDone, ScaleDma, ScaleDmaDone, Owned,
     Runner, Prepared, Fresh, Submitting, Retiring, Between, NoJob
<1>7. CASE Poll \/ Transition \/ FinalizePack \/ NothingToFinalize
  BY <1>7, <1>1, <1>2, <1>3 DEF Poll, Transition, FinalizePack, NothingToFinalize, Owned,
     Runner, Prepared, Fresh, Submitting, Retiring, Between, NoJob
<1>8. CASE Carry \/ DrainRow \/ StoreRows \/ Return
  BY <1>8, <1>1, <1>2, <1>3 DEF Carry, DrainRow, StoreRows, Return, Owned, Runner, Prepared,
     Fresh, Submitting, Retiring, Between, NoJob
<1>9. CASE RetireTile \/ CompleteBoundary
  BY <1>9, <1>1, <1>2, <1>3 DEF RetireTile, CompleteBoundary, Owned, Runner, Prepared,
     Fresh, Submitting, Retiring, Between, NoJob
<1>10. CASE Consume
  <2>1. ConsumeValid /\ ~Serial /\ pc = "prepare"
    BY <1>10, <1>2, ChecksHold DEF Consume, Lookahead
  <2>2. look.tile \in Int /\ look.tile % 2 \in Banks /\ look.tile % 2 \in {0, 1, Window}
    BY BankFacts DEF Types, HostTypes, Banks
  <2>3. UNCHANGED <<t, running, ip>> /\ \A b \in Banks : b # Bank => jobs'[b] = jobs[b]
    BY <1>10, <2>1, <2>2, JobStored DEF Consume
  <2>4. pc' = IF running = NoJob THEN "activation" ELSE "drain"
    BY <1>10, <2>1 DEF Consume, AfterPrepare
  <2>5. running # NoJob => running \in Banks /\ running # Bank
    BY <1>2, <2>1, BankFacts DEF Owned
  <2> QED
    BY <1>1, <1>2, <2>1, <2>3, <2>4, <2>5 DEF Owned, Runner, Prepared, Fresh, Submitting,
       Retiring, Between, NoJob
<1>11. CASE PrepareDirect
  <2>1. pc = "prepare" /\ UNCHANGED <<t, running, ip>> /\ t \in Int
    BY <1>11, <1>2 DEF PrepareDirect
  <2>2. \A b \in Banks : b # Bank => jobs'[b] = jobs[b]
    BY <1>11, <2>1, DirectEffects, JobStored
  <2>3. pc' = IF Serial THEN "submit" ELSE IF running = NoJob THEN "activation" ELSE "drain"
    BY <1>11 DEF PrepareDirect, AfterPrepare
  <2>4. Serial => running = NoJob
    BY <2>1 DEF Owned
  <2>5. running # NoJob => running \in Banks /\ running # Bank
    BY <1>2, <2>4, BankFacts DEF Owned
  <2> QED
    BY <1>1, <1>2, <2>1, <2>2, <2>3, <2>4, <2>5 DEF Owned, Runner, Prepared, Fresh,
       Submitting, Retiring, Between, NoJob
<1>12. CASE OutDmaDone
  <2>1. pc = "outDma" /\ UNCHANGED <<t, running, ip>> /\ running \in Banks
    BY <1>12, ChecksHold DEF OutDmaDone, Retiring
  <2>2. /\ \A b \in Banks : jobs'[b].tile = jobs[b].tile
        /\ jobs'[running].ready /\ jobs'[running].released = Runner.released
        /\ jobs'[running].consumed = Runner.consumed
    BY <1>12, <2>1, RetireEffects
  <2>3. /\ pc' \in {"verify", "release", "accumulate"} /\ (pc' = "verify" => route = "contract")
        /\ (pc' = "release" => overlap) /\ (pc' = "accumulate" /\ Prepared.tile = t => ~overlap)
    BY <1>12 DEF OutDmaDone, Handoff
  <2>4. ~Runner.released /\ ~Runner.consumed
    BY <2>1 DEF Owned, Fresh, Runner, Between, Retiring
  <2> QED
    BY <1>1, <1>2, <2>1, <2>2, <2>3, <2>4 DEF Owned, Runner, Prepared, Fresh, Submitting,
       Retiring, Between, NoJob
<1>13. CASE Release
  <2>1. pc = "release" /\ UNCHANGED <<t, running, ip>> /\ running \in Banks /\ Runner.ready /\ ~Runner.released
    BY <1>13, ChecksHold DEF Release, Retiring
  <2>2. jobs'[running].ready /\ jobs'[running].released /\ jobs'[running].consumed = Runner.consumed
    BY <1>13, <2>1, RetireEffects
  <2>3. pc' = "activation" /\ ~Serial /\ ~Runner.consumed
    BY <1>13, <2>1 DEF Release, Owned, Banks, NoJob
  <2> QED
    BY <1>1, <1>2, <2>1, <2>2, <2>3 DEF Owned, Runner, Prepared, Fresh, Submitting,
       Retiring, Between, NoJob
<1>14. CASE AccumulateAndRelease
  <2>1. pc = "accumulate" /\ UNCHANGED <<t, ip>> /\ running \in Banks
    BY <1>14, ChecksHold DEF AccumulateAndRelease, Retiring
  <2>2. \/ pc' = "activation" /\ Prepared.tile = t /\ ~Serial /\ running' = running
        \/ pc' = "retire" /\ Serial /\ running' = NoJob
        \/ pc' = "store" /\ ~Serial /\ running' = NoJob
    BY <1>14, <2>1, ChecksHold DEF AccumulateAndRelease, Handoff
  <2>3. pc' = "activation" => ~overlap
    BY <2>1, <2>2 DEF Owned
  <2> QED
    BY <1>1, <1>2, <2>1, <2>2, <2>3 DEF Owned, Runner, Prepared, Fresh, Submitting,
       Retiring, Between, NoJob
<1>15. CASE Start
  <2>1. pc = "start" /\ UNCHANGED <<t, jobs>> /\ Prepared.tile = t /\ Fresh(Bank)
    BY <1>15 DEF Start, Scheduled, InTile, Packing, Submitting
  <2>2. ip'.tile = t
    BY <1>15, <2>1 DEF Start
  <2>3. CASE Serial
    <3>1. running' = Bank /\ pc' = "drain" /\ Bank = 0
      BY <1>15, <1>2, <2>3 DEF Start
    <3> QED
      BY <1>1, <1>2, <2>1, <2>2, <2>3, <3>1 DEF Owned, Runner, Prepared, Fresh, Submitting,
         Retiring, Between, NoJob
  <2>4. CASE ~Serial
    <3>1. running' = running /\ pc' = IF running = NoJob THEN "finalize" ELSE IF overlap THEN "consume" ELSE "transition"
      BY <1>15, <2>4 DEF Start
    <3> QED
      BY <1>1, <1>2, <2>1, <2>2, <2>4, <3>1 DEF Owned, Runner, Prepared, Fresh, Submitting,
         Retiring, Between, NoJob
  <2> QED
    BY <2>3, <2>4
<1>16. CASE FinalizeJoin
  BY <1>16, <1>1, <1>2, <1>3 DEF FinalizeJoin, Owned, Runner, Prepared, Fresh, Submitting,
     Retiring, Between, NoJob
<1>17. CASE Advance
  <2>1. /\ pc = "advance" /\ t' = t + 1 /\ running' = Bank /\ pc' \in {"rowEnd", "prepare"}
        /\ UNCHANGED <<jobs, ip>>
    BY <1>17 DEF Advance
  <2>2. ~Serial /\ ip.tile = t
    BY <2>1 DEF Owned
  <2>3. Prepared.tile = t /\ Fresh(Bank)
    BY <2>1 DEF Scheduled, InTile
  <2>4. Bank' = 1 - Bank /\ Bank = 1 - Bank' /\ Bank # NoJob
    BY <1>1, <1>2, <2>1, <2>2 DEF Bank, Banks, NoJob
  <2> QED
    BY <1>1, <2>1, <2>2, <2>3, <2>4 DEF Owned, Runner, Prepared, Fresh, Submitting,
       Retiring, Between, NoJob
<1>18. CASE VerifyTile
  <2>1. pc = "verify" /\ UNCHANGED <<t, jobs, running, ip>> /\ pc' \in {"accumulate", "violated"}
    BY <1>18 DEF VerifyTile
  <2>2. Serial /\ running # NoJob
    BY <2>1 DEF Owned, Retiring, Serial
  <2> QED
    BY <1>1, <1>2, <2>1, <2>2 DEF Owned, Runner, Prepared, Fresh, Submitting, Retiring,
       Between, NoJob
<1>19. CASE CallFails
  BY <1>19, <1>1, <1>2, <1>3 DEF CallFails, Owned, Runner, Prepared, Fresh, Submitting,
     Retiring, Between, NoJob
<1>20. CASE Unwind
  BY <1>20, <1>1, <1>2, <1>3 DEF Unwind, Owned, Runner, Prepared, Fresh, Submitting,
     Retiring, Between, NoJob
<1>21. CASE HelperBegin
  BY <1>21, <1>1, <1>2, <1>3 DEF HelperBegin, Owned, Runner, Prepared, Fresh, Submitting,
     Retiring, Between, NoJob
<1>22. CASE HelperDone
  BY <1>22, <1>1, <1>2, <1>3 DEF HelperDone, Owned, Runner, Prepared, Fresh, Submitting,
     Retiring, Between, NoJob
<1>23. CASE VpuDone
  BY <1>23, <1>1, <1>2, <1>3 DEF VpuDone, Owned, Runner, Prepared, Fresh, Submitting,
     Retiring, Between, NoJob
<1>24. CASE SpuFinal
  BY <1>24, <1>1, <1>2, <1>3 DEF SpuFinal, Owned, Runner, Prepared, Fresh, Submitting,
     Retiring, Between, NoJob
<1>25. CASE UNCHANGED vars
  BY <1>25, <1>1, <1>2, <1>3 DEF vars, Owned, Runner, Prepared, Fresh, Submitting, Retiring,
     Between, NoJob
<1> QED
  BY <1>4, <1>5, <1>6, <1>7, <1>8, <1>9, <1>10, <1>11, <1>12, <1>13, <1>14, <1>15, <1>16,
     <1>17, <1>18, <1>19, <1>20, <1>21, <1>22, <1>23, <1>24, <1>25 DEF Next, Host, Helper,
     Device, Finished

\* The two sides that pack ahead write the slot the prepared tile does not use.
LEMMA PackedApart ==
  ASSUME Types, Lookahead, Poll \/ FinalizePack \/ HelperBegin \/ HelperDone
  PROVE  /\ UNCHANGED <<pc, t, jobs, dma, ddrAct, ddrOut, device, running, ahead, staging, loaded>>
         /\ \/ pc = "unwind" /\ ~look.valid /\ ~look'.valid
            \/ /\ pc \in Packing /\ look.valid /\ look.tile = t + 1 /\ shape.cols = 1 /\ ~Serial
               /\ Prepared.src = Bank /\ Prepared.slot = Bank
               /\ ddrW'[Bank] = ddrW[Bank] /\ ddrS'[Bank] = ddrS[Bank]
<1> USE DEF config, tally, hostVars, ddr, device
<1>1. UNCHANGED <<pc, t, jobs, dma, ddrAct, ddrOut, bankA, bankW, param, out, ip, desc, running, ahead, staging, loaded>>
  BY DEF Poll, FinalizePack, HelperBegin, HelperDone
<1>2. Bank \in Banks /\ (~Serial => (t + 1) % 2 # Bank) /\ (Serial => ~pipeline)
  BY BankFacts DEF Types, ConfigTypes
<1>3. CASE Poll \/ FinalizePack
  <2>1. PackBatch /\ look.valid /\ pc \in Packing
    BY <1>3 DEF Poll, FinalizePack, Packing, Submitting
  <2>2. \A b \in Banks : b # look.tile % 2 => ddrW'[b] = ddrW[b] /\ ddrS'[b] = ddrS[b]
    BY <2>1, BatchEffects
  <2>3. /\ look.tile = t + 1 /\ shape.cols = 1 /\ pipeline
        /\ Prepared.src = Bank /\ Prepared.slot = Bank
    BY <2>1 DEF Lookahead, Packing, Submitting, Between
  <2> QED
    BY <1>1, <1>2, <2>1, <2>2, <2>3
<1>4. CASE HelperBegin \/ HelperDone
  <2>1. /\ helper.state # "idle"
        /\ \A b \in Banks : b # helper.tile % 2 => ddrW'[b] = ddrW[b] /\ ddrS'[b] = ddrS[b]
    BY <1>4, HelperEffects
  <2>2. look' = look
    BY <1>4 DEF HelperBegin, HelperDone
  <2>3. helper.tile = look.tile /\ (pc = "unwind" \/ (pc \in Packing /\ look.valid))
    BY <2>1 DEF Lookahead
  <2>4. CASE pc = "unwind"
    <3>1. ~look.valid
      BY <2>4 DEF Lookahead, Packing, Submitting, Between
    <3> QED
      BY <1>1, <2>2, <2>4, <3>1
  <2>5. CASE pc \in Packing /\ look.valid
    <3>1. /\ look.tile = t + 1 /\ shape.cols = 1 /\ pipeline
          /\ Prepared.src = Bank /\ Prepared.slot = Bank
      BY <2>5 DEF Lookahead, Packing, Submitting, Between
    <3> QED
      BY <1>1, <1>2, <2>1, <2>3, <2>5, <3>1
  <2> QED
    BY <2>3, <2>4, <2>5
<1> QED
  BY <1>3, <1>4

\* No step writes the source of a transfer in progress.
LEMMA DmaStep ==
  ASSUME Types, Types', Lookahead, Quiet, DmaSourceStable, [Next]_vars
  PROVE  DmaSourceStable'
<1> USE DEF config, tally, hostVars, ddr, device
<1>1. /\ UNCHANGED <<shape, overlap, pipeline, resident, route, limit>>
      /\ (Serial' <=> Serial) /\ Total' = Total /\ (t' = t => Bank' = Bank)
  BY ConfigFixed DEF Bank, Serial, Total
<1>2. /\ Bank \in Banks /\ t \in Nat /\ (~Serial => (t + 1) % 2 = 1 - Bank) /\ (Serial => Bank = 0)
      /\ pc \in Pcs /\ jobs \in [Banks -> JobType] /\ (Serial => ~overlap /\ ~pipeline)
  BY BankFacts DEF Types, HostTypes, ConfigTypes
<1>3. t' \in Nat /\ Bank' \in Banks
  <2>1. t' \in Nat
    BY DEF Types, HostTypes
  <2>2. \A n \in Nat : n % 2 \in Banks /\ 0 \in Banks
    BY DEF Banks
  <2> QED
    BY <2>1, <2>2 DEF Bank
<1>4. CASE BeginRow \/ Drain \/ OutDmaDone \/ Release \/ AccumulateAndRelease
          \/ AccumulatePending
  BY <1>4, <1>1, <1>2, <1>3 DEF BeginRow, Drain, OutDmaDone, Release, AccumulateAndRelease,
     AccumulatePending, DmaSourceStable, WeightSource, Prepared, WeightOf
<1>5. CASE PrepareActivation \/ Admit \/ AdmitNothing \/ Submit \/ ActDmaDone \/ WeightDma
  BY <1>5, <1>1, <1>2, <1>3 DEF PrepareActivation, Admit, AdmitNothing, Submit, ActDmaDone,
     WeightDma, DmaSourceStable, WeightSource, Prepared, WeightOf
<1>6. CASE WeightDmaDone \/ ScaleDma \/ ScaleDmaDone \/ Start \/ Transition \/ FinalizeJoin
  BY <1>6, <1>1, <1>2, <1>3 DEF WeightDmaDone, ScaleDma, ScaleDmaDone, Start, Transition,
     FinalizeJoin, DmaSourceStable, WeightSource, Prepared, WeightOf
<1>7. CASE NothingToFinalize \/ Advance \/ Carry \/ DrainRow \/ StoreRows \/ Return
  BY <1>7, <1>1, <1>2, <1>3 DEF NothingToFinalize, Advance, Carry, DrainRow, StoreRows,
     Return, DmaSourceStable, WeightSource, Prepared, WeightOf
<1>8. CASE VerifyTile \/ RetireTile \/ CompleteBoundary \/ CallFails \/ Unwind \/ VpuDone
  BY <1>8, <1>1, <1>2, <1>3 DEF VerifyTile, RetireTile, CompleteBoundary, CallFails, Unwind,
     VpuDone, DmaSourceStable, WeightSource, Prepared, WeightOf
<1>9. CASE Consume
  BY <1>9 DEF Consume, AfterPrepare, DmaSourceStable
<1>10. CASE PrepareDirect
  BY <1>10 DEF PrepareDirect, AfterPrepare, DmaSourceStable
<1>11. CASE Poll
  <2>1. /\ UNCHANGED <<pc, t, jobs, dma, ddrAct, out>>
        /\ \/ pc = "unwind"
           \/ /\ Prepared.src = Bank /\ Prepared.slot = Bank /\ Bank # Window
              /\ ddrW'[Bank] = ddrW[Bank] /\ ddrS'[Bank] = ddrS[Bank]
    BY <1>11, <1>2, PackedApart DEF Banks, Window
  <2> QED
    BY <1>1, <1>2, <2>1 DEF DmaSourceStable, WeightSource, Prepared
<1>12. CASE FinalizePack
  <2>1. /\ UNCHANGED <<pc, t, jobs, dma, ddrAct, out>>
        /\ \/ pc = "unwind"
           \/ /\ Prepared.src = Bank /\ Prepared.slot = Bank /\ Bank # Window
              /\ ddrW'[Bank] = ddrW[Bank] /\ ddrS'[Bank] = ddrS[Bank]
    BY <1>12, <1>2, PackedApart DEF Banks, Window
  <2> QED
    BY <1>1, <1>2, <2>1 DEF DmaSourceStable, WeightSource, Prepared
<1>13. CASE HelperBegin
  <2>1. /\ UNCHANGED <<pc, t, jobs, dma, ddrAct, out>>
        /\ \/ pc = "unwind"
           \/ /\ Prepared.src = Bank /\ Prepared.slot = Bank /\ Bank # Window
              /\ ddrW'[Bank] = ddrW[Bank] /\ ddrS'[Bank] = ddrS[Bank]
    BY <1>13, <1>2, PackedApart DEF Banks, Window
  <2> QED
    BY <1>1, <1>2, <2>1 DEF DmaSourceStable, WeightSource, Prepared
<1>14. CASE HelperDone
  <2>1. /\ UNCHANGED <<pc, t, jobs, dma, ddrAct, out>>
        /\ \/ pc = "unwind"
           \/ /\ Prepared.src = Bank /\ Prepared.slot = Bank /\ Bank # Window
              /\ ddrW'[Bank] = ddrW[Bank] /\ ddrS'[Bank] = ddrS[Bank]
    BY <1>14, <1>2, PackedApart DEF Banks, Window
  <2> QED
    BY <1>1, <1>2, <2>1 DEF DmaSourceStable, WeightSource, Prepared
<1>15. CASE SpuFinal
  <2>1. pc # "outDma" /\ UNCHANGED <<pc, t, jobs, dma, ddrAct, ddrW, ddrS>>
    BY <1>15 DEF SpuFinal, Quiet
  <2> QED
    BY <1>1, <2>1 DEF DmaSourceStable, WeightSource, Prepared, WeightOf
<1>16. CASE UNCHANGED vars
  BY <1>16, <1>1, <1>2, <1>3 DEF vars, DmaSourceStable, WeightSource, Prepared, WeightOf
<1> QED
  BY <1>4, <1>5, <1>6, <1>7, <1>8, <1>9, <1>10, <1>11, <1>12, <1>13, <1>14, <1>15, <1>16
     DEF Next, Host, Helper, Device, Finished

\* No check fires, and the matmul returns with the helper joined.
LEMMA OwnershipStep ==
  ASSUME Types, Types', Lookahead, Lookahead', Scheduled, Owned, Qualified, Computed, OwnershipHolds, [Next]_vars
  PROVE  OwnershipHolds'
<1> USE DEF config, tally, hostVars, ddr, device
<1>1. /\ UNCHANGED <<shape, overlap, pipeline, resident, route, limit>>
      /\ (Serial' <=> Serial) /\ Total' = Total /\ (t' = t => Bank' = Bank)
  BY ConfigFixed DEF Bank, Serial, Total
<1>2. /\ Bank \in Banks /\ t \in Nat /\ (~Serial => (t + 1) % 2 = 1 - Bank) /\ (Serial => Bank = 0)
      /\ pc \in Pcs /\ jobs \in [Banks -> JobType] /\ (Serial => ~overlap /\ ~pipeline)
  BY BankFacts DEF Types, HostTypes, ConfigTypes
<1>3. t' \in Nat /\ Bank' \in Banks
  <2>1. t' \in Nat
    BY DEF Types, HostTypes
  <2>2. \A n \in Nat : n % 2 \in Banks /\ 0 \in Banks
    BY DEF Banks
  <2> QED
    BY <2>1, <2>2 DEF Bank
<1>4. (~look'.submitted /\ helper'.state = "idle") \/ pc' \notin {"returned", "failed"}
  BY DEF Lookahead, Packing, Submitting
<1>5. CASE BeginRow \/ Drain \/ OutDmaDone \/ Release \/ AccumulateAndRelease
          \/ AccumulatePending
  BY <1>5, <1>1, <1>2, <1>4, ChecksHold DEF BeginRow, Drain, OutDmaDone, Release,
     AccumulateAndRelease, AccumulatePending, OwnershipHolds
<1>6. CASE PrepareActivation \/ Admit \/ AdmitNothing \/ Submit \/ ActDmaDone \/ WeightDma
  BY <1>6, <1>1, <1>2, <1>4, ChecksHold DEF PrepareActivation, Admit, AdmitNothing, Submit,
     ActDmaDone, WeightDma, OwnershipHolds
<1>7. CASE WeightDmaDone \/ ScaleDma \/ ScaleDmaDone \/ Start \/ Poll \/ Transition
  BY <1>7, <1>1, <1>2, <1>4, ChecksHold DEF WeightDmaDone, ScaleDma, ScaleDmaDone, Start,
     Poll, Transition, OwnershipHolds
<1>8. CASE FinalizePack \/ FinalizeJoin \/ NothingToFinalize \/ Advance \/ Carry \/ DrainRow
  BY <1>8, <1>1, <1>2, <1>4, ChecksHold DEF FinalizePack, FinalizeJoin, NothingToFinalize,
     Advance, Carry, DrainRow, OwnershipHolds
<1>9. CASE StoreRows \/ Return \/ RetireTile \/ CompleteBoundary \/ CallFails \/ Unwind
  BY <1>9, <1>1, <1>2, <1>4, ChecksHold DEF StoreRows, Return, RetireTile, CompleteBoundary,
     CallFails, Unwind, OwnershipHolds
<1>10. CASE HelperBegin \/ HelperDone \/ VpuDone \/ SpuFinal
  BY <1>10, <1>1, <1>2, <1>4, ChecksHold DEF HelperBegin, HelperDone, VpuDone, SpuFinal,
     OwnershipHolds
<1>11. CASE Consume
  <2>1. ConsumeValid
    BY <1>11, ChecksHold DEF Consume
  <2> QED
    BY <1>11, <2>1 DEF Consume, AfterPrepare, OwnershipHolds
<1>12. CASE PrepareDirect
  BY <1>12 DEF PrepareDirect, AfterPrepare, OwnershipHolds
<1>13. CASE VerifyTile
  <2>1. pc = "verify" /\ Serial /\ running # NoJob
    BY <1>13 DEF VerifyTile, Owned, Serial, Retiring
  <2>2. running = 0 /\ Bank = 0 /\ Prepared.tile = t
    BY <1>2, <2>1 DEF Owned, Scheduled, Retiring
  <2>3. ddrOut = Product(t)
    BY <2>1, <2>2 DEF Computed, Owned, Runner, Prepared
  <2> QED
    BY <1>13, <2>3 DEF VerifyTile, Product, OwnershipHolds
<1>14. CASE UNCHANGED vars
  BY <1>14, <1>1, <1>2, <1>4, ChecksHold DEF vars, OwnershipHolds
<1> QED
  BY <1>5, <1>6, <1>7, <1>8, <1>9, <1>10, <1>11, <1>12, <1>13, <1>14 DEF Next, Host, Helper,
     Device, Finished

\* What a preparation leaves for its tile: the weights in their source, or
\* already in the bank, and the scales in the job's slot.
LEMMA PreparedOwn ==
  ASSUME Types, Lookahead, Scheduled, Owned, Qualified, Ahead, Reusable, Consume \/ PrepareDirect
  PROVE  /\ UNCHANGED <<shape, t, route, bankW>>
         /\ IF jobs'[Bank].reused THEN bankW[Bank] = Whole(WeightOf(t))
            ELSE \/ jobs'[Bank].src = Window
                 \/ jobs'[Bank].src \in Banks /\ ddrW'[jobs'[Bank].src] = Whole(WeightOf(t))
         /\ ddrS'[jobs'[Bank].slot] = Whole(t)
         /\ jobs'[Bank].tile = t
         /\ ~ahead' => ddrAct' = ActOf(t)
<1> USE DEF config, tally, hostVars, ddr, device
<1>1. Bank \in Banks /\ t \in Nat /\ t \in Int /\ Bank \in {0, 1, Window} /\ (~Serial => t % 2 = Bank) /\ (Serial => ~pipeline)
  BY BankFacts DEF Types, HostTypes, ConfigTypes, Banks
<1>2. UNCHANGED <<shape, t, route, bankW>> /\ pc = "prepare"
  BY DEF Consume, PrepareDirect
<1>3. CASE Consume
  <2>1. ConsumeValid /\ pipeline /\ shape.cols = 1 /\ look.valid /\ ~look.submitted
    BY <1>2, <1>3, ChecksHold DEF Consume, ConsumeValid, Lookahead
  <2>2. look.tile = t /\ look.tile % 2 = Bank /\ look.main = MainBatches
    BY <1>1, <2>1 DEF ConsumeValid
  <2>3. jobs' = [jobs EXCEPT ![Bank] = WithReuse(Job(t, Bank, Bank))] /\ UNCHANGED <<ddrW, ddrS>> /\ ahead'
    BY <1>3, <2>1, <2>2 DEF Consume
  <2>4. /\ jobs'[Bank].tile = t /\ jobs'[Bank].src = Bank /\ jobs'[Bank].slot = Bank
        /\ (jobs'[Bank].reused <=> shape.cols > 1 /\ loaded[Bank])
    BY <1>1, <2>3, JobStored, Zenon
  <2>5. /\ ddrW[Bank][1] = WeightOf(t) /\ ddrS[Bank][1] = t
        /\ ddrW[Bank][2] = WeightOf(t) /\ ddrS[Bank][2] = t
    BY <2>1, <2>2 DEF Ahead, Lookahead
  <2>6. ddrW[Bank] \in Int \X Int /\ ddrS[Bank] \in Int \X Int
    BY <1>1 DEF Types, DataTypes, Pair
  <2>7. ddrW[Bank] = <<WeightOf(t), WeightOf(t)>> /\ ddrS[Bank] = <<t, t>>
    BY <2>5, <2>6
  <2> QED
    BY <1>1, <1>2, <2>1, <2>3, <2>4, <2>7 DEF Whole
<1>4. CASE PrepareDirect
  <2>1. ~ahead' /\ ddrAct' = ActOf(t)
    BY <1>4 DEF PrepareDirect, PackActivation
  <2>2. PICK s \in Banks, src \in {0, 1, Window} :
           /\ s = 0 \/ (s = Bank /\ pipeline /\ shape.cols = 1)
           /\ src \in {s, Window}
           /\ jobs' = [jobs EXCEPT ![Bank] = WithReuse(Job(t, src, s))]
           /\ ddrS' \in [Banks -> Pair] /\ ddrS'[s] = Whole(t)
           /\ \/ (src = Window \/ ReuseDirect) /\ ddrW' = ddrW
              \/ src = s /\ ddrW'[s] = Whole(WeightOf(t))
    BY <1>4, DirectEffects
  <2>3. /\ jobs'[Bank].tile = t /\ jobs'[Bank].src = src /\ jobs'[Bank].slot = s
        /\ (jobs'[Bank].reused <=> shape.cols > 1 /\ loaded[Bank])
    BY <1>1, <2>2, JobStored, Zenon
  <2>4. jobs'[Bank].reused => bankW[Bank] = Whole(WeightOf(t))
    BY <1>1, <1>2, <2>3 DEF Reusable
  <2>5. ReuseDirect => ddrW[0] = Whole(WeightOf(t)) /\ s = 0
    <3>1. WeightOf(t) # None
      BY <1>1, Numbers DEF None, Types
    <3> QED
      BY <1>2, <2>2, <3>1 DEF Reusable, ReuseDirect
  <2> QED
    BY <1>2, <2>1, <2>2, <2>3, <2>4, <2>5
<1> QED
  BY <1>3, <1>4

\* A prepared tile keeps its windows until its START.
LEMMA StagedStep ==
  ASSUME Types, Types', Lookahead, Scheduled, Owned, Quiet, Qualified, Contents, [Next]_vars
  PROVE  Staged'
<1> USE DEF config, tally, hostVars, ddr, device
<1>1. /\ UNCHANGED <<shape, overlap, pipeline, resident, route, limit>>
      /\ (Serial' <=> Serial) /\ Total' = Total /\ (t' = t => Bank' = Bank)
  BY ConfigFixed DEF Bank, Serial, Total
<1>2. /\ Bank \in Banks /\ t \in Nat /\ (~Serial => (t + 1) % 2 = 1 - Bank) /\ (Serial => Bank = 0)
      /\ pc \in Pcs /\ jobs \in [Banks -> JobType] /\ (Serial => ~overlap /\ ~pipeline)
  BY BankFacts DEF Types, HostTypes, ConfigTypes
<1>3. t' \in Nat /\ Bank' \in Banks
  <2>1. t' \in Nat
    BY DEF Types, HostTypes
  <2>2. \A n \in Nat : n % 2 \in Banks /\ 0 \in Banks
    BY DEF Banks
  <2> QED
    BY <2>1, <2>2 DEF Bank
<1>4. CASE BeginRow \/ Drain \/ PrepareActivation \/ Admit \/ AdmitNothing \/ Submit
  BY <1>4, <1>1, <1>2, <1>3 DEF BeginRow, Drain, PrepareActivation, Admit, AdmitNothing,
     Submit, Contents, Staged, Prepared, WeightSource, Whole, WeightOf, ActOf, RowTiles,
     InTile, Packing, Submitting, Retiring
<1>5. CASE ActDmaDone \/ WeightDma \/ ScaleDma \/ ScaleDmaDone \/ Start \/ Transition
  BY <1>5, <1>1, <1>2, <1>3 DEF ActDmaDone, WeightDma, ScaleDma, ScaleDmaDone, Start,
     Transition, Contents, Staged, Prepared, WeightSource, Whole, WeightOf, ActOf, RowTiles,
     InTile, Packing, Submitting, Retiring
<1>6. CASE FinalizeJoin \/ NothingToFinalize \/ Carry \/ StoreRows \/ Return \/ VerifyTile
  BY <1>6, <1>1, <1>2, <1>3 DEF FinalizeJoin, NothingToFinalize, Carry, StoreRows, Return,
     VerifyTile, Contents, Staged, Prepared, WeightSource, Whole, WeightOf, ActOf, RowTiles,
     InTile, Packing, Submitting, Retiring
<1>7. CASE CompleteBoundary \/ CallFails \/ Unwind \/ VpuDone \/ SpuFinal
  BY <1>7, <1>1, <1>2, <1>3 DEF CompleteBoundary, CallFails, Unwind, VpuDone, SpuFinal,
     Contents, Staged, Prepared, WeightSource, Whole, WeightOf, ActOf, RowTiles, InTile,
     Packing, Submitting, Retiring
<1>8. CASE Consume
  <2>1. /\ UNCHANGED <<shape, t, bankW>>
        /\ IF jobs'[Bank].reused THEN bankW[Bank] = Whole(WeightOf(t))
           ELSE \/ jobs'[Bank].src = Window
                \/ jobs'[Bank].src \in Banks /\ ddrW'[jobs'[Bank].src] = Whole(WeightOf(t))
        /\ ddrS'[jobs'[Bank].slot] = Whole(t) /\ jobs'[Bank].tile = t
        /\ ~ahead' => ddrAct' = ActOf(t)
    BY <1>8, PreparedOwn DEF Contents
  <2>2. pc' \in {"submit", "activation", "drain"} /\ (ahead' => pc' # "submit")
    BY <1>8, <1>2, ChecksHold DEF Consume, AfterPrepare, Lookahead
  <2>3. Window \notin Banks
    BY DEF Window, Banks
  <2> QED
    BY <1>1, <1>2, <2>1, <2>2, <2>3 DEF Staged, Prepared, WeightSource, Whole, WeightOf,
       ActOf, RowTiles, InTile, Packing, Submitting, Retiring
<1>9. CASE PrepareDirect
  <2>1. /\ UNCHANGED <<shape, t, bankW>>
        /\ IF jobs'[Bank].reused THEN bankW[Bank] = Whole(WeightOf(t))
           ELSE \/ jobs'[Bank].src = Window
                \/ jobs'[Bank].src \in Banks /\ ddrW'[jobs'[Bank].src] = Whole(WeightOf(t))
        /\ ddrS'[jobs'[Bank].slot] = Whole(t) /\ jobs'[Bank].tile = t
        /\ ~ahead' => ddrAct' = ActOf(t)
    BY <1>9, PreparedOwn DEF Contents
  <2>2. pc' \in {"submit", "activation", "drain"} /\ (ahead' => pc' # "submit")
    BY <1>9, <1>2, ChecksHold DEF PrepareDirect, AfterPrepare, Lookahead
  <2>3. Window \notin Banks
    BY DEF Window, Banks
  <2> QED
    BY <1>1, <1>2, <2>1, <2>2, <2>3 DEF Staged, Prepared, WeightSource, Whole, WeightOf,
       ActOf, RowTiles, InTile, Packing, Submitting, Retiring
<1>10. CASE OutDmaDone
  <2>1. pc = "outDma" /\ running \in Banks /\ UNCHANGED <<t, ahead, ddrAct, ddrW, ddrS, bankW>>
    BY <1>10, ChecksHold DEF OutDmaDone, Retiring
  <2>2. \A b \in Banks : /\ jobs'[b].tile = jobs[b].tile /\ jobs'[b].src = jobs[b].src
                         /\ jobs'[b].slot = jobs[b].slot /\ jobs'[b].reused = jobs[b].reused
    BY <1>10, <2>1, RetireEffects
  <2>3. pc' \in Retiring
    BY <1>10, ChecksHold DEF OutDmaDone, Retiring
  <2> QED
    BY <1>1, <1>2, <2>1, <2>2, <2>3 DEF Staged, Prepared, WeightSource, Whole, WeightOf,
       ActOf, RowTiles, InTile, Packing, Submitting, Retiring, Contents
<1>11. CASE Release
  <2>1. pc = "release" /\ running \in Banks /\ UNCHANGED <<t, ahead, ddrAct, ddrW, ddrS, bankW>>
    BY <1>11, ChecksHold DEF Release, Retiring
  <2>2. \A b \in Banks : /\ jobs'[b].tile = jobs[b].tile /\ jobs'[b].src = jobs[b].src
                         /\ jobs'[b].slot = jobs[b].slot /\ jobs'[b].reused = jobs[b].reused
    BY <1>11, <2>1, RetireEffects
  <2>3. pc' = "activation"
    BY <1>11, ChecksHold DEF Release, Retiring
  <2> QED
    BY <1>1, <1>2, <2>1, <2>2, <2>3 DEF Staged, Prepared, WeightSource, Whole, WeightOf,
       ActOf, RowTiles, InTile, Packing, Submitting, Retiring, Contents
<1>12. CASE AccumulateAndRelease
  <2>1. pc = "accumulate" /\ running \in Banks /\ UNCHANGED <<t, ahead, ddrAct, ddrW, ddrS, bankW>>
    BY <1>12, ChecksHold DEF AccumulateAndRelease, Retiring
  <2>2. \A b \in Banks : /\ jobs'[b].tile = jobs[b].tile /\ jobs'[b].src = jobs[b].src
                         /\ jobs'[b].slot = jobs[b].slot /\ jobs'[b].reused = jobs[b].reused
    BY <1>12, <2>1, RetireEffects
  <2>3. pc' \in {"activation", "retire", "store"}
    BY <1>12, ChecksHold DEF AccumulateAndRelease, Retiring
  <2> QED
    BY <1>1, <1>2, <2>1, <2>2, <2>3 DEF Staged, Prepared, WeightSource, Whole, WeightOf,
       ActOf, RowTiles, InTile, Packing, Submitting, Retiring, Contents
<1>13. CASE AccumulatePending
  <2>1. pc = "consume" /\ running \in Banks /\ UNCHANGED <<t, ahead, ddrAct, ddrW, ddrS, bankW>>
    BY <1>13, ChecksHold DEF AccumulatePending, Retiring
  <2>2. \A b \in Banks : /\ jobs'[b].tile = jobs[b].tile /\ jobs'[b].src = jobs[b].src
                         /\ jobs'[b].slot = jobs[b].slot /\ jobs'[b].reused = jobs[b].reused
    BY <1>13, <2>1, RetireEffects
  <2>3. pc' = "transition"
    BY <1>13, ChecksHold DEF AccumulatePending, Retiring
  <2> QED
    BY <1>1, <1>2, <2>1, <2>2, <2>3 DEF Staged, Prepared, WeightSource, Whole, WeightOf,
       ActOf, RowTiles, InTile, Packing, Submitting, Retiring, Contents
<1>14. CASE WeightDmaDone
  <2>1. pc = "weightDma" /\ ~Prepared.reused
    BY <1>14 DEF WeightDmaDone, Contents, Transferred
  <2> QED
    BY <1>14, <1>1, <1>2, <2>1 DEF WeightDmaDone, Contents, Staged, Prepared, WeightSource,
       Whole, WeightOf, ActOf, RowTiles, InTile, Packing, Submitting, Retiring
<1>15. CASE Poll
  <2>1. /\ UNCHANGED <<pc, t, jobs, ddrAct, bankW, ahead>>
        /\ \/ pc = "unwind"
           \/ /\ Prepared.src = Bank /\ Prepared.slot = Bank /\ Bank # Window
              /\ ddrW'[Bank] = ddrW[Bank] /\ ddrS'[Bank] = ddrS[Bank]
    BY <1>15, <1>2, PackedApart DEF Banks, Window, device
  <2> QED
    BY <1>1, <1>2, <2>1 DEF Staged, Prepared, WeightSource, Whole, WeightOf, ActOf,
       RowTiles, InTile, Packing, Submitting, Retiring, Contents
<1>16. CASE FinalizePack
  <2>1. /\ UNCHANGED <<pc, t, jobs, ddrAct, bankW, ahead>>
        /\ \/ pc = "unwind"
           \/ /\ Prepared.src = Bank /\ Prepared.slot = Bank /\ Bank # Window
              /\ ddrW'[Bank] = ddrW[Bank] /\ ddrS'[Bank] = ddrS[Bank]
    BY <1>16, <1>2, PackedApart DEF Banks, Window, device
  <2> QED
    BY <1>1, <1>2, <2>1 DEF Staged, Prepared, WeightSource, Whole, WeightOf, ActOf,
       RowTiles, InTile, Packing, Submitting, Retiring, Contents
<1>17. CASE Advance
  BY <1>17 DEF Advance, Staged, InTile, Packing, Submitting, Retiring
<1>18. CASE DrainRow
  BY <1>18, <1>1 DEF DrainRow, Staged, Prepared, Scheduled, Between
<1>19. CASE RetireTile
  BY <1>19 DEF RetireTile, Staged, InTile, Packing, Submitting, Retiring
<1>20. CASE HelperBegin
  <2>1. /\ UNCHANGED <<pc, t, jobs, ddrAct, bankW, ahead>>
        /\ \/ pc = "unwind"
           \/ /\ Prepared.src = Bank /\ Prepared.slot = Bank /\ Bank # Window
              /\ ddrW'[Bank] = ddrW[Bank] /\ ddrS'[Bank] = ddrS[Bank]
    BY <1>20, <1>2, PackedApart DEF Banks, Window, device
  <2> QED
    BY <1>1, <1>2, <2>1 DEF Staged, Prepared, WeightSource, Whole, WeightOf, ActOf,
       RowTiles, InTile, Packing, Submitting, Retiring, Contents
<1>21. CASE HelperDone
  <2>1. /\ UNCHANGED <<pc, t, jobs, ddrAct, bankW, ahead>>
        /\ \/ pc = "unwind"
           \/ /\ Prepared.src = Bank /\ Prepared.slot = Bank /\ Bank # Window
              /\ ddrW'[Bank] = ddrW[Bank] /\ ddrS'[Bank] = ddrS[Bank]
    BY <1>21, <1>2, PackedApart DEF Banks, Window, device
  <2> QED
    BY <1>1, <1>2, <2>1 DEF Staged, Prepared, WeightSource, Whole, WeightOf, ActOf,
       RowTiles, InTile, Packing, Submitting, Retiring, Contents
<1>22. CASE UNCHANGED vars
  BY <1>22, <1>1, <1>2, <1>3 DEF vars, Contents, Staged, Prepared, WeightSource, Whole,
     WeightOf, ActOf, RowTiles, InTile, Packing, Submitting, Retiring
<1> QED
  BY <1>4, <1>5, <1>6, <1>7, <1>8, <1>9, <1>10, <1>11, <1>12, <1>13, <1>14, <1>15, <1>16,
     <1>17, <1>18, <1>19, <1>20, <1>21, <1>22 DEF Next, Host, Helper, Device, Finished

\* What both sides have packed ahead stays in its slot until it is consumed.
LEMMA AheadStep ==
  ASSUME Types, Types', Lookahead, Scheduled, Owned, Quiet, Qualified, Contents, [Next]_vars
  PROVE  Ahead'
<1> USE DEF config, tally, hostVars, ddr, device
<1>1. /\ UNCHANGED <<shape, overlap, pipeline, resident, route, limit>>
      /\ (Serial' <=> Serial) /\ Total' = Total /\ (t' = t => Bank' = Bank)
  BY ConfigFixed DEF Bank, Serial, Total
<1>2. /\ Bank \in Banks /\ t \in Nat /\ (~Serial => (t + 1) % 2 = 1 - Bank) /\ (Serial => Bank = 0)
      /\ pc \in Pcs /\ jobs \in [Banks -> JobType] /\ (Serial => ~overlap /\ ~pipeline)
  BY BankFacts DEF Types, HostTypes, ConfigTypes
<1>3. t' \in Nat /\ Bank' \in Banks
  <2>1. t' \in Nat
    BY DEF Types, HostTypes
  <2>2. \A n \in Nat : n % 2 \in Banks /\ 0 \in Banks
    BY DEF Banks
  <2> QED
    BY <2>1, <2>2 DEF Bank
<1>4. CASE BeginRow \/ Drain \/ OutDmaDone \/ Release \/ AccumulateAndRelease
          \/ AccumulatePending
  BY <1>4, <1>1 DEF BeginRow, Drain, OutDmaDone, Release, AccumulateAndRelease,
     AccumulatePending, Ahead, WeightOf, Contents
<1>5. CASE PrepareActivation \/ AdmitNothing \/ Submit \/ ActDmaDone \/ WeightDma
          \/ WeightDmaDone
  BY <1>5, <1>1 DEF PrepareActivation, AdmitNothing, Submit, ActDmaDone, WeightDma,
     WeightDmaDone, Ahead, WeightOf, Contents
<1>6. CASE ScaleDma \/ ScaleDmaDone \/ Start \/ Transition \/ NothingToFinalize \/ Advance
  BY <1>6, <1>1 DEF ScaleDma, ScaleDmaDone, Start, Transition, NothingToFinalize, Advance,
     Ahead, WeightOf, Contents
<1>7. CASE Carry \/ DrainRow \/ StoreRows \/ Return \/ VerifyTile \/ RetireTile
  BY <1>7, <1>1 DEF Carry, DrainRow, StoreRows, Return, VerifyTile, RetireTile, Ahead,
     WeightOf, Contents
<1>8. CASE CompleteBoundary \/ VpuDone \/ SpuFinal
  BY <1>8, <1>1 DEF CompleteBoundary, VpuDone, SpuFinal, Ahead, WeightOf, Contents
<1>9. CASE Consume
  <2>1. look'.valid = FALSE
    BY <1>9, ChecksHold DEF Consume, Types, HostTypes
  <2> QED
    BY <2>1 DEF Ahead
<1>10. CASE PrepareDirect
  BY <1>10 DEF PrepareDirect, Ahead
<1>11. CASE Admit
  <2>1. look'.main = 0 /\ helper'.state = "working"
    BY <1>11, ChecksHold DEF Admit
  <2> QED
    BY <2>1, PipelineAssumption DEF Ahead
<1>12. CASE Poll
  <2>1. PackBatch /\ look.main < MainBatches /\ helper' = helper
    BY <1>12 DEF Poll
  <2>2. look.tile % 2 \in Banks
    BY BankFacts DEF Types, HostTypes
  <2>3. /\ look'.valid = look.valid /\ look'.tile = look.tile /\ look'.main = look.main + 1
        /\ ddrW'[look.tile % 2][2] = ddrW[look.tile % 2][2] /\ ddrS'[look.tile % 2][2] = ddrS[look.tile % 2][2]
        /\ look.main + 1 = MainBatches =>
             ddrW'[look.tile % 2][1] = WeightOf(look.tile) /\ ddrS'[look.tile % 2][1] = look.tile
    BY <2>1, <2>2, BatchEffects
  <2> QED
    BY <1>1, <2>1, <2>3 DEF Ahead, WeightOf, Contents
<1>13. CASE FinalizePack
  <2>1. PackBatch /\ look.main < MainBatches /\ helper' = helper
    BY <1>13 DEF FinalizePack
  <2>2. look.tile % 2 \in Banks
    BY BankFacts DEF Types, HostTypes
  <2>3. /\ look'.valid = look.valid /\ look'.tile = look.tile /\ look'.main = look.main + 1
        /\ ddrW'[look.tile % 2][2] = ddrW[look.tile % 2][2] /\ ddrS'[look.tile % 2][2] = ddrS[look.tile % 2][2]
        /\ look.main + 1 = MainBatches =>
             ddrW'[look.tile % 2][1] = WeightOf(look.tile) /\ ddrS'[look.tile % 2][1] = look.tile
    BY <2>1, <2>2, BatchEffects
  <2> QED
    BY <1>1, <2>1, <2>3 DEF Ahead, WeightOf, Contents
<1>14. CASE FinalizeJoin
  <2>1. /\ UNCHANGED <<ddrW, ddrS>> /\ helper.state = "done"
        /\ look'.valid = look.valid /\ look'.tile = look.tile /\ look'.main = look.main
    BY <1>14 DEF FinalizeJoin, Types, HostTypes
  <2> QED
    BY <1>1, <2>1 DEF Ahead, WeightOf, Contents
<1>15. CASE CallFails
  <2>1. look'.valid = FALSE
    BY <1>15 DEF CallFails, Types, HostTypes
  <2> QED
    BY <2>1 DEF Ahead
<1>16. CASE Unwind
  <2>1. ~look.valid
    BY <1>16 DEF Unwind, Lookahead, Packing, Submitting, Between
  <2>2. look'.valid = look.valid
    BY <1>16 DEF Unwind, Types, HostTypes
  <2> QED
    BY <2>1, <2>2 DEF Ahead
<1>17. CASE HelperBegin
  <2>1. look' = look /\ helper.state # "idle" /\ helper.tile % 2 \in Banks
    BY <1>17, BankFacts DEF HelperBegin, Types, DataTypes
  <2>2. helper.tile = look.tile
    BY <2>1 DEF Lookahead
  <2>3. /\ ddrW'[look.tile % 2][1] = ddrW[look.tile % 2][1] /\ ddrS'[look.tile % 2][1] = ddrS[look.tile % 2][1]
        /\ \/ helper'.state = "half"
           \/ ddrW'[look.tile % 2][2] = WeightOf(look.tile) /\ ddrS'[look.tile % 2][2] = look.tile
    BY <1>17, <2>1, <2>2, HelperEffects
  <2> QED
    BY <1>1, <2>1, <2>3 DEF Ahead, WeightOf, Contents
<1>18. CASE HelperDone
  <2>1. look' = look /\ helper.state # "idle" /\ helper.tile % 2 \in Banks
    BY <1>18, BankFacts DEF HelperDone, Types, DataTypes
  <2>2. helper.tile = look.tile
    BY <2>1 DEF Lookahead
  <2>3. /\ ddrW'[look.tile % 2][1] = ddrW[look.tile % 2][1] /\ ddrS'[look.tile % 2][1] = ddrS[look.tile % 2][1]
        /\ \/ helper'.state = "half"
           \/ ddrW'[look.tile % 2][2] = WeightOf(look.tile) /\ ddrS'[look.tile % 2][2] = look.tile
    BY <1>18, <2>1, <2>2, HelperEffects
  <2> QED
    BY <1>1, <2>1, <2>3 DEF Ahead, WeightOf, Contents
<1>19. CASE UNCHANGED vars
  BY <1>19, <1>1 DEF vars, Ahead, WeightOf, Contents
<1> QED
  BY <1>4, <1>5, <1>6, <1>7, <1>8, <1>9, <1>10, <1>11, <1>12, <1>13, <1>14, <1>15, <1>16,
     <1>17, <1>18, <1>19 DEF Next, Host, Helper, Device, Finished

\* Weights marked for reuse stay where they are until the mark is dropped.
LEMMA ReusableStep ==
  ASSUME Types, Types', Lookahead, Scheduled, Owned, Quiet, Qualified, Contents, [Next]_vars
  PROVE  Reusable'
<1> USE DEF config, tally, hostVars, ddr, device
<1>1. /\ UNCHANGED <<shape, overlap, pipeline, resident, route, limit>>
      /\ (Serial' <=> Serial) /\ Total' = Total /\ (t' = t => Bank' = Bank)
  BY ConfigFixed DEF Bank, Serial, Total
<1>2. /\ Bank \in Banks /\ t \in Nat /\ (~Serial => (t + 1) % 2 = 1 - Bank) /\ (Serial => Bank = 0)
      /\ pc \in Pcs /\ jobs \in [Banks -> JobType] /\ (Serial => ~overlap /\ ~pipeline)
  BY BankFacts DEF Types, HostTypes, ConfigTypes
<1>3. t' \in Nat /\ Bank' \in Banks
  <2>1. t' \in Nat
    BY DEF Types, HostTypes
  <2>2. \A n \in Nat : n % 2 \in Banks /\ 0 \in Banks
    BY DEF Banks
  <2> QED
    BY <2>1, <2>2 DEF Bank
<1>4. CASE Drain \/ OutDmaDone \/ Release \/ AccumulateAndRelease \/ AccumulatePending
          \/ PrepareActivation
  BY <1>4, <1>1 DEF Drain, OutDmaDone, Release, AccumulateAndRelease, AccumulatePending,
     PrepareActivation, Reusable, Whole, WeightOf, Contents
<1>5. CASE Admit \/ AdmitNothing \/ Submit \/ ActDmaDone \/ WeightDma \/ ScaleDma
  BY <1>5, <1>1 DEF Admit, AdmitNothing, Submit, ActDmaDone, WeightDma, ScaleDma, Reusable,
     Whole, WeightOf, Contents
<1>6. CASE ScaleDmaDone \/ Start \/ Transition \/ FinalizeJoin \/ NothingToFinalize \/ Carry
  BY <1>6, <1>1 DEF ScaleDmaDone, Start, Transition, FinalizeJoin, NothingToFinalize, Carry,
     Reusable, Whole, WeightOf, Contents
<1>7. CASE DrainRow \/ StoreRows \/ Return \/ VerifyTile \/ CompleteBoundary \/ CallFails
  BY <1>7, <1>1 DEF DrainRow, StoreRows, Return, VerifyTile, CompleteBoundary, CallFails,
     Reusable, Whole, WeightOf, Contents
<1>8. CASE Unwind \/ VpuDone \/ SpuFinal
  BY <1>8, <1>1 DEF Unwind, VpuDone, SpuFinal, Reusable, Whole, WeightOf, Contents
<1>9. CASE BeginRow
  <2>1. staging' = None /\ \A b \in Banks : ~loaded'[b]
    BY <1>9 DEF BeginRow, Banks
  <2> QED
    BY <2>1 DEF Reusable
<1>10. CASE Consume
  <2>1. UNCHANGED <<t, loaded, staging, bankW, ddrW>> /\ pc = "prepare"
    BY <1>10 DEF Consume
  <2> QED
    BY <1>1, <2>1 DEF Reusable, Whole, WeightOf, Contents
<1>11. CASE PrepareDirect
  <2>1. UNCHANGED <<t, loaded, bankW>> /\ pc = "prepare"
    BY <1>11 DEF PrepareDirect
  <2>2. PICK s \in Banks, src \in {0, 1, Window} :
           /\ s = 0 \/ (s = Bank /\ pipeline /\ shape.cols = 1)
           /\ \/ (src = Window \/ ReuseDirect) /\ ddrW' = ddrW
              \/ src = s /\ ddrW'[s] = Whole(WeightOf(t))
           /\ staging' \in {None, WeightOf(t)}
           /\ staging' # None => src = s /\ ~Serial /\ shape.cols # 1
    BY <1>11, DirectEffects
  <2>3. WeightOf(t) # None /\ shape.cols \in Nat \ {0} /\ Window \notin Banks
    BY <1>2, Numbers DEF None, Types, ConfigTypes, Window, Banks
  <2>4. staging' # None => ddrW'[0] = Whole(staging') /\ shape.cols > 1 /\ ~Serial
    <3>1. ReuseDirect => ddrW[0] = Whole(WeightOf(t))
      BY <2>1, <2>3 DEF Reusable, Contents, ReuseDirect
    <3> QED
      BY <2>2, <2>3, <3>1
  <2> QED
    BY <1>1, <2>1, <2>4 DEF Reusable, Whole, WeightOf, Contents
<1>12. CASE WeightDmaDone
  <2>1. pc = "weightDma" /\ ~Prepared.reused /\ UNCHANGED <<t, loaded, staging, ddrW>>
    BY <1>12 DEF WeightDmaDone, Contents, Transferred
  <2>2. WeightSource = Whole(WeightOf(t))
    BY <2>1 DEF Contents, Staged, Scheduled, InTile, Packing, Submitting
  <2>3. bankW'[Bank] = Whole(WeightOf(t)) /\ \A b \in Banks : b # Bank => bankW'[b] = bankW[b]
    BY <1>12, <1>2, <2>2 DEF WeightDmaDone, Types, DataTypes
  <2> QED
    BY <1>1, <2>1, <2>3 DEF Reusable, Whole, WeightOf, Contents
<1>13. CASE Poll
  <2>1. UNCHANGED <<pc, t, bankW, staging, loaded>> /\ (pc = "unwind" \/ shape.cols = 1)
    BY <1>13, PackedApart DEF device
  <2> QED
    BY <1>1, <2>1 DEF Reusable, Whole, WeightOf, Contents
<1>14. CASE FinalizePack
  <2>1. UNCHANGED <<pc, t, bankW, staging, loaded>> /\ (pc = "unwind" \/ shape.cols = 1)
    BY <1>14, PackedApart DEF device
  <2> QED
    BY <1>1, <2>1 DEF Reusable, Whole, WeightOf, Contents
<1>15. CASE Advance
  <2>1. pc = "advance" /\ t' = t + 1 /\ UNCHANGED <<bankW, ddrW>> /\ ~Serial
    BY <1>15 DEF Advance, Owned
  <2>2. CASE (t + 1) % shape.cols = 0
    <3>1. staging' = None /\ \A b \in Banks : ~loaded'[b]
      BY <1>15, <2>2 DEF Advance, Banks
    <3> QED
      BY <3>1 DEF Reusable
  <2>3. CASE (t + 1) % shape.cols # 0
    <3>1. loaded' = [loaded EXCEPT ![Bank] = TRUE] /\ staging' = staging
      BY <1>15, <2>3 DEF Advance
    <3>2. \A b \in Banks : loaded'[b] => bankW[b] = Whole(WeightOf(t))
      BY <1>2, <2>1, <3>1 DEF Contents, Reusable, Transferred, Types, HostTypes
    <3>3. WeightOf(t)' = WeightOf(t)
      <4>1. WeightOf(t + 1) = WeightOf(t)
        BY <1>2, <2>3, Numbers DEF Types
      <4> QED
        BY <1>1, <2>1, <4>1 DEF WeightOf
    <3>4. (staging # None => ddrW[0] = Whole(staging)) /\ (staging # None => shape.cols > 1)
      BY <2>1 DEF Contents, Reusable
    <3> QED
      BY <1>1, <2>1, <3>1, <3>2, <3>3, <3>4 DEF Reusable, Whole
  <2> QED
    BY <2>2, <2>3
<1>16. CASE RetireTile
  <2>1. Serial /\ UNCHANGED <<loaded, staging>>
    BY <1>16 DEF RetireTile, Owned
  <2> QED
    BY <1>1, <2>1 DEF Reusable, Contents
<1>17. CASE HelperBegin
  <2>1. UNCHANGED <<pc, t, bankW, staging, loaded>> /\ (pc = "unwind" \/ shape.cols = 1)
    BY <1>17, PackedApart DEF device
  <2> QED
    BY <1>1, <2>1 DEF Reusable, Whole, WeightOf, Contents
<1>18. CASE HelperDone
  <2>1. UNCHANGED <<pc, t, bankW, staging, loaded>> /\ (pc = "unwind" \/ shape.cols = 1)
    BY <1>18, PackedApart DEF device
  <2> QED
    BY <1>1, <2>1 DEF Reusable, Whole, WeightOf, Contents
<1>19. CASE UNCHANGED vars
  BY <1>19, <1>1 DEF vars, Reusable, Whole, WeightOf, Contents
<1> QED
  BY <1>4, <1>5, <1>6, <1>7, <1>8, <1>9, <1>10, <1>11, <1>12, <1>13, <1>14, <1>15, <1>16,
     <1>17, <1>18, <1>19 DEF Next, Host, Helper, Device, Finished

\* The banks and the scale window hold what was transferred to them.
LEMMA TransferredStep ==
  ASSUME Types, Types', Lookahead, Scheduled, Owned, Quiet, Qualified, Contents, [Next]_vars
  PROVE  Transferred'
<1> USE DEF config, tally, hostVars, ddr, device
<1>1. /\ UNCHANGED <<shape, overlap, pipeline, resident, route, limit>>
      /\ (Serial' <=> Serial) /\ Total' = Total /\ (t' = t => Bank' = Bank)
  BY ConfigFixed DEF Bank, Serial, Total
<1>2. /\ Bank \in Banks /\ t \in Nat /\ (~Serial => (t + 1) % 2 = 1 - Bank) /\ (Serial => Bank = 0)
      /\ pc \in Pcs /\ jobs \in [Banks -> JobType] /\ (Serial => ~overlap /\ ~pipeline)
  BY BankFacts DEF Types, HostTypes, ConfigTypes
<1>3. t' \in Nat /\ Bank' \in Banks
  <2>1. t' \in Nat
    BY DEF Types, HostTypes
  <2>2. \A n \in Nat : n % 2 \in Banks /\ 0 \in Banks
    BY DEF Banks
  <2> QED
    BY <2>1, <2>2 DEF Bank
<1>4. CASE BeginRow \/ Drain \/ OutDmaDone \/ Release \/ AccumulateAndRelease
          \/ PrepareActivation
  BY <1>4, <1>1 DEF BeginRow, Drain, OutDmaDone, Release, AccumulateAndRelease,
     PrepareActivation, Transferred, Prepared, Whole, WeightOf, ActOf, RowTiles, Contents
<1>5. CASE Admit \/ AdmitNothing \/ Submit \/ ScaleDma \/ Start \/ Transition
  BY <1>5, <1>1 DEF Admit, AdmitNothing, Submit, ScaleDma, Start, Transition, Transferred,
     Prepared, Whole, WeightOf, ActOf, RowTiles, Contents
<1>6. CASE FinalizeJoin \/ NothingToFinalize \/ Carry \/ DrainRow \/ StoreRows \/ Return
  BY <1>6, <1>1 DEF FinalizeJoin, NothingToFinalize, Carry, DrainRow, StoreRows, Return,
     Transferred, Prepared, Whole, WeightOf, ActOf, RowTiles, Contents
<1>7. CASE VerifyTile \/ CompleteBoundary \/ CallFails \/ Unwind \/ VpuDone \/ SpuFinal
  BY <1>7, <1>1 DEF VerifyTile, CompleteBoundary, CallFails, Unwind, VpuDone, SpuFinal,
     Transferred, Prepared, Whole, WeightOf, ActOf, RowTiles, Contents
<1>8. CASE Consume
  <2>1. pc' \in {"submit", "activation", "drain"}
    BY <1>8, ChecksHold DEF Consume, AfterPrepare
  <2> QED
    BY <2>1 DEF Transferred
<1>9. CASE PrepareDirect
  <2>1. pc' \in {"submit", "activation", "drain"}
    BY <1>9, ChecksHold DEF PrepareDirect, AfterPrepare
  <2> QED
    BY <2>1 DEF Transferred
<1>10. CASE AccumulatePending
  <2>1. pc = "consume" /\ pc' = "transition" /\ UNCHANGED <<t, bankW>>
    BY <1>10, ChecksHold DEF AccumulatePending
  <2> QED
    BY <1>1, <2>1 DEF Transferred, Prepared, Whole, WeightOf, ActOf, RowTiles, Contents
<1>11. CASE ActDmaDone
  <2>1. pc = "actDma" /\ pc' = "weight" /\ UNCHANGED t /\ bankA'[Bank] = ddrAct
    BY <1>11, <1>2 DEF ActDmaDone, Types, DataTypes
  <2>2. ddrAct = ActOf(t)
    BY <2>1 DEF Contents, Staged, Scheduled, InTile, Packing, Submitting, Retiring
  <2> QED
    BY <1>1, <2>1, <2>2 DEF Transferred, Prepared, Whole, WeightOf, ActOf, RowTiles
<1>12. CASE WeightDma
  <2>1. pc = "weight" /\ UNCHANGED <<t, jobs, bankA, bankW>> /\ pc' = (IF Prepared.reused THEN "quiescent" ELSE "weightDma")
    BY <1>12 DEF WeightDma
  <2>2. Prepared.reused => bankW[Bank] = Whole(WeightOf(t))
    BY <2>1 DEF Contents, Staged, Scheduled, InTile, Packing, Submitting
  <2> QED
    BY <1>1, <2>1, <2>2 DEF Transferred, Prepared, Whole, WeightOf, ActOf, RowTiles, Contents
<1>13. CASE WeightDmaDone
  <2>1. pc = "weightDma" /\ pc' = "quiescent" /\ UNCHANGED <<t, bankA>> /\ bankW'[Bank] = WeightSource
    BY <1>13, <1>2 DEF WeightDmaDone, Types, DataTypes
  <2>2. WeightSource = Whole(WeightOf(t))
    BY <2>1 DEF Contents, Staged, Transferred, Scheduled, InTile, Packing, Submitting
  <2> QED
    BY <1>1, <2>1, <2>2 DEF Transferred, Prepared, Whole, WeightOf, ActOf, RowTiles, Contents
<1>14. CASE ScaleDmaDone
  <2>1. pc = "scaleDma" /\ pc' = "start" /\ UNCHANGED <<t, bankA, bankW>> /\ param' = ddrS[Prepared.slot]
    BY <1>14 DEF ScaleDmaDone
  <2>2. ddrS[Prepared.slot] = Whole(t)
    BY <2>1 DEF Contents, Staged, Scheduled, InTile, Packing, Submitting
  <2> QED
    BY <1>1, <2>1, <2>2 DEF Transferred, Prepared, Whole, WeightOf, ActOf, RowTiles, Contents
<1>15. CASE Poll
  <2>1. UNCHANGED <<pc, t, jobs, bankA, bankW, param>>
    BY <1>15, PackedApart DEF device
  <2> QED
    BY <1>1, <2>1 DEF Transferred, Prepared, Whole, WeightOf, ActOf, RowTiles, Contents
<1>16. CASE FinalizePack
  <2>1. UNCHANGED <<pc, t, jobs, bankA, bankW, param>>
    BY <1>16, PackedApart DEF device
  <2> QED
    BY <1>1, <2>1 DEF Transferred, Prepared, Whole, WeightOf, ActOf, RowTiles, Contents
<1>17. CASE Advance
  BY <1>17 DEF Advance, Transferred
<1>18. CASE RetireTile
  BY <1>18 DEF RetireTile, Transferred
<1>19. CASE HelperBegin
  <2>1. UNCHANGED <<pc, t, jobs, bankA, bankW, param>>
    BY <1>19, PackedApart DEF device
  <2> QED
    BY <1>1, <2>1 DEF Transferred, Prepared, Whole, WeightOf, ActOf, RowTiles, Contents
<1>20. CASE HelperDone
  <2>1. UNCHANGED <<pc, t, jobs, bankA, bankW, param>>
    BY <1>20, PackedApart DEF device
  <2> QED
    BY <1>1, <2>1 DEF Transferred, Prepared, Whole, WeightOf, ActOf, RowTiles, Contents
<1>21. CASE UNCHANGED vars
  BY <1>21, <1>1 DEF vars, Transferred, Prepared, Whole, WeightOf, ActOf, RowTiles, Contents
<1> QED
  BY <1>4, <1>5, <1>6, <1>7, <1>8, <1>9, <1>10, <1>11, <1>12, <1>13, <1>14, <1>15, <1>16,
     <1>17, <1>18, <1>19, <1>20, <1>21 DEF Next, Host, Helper, Device, Finished

\* A started tile is multiplied and scaled with its own data, and its result kept until it is read.
LEMMA ComputedStep ==
  ASSUME Types, Types', Lookahead, Scheduled, Owned, Quiet, Qualified, Contents, [Next]_vars
  PROVE  Computed'
<1> USE DEF config, tally, hostVars, ddr, device
<1>1. /\ UNCHANGED <<shape, overlap, pipeline, resident, route, limit>>
      /\ (Serial' <=> Serial) /\ Total' = Total /\ (t' = t => Bank' = Bank)
  BY ConfigFixed DEF Bank, Serial, Total
<1>2. /\ Bank \in Banks /\ t \in Nat /\ (~Serial => (t + 1) % 2 = 1 - Bank) /\ (Serial => Bank = 0)
      /\ pc \in Pcs /\ jobs \in [Banks -> JobType] /\ (Serial => ~overlap /\ ~pipeline)
  BY BankFacts DEF Types, HostTypes, ConfigTypes
<1>3. t' \in Nat /\ Bank' \in Banks
  <2>1. t' \in Nat
    BY DEF Types, HostTypes
  <2>2. \A n \in Nat : n % 2 \in Banks /\ 0 \in Banks
    BY DEF Banks
  <2> QED
    BY <2>1, <2>2 DEF Bank
<1>4. CASE BeginRow \/ Drain \/ PrepareActivation \/ Admit \/ AdmitNothing \/ Submit
  BY <1>4, <1>1 DEF BeginRow, Drain, PrepareActivation, Admit, AdmitNothing, Submit,
     Computed, Product, Whole, WeightOf, ActOf, RowTiles, Runner, Submitting, Contents
<1>5. CASE WeightDma \/ ScaleDma \/ Transition \/ FinalizeJoin \/ NothingToFinalize \/ Carry
  BY <1>5, <1>1 DEF WeightDma, ScaleDma, Transition, FinalizeJoin, NothingToFinalize, Carry,
     Computed, Product, Whole, WeightOf, ActOf, RowTiles, Runner, Submitting, Contents
<1>6. CASE DrainRow \/ StoreRows \/ Return \/ VerifyTile \/ RetireTile \/ CompleteBoundary
  BY <1>6, <1>1 DEF DrainRow, StoreRows, Return, VerifyTile, RetireTile, CompleteBoundary,
     Computed, Product, Whole, WeightOf, ActOf, RowTiles, Runner, Submitting, Contents
<1>7. CASE CallFails \/ Unwind
  BY <1>7, <1>1 DEF CallFails, Unwind, Computed, Product, Whole, WeightOf, ActOf, RowTiles,
     Runner, Submitting, Contents
<1>8. CASE Consume
  <2>1. pc = "prepare" /\ UNCHANGED <<bankA, bankW, param, out, ip>> /\ running' = running
    BY <1>8 DEF Consume
  <2>2. pc' \in {"submit", "activation", "drain"} /\ (pc' # "drain" => running = NoJob)
    BY <1>8, <2>1, ChecksHold DEF Consume, AfterPrepare, Owned
  <2> QED
    BY <1>1, <2>1, <2>2 DEF Computed, Product, Whole, WeightOf, ActOf, RowTiles, Submitting,
       Contents
<1>9. CASE PrepareDirect
  <2>1. pc = "prepare" /\ UNCHANGED <<bankA, bankW, param, out, ip>> /\ running' = running
    BY <1>9 DEF PrepareDirect
  <2>2. pc' \in {"submit", "activation", "drain"} /\ (pc' # "drain" => running = NoJob)
    BY <1>9, <2>1, ChecksHold DEF PrepareDirect, AfterPrepare, Owned
  <2> QED
    BY <1>1, <2>1, <2>2 DEF Computed, Product, Whole, WeightOf, ActOf, RowTiles, Submitting,
       Contents
<1>10. CASE OutDmaDone
  <2>1. pc = "outDma" /\ UNCHANGED <<bankA, bankW, param, out, ip>> /\ running' = running /\ running \in Banks /\ ddrOut' = out
    BY <1>10, ChecksHold DEF OutDmaDone, Retiring
  <2>2. jobs'[running].tile = Runner.tile
    BY <1>10, <2>1, RetireEffects DEF Runner
  <2>3. out = Product(Runner.tile)
    BY <2>1 DEF Contents, Computed, Quiet, Owned, Between, Banks, NoJob
  <2> QED
    BY <1>1, <2>1, <2>2, <2>3 DEF Computed, Product, Whole, WeightOf, ActOf, RowTiles,
       Runner, Contents
<1>11. CASE Release
  <2>1. pc = "release" /\ UNCHANGED <<bankA, bankW, param, out, ip>> /\ running \in Banks /\ ddrOut' = ddrOut /\ running' \in {running, NoJob}
    BY <1>11, ChecksHold DEF Release, Retiring
  <2>2. jobs'[running].tile = Runner.tile
    BY <1>11, <2>1, RetireEffects DEF Runner
  <2>3. Runner.ready /\ ~Runner.consumed /\ running # NoJob
    BY <2>1 DEF Owned, Retiring
  <2>4. ddrOut = Product(Runner.tile)
    BY <2>1, <2>3 DEF Contents, Computed
  <2> QED
    BY <1>1, <2>1, <2>2, <2>4 DEF Computed, Product, Whole, WeightOf, ActOf, RowTiles,
       Runner, Contents
<1>12. CASE AccumulateAndRelease
  <2>1. pc = "accumulate" /\ UNCHANGED <<bankA, bankW, param, out, ip>> /\ running \in Banks /\ ddrOut' = ddrOut /\ running' \in {running, NoJob}
    BY <1>12, ChecksHold DEF AccumulateAndRelease, Retiring
  <2>2. jobs'[running].tile = Runner.tile
    BY <1>12, <2>1, RetireEffects DEF Runner
  <2>3. Runner.ready /\ ~Runner.consumed /\ running # NoJob
    BY <2>1 DEF Owned, Retiring
  <2>4. ddrOut = Product(Runner.tile)
    BY <2>1, <2>3 DEF Contents, Computed
  <2> QED
    BY <1>1, <2>1, <2>2, <2>4 DEF Computed, Product, Whole, WeightOf, ActOf, RowTiles,
       Runner, Contents
<1>13. CASE AccumulatePending
  <2>1. UNCHANGED <<bankA, bankW, param, out, ip>> /\ pc' = "transition"
    BY <1>13, ChecksHold DEF AccumulatePending
  <2> QED
    BY <1>1, <2>1 DEF Computed, Product, Whole, WeightOf, ActOf, RowTiles, Submitting, Contents
<1>14. CASE ActDmaDone
  <2>1. pc = "actDma" /\ UNCHANGED <<out, ip, running, jobs, ddrOut>> /\ pc' \in Submitting
    BY <1>14 DEF ActDmaDone, Submitting
  <2>2. ip.state \in {"idle", "final"}
    BY <2>1 DEF Quiet, Submitting
  <2> QED
    BY <1>1, <2>1, <2>2 DEF Computed, Product, Whole, WeightOf, ActOf, RowTiles, Runner,
       Submitting, Contents
<1>15. CASE WeightDmaDone
  <2>1. pc = "weightDma" /\ UNCHANGED <<out, ip, running, jobs, ddrOut>> /\ pc' \in Submitting
    BY <1>15 DEF WeightDmaDone, Submitting
  <2>2. ip.state \in {"idle", "final"}
    BY <2>1 DEF Quiet, Submitting
  <2> QED
    BY <1>1, <2>1, <2>2 DEF Computed, Product, Whole, WeightOf, ActOf, RowTiles, Runner,
       Submitting, Contents
<1>16. CASE ScaleDmaDone
  <2>1. pc = "scaleDma" /\ UNCHANGED <<out, ip, running, jobs, ddrOut>> /\ pc' \in Submitting
    BY <1>16 DEF ScaleDmaDone, Submitting
  <2>2. ip.state \in {"idle", "final"}
    BY <2>1 DEF Quiet, Submitting
  <2> QED
    BY <1>1, <2>1, <2>2 DEF Computed, Product, Whole, WeightOf, ActOf, RowTiles, Runner,
       Submitting, Contents
<1>17. CASE Start
  <2>1. pc = "start" /\ UNCHANGED <<bankA, bankW, param, jobs, ddrOut>> /\ Prepared.tile = t
    BY <1>17 DEF Start, Scheduled, InTile, Packing, Submitting
  <2>2. ip'.state = "vpu" /\ ip'.bank = Bank /\ ip'.tile = t
    BY <1>17, <2>1 DEF Start
  <2>3. bankA[Bank] = ActOf(t) /\ bankW[Bank] = Whole(WeightOf(t)) /\ param = Whole(t)
    BY <2>1 DEF Contents, Transferred
  <2>4. pc' # "drain" => running' = running /\ pc' \in {"finalize", "consume", "transition"}
    BY <1>17 DEF Start
  <2>5. pc' = "consume" => (running # NoJob => (Runner.ready /\ ~Runner.consumed => ddrOut = Product(Runner.tile)))
    BY <2>1 DEF Contents, Computed, Submitting
  <2>6. pc' = "drain" \/ pc' \in {"finalize", "consume", "transition"}
    BY <1>17 DEF Start
  <2> QED
    BY <1>1, <2>1, <2>2, <2>3, <2>4, <2>5, <2>6 DEF Computed, Product, Whole, WeightOf,
       ActOf, RowTiles, Runner, Submitting
<1>18. CASE Poll
  <2>1. UNCHANGED <<pc, jobs, running, ddrOut, bankA, bankW, param, out, ip>>
    BY <1>18, PackedApart DEF device
  <2> QED
    BY <1>1, <2>1 DEF Computed, Product, Whole, WeightOf, ActOf, RowTiles, Runner, Contents
<1>19. CASE FinalizePack
  <2>1. UNCHANGED <<pc, jobs, running, ddrOut, bankA, bankW, param, out, ip>>
    BY <1>19, PackedApart DEF device
  <2> QED
    BY <1>1, <2>1 DEF Computed, Product, Whole, WeightOf, ActOf, RowTiles, Runner, Contents
<1>20. CASE Advance
  <2>1. UNCHANGED <<bankA, bankW, param, out, ip>> /\ pc' \in {"rowEnd", "prepare"}
    BY <1>20 DEF Advance
  <2> QED
    BY <1>1, <2>1 DEF Computed, Product, Whole, WeightOf, ActOf, RowTiles, Submitting, Contents
<1>21. CASE HelperBegin
  <2>1. UNCHANGED <<pc, jobs, running, ddrOut, bankA, bankW, param, out, ip>>
    BY <1>21, PackedApart DEF device
  <2> QED
    BY <1>1, <2>1 DEF Computed, Product, Whole, WeightOf, ActOf, RowTiles, Runner, Contents
<1>22. CASE HelperDone
  <2>1. UNCHANGED <<pc, jobs, running, ddrOut, bankA, bankW, param, out, ip>>
    BY <1>22, PackedApart DEF device
  <2> QED
    BY <1>1, <2>1 DEF Computed, Product, Whole, WeightOf, ActOf, RowTiles, Runner, Contents
<1>23. CASE VpuDone
  <2>1. UNCHANGED <<pc, running, jobs, ddrOut, param, out>> /\ ip.state = "vpu"
    BY <1>23 DEF VpuDone
  <2>2. ip'.state = "spu" /\ ip'.tile = ip.tile /\ ip'.raw = <<bankW[ip.bank], bankA[ip.bank]>>
    BY <1>23 DEF VpuDone, Types, DataTypes
  <2> QED
    BY <1>1, <2>1, <2>2 DEF Computed, Product, Whole, WeightOf, ActOf, RowTiles, Runner, Contents
<1>24. CASE SpuFinal
  <2>1. UNCHANGED <<pc, running, jobs, ddrOut, param>> /\ ip.state = "spu"
    BY <1>24 DEF SpuFinal
  <2>2. ip'.state = "final" /\ ip'.tile = ip.tile /\ out' = [w |-> ip.raw[1], a |-> ip.raw[2], s |-> param]
    BY <1>24 DEF SpuFinal, Types, DataTypes
  <2>3. out' = Product(ip.tile)
    BY <2>1, <2>2 DEF Contents, Computed, Product
  <2> QED
    BY <1>1, <2>1, <2>2, <2>3 DEF Computed, Product, Whole, WeightOf, ActOf, RowTiles,
       Runner, Contents
<1>25. CASE UNCHANGED vars
  BY <1>25, <1>1 DEF vars, Computed, Product, Whole, WeightOf, ActOf, RowTiles, Runner,
     Submitting, Contents
<1> QED
  BY <1>4, <1>5, <1>6, <1>7, <1>8, <1>9, <1>10, <1>11, <1>12, <1>13, <1>14, <1>15, <1>16,
     <1>17, <1>18, <1>19, <1>20, <1>21, <1>22, <1>23, <1>24, <1>25 DEF Next, Host, Helper,
     Device, Finished

(***************************************************************************)
(* The theorems                                                            *)
(***************************************************************************)

\* The invariant holds when a matmul is entered.
LEMMA InitHolds ==
  ASSUME Init PROVE Inv
<1>1. /\ pc = "row" /\ t = 0 /\ running = NoJob /\ ahead = FALSE /\ checked = 0 /\ boundary = FALSE
      /\ staging = None /\ look = NoLook /\ dma = NoDma /\ helper = [state |-> "idle", tile |-> None]
      /\ ip = [state |-> "idle", bank |-> 0, tile |-> None, raw |-> NoRaw]
  BY DEF Init
<1>2. ConfigTypes
  <2>1. /\ shape \in [rows : Nat \ {0}, groups : Nat \ {0}, cols : Nat \ {0}]
        /\ route \in {"pingpong", "serial", "contract"} /\ limit \in Nat
    BY PipelineAssumption DEF Init
  <2>2. overlap \in {FALSE, ~Serial} /\ pipeline \in {FALSE, ~Serial} /\ resident \in BOOLEAN
    BY Zenon DEF Init
  <2>3. (Serial \in BOOLEAN) /\ overlap \in BOOLEAN /\ pipeline \in BOOLEAN /\ (Serial => ~overlap /\ ~pipeline)
    BY <2>2, Zenon DEF Serial
  <2> QED
    BY <2>1, <2>2, <2>3, Zenon DEF ConfigTypes
<1>3. \A b \in Banks : jobs[b] = [tile |-> -1, src |-> 0, slot |-> 0, reused |-> FALSE,
                                  ready |-> FALSE, released |-> FALSE, consumed |-> FALSE]
  BY DEF Init, Job, Banks, None
<1>4. jobs \in [Banks -> JobType]
  <2>1. jobs = [b \in Banks |-> Job(None, 0, 0)]
    BY DEF Init, Banks
  <2> QED
    BY <2>1 DEF Job, JobType, Banks, None
<1>5. Bank = 0 /\ Prepared = jobs[0] /\ 0 \in Banks /\ Prepared.tile = -1
  BY <1>1, <1>3 DEF Bank, Prepared, Banks
<1>6. loaded \in [Banks -> BOOLEAN] /\ \A b \in Banks : ~loaded[b]
  BY DEF Init, Banks
<1>7. /\ look \in [valid : BOOLEAN, submitted : BOOLEAN, tile : Int, main : Nat]
      /\ ~look.valid /\ ~look.submitted /\ helper.state = "idle" /\ ip.state = "idle"
  BY <1>1 DEF NoLook, None
<1>8. HostTypes
  <2>1. /\ pc \in Pcs /\ t \in Nat /\ running \in {0, 1, NoJob} /\ checked \in Nat /\ staging \in Int
    BY <1>1 DEF Pcs, None
  <2>2. ahead \in BOOLEAN /\ boundary \in BOOLEAN
    BY <1>1, Zenon
  <2> QED
    BY <1>4, <1>6, <1>7, <2>1, <2>2, Zenon DEF HostTypes
<1>9. DataTypes
  <2>1. /\ ddrW \in [Banks -> Pair] /\ ddrS \in [Banks -> Pair]
        /\ bankA \in [Banks -> Int] /\ bankW \in [Banks -> Pair] /\ ddrAct \in Int
    BY DEF Init, Banks, Pair, Whole, None
  <2>2. helper \in [state : {"idle", "working", "half", "done"}, tile : Int]
    BY <1>1 DEF None
  <2>3. ip \in [state : {"idle", "vpu", "spu", "final"}, bank : Banks, tile : Int, raw : Pair \X Int]
    BY <1>1 DEF None, NoRaw, Whole, Pair, Banks
  <2> QED
    BY <2>1, <2>2, <2>3 DEF DataTypes
<1>10. Lookahead /\ Quiet
  BY <1>1, <1>7 DEF Lookahead, Quiet
<1>11. Scheduled
  BY <1>1, <1>3, <1>5 DEF Scheduled, Between, InTile, Packing, Submitting, Retiring
<1>12. Owned
  BY <1>1 DEF Owned, Retiring, Submitting
<1>13. Qualified
  <2>1. route = "contract" => limit \in Nat \ {0}
    BY PipelineAssumption DEF Init
  <2> QED
    BY <1>1, <2>1 DEF Qualified
<1>14. OwnershipHolds /\ DmaSourceStable
  BY <1>1 DEF OwnershipHolds, DmaSourceStable
<1>15. Contents
  BY <1>1, <1>5, <1>6, <1>7 DEF Contents, Staged, Ahead, Reusable, Transferred, Computed
<1> QED
  BY <1>2, <1>8, <1>9, <1>10, <1>11, <1>12, <1>13, <1>14, <1>15 DEF Inv, Types, Control

\* Every state of a run satisfies the invariant: the host, the helper and the
\* accelerator together keep the schedule and the contents of every window.
THEOREM Inductive == Spec => []Inv
<1>1. Init => Inv
  BY InitHolds
<1>2. Inv /\ [Next]_vars => Inv'
  <2> SUFFICES ASSUME Inv, [Next]_vars PROVE Inv'
    OBVIOUS
  <2>1. Types /\ Lookahead /\ Scheduled /\ Owned /\ Quiet /\ Qualified /\ Contents /\ Computed
    BY DEF Inv, Control, Contents
  <2>2. Types'
    BY <2>1, TypesStep
  <2>3. Lookahead'
    BY <2>1, <2>2, LookaheadStep
  <2>4. Scheduled' /\ Owned'
    BY <2>1, <2>2, ScheduledStep, OwnedStep
  <2>5. Quiet' /\ Qualified'
    BY <2>1, <2>2, QuietStep, QualifiedStep
  <2>6. OwnershipHolds' /\ DmaSourceStable'
    BY <2>1, <2>2, <2>3, OwnershipStep, DmaStep DEF Inv
  <2>7. Staged' /\ Ahead' /\ Reusable' /\ Transferred' /\ Computed'
    BY <2>1, <2>2, StagedStep, AheadStep, ReusableStep, TransferredStep, ComputedStep
  <2> QED
    BY <2>2, <2>3, <2>4, <2>5, <2>6, <2>7 DEF Inv, Control, Contents
<1> QED
  BY <1>1, <1>2, PTL DEF Spec

\* No transfer of a tile reads a DDR window that the poll hook, the helper or
\* a preparation is writing, for matmuls of every shape and batch count.
THEOREM TransfersStable == Spec => []DmaSourceStable
<1>1. Inv => DmaSourceStable
  BY DEF Inv
<1> QED
  BY <1>1, Inductive, PTL

\* None of the scheduler's fail-closed checks can fire, and the matmul never
\* returns, with success or failure, while the helper still packs for it.
THEOREM OwnershipKept == Spec => []OwnershipHolds
<1>1. Inv => OwnershipHolds
  BY DEF Inv
<1> QED
  BY <1>1, Inductive, PTL

\* The step form of ComputeUndisturbed: what a computing job reads is written
\* at steps of the host at which the accelerator rests.
LEMMA ComputingKept ==
  ASSUME Types, Lookahead, Scheduled, Owned, Quiet, Qualified, [Next]_vars, ip.state \in {"vpu", "spu"}
  PROVE  UNCHANGED <<bankA, bankW, param, desc>>
<1> USE DEF config, tally, hostVars, ddr, device
<1>1. CASE BeginRow
  BY <1>1 DEF BeginRow
<1>2. CASE Consume
  BY <1>2 DEF Consume
<1>3. CASE PrepareDirect
  BY <1>3 DEF PrepareDirect
<1>4. CASE Drain
  BY <1>4, ChecksHold DEF Drain
<1>5. CASE OutDmaDone
  BY <1>5 DEF OutDmaDone, Quiet, Submitting
<1>6. CASE Release
  BY <1>6 DEF Release, Quiet, Submitting
<1>7. CASE AccumulateAndRelease
  BY <1>7 DEF AccumulateAndRelease, Quiet, Submitting
<1>8. CASE AccumulatePending
  BY <1>8 DEF AccumulatePending
<1>9. CASE PrepareActivation
  BY <1>9 DEF PrepareActivation
<1>10. CASE Admit
  BY <1>10 DEF Admit
<1>11. CASE AdmitNothing
  BY <1>11 DEF AdmitNothing
<1>12. CASE Submit
  BY <1>12 DEF Submit, Quiet, Submitting
<1>13. CASE ActDmaDone
  BY <1>13 DEF ActDmaDone, Quiet, Submitting
<1>14. CASE WeightDma
  BY <1>14 DEF WeightDma
<1>15. CASE WeightDmaDone
  BY <1>15 DEF WeightDmaDone, Quiet, Submitting
<1>16. CASE ScaleDma
  BY <1>16 DEF ScaleDma
<1>17. CASE ScaleDmaDone
  BY <1>17 DEF ScaleDmaDone, Quiet, Submitting
<1>18. CASE Start
  BY <1>18 DEF Start, Quiet, Submitting
<1>19. CASE Poll
  BY <1>19, PackedApart
<1>20. CASE Transition
  BY <1>20 DEF Transition
<1>21. CASE FinalizePack
  BY <1>21, PackedApart
<1>22. CASE FinalizeJoin
  BY <1>22 DEF FinalizeJoin
<1>23. CASE NothingToFinalize
  BY <1>23 DEF NothingToFinalize
<1>24. CASE Advance
  BY <1>24 DEF Advance
<1>25. CASE Carry
  BY <1>25 DEF Carry
<1>26. CASE DrainRow
  BY <1>26 DEF DrainRow
<1>27. CASE StoreRows
  BY <1>27 DEF StoreRows
<1>28. CASE Return
  BY <1>28 DEF Return
<1>29. CASE VerifyTile
  BY <1>29 DEF VerifyTile
<1>30. CASE RetireTile
  BY <1>30 DEF RetireTile
<1>31. CASE CompleteBoundary
  BY <1>31 DEF CompleteBoundary
<1>32. CASE CallFails
  BY <1>32 DEF CallFails
<1>33. CASE Unwind
  BY <1>33 DEF Unwind
<1>34. CASE HelperBegin
  BY <1>34, PackedApart
<1>35. CASE HelperDone
  BY <1>35, PackedApart
<1>36. CASE VpuDone
  BY <1>36 DEF VpuDone
<1>37. CASE SpuFinal
  BY <1>37 DEF SpuFinal
<1>38. CASE UNCHANGED vars
  BY <1>38 DEF vars
<1> QED
  BY <1>1, <1>2, <1>3, <1>4, <1>5, <1>6, <1>7, <1>8, <1>9, <1>10, <1>11, <1>12, <1>13,
     <1>14, <1>15, <1>16, <1>17, <1>18, <1>19, <1>20, <1>21, <1>22, <1>23, <1>24, <1>25,
     <1>26, <1>27, <1>28, <1>29, <1>30, <1>31, <1>32, <1>33, <1>34, <1>35, <1>36, <1>37,
     <1>38 DEF Next, Host, Helper, Device, Finished

\* While a job computes, no step of the host or the helper changes its bank,
\* the shared scale window or the un-banked descriptor.
THEOREM ComputeSafe == Spec => ComputeUndisturbed
<1>1. Inv /\ [Next]_vars =>
        [ip.state \in {"vpu", "spu"} =>
           /\ bankA'[ip.bank] = bankA[ip.bank] /\ bankW'[ip.bank] = bankW[ip.bank]
           /\ param' = param /\ desc' = desc]_vars
  <2> SUFFICES ASSUME Inv, [Next]_vars, ip.state \in {"vpu", "spu"}
               PROVE  UNCHANGED <<bankA, bankW, param, desc>>
    OBVIOUS
  <2> QED
    BY ComputingKept DEF Inv, Control
<1> QED
  BY <1>1, Inductive, PTL DEF Spec, ComputeUndisturbed

(***************************************************************************)
(* The results: arithmetic of tile numbers                                 *)
(***************************************************************************)

\* Quotient and remainder are determined by what they sum up to.
LEMMA Division ==
  ASSUME NEW d \in Nat \ {0}, NEW q \in Nat, NEW x \in 0..d - 1, NEW n \in Nat, n = q * d + x
  PROVE  n \div d = q /\ n % d = x
<1>2. PICK p \in Nat, y \in 0..d - 1 : p = n \div d /\ y = n % d /\ n = d * p + y
  OBVIOUS
<1>3. p * d + y = q * d + x
  BY <1>2
<1>4. ASSUME p < q PROVE FALSE
  <2>1. PICK k \in Nat : q = p + 1 + k
    BY <1>4
  <2>2. q * d = p * d + d + k * d
    BY <2>1
  <2>3. k * d \in Nat /\ p * d \in Nat
    BY <2>1
  <2> QED
    BY <1>3, <2>2, <2>3
<1>5. ASSUME q < p PROVE FALSE
  <2>1. PICK k \in Nat : p = q + 1 + k
    BY <1>5
  <2>2. p * d = q * d + d + k * d
    BY <2>1
  <2>3. k * d \in Nat /\ q * d \in Nat
    BY <2>1
  <2> QED
    BY <1>3, <2>2, <2>3
<1>6. p = q
  BY <1>4, <1>5
<1> QED
  BY <1>2, <1>3, <1>6

\* A number is made of its quotient and its remainder.
LEMMA Divided ==
  ASSUME NEW d \in Nat \ {0}, NEW n \in Nat
  PROVE  n \div d \in Nat /\ n % d \in 0..d - 1 /\ n = (n \div d) * d + (n % d)
<1>1. PICK p \in Nat, y \in 0..d - 1 : p = n \div d /\ y = n % d /\ n = d * p + y
  OBVIOUS
<1>2. n = p * d + y
  BY <1>1
<1> QED
  BY <1>1, <1>2, Zenon

\* A bounded quotient.
LEMMA QuotientBelow ==
  ASSUME NEW d \in Nat \ {0}, NEW m \in Nat, NEW n \in Nat, n < m * d
  PROVE  n \div d < m
<1>1. n \div d \in Nat /\ n % d \in 0..d - 1 /\ n = (n \div d) * d + (n % d)
  BY Divided
<1>2. PICK q \in Nat : q = n \div d
  BY <1>1
<1>3. ASSUME m <= q PROVE FALSE
  <2>1. PICK k \in Nat : q = m + k
    BY <1>3
  <2>2. q * d = m * d + k * d /\ k * d \in Nat /\ m * d \in Nat
    BY <2>1
  <2> QED
    BY <1>1, <1>2, <2>2
<1> QED
  BY <1>2, <1>3

\* What dst holds when the first k row groups of a matmul of shape s are stored.
Rows(s, k) == [r \in 0..s.rows - 1 |-> IF r < k THEN Contract!Product(s, r) ELSE Unset]

\* How many K groups column c has among the first j tiles of a row, and the sums
\* that these tiles leave in the accumulator.
Count(s, j, c) == (j \div s.cols) + (IF c < j % s.cols THEN 1 ELSE 0)
Sums(s, r, j) == [c \in 0..s.cols - 1 |->
                    [i \in 1..Count(s, j, c) |-> Contract!Contribution(s, r, i - 1, c)]]

\* Row group, K group and column of a tile number it, and the accelerator's
\* product of a tile is the contribution that its row group needs from it.
LEMMA Coordinates ==
  ASSUME ConfigTypes, NEW n \in Nat, n < Total
  PROVE  /\ RowOf(n) \in 0..shape.rows - 1 /\ ActOf(n) \in 0..RowTiles - 1
         /\ ColOf(n) = ActOf(n) % shape.cols /\ ColOf(n) \in 0..shape.cols - 1
         /\ Product(n) = Contract!Contribution(shape, RowOf(n), ActOf(n) \div shape.cols, ColOf(n))
<1> DEFINE R == shape.rows  G == shape.groups  C == shape.cols
           r == RowOf(n)  a == ActOf(n)  g == a \div C  c == a % C
<1>1. R \in Nat \ {0} /\ G \in Nat \ {0} /\ C \in Nat \ {0} /\ RowTiles \in Nat \ {0}
  BY Numbers DEF ConfigTypes
<1>2. r \in Nat /\ a \in 0..RowTiles - 1 /\ n = r * RowTiles + a
  BY <1>1, Divided DEF RowOf, ActOf
<1>3. r < R
  <2>1. Total = R * RowTiles
    BY <1>1 DEF Total, RowTiles
  <2> QED
    BY <1>1, <2>1, QuotientBelow DEF RowOf
<1>4. g \in Nat /\ c \in 0..C - 1 /\ a = g * C + c
  <2>1. a \in Nat
    BY <1>1, <1>2
  <2> QED
    BY <1>1, <2>1, Divided
<1>5. PICK r0 \in Nat, g0 \in Nat, c0 \in 0..C - 1 : r0 = r /\ g0 = g /\ c0 = c
  BY <1>2, <1>4
<1>6. n = (r0 * G + g0) * C + c0
  <2>1. n = r0 * (G * C) + (g0 * C + c0)
    BY <1>2, <1>4, <1>5 DEF RowTiles
  <2>2. (r0 * G + g0) * C = r0 * (G * C) + g0 * C
    BY <1>1
  <2>3. r0 * (G * C) \in Nat /\ g0 * C \in Nat /\ c0 \in Nat
    BY <1>1
  <2> QED
    BY <2>1, <2>2, <2>3
<1>7. WeightOf(n) = r0 * G + g0 /\ ColOf(n) = c0
  <2>1. PICK q \in Nat, d \in Nat \ {0} : q = r0 * G + g0 /\ d = C
    BY <1>1
  <2>2. PICK x \in 0..d - 1 : x = c0
    BY <1>5, <2>1
  <2>3. n = q * d + x
    BY <1>6, <2>1, <2>2
  <2> HIDE DEF R, G, C, r, a, g, c
  <2>4. n \div d = q /\ n % d = x
    BY <2>3, Division
  <2>5. WeightOf(n) = n \div d /\ ColOf(n) = n % d
    BY <2>1 DEF WeightOf, ColOf, C
  <2> QED
    BY <2>1, <2>2, <2>4, <2>5
<1>8. Product(n) = Contract!Contribution(shape, r, g, c)
  <2>1. Contract!TileOf(shape, r, g, c) = n
    BY <1>5, <1>6 DEF Contract!TileOf
  <2>2. WeightOf(n) = r * G + g /\ ActOf(n) = g * C + c
    BY <1>4, <1>5, <1>7
  <2> QED
    BY <2>1, <2>2 DEF Product, Whole, Contract!Contribution
<1> QED
  BY <1>1, <1>2, <1>3, <1>5, <1>7, <1>8

\* The tile after tile n: the next one of its row, or the first of the next row.
LEMMA NextTile ==
  ASSUME ConfigTypes, NEW n \in Nat
  PROVE  IF (n + 1) % RowTiles = 0
         THEN RowOf(n + 1) = RowOf(n) + 1 /\ ActOf(n + 1) = 0 /\ ActOf(n) + 1 = RowTiles
         ELSE RowOf(n + 1) = RowOf(n) /\ ActOf(n + 1) = ActOf(n) + 1
<1>1. PICK d \in Nat \ {0} : d = RowTiles
  BY Numbers
<1>2. PICK r \in Nat, a \in 0..d - 1 : r = RowOf(n) /\ a = ActOf(n) /\ n = r * d + a
  BY <1>1, Divided DEF RowOf, ActOf
<1>3. PICK k \in Nat, m \in Nat : k = r * d /\ m = n + 1 /\ m = k + (a + 1)
  BY <1>2
<1>4. CASE a + 1 = d
  <2>1. PICK q \in Nat, x \in 0..d - 1 : q = r + 1 /\ x = 0
    OBVIOUS
  <2>2. m = q * d + x
    BY <1>3, <1>4, <2>1
  <2>3. m \div d = q /\ m % d = x
    BY <2>2, Division
  <2> QED
    BY <1>1, <1>2, <1>3, <1>4, <2>1, <2>3 DEF RowOf, ActOf
<1>5. CASE a + 1 # d
  <2>1. PICK x \in 0..d - 1 : x = a + 1
    BY <1>5
  <2>2. m = r * d + x
    BY <1>3, <2>1
  <2>3. m \div d = r /\ m % d = x
    BY <2>2, Division
  <2> QED
    BY <1>1, <1>2, <1>3, <2>1, <2>3 DEF RowOf, ActOf
<1> QED
  BY <1>4, <1>5

\* One more tile of a row adds a K group to its own column and to no other.
LEMMA CountStep ==
  ASSUME NEW s, s.cols \in Nat \ {0}, NEW j \in Nat
  PROVE  /\ \A c \in 0..s.cols - 1 : Count(s, j, c) \in Nat
         /\ Count(s, j, j % s.cols) = j \div s.cols
         /\ Count(s, j + 1, j % s.cols) = (j \div s.cols) + 1
         /\ \A c \in 0..s.cols - 1 : c # j % s.cols => Count(s, j + 1, c) = Count(s, j, c)
<1>1. PICK d \in Nat \ {0} : d = s.cols
  OBVIOUS
<1>2. PICK g \in Nat, x \in 0..d - 1 : g = j \div d /\ x = j % d /\ j = g * d + x
  BY Divided
<1>3. PICK k \in Nat : k = g * d
  OBVIOUS
<1>4. PICK m \in Nat : m = j + 1 /\ m = k + (x + 1) /\ k = g * d
  BY <1>2, <1>3
<1>5. \A c : Count(s, j, c) = g + (IF c < x THEN 1 ELSE 0)
  BY <1>1, <1>2, Zenon DEF Count
<1>6. CASE x + 1 = d
  <2>1. PICK q \in Nat, y \in 0..d - 1 : q = g + 1 /\ y = 0
    OBVIOUS
  <2>2. m = q * d + y
    BY <1>4, <1>6, <2>1
  <2>3. m \div d = q /\ m % d = y
    BY <2>2, Division
  <2>4. \A c : Count(s, j + 1, c) = q + (IF c < y THEN 1 ELSE 0)
    BY <1>1, <1>4, <2>3, Zenon DEF Count
  <2>5. \A c \in 0..d - 1 : ~(c < y) /\ (c # x => c < x)
    BY <1>6, <2>1
  <2>6. \A c \in 0..d - 1 : /\ Count(s, j, c) \in Nat /\ Count(s, j + 1, x) = g + 1
                            /\ Count(s, j, x) = g /\ (c # x => Count(s, j + 1, c) = Count(s, j, c))
    BY <1>5, <2>1, <2>4, <2>5
  <2> QED
    BY <1>1, <1>2, <2>6, Zenon
<1>7. CASE x + 1 # d
  <2>1. PICK y \in 0..d - 1 : y = x + 1
    BY <1>7
  <2>2. m = g * d + y
    BY <1>4, <2>1
  <2>3. m \div d = g /\ m % d = y
    BY <2>2, Division
  <2>4. \A c : Count(s, j + 1, c) = g + (IF c < y THEN 1 ELSE 0)
    BY <1>1, <1>4, <2>3, Zenon DEF Count
  <2>5. \A c \in 0..d - 1 : c # x => (c < y <=> c < x)
    BY <2>1
  <2>6. \A c \in 0..d - 1 : /\ Count(s, j, c) \in Nat /\ Count(s, j + 1, x) = g + 1
                            /\ Count(s, j, x) = g /\ (c # x => Count(s, j + 1, c) = Count(s, j, c))
    BY <1>5, <2>1, <2>4, <2>5
  <2> QED
    BY <1>1, <1>2, <2>6, Zenon
<1> QED
  BY <1>6, <1>7

\* A row begins with empty sums and ends with all its K groups in every column.
LEMMA CountEnds ==
  ASSUME ConfigTypes, NEW c \in 0..shape.cols - 1
  PROVE  Count(shape, 0, c) = 0 /\ Count(shape, RowTiles, c) = shape.groups
<1>1. PICK d \in Nat \ {0}, g \in Nat \ {0} : d = shape.cols /\ g = shape.groups
  BY DEF ConfigTypes
<1>2. PICK m \in Nat : m = RowTiles /\ m = g * d + 0
  BY <1>1 DEF RowTiles
<1>3. PICK x \in 0..d - 1, z \in Nat : x = 0 /\ z = 0 /\ m = g * d + x /\ z = z * d + x
  BY <1>2
<1>4. m \div d = g /\ m % d = x /\ z \div d = z /\ z % d = x
  BY <1>3, Division
<1>5. /\ Count(shape, z, c) = z + (IF c < x THEN 1 ELSE 0)
      /\ Count(shape, m, c) = g + (IF c < x THEN 1 ELSE 0)
  BY <1>1, <1>4, Zenon DEF Count
<1> QED
  BY <1>1, <1>2, <1>3, <1>5

\* Appending the next element to the list of the first k.
LEMMA Appended ==
  ASSUME NEW s, NEW r, NEW c, NEW k \in Nat
  PROVE  Append([i \in 1..k |-> Contract!Contribution(s, r, i - 1, c)], Contract!Contribution(s, r, k, c))
           = [i \in 1..k + 1 |-> Contract!Contribution(s, r, i - 1, c)]
<1> DEFINE F(i) == Contract!Contribution(s, r, i - 1, c)
           S == {F(i) : i \in 1..k + 1}
           u == [i \in 1..k |-> F(i)]
           v == [i \in 1..k + 1 |-> F(i)]
<1>1. u \in Seq(S) /\ v \in Seq(S) /\ Len(u) = k /\ Len(v) = k + 1
  <2>1. u \in [1..k -> S] /\ v \in [1..k + 1 -> S] /\ k + 1 \in Nat
    OBVIOUS
  <2> HIDE DEF F, S, u, v
  <2>2. \A n \in Nat : [1..n -> S] \subseteq Seq(S)
    BY SeqDef, Zenon
  <2>3. u \in Seq(S) /\ v \in Seq(S)
    BY <2>1, <2>2, Zenon
  <2>4. /\ Len(u) \in Nat /\ DOMAIN u = 1..Len(u) /\ DOMAIN u = 1..k
        /\ Len(v) \in Nat /\ DOMAIN v = 1..Len(v) /\ DOMAIN v = 1..k + 1
    BY <2>1, <2>3, LenProperties
  <2>5. \A m, n \in Nat : 1..m = 1..n => m = n
    <3>1. ASSUME NEW m \in Nat, NEW n \in Nat, 1..m = 1..n PROVE m = n
      <4>1. \A i \in Nat : i \in 1..m <=> i \in 1..n
        BY <3>1
      <4>2. m + 1 \in Nat /\ n + 1 \in Nat
        OBVIOUS
      <4> QED
        BY <4>1, <4>2
    <3> QED
      BY <3>1
  <2>6. 1..Len(u) = 1..k /\ 1..Len(v) = 1..k + 1
    BY <2>4, Zenon
  <2> QED
    BY <2>1, <2>3, <2>4, <2>5, <2>6, Zenon
<1>2. F(k + 1) \in S /\ F(k + 1) = Contract!Contribution(s, r, k, c)
  OBVIOUS
<1>3. /\ Append(u, F(k + 1)) \in Seq(S) /\ Len(Append(u, F(k + 1))) = k + 1
      /\ \A i \in 1..k : Append(u, F(k + 1))[i] = u[i]
      /\ Append(u, F(k + 1))[k + 1] = F(k + 1)
  <2> HIDE DEF F, S, u
  <2> QED
    BY <1>1, <1>2, AppendProperties
<1>4. \A i \in 1..k + 1 : Append(u, F(k + 1))[i] = v[i]
  BY <1>3
<1>5. Append(u, F(k + 1)) = v
  <2> HIDE DEF F, S, u, v
  <2> QED
    BY <1>1, <1>3, <1>4, SeqEqual
<1> QED
  BY <1>2, <1>5

\* The sums of no tile.
LEMMA SumsEmpty ==
  ASSUME ConfigTypes, NEW r PROVE Sums(shape, r, 0) = Empty
<1>1. ASSUME NEW c \in 0..shape.cols - 1
      PROVE  [i \in 1..Count(shape, 0, c) |-> Contract!Contribution(shape, r, i - 1, c)] = <<>>
  <2>1. 1..Count(shape, 0, c) = {}
    BY CountEnds
  <2> QED
    BY <2>1
<1> QED
  BY <1>1 DEF Sums, Empty

\* The sums of all the tiles of a row.
LEMMA SumsWhole ==
  ASSUME ConfigTypes, NEW r PROVE Sums(shape, r, RowTiles) = Contract!Product(shape, r)
  BY CountEnds, Zenon DEF Sums, Contract!Product

\* Adding the contribution of tile j of a row to the sums of the tiles before it.
LEMMA SumsGrow ==
  ASSUME ConfigTypes, NEW r, NEW j \in Nat
  PROVE  LET c == j % shape.cols
         IN  [Sums(shape, r, j) EXCEPT ![c] =
                Append(@, Contract!Contribution(shape, r, j \div shape.cols, c))]
               = Sums(shape, r, j + 1)
<1> DEFINE C == shape.cols
           x == j % C
           u == Sums(shape, r, j)
           v == Sums(shape, r, j + 1)
           w == [u EXCEPT ![x] = Append(@, Contract!Contribution(shape, r, j \div C, x))]
<1>1. C \in Nat \ {0} /\ x \in 0..C - 1 /\ j \div C \in Nat
  BY Divided DEF ConfigTypes
<1>2. DOMAIN w = 0..C - 1 /\ DOMAIN v = 0..C - 1
  BY DEF Sums
<1>3. w[x] = v[x]
  <2>1. u[x] = [i \in 1..(j \div C) |-> Contract!Contribution(shape, r, i - 1, x)]
    BY <1>1, CountStep DEF Sums
  <2>2. v[x] = [i \in 1..((j \div C) + 1) |-> Contract!Contribution(shape, r, i - 1, x)]
    BY <1>1, CountStep DEF Sums
  <2>3. Append(u[x], Contract!Contribution(shape, r, j \div C, x)) = v[x]
    BY <1>1, <2>1, <2>2, Appended
  <2> QED
    BY <1>1, <2>3 DEF Sums
<1>4. ASSUME NEW c \in 0..C - 1, c # x PROVE w[c] = v[c]
  <2>1. Count(shape, j + 1, c) = Count(shape, j, c)
    BY <1>1, <1>4, CountStep
  <2> QED
    BY <1>4, <2>1 DEF Sums
<1> QED
  BY <1>2, <1>3, <1>4 DEF Sums

\* A product is not the mark of a row that has not been stored.
LEMMA ProductIsSet ==
  ASSUME ConfigTypes, NEW r PROVE Contract!Product(shape, r) # Unset
<1>1. DOMAIN Contract!Product(shape, r) = 0..shape.cols - 1 /\ 0 \in 0..shape.cols - 1
  BY DEF Contract!Product, ConfigTypes
<1>2. DOMAIN Unset = 1..1 /\ 0 \notin 1..1
  BY DEF Unset
<1> QED
  BY <1>1, <1>2

\* Storing the next row group.
LEMMA RowsGrow ==
  ASSUME ConfigTypes, NEW k \in 0..shape.rows - 1
  PROVE  /\ [Rows(shape, k) EXCEPT ![k] = Contract!Product(shape, k)] = Rows(shape, k + 1)
         /\ Rows(shape, k)[k] = Unset
         /\ \A q \in 0..k - 1 : Rows(shape, k)[q] # Unset
<1>1. shape.rows \in Nat
  BY DEF ConfigTypes
<1>2. \A r \in 0..shape.rows - 1 : r < k + 1 <=> r < k \/ r = k
  BY <1>1
<1>3. ASSUME NEW r \in 0..shape.rows - 1
      PROVE  [Rows(shape, k) EXCEPT ![k] = Contract!Product(shape, k)][r] = Rows(shape, k + 1)[r]
  BY <1>1, <1>2 DEF Rows
<1>4. ASSUME NEW q \in 0..k - 1 PROVE Rows(shape, k)[q] # Unset
  <2>1. q \in 0..shape.rows - 1 /\ q < k
    BY <1>1
  <2> QED
    BY <2>1, ProductIsSet DEF Rows
<1>5. Rows(shape, k)[k] = Unset
  BY <1>1 DEF Rows
<1> QED
  BY <1>3, <1>4, <1>5 DEF Rows

(***************************************************************************)
(* What is added, stored and checked                                       *)
(***************************************************************************)

\* The tiles below n have been added and the rows before n's are stored; the
\* same with n itself added; and only the rows.
AddedBelow(n)  == dst = Rows(shape, RowOf(n)) /\ accum = Sums(shape, RowOf(n), ActOf(n))
AddedTo(n)     == dst = Rows(shape, RowOf(n)) /\ accum = Sums(shape, RowOf(n), ActOf(n) + 1)
StoredBelow(n) == dst = Rows(shape, RowOf(n))

\* Where the tile counter stands in its row; the running job is the last tile.
Aligned ==
    /\ t <= Total
    /\ pc = "prepare" \/ Prepared.tile = t \/ (pc = "row" /\ running # NoJob) => t < Total
    /\ pc \in {"rowEnd", "row", "store"} => t % RowTiles = 0
    /\ ~Serial /\ pc \in {"drain", "outDma", "accumulate"} /\ Prepared.tile # t => t % RowTiles = 0
    /\ pc = "store" => t > 0
    /\ ~Serial /\ running # NoJob => Runner.tile = t - 1 /\ t > 0
    /\ pc = "transition" => running # NoJob

\* How far the results have come at each step of the schedulers.
SummedSerial ==
    /\ pc \in {"prepare"} \cup Submitting \cup Retiring => AddedBelow(t)
    /\ pc = "retire" => AddedTo(t)

SummedPingPong ==
    /\ running = NoJob /\ pc \in {"prepare"} \cup InTile => AddedBelow(t)
    /\ running # NoJob =>
         /\ pc \in Between \cup Retiring => AddedBelow(t - 1)
         /\ pc \in {"activation", "admit", "consume"} \cup Submitting =>
              IF overlap THEN AddedBelow(t - 1) ELSE AddedTo(t - 1)
         /\ pc = "transition" => AddedTo(t - 1)
         /\ pc \in {"finalize", "advance"} => AddedBelow(t)

Summed ==
    route # "contract" =>
        /\ pc = "store" => AddedTo(t - 1)
        /\ pc = "row" /\ running = NoJob => StoredBelow(t)
        /\ Serial => SummedSerial
        /\ ~Serial => SummedPingPong

\* A qualification counts the tiles it has checked, up to its limit.
Counted ==
    route = "contract" =>
        /\ pc \in {"row", "prepare", "drain", "outDma", "verify", "store"} \cup Submitting => checked = t
        /\ pc \in {"accumulate", "retire", "boundary"} => checked = t + 1 /\ checked <= limit
        /\ pc = "boundary" => checked >= limit

Results == Aligned /\ Summed /\ Counted

\* Adding the product of tile n.
LEMMA TileAdded ==
  ASSUME ConfigTypes, NEW n \in Nat, n < Total, AddedBelow(n),
         accum' = [accum EXCEPT ![ColOf(n)] = Append(@, Product(n))]
  PROVE  accum' = Sums(shape, RowOf(n), ActOf(n) + 1)
<1>1. /\ ActOf(n) \in Nat /\ ColOf(n) = ActOf(n) % shape.cols
      /\ Product(n) = Contract!Contribution(shape, RowOf(n), ActOf(n) \div shape.cols, ColOf(n))
  BY Coordinates
<1>2. accum = Sums(shape, RowOf(n), ActOf(n))
  BY DEF AddedBelow
<1>3. accum' = [Sums(shape, RowOf(n), ActOf(n)) EXCEPT ![ActOf(n) % shape.cols] =
                  Append(@, Contract!Contribution(shape, RowOf(n), ActOf(n) \div shape.cols,
                                                  ActOf(n) % shape.cols))]
  BY <1>1, <1>2, Zenon
<1> QED
  BY <1>1, <1>3, SumsGrow, Zenon

\* Storing the row whose last tile is n.
LEMMA RowAdded ==
  ASSUME ConfigTypes, NEW n \in Nat, n < Total, (n + 1) % RowTiles = 0, AddedTo(n)
  PROVE  /\ RowOf(n) \in 0..shape.rows - 1
         /\ dst = Rows(shape, RowOf(n)) /\ accum = Contract!Product(shape, RowOf(n))
         /\ [dst EXCEPT ![RowOf(n)] = accum] = Rows(shape, RowOf(n + 1))
<1>1. RowOf(n) \in 0..shape.rows - 1
  BY Coordinates
<1>2. RowOf(n + 1) = RowOf(n) + 1 /\ ActOf(n) + 1 = RowTiles
  BY NextTile
<1>3. dst = Rows(shape, RowOf(n)) /\ accum = Contract!Product(shape, RowOf(n))
  BY <1>2, SumsWhole, Zenon DEF AddedTo
<1> QED
  BY <1>1, <1>2, <1>3, RowsGrow, Zenon

\* A step that adds and stores nothing.
LEMMA Untouched ==
  ASSUME UNCHANGED <<shape, dst, accum, t>>
  PROVE  /\ AddedBelow(t)' = AddedBelow(t) /\ AddedBelow(t - 1)' = AddedBelow(t - 1)
         /\ AddedTo(t)' = AddedTo(t) /\ AddedTo(t - 1)' = AddedTo(t - 1)
         /\ StoredBelow(t)' = StoredBelow(t)
  BY DEF AddedBelow, AddedTo, StoredBelow, RowOf, ActOf, RowTiles

\* A matmul is made of whole rows.
LEMMA WholeRows ==
  ASSUME ConfigTypes
  PROVE  /\ Total % RowTiles = 0 /\ RowOf(Total) = shape.rows
         /\ RowOf(0) = 0 /\ ActOf(0) = 0 /\ 0 % RowTiles = 0
<1>1. PICK d \in Nat \ {0}, m \in Nat : d = RowTiles /\ m = shape.rows
  BY Numbers DEF ConfigTypes
<1>2. PICK n \in Nat, x \in 0..d - 1 : n = Total /\ x = 0 /\ n = m * d + x
  <2>1. Total \in Nat /\ Total = m * d
    BY <1>1, Numbers DEF Total, RowTiles, ConfigTypes
  <2> QED
    BY <2>1
<1>3. n \div d = m /\ n % d = x
  BY <1>2, Division
<1>4. 0 \div d = 0 /\ 0 % d = 0
  OBVIOUS
<1> QED
  BY <1>1, <1>2, <1>3, <1>4 DEF RowOf, ActOf

\* The tile counter stays within the matmul and rows end where they should.
LEMMA AlignedStep ==
  ASSUME Types, Types', Lookahead, Scheduled, Owned, Qualified, Aligned, [Next]_vars
  PROVE  Aligned'
<1> USE DEF config, tally, hostVars, ddr, device
<1>1. /\ UNCHANGED <<shape, overlap, pipeline, resident, route, limit>>
      /\ (Serial' <=> Serial) /\ Total' = Total /\ RowTiles' = RowTiles /\ (t' = t => Bank' = Bank)
  BY ConfigFixed DEF Bank, Serial, Total, RowTiles
<1>2. /\ Bank \in Banks /\ t \in Nat /\ (~Serial => (t + 1) % 2 = 1 - Bank) /\ (Serial => Bank = 0)
      /\ pc \in Pcs /\ running \in {0, 1, NoJob} /\ Total \in Nat
  BY BankFacts, Numbers DEF Types, HostTypes
<1>3. running # NoJob /\ ~Serial => running \in Banks /\ running # Bank
  BY <1>2, BankFacts DEF Owned
<1>4. CASE BeginRow \/ Drain \/ PrepareActivation \/ Admit \/ AdmitNothing \/ Submit
  BY <1>4, <1>1, <1>2 DEF BeginRow, Drain, PrepareActivation, Admit, AdmitNothing,
     Submit, Aligned, Prepared, Runner
<1>5. CASE ActDmaDone \/ WeightDma \/ WeightDmaDone \/ ScaleDma \/ ScaleDmaDone
  BY <1>5, <1>1, <1>2 DEF ActDmaDone, WeightDma, WeightDmaDone, ScaleDma, ScaleDmaDone,
     Aligned, Prepared, Runner
<1>6. CASE Poll \/ Transition \/ FinalizePack \/ FinalizeJoin \/ NothingToFinalize \/ Carry
  BY <1>6, <1>1, <1>2 DEF Poll, Transition, FinalizePack, FinalizeJoin,
     NothingToFinalize, Carry, Aligned, Prepared, Runner
<1>7. CASE DrainRow \/ Return \/ CompleteBoundary \/ CallFails \/ Unwind
  BY <1>7, <1>1, <1>2 DEF DrainRow, Return, CompleteBoundary, CallFails, Unwind, Aligned, Prepared, Runner
<1>8. CASE VerifyTile
  <2>1. Serial
    BY <1>8 DEF VerifyTile, Owned, Serial
  <2> QED
    BY <1>8, <1>1, <1>2, <2>1 DEF VerifyTile, Aligned, Prepared, Runner
<1>9. CASE HelperBegin \/ HelperDone \/ VpuDone \/ SpuFinal
  BY <1>9, <1>1, <1>2 DEF HelperBegin, HelperDone, VpuDone, SpuFinal, Aligned, Prepared, Runner
<1>10. CASE Start
  <2>1. /\ UNCHANGED <<t, jobs>> /\ running' = (IF Serial THEN Bank ELSE running)
        /\ pc' \in {"drain", "finalize", "consume", "transition"}
        /\ (pc' = "transition" => running # NoJob /\ ~Serial)
        /\ (pc' = "drain" => Serial)
    BY <1>10 DEF Start
  <2> QED
    BY <1>1, <1>2, <2>1 DEF Aligned, Prepared, Runner
<1>11. CASE Consume
  <2>1. pc = "prepare" /\ t' = t /\ running' = running /\ pc' \in {"submit", "activation", "drain"}
    BY <1>11, ChecksHold DEF Consume, AfterPrepare
  <2>2. look.tile = t /\ ~Serial /\ look.tile % 2 = Bank /\ t \in Int
    BY <1>2, <1>11, BankFacts, ChecksHold DEF ConsumeValid, Consume, Lookahead, Types, ConfigTypes
  <2>3. jobs' = [jobs EXCEPT ![Bank] = WithReuse(Job(t, Bank, Bank))] /\ Bank \in {0, 1, Window}
    BY <1>11, <1>2, <2>1, <2>2, ChecksHold DEF Consume, Banks
  <2>4. jobs'[Bank].tile = t /\ \A b \in Banks : b # Bank => jobs'[b] = jobs[b]
    BY <1>2, <2>2, <2>3, JobStored, ZenonT(60)
  <2> QED
    BY <1>1, <1>2, <1>3, <2>1, <2>4 DEF Aligned, Prepared, Runner
<1>12. CASE PrepareDirect
  <2>1. pc = "prepare" /\ t' = t /\ running' = running /\ pc' \in {"submit", "activation", "drain"} /\ t \in Int
    BY <1>12, <1>2 DEF PrepareDirect, AfterPrepare
  <2>2. PICK s \in Banks, src \in {0, 1, Window} :
           src \in {s, Window} /\ jobs' = [jobs EXCEPT ![Bank] = WithReuse(Job(t, src, s))]
    BY <1>12, DirectEffects
  <2>3. jobs'[Bank].tile = t /\ \A b \in Banks : b # Bank => jobs'[b] = jobs[b]
    BY <2>1, <2>2, JobStored
  <2> QED
    BY <1>1, <1>2, <1>3, <2>1, <2>3 DEF Aligned, Prepared, Runner
<1>13. CASE OutDmaDone \/ Release \/ AccumulateAndRelease \/ AccumulatePending
  <2>1. /\ pc \in Retiring \cup {"consume"} /\ t' = t /\ running \in Banks
        /\ running' \in {running, NoJob} /\ running # NoJob
    BY <1>13, ChecksHold DEF OutDmaDone, Release, AccumulateAndRelease, AccumulatePending, Retiring, Banks, NoJob
  <2>2. \A b \in Banks : jobs'[b].tile = jobs[b].tile
    BY <1>13, <2>1, RetireEffects
  <2>3. Prepared'.tile = Prepared.tile /\ (running' # NoJob => running' = running /\ Runner'.tile = Runner.tile)
    BY <1>1, <1>2, <2>1, <2>2 DEF Prepared, Runner
  <2>4. /\ pc' \in {"verify", "release", "accumulate", "activation", "retire", "store", "transition"}
        /\ pc' = "accumulate" => pc = "outDma"
        /\ pc' = "store" => pc = "accumulate" /\ Prepared.tile # t /\ ~Serial
        /\ pc' = "transition" => running' = running
    BY <1>13, ChecksHold DEF OutDmaDone, Release, AccumulateAndRelease, AccumulatePending, Handoff
  <2> QED
    BY <1>1, <1>2, <2>1, <2>3, <2>4 DEF Aligned
<1>14. CASE StoreRows
  BY <1>14, <1>1, <1>2 DEF StoreRows, Aligned, Prepared, Runner, Owned
<1>15. CASE Advance
  <2>1. /\ t' = t + 1 /\ jobs' = jobs /\ running' = Bank /\ pc = "advance" /\ ~Serial
        /\ pc' = IF (t + 1) % RowTiles = 0 THEN "rowEnd" ELSE "prepare"
    BY <1>15 DEF Advance, Owned
  <2>2. Prepared.tile = t /\ t < Total
    BY <2>1 DEF Scheduled, InTile, Aligned
  <2>3. t + 1 = Total => (t + 1) % RowTiles = 0
    BY WholeRows DEF Types
  <2>4. Prepared'.tile # t' /\ Runner'.tile = t
    <3>1. \A b \in Banks : jobs[b].tile <= t /\ jobs[b].tile \in Int
      BY DEF Scheduled, Types, HostTypes, JobType
    <3>2. Bank' \in Banks
      BY BankFacts, <2>1, <1>1 DEF Bank
    <3> QED
      BY <1>2, <2>1, <2>2, <3>1, <3>2 DEF Prepared, Runner
  <2> QED
    BY <1>1, <1>2, <2>1, <2>2, <2>3, <2>4 DEF Aligned
<1>16. CASE RetireTile
  <2>1. pc = "retire" /\ Serial /\ jobs' = jobs /\ running' = running /\ running = NoJob
    BY <1>16 DEF RetireTile, Owned
  <2>2. Prepared.tile = t /\ t < Total /\ Bank' = Bank
    BY <1>1, <2>1 DEF Scheduled, Aligned, Bank
  <2>3. CASE t' = t /\ pc' = "boundary"
    BY <1>1, <1>2, <2>1, <2>2, <2>3 DEF Aligned, Prepared
  <2>4. CASE t' = t + 1 /\ pc' = IF (t + 1) % RowTiles = 0 THEN "store" ELSE "prepare"
    <3>1. t + 1 = Total => (t + 1) % RowTiles = 0
      BY WholeRows DEF Types
    <3>2. Prepared'.tile # t'
      BY <1>2, <2>1, <2>2, <2>4 DEF Prepared
    <3> QED
      BY <1>1, <1>2, <2>1, <2>2, <2>4, <3>1, <3>2 DEF Aligned
  <2> QED
    BY <1>16, <2>3, <2>4 DEF RetireTile
<1>17. CASE UNCHANGED vars
  BY <1>17, <1>1, <1>2 DEF vars, Aligned, Prepared, Runner
<1> QED
  BY <1>4, <1>5, <1>6, <1>7, <1>8, <1>9, <1>10, <1>11, <1>12, <1>13, <1>14, <1>15,
     <1>16, <1>17 DEF Next, Host, Helper, Device, Finished

\* Every step leaves the accumulator and dst as the summary of its place says.
LEMMA SummedStep ==
  ASSUME Types, Types', Lookahead, Scheduled, Owned, Qualified, Computed, Aligned, Summed,
         [Next]_vars
  PROVE  Summed'
<1> USE DEF config, tally, hostVars, ddr, device
<1>1. /\ UNCHANGED <<shape, overlap, pipeline, resident, route, limit>>
      /\ (Serial' <=> Serial) /\ (Serial => ~overlap)
  BY ConfigFixed DEF Serial, Types, ConfigTypes
<1>2. /\ Bank \in Banks /\ t \in Nat /\ pc \in Pcs /\ running \in {0, 1, NoJob} /\ Total \in Nat
      /\ overlap \in BOOLEAN /\ ConfigTypes /\ NoJob \notin Banks
  BY BankFacts, Numbers DEF Types, HostTypes, ConfigTypes, Banks, NoJob
<1> DEFINE Places == UNCHANGED <<shape, dst, accum, t>>
<1>3. Places => /\ AddedBelow(t)' = AddedBelow(t) /\ AddedBelow(t - 1)' = AddedBelow(t - 1)
                /\ AddedTo(t)' = AddedTo(t) /\ AddedTo(t - 1)' = AddedTo(t - 1)
                /\ StoredBelow(t)' = StoredBelow(t)
  BY Untouched
<1> USE DEF Summed, SummedSerial, SummedPingPong, Submitting, Packing, InTile, Retiring, Between
<1>4. CASE Drain \/ PrepareActivation \/ Admit \/ AdmitNothing \/ Submit
  BY <1>4, <1>1, <1>2, <1>3 DEF Drain, PrepareActivation, Admit, AdmitNothing, Submit, Owned
<1>5. CASE ActDmaDone \/ WeightDma \/ WeightDmaDone \/ ScaleDma \/ ScaleDmaDone
  BY <1>5, <1>1, <1>2, <1>3 DEF ActDmaDone, WeightDma, WeightDmaDone, ScaleDma, ScaleDmaDone
<1>6. CASE Poll \/ FinalizePack \/ FinalizeJoin \/ NothingToFinalize \/ Carry \/ DrainRow
  BY <1>6, <1>1, <1>2, <1>3 DEF Poll, FinalizePack, FinalizeJoin, NothingToFinalize, Carry, DrainRow, Owned
<1>7. CASE Return \/ VerifyTile \/ CompleteBoundary \/ CallFails \/ Unwind
  BY <1>7, <1>1, <1>2, <1>3 DEF Return, VerifyTile, CompleteBoundary, CallFails, Unwind, Owned
<1>8. CASE HelperBegin \/ HelperDone \/ VpuDone \/ SpuFinal
  BY <1>8, <1>1, <1>2, <1>3 DEF HelperBegin, HelperDone, VpuDone, SpuFinal
<1>9. CASE Start
  BY <1>9, <1>1, <1>2, <1>3 DEF Start, Owned
<1>10. CASE Consume \/ PrepareDirect
  <2>1. /\ Places /\ pc = "prepare" /\ running' = running
        /\ pc' = IF Serial THEN "submit" ELSE IF running = NoJob THEN "activation" ELSE "drain"
    BY <1>10, <1>1, ChecksHold DEF Consume, PrepareDirect, AfterPrepare
  <2> QED
    BY <1>1, <1>2, <1>3, <2>1 DEF Owned
<1>11. CASE OutDmaDone \/ Release
  <2>1. /\ Places /\ pc \in {"outDma", "release"} /\ running' = running /\ running # NoJob
        /\ pc' \in {"verify", "release", "accumulate", "activation"}
        /\ pc' = "activation" => pc = "release" /\ overlap
        /\ pc' = "verify" => route = "contract"
    BY <1>11, <1>1, <1>2, ChecksHold DEF OutDmaDone, Release, Owned
  <2> QED
    BY <1>1, <1>2, <1>3, <2>1
<1>12. CASE BeginRow
  <2>1. CASE running # NoJob
    BY <1>12, <1>1, <1>2, <1>3, <2>1 DEF BeginRow, Owned
  <2>2. CASE running = NoJob
    <3>1. /\ UNCHANGED <<dst, t, running>> /\ accum' = Empty /\ pc = "row" /\ pc' = "prepare"
          /\ t % RowTiles = 0
      BY <1>12, <2>2 DEF BeginRow, Aligned
    <3>2. ActOf(t) = 0 /\ accum' = Sums(shape, RowOf(t), ActOf(t))
      BY <1>2, <3>1, SumsEmpty DEF ActOf
    <3>3. route # "contract" => AddedBelow(t)'
      BY <1>1, <3>1, <3>2, <2>2 DEF AddedBelow, StoredBelow, RowOf, ActOf, RowTiles
    <3> QED
      BY <1>1, <1>2, <2>2, <3>1, <3>3
  <2> QED
    BY <2>1, <2>2
<1>13. CASE AccumulateAndRelease \/ AccumulatePending
  <2>1. /\ UNCHANGED <<dst, t>> /\ AddResult /\ running # NoJob /\ running \in Banks
        /\ pc \in {"accumulate", "consume"} /\ Runner.ready /\ ~Runner.consumed
    BY <1>13, <1>2, ChecksHold DEF AccumulateAndRelease, AccumulatePending, Retiring
  <2>2. ddrOut = Product(Runner.tile)
    BY <2>1 DEF Computed
  <2>3. CASE Serial
    <3>1. pc = "accumulate" /\ pc' = "retire"
      BY <1>13, <2>1, <2>3, ChecksHold DEF AccumulateAndRelease, AccumulatePending, Owned
    <3>2. Runner.tile = t /\ t < Total
      BY <2>1, <2>3, <3>1 DEF Owned, Scheduled, Prepared, Runner, Bank, Aligned
    <3>3. ASSUME route # "contract" PROVE AddedTo(t)'
      <4>1. AddedBelow(t)
        BY <2>3, <3>1, <3>3
      <4>2. accum' = Sums(shape, RowOf(t), ActOf(t) + 1)
        BY <1>2, <2>1, <2>2, <3>2, <4>1, TileAdded DEF AddResult
      <4> QED
        BY <1>1, <2>1, <4>1, <4>2 DEF AddedBelow, AddedTo, RowOf, ActOf, RowTiles
    <3> QED
      BY <1>1, <2>3, <3>1, <3>3
  <2>4. CASE ~Serial
    <3>1. \/ pc' = "activation" /\ ~overlap /\ running' = running
          \/ pc' = "store"
          \/ pc' = "transition" /\ running' = running
      BY <1>13, <2>1, <2>4, ChecksHold DEF AccumulateAndRelease, AccumulatePending, Owned, Handoff
    <3>2. Runner.tile = t - 1 /\ t - 1 \in Nat /\ t - 1 < Total
      BY <1>2, <2>1, <2>4 DEF Aligned
    <3>3. ASSUME route # "contract" PROVE AddedTo(t - 1)'
      <4>1. AddedBelow(t - 1)
        BY <2>1, <2>4, <3>3 DEF Owned
      <4>2. accum' = Sums(shape, RowOf(t - 1), ActOf(t - 1) + 1)
        BY <1>2, <2>1, <2>2, <3>2, <4>1, TileAdded DEF AddResult
      <4> QED
        BY <1>1, <2>1, <4>1, <4>2 DEF AddedBelow, AddedTo, RowOf, ActOf, RowTiles
    <3> QED
      BY <1>1, <2>1, <2>4, <3>1, <3>3
  <2> QED
    BY <2>3, <2>4
<1>14. CASE Transition
  <2>1. pc = "transition" /\ pc' = "finalize" /\ UNCHANGED <<t, running>> /\ running # NoJob /\ ~Serial
    BY <1>14 DEF Transition, Aligned, Owned
  <2>2. PICK n \in Nat : n = t - 1 /\ t = n + 1 /\ n < Total /\ Runner.tile = n
    BY <1>2, <2>1 DEF Aligned
  <2>3. ASSUME route # "contract" PROVE AddedBelow(t)'
    <3>1. AddedTo(n)
      BY <2>1, <2>2, <2>3
    <3>2. CASE RowOf(n) # RowOf(t)
      <4>1. (n + 1) % RowTiles = 0 /\ ActOf(t) = 0
        BY <1>2, <2>2, <3>2, NextTile
      <4>2. dst' = Rows(shape, RowOf(t))
        BY <1>14, <1>2, <2>2, <3>1, <3>2, <4>1, RowAdded DEF Transition
      <4>3. accum' = Sums(shape, RowOf(t), ActOf(t))
        BY <1>14, <1>2, <2>2, <3>2, <4>1, SumsEmpty DEF Transition
      <4> QED
        BY <1>1, <2>1, <4>2, <4>3 DEF AddedBelow, RowOf, ActOf, RowTiles
    <3>3. CASE RowOf(n) = RowOf(t)
      <4>1. ActOf(t) = ActOf(n) + 1
        BY <1>2, <2>2, <3>3, NextTile, Coordinates
      <4>2. dst' = Rows(shape, RowOf(t)) /\ accum' = Sums(shape, RowOf(t), ActOf(t))
        BY <1>14, <2>2, <3>1, <3>3, <4>1 DEF Transition, AddedTo
      <4> QED
        BY <1>1, <2>1, <4>2 DEF AddedBelow, RowOf, ActOf, RowTiles
    <3> QED
      BY <3>2, <3>3
  <2> QED
    BY <1>1, <2>1, <2>3
<1>15. CASE StoreRows
  <2>1. pc = "store" /\ pc' = "row" /\ UNCHANGED <<t, running, accum>> /\ running = NoJob
    BY <1>15 DEF StoreRows, Owned
  <2>2. ASSUME route # "contract" PROVE StoredBelow(t)'
    <3>1. PICK n \in Nat : n = t - 1 /\ t = n + 1 /\ n < Total /\ (n + 1) % RowTiles = 0
      BY <1>2, <2>1 DEF Aligned
    <3>2. AddedTo(n)
      BY <2>1, <2>2, <3>1
    <3>3. dst' = Rows(shape, RowOf(t))
      BY <1>15, <1>2, <2>2, <3>1, <3>2, RowAdded DEF StoreRows
    <3> QED
      BY <1>1, <2>1, <3>3 DEF StoredBelow, RowOf, RowTiles
  <2> QED
    BY <1>1, <2>1, <2>2
<1>16. CASE Advance
  <2>1. /\ UNCHANGED <<dst, accum>> /\ t' = t + 1 /\ pc = "advance" /\ ~Serial
        /\ pc' \in {"rowEnd", "prepare"} /\ running' # NoJob /\ t' - 1 = t
    BY <1>16, <1>2 DEF Advance, Owned
  <2>2. ASSUME route # "contract" PROVE AddedBelow(t - 1)'
    <3>1. AddedBelow(t)
      BY <2>1, <2>2
    <3> QED
      BY <1>1, <2>1, <3>1 DEF AddedBelow, RowOf, ActOf, RowTiles
  <2> QED
    BY <1>1, <2>1, <2>2
<1>17. CASE RetireTile
  <2>1. pc = "retire" /\ Serial /\ UNCHANGED <<dst, accum, running>> /\ running = NoJob
    BY <1>17 DEF RetireTile, Owned
  <2>2. CASE pc' = "boundary"
    BY <1>1, <2>1, <2>2
  <2>3. CASE t' = t + 1 /\ pc' = IF (t + 1) % RowTiles = 0 THEN "store" ELSE "prepare"
    <3>1. ASSUME route # "contract", pc' = "store" PROVE AddedTo(t - 1)'
      <4>1. AddedTo(t) /\ t' - 1 = t
        BY <1>2, <2>1, <2>3, <3>1
      <4> QED
        BY <1>1, <2>1, <4>1 DEF AddedTo, RowOf, ActOf, RowTiles
    <3>2. ASSUME route # "contract", pc' = "prepare" PROVE AddedBelow(t)'
      <4>1. AddedTo(t) /\ t' = t + 1
        BY <2>1, <2>3, <3>2
      <4>2. RowOf(t + 1) = RowOf(t) /\ ActOf(t + 1) = ActOf(t) + 1
        BY <1>2, <2>3, <3>2, NextTile
      <4>3. dst' = Rows(shape, RowOf(t + 1)) /\ accum' = Sums(shape, RowOf(t + 1), ActOf(t + 1))
        BY <2>1, <4>1, <4>2 DEF AddedTo
      <4> QED
        BY <1>1, <4>1, <4>3 DEF AddedBelow, RowOf, ActOf, RowTiles
    <3> QED
      BY <1>1, <2>1, <2>3, <3>1, <3>2
  <2> QED
    BY <1>17, <2>2, <2>3 DEF RetireTile
<1>18. CASE UNCHANGED vars
  BY <1>18, <1>1, <1>2, <1>3 DEF vars
<1> QED
  BY <1>4, <1>5, <1>6, <1>7, <1>8, <1>9, <1>10, <1>11, <1>12, <1>13, <1>14, <1>15, <1>16,
     <1>17, <1>18 DEF Next, Host, Helper, Device, Finished

\* A qualification has checked every tile it has passed, and no more than its limit.
LEMMA CountedStep ==
  ASSUME Types, Types', Lookahead, Scheduled, Owned, Qualified, Counted, [Next]_vars
  PROVE  Counted'
<1> USE DEF config, tally, hostVars, ddr, device
<1>1. /\ UNCHANGED <<shape, overlap, pipeline, resident, route, limit>>
      /\ (Serial' <=> Serial) /\ (route = "contract" => Serial /\ ~overlap)
  BY ConfigFixed DEF Serial, Types, ConfigTypes
<1>2. t \in Nat /\ checked \in Nat /\ limit \in Nat /\ pc \in Pcs
  BY DEF Types, HostTypes, ConfigTypes
<1> USE DEF Counted, Submitting
<1>3. CASE BeginRow \/ Consume \/ PrepareDirect \/ Drain \/ OutDmaDone \/ Release
  BY <1>3, <1>1, <1>2, ChecksHold DEF BeginRow, Consume, PrepareDirect, AfterPrepare, Drain,
     OutDmaDone, Release, Owned
<1>4. CASE PrepareActivation \/ Admit \/ AdmitNothing \/ Submit \/ ActDmaDone \/ WeightDma
  BY <1>4, <1>1, <1>2 DEF PrepareActivation, Admit, AdmitNothing, Submit, ActDmaDone, WeightDma, Owned
<1>5. CASE WeightDmaDone \/ ScaleDma \/ ScaleDmaDone \/ Start \/ Poll
  BY <1>5, <1>1, <1>2 DEF WeightDmaDone, ScaleDma, ScaleDmaDone, Start, Poll
<1>6. CASE AccumulateAndRelease \/ AccumulatePending
  BY <1>6, <1>1, <1>2, ChecksHold DEF AccumulateAndRelease, AccumulatePending, Owned
<1>7. CASE Transition \/ FinalizePack \/ FinalizeJoin \/ NothingToFinalize \/ Advance \/ Carry
  BY <1>7, <1>1, <1>2 DEF Transition, FinalizePack, FinalizeJoin, NothingToFinalize, Advance, Carry, Owned
<1>8. CASE DrainRow \/ StoreRows \/ Return \/ CompleteBoundary \/ CallFails \/ Unwind
  BY <1>8, <1>1, <1>2 DEF DrainRow, StoreRows, Return, CompleteBoundary, CallFails, Unwind, Owned
<1>9. CASE VerifyTile
  BY <1>9, <1>1, <1>2 DEF VerifyTile, Qualified
<1>10. CASE RetireTile
  BY <1>10, <1>1, <1>2 DEF RetireTile, LimitReached
<1>11. CASE HelperBegin \/ HelperDone \/ VpuDone \/ SpuFinal
  BY <1>11, <1>1, <1>2 DEF HelperBegin, HelperDone, VpuDone, SpuFinal
<1>12. CASE UNCHANGED vars
  BY <1>12 DEF vars
<1> QED
  BY <1>3, <1>4, <1>5, <1>6, <1>7, <1>8, <1>9, <1>10, <1>11, <1>12
     DEF Next, Host, Helper, Device, Finished

\* A matmul begins with nothing added, stored or checked.
LEMMA ResultsBegin == Init => Results
<1> SUFFICES ASSUME Init PROVE Results
  OBVIOUS
<1>1. ConfigTypes /\ Total \in Nat
  BY InitHolds, Numbers DEF Inv, Types
<1>2. RowOf(0) = 0 /\ ActOf(0) = 0 /\ 0 % RowTiles = 0
  BY <1>1, WholeRows
<1>3. t = 0 /\ pc = "row" /\ running = NoJob /\ checked = 0 /\ Prepared.tile = None /\ None # 0
  BY DEF Init, Prepared, Bank, Job, None
<1>4. Aligned
  BY <1>1, <1>2, <1>3 DEF Aligned
<1>5. StoredBelow(t)
  <2>1. \A r \in 0..shape.rows - 1 : ~(r < 0)
    BY <1>1 DEF ConfigTypes
  <2>2. dst = Rows(shape, 0)
    BY <2>1 DEF Init, Rows
  <2> QED
    BY <1>2, <1>3, <2>2 DEF StoredBelow
<1>6. Summed
  BY <1>3, <1>5 DEF Summed, SummedSerial, SummedPingPong, Submitting, Packing, InTile, Retiring, Between
<1>7. Counted
  BY <1>3 DEF Counted, Submitting
<1> QED
  BY <1>4, <1>6, <1>7 DEF Results

(***************************************************************************)
(* The refinement                                                          *)
(***************************************************************************)

\* Every step of the schedulers is a step of the contract or none.
LEMMA ContractStep ==
  ASSUME Inv, Inv', Results, [Next]_vars
  PROVE  [Contract!Next]_(Contract!mvars)
<1> USE DEF config, tally, hostVars, ddr, device
<1>1. /\ UNCHANGED <<shape, route, limit>> /\ ConfigTypes
      /\ t \in Nat /\ checked \in Nat /\ limit \in Nat /\ boundary \in BOOLEAN
  BY ConfigFixed DEF Inv, Types, HostTypes, ConfigTypes
<1>2. pc # "violated" /\ pc' # "violated"
  BY DEF Inv, OwnershipHolds
<1>3. ASSUME UNCHANGED <<dst, checked, boundary>>,
             pc' = pc \/ (pc \notin {"returned", "failed"} /\ pc' \notin {"returned", "failed"})
      PROVE  UNCHANGED Contract!mvars
  BY <1>1, <1>3 DEF Contract!mvars
<1>4. CASE BeginRow \/ Consume \/ PrepareDirect \/ Drain \/ OutDmaDone \/ Release
  BY <1>4, <1>3 DEF BeginRow, Consume, PrepareDirect, AfterPrepare, Drain, OutDmaDone, Release
<1>5. CASE PrepareActivation \/ Admit \/ AdmitNothing \/ Submit \/ ActDmaDone \/ WeightDma
  BY <1>5, <1>3 DEF PrepareActivation, Admit, AdmitNothing, Submit, ActDmaDone, WeightDma
<1>6. CASE WeightDmaDone \/ ScaleDma \/ ScaleDmaDone \/ Start \/ Poll
  BY <1>6, <1>3 DEF WeightDmaDone, ScaleDma, ScaleDmaDone, Start, Poll
<1>7. CASE AccumulateAndRelease \/ AccumulatePending \/ RetireTile
  BY <1>7, <1>3 DEF AccumulateAndRelease, AccumulatePending, RetireTile
<1>8. CASE FinalizePack \/ FinalizeJoin \/ NothingToFinalize \/ Advance \/ Carry \/ DrainRow
  BY <1>8, <1>3 DEF FinalizePack, FinalizeJoin, NothingToFinalize, Advance, Carry, DrainRow
<1>9. CASE CallFails \/ HelperBegin \/ HelperDone \/ VpuDone \/ SpuFinal
  BY <1>9, <1>3 DEF CallFails, HelperBegin, HelperDone, VpuDone, SpuFinal
<1>10. CASE UNCHANGED vars
  BY <1>10, <1>3 DEF vars
<1>11. ASSUME NEW n \in Nat, n < Total, (n + 1) % RowTiles = 0, AddedTo(n), route # "contract",
              dst' = [dst EXCEPT ![RowOf(n)] = accum], UNCHANGED <<checked, boundary>>,
              pc \notin {"returned", "failed"}, pc' \notin {"returned", "failed"}
       PROVE  Contract!Next
  <2>1. /\ RowOf(n) \in 0..shape.rows - 1
        /\ dst = Rows(shape, RowOf(n)) /\ accum = Contract!Product(shape, RowOf(n))
    BY <1>1, <1>11, RowAdded
  <2>2. dst[RowOf(n)] = Unset /\ \A q \in 0..RowOf(n) - 1 : dst[q] # Unset
    BY <1>1, <2>1, RowsGrow
  <2>3. Contract!StoreRow(RowOf(n))
    BY <1>1, <1>11, <2>1, <2>2 DEF Contract!StoreRow, Contract!Unset, Unset
  <2> QED
    BY <2>1, <2>3 DEF Contract!Next
<1>12. CASE Transition
  <2>1. /\ pc = "transition" /\ pc' = "finalize" /\ running # NoJob /\ ~Serial /\ route # "contract"
        /\ UNCHANGED <<checked, boundary>>
    BY <1>12 DEF Transition, Results, Aligned, Inv, Control, Owned, Serial
  <2>2. PICK n \in Nat : n = t - 1 /\ t = n + 1 /\ n < Total /\ Runner.tile = n
    BY <1>1, <2>1, Numbers DEF Results, Aligned
  <2>3. AddedTo(n)
    BY <2>1, <2>2 DEF Results, Summed, SummedPingPong
  <2>4. CASE RowOf(n) # RowOf(t)
    <3>1. (n + 1) % RowTiles = 0
      BY <1>1, <2>2, <2>4, NextTile
    <3>2. dst' = [dst EXCEPT ![RowOf(n)] = accum]
      BY <1>12, <2>2, <2>4 DEF Transition
    <3> QED
      BY <1>11, <2>1, <2>2, <2>3, <3>1, <3>2
  <2>5. CASE RowOf(n) = RowOf(t)
    BY <1>12, <1>3, <2>1, <2>2, <2>5 DEF Transition
  <2> QED
    BY <2>4, <2>5
<1>13. CASE StoreRows
  <2>1. pc = "store" /\ pc' = "row" /\ UNCHANGED <<checked, boundary>>
    BY <1>13 DEF StoreRows
  <2>2. CASE route = "contract"
    BY <1>13, <1>3, <2>1, <2>2 DEF StoreRows
  <2>3. CASE route # "contract"
    <3>1. PICK n \in Nat : n = t - 1 /\ n < Total /\ (n + 1) % RowTiles = 0
      BY <1>1, <2>1, Numbers DEF Results, Aligned
    <3>2. AddedTo(n)
      BY <2>1, <2>3, <3>1 DEF Results, Summed
    <3> QED
      BY <1>11, <1>13, <2>1, <2>3, <3>1, <3>2 DEF StoreRows
  <2> QED
    BY <2>2, <2>3
<1>14. CASE VerifyTile
  <2>1. pc = "verify" /\ pc' = "accumulate" /\ checked' = checked + 1 /\ UNCHANGED <<dst, boundary>>
    BY <1>2, <1>14 DEF VerifyTile
  <2>2. route = "contract" /\ checked = t /\ checked < limit /\ t < Total
    BY <2>1 DEF Inv, Control, Owned, Qualified, Scheduled, Retiring, Serial, Results, Counted, Aligned
  <2>3. Contract!Tiles = Total
    BY DEF Contract!Tiles, Total
  <2>4. Contract!CheckTile
    BY <1>1, <2>1, <2>2, <2>3 DEF Contract!CheckTile
  <2> QED
    BY <2>4 DEF Contract!Next
<1>15. CASE Return
  <2>1. pc = "row" /\ t = Total /\ pc' = "returned" /\ UNCHANGED <<dst, checked, boundary>>
    BY <1>2, <1>15 DEF Return
  <2>2. CASE route = "contract"
    <3>1. checked = Contract!Tiles /\ checked # limit /\ ~boundary
      BY <1>1, <2>1, <2>2 DEF Results, Counted, Contract!Tiles, Total, Inv, Control, Qualified
    <3>2. Contract!Return
      BY <1>1, <2>1, <2>2, <3>1 DEF Contract!Return
    <3> QED
      BY <3>2 DEF Contract!Next
  <2>3. CASE route # "contract"
    <3>1. running = NoJob
      BY <2>1, <1>1 DEF Results, Aligned
    <3>2. dst = Rows(shape, shape.rows)
      BY <1>1, <2>1, <2>3, <3>1, WholeRows DEF Results, Summed, StoredBelow
    <3>3. \A r \in 0..shape.rows - 1 : dst[r] # Unset
      BY <1>1, <3>2, ProductIsSet DEF Rows, ConfigTypes
    <3>4. Contract!Return
      BY <1>1, <2>1, <2>3, <3>3 DEF Contract!Return, Contract!Unset, Unset
    <3> QED
      BY <3>4 DEF Contract!Next
  <2> QED
    BY <2>2, <2>3
<1>16. CASE CompleteBoundary
  <2>1. pc = "boundary" /\ pc' = "returned" /\ boundary' = TRUE /\ UNCHANGED <<dst, checked>>
    BY <1>2, <1>16 DEF CompleteBoundary
  <2>2. route = "contract" /\ checked = limit
    BY <1>1, <2>1 DEF Inv, Control, Owned, Results, Counted
  <2>3. Contract!Return
    BY <1>1, <2>1, <2>2 DEF Contract!Return
  <2> QED
    BY <2>3 DEF Contract!Next
<1>17. CASE Unwind
  <2>1. pc = "unwind" /\ pc' = "failed" /\ UNCHANGED <<dst, checked, boundary>>
    BY <1>17 DEF Unwind
  <2>2. Contract!Fail
    BY <1>1, <2>1 DEF Contract!Fail
  <2> QED
    BY <2>2 DEF Contract!Next
<1> QED
  BY <1>4, <1>5, <1>6, <1>7, <1>8, <1>9, <1>10, <1>12, <1>13, <1>14, <1>15, <1>16, <1>17
     DEF Next, Host, Helper, Device, Finished

\* The summary of what is added, stored and checked holds in every state: it is
\* inductive under Inv.
THEOREM ResultsKept == Spec => []Results
<1>1. Init => Results
  BY ResultsBegin
<1>2. Inv /\ Inv' /\ Results /\ [Next]_vars => Results'
  <2> SUFFICES ASSUME Inv, Inv', Results, [Next]_vars PROVE Results'
    OBVIOUS
  <2>1. /\ Types /\ Types' /\ Lookahead /\ Scheduled /\ Owned /\ Qualified /\ Computed
        /\ Aligned /\ Summed /\ Counted
    BY DEF Inv, Control, Contents, Results
  <2> QED
    BY <2>1, AlignedStep, SummedStep, CountedStep DEF Results
<1> QED
  BY <1>1, <1>2, Inductive, PTL DEF Spec

\* The ping-pong and the single-bank scheduler implement the contract of a matmul
\* for every shape: rows are stored whole, in order and once, each the product of
\* its own tiles, success is returned after the last of them, and a qualification
\* stops exactly at its limit.
THEOREM Refinement == Spec => ImplementsMatmul
<1>1. Init => Contract!Init
  <2> SUFFICES ASSUME Init PROVE Contract!Init
    OBVIOUS
  <2> QED
    BY DEF Init, Contract!Init, Contract!Unset, Unset
<1>2. Inv /\ Inv' /\ Results /\ [Next]_vars => [Contract!Next]_(Contract!mvars)
  BY ContractStep
<1> QED
  BY <1>1, <1>2, Inductive, ResultsKept, PTL DEF Spec, ImplementsMatmul, Contract!Spec
=============================================================================
