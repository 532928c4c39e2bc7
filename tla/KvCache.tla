------------------------------ MODULE KvCache ------------------------------
(***************************************************************************)
(* The KV cache that Gemma 3 runs on, from the batch to the attention mask:*)
(*   llama_kv_cache_iswa   src/src/llama-kv-cache-iswa.cpp                 *)
(*   llama_kv_cache        src/src/llama-kv-cache.cpp                      *)
(*   llama_batch_allocr    src/src/llama-batch.cpp                         *)
(*   llama_context::decode, memory_update, process_ubatch                  *)
(*                         src/src/llama-context.cpp                       *)
(* with the memory calls that the callers (tools/main, tools/server) make  *)
(* between two decodes.  Two caches, "base" and "swa" (sliding window),    *)
(* receive every call.  In the unified layout all sequences share stream   *)
(* 0, otherwise each has a stream of its own.                              *)
(*                                                                         *)
(* The content of a cell's K and V rows is abstracted to which token they  *)
(* were computed from and the position K is rotated to.                    *)
(***************************************************************************)
EXTENDS KvCells

CONSTANTS
    Configs,      \* the contexts explored: [unified, swa_full, n_ubatch, kv_size], the
                  \* bound max_batch on tokens in one llama_decode call and the
                  \* bound max_calls on memory calls since the last clear
    NSwa,         \* hparams.n_swa, the sliding window
    KeepLengths,  \* the n_keep values of a context shift
    GaN, GaW      \* the group factor and width of self-extend

ASSUME KvAssumption ==
    /\ Seqs # {} /\ IsFiniteSet(Seqs) /\ Seqs = 0..Cardinality(Seqs)-1
    /\ \A c \in Configs : /\ {c.n_ubatch, c.kv_size, c.max_batch} \subseteq Nat \ {0}
                           /\ c.max_calls \in Nat
    /\ NSwa \in Nat \ {0, 1} /\ KeepLengths \subseteq Nat
    /\ GaN \in Nat \ {0, 1} /\ GaW \in Nat /\ GaW % GaN = 0

VARIABLES
    cfg,     \* the configuration of this context
    kv,      \* kv[c]: the cache c, see NewCache
    calls,   \* memory calls since the last clear
    job,     \* the llama_decode call in progress, or NoJob
    text,    \* text[s]: the <<pos, token>> pairs the calls have made of sequence s
    known    \* what has gone wrong in this context that the code does not mend:
             \*   "div"      self-extend has turned rows the wrong way
             \*   "coupled"  a failed ubatch was removed from one of its sequences only
             \*   "kshift"   a decode went on with its K-shift still to be done
             \*   "purged"   slots for a later ubatch cost an earlier one cells it may see
             \*   "gaveup"   a decode whose search purged cells did not place its batch

vars == <<cfg, kv, calls, job, text, known>>

Caches == {"base", "swa"}

PosMax == 2147483647     \* numeric_limits<llama_pos>::max()

\* llama_kv_cache_iswa's constructor (n_pad = 1).
Size(c) == IF c = "base" \/ cfg.swa_full THEN cfg.kv_size
           ELSE Min({cfg.kv_size,
                     NSwa * (IF cfg.unified THEN Cardinality(Seqs) ELSE 1) + cfg.n_ubatch})

get_can_shift == Size("base") = Size("swa")

Streams == IF cfg.unified THEN {0} ELSE Seqs

seq_to_stream(s) == IF cfg.unified THEN 0 ELSE s

is_masked_swa(c, p0, p1) == c = "swa" /\ p1 - p0 >= NSwa

Stale == [tok |-> -1, rot |-> 0]    \* a row with nothing a sequence may read

NewCache(c) == [cells   |-> [st \in Streams |-> reset(Size(c))],
                heads   |-> [st \in Streams |-> 0],
                sc_info |-> <<>>,
                data    |-> [st \in Streams |-> [i \in 0..Size(c)-1 |-> Stale]]]

----------------------------------------------------------------------------
(* The memory operations of one cache, k, on cells and heads.              *)

\* A freed cell before the head becomes the head.
LowerHead(h, freed) == IF freed # {} /\ Min(freed) < h THEN Min(freed) ELSE h

Owned(t, s, p0, p1) == {i \in Cells(t) : pos_in(t, i, p0, p1) /\ s \in t.seq[i]}

seq_rm(k, s, p0, p1) ==
    LET st  == seq_to_stream(s)
        t   == k.cells[st]
        hit == Owned(t, s, p0, p1)
    IN  [k EXCEPT !.cells[st] = FoldSet(LAMBDA i, u : cell_seq_rm(u, i, s), t, hit),
                  !.heads[st] = LowerHead(@, {i \in hit : t.seq[i] = {s}})]

\* seq_rm with seq_id = -1: whichever sequences own the cells.
seq_rm_any(k, p0, p1) ==
    LET hit(st) == {i \in Cells(k.cells[st]) : pos_in(k.cells[st], i, p0, p1)}
    IN  [k EXCEPT !.cells = [st \in Streams |-> FoldSet(LAMBDA i, u : rm(u, i), @[st], hit(st))],
                  !.heads = [st \in Streams |-> LowerHead(@[st], hit(st))]]

\* In one stream a copy only shares the cells.
seq_cp_shared(k, a, b) ==
    LET st == seq_to_stream(a)
    IN  [k EXCEPT !.cells[st] =
            FoldSet(LAMBDA i, u : cell_seq_add(u, i, b), @, Owned(@, a, 0, PosMax))]

\* Mutant: the pending shift is not passed on.
CopyCellMoved(t, src, i, b) == cell_seq_add(pos_set(t, i, src.pos[i]), i, b)

\* The copy of one cell into another stream: placed where its K data still
\* is, then moved by the shift that is pending on the source.
CopyCell(t, src, i, b) ==
    LET placed == cell_seq_add(pos_set(t, i, src.pos[i] - src.shift[i]), i, b)
    IN  IF src.shift[i] = 0 THEN placed ELSE pos_add(placed, i, src.shift[i])

seq_cp_stream(k, a, b) ==
    LET s0 == seq_to_stream(a)
        s1 == seq_to_stream(b)
        t  == k.cells[s0]
    IN  [k EXCEPT !.sc_info   = Append(@, <<s0, s1>>),
                  !.cells[s1] = FoldSet(LAMBDA i, u : CopyCell(u, t, i, b),
                                        reset(Cardinality(Cells(t))), Owned(t, a, 0, PosMax)),
                  !.heads[s1] = k.heads[s0]]

seq_cp(k, a, b) ==
    IF seq_to_stream(a) = seq_to_stream(b) THEN seq_cp_shared(k, a, b) ELSE seq_cp_stream(k, a, b)

\* Only the stream of s is visited.
seq_keep(k, s) ==
    LET st == seq_to_stream(s)
        t  == k.cells[st]
    IN  [k EXCEPT !.cells[st] = FoldSet(LAMBDA i, u : cell_seq_keep(u, i, s), t, Cells(t)),
                  !.heads[st] = LowerHead(@, {i \in t.used : s \notin t.seq[i]})]

seq_add(k, s, p0, p1, shift) ==
    LET st    == seq_to_stream(s)
        t     == k.cells[st]
        hit   == Owned(t, s, p0, p1)
        freed == {i \in hit : t.pos[i] + shift < 0}
    IN  IF shift = 0 \/ p0 = p1 THEN k
        ELSE [k EXCEPT !.cells[st] = FoldSet(LAMBDA i, u : pos_add(u, i, shift), t, hit),
                       !.heads[st] = IF freed # {} THEN Min(freed) ELSE 0]

seq_div(k, s, p0, p1, d) ==
    LET st == seq_to_stream(s)
    IN  IF d = 1 \/ p0 = p1 THEN k
        ELSE [k EXCEPT !.cells[st] =
                  FoldSet(LAMBDA i, u : pos_div(u, i, d), @, Owned(@, s, p0, p1))]

clear(c, k) == [NewCache(c) EXCEPT !.sc_info = k.sc_info]

----------------------------------------------------------------------------
(* update(): the queued stream copies, then the K-shift of every cell.     *)

CopyStreams(k) ==
    [k EXCEPT !.data = FoldLeft(LAMBDA d, e : [d EXCEPT ![e[2]] = d[e[1]]], @, k.sc_info),
              !.sc_info = <<>>]

HasShift(k) == \E st \in Streams : k.cells[st].has_shift

ShiftK(k) ==
    LET Turn(st) == [i \in DOMAIN k.data[st] |->
                        [k.data[st][i] EXCEPT !.rot = @ + k.cells[st].shift[i]]]
    IN  [k EXCEPT !.data  = [st \in Streams |-> Turn(st)],
                  !.cells = [st \in Streams |-> reset_shift(@[st])]]

\* works: the K-shift graph was allocated and computed.
update(k, works) ==
    IF HasShift(k) /\ works THEN ShiftK(CopyStreams(k)) ELSE CopyStreams(k)

----------------------------------------------------------------------------
(* Slots.  An ubatch is a sequence of tokens [seqs, pos, tok]; a slot_info *)
(* gives the streams of the ubatch and, for each, the cells of its tokens. *)

\* The elements of a set of integers in increasing order, and the elements of
\* a sequence at a set of places.
Ordered(S) == [m \in 1..Cardinality(S) |-> CHOOSE x \in S : Cardinality({y \in S : y <= x}) = m]

Picked(q, places) == LET p == Ordered(places) IN [m \in DOMAIN p |-> q[p[m]]]

UbSeqs(ub) == UNION {ub[i].seqs : i \in DOMAIN ub}

\* cells.size() cells are tried, from the head on and around.
ScanFrom(t, n, head) ==
    LET size  == Cardinality(Cells(t))
        start == IF head > Cardinality(t.used) + 2*n THEN 0 ELSE head
    IN  [j \in 1..size |-> (start + j - 1) % size]

\* Mutant: a cell is given away one position too early.
can_use_early(c, t, i) ==
    \/ is_empty(t, i)
    \/ \E s \in Seqs : t.seq[i] = {s} /\ is_masked_swa(c, t.pos[i], seq_pos_max(t, s) + 2)

\* An empty cell, or one whose only sequence can no longer see it.
can_use(c, t, i) ==
    \/ is_empty(t, i)
    \/ \E s \in Seqs : t.seq[i] = {s} /\ is_masked_swa(c, t.pos[i], seq_pos_max(t, s) + 1)

find_slot(c, k, ub) ==
    LET seqs  == IF cfg.unified THEN <<Min(UbSeqs(ub))>> ELSE Ordered(UbSeqs(ub))
        n     == Len(ub) \div Len(seqs)
        strm  == [j \in DOMAIN seqs |-> seq_to_stream(seqs[j])]
        Free(j) == LET t    == k.cells[strm[j]]
                       scan == ScanFrom(t, n, k.heads[strm[j]])
                   IN  Picked(scan, {m \in DOMAIN scan : can_use(c, t, scan[m])})
        free  == [j \in DOMAIN seqs |-> Free(j)]
    IN  IF \E j \in DOMAIN seqs : Len(free[j]) < n THEN <<>>
        ELSE [j \in DOMAIN seqs |-> [strm |-> strm[j], idxs |-> SubSeq(free[j], 1, n)]]

\* The stream and the cell of the i-th token of the ubatch.
StrmOf(sinfo, i) == sinfo[(i - 1) \div Len(sinfo[1].idxs) + 1].strm
IdxOf(sinfo, i)  == sinfo[(i - 1) \div Len(sinfo[1].idxs) + 1].idxs[((i - 1) % Len(sinfo[1].idxs)) + 1]

\* One token into its cell; gone[s] is the highest position of s overwritten so far.
Place(a, st, i, token) ==
    LET t     == a.k.cells[st]
        owner == CHOOSE s \in Seqs : t.seq[i] = {s}
        gone  == IF is_empty(t, i) THEN a.gone
                 ELSE [a.gone EXCEPT ![owner] = Max({@, t.pos[i]})]
        freed == IF is_empty(t, i) THEN t ELSE rm(t, i)
        taken == FoldSet(LAMBDA s, u : cell_seq_add(u, i, s), pos_set(freed, i, token.pos), token.seqs)
    IN  [k |-> [a.k EXCEPT !.cells[st] = taken], gone |-> gone]

\* Mutants: positions older than the overwritten ones stay; one too many goes.
PurgeNothing(k, s, top) == k

PurgeTooFar(k, s, top) ==
    LET low == seq_pos_min(k.cells[seq_to_stream(s)], s)
    IN  IF top # -1 /\ low <= top THEN seq_rm(k, s, Max({low, 0}), top + 2) ELSE k

\* All positions of s up to the highest overwritten one go with it.
Purge(k, s, top) ==
    LET low == seq_pos_min(k.cells[seq_to_stream(s)], s)
    IN  IF top # -1 /\ low <= top THEN seq_rm(k, s, Max({low, 0}), top + 1) ELSE k

apply_ubatch(k, sinfo, ub) ==
    LET placed == FoldLeftDomain(LAMBDA a, i : Place(a, StrmOf(sinfo, i), IdxOf(sinfo, i), ub[i]),
                                 [k |-> k, gone |-> [s \in Seqs |-> -1]], ub)
        purged == FoldSet(LAMBDA s, u : Purge(u, s, placed.gone[s]), placed.k, Seqs)
    IN  [purged EXCEPT !.heads = [st \in Streams |->
            IF \E j \in DOMAIN sinfo : sinfo[j].strm = st
            THEN Last(sinfo[CHOOSE j \in DOMAIN sinfo : sinfo[j].strm = st].idxs) + 1
            ELSE @[st]]]

\* prepare() places the ubatches one after the other, then undoes them
\* backwards.  Undoing gives back the cells of the slots; heads_old is
\* indexed by the stream's place in the ubatch, as in the code.
PlaceAt(a, ub, sinfo) ==
    IF ~a.ok \/ sinfo = <<>> THEN [a EXCEPT !.ok = FALSE]
    ELSE [ok    |-> TRUE,
          k     |-> apply_ubatch(a.k, sinfo, ub),
          slots |-> Append(a.slots, sinfo),
          undo  |-> <<[sinfo |-> sinfo, heads |-> a.k.heads,
                       saved |-> [j \in DOMAIN sinfo |->
                                     cp(a.k.cells[sinfo[j].strm], sinfo[j].idxs)]]>> \o a.undo]

PlaceNext(c, a, ub) == PlaceAt(a, ub, find_slot(c, a.k, ub))

Restore(k, e) ==
    FoldLeftDomain(LAMBDA u, j : [u EXCEPT !.cells[e.sinfo[j].strm] = set(@, e.sinfo[j].idxs, e.saved[j]),
                                           !.heads[e.sinfo[j].strm] = e.heads[j - 1]],
                   k, e.sinfo)

\* slots = <<>> when some ubatch found no place.
Prepared(done) == [slots |-> IF done.ok THEN done.slots ELSE <<>>,
                   k     |-> FoldLeft(Restore, done.k, done.undo)]

prepare(c, k, ubs) ==
    Prepared(FoldLeft(LAMBDA a, ub : PlaceNext(c, a, ub),
                      [ok |-> TRUE, k |-> k, slots |-> <<>>, undo |-> <<>>], ubs))

----------------------------------------------------------------------------
(* Splitting a batch into ubatches.                                        *)

split_simple(batch) ==
    LET n == cfg.n_ubatch
    IN  [j \in 1..((Len(batch) + n - 1) \div n) |->
            SubSeq(batch, (j - 1) * n + 1, Min({j * n, Len(batch)}))]

\* The disjoint sequence sets of the next ubatch, in batch order; the scan
\* stops once there are more than n_ubatch of them.
PickSets(left, sequential) ==
    FoldLeft(LAMBDA sets, t :
                IF /\ Len(sets) <= cfg.n_ubatch
                   /\ \A j \in DOMAIN sets : sets[j] \cap t.seqs = {}
                   /\ sequential => (sets = <<>> \/ Min(t.seqs) = Min(Last(sets)) + 1)
                THEN Append(sets, t.seqs) ELSE sets,
             <<>>, left)

\* The same number of tokens of every set, at least one each.
NextEqual(left, sequential) ==
    LET sets == PickSets(left, sequential)
        of   == [j \in DOMAIN sets |-> Picked(left, {i \in DOMAIN left : left[i].seqs = sets[j]})]
        n    == Min({Max({1, cfg.n_ubatch \div Len(sets)})} \cup {Len(of[j]) : j \in DOMAIN sets})
    IN  [i \in 1..Len(sets) * n |-> of[(i - 1) \div n + 1][((i - 1) % n) + 1]]

EqualStep(a, sequential) ==
    IF a.left = <<>> THEN a
    ELSE LET ub == NextEqual(a.left, sequential)
         IN  [ubs  |-> Append(a.ubs, ub),
              left |-> Picked(a.left, {i \in DOMAIN a.left : a.left[i] \notin Range(ub)})]

HasCoupled(batch) == \E i \in DOMAIN batch : Cardinality(batch[i].seqs) > 1

\* Coupled sequences cannot be split sequentially: no ubatch at all.
split_equal(batch, sequential) ==
    IF sequential /\ HasCoupled(batch) THEN <<>>
    ELSE FoldLeft(LAMBDA a, t : EqualStep(a, sequential), [ubs |-> <<>>, left |-> batch], batch).ubs

----------------------------------------------------------------------------
(* init_batch() of the two caches: base first, the window cache only when  *)
(* base has room; the simple split first, only in the unified layout.      *)

\* p[c]: what prepare() returned for c.
Split(caches, ubs, p) ==
    [kv    |-> [caches EXCEPT !["base"] = p["base"].k,
                              !["swa"]  = IF p["base"].slots = <<>> THEN @ ELSE p["swa"].k],
     ubs   |-> ubs,
     slots |-> [c \in Caches |-> p[c].slots],
     found |-> \A c \in Caches : p[c].slots # <<>>]

TrySplit(r, ubs) ==
    IF r.found \/ ubs = <<>> THEN r
    ELSE Split(r.kv, ubs, [c \in Caches |-> prepare(c, r.kv[c], ubs)])

init_batch(caches, batch) ==
    LET none   == [kv |-> caches, found |-> FALSE]
        simple == IF cfg.unified THEN TrySplit(none, split_simple(batch)) ELSE none
    IN  TrySplit(simple, split_equal(batch, ~cfg.unified))

----------------------------------------------------------------------------
(* The state machine.                                                      *)

NoJob == [ubs |-> <<>>]

Init ==
    /\ cfg \in Configs
    /\ kv = [c \in Caches |-> NewCache(c)]
    /\ calls = 0
    /\ job = NoJob
    /\ text = [s \in Seqs |-> {}]
    /\ known = {}

\* Between two decodes.  Callers go on after a decode that gave up or purged; the
\* other defects are followed to the end of the decode, then the caller clears.
Idle == job = NoJob /\ known \subseteq {"gaveup", "purged"}

\* The rows of cells nobody owns are never read again, unless a queued copy
\* still takes them to another stream: their content is dropped.
Tidy(k) ==
    IF k.sc_info # <<>> THEN k
    ELSE [k EXCEPT !.data = [st \in Streams |-> [i \in DOMAIN @[st] |->
                                IF k.cells[st].seq[i] = {} THEN Stale ELSE @[st][i]]]]

\* One memory call between two decodes, on both caches.
Call(Op(_)) ==
    /\ Idle
    /\ calls < cfg.max_calls
    /\ calls' = calls + 1
    /\ kv' = [c \in Caches |-> Tidy(Op(kv[c]))]
    /\ UNCHANGED <<cfg, job>>

Positions(s) == {x[1] : x \in text[s]}

\* The callers' own count of the tokens in a sequence.
n_past(s) == IF text[s] = {} THEN 0 ELSE Max(Positions(s)) + 1

pos_min(s) == seq_pos_min(kv["swa"].cells[seq_to_stream(s)], s)
pos_max(s) == seq_pos_max(kv["swa"].cells[seq_to_stream(s)], s)

\* What a cache holds of sequence s, counting the stream copies still queued.
Held(k, s) ==
    LET st == seq_to_stream(s)
        d  == CopyStreams(k).data[st]
        t  == k.cells[st]
    IN  {<<t.pos[i], d[i].tok>> : i \in {j \in Cells(t) : s \in t.seq[j]}}

Without(x, p0, p1) == {e \in x : e[1] < p0 \/ e[1] >= p1}

Shifted(x, p0, p1, d) == {<<IF p0 <= e[1] /\ e[1] < p1 THEN e[1] + d ELSE e[1], e[2]>> : e \in x}

Divided(x, p0, p1, d) == {<<IF p0 <= e[1] /\ e[1] < p1 THEN e[1] \div d ELSE e[1], e[2]>> : e \in x}

----------------------------------------------------------------------------
(* Calls of the memory API between two decodes.                            *)

Clear ==
    /\ job = NoJob
    /\ kv' = [c \in Caches |-> clear(c, kv[c])]
    /\ text' = [s \in Seqs |-> {}]
    /\ known' = {}
    /\ calls' = 0
    /\ UNCHANGED <<cfg, job>>

\* The server keeps the first n tokens of a slot for a new prompt, unless the
\* window cache no longer reaches far enough back: then it starts over.
KeepPrefix(s, n) ==
    LET keep == IF n > 0 /\ pos_min(s) > Max({0, n - NSwa}) THEN 0 ELSE n
    IN  /\ text[s] # {} /\ n < n_past(s)
        /\ Call(LAMBDA k : seq_rm(k, s, keep, PosMax))
        /\ text' = [text EXCEPT ![s] = Without(@, keep, PosMax)]
        /\ UNCHANGED known

\* seq_rm(-1, n, -1) on every sequence that still reaches far enough back.
KeepPrefixAll(n) ==
    /\ \E s \in Seqs : n < n_past(s)
    /\ \A s \in Seqs : pos_min(s) <= Max({0, n - NSwa})
    /\ Call(LAMBDA k : seq_rm_any(k, n, PosMax))
    /\ text' = [s \in Seqs |-> Without(text[s], n, PosMax)]
    /\ UNCHANGED known

\* A whole sequence into an unused one.
SeqCp(a, b) ==
    /\ text[a] # {} /\ text[b] = {}
    /\ Call(LAMBDA k : seq_cp(k, a, b))
    /\ text' = [text EXCEPT ![b] = text[a]]
    /\ UNCHANGED known

\* Sequences in other streams are not removed.
SeqKeep(s) ==
    /\ \E b \in Seqs \ {s} : text[b] # {}
    /\ Call(LAMBDA k : seq_keep(k, s))
    /\ text' = [b \in Seqs |-> IF seq_to_stream(b) = seq_to_stream(s) /\ b # s THEN {} ELSE text[b]]
    /\ UNCHANGED known

\* The callers that move positions never share cells between sequences.
Unshared(s) == \A b \in Seqs \ {s} : text[s] \cap text[b] = {}

\* tools/main and tools/server when the context is full: forget half of what
\* follows the first keep tokens and move the rest down.
ContextShift(s, keep) ==
    LET discard == (n_past(s) - keep) \div 2
    IN  /\ get_can_shift
        /\ discard > 0
        /\ Unshared(s)
        /\ Call(LAMBDA k : seq_add(seq_rm(k, s, keep, keep + discard),
                                   s, keep + discard, n_past(s), -discard))
        /\ text' = [text EXCEPT ![s] = Shifted(Without(@, keep, keep + discard),
                                               keep + discard, n_past(s), -discard)]
        /\ UNCHANGED known

\* tools/main's self-extend, first group (ga_i = 0).
SelfExtend(s) ==
    LET dd == GaW \div GaN - GaW
    IN  /\ n_past(s) >= GaW
        /\ Unshared(s)
        /\ Call(LAMBDA k : seq_add(seq_div(k, s, 0, GaW, GaN), s, GaW, n_past(s), dd))
        /\ text' = [text EXCEPT ![s] = Shifted(Divided(@, 0, GaW, GaN), GaW, n_past(s), dd)]
        /\ known' = known \cup {"div"}

----------------------------------------------------------------------------
(* llama_decode.                                                           *)

SeqSets == {{s} : s \in Seqs} \cup {Seqs}

\* The batch whose i-th token belongs to the sequences q[i].
BatchOf(q) ==
    [i \in DOMAIN q |-> [seqs |-> q[i],
                         pos  |-> n_past(Min(q[i])) + Cardinality({j \in 1..i-1 : Min(q[i]) \in q[j]}),
                         tok  |-> Min(q[i])]]

\* A caller's batch continues each of its sequences, and sequences that
\* share a token are equivalent, as set_input_kq_mask assumes.
Continues(batch) ==
    \A i \in DOMAIN batch : \A s \in batch[i].seqs :
        /\ batch[i].pos = n_past(s) + Cardinality({j \in 1..i-1 : s \in batch[j].seqs})
        /\ \A b \in batch[i].seqs :
              text[s] = text[b] /\ \A j \in 1..i-1 : s \in batch[j].seqs <=> b \in batch[j].seqs

\* llama_batch_allocr::init: the positions follow what the memory reports,
\* and coupled sequences have not diverged.
Accepted(batch) ==
    /\ \A s \in UbSeqs(batch) : pos_max(s) >= 0 => pos_max(s) + 1 = n_past(s)
    /\ \A i \in DOMAIN batch : \A a, b \in batch[i].seqs : pos_min(a) = pos_min(b) /\ pos_max(a) = pos_max(b)

\* memory_update on both caches; a K-shift that fails is only logged.
Updated(caches) ==
    {[c \in Caches |-> update(caches[c], c \notin failed)] :
        failed \in SUBSET {c \in Caches : HasShift(caches[c])}}

Pending(caches) == \E c \in Caches : HasShift(caches[c])

Retry(r) == ~r.found /\ Pending(r.kv)

\* The search for slots: update, init_batch and, while an update is still
\* pending, once more.
Searches(batch) ==
    LET first == {init_batch(k, batch) : k \in Updated(kv)}
        again == {init_batch(k, batch) : k \in UNION {Updated(r.kv) : r \in {f \in first : Retry(f)}}}
    IN  {f \in first : ~Retry(f)} \cup again

\* What the search took out of the window cache and its undo did not put back.
Dropped(new, s) == Held(kv["swa"], s) \ Held(new["swa"], s)

\* The decode goes on although a K-shift is still to be done.
Unturned(new) == IF Pending(new) THEN {"kshift"} ELSE {}

\* The slots of a later ubatch cost a token of an earlier one what it may see.
TooEarly(r) ==
    IF \E j \in 1..Len(r.ubs)-1 : \E t \in Range(r.ubs[j]) : \E s \in t.seqs :
           \E e \in Dropped(r.kv, s) : ~is_masked_swa("swa", e[1], t.pos)
    THEN {"purged"} ELSE {}

\* A decode ends before its last ubatch is placed, after its search purged.
GaveUp(purged) == IF purged THEN {"gaveup"} ELSE {}

\* llama_decode up to the first ubatch, or its return of 1 when no slot was found.
Decode(q) ==
    LET batch == BatchOf(q)
    IN  /\ Idle
        /\ Continues(batch) /\ Accepted(batch)
        /\ \E r \in Searches(batch) :
              LET purged == \E s \in Seqs : Dropped(r.kv, s) # {}
              IN  \/ /\ r.found
                     /\ kv' = r.kv
                     /\ job' = [ubs |-> r.ubs, slots |-> r.slots, purged |-> purged,
                                floor |-> [s \in Seqs |-> pos_min(s)]]
                     /\ known' = known \cup Unturned(r.kv) \cup TooEarly(r)
                  \/ /\ ~r.found
                     /\ kv' = [c \in Caches |-> Tidy(r.kv[c])]
                     /\ known' = known \cup Unturned(r.kv) \cup GaveUp(purged)
                     /\ UNCHANGED job
        /\ UNCHANGED <<cfg, calls, text>>

Ubatch == Head(job.ubs)

Applied(c) == apply_ubatch(kv[c], Head(job.slots[c]), Ubatch)

\* The rows of the ubatch's cells, with what the graph writes there: row[i]
\* for the i-th token.
Written(c, row) ==
    FoldLeftDomain(LAMBDA d, i : [d EXCEPT ![StrmOf(Head(job.slots[c]), i)]
                                           [IdxOf(Head(job.slots[c]), i)] = row[i]],
                   kv[c].data, Ubatch)

\* process_ubatch: place the tokens, compute K and V and attend.
ProcessUbatch ==
    /\ job # NoJob
    /\ kv' = LET row == [i \in DOMAIN Ubatch |-> [tok |-> Ubatch[i].tok, rot |-> Ubatch[i].pos]]
             IN  [c \in Caches |-> Tidy([Applied(c) EXCEPT !.data = Written(c, row)])]
    /\ text' = [s \in Seqs |-> text[s] \cup
                  {<<Ubatch[i].pos, Ubatch[i].tok>> : i \in {j \in DOMAIN Ubatch : s \in Ubatch[j].seqs}}]
    /\ IF Len(job.ubs) = 1
       THEN job' = NoJob
       ELSE job' = [job EXCEPT !.ubs = Tail(@), !.slots = [c \in Caches |-> Tail(@[c])]]
    /\ UNCHANGED <<cfg, calls, known>>

\* The graph fails or is aborted: for the FIRST sequence of each token, all
\* positions from the first one of the ubatch on are removed again.
UbatchFails ==
    LET firsts == {Min(Ubatch[i].seqs) : i \in DOMAIN Ubatch}
        low(s) == Min({Ubatch[i].pos : i \in {j \in DOMAIN Ubatch : Min(Ubatch[j].seqs) = s}})
        Undone(c) == FoldSet(LAMBDA s, k : seq_rm(k, s, low(s), PosMax),
                             [Applied(c) EXCEPT !.data = Written(c, [i \in DOMAIN Ubatch |-> Stale])], firsts)
    IN  /\ job # NoJob
        /\ kv' = [c \in Caches |-> Tidy(Undone(c))]
        /\ job' = NoJob
        /\ known' = known \cup GaveUp(job.purged) \cup (IF HasCoupled(Ubatch) THEN {"coupled"} ELSE {})
        /\ UNCHANGED <<cfg, calls, text>>

BatchShapes == UNION {[1..n -> SeqSets] : n \in 1..cfg.max_batch}

Next ==
    \/ Clear
    \/ \E s \in Seqs, n \in 0..cfg.kv_size : KeepPrefix(s, n)
    \/ \E n \in 0..cfg.kv_size : KeepPrefixAll(n)
    \/ \E a, b \in Seqs : SeqCp(a, b)
    \/ \E s \in Seqs : SeqKeep(s)
    \/ \E s \in Seqs, keep \in KeepLengths : ContextShift(s, keep)
    \/ \E s \in Seqs : SelfExtend(s)
    \/ \E q \in BatchShapes : Decode(q)
    \/ ProcessUbatch
    \/ UbatchFails

Spec == Init /\ [][Next]_vars

----------------------------------------------------------------------------
(* Properties.                                                             *)

\* The incremental bookkeeping of llama_kv_cells (used, seq_pos) agrees with
\* the cells after any sequence of memory calls, placements, undone
\* placements and failed ubatches: find_slot, n_kv and the positions the
\* memory reports all rest on it.
TableExact == \A c \in Caches : \A st \in Streams : TableConsistent(kv[c].cells[st])

\* The row of every live cell is rotated to its position, up to the shift
\* that the next K-shift will apply.
RotationDebt ==
    \A c \in Caches : \A st \in Streams :
        LET t == kv[c].cells[st]
            d == CopyStreams(kv[c]).data[st]
        IN  \A i \in t.used : d[i] # Stale => d[i].rot + t.shift[i] = t.pos[i]

\* Context shifts, sequence copies with a shift pending, stream copies that
\* are queued, K-shifts and reused cells never leave a K row rotated for
\* another position than the cell's (seq_add, seq_cp, update, apply_ubatch).
RotationKept == known \cap {"div", "kshift"} = {} => RotationDebt

\* What the next token of s may see of the text in the window cache.
InWindow(s) == {x \in text[s] : ~is_masked_swa("swa", x[1], n_past(s))}

\* Between and during decodes, also after one that found no slot or an ubatch
\* that failed, the base cache holds of every sequence exactly the text its
\* callers built and the window cache nothing else.  Whatever was given away
\* and purged for other tokens (find_slot, apply_ubatch's purge), the window
\* cache keeps all that the next token may see and, between decodes, an end of
\* the text without a gap.  A decode that gives up after its search purged (see
\* RangePresent) excuses only the second half.
CachesHoldText ==
    "coupled" \notin known =>
        \A s \in Seqs :
            /\ Held(kv["base"], s) = text[s]
            /\ Held(kv["swa"], s) \subseteq text[s]
            /\ "gaveup" \notin known =>
                 /\ (job = NoJob \/ "purged" \notin known) => InWindow(s) \subseteq Held(kv["swa"], s)
                 /\ job = NoJob => Held(kv["swa"], s) = {x \in text[s] : x[1] >= pos_min(s)}

\* set_input_kq_mask: the cells of the first n_kv that token t may read.
Readable(c, k, t) ==
    LET s == Min(t.seqs)
        u == k.cells[seq_to_stream(s)]
    IN  {i \in Cells(u) : /\ i < used_max_p1(u) /\ ~is_empty(u, i)
                          /\ s \in u.seq[i] /\ u.pos[i] <= t.pos /\ ~is_masked_swa(c, u.pos[i], t.pos)}

Attended(c, k, t) ==
    LET st == seq_to_stream(Min(t.seqs))
    IN  {<<k.cells[st].pos[i], k.data[st][i].tok>> : i \in Readable(c, k, t)}

\* The K rows it reads are rotated to their positions.
Turned(c, k, t) ==
    LET st == seq_to_stream(Min(t.seqs))
    IN  \A i \in Readable(c, k, t) : k.data[st][i].rot = k.cells[st].pos[i]

\* What a token at position p of a text should see of it.
Visible(c, x, floor, p) ==
    {e \in x : e[1] <= p /\ ~is_masked_swa(c, e[1], p) /\ (c = "swa" => e[1] >= floor)}

\* Whatever cells a token was given and whatever was overwritten for it, it
\* attends in each cache to exactly the text of each of its sequences that
\* causality and the window allow, with every shift applied (set_input_kq_mask
\* over find_slot's cells, memory_update); in the window cache, back to where
\* the cache reached when decode began.
AttentionExact ==
    [][(job # NoJob /\ text' # text /\ known \subseteq {"kshift"}) =>
         \A c \in Caches : \A t \in Range(Ubatch) :
            /\ \A s \in t.seqs : Attended(c, kv'[c], t) = Visible(c, text'[s], job.floor[s], t.pos)
            /\ known = {} => Turned(c, kv'[c], t)]_vars

\* "all positions in the range [pos_min, pos_max] are guaranteed to be present
\* in the memory" (include/llama.h, llama_memory_seq_pos_min and _max), between
\* two decodes.  The cells that prepare() has purged and not put back break it
\* when the decode it prepared does not complete.
RangePresent ==
    (job = NoJob /\ "coupled" \notin known) =>
        \A s \in {b \in Seqs : pos_min(b) >= 0} :
            pos_min(s)..pos_max(s) = {e[1] : e \in Held(kv["swa"], s)}

\* prepare() "restore[s] the cells to their original state" (llama-kv-cache.cpp,
\* line 571): when a decode comes to an ubatch, the window cache still holds all
\* that its tokens may see of what it held when decode began.
WindowAwaits ==
    (job # NoJob /\ known \subseteq {"purged"}) =>
        \A t \in Range(Ubatch) : \A s \in t.seqs :
            Visible("swa", text[s], job.floor[s], t.pos) \subseteq Held(kv["swa"], s)
============================================================================
