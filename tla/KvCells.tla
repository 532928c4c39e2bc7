------------------------------ MODULE KvCells ------------------------------
(***************************************************************************)
(* The cell table of the KV cache, class llama_kv_cells of                 *)
(* src/src/llama-kv-cells.h: one record                                    *)
(*   pos[i]      position of cell i, -1 when the cell is empty             *)
(*   shift[i]    change of pos[i] since the last reset_shift               *)
(*   seq[i]      the sequences that own cell i                             *)
(*   used        the indices of the non-empty cells                        *)
(*   seq_pos[s]  the bag of positions that sequence s occupies             *)
(*   has_shift   some cell moved since the last reset_shift                *)
(* and its methods as operators from a table to a table.  used and seq_pos *)
(* are kept incrementally by the code and so they are here.                *)
(***************************************************************************)
EXTENDS Integers, FiniteSets, Sequences, Bags, SequencesExt, FiniteSetsExt

CONSTANT Seqs       \* sequence ids, a set of naturals

ASSUME SeqsAssumption == Seqs \subseteq Nat

\* A table of n cells after reset() or resize(n).
reset(n) == [pos       |-> [i \in 0..n-1 |-> -1],
             shift     |-> [i \in 0..n-1 |-> 0],
             seq       |-> [i \in 0..n-1 |-> {}],
             used      |-> {},
             seq_pos   |-> [s \in Seqs |-> EmptyBag],
             has_shift |-> FALSE]

Cells(t) == DOMAIN t.pos

is_empty(t, i) == t.pos[i] = -1

pos_in(t, i, p0, p1) == p0 <= t.pos[i] /\ t.pos[i] < p1

used_max_p1(t) == IF t.used = {} THEN 0 ELSE Max(t.used) + 1

seq_pos_min(t, s) == IF t.seq_pos[s] = EmptyBag THEN -1 ELSE Min(BagToSet(t.seq_pos[s]))

seq_pos_max(t, s) == IF t.seq_pos[s] = EmptyBag THEN -1 ELSE Max(BagToSet(t.seq_pos[s]))

\* Take cell i out of, or put it in, the position bags of its sequences.
seq_pos_rm(t, i) ==
    [t EXCEPT !.seq_pos = [s \in Seqs |->
        IF s \in t.seq[i] THEN @[s] (-) SetToBag({t.pos[i]}) ELSE @[s]]]

seq_pos_add(t, i) ==
    [t EXCEPT !.seq_pos = [s \in Seqs |->
        IF s \in t.seq[i] THEN @[s] (+) SetToBag({t.pos[i]}) ELSE @[s]]]

\* Mutant: an emptied cell stays in used.
VacateStillUsed(t, i) == [t EXCEPT !.seq[i] = {}, !.pos[i] = -1, !.shift[i] = 0]

\* The fields of a cell that no sequence owns any more.
Vacate(t, i) == [t EXCEPT !.seq[i] = {}, !.pos[i] = -1, !.shift[i] = 0, !.used = @ \ {i}]

rm(t, i) == Vacate(seq_pos_rm(t, i), i)

\* Sequence s leaves cell i; the cell is emptied with its last owner.
cell_seq_rm(t, i, s) ==
    LET u == [t EXCEPT !.seq[i] = @ \ {s},
                       !.seq_pos[s] = @ (-) SetToBag({t.pos[i]})]
    IN  IF u.seq[i] = {} THEN Vacate(u, i) ELSE u

cell_seq_keep(t, i, s) ==
    IF s \in t.seq[i]
    THEN seq_pos_add([seq_pos_rm(t, i) EXCEPT !.seq[i] = {s}], i)
    ELSE IF t.seq[i] # {} THEN Vacate(seq_pos_rm(t, i), i) ELSE t

cell_seq_add(t, i, s) ==
    [t EXCEPT !.seq[i] = @ \cup {s}, !.seq_pos[s] = @ (+) SetToBag({t.pos[i]})]

pos_set(t, i, p) == [t EXCEPT !.pos[i] = p, !.used = @ \cup {i}]

\* Move cell i by d and remember the rotation its K data now owes; a cell
\* that falls below position 0 is emptied.
pos_add(t, i, d) ==
    LET u == [seq_pos_rm(t, i) EXCEPT !.pos[i] = @ + d, !.shift[i] = @ + d, !.has_shift = TRUE]
    IN  IF u.pos[i] < 0 THEN Vacate(u, i) ELSE seq_pos_add(u, i)

\* As the code has it: the shift grows by the OLD minus the NEW position.
pos_div(t, i, d) ==
    LET u == [seq_pos_rm(t, i) EXCEPT !.pos[i] = @ \div d,
                                      !.shift[i] = @ + t.pos[i] - (t.pos[i] \div d),
                                      !.has_shift = TRUE]
    IN  seq_pos_add(u, i)

reset_shift(t) == [t EXCEPT !.has_shift = FALSE, !.shift = [i \in Cells(t) |-> 0]]

\* Save the cells idxs, and put saved cells back.
cp(t, idxs) == [j \in DOMAIN idxs |-> [pos |-> t.pos[idxs[j]], seq |-> t.seq[idxs[j]]]]

SetCell(t, i, saved) ==
    LET out == IF t.pos[i] # -1 THEN seq_pos_rm(t, i) ELSE t
        in  == [out EXCEPT !.pos[i] = saved.pos, !.seq[i] = saved.seq,
                           !.used = IF saved.pos = -1 THEN @ \ {i} ELSE @ \cup {i}]
    IN  IF saved.pos # -1 THEN seq_pos_add(in, i) ELSE in

set(t, idxs, saved) ==
    FoldLeftDomain(LAMBDA u, j : SetCell(u, idxs[j], saved[j]), t, idxs)

----------------------------------------------------------------------------
\* How often position p occurs in a bag of positions.
Copies(p, bag) == IF p \in BagToSet(bag) THEN bag[p] ELSE 0

\* used and seq_pos say of the cells exactly what the cells hold.
TableConsistent(t) ==
    /\ t.used = {i \in Cells(t) : t.pos[i] # -1}
    /\ \A i \in Cells(t) : (t.pos[i] = -1) <=> (t.seq[i] = {})
    /\ \A s \in Seqs : \A p \in {t.pos[i] : i \in Cells(t)} \cup BagToSet(t.seq_pos[s]) :
          Copies(p, t.seq_pos[s]) = Cardinality({i \in t.used : t.pos[i] = p /\ s \in t.seq[i]})
============================================================================
