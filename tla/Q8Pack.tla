------------------------------- MODULE Q8Pack -------------------------------
(***************************************************************************)
(* fpga_q8_pack.cpp: the loops that emit a range of row pairs of a tile    *)
(* into the WEIGHT window and, fused with them, the scale entries.  The    *)
(* lanes of a word are abstracted to the <<row, block, beat>> they come    *)
(* from, a scale entry to its <<row, block>>.  Two producers run them on   *)
(* the two halves of a tile at once (PackWorker).                          *)
(***************************************************************************)
EXTENDS Q8Layout, SequencesExt, TLC

kBlockBeats == 2

Zero == <<"zero">>

\* The iterations of the pair, group-block and beat loops, in order.
Iterations(blocks, pair_begin, pair_end) ==
    [n \in 1..(pair_end - pair_begin) * blocks * kBlockBeats |->
        [pair |-> pair_begin + (n - 1) \div (blocks * kBlockBeats),
         gb   |-> ((n - 1) \div kBlockBeats) % blocks,
         beat |-> (n - 1) % kBlockBeats]]

\* Two stores, out moving on with each: the even row, then the odd or zeros.
EmitBeat(rows, st, it) ==
    LET even == 2 * it.pair
        odd  == IF even + 1 < rows THEN <<even + 1, it.gb, it.beat>> ELSE Zero
    IN  [out |-> st.out + 2,
         mem |-> (st.out :> <<even, it.gb, it.beat>>) @@ (st.out + 1 :> odd) @@ st.mem]

\* fpga_pack_direct_weight_pair_range: what is written where.
pack_weights(rows, blocks, pair_begin, pair_end) ==
    FoldLeft(LAMBDA st, it : EmitBeat(rows, st, it),
             [out |-> pair_begin * blocks * kBlockBeats * 2, mem |-> <<>>],
             Iterations(blocks, pair_begin, pair_end)).mem

\* One scale entry at the 4-byte word dst: held back for a 64-bit store when dst
\* is 8-byte aligned and the row has another block, else stored.
EmitScale(base, blocks, row, wide, st, gb) ==
    LET dst == base + row * blocks + gb
    IN  IF st.pending
        THEN [pending |-> FALSE,
              mem |-> (dst - 1 :> <<row, gb - 1>>) @@ (dst :> <<row, gb>>) @@ st.mem]
        ELSE IF wide /\ gb + 1 < blocks /\ dst % 2 = 0
        THEN [st EXCEPT !.pending = TRUE]
        ELSE [st EXCEPT !.mem = (dst :> <<row, gb>>) @@ @]

EmitRow(base, blocks, wide, st, row) ==
    FoldLeft(LAMBDA u, gb : EmitScale(base, blocks, row, wide, u, gb),
             st, [n \in 1..blocks |-> n - 1])

\* The scale half of fpga_pack_direct_weight_scale_pair_range.  Rows of a pair
\* advance together in the code; they touch different entries.
pack_scales(base, rows, blocks, wide, pair_begin, pair_end) ==
    FoldLeft(LAMBDA st, row : EmitRow(base, blocks, wide, st, row),
             [pending |-> FALSE, mem |-> <<>>],
             SelectSeq([n \in 1..2 * (pair_end - pair_begin) |-> 2 * pair_begin + n - 1],
                       LAMBDA row : row < rows))

expected_scale_entries(rows, blocks, pair_begin, pair_end) ==
    LET last == IF 2 * pair_end < rows THEN 2 * pair_end ELSE rows
    IN  IF pair_begin = pair_end THEN 0 ELSE (last - 2 * pair_begin) * blocks

-----------------------------------------------------------------------------
\* The loops write the layout: the halves of two producers are disjoint,
\* together they are the whole payload, and every word lies where word_index
\* says that row and beat are, zeros in the padding row.
WeightsFollowLayout(rows, blocks, split) ==
    LET beats == blocks * kBlockBeats
        pairs == (rows + 1) \div 2
        main  == pack_weights(rows, blocks, 0, split)
        help  == pack_weights(rows, blocks, split, pairs)
    IN  /\ DOMAIN main \cap DOMAIN help = {}
        /\ DOMAIN main \cup DOMAIN help = 0..payload_words(rows, beats) - 1
        /\ \A row \in 0..PayloadRows(rows) - 1, beat \in 0..beats - 1 :
              (main @@ help)[word_index(rows, beats, row, beat)] =
                  IF row < rows THEN <<row, beat \div kBlockBeats, beat % kBlockBeats>> ELSE Zero

\* No 64-bit scale store reaches into the other producer's entries or is left
\* pending, and every entry is written once with its own scale, wherever the
\* scale window begins.
ScalesFollowLayout(base, rows, blocks, wide, split) ==
    LET pairs == (rows + 1) \div 2
        main  == pack_scales(base, rows, blocks, wide, 0, split)
        help  == pack_scales(base, rows, blocks, wide, split, pairs)
    IN  /\ ~main.pending /\ ~help.pending
        /\ DOMAIN main.mem \cap DOMAIN help.mem = {}
        /\ Cardinality(DOMAIN help.mem) = expected_scale_entries(rows, blocks, split, pairs)
        /\ main.mem @@ help.mem =
              [dst \in base..base + rows * blocks - 1 |->
                  <<(dst - base) \div blocks, (dst - base) % blocks>>]
=============================================================================
