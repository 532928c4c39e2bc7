----------------------------- MODULE MCKvCache -----------------------------
EXTENDS KvCache

TwoSeqs == 0..1

Context(uni, full, ub, size, batch, n) ==
    [unified |-> uni, swa_full |-> full, n_ubatch |-> ub, kv_size |-> size,
     max_batch |-> batch, max_calls |-> n]

\* Batches of two tokens between memory calls: both layouts, with a full-size
\* window cache (which can shift) and with a smaller one (which overwrites and
\* purges).
WithCalls == {Context(TRUE, TRUE, 2, 4, 2, 2), Context(FALSE, TRUE, 2, 3, 2, 2),
              Context(TRUE, FALSE, 1, 6, 2, 1), Context(FALSE, FALSE, 1, 4, 2, 2)}

\* Batches of three tokens on shared caches: the window cache of five or six
\* cells lends cells between the sequences and within the batch.
LongBatches == {Context(TRUE, FALSE, 1, 7, 3, 0), Context(TRUE, FALSE, 2, 7, 3, 0)}

Contexts == WithCalls \cup LongBatches

\* The first of them with a longer base cache and one memory call.
SharedWindow == {Context(TRUE, FALSE, 1, 8, 3, 1)}
============================================================================
