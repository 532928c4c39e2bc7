# A TLA+ model of Infrastructure_GEMMA3: the FPGA host and what runs on it

The repository is a fork of llama.cpp that runs the Q8_0 matrix products of
Gemma 3 on an FPGA accelerator. What is its own is the host side in
`src/ggml/src/ggml-cpu/`: a hook in the CPU backend (`ggml-cpu.c`) and the host
driver behind it (`fpga_host.cpp`, about 12 800 lines). The hook offers every
`MUL_MAT` node to the driver; the driver cuts an accepted product into tiles,
packs each tile into a DDR staging slot, moves it to the accelerator by ZDMA,
starts the VPU (integer products) and the SPU (scaling), and reads the scaled
result back. The modules here model that driver and its hook, and two parts of
the vendored runtime they depend on and that have a protocol of their own: the
ggml thread pool that runs the hook's workers, and the KV cache of Gemma 3 (a
base cache and a sliding-window cache) with the decode loop that produces the
graphs. Below `C` is `ggml-cpu.c` and `H` is `fpga_host.cpp`; the other files
are in `src/src/` unless a directory is given.

## Inventory

| Part | State | Operations | Hard because | Correct when |
|---|---|---|---|---|
| Routing hook (C:1216-1503, H:9190-9600) | `g_fpga_mul_mat_route`, thread-pool barrier and chunk counters, host run counters | thread 0 asks the host, publishes the answer; workers return or convert and multiply | every worker enters every node; the answer is passed through a shared atomic | all workers act on one decision; each destination stored by one owner, once |
| Tile scheduler (H:7374-7697, 6001-6966) | two job slots, lookahead, accumulator, DDR windows, two device banks, one result window | prepare or consume, drain, release, accumulate, admit, submit, finalize, carry | host, helper, DMA and device run at once on shared windows; results are read late and across rows | what is stored equals the sequential product |
| WEIGHT-pack helper (H:906-945, 3957-4257) | flags, generation counters, task, completion, condition variables | start, reserve, submit, wait, stop; the helper's loop | two threads fill one slot that a DMA engine reads; wake-ups; restart | DMA sees a whole tile; nobody waits for ever |
| Completion watcher (H:6423-6529) | `g_compute_watch_*`: phase, pending, stop, snapshot | arm, launch, collect, shutdown; the watcher's loop | lock-free handshake with an unbounded spin; reads device registers | reports the armed job; gone before unmap |
| ZDMA driver (H:2860-3499) | channel registers, deadline, poll hook | init, gate, clear, descriptor, start, poll, drain | posted writes, sticky events, hook in the poll loop | success means moved; descriptor stable while EN |
| Weight residency (H:5375-5887, 6382-6404) | slot directory, hash index, bump allocator, epoch | select or build, poison, seal, bind, re-initialise | bounded probing, builds that fail half way, a directory that never evicts | a resident job moves its own tile |
| Q8 layout and packing (`fpga_q8_layout.cpp`, `fpga_q8_pack.cpp`) | none | address and byte arithmetic, two packing loops | lane, padding and store-pairing arithmetic shared by two producers | both producers together write the layout, no byte twice, none outside |
| DDR weight cache (H:5070-5345) | entry table | lookup, fill | as residency | as residency; no accepted configuration enables it |
| Lifecycle (H:7987-8977, 2024-2640; `tools/main/main.cpp`) | environment policies, mappings, admission flags, `g_fpga_init_complete` | init, cleanup, loader handshake, `pthread_once` | two callers; some two dozen settings checked over 900 lines; failures half way | a ready host is whole; documented configurations come up |
| SPU stream counters (H:3544-3657) | 32-bit counters | sample, compare, wait for quiet | counters wrap; outputs trickle in after DONE | a job is not complete before its last output |
| Single-bank route and tile qualification (H:7700-7889, 9196-9330) | job, tile counter, limit | serial loop, Q16 verification, boundary | the limit counts across matrices and is tested at three places | exactly the tiles up to the limit are launched and checked |
| ggml thread pool (C:2985-3160, 3240-3320) | `n_graph`, `n_threads_cur`, pause, stop, abort, barrier counters | kickoff, poll, sleep, walk, pause, resume, free | workers poll without the mutex; abort is stored while others walk | workers walk every graph in step; no wake-up is lost |
| KV cache (`llama-kv-cells.h`, `llama-kv-cache.cpp`, `llama-kv-cache-iswa.cpp`) | cells, position sets, heads, queued stream copies, pending shifts | seq_rm, seq_cp, seq_keep, seq_add, seq_div, clear, find_slot, prepare, apply_ubatch, update | two caches kept in step; cells reused inside the window; trial placement undone | the caches hold the text, and every token attends to what it should |
| Batch and decode loop (`llama-batch.cpp`, `llama-context.cpp`) | batch, ubatches, slots | check, split, search with retry, process, remove after failure | a failure in the middle of a batch after cells were overwritten | as for the KV cache |
| Contract checks, self tests, benchmark, telemetry | counters, histories | compare, replay, report | floating point, I/O | not modelled |

How they interact. A GGML worker 0 calls `fpga_try_matmul_extended`, which takes
`g_mutex`; everything below runs in that thread, except two more threads: the
pack helper (mutex and two condition variables) and the watcher (mutex, condition
variable and the atomic phase). The scheduler calls the ZDMA driver and gives it
a *poll hook*, so that the next tile is packed between two reads of the channel's
status. Residency is asked for a tile's weights before they are packed. Fatal
conditions call `fpga_fatal`, which aborts the process; the models keep these as
terminal states. Above the hook, `llama_decode` cuts a batch into ubatches, finds
cells for each in both KV caches, and gives one graph per ubatch to the thread
pool, whose workers meet in the hook at every `MUL_MAT` node.

`PROJECT.json` lists every component, also those that are not modelled, and the
hazards of this code at the line where each would bite.

## Modules

| Module | Models | Composed with |
|---|---|---|
| `PackContract` | abstract: one slot is offered, packed, used, released | implemented by `PackWorker` |
| `PackWorker` | helper thread, its caller, two store buffers and the slot | `PackWorkerProofs` proves it |
| `Q8Layout`, `Q8Pack` | the address functions and the two packing loops, as operators | assumptions of `MCPackWorker`; `PackWorkerProofs` proves the addresses |
| `ComputeWatch` | watcher, main thread, VPU, SPU and its stream counters | `DeviceProofs` proves it |
| `Zdma` | `fpga_dma_copy` and the channel | `DeviceProofs` proves it |
| `MatmulRoute` | workers of one or more thread pools, barrier, hook | `MatmulRouteProofs` proves it for one pool |
| `MatmulContract` | abstract: rows of the product stored in order, each once | implemented by `TilePipeline` |
| `ThreadPool` | kickoff, polling, sleeping, node loop, pause and free | `MatmulRoute` is one node of its graph; `ThreadPoolProofs` proves it for one thread count |
| `TilePipeline` | both schedulers, helper, DMA and device for one matmul | uses what `PackWorker` and `Zdma` establish; `TilePipelineProofs` proves it |
| `Residency` | directory, index, allocator and the windows in DDR | `ResidencyProofs` proves it |
| `Lifecycle` | `fpga_init`, `fpga_cleanup` and the program that calls them | `LifecycleProofs` proves it |
| `KvCells` | `llama_kv_cells`: a table of cells and its methods, as operators | used by `KvCache`; `KvCacheProofs` proves the methods |
| `KvCache` | both caches, memory calls, batch splitting, decode loop | `KvCacheProofs` proves its bookkeeping |

`MC*.tla` and `MC*.cfg` are the instances that TLC checks.

### PackWorker

The variables are the `g_p2_pack_worker_*` globals plus a program counter per
thread. Each critical section of `g_p2_pack_worker_mutex` is one action; a thread
in `pthread_cond_wait` has program counter `"asleep"`, is moved back to its test
by a signal or broadcast, and by spurious wake-ups at any time. `Signal` is
separate from `Submit` because the code signals after the unlock. The caller
stands for whoever holds `g_mutex`. A store to DDR first enters the storing
thread's buffer (`helperBuffer`, `callerBuffer`) and drains in any order later;
`mmio_fence` (a DSB) is an action guarded by an empty buffer. Leaving the fence
out therefore breaks `DmaReadsWholeTile`, although the mutex handshake is intact.
The 64-bit words of a tile are abstracted to row pairs, the unit in which the
code splits the work; `ddr[p]` is the generation of the bytes pair `p` holds.

### Q8Layout and Q8Pack

What the two threads write into their pairs is a pure computation, so it is
modelled by operators: `Q8Layout` has the word index, the offset with its overflow
tests (`SizeMax` and `OffsetMax` stand for the limits of the C types) and the pair
ranges; `Q8Pack` folds the two packing loops over a memory, one store at a time,
with the pairing of two 32-bit scale entries into one 64-bit store.
`MCPackWorker` states as assumptions, which TLC evaluates before the run, that for
every small tile and every split of its pairs the two loops together leave exactly
the bytes the layout asks for (`WeightsPacked`, `ScalesPacked`) and that an offset
at the limit is refused, never wrapped (`OffsetsBounded`).

### ComputeWatch

`phase` keeps the code's values 0 to 3. Arming is several actions (create, check,
publish under the mutex, poll for readiness), and so are the watcher's steps after
a measurement (clear pending under the mutex, then store phase 3): the order of
these two stores decides whether the next arm finds the watcher free. The VPU and SPU
finish in their own time or never; a measurement has its own timeout and can fail.
The SPU's counters run freely modulo `Wrap` and a job compares them with a
baseline plus an expected number, as the code does with `uint32_t`. COUNT and
DONE of the streams are taken to be final when the VPU's DONE is up (the VPU is done
when the SPU has accepted its last token); outputs may follow later. This is an
assumption on the device: the host's wait for quiescence relies on it.

### Zdma

Writes to the W1C register and to START are posted: they arrive by separate
channel actions in order. EN rises when START arrives; data movement, DONE, error
and the fall of EN are separate channel actions, DONE and EN in either order. The poll
reads CTRL2 and ISR in two actions, as two loads. Time is one action, `Expire`,
that passes the deadline of the wait in progress.

### MatmulRoute

Each worker of each pool has a program counter. `EnterBarrier` and
`LeaveBarrier` are the two halves of `ggml_barrier`. Thread 0's way
through `fpga_try_matmul_extended` is cut into bypass, reject, accept and run at
the points where it can return or takes `g_mutex`; its counters are kept as far
as the coverage report of cleanup uses them. Nodes are of three kinds: a Q8_0
product the accelerator takes, the vocabulary projection it leaves alone, and
another type. Environment choices (disabled, qualification per matrix or per tile,
with its limit) are chosen in `Init` and never change. The two optional
`llamafile_sgemm` attempts (ggml-cpu.c:1356 and 1424, compiled only with
`GGML_USE_LLAMAFILE`) are left out: they come after the route decision the
module is about, store the whole destination on the host and return early.

### ThreadPool

Thread 0 is the caller of `ggml_graph_compute`. Kickoff is two steps, because
workers poll `n_graph` and `n_threads_cur` without the mutex, and so is the poll
that reads them; everything done under the mutex is one step. A thread in
`ggml_cond_wait` is `"asleep"` or `"pausing"` and may wake up for nothing. The abort
callback is a choice of the caller after each node. The model is of the build
without OpenMP.

### TilePipeline

A tile's data is replaced by what it came from: a weight window holds two halves
(host, helper) of tile numbers, an activation window a tile's group and column,
a result the triple it was computed from. Accumulating appends; storing a row
stores the sequence. So a wrong bank, a stale window, a lost or doubled result, or
a result accumulated into the wrong row shows as a wrong value in `dst`, and
`MatmulContract` says what the right one is. Each DMA is a start and a completion
with a copy of the source taken at the start, between which poll hook and helper
go on packing. `CallFails` lets every call of the loop that can fail do so, followed by
the scope guard (`Unwind`). Whether residency serves a tile, and the gates of
overlap and lookahead, are nondeterministic. The serial loop of the single-bank
route uses the same windows, device and job ownership; with tile qualification
it verifies each tile and stops at the cumulative limit, after which the CPU
computes the whole product (`MatmulContract` then stores nothing here).

This module relies on what two others establish: a ZDMA copy that returns success
has moved its bytes (`Zdma`), and a finished helper task is whole
and visible in DDR (`PackWorker`); hence a transfer and a helper task are two
steps each here.

### Residency

One tile request at a time (all under `g_mutex`). A key stands for tensor
address, position and shape. The hash gives each key its home bucket; the full
identity is compared as in the code, so equal hashes are not a problem by
themselves. A build may fail in layout, in the readback comparison, or by running
out of mapping, after its slot and window have already been consumed. `ddr`
records per word whose payload it holds. Memory corruption of the directory itself
is not modelled.

### Lifecycle

`fpga_init` holds `g_mutex` throughout, so its stages (re-entry, benchmark,
configuration, three mappings, channel gate, channel set-up, admission, stream
mode, self tests, helper, publication) are actions of one program counter; each
ends in the next stage or in `abort()` (`dead`). The environment is the set of
settings that are present, the board the set of its defects; both are chosen in
`Init`, any `MaxDeviations` of them together. Settings that are refused whatever
else is set are one element. Around it are the calls: `main` of llama-cli, which
defers initialisation for qualification runs; the loader's validation handshake;
`pthread_once` in the first `MUL_MAT`; cleanup. A transfer of another owner
of the ZDMA channel may be running at the start and ends at any time. The DDR weight
cache does not appear: with P2 it is refused and without P2 the residency
admission aborts, so no reachable configuration enables it.

### KvCells and KvCache

`KvCells` is the class `llama_kv_cells` method by method: a record of positions,
pending shifts and owners per cell, together with the `used` set and the position
bag of each sequence, which the code keeps incrementally and so does the model.
`KvCache` has two such caches. In the unified layout all sequences share one
stream; otherwise each has its own and a copy between streams is queued
(`sc_info`) and done by the next update. The content of a cell's rows is
abstracted to the token it was computed from and the position K is rotated to.
`text` is the reference: the sequence of tokens the callers' calls have built. A
`Decode` checks and splits the batch, runs pending updates, searches slots with
the trial placement and undo of `prepare`, and retries once after an update;
`ProcessUbatch` and `UbatchFails` follow, ubatch by ubatch. The memory calls are
those that `tools/main` and `tools/server` make (prefix reuse, context shift,
self-extend) and the plain API calls.

Some steps do damage the code does not mend (see *Findings* and *Divergences*). The
variable `known` names what has happened in the present context, and a property is
excused by those names alone that it mentions:

| In `known` | Set when | Excuses |
|---|---|---|
| `"gaveup"` | a decode whose search purged window cells finds no slot, or an ubatch of it fails | reach and gaps of the window cache (second half of `CachesHoldText`), `AttentionExact` |
| `"purged"` | the slots of a later ubatch cost an earlier one a position one of its tokens may see | the same, for the window cache while that decode runs; `AttentionExact` |
| `"kshift"` | a decode goes on with its K-shift still to be done | `RotationKept` and the rotation in `AttentionExact` |
| `"div"` | self-extend has been used | `RotationKept`, `AttentionExact` |
| `"coupled"` | a failed ubatch had tokens of several sequences | `CachesHoldText`, `AttentionExact` |

A decode that purges and goes through sets nothing, so all properties apply to it and
after it: that no purge takes too little or too much is checked there. After `"gaveup"`
and `"purged"` the callers go on, and the base cache, the subset half of
`CachesHoldText` and `TableExact` are checked without excuse; after the other three they
clear. `"purged"` cannot occur with batches of two tokens, only with the contexts of
`kv_cache` that take three.

## Runs

| Run | Instance | Result |
|---|---|---|
| `pack_worker` | 4 pairs split after 2, 3 generations, 2 starts; tiles to 5 rows and 4 blocks, every split | 2 853 states, all properties hold |
| `compute_watch` | 3 jobs of 1 or 2 rows, 2 mappings, counters modulo 5 | 3 953 states, all hold |
| `zdma` | 2 chunks per copy, 3 copies | 1 533 states, all hold |
| `zdma_hook` | 2 chunks, 2 copies | `FailedHookReleasesChannel` violated, see Findings |
| `matmul_route` | one pool, 2 workers, 3 chunks, 4 nodes of all kinds, 2 tiles per product; no limit, a limit of 1 and of 3 | 247 332 states, all hold |
| `matmul_route_two_pools` | two pools, 2 workers, 2 nodes | `OneDecision` violated, see Findings |
| `thread_pool` | 3 threads, 2 graphs of 2 nodes, one count of 1 to 3 for both | 197 456 states, all hold |
| `tile_pipeline` | decode shapes to 3 row groups by 3 K groups; prompt shapes with 2 and 3 columns; tile limits 1, 2, 4 and 9 | 461 581 states, all hold |
| `residency` | 4 keys, 3 of one home bucket; 3 buckets, 2 probes, 3 slots, 4 words, 2 epochs | 670 723 states, all hold |
| `lifecycle` | 23 settings and 17 defects, up to 3 at once; llama-cli and a program without FPGA calls | 363 479 states, all hold |
| `kv_cache` | 2 sequences, window 2; batches to 2 tokens with memory calls, unified and per stream, full-size and small window cache; batches to 3 tokens on shared caches, without memory calls | 92 920 states, all hold |
| `kv_range` | shared caches, batches to 3, one memory call | `RangePresent` violated, see Findings |

What each shows:

* `pack_worker`: ZDMA is started only on whole, visible tiles; the helper writes
  only for an outstanding task; waits and stops return; `PackContract` is
  implemented. Three generations are enough for a stale completion to exist
  beside the current one and for exhaustion; two starts for a restart after stop.
* `compute_watch`: the three jobs give a first, a steady-state and a last arm; two
  mappings a re-creation; with counters modulo 5 every job of the three can be
  the one inside which a counter wraps. `NoFalseAlarm` says no fatal of the handshake is reached
  unless device or thread creation really failed.
* `zdma`: three copies of two chunks let a copy meet both a predecessor's sticky
  DONE and a failed predecessor.
* `matmul_route`: two workers suffice for a late reader of
  the route, three chunks for both workers to compete for a chunk, and a
  native node between two offered ones for a route left over from an earlier
  node. A limit of 3 tiles ends in the middle of the second product, a limit of
  1 in the middle of the first.
* `thread_pool`: three threads are needed for a worker that is asleep while another
  polls; two nodes for an abort between nodes; two graphs for a kickoff that finds
  workers on their way back from the first.
* `tile_pipeline`: three row groups are needed for a carry into a row that is
  itself carried out of; three K groups for a lookahead in the middle of a row; two
  and three columns for reuse of weights in one and in both banks. The limits
  end inside the first matrix, at its end, inside a later one, and never.
* `residency`: three keys of one home bucket and two probes make one of them
  unplaceable; four words and two sizes make the last build fail for space.
* `lifecycle`: every refusal depends on the presence of at most two settings
  or defects, so three at once meet every gate, alone and with a third choice
  that changes the route around it.
  `HealthyComesUp` compares the gates with an independent list of supported
  settings and refused pairs. `LiveChannelUntouched` is about a transfer that is there
  when the host looks; one that another owner starts afterwards is not modelled, as
  the host could neither prevent nor see it.
* `kv_cache`: a window of 2 is the smallest in which a cell can be both expired for
  one token and needed by the one before it. Two sequences suffice to share, copy
  and keep; the cache sizes are those at which a batch of 2 finds no slot, finds
  one only by overwriting expired cells, and finds one after a shift. Batches of three tokens
  are the shortest of which the last token can expire a cell that the first may
  see. With 5 and 6 window cells both ways to give up occur, as does `"purged"`, and
  decodes that purge and go through; memory calls are left to the batches of
  two, which keeps the state space small.

Every property has, in its module, a mutated form of a modelled operation (comment
`Mutant:`) under which it fails.

### Bounds

`MaxGeneration` stands for `UINT64_MAX`. `MaxStarts`, `MaxJobs`, `MaxInits`,
`MaxCopies` and `MaxEpoch` bound repetition; nothing but the repetition depends
on them, and each is large enough for one full cycle to follow another. So do
`MaxGraphs`, and `max_calls` (memory calls since the last clear; positions stay
bounded by the cache size). `Wrap` stands for 2^32 and is larger than what one job
adds, as there. `Shapes`, `MainBatches`, `TileLimits`, `Graph`, `NumChunks`,
`NumTiles`, `Limits`, `NumThreads`, `NThreadsMax`, `NumNodes`, `kv_size`,
`n_ubatch`, `max_batch` and `NSwa` are sizes.

### Fairness

* Threads of the process (caller, helper, watcher, GGML workers, host): weak
  fairness of their steps. The operating system runs a runnable thread. The
  program of `Lifecycle` is fair as a whole. The
  pack-helper's caller is not assumed to leave `"idle"`, that is, to have work,
  and no more is the caller of the thread pool. A worker's polling rounds are
  bounded in the code, and its spinning in a barrier is not a step.
* Store buffers drain: hardware completes stores.
* Deadlines expire (`Expire`): clocks advance, and the code reads them on each poll.
* None for the ZDMA channel, VPU and SPU: they may hang at any
  point, and `CopyReturns`, `MainWaitsEnd` and `MatmulReturns` hold nevertheless,
  by the code's timeouts.

## Findings

1. `zdma_hook`. H:3070-3072 says a failed poll hook must not return while the
   channel owns its descriptor, and drains by waiting for EN = 0. H:3010-3012
   explains that EN reads 0 until the posted START is accepted. If the hook fails
   on the first poll, the drain is satisfied by the old EN and the copy returns
   before the transfer begins. (A hook failure is followed by a fatal error in the
   present callers, so the effect is confined to what runs in between.)
2. `matmul_route_two_pools`. C:1218-1222 promises one decision per node consumed by
   every worker. The variable is process-wide and the barriers are per pool, so with
   two contexts computing at once a worker can consume another pool's decision; its
   destination is then left unwritten or computed twice. With one
   pool (`matmul_route`) the promise holds.
3. `kv_range`. `include/llama.h`:682 and 689 promise for `llama_memory_seq_pos_min`
   and `_max` that all positions between the two are present. When `prepare` reuses a
   cell inside the range of a sequence, `apply_ubatch` purges that sequence's older
   positions, and the undo (`llama-kv-cache.cpp`:571) restores only the cells it had
   taken. If the decode then finds no slot or an ubatch fails, the range has a gap.

### Divergences

Met while modelling; the models do what the code does. The first four can be
reproduced with the configuration named, which is kept here and is not one of the runs.

* `FPGA_PL_SCALE_DISABLE=1` (`MCLifecycleOptOut.cfg`, `OptOutAccepted`). H:8075-8076
  calls it the explicit production opt-out. Residency is requested unconditionally
  (H:8200) and its admission requires P2 (H:8658), so the opt-out aborts on every
  board and the raw route behind it is unreachable.
* `/dev/mem` for the DDR (`MCLifecycleDevmem.cfg`, `DevmemAccepted`). H:8252-8254 and
  the check H:8467-8469 allow it; the residency admission (H:8660) requires UIO.
  `/dev/mem` for the ZDMA and VPU registers works.
* Thread counts that vary (`MCThreadPoolCounts.cfg`, `ParametersQuiet`). C:3268 says
  that no worker accesses the parameters while `ggml_graph_compute` resets them. A
  polling worker reads `n_graph` (C:3045) and `n_threads_cur` (C:3048) in two steps.
  If the caller finishes graph 1, in which the worker has no part, and kicks off
  graph 2 with a larger count between the two reads, the worker takes itself to be
  active for graph 1, walks graph 2 and is ready for graph 2 once more: it walks while
  the caller has returned. Counts on one pool vary, because a plan takes the smaller
  of the request and the tasks of its nodes (C:2985) and one pool may serve both
  `n_threads` and `n_threads_batch` (`llama-context.cpp`:648). With one count
  (`thread_pool`) the comment is right.
* The undo of finding 3 in a decode that goes through (`MCKvPurge.cfg`,
  `WindowAwaits`). The comment at `llama-kv-cache.cpp`:571 says that it restores the
  cells to their original state. When the slots of a later ubatch take over the cell
  of an earlier token of the same batch, the purge reaches back over positions that
  this token may see. If they are in cells shared with another sequence, no slot
  contains them and nothing puts them back: the token attends to less than its window,
  without an error.
* `pos_div` in `llama-kv-cells.h` adds the old minus the new position to the pending
  shift, while `pos_add` adds the new minus the old: after self-extend the K rows
  are rotated the wrong way.
* A failed ubatch is removed (`llama-context.cpp`:1105-1119) only from the first
  sequence of a token that belongs to several.
* A K-shift whose graph fails is only logged; the shift stays pending and the decode
  goes on.
* `seq_keep` visits only the stream of the sequence it keeps; sequences in other
  streams stay.
* The undo of `prepare` gives a stream the old head of the stream with the same place
  in the ubatch, which differs from it when the ubatch skips a stream. A head is only
  where the next search begins, so no property depends on it.
* The SPU counter OUT is compared with its target by plain order. When it wraps
  inside a job the comparison holds from the start and the check after it may
  report a sound job as failed (`completion_mismatch`), never the reverse.

## Proofs

`PackWorkerProofs` proves, for every number of pairs, every split and every number
of generations and starts (assumption `PackAssumption`: the caller and the helper
each have at least one pair, which the code's threshold guarantees):

| Theorem | Statement |
|---|---|
| `TypeCorrect` | `Spec => []TypeOK` |
| `Inductive` | `Spec => []Inv` |
| `DmaSafe` | `Spec => []DmaReadsWholeTile` |
| `HelperConfined` | `Spec => []HelperWritesOnlyOutstandingTask` |
| `HelperAvailable` | `Spec => []HelperFreeWhenCallerIs` |
| `Refinement` | `Spec => ImplementsContract` |

`DmaReadsWholeTile` is not inductive: that the slot is whole when DMA
starts follows from what was true while the two threads were still packing. `Inv`
adds

* `Lifecycle`: which caller and helper positions go together with which flags;
* `Accounting`: generations handed out, in the task, held by the helper and
  completed are ordered, and equal where a task is outstanding;
* `Buffers`: a thread's buffer is empty outside its packing phase and holds only
  pairs of its own range;
* `MainContents`, `HelperContents`: each pair a thread has stored is the current
  generation's or still in its buffer;
* `PublishedContents`: after a full completion has been published, the helper's
  range is in DDR.

Each conjunct has its own step lemma with one case per action; the theorems follow
by propositional temporal reasoning. For the refinement, an initial state maps to an
initial state of `PackContract` and each action, under `Inv`, to one of its actions
or a stutter.

Its second part proves about the layout functions of `Q8Layout`, for tiles of every
shape:

| Theorem | Statement |
|---|---|
| `IndexInPayload` | the word index of a row and a beat of the tile lies in the payload, so the range test of `fpga_weight_layout_word_index` can refuse nothing that passed the others |
| `IndexInjective` | different rows or beats have different words |
| `PairRangeOwnsItsRows` | the words of the rows of a range of pairs are exactly those between its first and its last word |

The last is what lets caller and helper write their two ranges without a lock. The
argument is that a pair and a beat begin at twice `pair * beats + beat` (`PairWindow`),
which separates pairs by the product's monotonicity (`Monotone`) and rows
of a pair by the parity (`Halves`); the products are non-linear, hence the small
steps.

### The other components

The modules below follow the same plan: an inductive invariant (`Inv`, in `DeviceProofs`
`DmaInv` for the channel, in `KvCacheProofs` `KvInv`), a lemma for
its initial state and one per action (or per conjunct and action where an action
disturbs much), a theorem `Inductive`, and the properties as consequences. Each
was first checked by TLC as an invariant of the component's run.

| Module | Theorem | Property |
|---|---|---|
| `ResidencyProofs` | `TypeCorrect`, `Inductive` | `TypeOK`, `Inv` |
| | `SealedIsIntact` | `SealedHoldsItsTile` |
| | `OwnTileMoved` | `MovesOwnTile` |
| | `IndexExact` | `IndexIsExact` |
| `DeviceProofs` | `TypeCorrect`, `Inductive` | `TypeOK`, `Inv` |
| | `DrainIsFinal` | `MeasuredJobIsFinal` |
| | `UnmapIsSafe` | `WatcherGoneBeforeUnmap` |
| | `ChecksAreAssertions` | `NoFalseAlarm` |
| | `SnapshotOwned` | `SnapshotStable` |
| | `DmaTypeCorrect`, `DmaInductive` | `DmaTypeOK`, `DmaInv` |
| | `SuccessIsReal` | `SuccessMeansMoved` |
| | `CloseIsSafe` | `ClosedChannelIdle` |
| | `DescriptorKept` | `DescriptorStable` |
| `LifecycleProofs` | `TypeCorrect`, `Inductive` | `TypeOK`, `Inv` |
| | `ReadyHostIsWhole` | `ReadyIsWhole` |
| | `ForeignTransferSpared` | `LiveChannelUntouched` |
| | `ReentryKeepsHost` | `ReentryImmutable` |
| `MatmulRouteProofs` | `Inductive` | `Inv` |
| (one pool) | `DecisionShared` | `OneDecision` |
| | `ConvertedBeforeUse` | `NativeReadsConverted` |
| | `StoredOnce` | `DstStoredOnce` |
| | `BoundaryIsStrict` | `StrictBoundary` |
| | `ReportIsExact` | `CoverageExact` |
| `TilePipelineProofs` | `Inductive`, `ResultsKept` | `Inv`, `Results` |
| | `TransfersStable` | `DmaSourceStable` |
| | `OwnershipKept` | `OwnershipHolds` |
| | `ComputeSafe` | `ComputeUndisturbed` |
| | `Refinement` | `ImplementsMatmul` |
| `ThreadPoolProofs` | `Inductive` | `Inv` |
| (one count) | `WalkInStep` | `NodesInStep` |
| | `ParametersOwned` | `ParametersQuiet` |
| `KvCacheProofs` | `TablesExactByStream` | `TableExact` |
| | `TablesExactHoldingText` | `TableExact` |

**Zdma**, for copies of any number of chunks (`ZdmaAssumption`: at least one chunk and
one copy). That a copy has moved its bytes cannot be read off the register that says
so: DONE is sticky and START is posted. `PreparationIsQuiet` says that, once the gate
has been passed and the events cleared, nothing is running and nothing is reported;
`PollingIsOwn` that from START on a DONE belongs to the descriptor now written,
because no event is raised before START arrives and DONE only after the bytes have
moved; `DescriptorIsCurrent` and `Progress` carry this over the chunks.
`RestIsQuiet` gives the close.

**Residency**, for any set of keys, any hash, any sizes, table, probe limit within the
table, memory budget and number of epochs (`ResidencyAssumption`). Contents:
`DirectoryBelow` says that sealed windows lie below the allocator's mark, `ClaimIsFresh`
that the window under construction lies above every sealed one, so that a build,
failed or not, touches no sealed window; `BoundToOwnTile` carries this to a job.
Index: `IndexLeadsToSealed`, `SealedIsProbed` and `BuildHasABucket` say that every
sealed tile sits in a bucket that its probe sequence reaches before an empty one.
Poisoning empties no bucket, and an insertion only fills one, so a sequence once unbroken
stays unbroken. The lookup is defined by the first bucket at which it stops;
`LookupCorrect` obtains it as a least element.

**ComputeWatch**, for any number of jobs and mappings (`WatchAssumption`: a job adds
less than `Wrap` to a counter, as tiles are far below 2^32 outputs). `Handshake` lists
which position of the main thread goes with which of the watcher, `phase` and
`pending`; `SnapshotIsTile` and `TileHasRows` say that the snapshot is the job's;
`DeviceRests`, `DeviceWaits` and `DeviceRuns` relate the device's counters to the
baseline modulo `Wrap`; `Measurement` says what each of the watcher's conclusions
means. `NoFalseAlarm` is itself part of the invariant: it excepts only real faults
and the wrap of OUT described under *Divergences*.

**Lifecycle**, for every set of settings and defects, without the run's limit of three
at once (`MaxDeviations` is any number). `StageDone` says for each stage of
`fpga_init` what the earlier ones have established; `ReadyIsOutside` that a ready host
is not inside an initialisation.

**MatmulRoute**, for one pool of any number of threads from two on, any number of
chunks, tiles and nodes, any limit. `OnePool` is a hypothesis of each theorem, because
with two pools `OneDecision` is false (run `matmul_route_two_pools`). The invariant
says that all workers are in one *section* between two barriers: `Together` gives the
positions and nodes a worker can have in it, `BarrierCounts` counts those blocked in the
barrier that ends it. When the last one arrives, everybody is there, so the next section
begins with everybody in it. `Agreed`, `HostStores`, `Converted`, `ChunksDealt` and
`NativeStores` say what holds in each section of the route's copies, of the
destination and of the converted activations. `BoundaryKept` and `CoverageAdds` are the
counters' part, which only worker 0 disturbs.

**TilePipeline**, for matmuls of any number of row groups, K groups and columns, on all
three routes and with every gate on or off (`PipelineAssumption`: no size is zero). `Inv`
has two parts. `Control` fixes the schedule: the lookahead and the helper's task are
for the tile after the one being submitted (`Lookahead`), which tile each job slot
holds (`Scheduled`), who owns the one result window (`Owned`), when the
accelerator rests (`Quiet`), and that a qualification that continues is below its limit
(`Qualified`). `Contents` says that along a tile's way everything is that tile's own:
DDR windows (`Staged`), the lookahead's slot (`Ahead`), weights reused for a later
column (`Reusable`), the bank (`Transferred`), the result (`Computed`).

The refinement of `MatmulContract` needs what was accumulated and stored in addition.
`Results`, inductive relative to `Inv`, says where the tile counter stands in its row
(`Aligned`), that destination and accumulator hold exactly the rows and the partial sums
that the tiles retired so far determine, a result carried into the next row included
(`Summed`), and that the tiles checked are counted (`Counted`). Its step
lemmas rest on arithmetic of the tile number (`Division`, `Coordinates`, `NextTile`)
and on what adding one tile to a sum and one row to the rows does (`SumsGrow`,
`RowsGrow`, `TileAdded`, `RowAdded`). In the mapping, a store of a row, at the end of a
row or for a carried one, is a `StoreRow` of the contract, a verification a `CheckTile`,
a return `Return`, an unwinding after an error `Fail`; every other step stutters.

**ThreadPool**, for any number of threads, nodes and graphs (`PoolAssumption`) when all
graphs ask for one thread count. `OneCount` is a hypothesis of each theorem, because
with counts that vary both properties are false (`MCThreadPoolCounts.cfg`). The pool
has the sections of `MatmulRoute`, one per node of the graph, but its threads do not
start them together: a worker comes to the first node when it has polled or has been
woken, and leaves the last one while the caller may already be back, pausing the pool
or preparing the next graph. So `Section` says that the pool is at rest, or that there
is a node `n` at which every thread with a part is `Here` or `Behind`: it has not seen
the graph, or not seen that the barrier before the node is open. A worker may still
spin in the barrier that ended the last graph while the next one is kicked off; it is
behind that graph's first node, and the barrier's counter stands at zero again because
the last to arrive resets it before it opens the barrier. `BarrierCounts` says that the
counter is the number of threads blocked in the present generation of the barrier, so
the last arrival (`LastArrives`) finds all others blocked at the same node. `AbortFor`
says that an abort is for the node the threads are at or for the next one, hence seen by
all of them at the same node. `OthersIdle` covers threads without a part in the graph.

**KvCache**, for caches, ubatches, batches and windows of any size and any number of
sequences (`KvAssumption`). `TableExact` asks that `used` and the position bags agree with
the cells after any history, and the history is made of loops: a memory call folds a method
of the table over the cells it hits, a placement over the tokens of an ubatch, `prepare` over
the ubatches and back over its undo list, the split over the batch. The proof has three
layers.

*Methods.* `Exact` states the agreement for every position, and `OneCell` is its one
induction-free step: a method that changes one cell and books the change in the bags
(`Booked`) keeps it. Each method of `KvCells` has a lemma with the precondition under which
it does (`SeqRmGood`: the sequence owns the cell; `SeqAddGood`: it does not yet; `PosAddGood`:
the cell has a position; and so on).

*Folds.* The community modules' folds are recursive functions over the subsets of a set.
`Recursion` shows that such a function exists and `Shrinking` that what each element adds
to, all have added to; both rest on `Counting`, induction as a fact about sets of
numbers. `CellWalk` then carries exactness over the cells of a call (a cell that is
not yet visited is still as it was), `FoldIn` and `SeqFoldIn` a typed value over a set or a
sequence, `PrefixIn` a property that grows with the prefix.

*Operations.* Every memory operation keeps a cache good (`RmCache`, `AddCache`, `CpCache`...);
so do placing (`ApplyCache`, given slots that fit: `FindSlot`), undoing (`RestoreGood`) and
both splits (`SimpleGood`, `EqualGood`). The slots a decode holds fit the ubatches it still
has to place: this, with the exact tables and naturals for positions, is `KvInv`.

One precondition is about more than the table: `seq_cp` inside a stream adds the target to
cells that must not have it. With a stream per sequence there is no such copy and with one
sequence no target, so `TablesExactByStream` is unconditional there (its hypothesis speaks
only of the configurations); `TablesExactHoldingText` covers unified contexts of several
sequences and takes from the first half of `CachesHoldText`, which no lost purge excuses,
that an unused sequence owns no cell.

### Only model-checked

* The liveness properties `WaitsEnd`, `MainWaitsEnd`, `CopyReturns`, `GraphFinishes`,
  `CallerReturns`, `MatmulReturns`, and `HealthyComesUp`, which says that an
  initialisation succeeds in the end: they need fairness, outside the prover's reach.
  The fairness conjuncts of the specifications are not used in any proof.
* The packing loops of `Q8Pack`, whose folds over whole tiles TLC compares for all small
  ones, and `RotationKept`, `CachesHoldText` and `AttentionExact` of `KvCache`, which need the
  exact contents of every cell after each fold, and of those that `prepare` has put back,
  where `TableExact` needs only that they are booked.

## Not modelled

* Floating-point arithmetic: activation quantisation, scaling, and the numerical
  contract checks and self tests that compare results with a CPU reference. Their
  outcomes and limits are in `MatmulRoute`, `TilePipeline` and `Lifecycle`.
* The text of environment variables and of sysfs (`Lifecycle` has their outcomes),
  logs, telemetry and the weight-path benchmark: no control decision reads them.
* Saving and restoring a KV state, the server's window checkpoints built on it,
  encoding, embeddings, and `split_seq`, which recurrent models use.
* The older HLS kernel under `src/hls_accelerator`. The accelerator and the ZDMA channel
  are external and modelled from the registers the host reads and writes.
* The rest of upstream ggml and llama.cpp, by far the largest part of the
  repository's 300 000 lines: graph builders of about a hundred architectures,
  tensor kernels, GPU backends that this board does not build, tokenizers, Unicode tables,
  samplers, converters. This is sequential numerical code and data; there is no state
  machine in it for TLC to explore, and a model would be a transliteration. The share
  of lines modelled is therefore small, while of the host driver the parts with state
  are modelled.

A residency key is an address and a shape, and only `fpga_init` changes the epoch:
a tensor freed and another loaded at the same address would find the old
weights. The host is never told of such an event, so no action of the model stands
for it; the hazard is listed in `PROJECT.json`.

## Plan

Done: every protocol of the host driver, the thread pool and the KV cache, the layout
arithmetic, and the proofs of their safety properties listed above, with the two
refinements. What is left are proofs about the contents of the KV cache: a lemma for each fold
of `KvCacheProofs` that says what becomes of each cell, then `CachesHoldText`, on
which `RotationKept`, `AttentionExact` and the hypothesis of `TablesExactHoldingText` rest.
