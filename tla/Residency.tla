------------------------------ MODULE Residency ------------------------------
(***************************************************************************)
(* The WEIGHT residency directory of fpga_host.cpp: a bump-allocated,      *)
(* never-evicting cache of packed tiles in DDR with an open-addressed      *)
(* index.  A tile is selected by probing, or built in fresh DDR: reserve,  *)
(* write, read back, seal, publish.  Everything runs under g_mutex; what   *)
(* varies is whether the hardware is idle, and whether DDR reads back what *)
(* was written.  A job bound to a resident tile moves its window by DMA.   *)
(***************************************************************************)
EXTENDS Integers, FiniteSets

CONSTANTS
    Keys,        \* identities: tensor, data pointer, tile position, geometry
    Hash,        \* key -> home bucket, fpga_p2_residency_bucket
    Size,        \* key -> words of its padded payload
    Buckets, MaxProbes, Capacity,    \* P2_WEIGHT_RESIDENCY_... limits
    Budget,      \* words of DDR from WEIGHT_CACHE_BASE on
    MaxEpoch     \* bound: how often the host is initialised

ASSUME ResidencyAssumption ==
    /\ Buckets \in Nat \ {0} /\ MaxProbes \in 1..Buckets
    /\ Capacity \in Nat /\ Budget \in Nat /\ MaxEpoch \in Nat \ {0}
    /\ Hash \in [Keys -> 0..Buckets - 1] /\ Size \in [Keys -> Nat \ {0}]

VARIABLES
    slots,       \* g_p2_resident_tiles
    index,       \* g_p2_residency_index: bucket -> slot, NoSlot
    nextSlot, nextOff, epoch,
    ddr,         \* word -> the key whose payload it holds, Junk
    pc,          \* the host: "idle", "probe", "reserved", "written", "bound", ...
    key,         \* the tile asked for
    pending,     \* the slot under construction or selected
    base,        \* pending.qs_off
    moved        \* the last resident window moved by DMA: [key, words]

vars == <<slots, index, nextSlot, nextOff, epoch, ddr, pc, key, pending, base, moved>>

NoSlot == -1
Junk   == "junk"
NoKey  == "no key"
Blank  == [state |-> "blank", key |-> NoKey, epoch |-> 0, off |-> 0]

Words(s) == {w \in 0..Budget - 1 : slots[s].off <= w /\ w < slots[s].off + Size[slots[s].key]}
Sealed   == {s \in 0..Capacity - 1 : slots[s].state = "sealed"}

\* The directory never outgrows its array or its budget.
TypeOK ==
    /\ slots \in [0..Capacity - 1 -> [state : {"blank", "sealed", "poisoned"},
          key : Keys \cup {NoKey}, epoch : 0..MaxEpoch, off : 0..Budget]]
    /\ index \in [0..Buckets - 1 -> {NoSlot} \cup 0..Capacity - 1]
    /\ nextSlot \in 0..Capacity /\ nextOff \in 0..Budget /\ epoch \in 1..MaxEpoch
    /\ ddr \in [0..Budget - 1 -> Keys \cup {Junk}]
    /\ pc \in {"idle", "probe", "gate", "reserved", "written", "bound"}
    /\ key \in Keys \cup {NoKey} /\ pending \in {NoSlot} \cup 0..Capacity - 1
    /\ base \in 0..Budget

Init ==
    /\ slots = [s \in 0..Capacity - 1 |-> Blank]
    /\ index = [b \in 0..Buckets - 1 |-> NoSlot]
    /\ nextSlot = 0 /\ nextOff = 0 /\ epoch = 1
    /\ ddr = [w \in 0..Budget - 1 |-> Junk]
    /\ pc = "idle" /\ key = NoKey /\ pending = NoSlot /\ base = 0
    /\ moved = [key |-> NoKey, words |-> {}]

(***************************************************************************)
(* Lookup                                                                  *)
(***************************************************************************)
Bucket(k, probe) == (Hash[k] + probe) % Buckets

\* A probe ends at an empty bucket, at an entry that is not usable, or at the
\* key itself; other keys are collisions and are passed over.
Stops(k, b) ==
    \/ index[b] = NoSlot
    \/ slots[index[b]].state # "sealed"
    \/ slots[index[b]].key = k

\* The bucket at which the probe for k ends, NoSlot when it is exhausted.
Lookup(k) ==
    LET ends == {p \in 0..MaxProbes - 1 : Stops(k, Bucket(k, p))}
    IN IF ends = {} THEN NoSlot
       ELSE Bucket(k, CHOOSE p \in ends : \A q \in ends : p <= q)

Found(k) ==
    /\ Lookup(k) # NoSlot /\ index[Lookup(k)] # NoSlot
    /\ slots[index[Lookup(k)]].state = "sealed"
    /\ slots[index[Lookup(k)]].key = k /\ slots[index[Lookup(k)]].epoch = epoch

\* fpga_prepare_q8_tile_job asks for a tile.
Ask(k) ==
    /\ pc = "idle" /\ pc' = "probe" /\ key' = k
    /\ UNCHANGED <<slots, index, nextSlot, nextOff, epoch, ddr, pending, moved, base>>

Hit ==
    /\ pc = "probe" /\ Found(key)
    /\ pending' = index[Lookup(key)] /\ pc' = "bound"
    /\ UNCHANGED <<slots, index, nextSlot, nextOff, epoch, ddr, key, moved, base>>

Vacant(k) == Lookup(k) # NoSlot /\ index[Lookup(k)] = NoSlot

Fits == nextOff + Size[key] <= Budget

\* Probe exhausted, a poisoned or stale entry in the way, or no room: direct
\* staging.
Miss ==
    /\ pc = "probe" /\ ~Found(key) /\ ~(Vacant(key) /\ Fits)
    /\ pc' = "idle" /\ key' = NoKey
    /\ UNCHANGED <<slots, index, nextSlot, nextOff, epoch, ddr, pending, moved, base>>

MayBuild ==
    /\ pc = "probe" /\ Vacant(key) /\ Fits
    /\ pc' = "gate"
    /\ UNCHANGED <<slots, index, nextSlot, nextOff, epoch, ddr, key, pending, moved, base>>

(***************************************************************************)
(* Build                                                                   *)
(***************************************************************************)
\* A bank is running, ZDMA or the SPU is not quiescent, the descriptor is not
\* free, or the directory is full: the build is optional and is skipped.
Defer ==
    /\ pc = "gate" /\ pc' = "idle" /\ key' = NoKey
    /\ UNCHANGED <<slots, index, nextSlot, nextOff, epoch, ddr, pending, moved, base>>

\* Mutant: the range is only claimed when the tile is published.
ReserveKeepsOffset ==
    /\ pc = "gate" /\ nextSlot < Capacity
    /\ nextSlot' = nextSlot + 1 /\ pending' = nextSlot /\ base' = nextOff
    /\ pc' = "reserved"
    /\ UNCHANGED <<slots, index, nextOff, epoch, ddr, key, moved>>

\* The slot and the range are claimed before DDR is touched.
Reserve ==
    /\ pc = "gate" /\ nextSlot < Capacity
    /\ nextSlot' = nextSlot + 1 /\ pending' = nextSlot /\ base' = nextOff
    /\ nextOff' = nextOff + Size[key] /\ pc' = "reserved"
    /\ UNCHANGED <<slots, index, epoch, ddr, key, moved>>

\* The mapping is too small for the range: the slot stays claimed and blank.
OutOfMapping ==
    /\ pc = "gate" /\ nextSlot < Capacity
    /\ nextSlot' = nextSlot + 1 /\ pc' = "idle" /\ key' = NoKey
    /\ UNCHANGED <<slots, index, nextOff, epoch, ddr, pending, moved, base>>

\* A row of the payload has no place in the layout: slot and range stay claimed.
LayoutFails ==
    /\ pc = "reserved" /\ pc' = "idle" /\ key' = NoKey /\ pending' = NoSlot
    /\ UNCHANGED <<slots, index, nextSlot, nextOff, epoch, ddr, moved, base>>

Written == {w \in 0..Budget - 1 : base <= w /\ w < base + Size[key]}

\* The payload is written and synced; a faulty window may not keep all of it.
Write ==
    /\ pc = "reserved" /\ pc' = "written"
    /\ \E kept \in {Written, Written \ {base}} :
          ddr' = [w \in 0..Budget - 1 |->
                    IF w \in kept THEN key ELSE IF w \in Written THEN Junk ELSE ddr[w]]
    /\ UNCHANGED <<slots, index, nextSlot, nextOff, epoch, key, pending, moved, base>>

ReadsBack == \A w \in Written : ddr[w] = key

Entry == [state |-> "sealed", key |-> key, epoch |-> epoch, off |-> base]

\* fpga_p2_residency_poison_slot after a failed sync or a readback mismatch:
\* the slot is never indexed and its range never given back.
Poison ==
    /\ pc = "written"
    /\ slots' = [slots EXCEPT ![pending].state = "poisoned"]
    /\ pc' = "idle" /\ key' = NoKey /\ pending' = NoSlot
    /\ UNCHANGED <<index, nextSlot, nextOff, epoch, ddr, moved, base>>

\* Mutant: the tile is sealed without the readback.
SealUnverified ==
    /\ pc = "written"
    /\ slots' = [slots EXCEPT ![pending] = Entry]
    /\ index' = [index EXCEPT ![Lookup(key)] = pending] /\ pc' = "bound"
    /\ UNCHANGED <<nextSlot, nextOff, epoch, ddr, key, pending, moved, base>>

\* Mutant: the entry is indexed at the home bucket, not where the probe ended.
SealAtHome ==
    /\ pc = "written" /\ ReadsBack
    /\ slots' = [slots EXCEPT ![pending] = Entry]
    /\ index' = [index EXCEPT ![Hash[key]] = pending] /\ pc' = "bound"
    /\ UNCHANGED <<nextSlot, nextOff, epoch, ddr, key, pending, moved, base>>

\* Directory first, index second, each behind a release fence.
Seal ==
    /\ pc = "written" /\ ReadsBack
    /\ slots' = [slots EXCEPT ![pending] = Entry]
    /\ index' = [index EXCEPT ![Lookup(key)] = pending] /\ pc' = "bound"
    /\ UNCHANGED <<nextSlot, nextOff, epoch, ddr, key, pending, moved, base>>

(***************************************************************************)
(* Use and re-initialisation                                               *)
(***************************************************************************)
\* fpga_p2_residency_job_still_valid at submit, then the WEIGHT transfer.
Submit ==
    /\ pc = "bound" /\ slots[pending].state = "sealed"
    /\ slots[pending].key = key /\ slots[pending].epoch = epoch
    /\ moved' = [key |-> key, words |-> {ddr[w] : w \in Words(pending)}]
    /\ pc' = "idle" /\ key' = NoKey /\ pending' = NoSlot
    /\ UNCHANGED <<slots, index, nextSlot, nextOff, epoch, ddr, base>>

\* fpga_cleanup and fpga_init: DDR keeps its old words, the directory does not.
Reinit ==
    /\ pc = "idle" /\ epoch < MaxEpoch /\ epoch' = epoch + 1
    /\ slots' = [s \in 0..Capacity - 1 |-> Blank]
    /\ index' = [b \in 0..Buckets - 1 |-> NoSlot]
    /\ nextSlot' = 0 /\ nextOff' = 0
    /\ UNCHANGED <<ddr, pc, key, pending, moved, base>>

Next ==
    \/ \E k \in Keys : Ask(k)
    \/ Hit \/ Miss \/ MayBuild \/ Defer \/ Reserve \/ OutOfMapping \/ LayoutFails
    \/ Write \/ Poison \/ Seal \/ Submit \/ Reinit

Spec == Init /\ [][Next]_vars

(***************************************************************************)
(* Properties                                                              *)
(***************************************************************************)
\* The DDR range of every sealed entry holds exactly that entry's payload,
\* after any number of builds, failed builds and re-initialisations.
SealedHoldsItsTile ==
    \A s \in Sealed : \A w \in Words(s) : ddr[w] = slots[s].key

\* Index and directory agree.  The bounded probe finds every sealed entry of
\* this epoch again, so a tile is never built, and DDR never spent, twice; and
\* the index leads to nothing else: no probe reaches a failed or abandoned build.
IndexIsExact ==
    /\ \A s \in Sealed : Found(slots[s].key) /\ index[Lookup(slots[s].key)] = s
    /\ \A b \in 0..Buckets - 1 : index[b] # NoSlot => index[b] \in Sealed

\* What the WEIGHT transfer of a resident job moves is that job's own tile.
MovesOwnTile == moved.words \subseteq {moved.key}
=============================================================================
