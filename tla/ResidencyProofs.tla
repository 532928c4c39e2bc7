--------------------------- MODULE ResidencyProofs ---------------------------
(***************************************************************************)
(* Proofs about Residency for any set of tiles, any hash and sizes, and    *)
(* any limits of the directory, the index and the DDR window.              *)
(***************************************************************************)
EXTENDS Residency, WellFoundedInduction, TLAPS

(***************************************************************************)
(* The inductive invariant                                                 *)
(***************************************************************************)

\* Entries of this initialisation lie below the allocation point, and what is
\* not yet claimed is blank.
DirectoryBelow ==
    /\ \A s \in Sealed : /\ slots[s].key \in Keys /\ slots[s].epoch = epoch
                         /\ slots[s].off + Size[slots[s].key] <= nextOff
    /\ \A s \in 0..Capacity - 1 : s >= nextSlot => slots[s].state = "blank"

AskedForATile == pc # "idle" => key \in Keys

GateHasRoom == pc = "gate" => nextOff + Size[key] <= Budget

\* The range under construction lies above every sealed one.
ClaimIsFresh ==
    pc \in {"reserved", "written"} =>
        /\ pending \in 0..Capacity - 1 /\ pending < nextSlot
        /\ slots[pending].state = "blank"
        /\ base + Size[key] <= nextOff
        /\ \A s \in Sealed : slots[s].off + Size[slots[s].key] <= base

BoundToOwnTile == pc = "bound" => pending \in Sealed /\ slots[pending].key = key

\* p is the probe at which a search for k ends.
FirstStop(k, p) ==
    /\ p \in 0..MaxProbes - 1 /\ Stops(k, Bucket(k, p))
    /\ \A q \in 0..p - 1 : ~Stops(k, Bucket(k, q))

IndexLeadsToSealed == \A b \in 0..Buckets - 1 : index[b] # NoSlot => index[b] \in Sealed

SealedIsProbed ==
    \A s \in Sealed : \E p \in 0..MaxProbes - 1 :
        FirstStop(slots[s].key, p) /\ index[Bucket(slots[s].key, p)] = s

\* From the gate to the seal, the search for the tile ends at a free bucket.
BuildHasABucket ==
    pc \in {"gate", "reserved", "written"} =>
        \E p \in 0..MaxProbes - 1 : FirstStop(key, p) /\ index[Bucket(key, p)] = NoSlot

DirectoryInv == /\ TypeOK /\ DirectoryBelow /\ AskedForATile /\ GateHasRoom
                /\ ClaimIsFresh /\ BoundToOwnTile /\ SealedHoldsItsTile /\ MovesOwnTile

IndexInv == IndexLeadsToSealed /\ SealedIsProbed /\ BuildHasABucket

Inv == DirectoryInv /\ IndexInv

(***************************************************************************)
(* Probing                                                                 *)
(***************************************************************************)

\* A set of natural numbers that is not empty has a least element.
LEMMA LeastNatural ==
  ASSUME NEW T \in SUBSET Nat, T # {}
  PROVE  \E x \in T : \A y \in T : x <= y
<1>1. PICK x \in T : \A y \in T : ~(<<y, x>> \in OpToRel(<, Nat))
  BY NatLessThanWellFounded, WFMin
<1>2. ASSUME NEW y \in T PROVE x <= y
  <2>1. <<y, x>> \in Nat \X Nat
    OBVIOUS
  <2>2. y < x => <<y, x>> \in OpToRel(<, Nat)
    BY <2>1 DEF OpToRel
  <2>3. ~(y < x)
    BY <1>1, <2>2, Zenon
  <2>4. x \in Nat /\ y \in Nat
    OBVIOUS
  <2> QED
    BY <2>3, <2>4, SMT
<1> QED
  BY <1>2

\* Probing wraps around inside the index.
LEMMA BucketInIndex ==
  ASSUME NEW k \in Keys, NEW p \in Nat
  PROVE  Bucket(k, p) \in 0..Buckets - 1 /\ Bucket(k, p) # NoSlot
  BY ResidencyAssumption DEF Bucket, NoSlot

\* The search returns the bucket of the first probe that stops, and none only
\* when no probe stops.
LookupEndsAtFirstStop ==
    \A k \in Keys :
        /\ \A p \in 0..MaxProbes - 1 : FirstStop(k, p) => Lookup(k) = Bucket(k, p)
        /\ Lookup(k) # NoSlot => \E p \in 0..MaxProbes - 1 : FirstStop(k, p)

\* Lookup, the loop of fpga_p2_residency_select_or_build_impl, computes the first stop.
LEMMA LookupCorrect == LookupEndsAtFirstStop
<1> SUFFICES ASSUME NEW k \in Keys
             PROVE  /\ \A p \in 0..MaxProbes - 1 : FirstStop(k, p) => Lookup(k) = Bucket(k, p)
                    /\ Lookup(k) # NoSlot => \E p \in 0..MaxProbes - 1 : FirstStop(k, p)
  BY DEF LookupEndsAtFirstStop
<1> DEFINE ends == {p \in 0..MaxProbes - 1 : Stops(k, Bucket(k, p))}
<1>1. Lookup(k) = IF ends = {} THEN NoSlot
                  ELSE Bucket(k, CHOOSE p \in ends : \A q \in ends : p <= q)
  BY DEF Lookup
<1>2. ASSUME NEW p \in 0..MaxProbes - 1, FirstStop(k, p) PROVE Lookup(k) = Bucket(k, p)
  <2>1. p \in ends /\ \A q \in ends : p <= q
    BY <1>2, ResidencyAssumption DEF FirstStop
  <2>2. p = CHOOSE r \in ends : \A q \in ends : r <= q
    <3>1. \A r \in ends : (\A q \in ends : r <= q) => r = p
      BY <2>1, ResidencyAssumption
    <3> QED
      BY <2>1, <3>1
  <2> QED
    BY <1>1, <2>1, <2>2
<1>3. ASSUME Lookup(k) # NoSlot PROVE \E p \in 0..MaxProbes - 1 : FirstStop(k, p)
  <2>1. ends # {} /\ ends \in SUBSET Nat
    BY <1>1, <1>3, ResidencyAssumption
  <2>2. PICK p \in ends : \A q \in ends : p <= q
    BY <2>1, LeastNatural
  <2>3. FirstStop(k, p)
    BY <2>2, ResidencyAssumption DEF FirstStop
  <2> QED
    BY <2>3
<1> QED
  BY <1>2, <1>3

\* A probe that ends, ends inside the index.
LEMMA LookupInIndex ==
  ASSUME NEW k \in Keys, Lookup(k) # NoSlot
  PROVE  Lookup(k) \in 0..Buckets - 1
<1>1. PICK p \in 0..MaxProbes - 1 : FirstStop(k, p) /\ Lookup(k) = Bucket(k, p)
  BY LookupCorrect DEF LookupEndsAtFirstStop
<1> QED
  BY <1>1, BucketInIndex, ResidencyAssumption

(***************************************************************************)
(* The directory                                                           *)
(***************************************************************************)

\* Slot, offset, epoch and bucket numbers stay in their ranges.
LEMMA TypeStep == DirectoryInv /\ BuildHasABucket /\ [Next]_vars => TypeOK'
<1> SUFFICES ASSUME DirectoryInv, BuildHasABucket, [Next]_vars PROVE TypeOK'
  OBVIOUS
<1> USE ResidencyAssumption
    DEF DirectoryInv, TypeOK, AskedForATile, GateHasRoom, ClaimIsFresh, NoSlot, Blank
<1>1. CASE \E k \in Keys : Ask(k)
  BY <1>1 DEF Ask
<1>2. CASE Hit
  <2>1. index[Lookup(key)] \in 0..Capacity - 1
    BY <1>2, LookupInIndex DEF Hit, Found
  <2> QED
    BY <1>2, <2>1 DEF Hit
<1>3. CASE Miss
  BY <1>3 DEF Miss
<1>4. CASE MayBuild
  BY <1>4 DEF MayBuild
<1>5. CASE Defer
  BY <1>5 DEF Defer
<1>6. CASE Reserve
  <2>1. pc = "gate" /\ nextSlot < Capacity /\ key \in Keys /\ Size[key] \in Nat /\ nextOff + Size[key] <= Budget
    BY <1>6 DEF Reserve
  <2>2. nextSlot \in 0..Capacity - 1 /\ nextSlot + 1 \in 0..Capacity /\ nextOff + Size[key] \in 0..Budget
    BY <2>1
  <2>3. nextSlot' = nextSlot + 1 /\ pending' = nextSlot /\ base' = nextOff /\ nextOff' = nextOff + Size[key]
    BY <1>6 DEF Reserve
  <2>4. UNCHANGED <<slots, index, epoch, ddr, key, moved>> /\ pc' = "reserved"
    BY <1>6 DEF Reserve
  <2> QED
    BY <2>2, <2>3, <2>4
<1>7. CASE OutOfMapping
  BY <1>7 DEF OutOfMapping
<1>8. CASE LayoutFails
  BY <1>8 DEF LayoutFails
<1>9. CASE Write
  BY <1>9 DEF Write
<1>10. CASE Poison
  <2>1. pending \in 0..Capacity - 1
    BY <1>10 DEF Poison
  <2> DEFINE Entries == [state : {"blank", "sealed", "poisoned"}, key : Keys \cup {NoKey},
                         epoch : 0..MaxEpoch, off : 0..Budget]
  <2>2. slots' \in [0..Capacity - 1 -> Entries]
    <3>1. slots \in [0..Capacity - 1 -> Entries]
      OBVIOUS
    <3>2. [slots[pending] EXCEPT !.state = "poisoned"] \in Entries
      <4>1. slots[pending] \in Entries
        BY <2>1, <3>1
      <4> QED
        BY <4>1
    <3>3. slots' = [slots EXCEPT ![pending] = [slots[pending] EXCEPT !.state = "poisoned"]]
      BY <1>10, <3>1, <2>1 DEF Poison
    <3> HIDE DEF Entries, TypeOK
    <3> QED
      BY <2>1, <3>1, <3>2, <3>3
  <2>3. /\ UNCHANGED <<index, nextSlot, nextOff, epoch, ddr, base>> /\ pc' = "idle"
        /\ key' \in Keys \cup {NoKey} /\ pending' \in {NoSlot} \cup 0..Capacity - 1
    BY <1>10, <2>1 DEF Poison
  <2> QED
    BY <2>2, <2>3
<1>11. CASE Seal
  <2>1. Entry \in [state : {"blank", "sealed", "poisoned"}, key : Keys \cup {NoKey},
                   epoch : 0..MaxEpoch, off : 0..Budget]
    BY <1>11 DEF Seal, Entry
  <2>2. pending \in 0..Capacity - 1
    BY <1>11 DEF Seal
  <2> QED
    BY <1>11, <2>1, <2>2 DEF Seal
<1>12. CASE Submit
  BY <1>12 DEF Submit
<1>13. CASE Reinit
  BY <1>13 DEF Reinit
<1>14. CASE UNCHANGED vars
  BY <1>14 DEF vars
<1> QED
  BY <1>1, <1>2, <1>3, <1>4, <1>5, <1>6, <1>7, <1>8, <1>9,
     <1>10, <1>11, <1>12, <1>13, <1>14 DEF Next

\* What a sealed entry is made of.
LEMMA SealedTyped ==
  ASSUME TypeOK, DirectoryBelow, NEW s \in Sealed
  PROVE  /\ s \in 0..Capacity - 1 /\ slots[s].state = "sealed" /\ slots[s].key \in Keys
         /\ slots[s].off \in Nat /\ Size[slots[s].key] \in Nat
         /\ slots[s].off + Size[slots[s].key] \in Nat
         /\ slots[s].off + Size[slots[s].key] <= nextOff
<1>1. s \in 0..Capacity - 1 /\ slots[s].state = "sealed"
  BY DEF Sealed
<1>2. slots[s].key \in Keys /\ slots[s].off + Size[slots[s].key] <= nextOff
  BY DEF DirectoryBelow
<1>3. slots[s].off \in 0..Budget
  BY <1>1 DEF TypeOK
<1>4. Size[slots[s].key] \in Nat
  BY <1>2, ResidencyAssumption
<1> QED
  BY <1>1, <1>2, <1>3, <1>4, ResidencyAssumption

\* Sealing the tile under construction adds its slot to the sealed ones.
LEMMA SealedGrows ==
  ASSUME pending \in 0..Capacity - 1, pending \notin Sealed, slots'[pending] = Entry,
         \A s \in 0..Capacity - 1 : s # pending => slots'[s] = slots[s]
  PROVE  Sealed' = Sealed \cup {pending} /\ \A s \in Sealed : slots'[s] = slots[s]
<1>1. slots'[pending].state = "sealed"
  BY DEF Entry
<1>2. \A s \in Sealed : s \in 0..Capacity - 1 /\ s # pending
  BY DEF Sealed
<1>3. \A s \in Sealed : slots'[s] = slots[s]
  BY <1>2
<1>4. \A s \in 0..Capacity - 1 : slots'[s].state = "sealed" <=> s = pending \/ slots[s].state = "sealed"
  BY <1>1
<1>5. Sealed' = Sealed \cup {pending}
  BY <1>4 DEF Sealed
<1> QED
  BY <1>3, <1>5

\* Giving up the tile under construction leaves the sealed ones as they are.
LEMMA SealedKept ==
  ASSUME pending \in 0..Capacity - 1, pending \notin Sealed, slots'[pending].state = "poisoned",
         \A s \in 0..Capacity - 1 : s # pending => slots'[s] = slots[s]
  PROVE  Sealed' = Sealed /\ \A s \in Sealed : slots'[s] = slots[s]
<1>1. \A s \in Sealed : s \in 0..Capacity - 1 /\ s # pending
  BY DEF Sealed
<1>2. \A s \in Sealed : slots'[s] = slots[s]
  BY <1>1
<1>3. \A s \in 0..Capacity - 1 : slots'[s].state = "sealed" <=> slots[s].state = "sealed"
  BY DEF Sealed
<1>4. Sealed' = Sealed
  BY <1>3 DEF Sealed
<1> QED
  BY <1>2, <1>4

\* Allocations never overlap, so what is sealed stays as it was verified.
LEMMA DirectoryStep == DirectoryInv /\ BuildHasABucket /\ [Next]_vars => DirectoryInv'
<1> SUFFICES ASSUME DirectoryInv, BuildHasABucket, [Next]_vars PROVE DirectoryInv'
  OBVIOUS
<1>0. TypeOK'
  BY TypeStep
<1> USE <1>0, ResidencyAssumption
    DEF DirectoryInv, TypeOK, DirectoryBelow, AskedForATile, GateHasRoom, ClaimIsFresh,
        BoundToOwnTile, SealedHoldsItsTile, MovesOwnTile, NoSlot, Blank, Sealed, Words
<1>1. CASE \E k \in Keys : Ask(k)
  BY <1>1 DEF Ask
<1>2. CASE Hit
  <2>1. /\ UNCHANGED <<slots, nextSlot, nextOff, epoch, ddr, key, moved, base>>
        /\ pc = "probe" /\ pc' = "bound" /\ pending' = index[Lookup(key)]
    BY <1>2 DEF Hit
  <2>2. key \in Keys /\ index[Lookup(key)] \in 0..Capacity - 1
    <3>1. key \in Keys /\ Lookup(key) \in 0..Buckets - 1
      BY <1>2, <2>1, LookupInIndex DEF Found, Hit
    <3>2. index[Lookup(key)] # NoSlot
      BY <1>2 DEF Found, Hit
    <3> QED
      BY <3>1, <3>2
  <2>3. pending' \in Sealed /\ slots[pending'].key = key
    BY <1>2, <2>1, <2>2 DEF Found, Hit
  <2>4. Sealed' = Sealed /\ \A s : Words(s)' = Words(s)
    BY <2>1
  <2>5. BoundToOwnTile'
    BY <2>1, <2>3, <2>4
  <2>6. DirectoryBelow' /\ SealedHoldsItsTile' /\ MovesOwnTile'
    <3> HIDE DEF Sealed, Words, TypeOK
    <3> QED
      BY <2>1, <2>4
  <2>7. AskedForATile' /\ GateHasRoom' /\ ClaimIsFresh'
    BY <2>1
  <2> QED
    BY <2>5, <2>6, <2>7
<1>3. CASE Miss
  BY <1>3 DEF Miss
<1>4. CASE MayBuild
  BY <1>4 DEF MayBuild, Fits
<1>5. CASE Defer
  BY <1>5 DEF Defer
<1>6. CASE Reserve
  <2>1. /\ UNCHANGED <<slots, epoch, ddr, key, moved>> /\ pc = "gate" /\ pc' = "reserved"
        /\ nextSlot < Capacity /\ nextSlot' = nextSlot + 1 /\ pending' = nextSlot
        /\ base' = nextOff /\ nextOff' = nextOff + Size[key]
    BY <1>6 DEF Reserve
  <2>2. /\ key \in Keys /\ Size[key] \in Nat /\ nextOff \in Nat /\ nextSlot \in 0..Capacity - 1
        /\ slots[nextSlot].state = "blank"
    <3>1. key \in Keys /\ nextOff \in Nat /\ nextSlot \in 0..Capacity - 1
      BY <2>1
    <3>2. Size[key] \in Nat
      BY <3>1
    <3>3. slots[nextSlot].state = "blank"
      BY <3>1
    <3> QED
      BY <3>1, <3>2, <3>3
  <2>3. ASSUME NEW s \in Sealed PROVE slots[s].off + Size[slots[s].key] <= nextOff'
    BY <2>1, <2>2, SealedTyped, SMTT(30)
  <2>4. DirectoryBelow'
    BY <2>1, <2>2, <2>3, SMTT(30)
  <2>5. ClaimIsFresh'
    BY <2>1, <2>2, <2>3
  <2>6. AskedForATile' /\ GateHasRoom' /\ BoundToOwnTile' /\ SealedHoldsItsTile' /\ MovesOwnTile'
    BY <2>1, <2>2
  <2> QED
    BY <2>4, <2>5, <2>6
<1>7. CASE OutOfMapping
  BY <1>7, SMTT(30) DEF OutOfMapping
<1>8. CASE LayoutFails
  BY <1>8 DEF LayoutFails
<1>9. CASE Write
  <2>1. UNCHANGED <<slots, nextSlot, nextOff, epoch, key, pending, base, moved>> /\ pc' = "written"
    BY <1>9 DEF Write
  <2>2. DirectoryBelow' /\ AskedForATile' /\ GateHasRoom' /\ ClaimIsFresh' /\ BoundToOwnTile'
        /\ MovesOwnTile'
    BY <1>9, <2>1 DEF Write
  <2>3. ASSUME NEW s \in Sealed, NEW w \in Words(s) PROVE ddr'[w] = ddr[w]
    <3>1. slots[s].off + Size[slots[s].key] <= base
      BY <1>9 DEF Write
    <3>2. w \in 0..Budget - 1 /\ w < slots[s].off + Size[slots[s].key]
      OBVIOUS
    <3>3. slots[s].off + Size[slots[s].key] \in Nat
      <4> HIDE DEF TypeOK, DirectoryBelow, Sealed
      <4> QED
        BY SealedTyped
    <3>0. base \in Nat
      OBVIOUS
    <3>4. ~(base <= w)
      BY <3>0, <3>1, <3>2, <3>3
    <3>5. w \notin Written
      BY <3>4 DEF Written
    <3> QED
      BY <1>9, <3>2, <3>5, SMTT(30) DEF Write
  <2>4. SealedHoldsItsTile'
    BY <2>1, <2>3
  <2> QED
    BY <2>2, <2>4
<1>10. CASE Poison
  <2>1. /\ pending \in 0..Capacity - 1 /\ pending < nextSlot
        /\ slots[pending].state = "blank" /\ slots'[pending].state = "poisoned"
        /\ \A s \in 0..Capacity - 1 : s # pending => slots'[s] = slots[s]
        /\ UNCHANGED <<nextSlot, nextOff, epoch, ddr, moved>> /\ pc' = "idle"
    BY <1>10 DEF Poison
  <2>2. Sealed' = Sealed /\ \A s \in Sealed : slots'[s] = slots[s]
    <3>1. pending \notin Sealed
      BY <2>1
    <3> HIDE DEF Sealed
    <3> QED
      BY <2>1, <3>1, SealedKept
  <2>3. DirectoryBelow'
    <3>1. ASSUME NEW s \in Sealed'
          PROVE  /\ slots'[s].key \in Keys /\ slots'[s].epoch = epoch'
                 /\ slots'[s].off + Size[slots'[s].key] <= nextOff'
      <4>1. s \in Sealed /\ slots'[s] = slots[s]
        BY <2>2, <3>1
      <4> QED
        BY <2>1, <4>1
    <3>2. ASSUME NEW s \in 0..Capacity - 1, s >= nextSlot' PROVE slots'[s].state = "blank"
      <4>1. s >= nextSlot /\ s # pending
        BY <2>1, <3>2
      <4> QED
        BY <2>1, <4>1
    <3> HIDE DEF Sealed
    <3> QED
      BY <3>1, <3>2
  <2>4. SealedHoldsItsTile'
    <3>1. ASSUME NEW s \in Sealed', NEW w \in Words(s)' PROVE ddr'[w] = slots'[s].key
      <4>1. s \in Sealed /\ slots'[s] = slots[s]
        BY <2>2, <3>1
      <4>2. w \in Words(s)
        BY <3>1, <4>1
      <4> HIDE DEF Sealed, Words
      <4> QED
        BY <2>1, <4>1, <4>2
    <3> HIDE DEF Sealed, Words
    <3> QED
      BY <3>1
  <2>5. AskedForATile' /\ GateHasRoom' /\ ClaimIsFresh' /\ BoundToOwnTile' /\ MovesOwnTile'
    BY <2>1
  <2> QED
    BY <2>3, <2>4, <2>5
<1>11. CASE Seal
  <2>1. /\ pending \in 0..Capacity - 1 /\ pending < nextSlot /\ key \in Keys
        /\ slots[pending].state = "blank" /\ slots'[pending] = Entry
        /\ \A s \in 0..Capacity - 1 : s # pending => slots'[s] = slots[s]
        /\ UNCHANGED <<nextSlot, nextOff, epoch, ddr, moved, key, pending>> /\ pc' = "bound"
    BY <1>11 DEF Seal
  <2>2. Sealed' = Sealed \cup {pending} /\ \A s \in Sealed : slots'[s] = slots[s]
    <3>1. pending \notin Sealed
      BY <2>1
    <3> HIDE DEF Sealed
    <3> QED
      BY <2>1, <3>1, SealedGrows
  <2>3. DirectoryBelow'
    <3>1. ASSUME NEW s \in Sealed'
          PROVE  /\ slots'[s].key \in Keys /\ slots'[s].epoch = epoch'
                 /\ slots'[s].off + Size[slots'[s].key] <= nextOff'
      <4>1. CASE s = pending
        <5>1. base + Size[key] <= nextOff
          BY <1>11 DEF Seal
        <5> QED
          BY <2>1, <4>1, <5>1 DEF Entry
      <4>2. CASE s # pending
        <5>1. s \in Sealed /\ slots'[s] = slots[s]
          BY <2>2, <3>1, <4>2
        <5> QED
          BY <2>1, <5>1
      <4> QED
        BY <4>1, <4>2
    <3>2. ASSUME NEW s \in 0..Capacity - 1, s >= nextSlot' PROVE slots'[s].state = "blank"
      <4>1. s >= nextSlot /\ s # pending
        BY <2>1, <3>2
      <4> QED
        BY <2>1, <4>1
    <3> HIDE DEF Sealed
    <3> QED
      BY <3>1, <3>2
  <2>4. SealedHoldsItsTile'
    <3>1. ASSUME NEW s \in Sealed', NEW w \in Words(s)' PROVE ddr'[w] = slots'[s].key
      <4>1. CASE s = pending
        <5>1. slots'[s].off = base /\ slots'[s].key = key
          BY <2>1, <4>1 DEF Entry
        <5>2. w \in Written
          BY <3>1, <5>1 DEF Written
        <5> QED
          BY <1>11, <2>1, <5>1, <5>2 DEF Seal, ReadsBack
      <4>2. CASE s # pending
        <5>1. s \in Sealed /\ slots'[s] = slots[s]
          BY <2>2, <3>1, <4>2
        <5>2. w \in Words(s)
          BY <3>1, <5>1
        <5> HIDE DEF Sealed, Words
        <5> QED
          BY <2>1, <5>1, <5>2
      <4> QED
        BY <4>1, <4>2
    <3> HIDE DEF Sealed, Words
    <3> QED
      BY <3>1
  <2>5. BoundToOwnTile'
    <3>1. pending' \in Sealed' /\ slots'[pending'].key = key'
      BY <2>1, <2>2 DEF Entry
    <3> QED
      BY <3>1
  <2>6. AskedForATile' /\ GateHasRoom' /\ ClaimIsFresh' /\ MovesOwnTile'
    BY <2>1
  <2> QED
    BY <2>3, <2>4, <2>5, <2>6
<1>12. CASE Submit
  <2>1. /\ pending \in Sealed /\ slots[pending].key = key
        /\ moved' = [key |-> key, words |-> {ddr[w] : w \in Words(pending)}]
    BY <1>12 DEF Submit
  <2>2. \A w \in Words(pending) : ddr[w] = key
    <3> HIDE DEF Sealed, Words
    <3> QED
      BY <2>1
  <2>3. MovesOwnTile'
    <3>1. moved'.key = key /\ moved'.words = {ddr[w] : w \in Words(pending)}
      BY <2>1, Zenon
    <3>2. {ddr[w] : w \in Words(pending)} \subseteq {key}
      BY ONLY <2>2
    <3> QED
      BY <3>1, <3>2, Zenon
  <2>4. UNCHANGED <<slots, nextSlot, nextOff, epoch, ddr>> /\ pc' = "idle"
    BY <1>12 DEF Submit
  <2>5. SealedHoldsItsTile' /\ DirectoryBelow'
    BY <2>4
  <2> QED
    BY <2>3, <2>4, <2>5
<1>13. CASE Reinit
  BY <1>13 DEF Reinit
<1>14. CASE UNCHANGED vars
  BY <1>14 DEF vars
<1> QED
  BY <1>1, <1>2, <1>3, <1>4, <1>5, <1>6, <1>7, <1>8, <1>9,
     <1>10, <1>11, <1>12, <1>13, <1>14 DEF Next

(***************************************************************************)
(* The index                                                               *)
(***************************************************************************)

\* A step that leaves a bucket and the entry behind it alone leaves alone
\* whether a probe stops there.
LEMMA StopKept ==
  ASSUME IndexLeadsToSealed, \A s \in Sealed : slots'[s] = slots[s],
         NEW k, NEW b \in 0..Buckets - 1, index'[b] = index[b]
  PROVE  Stops(k, b)' <=> Stops(k, b)
<1>1. CASE index[b] = NoSlot
  BY <1>1 DEF Stops
<1>2. CASE index[b] # NoSlot
  <2>1. slots'[index[b]] = slots[index[b]]
    BY <1>2 DEF IndexLeadsToSealed
  <2> QED
    BY <1>2, <2>1 DEF Stops
<1> QED
  BY <1>1, <1>2

\* Sealing and indexing the tile under construction at the end of its own
\* probe moves the end of no other entry's probe.
LEMMA SealKeepsProbes ==
  ASSUME DirectoryInv, IndexInv, Seal
  PROVE  IndexInv'
<1>1. pc = "written" /\ key \in Keys /\ pending \in 0..Capacity - 1 /\ pending \notin Sealed
  BY DEF Seal, DirectoryInv, AskedForATile, ClaimIsFresh, Sealed
<1>2. PICK r \in 0..MaxProbes - 1 : FirstStop(key, r) /\ index[Bucket(key, r)] = NoSlot
  BY <1>1 DEF IndexInv, BuildHasABucket
<1> DEFINE home == Bucket(key, r)
<1>3. Lookup(key) = home /\ home \in 0..Buckets - 1
  BY <1>1, <1>2, LookupCorrect, BucketInIndex, ResidencyAssumption DEF LookupEndsAtFirstStop
<1>4. index' = [index EXCEPT ![home] = pending] /\ slots' = [slots EXCEPT ![pending] = Entry]
  BY <1>3 DEF Seal
<1>5. /\ index \in [0..Buckets - 1 -> {NoSlot} \cup 0..Capacity - 1]
      /\ DOMAIN slots = 0..Capacity - 1
  BY DEF DirectoryInv, TypeOK
<1> HIDE DEF home
<1>6. /\ index'[home] = pending
      /\ \A b \in 0..Buckets - 1 : b # home => index'[b] = index[b]
  BY <1>3, <1>4, <1>5
<1>7. slots'[pending] = Entry /\ \A s \in 0..Capacity - 1 : s # pending => slots'[s] = slots[s]
  BY <1>1, <1>4, <1>5
<1>8. Sealed' = Sealed \cup {pending} /\ \A s \in Sealed : slots'[s] = slots[s]
  BY <1>1, <1>7, SealedGrows
<1>9. pending # NoSlot
  BY <1>1, ResidencyAssumption DEF NoSlot
<1>10. ASSUME NEW k \in Keys, NEW b \in 0..Buckets - 1, b # home
       PROVE  Stops(k, b)' <=> Stops(k, b)
  BY <1>6, <1>8, <1>10, StopKept DEF IndexInv
<1>11. \A k \in Keys : Stops(k, home)
  BY <1>2 DEF Stops, home
<1>12. ASSUME NEW k \in Keys, NEW p \in 0..MaxProbes - 1, FirstStop(k, p), Stops(k, Bucket(k, p))'
       PROVE  FirstStop(k, p)'
  <2>1. ASSUME NEW q \in 0..p - 1 PROVE ~Stops(k, Bucket(k, q))'
    <3>1. ~Stops(k, Bucket(k, q))
      BY <1>12 DEF FirstStop
    <3>2. Bucket(k, q) \in 0..Buckets - 1
      BY BucketInIndex, ResidencyAssumption
    <3>3. Bucket(k, q) # home
      BY <1>11, <3>1
    <3> QED
      BY <1>10, <3>1, <3>2, <3>3
  <2>2. (\A q \in 0..p - 1 : ~Stops(k, Bucket(k, q)))'
    BY <2>1 DEF Bucket
  <2> QED
    BY <1>12, <2>2 DEF FirstStop
<1>13. IndexLeadsToSealed'
  BY <1>6, <1>8 DEF IndexInv, IndexLeadsToSealed
<1>14. ASSUME NEW s \in Sealed'
       PROVE  (\E p \in 0..MaxProbes - 1 :
                  FirstStop(slots[s].key, p) /\ index[Bucket(slots[s].key, p)] = s)'
  <2>1. CASE s = pending
    <3>1. slots'[s].key = key /\ slots'[s].state = "sealed"
      BY <1>7, <2>1 DEF Entry
    <3>2. PICK k \in Keys : k = key
      BY <1>1
    <3>3. FirstStop(k, r) /\ Bucket(k, r) = home
      BY <1>2, <3>2 DEF home
    <3>4. slots'[s].key = k /\ index'[Bucket(k, r)] = s
      BY <1>6, <2>1, <3>1, <3>2, <3>3
    <3>5. Stops(k, Bucket(k, r))'
      BY <3>4 DEF Stops, Bucket
    <3>6. FirstStop(k, r)'
      BY <1>12, <3>3, <3>5
    <3> QED
      BY <3>4, <3>6 DEF FirstStop, Bucket, Stops
  <2>2. CASE s # pending
    <3>1. s \in Sealed /\ slots'[s] = slots[s]
      BY <1>8, <2>2
    <3>2. PICK k \in Keys : k = slots[s].key
      BY <3>1 DEF DirectoryInv, DirectoryBelow
    <3>3. PICK p \in 0..MaxProbes - 1 : FirstStop(k, p) /\ index[Bucket(k, p)] = s
      BY <3>1, <3>2 DEF IndexInv, SealedIsProbed
    <3>4. s # NoSlot
      BY <3>1, ResidencyAssumption DEF Sealed, NoSlot
    <3>5. Bucket(k, p) # home /\ Bucket(k, p) \in 0..Buckets - 1
      BY <1>2, <3>3, <3>4, BucketInIndex, ResidencyAssumption DEF home
    <3>6. Stops(k, Bucket(k, p))'
      BY <1>10, <3>3, <3>5 DEF FirstStop
    <3>7. FirstStop(k, p)'
      BY <1>12, <3>3, <3>6
    <3>8. slots'[s].key = k /\ index'[Bucket(k, p)] = s
      BY <1>6, <3>1, <3>2, <3>3, <3>5
    <3> QED
      BY <3>7, <3>8 DEF FirstStop, Bucket, Stops
  <2> QED
    BY <2>1, <2>2
<1>15. SealedIsProbed'
  BY <1>14 DEF SealedIsProbed
<1>16. BuildHasABucket'
  BY DEF Seal, BuildHasABucket
<1> QED
  BY <1>13, <1>15, <1>16 DEF IndexInv

\* Poisoning the slot under construction, which no bucket leads to, moves the
\* end of no probe.
LEMMA PoisonKeepsProbes ==
  ASSUME DirectoryInv, IndexInv, Poison
  PROVE  IndexInv'
<1>1. pc = "written" /\ pending \in 0..Capacity - 1 /\ pending \notin Sealed
  BY DEF Poison, DirectoryInv, ClaimIsFresh, Sealed
<1>2. /\ slots'[pending].state = "poisoned" /\ index' = index /\ pc' = "idle"
      /\ \A s \in 0..Capacity - 1 : s # pending => slots'[s] = slots[s]
  BY <1>1 DEF Poison, DirectoryInv, TypeOK
<1>3. Sealed' = Sealed /\ \A s \in Sealed : slots'[s] = slots[s]
  BY <1>1, <1>2 DEF Sealed
<1>4. ASSUME NEW k, NEW b \in 0..Buckets - 1 PROVE Stops(k, b)' <=> Stops(k, b)
  BY <1>2, <1>3, StopKept DEF IndexInv
<1>5. ASSUME NEW k \in Keys, NEW p \in 0..MaxProbes - 1, FirstStop(k, p)
      PROVE  FirstStop(k, p)'
  <2>1. \A q \in 0..p : Bucket(k, q) \in 0..Buckets - 1
    BY BucketInIndex, ResidencyAssumption
  <2>2. \A q \in 0..p - 1 : ~Stops(k, Bucket(k, q)) /\ q \in 0..p
    BY <1>5, ResidencyAssumption DEF FirstStop
  <2>3. (\A q \in 0..p - 1 : ~Stops(k, Bucket(k, q)))'
    BY <1>4, <2>1, <2>2 DEF Bucket
  <2>4. Stops(k, Bucket(k, p))'
    BY <1>4, <1>5, <2>1, ResidencyAssumption DEF FirstStop
  <2> QED
    BY <2>3, <2>4 DEF FirstStop
<1>6. ASSUME NEW s \in Sealed'
      PROVE  (\E p \in 0..MaxProbes - 1 :
                 FirstStop(slots[s].key, p) /\ index[Bucket(slots[s].key, p)] = s)'
  <2>1. s \in Sealed /\ slots'[s] = slots[s]
    BY <1>3
  <2>2. PICK k \in Keys : k = slots[s].key
    BY <2>1 DEF DirectoryInv, DirectoryBelow
  <2>3. PICK p \in 0..MaxProbes - 1 : FirstStop(k, p) /\ index[Bucket(k, p)] = s
    BY <2>1, <2>2 DEF IndexInv, SealedIsProbed
  <2>4. FirstStop(k, p)' /\ slots'[s].key = k /\ index'[Bucket(k, p)] = s
    BY <1>2, <1>5, <2>1, <2>2, <2>3
  <2> QED
    BY <2>4 DEF FirstStop, Bucket, Stops
<1>7. SealedIsProbed'
  BY <1>6 DEF SealedIsProbed
<1>8. IndexLeadsToSealed' /\ BuildHasABucket'
  BY <1>2, <1>3 DEF IndexInv, IndexLeadsToSealed, BuildHasABucket
<1> QED
  BY <1>7, <1>8 DEF IndexInv

\* A step that touches neither the directory nor the index leaves every search
\* as it was.
LEMMA ProbesUnchanged ==
  ASSUME UNCHANGED <<slots, index>>, IndexLeadsToSealed, SealedIsProbed
  PROVE  IndexLeadsToSealed' /\ SealedIsProbed'
<1>1. Sealed' = Sealed /\ slots' = slots /\ index' = index
  BY DEF Sealed
<1>2. ASSUME NEW k, NEW b PROVE Stops(k, b)' = Stops(k, b)
  BY DEF Stops
<1>3. ASSUME NEW k, NEW p PROVE FirstStop(k, p)' = FirstStop(k, p)
  BY <1>2 DEF FirstStop, Bucket
<1>4. ASSUME NEW k, NEW p PROVE Bucket(k, p)' = Bucket(k, p)
  BY DEF Bucket
<1>5. SealedIsProbed'
  BY <1>1, <1>3, <1>4 DEF SealedIsProbed
<1>6. IndexLeadsToSealed'
  BY <1>1 DEF IndexLeadsToSealed
<1> QED
  BY <1>5, <1>6

\* Every step keeps index and directory in agreement.
LEMMA IndexStep == Inv /\ [Next]_vars => IndexInv'
<1> SUFFICES ASSUME Inv, [Next]_vars PROVE IndexInv'
  OBVIOUS
<1>1. ASSUME UNCHANGED <<slots, index>>,
             pc' \in {"gate", "reserved", "written"} =>
                 pc \in {"gate", "reserved", "written"} /\ key' = key
      PROVE  IndexInv'
  <2>1. IndexLeadsToSealed' /\ SealedIsProbed'
    BY <1>1, ProbesUnchanged DEF Inv, IndexInv
  <2>2. BuildHasABucket'
    BY <1>1 DEF Inv, IndexInv, BuildHasABucket, FirstStop, Stops, Bucket
  <2> QED
    BY <2>1, <2>2 DEF IndexInv
<1>2. CASE \E k \in Keys : Ask(k)
  BY <1>1, <1>2 DEF Ask
<1>3. CASE Hit
  BY <1>1, <1>3 DEF Hit
<1>4. CASE Miss \/ Defer
  BY <1>1, <1>4 DEF Miss, Defer
<1>5. CASE MayBuild
  <2>1. key \in Keys /\ Vacant(key) /\ UNCHANGED <<slots, index, key>>
    BY <1>5 DEF MayBuild, Inv, DirectoryInv, AskedForATile
  <2>2. PICK p \in 0..MaxProbes - 1 : FirstStop(key, p) /\ index[Bucket(key, p)] = NoSlot
    BY <2>1, LookupCorrect DEF Vacant, LookupEndsAtFirstStop
  <2>3. BuildHasABucket'
    BY <2>1, <2>2 DEF BuildHasABucket, FirstStop, Stops, Bucket
  <2>4. IndexLeadsToSealed' /\ SealedIsProbed'
    BY <2>1, ProbesUnchanged DEF Inv, IndexInv
  <2> QED
    BY <2>3, <2>4 DEF IndexInv
<1>6. CASE Reserve \/ OutOfMapping
  BY <1>1, <1>6 DEF Reserve, OutOfMapping
<1>7. CASE LayoutFails \/ Write
  BY <1>1, <1>7 DEF LayoutFails, Write
<1>8. CASE Poison
  BY <1>8, PoisonKeepsProbes DEF Inv
<1>9. CASE Seal
  BY <1>9, SealKeepsProbes DEF Inv
<1>10. CASE Submit
  BY <1>1, <1>10 DEF Submit
<1>11. CASE Reinit
  <2>1. Sealed' = {}
    BY <1>11 DEF Reinit, Sealed, Blank
  <2>2. \A b \in 0..Buckets - 1 : index'[b] = NoSlot
    BY <1>11 DEF Reinit
  <2>3. pc' = "idle"
    BY <1>11 DEF Reinit
  <2> QED
    BY <2>1, <2>2, <2>3 DEF IndexInv, IndexLeadsToSealed, SealedIsProbed, BuildHasABucket
<1>12. CASE UNCHANGED vars
  BY <1>1, <1>12 DEF vars
<1> QED
  BY <1>2, <1>3, <1>4, <1>5, <1>6, <1>7, <1>8, <1>9, <1>10, <1>11, <1>12 DEF Next

(***************************************************************************)
(* The theorems                                                            *)
(***************************************************************************)

\* A host that has just been initialised has an empty directory and index.
LEMMA InitHolds == Init => Inv
<1> SUFFICES ASSUME Init PROVE Inv
  OBVIOUS
<1> USE ResidencyAssumption DEF Init, Blank, NoSlot
<1>1. Sealed = {}
  BY DEF Sealed
<1>2. TypeOK
  BY DEF TypeOK
<1>3. DirectoryInv
  BY <1>1, <1>2 DEF DirectoryInv, DirectoryBelow, AskedForATile, GateHasRoom, ClaimIsFresh,
                    BoundToOwnTile, SealedHoldsItsTile, MovesOwnTile
<1>4. IndexInv
  BY <1>1 DEF IndexInv, IndexLeadsToSealed, SealedIsProbed, BuildHasABucket
<1> QED
  BY <1>3, <1>4 DEF Inv

\* Directory, index and the build in progress fit together in every state the
\* host reaches: the inductive invariant.
THEOREM Inductive == Spec => []Inv
<1>1. Inv /\ [Next]_vars => Inv'
  BY DirectoryStep, IndexStep DEF Inv, IndexInv
<1> QED
  BY InitHolds, <1>1, PTL DEF Spec

\* The directory never outgrows its array, its index or the DDR window.
THEOREM TypeCorrect == Spec => []TypeOK
<1>1. Inv => TypeOK
  BY DEF Inv, DirectoryInv
<1> QED
  BY Inductive, <1>1, PTL

\* fpga_p2_residency_select_or_build_impl seals a tile only after reading it back, and no later
\* build, failed build or re-initialisation writes into its range.
THEOREM SealedIsIntact == Spec => []SealedHoldsItsTile
<1>1. Inv => SealedHoldsItsTile
  BY DEF Inv, DirectoryInv
<1> QED
  BY Inductive, <1>1, PTL

\* A job bound to a resident tile, whether it was hit or just built, moves the
\* words of that tile and of no other.
THEOREM OwnTileMoved == Spec => []MovesOwnTile
<1>1. Inv => MovesOwnTile
  BY DEF Inv, DirectoryInv
<1> QED
  BY Inductive, <1>1, PTL

\* Open addressing without deletion: the bounded probe finds every sealed tile
\* again and reaches nothing that is not sealed.
THEOREM IndexExact == Spec => []IndexIsExact
<1>1. Inv => IndexIsExact
  <2> SUFFICES ASSUME Inv PROVE IndexIsExact
    OBVIOUS
  <2>1. ASSUME NEW s \in Sealed
        PROVE  Found(slots[s].key) /\ index[Lookup(slots[s].key)] = s
    <3>1. /\ slots[s].key \in Keys /\ slots[s].epoch = epoch /\ slots[s].state = "sealed"
          /\ s # NoSlot
      BY ResidencyAssumption DEF Inv, DirectoryInv, DirectoryBelow, Sealed, NoSlot
    <3>2. PICK p \in 0..MaxProbes - 1 :
              FirstStop(slots[s].key, p) /\ index[Bucket(slots[s].key, p)] = s
      BY DEF Inv, IndexInv, SealedIsProbed
    <3>3. Lookup(slots[s].key) = Bucket(slots[s].key, p) /\ Lookup(slots[s].key) # NoSlot
      BY <3>1, <3>2, LookupCorrect, BucketInIndex, ResidencyAssumption DEF LookupEndsAtFirstStop
    <3> QED
      BY <3>1, <3>2, <3>3 DEF Found
  <2> QED
    BY <2>1 DEF IndexIsExact, Inv, IndexInv, IndexLeadsToSealed
<1> QED
  BY Inductive, <1>1, PTL
=============================================================================
