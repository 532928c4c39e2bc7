---------------------------- MODULE KvCacheProofs ----------------------------
(***************************************************************************)
(* Proofs about KvCells and KvCache: the incremental bookkeeping of the    *)
(* cell tables is exact after every sequence of memory calls, decodes and  *)
(* failures, for caches, batches and windows of any size.                  *)
(***************************************************************************)
EXTENDS KvCache, FiniteSetTheorems, SequenceTheorems, NaturalsInduction, WellFoundedInduction, TLAPS

(***************************************************************************)
(* Induction.  The folds of the model are recursive functions over the     *)
(* subsets of a set: they exist, and what holds of them step by step holds *)
(* at the end.                                                             *)
(***************************************************************************)

\* A set of natural numbers that holds 0 and with each number the next one
\* holds all of them.
LEMMA Counting ==
  ASSUME NEW G, 0 \in G, \A n \in Nat : n \in G => n + 1 \in G
  PROVE  Nat \subseteq G
<1> SUFFICES ASSUME Nat \ G # {} PROVE FALSE
  OBVIOUS
<1> DEFINE T == Nat \ G
<1>1. PICK x \in T : \A y \in T : ~(<<y, x>> \in OpToRel(<, Nat))
  BY NatLessThanWellFounded, WFMin
<1>2. x \in Nat /\ x # 0 /\ x \notin G
  BY <1>1
<1>3. x - 1 \in Nat /\ x - 1 \notin G
  BY <1>2
<1>4. <<x - 1, x>> \in OpToRel(<, Nat)
  BY <1>2, <1>3 DEF OpToRel
<1> QED
  BY <1>1, <1>3, <1>4

\* Each subset of S is in G if it is without some one of its elements.
Growing(G, S) == \A T \in SUBSET S : T # {} => \E x \in T : T \ {x} \in G => T \in G

\* Then all of them are, when S is finite.
LEMMA Shrinking ==
  ASSUME NEW S, IsFiniteSet(S), NEW G, {} \in G, Growing(G, S)
  PROVE  S \in G
<1> DEFINE N == {n \in Nat : \A T \in SUBSET S : Cardinality(T) = n => T \in G}
<1>0. \A T \in SUBSET S : IsFiniteSet(T) /\ Cardinality(T) \in Nat
  BY FS_Subset, FS_CardinalityType
<1>1. 0 \in N
  BY <1>0, FS_EmptySet
<1>2. ASSUME NEW n \in Nat, n \in N PROVE n + 1 \in N
  <2> SUFFICES ASSUME NEW T \in SUBSET S, Cardinality(T) = n + 1 PROVE T \in G
    OBVIOUS
  <2>1. T # {}
    BY <1>0, FS_EmptySet
  <2>2. PICK x \in T : T \ {x} \in G => T \in G
    BY <2>1 DEF Growing
  <2>3. Cardinality(T \ {x}) = n
    <3>1. IsFiniteSet(T) /\ x \in T
      BY <1>0, <2>2
    <3>2. Cardinality(T \ {x}) = Cardinality(T) - 1
      BY <3>1, FS_RemoveElement, Zenon
    <3> QED
      BY <3>2
  <2> QED
    BY <2>2, <2>3, <1>2
<1> HIDE DEF N
<1>3. Nat \subseteq N
  BY <1>1, <1>2, Counting
<1> QED
  BY <1>0, <1>3 DEF N

\* A choice of an element of every subset, and a solution g of the recursion
\* that takes elements out by this choice.
Choice(ch, S) == \A T \in SUBSET S : T # {} => ch[T] \in T

Solution(g, S, base, F, ch) ==
    \A T \in SUBSET S : g[T] = IF T = {} THEN base ELSE F[<<ch[T], g[T \ {ch[T]}]>>]

\* A recursion that takes one element out of a set at a time has a solution.
LEMMA Recursion ==
  ASSUME NEW S, IsFiniteSet(S), NEW V, NEW base \in V, NEW F \in [S \X V -> V],
         NEW ch, Choice(ch, S)
  PROVE  \E g \in [SUBSET S -> V] : Solution(g, S, base, F, ch)
<1> DEFINE Small(n) == {T \in SUBSET S : Cardinality(T) <= n}
           Solves(g, n) == \A T \in Small(n) :
              g[T] = IF T = {} THEN base ELSE F[<<ch[T], g[T \ {ch[T]}]>>]
           G == {n \in Nat : \E g \in [Small(n) -> V] : Solves(g, n)}
<1>0. \A T \in SUBSET S : IsFiniteSet(T) /\ Cardinality(T) \in Nat /\ Cardinality(T) <= Cardinality(S)
  BY FS_Subset, FS_CardinalityType
<1>1. \A T \in SUBSET S : T # {} => /\ T \ {ch[T]} \in SUBSET S
                                    /\ Cardinality(T \ {ch[T]}) = Cardinality(T) - 1
  BY <1>0, FS_RemoveElement DEF Choice
<1>2. \A T \in SUBSET S : Cardinality(T) = 0 <=> T = {}
  BY <1>0, FS_EmptySet
<1>3. 0 \in G
  <2>1. Small(0) = {{}}
    BY <1>0, <1>2
  <2>2. [T \in Small(0) |-> base] \in [Small(0) -> V]
    OBVIOUS
  <2>3. Solves([T \in Small(0) |-> base], 0)
    BY <2>1
  <2> HIDE DEF Small, Solves
  <2> QED
    BY <2>2, <2>3
<1>4. ASSUME NEW n \in Nat, n \in G PROVE n + 1 \in G
  <2>1. PICK g \in [Small(n) -> V] : Solves(g, n)
    BY <1>4
  <2> DEFINE h == [T \in Small(n + 1) |-> IF T = {} THEN base ELSE F[<<ch[T], g[T \ {ch[T]}]>>]]
  <2>2. \A T \in Small(n + 1) : T # {} => T \ {ch[T]} \in Small(n) /\ ch[T] \in S
    BY <1>0, <1>1 DEF Choice
  <2>3. h \in [Small(n + 1) -> V]
    <3>1. ASSUME NEW T \in Small(n + 1), T # {} PROVE F[<<ch[T], g[T \ {ch[T]}]>>] \in V
      BY <2>1, <2>2, <3>1
    <3> QED
      BY <3>1
  <2>4. \A T \in Small(n) : h[T] = g[T]
    <3>1. Small(n) \subseteq Small(n + 1)
      BY <1>0
    <3> QED
      BY <2>1, <3>1
  <2>5. Solves(h, n + 1)
    <3>1. ASSUME NEW T \in Small(n + 1), T # {} PROVE h[T \ {ch[T]}] = g[T \ {ch[T]}]
      BY <2>2, <2>4, <3>1
    <3> QED
      BY <3>1
  <2> HIDE DEF Small, Solves, h
  <2> QED
    BY <2>3, <2>5
<1>5. Cardinality(S) \in G
  <2> HIDE DEF G
  <2> QED
    BY <1>3, <1>4, Counting, FS_CardinalityType
<1>6. Small(Cardinality(S)) = SUBSET S
  BY <1>0
<1> QED
  BY <1>5, <1>6 DEF Solution

(***************************************************************************)
(* Tables of cells                                                         *)
(***************************************************************************)

\* Bags of positions, and the tables of n cells.
PosBags == UNION {[D -> Nat \ {0}] : D \in SUBSET Int}

Tables(n) == [pos : [0..n-1 -> Int], shift : [0..n-1 -> Int], seq : [0..n-1 -> SUBSET Seqs],
              used : SUBSET (0..n-1), seq_pos : [Seqs -> PosBags], has_shift : BOOLEAN]

\* Cell i is one that sequence s has at position p.
Holds(t, i, s, p) == i \in t.used /\ t.pos[i] = p /\ s \in t.seq[i]

Holders(t, s, p) == {i \in t.used : t.pos[i] = p /\ s \in t.seq[i]}

\* The table's bookkeeping is exact, at every position.
Exact(t) ==
    /\ t.used = {i \in Cells(t) : t.pos[i] # -1}
    /\ \A i \in Cells(t) : t.pos[i] >= -1 /\ (t.pos[i] = -1 <=> t.seq[i] = {})
    /\ \A s \in Seqs : \A p \in Int : Copies(p, t.seq_pos[s]) = Cardinality(Holders(t, s, p))

GoodTables(n) == {t \in Tables(n) : Exact(t)}

\* The cells of a table.
LEMMA CellsOf ==
  ASSUME NEW n, NEW t \in Tables(n) PROVE Cells(t) = 0..n-1
  BY DEF Cells, Tables

\* There are finitely many cells.
LEMMA FiniteCells ==
  ASSUME NEW n \in Nat, NEW T \in SUBSET (0..n-1)
  PROVE  IsFiniteSet(T) /\ Cardinality(T) \in Nat
<1>1. 0 \in Int /\ n - 1 \in Int
  OBVIOUS
<1>2. IsFiniteSet(0..n-1)
  BY <1>1, FS_Interval
<1> QED
  BY <1>2, FS_Subset, FS_CardinalityType

\* An exact table is consistent as the model has it.
LEMMA ExactIsConsistent ==
  ASSUME NEW n \in Nat, NEW t \in GoodTables(n) PROVE TableConsistent(t)
<1>1. t \in Tables(n) /\ Exact(t)
  BY DEF GoodTables
<1>2. ASSUME NEW s \in Seqs, NEW p \in {t.pos[i] : i \in Cells(t)} \cup BagToSet(t.seq_pos[s])
      PROVE  p \in Int
  <2>1. t.seq_pos[s] \in PosBags /\ \A i \in Cells(t) : t.pos[i] \in Int
    BY <1>1, CellsOf DEF Tables
  <2>2. BagToSet(t.seq_pos[s]) \subseteq Int
    BY <2>1 DEF PosBags, BagToSet
  <2> QED
    BY <2>1, <2>2
<1> QED
  BY <1>1, <1>2 DEF Exact, TableConsistent, Holders

\* One more occurrence in a bag.
LEMMA BagGains ==
  ASSUME NEW B \in PosBags, NEW x \in Int
  PROVE  /\ B (+) SetToBag({x}) \in PosBags
         /\ \A p : Copies(p, B (+) SetToBag({x})) = Copies(p, B) + (IF p = x THEN 1 ELSE 0)
<1> DEFINE C == B (+) SetToBag({x})
<1>1. B \in [DOMAIN B -> Nat \ {0}] /\ DOMAIN B \subseteq Int
  BY DEF PosBags
<1>2. DOMAIN C = DOMAIN B \cup {x}
  BY DEF SetToBag, (+)
<1>3. \A p \in DOMAIN C : C[p] = Copies(p, B) + (IF p = x THEN 1 ELSE 0)
  BY <1>1 DEF SetToBag, (+), Copies, BagToSet
<1>4. \A p : Copies(p, B) \in Nat /\ (p \notin DOMAIN B => Copies(p, B) = 0)
  BY <1>1 DEF Copies, BagToSet
<1>5. C \in [DOMAIN C -> Nat \ {0}]
  <2>1. C = [p \in DOMAIN C |-> C[p]]
    BY DEF (+)
  <2>2. \A p \in DOMAIN C : C[p] \in Nat \ {0}
    BY <1>1, <1>2, <1>3, <1>4 DEF Copies, BagToSet
  <2> HIDE DEF C
  <2> QED
    BY <2>1, <2>2
<1> HIDE DEF C
<1>6. C \in PosBags
  BY <1>1, <1>2, <1>5 DEF PosBags
<1>7. \A p : Copies(p, C) = Copies(p, B) + (IF p = x THEN 1 ELSE 0)
  BY <1>1, <1>2, <1>3, <1>4 DEF Copies, BagToSet
<1> QED
  BY <1>6, <1>7 DEF C

\* One occurrence less.
LEMMA BagLoses ==
  ASSUME NEW B \in PosBags, NEW x \in Int
  PROVE  /\ B (-) SetToBag({x}) \in PosBags
         /\ \A p : Copies(p, B (-) SetToBag({x}))
                     = Copies(p, B) - (IF p = x /\ Copies(p, B) # 0 THEN 1 ELSE 0)
<1> DEFINE C == B (-) SetToBag({x})
           A == [p \in DOMAIN B |-> IF p = x THEN B[p] - 1 ELSE B[p]]
<1>1. B \in [DOMAIN B -> Nat \ {0}] /\ DOMAIN B \subseteq Int
  BY DEF PosBags
<1>2. C = [p \in {d \in DOMAIN B : A[d] > 0} |-> A[p]]
  BY <1>1 DEF SetToBag, (-)
<1> HIDE DEF C
<1>3. DOMAIN C = {d \in DOMAIN B : A[d] > 0} /\ \A p \in DOMAIN C : C[p] = A[p]
  BY <1>2
<1>4. \A p \in DOMAIN B : A[p] \in Nat
  BY <1>1
<1>5. C \in [DOMAIN C -> Nat \ {0}]
  BY <1>2, <1>3, <1>4
<1>6. C \in PosBags
  BY <1>1, <1>3, <1>5 DEF PosBags
<1>7. \A p : Copies(p, C) = Copies(p, B) - (IF p = x /\ Copies(p, B) # 0 THEN 1 ELSE 0)
  BY <1>1, <1>3, <1>4 DEF Copies, BagToSet
<1> QED
  BY <1>6, <1>7 DEF C

\* Two tables differ in cell i at most.
Beside(t, u, i, n) ==
    \A j \in 0..n-1 : j # i => u.pos[j] = t.pos[j] /\ u.seq[j] = t.seq[j]

\* The bags were changed as cell i was.
Booked(t, u, i) ==
    \A s \in Seqs : \A p \in Int :
        Copies(p, u.seq_pos[s]) = Copies(p, t.seq_pos[s])
                                   - (IF Holds(t, i, s, p) THEN 1 ELSE 0)
                                   + (IF Holds(u, i, s, p) THEN 1 ELSE 0)

\* A method that changes one cell keeps the table exact, if it does to the bags
\* what it does to the cell.
LEMMA OneCell ==
  ASSUME NEW n \in Nat, NEW t \in GoodTables(n), NEW u \in Tables(n), NEW i \in 0..n-1,
         Beside(t, u, i, n), Booked(t, u, i),
         u.used = IF u.pos[i] = -1 THEN t.used \ {i} ELSE t.used \cup {i},
         u.pos[i] >= -1, u.pos[i] = -1 <=> u.seq[i] = {}
  PROVE  u \in GoodTables(n)
<1>1. t \in Tables(n) /\ Exact(t) /\ Cells(t) = 0..n-1 /\ Cells(u) = 0..n-1
  BY CellsOf DEF GoodTables
<1>2. u.used = {j \in Cells(u) : u.pos[j] # -1}
  BY <1>1 DEF Exact, Beside
<1>3. \A j \in Cells(u) : u.pos[j] >= -1 /\ (u.pos[j] = -1 <=> u.seq[j] = {})
  BY <1>1 DEF Exact, Beside
<1>4. ASSUME NEW s \in Seqs, NEW p \in Int
      PROVE  Copies(p, u.seq_pos[s]) = Cardinality(Holders(u, s, p))
  <2> DEFINE T == Holders(t, s, p) \ {i}
  <2>1. Copies(p, t.seq_pos[s]) = Cardinality(Holders(t, s, p))
    BY <1>1 DEF Exact
  <2>2. IsFiniteSet(Holders(t, s, p)) /\ Cardinality(Holders(t, s, p)) \in Nat
    <3>1. Holders(t, s, p) \in SUBSET (0..n-1)
      BY <1>1 DEF Holders, Tables
    <3> QED
      BY <3>1, FiniteCells
  <2>3. IsFiniteSet(T)
        /\ Cardinality(T) = Cardinality(Holders(t, s, p)) - (IF Holds(t, i, s, p) THEN 1 ELSE 0)
    <3>1. i \in Holders(t, s, p) <=> Holds(t, i, s, p)
      BY DEF Holds, Holders
    <3> DEFINE H == Holders(t, s, p)
    <3>2. IsFiniteSet(H) /\ Cardinality(H) \in Nat
      BY <2>2
    <3> HIDE DEF H
    <3>3. ASSUME i \in H PROVE IsFiniteSet(H \ {i}) /\ Cardinality(H \ {i}) = Cardinality(H) - 1
      BY <3>2, <3>3, FS_RemoveElement
    <3>4. ASSUME i \notin H PROVE H \ {i} = H
      BY <3>4
    <3>5. /\ IsFiniteSet(H \ {i})
          /\ Cardinality(H \ {i}) = Cardinality(H) - (IF i \in H THEN 1 ELSE 0)
      <4>1. CASE i \in H
        BY <3>3, <4>1
      <4>2. CASE i \notin H
        <5>1. H \ {i} = H
          BY <3>4, <4>2
        <5>2. Cardinality(H) = Cardinality(H) - (IF i \in H THEN 1 ELSE 0)
          BY <3>2, <4>2
        <5> QED
          BY <3>2, <5>1, <5>2, Zenon
      <4> QED
        BY <4>1, <4>2
    <3> QED
      BY <3>1, <3>5 DEF H
  <2>4. Holders(u, s, p) = IF Holds(u, i, s, p) THEN T \cup {i} ELSE T
    BY <1>1, <1>2 DEF Holds, Holders, Exact, Beside
  <2>5. Cardinality(T \cup {i}) = Cardinality(T) + 1
    BY <2>3, FS_AddElement
  <2> HIDE DEF T
  <2> QED
    BY <2>1, <2>2, <2>3, <2>4, <2>5 DEF Booked
<1> QED
  BY <1>2, <1>3, <1>4 DEF GoodTables, Exact

\* What taking a cell out of the bags does.
LEMMA PosRm ==
  ASSUME NEW n \in Nat, NEW t \in Tables(n), NEW i \in 0..n-1
  PROVE  LET u == seq_pos_rm(t, i)
         IN  /\ u \in Tables(n)
             /\ u.pos = t.pos /\ u.shift = t.shift /\ u.seq = t.seq /\ u.used = t.used
             /\ u.has_shift = t.has_shift
             /\ \A s \in Seqs : u.seq_pos[s] = IF s \in t.seq[i]
                                               THEN t.seq_pos[s] (-) SetToBag({t.pos[i]})
                                               ELSE t.seq_pos[s]
<1>1. t.pos[i] \in Int /\ \A s \in Seqs : t.seq_pos[s] \in PosBags
  BY DEF Tables
<1>2. \A s \in Seqs : t.seq_pos[s] (-) SetToBag({t.pos[i]}) \in PosBags
  BY <1>1, BagLoses
<1> QED
  BY <1>1, <1>2 DEF seq_pos_rm, Tables

\* What putting it in does.
LEMMA PosAdd ==
  ASSUME NEW n \in Nat, NEW t \in Tables(n), NEW i \in 0..n-1
  PROVE  LET u == seq_pos_add(t, i)
         IN  /\ u \in Tables(n)
             /\ u.pos = t.pos /\ u.shift = t.shift /\ u.seq = t.seq /\ u.used = t.used
             /\ u.has_shift = t.has_shift
             /\ \A s \in Seqs : u.seq_pos[s] = IF s \in t.seq[i]
                                               THEN t.seq_pos[s] (+) SetToBag({t.pos[i]})
                                               ELSE t.seq_pos[s]
             /\ \A s \in Seqs : \A p \in Int :
                   Copies(p, u.seq_pos[s]) = Copies(p, t.seq_pos[s])
                                              + (IF s \in t.seq[i] /\ t.pos[i] = p THEN 1 ELSE 0)
<1> DEFINE u == seq_pos_add(t, i)
<1>1. t.pos[i] \in Int /\ \A s \in Seqs : t.seq_pos[s] \in PosBags
  BY DEF Tables
<1>2. \A s \in Seqs : t.seq_pos[s] (+) SetToBag({t.pos[i]}) \in PosBags
  BY <1>1, BagGains
<1>3. /\ u \in Tables(n)
      /\ u.pos = t.pos /\ u.shift = t.shift /\ u.seq = t.seq /\ u.used = t.used
      /\ u.has_shift = t.has_shift
      /\ \A s \in Seqs : u.seq_pos[s] = IF s \in t.seq[i]
                                        THEN t.seq_pos[s] (+) SetToBag({t.pos[i]})
                                        ELSE t.seq_pos[s]
  BY <1>1, <1>2 DEF seq_pos_add, Tables
<1>4. ASSUME NEW s \in Seqs, NEW p \in Int
      PROVE  Copies(p, u.seq_pos[s]) = Copies(p, t.seq_pos[s])
                                        + (IF s \in t.seq[i] /\ t.pos[i] = p THEN 1 ELSE 0)
  <2>1. Copies(p, t.seq_pos[s]) \in Nat
    BY <1>1 DEF Copies, BagToSet, PosBags
  <2> HIDE DEF u
  <2> QED
    BY <1>1, <1>3, <2>1, BagGains
<1> QED
  BY <1>3, <1>4

\* The cells stay as they are.
LEMMA PosAddCells ==
  ASSUME NEW n \in Nat, NEW t \in Tables(n), NEW i \in 0..n-1, NEW u, u = seq_pos_add(t, i)
  PROVE  u \in Tables(n) /\ u.pos = t.pos /\ u.seq = t.seq
<1>1. t.pos[i] \in Int /\ \A s \in Seqs : t.seq_pos[s] \in PosBags
  BY DEF Tables
<1>2. \A s \in Seqs : t.seq_pos[s] (+) SetToBag({t.pos[i]}) \in PosBags
  BY <1>1, BagGains
<1> QED
  BY <1>1, <1>2 DEF seq_pos_add, Tables

\* In an exact table, the bags of a cell's sequences know of the cell.
LEMMA Counted ==
  ASSUME NEW n \in Nat, NEW t \in GoodTables(n), NEW s \in Seqs, NEW p \in Int
  PROVE  /\ Copies(p, t.seq_pos[s]) \in Nat
         /\ \A i \in 0..n-1 : Holds(t, i, s, p) => Copies(p, t.seq_pos[s]) # 0
<1>1. t \in Tables(n) /\ Copies(p, t.seq_pos[s]) = Cardinality(Holders(t, s, p))
  BY DEF GoodTables, Exact
<1>2. IsFiniteSet(Holders(t, s, p))
  <2>1. Holders(t, s, p) \in SUBSET (0..n-1)
    BY <1>1 DEF Holders, Tables
  <2> QED
    BY <2>1, FiniteCells
<1> QED
  BY <1>1, <1>2, FS_CardinalityType, FS_EmptySet DEF Holds, Holders

\* Taking a cell of an exact table out of the bags.
LEMMA PosRmCopies ==
  ASSUME NEW n \in Nat, NEW t \in GoodTables(n), NEW i \in 0..n-1, NEW s \in Seqs, NEW p \in Int
  PROVE  Copies(p, seq_pos_rm(t, i).seq_pos[s])
            = Copies(p, t.seq_pos[s]) - (IF Holds(t, i, s, p) THEN 1 ELSE 0)
<1>1. t \in Tables(n) /\ Exact(t) /\ Cells(t) = 0..n-1
  BY CellsOf DEF GoodTables
<1>2. t.pos[i] \in Int /\ t.seq_pos[s] \in PosBags
  BY <1>1 DEF Tables
<1>3. Copies(p, t.seq_pos[s]) \in Nat /\ (Holds(t, i, s, p) => Copies(p, t.seq_pos[s]) # 0)
  BY Counted
<1>4. seq_pos_rm(t, i).seq_pos[s] = IF s \in t.seq[i] THEN t.seq_pos[s] (-) SetToBag({t.pos[i]})
                                                     ELSE t.seq_pos[s]
  <2>1. \A r \in Seqs : seq_pos_rm(t, i).seq_pos[r] = IF r \in t.seq[i]
                                                      THEN t.seq_pos[r] (-) SetToBag({t.pos[i]})
                                                      ELSE t.seq_pos[r]
    BY <1>1, PosRm, Zenon
  <2> QED
    BY <2>1, Zenon
<1>5. Holds(t, i, s, p) <=> s \in t.seq[i] /\ t.pos[i] = p
  BY <1>1 DEF Holds, Exact
<1> QED
  BY <1>2, <1>3, <1>4, <1>5, BagLoses

\* A table with other fields.
With(t, pos, shift, seq, used, seq_pos) ==
    [t EXCEPT !.pos = pos, !.shift = shift, !.seq = seq, !.used = used, !.seq_pos = seq_pos]

\* The fields of a table.
LEMMA FieldTypes ==
  ASSUME NEW n \in Nat, NEW t \in Tables(n)
  PROVE  /\ t.pos \in [0..n-1 -> Int] /\ t.shift \in [0..n-1 -> Int]
         /\ t.seq \in [0..n-1 -> SUBSET Seqs] /\ t.used \in SUBSET (0..n-1)
         /\ t.seq_pos \in [Seqs -> PosBags]
  BY DEF Tables

\* One value of a field of cells is replaced.
LEMMA CellChange ==
  ASSUME NEW n \in Nat, NEW i \in 0..n-1, NEW D, NEW f \in [0..n-1 -> D], NEW x \in D
  PROVE  /\ [f EXCEPT ![i] = x] \in [0..n-1 -> D]
         /\ [f EXCEPT ![i] = x][i] = x
         /\ \A j \in 0..n-1 : j # i => [f EXCEPT ![i] = x][j] = f[j]
  OBVIOUS

\* The fields of an emptied cell.
LEMMA VacateFields ==
  ASSUME NEW n \in Nat, NEW t \in Tables(n), NEW i \in 0..n-1
  PROVE  LET u == Vacate(t, i)
         IN  /\ u \in Tables(n) /\ Beside(t, u, i, n)
             /\ u.pos[i] = -1 /\ u.seq[i] = {}
             /\ u.used = t.used \ {i} /\ u.seq_pos = t.seq_pos
<1> DEFINE a == [t.pos EXCEPT ![i] = -1]
           b == [t.shift EXCEPT ![i] = 0]
           c == [t.seq EXCEPT ![i] = {}]
           d == t.used \ {i}
<1>1. /\ a \in [0..n-1 -> Int] /\ b \in [0..n-1 -> Int] /\ c \in [0..n-1 -> SUBSET Seqs]
      /\ d \in SUBSET (0..n-1) /\ t.seq_pos \in [Seqs -> PosBags]
      /\ a[i] = -1 /\ c[i] = {} /\ \A j \in 0..n-1 : j # i => a[j] = t.pos[j] /\ c[j] = t.seq[j]
  BY FieldTypes, CellChange
<1>2. Vacate(t, i) = With(t, a, b, c, d, t.seq_pos)
  BY DEF Vacate, With, Tables
<1> HIDE DEF a, b, c, d
<1>3. /\ Vacate(t, i) \in Tables(n) /\ Vacate(t, i).pos = a /\ Vacate(t, i).seq = c
      /\ Vacate(t, i).used = d /\ Vacate(t, i).seq_pos = t.seq_pos
  BY <1>1, <1>2 DEF With, Tables
<1> QED
  BY <1>1, <1>3 DEF Beside, d

\* rm keeps a table exact.
LEMMA RmGood ==
  ASSUME NEW n \in Nat, NEW t \in Tables(n), NEW i \in 0..n-1
  PROVE  /\ rm(t, i) \in Tables(n) /\ Beside(t, rm(t, i), i, n)
         /\ rm(t, i).pos[i] = -1 /\ rm(t, i).seq[i] = {}
         /\ t \in GoodTables(n) => rm(t, i) \in GoodTables(n)
<1> DEFINE v == seq_pos_rm(t, i)
           u == rm(t, i)
<1>1. /\ v \in Tables(n) /\ v.pos = t.pos /\ v.seq = t.seq /\ v.used = t.used
  BY PosRm
<1>2. /\ u \in Tables(n) /\ Beside(v, u, i, n) /\ u.pos[i] = -1 /\ u.seq[i] = {}
      /\ u.used = v.used \ {i} /\ u.seq_pos = v.seq_pos
  <2> HIDE DEF v
  <2>1. u = Vacate(v, i)
    BY DEF rm, v
  <2> HIDE DEF u
  <2> QED
    BY <1>1, <2>1, VacateFields
<1>3. Beside(t, u, i, n)
  BY <1>1, <1>2 DEF Beside
<1>4. ASSUME t \in GoodTables(n) PROVE u \in GoodTables(n)
  <2>1. \A s \in Seqs : \A p \in Int :
           /\ Copies(p, v.seq_pos[s]) = Copies(p, t.seq_pos[s]) - (IF Holds(t, i, s, p) THEN 1 ELSE 0)
           /\ Copies(p, t.seq_pos[s]) \in Nat
    BY <1>4, PosRmCopies, Counted
  <2> HIDE DEF u, v
  <2>2. \A s \in Seqs : \A p \in Int : ~Holds(u, i, s, p)
    BY <1>2 DEF Holds
  <2>3. Booked(t, u, i)
    BY <1>2, <2>1, <2>2 DEF Booked
  <2>4. /\ u.used = IF u.pos[i] = -1 THEN t.used \ {i} ELSE t.used \cup {i}
        /\ u.pos[i] >= -1 /\ (u.pos[i] = -1 <=> u.seq[i] = {})
    BY <1>1, <1>2
  <2> QED
    BY <1>2, <1>3, <1>4, <2>3, <2>4, OneCell
<1> QED
  BY <1>2, <1>3, <1>4

\* A cell of an exact table.
LEMMA CellFacts ==
  ASSUME NEW n \in Nat, NEW t \in GoodTables(n), NEW i \in 0..n-1
  PROVE  /\ t \in Tables(n) /\ t.pos[i] \in Int /\ t.pos[i] >= -1 /\ t.seq[i] \subseteq Seqs
         /\ t.pos[i] = -1 <=> t.seq[i] = {}
         /\ i \in t.used <=> t.pos[i] # -1
         /\ \A s, p : Holds(t, i, s, p) <=> s \in t.seq[i] /\ t.pos[i] = p
<1>1. t \in Tables(n) /\ Exact(t) /\ Cells(t) = 0..n-1
  BY CellsOf DEF GoodTables
<1>2. t.pos[i] \in Int /\ t.seq[i] \subseteq Seqs
  BY <1>1, FieldTypes
<1> QED
  BY <1>1, <1>2 DEF Exact, Holds

\* seq_rm of a cell keeps a table exact, if the sequence owns the cell.
LEMMA SeqRmGood ==
  ASSUME NEW n \in Nat, NEW t \in Tables(n), NEW i \in 0..n-1, NEW s \in Seqs
  PROVE  LET u == cell_seq_rm(t, i, s)
         IN  /\ u \in Tables(n) /\ Beside(t, u, i, n)
             /\ u.seq[i] = t.seq[i] \ {s} /\ (u.seq[i] # {} => u.pos[i] = t.pos[i])
             /\ t \in GoodTables(n) /\ s \in t.seq[i] => u \in GoodTables(n)
<1> DEFINE u == cell_seq_rm(t, i, s)
           c == [t.seq EXCEPT ![i] = @ \ {s}]
           e == [t.seq_pos EXCEPT ![s] = @ (-) SetToBag({t.pos[i]})]
           v == With(t, t.pos, t.shift, c, t.used, e)
<1>1. /\ t.pos \in [0..n-1 -> Int] /\ t.shift \in [0..n-1 -> Int]
      /\ t.seq \in [0..n-1 -> SUBSET Seqs] /\ t.used \in SUBSET (0..n-1)
      /\ t.seq_pos \in [Seqs -> PosBags]
  BY FieldTypes
<1>2. t.seq_pos[s] (-) SetToBag({t.pos[i]}) \in PosBags
  BY <1>1, BagLoses
<1>3. /\ c \in [0..n-1 -> SUBSET Seqs] /\ c[i] = t.seq[i] \ {s}
      /\ \A j \in 0..n-1 : j # i => c[j] = t.seq[j]
  BY <1>1
<1>4. /\ e \in [Seqs -> PosBags] /\ e[s] = t.seq_pos[s] (-) SetToBag({t.pos[i]})
      /\ \A r \in Seqs : r # s => e[r] = t.seq_pos[r]
  BY <1>1, <1>2
<1>5. u = IF v.seq[i] = {} THEN Vacate(v, i) ELSE v
  BY DEF cell_seq_rm, With, Tables
<1> HIDE DEF c, e
<1>6. v \in Tables(n) /\ v.pos = t.pos /\ v.seq = c /\ v.used = t.used /\ v.seq_pos = e
  BY <1>1, <1>3, <1>4 DEF With, Tables
<1> HIDE DEF u, v
<1>7. /\ u \in Tables(n) /\ u.seq_pos = e /\ Beside(v, u, i, n)
      /\ IF c[i] = {} THEN u.pos[i] = -1 /\ u.seq[i] = {} /\ u.used = t.used \ {i}
                      ELSE u.pos[i] = t.pos[i] /\ u.seq[i] = c[i] /\ u.used = t.used
  BY <1>5, <1>6, VacateFields DEF Beside
<1>8. Beside(t, u, i, n)
  BY <1>3, <1>6, <1>7 DEF Beside
<1>9. ASSUME t \in GoodTables(n), s \in t.seq[i] PROVE u \in GoodTables(n)
  <2>1. /\ t.pos[i] \in Int /\ t.pos[i] >= -1 /\ t.pos[i] # -1 /\ i \in t.used
        /\ \A r, p : Holds(t, i, r, p) <=> r \in t.seq[i] /\ t.pos[i] = p
    BY <1>9, CellFacts
  <2>2. /\ u.used = IF u.pos[i] = -1 THEN t.used \ {i} ELSE t.used \cup {i}
        /\ u.pos[i] >= -1 /\ (u.pos[i] = -1 <=> u.seq[i] = {})
    <3>1. CASE c[i] = {}
      <4>1. u.pos[i] = -1 /\ u.seq[i] = {} /\ u.used = t.used \ {i}
        BY <1>7, <3>1
      <4> QED
        BY <4>1
    <3>2. CASE c[i] # {}
      BY <1>7, <2>1, <3>2
    <3> QED
      BY <3>1, <3>2
  <2>3. \A r, p : Holds(u, i, r, p) <=> r \in t.seq[i] /\ t.pos[i] = p /\ r # s
    BY <1>3, <1>7, <2>1 DEF Holds
  <2>4. ASSUME NEW r \in Seqs, NEW p \in Int
        PROVE  Copies(p, u.seq_pos[r]) = Copies(p, t.seq_pos[r])
                                          - (IF Holds(t, i, r, p) THEN 1 ELSE 0)
                                          + (IF Holds(u, i, r, p) THEN 1 ELSE 0)
    <3>1. Copies(p, t.seq_pos[r]) \in Nat /\ (Holds(t, i, r, p) => Copies(p, t.seq_pos[r]) # 0)
      BY <1>9, Counted
    <3>2. CASE r = s
      <4>1. Copies(p, e[s]) = Copies(p, t.seq_pos[s])
                               - (IF p = t.pos[i] /\ Copies(p, t.seq_pos[s]) # 0 THEN 1 ELSE 0)
        <5>1. t.seq_pos[s] \in PosBags /\ t.pos[i] \in Int
          BY <1>1
        <5> QED
          BY <1>4, <5>1, BagLoses
      <4> QED
        BY <1>7, <1>9, <2>1, <2>3, <3>1, <3>2, <4>1
    <3>3. CASE r # s
      BY <1>4, <1>7, <2>1, <2>3, <3>1, <3>3
    <3> QED
      BY <3>2, <3>3
  <2>5. Booked(t, u, i)
    BY <2>4 DEF Booked
  <2> QED
    BY <1>7, <1>8, <1>9, <2>2, <2>5, OneCell
<1> QED
  BY <1>3, <1>7, <1>8, <1>9 DEF u

\* Cell i has left the bags.
LeftBags(t, v, i) ==
    \A s \in Seqs : \A p \in Int :
        Copies(p, v.seq_pos[s]) = Copies(p, t.seq_pos[s]) - (IF Holds(t, i, s, p) THEN 1 ELSE 0)

\* A cell that has left the bags and is empty, ...
LEMMA TakenOut ==
  ASSUME NEW n \in Nat, NEW t \in GoodTables(n), NEW v \in Tables(n), NEW i \in 0..n-1,
         Beside(t, v, i, n), LeftBags(t, v, i),
         v.pos[i] = -1, v.seq[i] = {}, v.used = t.used \ {i}
  PROVE  v \in GoodTables(n)
<1>1. \A s \in Seqs : \A p \in Int : ~Holds(v, i, s, p) /\ Copies(p, t.seq_pos[s]) \in Nat
  BY Counted DEF Holds
<1>2. Booked(t, v, i)
  BY <1>1 DEF LeftBags, Booked
<1>3. /\ v.used = IF v.pos[i] = -1 THEN t.used \ {i} ELSE t.used \cup {i}
      /\ v.pos[i] >= -1 /\ (v.pos[i] = -1 <=> v.seq[i] = {})
  OBVIOUS
<1> QED
  BY <1>2, <1>3, OneCell

\* ... or is put in again with other contents.
LEMMA PutIn ==
  ASSUME NEW n \in Nat, NEW t \in GoodTables(n), NEW v \in Tables(n), NEW i \in 0..n-1,
         Beside(t, v, i, n), LeftBags(t, v, i),
         v.pos[i] >= 0, v.seq[i] # {}, v.used = t.used \cup {i}
  PROVE  /\ seq_pos_add(v, i) \in GoodTables(n)
         /\ Beside(t, seq_pos_add(v, i), i, n)
         /\ seq_pos_add(v, i).pos[i] = v.pos[i] /\ seq_pos_add(v, i).seq[i] = v.seq[i]
<1> DEFINE u == seq_pos_add(v, i)
<1>1. /\ u \in Tables(n) /\ u.pos = v.pos /\ u.seq = v.seq /\ u.used = v.used
      /\ \A s \in Seqs : \A p \in Int :
            Copies(p, u.seq_pos[s]) = Copies(p, v.seq_pos[s])
                                       + (IF s \in v.seq[i] /\ v.pos[i] = p THEN 1 ELSE 0)
  BY PosAdd
<1> HIDE DEF u
<1>2. Beside(t, u, i, n)
  BY <1>1 DEF Beside
<1>3. \A s \in Seqs : \A p \in Int : /\ Holds(u, i, s, p) <=> s \in v.seq[i] /\ v.pos[i] = p
                                     /\ Copies(p, t.seq_pos[s]) \in Nat
  BY <1>1, Counted DEF Holds
<1>4. Booked(t, u, i)
  BY <1>1, <1>3 DEF LeftBags, Booked
<1>5. v.pos[i] \in Int
  BY FieldTypes
<1>6. /\ u.used = IF u.pos[i] = -1 THEN t.used \ {i} ELSE t.used \cup {i}
      /\ u.pos[i] >= -1 /\ (u.pos[i] = -1 <=> u.seq[i] = {})
  BY <1>1, <1>5
<1> QED
  BY <1>1, <1>2, <1>4, <1>6, OneCell DEF u

\* seq_keep of a cell keeps a table exact.
LEMMA SeqKeepGood ==
  ASSUME NEW n \in Nat, NEW t \in Tables(n), NEW i \in 0..n-1, NEW s \in Seqs
  PROVE  LET u == cell_seq_keep(t, i, s)
         IN  /\ u \in Tables(n) /\ Beside(t, u, i, n)
             /\ u.seq[i] = t.seq[i] \cap {s}
             /\ t \in GoodTables(n) => /\ u \in GoodTables(n)
                                       /\ u.seq[i] # {} => u.pos[i] = t.pos[i]
<1> DEFINE u == cell_seq_keep(t, i, s)
           w == seq_pos_rm(t, i)
           c == [w.seq EXCEPT ![i] = {s}]
           v == With(w, w.pos, w.shift, c, w.used, w.seq_pos)
<1>1. w \in Tables(n) /\ w.pos = t.pos /\ w.seq = t.seq /\ w.used = t.used
  BY PosRm
<1>2. CASE s \in t.seq[i]
  <2>1. u = seq_pos_add(v, i)
    <3>1. v = [w EXCEPT !.seq[i] = {s}]
      <4> HIDE DEF w
      <4> QED
        BY <1>1 DEF With, Tables
    <3> HIDE DEF v
    <3> QED
      BY <1>2, <3>1 DEF cell_seq_keep
  <2> HIDE DEF w
  <2>2. /\ c \in [0..n-1 -> SUBSET Seqs] /\ c[i] = {s} /\ \A j \in 0..n-1 : j # i => c[j] = w.seq[j]
    BY <1>1, FieldTypes
  <2> HIDE DEF c
  <2>3. /\ v \in Tables(n) /\ v.pos = t.pos /\ v.seq = c /\ v.used = t.used
        /\ v.seq_pos = w.seq_pos
    BY <1>1, <2>2 DEF With, Tables
  <2> HIDE DEF u, v
  <2>4. u \in Tables(n) /\ u.pos = v.pos /\ u.seq = v.seq
    BY <2>1, <2>3, PosAddCells
  <2>5. Beside(t, u, i, n) /\ Beside(t, v, i, n)
    BY <1>1, <2>2, <2>3, <2>4 DEF Beside
  <2>6. ASSUME t \in GoodTables(n) PROVE u \in GoodTables(n)
    <3>1. LeftBags(t, v, i)
      BY <2>3, <2>6, PosRmCopies DEF LeftBags, w
    <3>2. t.pos[i] >= 0 /\ v.used = t.used \cup {i}
      BY <1>2, <2>3, <2>6, CellFacts
    <3> QED
      BY <2>1, <2>2, <2>3, <2>5, <2>6, <3>1, <3>2, PutIn
  <2> QED
    BY <1>2, <2>2, <2>3, <2>4, <2>5, <2>6 DEF u
<1>3. CASE s \notin t.seq[i] /\ t.seq[i] # {}
  <2>1. u = rm(t, i)
    BY <1>3 DEF cell_seq_keep, rm
  <2> QED
    BY <1>3, <2>1, RmGood
<1>4. CASE t.seq[i] = {}
  <2>1. u = t
    BY <1>4 DEF cell_seq_keep
  <2> QED
    BY <1>4, <2>1 DEF Beside
<1> QED
  BY <1>2, <1>3, <1>4

\* seq_add of a cell keeps a table exact, if the cell is in use and the sequence
\* does not own it yet.
LEMMA SeqAddGood ==
  ASSUME NEW n \in Nat, NEW t \in Tables(n), NEW i \in 0..n-1, NEW s \in Seqs
  PROVE  LET u == cell_seq_add(t, i, s)
         IN  /\ u \in Tables(n) /\ Beside(t, u, i, n)
             /\ u.pos = t.pos /\ u.seq[i] = t.seq[i] \cup {s} /\ u.used = t.used
             /\ \A r \in Seqs : \A p \in Int :
                   Copies(p, u.seq_pos[r]) = Copies(p, t.seq_pos[r])
                                              + (IF r = s /\ p = t.pos[i] THEN 1 ELSE 0)
             /\ t \in GoodTables(n) /\ s \notin t.seq[i] /\ t.pos[i] # -1 => u \in GoodTables(n)
<1> DEFINE u == cell_seq_add(t, i, s)
           c == [t.seq EXCEPT ![i] = @ \cup {s}]
           e == [t.seq_pos EXCEPT ![s] = @ (+) SetToBag({t.pos[i]})]
<1>1. /\ t.pos \in [0..n-1 -> Int] /\ t.shift \in [0..n-1 -> Int]
      /\ t.seq \in [0..n-1 -> SUBSET Seqs] /\ t.used \in SUBSET (0..n-1)
      /\ t.seq_pos \in [Seqs -> PosBags] /\ t.pos[i] \in Int /\ t.seq_pos[s] \in PosBags
  BY FieldTypes
<1>2. /\ t.seq_pos[s] (+) SetToBag({t.pos[i]}) \in PosBags
      /\ \A p : Copies(p, t.seq_pos[s] (+) SetToBag({t.pos[i]}))
                  = Copies(p, t.seq_pos[s]) + (IF p = t.pos[i] THEN 1 ELSE 0)
  BY <1>1, BagGains
<1>3. /\ c \in [0..n-1 -> SUBSET Seqs] /\ c[i] = t.seq[i] \cup {s}
      /\ \A j \in 0..n-1 : j # i => c[j] = t.seq[j]
  BY <1>1
<1>4. /\ e \in [Seqs -> PosBags] /\ e[s] = t.seq_pos[s] (+) SetToBag({t.pos[i]})
      /\ \A r \in Seqs : r # s => e[r] = t.seq_pos[r]
  BY <1>1, <1>2
<1>5. u = With(t, t.pos, t.shift, c, t.used, e)
  BY DEF cell_seq_add, With, Tables
<1> HIDE DEF c, e, u
<1>6. u \in Tables(n) /\ u.pos = t.pos /\ u.seq = c /\ u.used = t.used /\ u.seq_pos = e
  BY <1>1, <1>3, <1>4, <1>5 DEF With, Tables
<1>7. Beside(t, u, i, n)
  BY <1>3, <1>6 DEF Beside
<1>8. ASSUME NEW r \in Seqs, NEW p \in Int
      PROVE  Copies(p, u.seq_pos[r]) = Copies(p, t.seq_pos[r])
                                        + (IF r = s /\ p = t.pos[i] THEN 1 ELSE 0)
  <2>1. Copies(p, t.seq_pos[r]) \in Nat
    <3>1. t.seq_pos[r] \in PosBags
      BY <1>1
    <3> QED
      BY <3>1 DEF Copies, BagToSet, PosBags
  <2> QED
    BY <1>2, <1>4, <1>6, <2>1
<1>9. ASSUME t \in GoodTables(n), s \notin t.seq[i], t.pos[i] # -1 PROVE u \in GoodTables(n)
  <2>1. /\ t.pos[i] >= -1 /\ i \in t.used
        /\ \A r, p : Holds(t, i, r, p) <=> r \in t.seq[i] /\ t.pos[i] = p
    BY <1>9, CellFacts
  <2>2. \A r, p : Holds(u, i, r, p) <=> (r \in t.seq[i] \/ r = s) /\ t.pos[i] = p
    BY <1>3, <1>6, <2>1 DEF Holds
  <2>3. Booked(t, u, i)
    <3>1. \A r \in Seqs : \A p \in Int : Copies(p, t.seq_pos[r]) \in Nat
      BY <1>9, Counted
    <3> QED
      BY <1>8, <1>9, <2>1, <2>2, <3>1 DEF Booked
  <2>4. /\ u.used = IF u.pos[i] = -1 THEN t.used \ {i} ELSE t.used \cup {i}
        /\ u.pos[i] >= -1 /\ (u.pos[i] = -1 <=> u.seq[i] = {})
    BY <1>3, <1>6, <1>9, <2>1
  <2> QED
    BY <1>6, <1>7, <1>9, <2>3, <2>4, OneCell
<1> QED
  BY <1>3, <1>6, <1>7, <1>8, <1>9 DEF u

\* A table in which cells have moved.
Moved(t, pos, shift) == [t EXCEPT !.pos = pos, !.shift = shift, !.has_shift = TRUE]

\* The fields of a table out of whose bags cell i was taken to move to x.
LEMMA MovedFields ==
  ASSUME NEW n \in Nat, NEW t \in Tables(n), NEW i \in 0..n-1, NEW x \in Int, NEW y \in Int,
         NEW v, v = Moved(seq_pos_rm(t, i), [t.pos EXCEPT ![i] = x], [t.shift EXCEPT ![i] = y])
  PROVE  /\ v \in Tables(n) /\ Beside(t, v, i, n)
         /\ v.pos[i] = x /\ v.seq = t.seq /\ v.used = t.used
         /\ v.seq_pos = seq_pos_rm(t, i).seq_pos
         /\ t \in GoodTables(n) => LeftBags(t, v, i)
<1> DEFINE w == seq_pos_rm(t, i)
           a == [t.pos EXCEPT ![i] = x]
           b == [t.shift EXCEPT ![i] = y]
<1>1. w \in Tables(n) /\ w.seq = t.seq /\ w.used = t.used
  BY PosRm
<1>2. /\ a \in [0..n-1 -> Int] /\ b \in [0..n-1 -> Int] /\ a[i] = x
      /\ \A j \in 0..n-1 : j # i => a[j] = t.pos[j]
  BY FieldTypes, CellChange
<1>3. v = Moved(w, a, b)
  OBVIOUS
<1> HIDE DEF w, a, b
<1>4. /\ v \in Tables(n) /\ v.pos = a /\ v.seq = w.seq /\ v.used = w.used /\ v.seq_pos = w.seq_pos
  BY <1>1, <1>2, <1>3 DEF Moved, Tables
<1>5. t \in GoodTables(n) => LeftBags(t, v, i)
  BY <1>4, PosRmCopies DEF LeftBags, w
<1> QED
  BY <1>1, <1>2, <1>4, <1>5 DEF Beside, w

\* pos_add in these terms.
LEMMA PosAddIs ==
  ASSUME NEW n \in Nat, NEW t \in Tables(n), NEW i \in 0..n-1, NEW d \in Int,
         NEW v, v = Moved(seq_pos_rm(t, i), [t.pos EXCEPT ![i] = t.pos[i] + d],
                          [t.shift EXCEPT ![i] = t.shift[i] + d])
  PROVE  pos_add(t, i, d) = IF v.pos[i] < 0 THEN Vacate(v, i) ELSE seq_pos_add(v, i)
<1> DEFINE w == seq_pos_rm(t, i)
<1>1. w \in Tables(n) /\ w.pos = t.pos /\ w.shift = t.shift
  BY PosRm
<1>2. v = [w EXCEPT !.pos[i] = @ + d, !.shift[i] = @ + d, !.has_shift = TRUE]
  <2> HIDE DEF w
  <2> QED
    BY <1>1 DEF Moved, Tables, w
<1>3. ASSUME NEW q, q = [w EXCEPT !.pos[i] = @ + d, !.shift[i] = @ + d, !.has_shift = TRUE]
      PROVE  pos_add(t, i, d) = IF q.pos[i] < 0 THEN Vacate(q, i) ELSE seq_pos_add(q, i)
  BY <1>3 DEF pos_add
<1> QED
  BY <1>2, <1>3, Zenon

\* pos_add of a cell keeps a table exact, if the cell is in use.
LEMMA PosAddGood ==
  ASSUME NEW n \in Nat, NEW t \in Tables(n), NEW i \in 0..n-1, NEW d \in Int
  PROVE  LET u == pos_add(t, i, d)
         IN  /\ u \in Tables(n) /\ Beside(t, u, i, n)
             /\ IF t.pos[i] + d < 0 THEN u.pos[i] = -1 /\ u.seq[i] = {}
                                    ELSE u.pos[i] = t.pos[i] + d /\ u.seq[i] = t.seq[i]
             /\ t \in GoodTables(n) /\ t.pos[i] # -1 => u \in GoodTables(n)
<1> DEFINE u == pos_add(t, i, d)
           w == seq_pos_rm(t, i)
           x == t.pos[i] + d
           y == t.shift[i] + d
           v == Moved(w, [t.pos EXCEPT ![i] = x], [t.shift EXCEPT ![i] = y])
<1>1. t.pos[i] \in Int /\ t.shift[i] \in Int /\ x \in Int /\ y \in Int
  BY FieldTypes
<1>4. u = IF v.pos[i] < 0 THEN Vacate(v, i) ELSE seq_pos_add(v, i)
  BY PosAddIs
<1>5. /\ v \in Tables(n) /\ Beside(t, v, i, n) /\ v.pos[i] = x /\ v.seq = t.seq /\ v.used = t.used
      /\ t \in GoodTables(n) => LeftBags(t, v, i)
  <2> HIDE DEF x, y
  <2> QED
    BY <1>1, MovedFields
<1> HIDE DEF u, v
<1>6. CASE x < 0
  <2>1. /\ u \in Tables(n) /\ Beside(v, u, i, n) /\ u.pos[i] = -1 /\ u.seq[i] = {}
        /\ u.used = t.used \ {i} /\ u.seq_pos = v.seq_pos
    BY <1>4, <1>5, <1>6, VacateFields
  <2>2. Beside(t, u, i, n)
    BY <1>5, <2>1 DEF Beside
  <2>3. ASSUME t \in GoodTables(n) PROVE u \in GoodTables(n)
    <3>1. LeftBags(t, u, i)
      BY <1>5, <2>1, <2>3 DEF LeftBags
    <3> QED
      BY <2>1, <2>2, <2>3, <3>1, TakenOut
  <2> QED
    BY <1>6, <2>1, <2>2, <2>3 DEF u
<1>7. CASE ~(x < 0)
  <2>1. u = seq_pos_add(v, i)
    BY <1>4, <1>5, <1>7
  <2>2. u \in Tables(n) /\ u.pos = v.pos /\ u.seq = v.seq
    BY <1>5, <2>1, PosAddCells
  <2>3. ASSUME t \in GoodTables(n), t.pos[i] # -1 PROVE u \in GoodTables(n)
    <3>1. t.seq[i] # {} /\ v.used = t.used \cup {i}
      BY <1>5, <2>3, CellFacts
    <3>2. v.pos[i] >= 0 /\ v.seq[i] # {}
      BY <1>1, <1>5, <1>7, <3>1
    <3> QED
      BY <1>5, <2>1, <2>3, <3>1, <3>2, PutIn
  <2> QED
    BY <1>5, <1>7, <2>2, <2>3 DEF Beside, u
<1> QED
  BY <1>6, <1>7

\* pos_div of a cell keeps a table exact, if the cell is in use.
LEMMA PosDivGood ==
  ASSUME NEW n \in Nat, NEW t \in Tables(n), NEW i \in 0..n-1, NEW d \in Nat \ {0}
  PROVE  LET u == pos_div(t, i, d)
         IN  /\ u \in Tables(n) /\ Beside(t, u, i, n) /\ u.seq = t.seq
             /\ t \in GoodTables(n) /\ t.pos[i] # -1 => u \in GoodTables(n)
<1> DEFINE u == pos_div(t, i, d)
           w == seq_pos_rm(t, i)
           x == t.pos[i] \div d
           y == t.shift[i] + t.pos[i] - x
           v == Moved(w, [t.pos EXCEPT ![i] = x], [t.shift EXCEPT ![i] = y])
<1>1. t.pos[i] \in Int /\ t.shift[i] \in Int /\ x \in Int /\ y \in Int /\ (t.pos[i] >= 0 => x >= 0)
  <2>1. t.pos[i] \in Int /\ t.shift[i] \in Int
    BY FieldTypes
  <2> QED
    BY <2>1
<1>2. w \in Tables(n) /\ w.pos = t.pos /\ w.shift = t.shift
  BY PosRm
<1>3. v = [w EXCEPT !.pos[i] = @ \div d, !.shift[i] = @ + t.pos[i] - (t.pos[i] \div d), !.has_shift = TRUE]
  <2> HIDE DEF w
  <2> QED
    BY <1>2 DEF Moved, Tables
<1>4. u = seq_pos_add(v, i)
  <2> HIDE DEF v
  <2> QED
    BY <1>3 DEF pos_div
<1>5. /\ v \in Tables(n) /\ Beside(t, v, i, n) /\ v.pos[i] = x /\ v.seq = t.seq /\ v.used = t.used
      /\ t \in GoodTables(n) => LeftBags(t, v, i)
  <2> HIDE DEF x, y
  <2> QED
    BY <1>1, MovedFields
<1> HIDE DEF u, v, x
<1>6. u \in Tables(n) /\ u.pos = v.pos /\ u.seq = v.seq
  BY <1>4, <1>5, PosAddCells
<1>7. ASSUME t \in GoodTables(n), t.pos[i] # -1 PROVE u \in GoodTables(n)
  <2>1. t.seq[i] # {} /\ t.pos[i] >= 0 /\ v.used = t.used \cup {i}
    BY <1>5, <1>7, CellFacts
  <2>2. v.pos[i] >= 0 /\ v.seq[i] # {}
    BY <1>1, <1>5, <2>1
  <2> QED
    BY <1>4, <1>5, <1>7, <2>1, <2>2, PutIn
<1> QED
  BY <1>5, <1>6, <1>7 DEF Beside, u

\* What cp saves of a cell.
SavedCells == {c \in [pos : Int, seq : SUBSET Seqs] : c.pos >= -1 /\ (c.pos = -1 <=> c.seq = {})}

\* Putting a saved cell back keeps a table exact.
LEMMA SetGood ==
  ASSUME NEW n \in Nat, NEW t \in GoodTables(n), NEW i \in 0..n-1, NEW saved \in SavedCells
  PROVE  LET u == SetCell(t, i, saved)
         IN  /\ u \in GoodTables(n) /\ Beside(t, u, i, n)
             /\ u.pos[i] = saved.pos /\ u.seq[i] = saved.seq
<1> DEFINE u == SetCell(t, i, saved)
           w == IF t.pos[i] # -1 THEN seq_pos_rm(t, i) ELSE t
           a == [w.pos EXCEPT ![i] = saved.pos]
           c == [w.seq EXCEPT ![i] = saved.seq]
           d == IF saved.pos = -1 THEN w.used \ {i} ELSE w.used \cup {i}
           v == With(w, a, w.shift, c, d, w.seq_pos)
<1>1. /\ t \in Tables(n) /\ t.pos[i] \in Int /\ (t.pos[i] = -1 <=> t.seq[i] = {})
      /\ \A s, p : Holds(t, i, s, p) <=> s \in t.seq[i] /\ t.pos[i] = p
  BY CellFacts
<1>2. saved.pos \in Int /\ saved.pos >= -1 /\ saved.seq \subseteq Seqs /\ (saved.pos = -1 <=> saved.seq = {})
  BY DEF SavedCells
<1>3. w \in Tables(n) /\ w.pos = t.pos /\ w.seq = t.seq /\ w.used = t.used
  BY <1>1, PosRm
<1>4. \A s \in Seqs : \A p \in Int :
         Copies(p, w.seq_pos[s]) = Copies(p, t.seq_pos[s]) - (IF Holds(t, i, s, p) THEN 1 ELSE 0)
  <2>1. CASE t.pos[i] # -1
    BY <2>1, PosRmCopies
  <2>2. CASE t.pos[i] = -1
    <3>1. \A s \in Seqs : \A p \in Int : Copies(p, t.seq_pos[s]) \in Nat /\ ~Holds(t, i, s, p)
      BY <1>1, <2>2, Counted
    <3> QED
      BY <2>2, <3>1
  <2> QED
    BY <2>1, <2>2
<1>5. u = IF saved.pos # -1 THEN seq_pos_add(v, i) ELSE v
  <2>1. v = [w EXCEPT !.pos[i] = saved.pos, !.seq[i] = saved.seq,
                      !.used = IF saved.pos = -1 THEN @ \ {i} ELSE @ \cup {i}]
    <3> HIDE DEF w
    <3> QED
      BY <1>3 DEF With, Tables
  <2> HIDE DEF v
  <2> QED
    BY <2>1 DEF SetCell
<1> HIDE DEF w
<1>6. /\ a \in [0..n-1 -> Int] /\ c \in [0..n-1 -> SUBSET Seqs] /\ d \in SUBSET (0..n-1)
      /\ w.shift \in [0..n-1 -> Int] /\ w.seq_pos \in [Seqs -> PosBags]
      /\ a[i] = saved.pos /\ c[i] = saved.seq
      /\ \A j \in 0..n-1 : j # i => a[j] = t.pos[j] /\ c[j] = t.seq[j]
  <2>1. /\ w.pos \in [0..n-1 -> Int] /\ w.seq \in [0..n-1 -> SUBSET Seqs] /\ w.used \in SUBSET (0..n-1)
        /\ w.shift \in [0..n-1 -> Int] /\ w.seq_pos \in [Seqs -> PosBags]
    BY <1>3, FieldTypes
  <2> QED
    BY <1>2, <1>3, <2>1
<1> HIDE DEF a, c
<1>7. v \in Tables(n) /\ v.pos = a /\ v.seq = c /\ v.used = d /\ v.seq_pos = w.seq_pos
  <2> HIDE DEF d
  <2> QED
    BY <1>3, <1>6 DEF With, Tables
<1> HIDE DEF u, v
<1>8. Beside(t, v, i, n) /\ LeftBags(t, v, i)
  BY <1>4, <1>6, <1>7 DEF Beside, LeftBags
<1>9. CASE saved.pos = -1
  BY <1>2, <1>3, <1>5, <1>6, <1>7, <1>8, <1>9, TakenOut DEF u, d
<1>10. CASE saved.pos # -1
  <2>1. v.pos[i] >= 0 /\ v.seq[i] # {} /\ v.used = t.used \cup {i}
    BY <1>2, <1>3, <1>6, <1>7, <1>10
  <2>2. /\ seq_pos_add(v, i) \in GoodTables(n) /\ Beside(t, seq_pos_add(v, i), i, n)
        /\ seq_pos_add(v, i).pos[i] = v.pos[i] /\ seq_pos_add(v, i).seq[i] = v.seq[i]
    BY <1>7, <1>8, <2>1, PutIn
  <2>3. u = seq_pos_add(v, i)
    BY <1>5, <1>10
  <2> QED
    BY <1>6, <1>7, <2>2, <2>3 DEF u
<1> QED
  BY <1>9, <1>10

\* Giving a cell a position.
LEMMA PosSetFields ==
  ASSUME NEW n \in Nat, NEW t \in Tables(n), NEW i \in 0..n-1, NEW p \in Int
  PROVE  LET u == pos_set(t, i, p)
         IN  /\ u \in Tables(n) /\ Beside(t, u, i, n)
             /\ u.pos[i] = p /\ u.seq = t.seq /\ u.used = t.used \cup {i} /\ u.seq_pos = t.seq_pos
<1> DEFINE a == [t.pos EXCEPT ![i] = p]
           d == t.used \cup {i}
           u == pos_set(t, i, p)
<1>1. /\ a \in [0..n-1 -> Int] /\ d \in SUBSET (0..n-1) /\ a[i] = p
      /\ \A j \in 0..n-1 : j # i => a[j] = t.pos[j]
  BY FieldTypes, CellChange
<1>2. u = With(t, a, t.shift, t.seq, d, t.seq_pos)
  BY DEF pos_set, With, Tables
<1>3. /\ t.shift \in [0..n-1 -> Int] /\ t.seq \in [0..n-1 -> SUBSET Seqs]
      /\ t.seq_pos \in [Seqs -> PosBags]
  BY FieldTypes
<1> HIDE DEF a, d, u
<1>4. u \in Tables(n) /\ u.pos = a /\ u.seq = t.seq /\ u.used = d /\ u.seq_pos = t.seq_pos
  BY <1>1, <1>2, <1>3 DEF With, Tables
<1> QED
  BY <1>1, <1>4 DEF Beside, u, d

\* A table of empty cells is exact.
LEMMA ResetGood ==
  ASSUME NEW n \in Nat PROVE reset(n) \in GoodTables(n)
<1> DEFINE t == reset(n)
<1>1. EmptyBag \in PosBags /\ \A p : Copies(p, EmptyBag) = 0
  BY DEF EmptyBag, SetToBag, PosBags, Copies, BagToSet
<1>2. t \in Tables(n) /\ t.used = {} /\ t.pos = [i \in 0..n-1 |-> -1] /\ t.seq = [i \in 0..n-1 |-> {}]
      /\ t.seq_pos = [s \in Seqs |-> EmptyBag]
  BY <1>1 DEF reset, Tables
<1>3. \A s \in Seqs : \A p \in Int : Holders(t, s, p) = {}
  BY <1>2 DEF Holders
<1> HIDE DEF t
<1>4. Cells(t) = 0..n-1
  BY <1>2, CellsOf
<1>5. Exact(t)
  <2>1. \A s \in Seqs : \A p \in Int : Copies(p, t.seq_pos[s]) = Cardinality(Holders(t, s, p))
    BY <1>1, <1>2, <1>3, FS_EmptySet
  <2>2. \A i \in 0..n-1 : t.pos[i] = -1 /\ t.seq[i] = {}
    BY <1>2
  <2> QED
    BY <1>2, <1>4, <2>1, <2>2 DEF Exact
<1> QED
  BY <1>2, <1>5 DEF GoodTables, t

\* Forgetting the shifts keeps a table exact.
LEMMA ResetShiftGood ==
  ASSUME NEW n \in Nat, NEW t \in GoodTables(n)
  PROVE  /\ reset_shift(t) \in GoodTables(n)
         /\ reset_shift(t).pos = t.pos /\ reset_shift(t).seq = t.seq
<1> DEFINE u == reset_shift(t)
           b == [i \in Cells(t) |-> 0]
<1>1. t \in Tables(n) /\ Exact(t) /\ Cells(t) = 0..n-1
  BY CellsOf DEF GoodTables
<1>2. b \in [0..n-1 -> Int]
  BY <1>1
<1>3. u = [t EXCEPT !.has_shift = FALSE, !.shift = b]
  BY DEF reset_shift
<1> HIDE DEF b, u
<1>4. u \in Tables(n) /\ u.pos = t.pos /\ u.seq = t.seq /\ u.used = t.used /\ u.seq_pos = t.seq_pos
  BY <1>1, <1>2, <1>3 DEF Tables
<1>5. Exact(u)
  BY <1>1, <1>4, CellsOf DEF Exact, Holders
<1> QED
  BY <1>4, <1>5 DEF GoodTables, u

\* The copy of a cell into an empty one of another stream keeps the table exact,
\* and arrives at the source's position whatever shift is pending there.
LEMMA CopyGood ==
  ASSUME NEW n \in Nat, NEW t \in Tables(n), NEW src \in Tables(n), NEW i \in 0..n-1, NEW b \in Seqs
  PROVE  LET u == CopyCell(t, src, i, b)
         IN  /\ u \in Tables(n) /\ Beside(t, u, i, n)
             /\ t \in GoodTables(n) /\ t.pos[i] = -1 /\ src.pos[i] >= 0 =>
                   u \in GoodTables(n) /\ u.pos[i] = src.pos[i] /\ u.seq[i] = {b}
<1> DEFINE u == CopyCell(t, src, i, b)
           d == src.shift[i]
           x == src.pos[i] - d
           w == pos_set(t, i, x)
           placed == cell_seq_add(w, i, b)
<1>1. src.pos[i] \in Int /\ d \in Int /\ x \in Int
  BY FieldTypes
<1>2. u = IF d = 0 THEN placed ELSE pos_add(placed, i, d)
  BY DEF CopyCell
<1> HIDE DEF d, x, u
<1>3. /\ w \in Tables(n) /\ Beside(t, w, i, n) /\ w.pos[i] = x /\ w.seq = t.seq
      /\ w.used = t.used \cup {i} /\ w.seq_pos = t.seq_pos
  BY <1>1, PosSetFields
<1> HIDE DEF w
<1>4. /\ placed \in Tables(n) /\ Beside(w, placed, i, n)
      /\ placed.pos = w.pos /\ placed.seq[i] = t.seq[i] \cup {b} /\ placed.used = t.used \cup {i}
      /\ \A r \in Seqs : \A p \in Int :
            Copies(p, placed.seq_pos[r]) = Copies(p, t.seq_pos[r]) + (IF r = b /\ p = x THEN 1 ELSE 0)
  <2>1. /\ placed \in Tables(n) /\ Beside(w, placed, i, n)
        /\ placed.pos = w.pos /\ placed.seq[i] = w.seq[i] \cup {b} /\ placed.used = w.used
        /\ \A r \in Seqs : \A p \in Int :
              Copies(p, placed.seq_pos[r]) = Copies(p, w.seq_pos[r])
                                              + (IF r = b /\ p = w.pos[i] THEN 1 ELSE 0)
    BY <1>3, SeqAddGood
  <2> HIDE DEF placed
  <2> QED
    BY <1>3, <2>1
<1> HIDE DEF placed
<1>5. Beside(t, placed, i, n) /\ placed.pos[i] = x
  BY <1>3, <1>4 DEF Beside
<1>6. u \in Tables(n) /\ Beside(t, u, i, n)
  <2>1. pos_add(placed, i, d) \in Tables(n) /\ Beside(placed, pos_add(placed, i, d), i, n)
    BY <1>1, <1>4, PosAddGood
  <2> QED
    BY <1>2, <1>4, <1>5, <2>1 DEF Beside
<1>7. ASSUME t \in GoodTables(n), t.pos[i] = -1, src.pos[i] >= 0
      PROVE  u \in GoodTables(n) /\ u.pos[i] = src.pos[i] /\ u.seq[i] = {b}
  <2>1. t.seq[i] = {} /\ \A r, p : ~Holds(t, i, r, p)
    BY <1>7, CellFacts
  <2>2. \A r \in Seqs : \A p \in Int : Copies(p, t.seq_pos[r]) \in Nat
    BY <1>7, Counted
  <2>3. CASE d = 0
    <3>1. u = placed /\ placed.pos[i] = src.pos[i] /\ placed.seq[i] = {b} /\ i \in placed.used
      BY <1>1, <1>2, <1>4, <1>5, <2>1, <2>3 DEF x
    <3>2. \A r, p : Holds(placed, i, r, p) <=> r = b /\ p = x
      BY <1>5, <3>1 DEF Holds
    <3>3. Booked(t, placed, i)
      BY <1>4, <2>1, <2>2, <3>2 DEF Booked
    <3>4. /\ placed.used = IF placed.pos[i] = -1 THEN t.used \ {i} ELSE t.used \cup {i}
          /\ placed.pos[i] >= -1 /\ (placed.pos[i] = -1 <=> placed.seq[i] = {})
      BY <1>1, <1>4, <1>7, <3>1
    <3>5. placed \in GoodTables(n)
      BY <1>4, <1>5, <1>7, <3>3, <3>4, OneCell
    <3> QED
      BY <3>1, <3>5
  <2>4. CASE d # 0
    <3> DEFINE y == placed.pos[i] + d
               z == placed.shift[i] + d
               v == Moved(seq_pos_rm(placed, i), [placed.pos EXCEPT ![i] = y],
                          [placed.shift EXCEPT ![i] = z])
    <3>1. y = src.pos[i] /\ y \in Int /\ z \in Int
      <4>1. placed.pos[i] \in Int /\ placed.shift[i] \in Int
        BY <1>4, FieldTypes
      <4> QED
        BY <1>1, <1>5, <4>1 DEF x
    <3>2. pos_add(placed, i, d) = IF v.pos[i] < 0 THEN Vacate(v, i) ELSE seq_pos_add(v, i)
      BY <1>1, <1>4, PosAddIs
    <3>3. /\ v \in Tables(n) /\ Beside(placed, v, i, n) /\ v.pos[i] = y /\ v.seq = placed.seq
          /\ v.used = placed.used /\ v.seq_pos = seq_pos_rm(placed, i).seq_pos
      <4> HIDE DEF y, z
      <4> QED
        BY <1>4, <3>1, MovedFields
    <3> HIDE DEF v, y, z
    <3>4. u = seq_pos_add(v, i)
      BY <1>1, <1>2, <1>7, <2>4, <3>1, <3>2, <3>3
    <3>5. Beside(t, v, i, n)
      BY <1>5, <3>3 DEF Beside
    <3>6. ASSUME NEW r \in Seqs, NEW p \in Int PROVE Copies(p, v.seq_pos[r]) = Copies(p, t.seq_pos[r])
      <4>1. placed.seq_pos[r] \in PosBags /\ placed.pos[i] \in Int
        BY <1>4, FieldTypes
      <4>2. v.seq_pos[r] = IF r = b THEN placed.seq_pos[r] (-) SetToBag({x}) ELSE placed.seq_pos[r]
        <5>1. seq_pos_rm(placed, i).seq_pos[r] = IF r \in placed.seq[i]
                                                 THEN placed.seq_pos[r] (-) SetToBag({placed.pos[i]})
                                                 ELSE placed.seq_pos[r]
          <6>1. \A e \in Seqs : seq_pos_rm(placed, i).seq_pos[e] = IF e \in placed.seq[i]
                                                 THEN placed.seq_pos[e] (-) SetToBag({placed.pos[i]})
                                                 ELSE placed.seq_pos[e]
            BY <1>4, PosRm, Zenon
          <6> QED
            BY <6>1, Zenon
        <5>2. placed.seq[i] = {b}
          BY <1>4, <2>1
        <5> QED
          BY <1>5, <3>3, <5>1, <5>2
      <4>3. Copies(p, placed.seq_pos[r]) = Copies(p, t.seq_pos[r]) + (IF r = b /\ p = x THEN 1 ELSE 0)
        BY <1>4
      <4>4. Copies(p, t.seq_pos[r]) \in Nat
        BY <2>2
      <4>5. CASE r = b
        BY <1>5, <4>1, <4>2, <4>3, <4>4, <4>5, BagLoses
      <4>6. CASE r # b
        BY <4>2, <4>3, <4>4, <4>6
      <4> QED
        BY <4>5, <4>6
    <3>7. LeftBags(t, v, i)
      BY <2>1, <2>2, <3>6 DEF LeftBags
    <3>8. v.pos[i] >= 0 /\ v.seq[i] = {b} /\ v.used = t.used \cup {i}
      BY <1>4, <1>7, <2>1, <3>1, <3>3
    <3>9. /\ seq_pos_add(v, i) \in GoodTables(n)
          /\ seq_pos_add(v, i).pos[i] = v.pos[i] /\ seq_pos_add(v, i).seq[i] = v.seq[i]
      BY <1>7, <3>3, <3>5, <3>7, <3>8, PutIn
    <3> QED
      BY <3>1, <3>3, <3>4, <3>8, <3>9
  <2> QED
    BY <2>3, <2>4
<1> QED
  BY <1>6, <1>7 DEF u

(***************************************************************************)
(* Folds over the cells of a table                                         *)
(***************************************************************************)

\* The element a fold over a set takes out first.
Chosen(T) == CHOOSE x \in T : TRUE

ChoiceOf(S) == [T \in SUBSET S |-> Chosen(T)]

\* A fold with step function F: walk[T] is what it makes of base and the
\* elements of T.
Walk(g, S, base, F) ==
    \A T \in SUBSET S : g[T] = IF T = {} THEN base ELSE F[<<Chosen(T), g[T \ {Chosen(T)}]>>]

\* The chosen element is one of the set.
LEMMA ChosenIn ==
  ASSUME NEW S, NEW T \in SUBSET S, T # {}
  PROVE  Chosen(T) \in T /\ Chosen(T) \in S /\ T \ {Chosen(T)} \in SUBSET S
  BY DEF Chosen

\* A fold whose steps stay in V exists.
LEMMA SetFold ==
  ASSUME NEW S, IsFiniteSet(S), NEW V, NEW base \in V, NEW F \in [S \X V -> V]
  PROVE  \E g \in [SUBSET S -> V] : Walk(g, S, base, F)
<1> DEFINE ch == ChoiceOf(S)
<1>1. \A T \in SUBSET S : ch[T] = Chosen(T)
  BY DEF ChoiceOf
<1>2. Choice(ch, S)
  BY <1>1, ChosenIn DEF Choice
<1> HIDE DEF ch
<1>3. PICK g \in [SUBSET S -> V] : Solution(g, S, base, F, ch)
  BY <1>2, Recursion
<1>4. Walk(g, S, base, F)
  BY <1>1, <1>3 DEF Solution, Walk
<1> QED
  BY <1>4

\* A walk over cells in which each step keeps a table exact that it finds
\* exact and with its own cell as it was at the beginning.
CellSteps(h, t, hit, n) ==
    /\ h[{}] = t
    /\ \A T \in SUBSET hit : \A x \in T :
          x = Chosen(T) /\ h[T \ {x}] \in GoodTables(n)
            /\ h[T \ {x}].pos[x] = t.pos[x] /\ h[T \ {x}].seq[x] = t.seq[x]
          => h[T] \in GoodTables(n) /\ Beside(h[T \ {x}], h[T], x, n)

\* Such a walk ends with an exact table.
LEMMA CellWalk ==
  ASSUME NEW n \in Nat, NEW t \in GoodTables(n), NEW hit \in SUBSET (0..n-1), NEW h,
         CellSteps(h, t, hit, n)
  PROVE  h[hit] \in GoodTables(n)
<1> DEFINE Done(T) == /\ h[T] \in GoodTables(n)
                      /\ \A j \in 0..n-1 : j \notin T => h[T].pos[j] = t.pos[j] /\ h[T].seq[j] = t.seq[j]
           G == {T \in SUBSET hit : Done(T)}
<1>1. IsFiniteSet(hit)
  BY FiniteCells
<1>2. {} \in G
  BY DEF CellSteps
<1>3. ASSUME NEW T \in SUBSET hit, T # {}, T \ {Chosen(T)} \in G PROVE T \in G
  <2> DEFINE x == Chosen(T)
  <2>1. x \in T /\ x \in 0..n-1
    BY <1>3, ChosenIn
  <2>2. Done(T \ {x})
    BY <1>3
  <2>3. x \notin T \ {x}
    OBVIOUS
  <2> HIDE DEF x
  <2>4. h[T \ {x}] \in GoodTables(n) /\ h[T \ {x}].pos[x] = t.pos[x] /\ h[T \ {x}].seq[x] = t.seq[x]
    BY <2>1, <2>2, <2>3
  <2>5. h[T] \in GoodTables(n) /\ Beside(h[T \ {x}], h[T], x, n)
    BY <2>1, <2>4 DEF CellSteps, x
  <2>6. ASSUME NEW j \in 0..n-1, j \notin T PROVE h[T].pos[j] = t.pos[j] /\ h[T].seq[j] = t.seq[j]
    BY <2>1, <2>2, <2>5, <2>6 DEF Beside
  <2> QED
    BY <2>5, <2>6
<1>4. Growing(G, hit)
  <2> HIDE DEF G
  <2> QED
    BY <1>3, ChosenIn DEF Growing
<1>5. hit \in G
  <2> HIDE DEF G
  <2> QED
    BY <1>1, <1>2, <1>4, Shrinking
<1> QED
  BY <1>5

\* Sequence s leaves cells that it owns (seq_rm).
LEMMA RmFold ==
  ASSUME NEW n \in Nat, NEW t \in GoodTables(n), NEW hit \in SUBSET (0..n-1),
         NEW s \in Seqs, \A i \in hit : s \in t.seq[i]
  PROVE  FoldSet(LAMBDA i, u : cell_seq_rm(u, i, s), t, hit) \in GoodTables(n)
<1> DEFINE Step(g, T) == cell_seq_rm(g[T \ {Chosen(T)}], Chosen(T), s)
           h == CHOOSE g : g = [T \in SUBSET hit |-> IF T = {} THEN t ELSE Step(g, T)]
           F == [e \in hit \X Tables(n) |-> cell_seq_rm(e[2], e[1], s)]
<1>1. FoldSet(LAMBDA i, u : cell_seq_rm(u, i, s), t, hit) = h[hit]
  BY DEF FoldSet, MapThenFoldSet, Chosen
<1>2. IsFiniteSet(hit) /\ t \in Tables(n)
  BY FiniteCells DEF GoodTables
<1>3. ASSUME NEW i \in hit, NEW v \in Tables(n)
      PROVE  /\ cell_seq_rm(v, i, s) \in Tables(n) /\ Beside(v, cell_seq_rm(v, i, s), i, n)
             /\ v \in GoodTables(n) /\ v.pos[i] = t.pos[i] /\ v.seq[i] = t.seq[i] =>
                   cell_seq_rm(v, i, s) \in GoodTables(n)
  BY SeqRmGood
<1>4. F \in [hit \X Tables(n) -> Tables(n)]
  BY <1>3
<1>5. PICK g \in [SUBSET hit -> Tables(n)] : Walk(g, hit, t, F)
  <2> HIDE DEF F
  <2> QED
    BY <1>2, <1>4, SetFold
<1>6. ASSUME NEW T \in SUBSET hit, T # {} PROVE g[T] = Step(g, T)
  <2>1. Chosen(T) \in hit /\ T \ {Chosen(T)} \in SUBSET hit
    BY <1>6, ChosenIn
  <2>2. <<Chosen(T), g[T \ {Chosen(T)}]>> \in hit \X Tables(n)
    BY <2>1
  <2> QED
    BY <1>5, <1>6, <2>2 DEF Walk
<1>7. g = [T \in SUBSET hit |-> IF T = {} THEN t ELSE Step(g, T)]
  BY <1>5, <1>6 DEF Walk
<1>8. h = [T \in SUBSET hit |-> IF T = {} THEN t ELSE Step(h, T)]
  BY <1>7
<1> HIDE DEF h
<1>9. ASSUME NEW T \in SUBSET hit, NEW x \in T, x = Chosen(T), h[T \ {x}] \in GoodTables(n),
             h[T \ {x}].pos[x] = t.pos[x], h[T \ {x}].seq[x] = t.seq[x]
      PROVE  h[T] \in GoodTables(n) /\ Beside(h[T \ {x}], h[T], x, n)
  <2>1. h[T] = cell_seq_rm(h[T \ {x}], x, s)
    BY <1>8, <1>9
  <2>2. h[T \ {x}] \in Tables(n)
    BY <1>9 DEF GoodTables
  <2> QED
    BY <1>3, <1>9, <2>1, <2>2
<1>10. CellSteps(h, t, hit, n)
  BY <1>8, <1>9 DEF CellSteps
<1>11. h[hit] \in GoodTables(n)
  BY <1>10, CellWalk
<1> QED
  BY <1>1, <1>11, Zenon

\* Cells are emptied (seq_rm for any sequence).
LEMMA RmAnyFold ==
  ASSUME NEW n \in Nat, NEW t \in GoodTables(n), NEW hit \in SUBSET (0..n-1)
  PROVE  FoldSet(LAMBDA i, u : rm(u, i), t, hit) \in GoodTables(n)
<1> DEFINE Step(g, T) == rm(g[T \ {Chosen(T)}], Chosen(T))
           h == CHOOSE g : g = [T \in SUBSET hit |-> IF T = {} THEN t ELSE Step(g, T)]
           F == [e \in hit \X Tables(n) |-> rm(e[2], e[1])]
<1>1. FoldSet(LAMBDA i, u : rm(u, i), t, hit) = h[hit]
  BY DEF FoldSet, MapThenFoldSet, Chosen
<1>2. IsFiniteSet(hit) /\ t \in Tables(n)
  BY FiniteCells DEF GoodTables
<1>3. ASSUME NEW i \in hit, NEW v \in Tables(n)
      PROVE  /\ rm(v, i) \in Tables(n) /\ Beside(v, rm(v, i), i, n)
             /\ v \in GoodTables(n) /\ v.pos[i] = t.pos[i] /\ v.seq[i] = t.seq[i] =>
                   rm(v, i) \in GoodTables(n)
  BY RmGood
<1>4. F \in [hit \X Tables(n) -> Tables(n)]
  BY <1>3
<1>5. PICK g \in [SUBSET hit -> Tables(n)] : Walk(g, hit, t, F)
  <2> HIDE DEF F
  <2> QED
    BY <1>2, <1>4, SetFold
<1>6. ASSUME NEW T \in SUBSET hit, T # {} PROVE g[T] = Step(g, T)
  <2>1. Chosen(T) \in hit /\ T \ {Chosen(T)} \in SUBSET hit
    BY <1>6, ChosenIn
  <2>2. <<Chosen(T), g[T \ {Chosen(T)}]>> \in hit \X Tables(n)
    BY <2>1
  <2> QED
    BY <1>5, <1>6, <2>2 DEF Walk
<1>7. g = [T \in SUBSET hit |-> IF T = {} THEN t ELSE Step(g, T)]
  BY <1>5, <1>6 DEF Walk
<1>8. h = [T \in SUBSET hit |-> IF T = {} THEN t ELSE Step(h, T)]
  BY <1>7
<1> HIDE DEF h
<1>9. ASSUME NEW T \in SUBSET hit, NEW x \in T, x = Chosen(T), h[T \ {x}] \in GoodTables(n),
             h[T \ {x}].pos[x] = t.pos[x], h[T \ {x}].seq[x] = t.seq[x]
      PROVE  h[T] \in GoodTables(n) /\ Beside(h[T \ {x}], h[T], x, n)
  <2>1. h[T] = rm(h[T \ {x}], x)
    BY <1>8, <1>9
  <2>2. h[T \ {x}] \in Tables(n)
    BY <1>9 DEF GoodTables
  <2> QED
    BY <1>3, <1>9, <2>1, <2>2
<1>10. CellSteps(h, t, hit, n)
  BY <1>8, <1>9 DEF CellSteps
<1>11. h[hit] \in GoodTables(n)
  BY <1>10, CellWalk
<1> QED
  BY <1>1, <1>11, Zenon

\* Only sequence s keeps its cells (seq_keep).
LEMMA KeepFold ==
  ASSUME NEW n \in Nat, NEW t \in GoodTables(n), NEW hit \in SUBSET (0..n-1),
         NEW s \in Seqs
  PROVE  FoldSet(LAMBDA i, u : cell_seq_keep(u, i, s), t, hit) \in GoodTables(n)
<1> DEFINE Step(g, T) == cell_seq_keep(g[T \ {Chosen(T)}], Chosen(T), s)
           h == CHOOSE g : g = [T \in SUBSET hit |-> IF T = {} THEN t ELSE Step(g, T)]
           F == [e \in hit \X Tables(n) |-> cell_seq_keep(e[2], e[1], s)]
<1>1. FoldSet(LAMBDA i, u : cell_seq_keep(u, i, s), t, hit) = h[hit]
  BY DEF FoldSet, MapThenFoldSet, Chosen
<1>2. IsFiniteSet(hit) /\ t \in Tables(n)
  BY FiniteCells DEF GoodTables
<1>3. ASSUME NEW i \in hit, NEW v \in Tables(n)
      PROVE  /\ cell_seq_keep(v, i, s) \in Tables(n) /\ Beside(v, cell_seq_keep(v, i, s), i, n)
             /\ v \in GoodTables(n) /\ v.pos[i] = t.pos[i] /\ v.seq[i] = t.seq[i] =>
                   cell_seq_keep(v, i, s) \in GoodTables(n)
  BY SeqKeepGood
<1>4. F \in [hit \X Tables(n) -> Tables(n)]
  BY <1>3
<1>5. PICK g \in [SUBSET hit -> Tables(n)] : Walk(g, hit, t, F)
  <2> HIDE DEF F
  <2> QED
    BY <1>2, <1>4, SetFold
<1>6. ASSUME NEW T \in SUBSET hit, T # {} PROVE g[T] = Step(g, T)
  <2>1. Chosen(T) \in hit /\ T \ {Chosen(T)} \in SUBSET hit
    BY <1>6, ChosenIn
  <2>2. <<Chosen(T), g[T \ {Chosen(T)}]>> \in hit \X Tables(n)
    BY <2>1
  <2> QED
    BY <1>5, <1>6, <2>2 DEF Walk
<1>7. g = [T \in SUBSET hit |-> IF T = {} THEN t ELSE Step(g, T)]
  BY <1>5, <1>6 DEF Walk
<1>8. h = [T \in SUBSET hit |-> IF T = {} THEN t ELSE Step(h, T)]
  BY <1>7
<1> HIDE DEF h
<1>9. ASSUME NEW T \in SUBSET hit, NEW x \in T, x = Chosen(T), h[T \ {x}] \in GoodTables(n),
             h[T \ {x}].pos[x] = t.pos[x], h[T \ {x}].seq[x] = t.seq[x]
      PROVE  h[T] \in GoodTables(n) /\ Beside(h[T \ {x}], h[T], x, n)
  <2>1. h[T] = cell_seq_keep(h[T \ {x}], x, s)
    BY <1>8, <1>9
  <2>2. h[T \ {x}] \in Tables(n)
    BY <1>9 DEF GoodTables
  <2> QED
    BY <1>3, <1>9, <2>1, <2>2
<1>10. CellSteps(h, t, hit, n)
  BY <1>8, <1>9 DEF CellSteps
<1>11. h[hit] \in GoodTables(n)
  BY <1>10, CellWalk
<1> QED
  BY <1>1, <1>11, Zenon

\* Sequence s joins cells that it does not own (seq_cp in one stream).
LEMMA AddFold ==
  ASSUME NEW n \in Nat, NEW t \in GoodTables(n), NEW hit \in SUBSET (0..n-1),
         NEW s \in Seqs, \A i \in hit : s \notin t.seq[i] /\ t.pos[i] # -1
  PROVE  FoldSet(LAMBDA i, u : cell_seq_add(u, i, s), t, hit) \in GoodTables(n)
<1> DEFINE Step(g, T) == cell_seq_add(g[T \ {Chosen(T)}], Chosen(T), s)
           h == CHOOSE g : g = [T \in SUBSET hit |-> IF T = {} THEN t ELSE Step(g, T)]
           F == [e \in hit \X Tables(n) |-> cell_seq_add(e[2], e[1], s)]
<1>1. FoldSet(LAMBDA i, u : cell_seq_add(u, i, s), t, hit) = h[hit]
  BY DEF FoldSet, MapThenFoldSet, Chosen
<1>2. IsFiniteSet(hit) /\ t \in Tables(n)
  BY FiniteCells DEF GoodTables
<1>3. ASSUME NEW i \in hit, NEW v \in Tables(n)
      PROVE  /\ cell_seq_add(v, i, s) \in Tables(n) /\ Beside(v, cell_seq_add(v, i, s), i, n)
             /\ v \in GoodTables(n) /\ v.pos[i] = t.pos[i] /\ v.seq[i] = t.seq[i] =>
                   cell_seq_add(v, i, s) \in GoodTables(n)
  BY SeqAddGood
<1>4. F \in [hit \X Tables(n) -> Tables(n)]
  BY <1>3
<1>5. PICK g \in [SUBSET hit -> Tables(n)] : Walk(g, hit, t, F)
  <2> HIDE DEF F
  <2> QED
    BY <1>2, <1>4, SetFold
<1>6. ASSUME NEW T \in SUBSET hit, T # {} PROVE g[T] = Step(g, T)
  <2>1. Chosen(T) \in hit /\ T \ {Chosen(T)} \in SUBSET hit
    BY <1>6, ChosenIn
  <2>2. <<Chosen(T), g[T \ {Chosen(T)}]>> \in hit \X Tables(n)
    BY <2>1
  <2> QED
    BY <1>5, <1>6, <2>2 DEF Walk
<1>7. g = [T \in SUBSET hit |-> IF T = {} THEN t ELSE Step(g, T)]
  BY <1>5, <1>6 DEF Walk
<1>8. h = [T \in SUBSET hit |-> IF T = {} THEN t ELSE Step(h, T)]
  BY <1>7
<1> HIDE DEF h
<1>9. ASSUME NEW T \in SUBSET hit, NEW x \in T, x = Chosen(T), h[T \ {x}] \in GoodTables(n),
             h[T \ {x}].pos[x] = t.pos[x], h[T \ {x}].seq[x] = t.seq[x]
      PROVE  h[T] \in GoodTables(n) /\ Beside(h[T \ {x}], h[T], x, n)
  <2>1. h[T] = cell_seq_add(h[T \ {x}], x, s)
    BY <1>8, <1>9
  <2>2. h[T \ {x}] \in Tables(n)
    BY <1>9 DEF GoodTables
  <2> QED
    BY <1>3, <1>9, <2>1, <2>2
<1>10. CellSteps(h, t, hit, n)
  BY <1>8, <1>9 DEF CellSteps
<1>11. h[hit] \in GoodTables(n)
  BY <1>10, CellWalk
<1> QED
  BY <1>1, <1>11, Zenon

\* Cells of another stream are copied into empty ones (seq_cp between streams).
LEMMA CopyFold ==
  ASSUME NEW n \in Nat, NEW t \in GoodTables(n), NEW hit \in SUBSET (0..n-1),
         NEW src \in Tables(n), NEW b \in Seqs,
         \A i \in hit : t.pos[i] = -1 /\ src.pos[i] >= 0
  PROVE  FoldSet(LAMBDA i, u : CopyCell(u, src, i, b), t, hit) \in GoodTables(n)
<1> DEFINE Step(g, T) == CopyCell(g[T \ {Chosen(T)}], src, Chosen(T), b)
           h == CHOOSE g : g = [T \in SUBSET hit |-> IF T = {} THEN t ELSE Step(g, T)]
           F == [e \in hit \X Tables(n) |-> CopyCell(e[2], src, e[1], b)]
<1>1. FoldSet(LAMBDA i, u : CopyCell(u, src, i, b), t, hit) = h[hit]
  BY DEF FoldSet, MapThenFoldSet, Chosen
<1>2. IsFiniteSet(hit) /\ t \in Tables(n)
  BY FiniteCells DEF GoodTables
<1>3. ASSUME NEW i \in hit, NEW v \in Tables(n)
      PROVE  /\ CopyCell(v, src, i, b) \in Tables(n) /\ Beside(v, CopyCell(v, src, i, b), i, n)
             /\ v \in GoodTables(n) /\ v.pos[i] = t.pos[i] /\ v.seq[i] = t.seq[i] =>
                   CopyCell(v, src, i, b) \in GoodTables(n)
  BY CopyGood
<1>4. F \in [hit \X Tables(n) -> Tables(n)]
  BY <1>3
<1>5. PICK g \in [SUBSET hit -> Tables(n)] : Walk(g, hit, t, F)
  <2> HIDE DEF F
  <2> QED
    BY <1>2, <1>4, SetFold
<1>6. ASSUME NEW T \in SUBSET hit, T # {} PROVE g[T] = Step(g, T)
  <2>1. Chosen(T) \in hit /\ T \ {Chosen(T)} \in SUBSET hit
    BY <1>6, ChosenIn
  <2>2. <<Chosen(T), g[T \ {Chosen(T)}]>> \in hit \X Tables(n)
    BY <2>1
  <2> QED
    BY <1>5, <1>6, <2>2 DEF Walk
<1>7. g = [T \in SUBSET hit |-> IF T = {} THEN t ELSE Step(g, T)]
  BY <1>5, <1>6 DEF Walk
<1>8. h = [T \in SUBSET hit |-> IF T = {} THEN t ELSE Step(h, T)]
  BY <1>7
<1> HIDE DEF h
<1>9. ASSUME NEW T \in SUBSET hit, NEW x \in T, x = Chosen(T), h[T \ {x}] \in GoodTables(n),
             h[T \ {x}].pos[x] = t.pos[x], h[T \ {x}].seq[x] = t.seq[x]
      PROVE  h[T] \in GoodTables(n) /\ Beside(h[T \ {x}], h[T], x, n)
  <2>1. h[T] = CopyCell(h[T \ {x}], src, x, b)
    BY <1>8, <1>9
  <2>2. h[T \ {x}] \in Tables(n)
    BY <1>9 DEF GoodTables
  <2> QED
    BY <1>3, <1>9, <2>1, <2>2
<1>10. CellSteps(h, t, hit, n)
  BY <1>8, <1>9 DEF CellSteps
<1>11. h[hit] \in GoodTables(n)
  BY <1>10, CellWalk
<1> QED
  BY <1>1, <1>11, Zenon

\* Cells are moved by d (seq_add).
LEMMA MoveFold ==
  ASSUME NEW n \in Nat, NEW t \in GoodTables(n), NEW hit \in SUBSET (0..n-1),
         NEW d \in Int, \A i \in hit : t.pos[i] # -1
  PROVE  FoldSet(LAMBDA i, u : pos_add(u, i, d), t, hit) \in GoodTables(n)
<1> DEFINE Step(g, T) == pos_add(g[T \ {Chosen(T)}], Chosen(T), d)
           h == CHOOSE g : g = [T \in SUBSET hit |-> IF T = {} THEN t ELSE Step(g, T)]
           F == [e \in hit \X Tables(n) |-> pos_add(e[2], e[1], d)]
<1>1. FoldSet(LAMBDA i, u : pos_add(u, i, d), t, hit) = h[hit]
  BY DEF FoldSet, MapThenFoldSet, Chosen
<1>2. IsFiniteSet(hit) /\ t \in Tables(n)
  BY FiniteCells DEF GoodTables
<1>3. ASSUME NEW i \in hit, NEW v \in Tables(n)
      PROVE  /\ pos_add(v, i, d) \in Tables(n) /\ Beside(v, pos_add(v, i, d), i, n)
             /\ v \in GoodTables(n) /\ v.pos[i] = t.pos[i] /\ v.seq[i] = t.seq[i] =>
                   pos_add(v, i, d) \in GoodTables(n)
  BY PosAddGood
<1>4. F \in [hit \X Tables(n) -> Tables(n)]
  BY <1>3
<1>5. PICK g \in [SUBSET hit -> Tables(n)] : Walk(g, hit, t, F)
  <2> HIDE DEF F
  <2> QED
    BY <1>2, <1>4, SetFold
<1>6. ASSUME NEW T \in SUBSET hit, T # {} PROVE g[T] = Step(g, T)
  <2>1. Chosen(T) \in hit /\ T \ {Chosen(T)} \in SUBSET hit
    BY <1>6, ChosenIn
  <2>2. <<Chosen(T), g[T \ {Chosen(T)}]>> \in hit \X Tables(n)
    BY <2>1
  <2> QED
    BY <1>5, <1>6, <2>2 DEF Walk
<1>7. g = [T \in SUBSET hit |-> IF T = {} THEN t ELSE Step(g, T)]
  BY <1>5, <1>6 DEF Walk
<1>8. h = [T \in SUBSET hit |-> IF T = {} THEN t ELSE Step(h, T)]
  BY <1>7
<1> HIDE DEF h
<1>9. ASSUME NEW T \in SUBSET hit, NEW x \in T, x = Chosen(T), h[T \ {x}] \in GoodTables(n),
             h[T \ {x}].pos[x] = t.pos[x], h[T \ {x}].seq[x] = t.seq[x]
      PROVE  h[T] \in GoodTables(n) /\ Beside(h[T \ {x}], h[T], x, n)
  <2>1. h[T] = pos_add(h[T \ {x}], x, d)
    BY <1>8, <1>9
  <2>2. h[T \ {x}] \in Tables(n)
    BY <1>9 DEF GoodTables
  <2> QED
    BY <1>3, <1>9, <2>1, <2>2
<1>10. CellSteps(h, t, hit, n)
  BY <1>8, <1>9 DEF CellSteps
<1>11. h[hit] \in GoodTables(n)
  BY <1>10, CellWalk
<1> QED
  BY <1>1, <1>11, Zenon

\* The positions of cells are divided by d (seq_div).
LEMMA DivFold ==
  ASSUME NEW n \in Nat, NEW t \in GoodTables(n), NEW hit \in SUBSET (0..n-1),
         NEW d \in Nat \ {0}, \A i \in hit : t.pos[i] # -1
  PROVE  FoldSet(LAMBDA i, u : pos_div(u, i, d), t, hit) \in GoodTables(n)
<1> DEFINE Step(g, T) == pos_div(g[T \ {Chosen(T)}], Chosen(T), d)
           h == CHOOSE g : g = [T \in SUBSET hit |-> IF T = {} THEN t ELSE Step(g, T)]
           F == [e \in hit \X Tables(n) |-> pos_div(e[2], e[1], d)]
<1>1. FoldSet(LAMBDA i, u : pos_div(u, i, d), t, hit) = h[hit]
  BY DEF FoldSet, MapThenFoldSet, Chosen
<1>2. IsFiniteSet(hit) /\ t \in Tables(n)
  BY FiniteCells DEF GoodTables
<1>3. ASSUME NEW i \in hit, NEW v \in Tables(n)
      PROVE  /\ pos_div(v, i, d) \in Tables(n) /\ Beside(v, pos_div(v, i, d), i, n)
             /\ v \in GoodTables(n) /\ v.pos[i] = t.pos[i] /\ v.seq[i] = t.seq[i] =>
                   pos_div(v, i, d) \in GoodTables(n)
  BY PosDivGood
<1>4. F \in [hit \X Tables(n) -> Tables(n)]
  BY <1>3
<1>5. PICK g \in [SUBSET hit -> Tables(n)] : Walk(g, hit, t, F)
  <2> HIDE DEF F
  <2> QED
    BY <1>2, <1>4, SetFold
<1>6. ASSUME NEW T \in SUBSET hit, T # {} PROVE g[T] = Step(g, T)
  <2>1. Chosen(T) \in hit /\ T \ {Chosen(T)} \in SUBSET hit
    BY <1>6, ChosenIn
  <2>2. <<Chosen(T), g[T \ {Chosen(T)}]>> \in hit \X Tables(n)
    BY <2>1
  <2> QED
    BY <1>5, <1>6, <2>2 DEF Walk
<1>7. g = [T \in SUBSET hit |-> IF T = {} THEN t ELSE Step(g, T)]
  BY <1>5, <1>6 DEF Walk
<1>8. h = [T \in SUBSET hit |-> IF T = {} THEN t ELSE Step(h, T)]
  BY <1>7
<1> HIDE DEF h
<1>9. ASSUME NEW T \in SUBSET hit, NEW x \in T, x = Chosen(T), h[T \ {x}] \in GoodTables(n),
             h[T \ {x}].pos[x] = t.pos[x], h[T \ {x}].seq[x] = t.seq[x]
      PROVE  h[T] \in GoodTables(n) /\ Beside(h[T \ {x}], h[T], x, n)
  <2>1. h[T] = pos_div(h[T \ {x}], x, d)
    BY <1>8, <1>9
  <2>2. h[T \ {x}] \in Tables(n)
    BY <1>9 DEF GoodTables
  <2> QED
    BY <1>3, <1>9, <2>1, <2>2
<1>10. CellSteps(h, t, hit, n)
  BY <1>8, <1>9 DEF CellSteps
<1>11. h[hit] \in GoodTables(n)
  BY <1>10, CellWalk
<1> QED
  BY <1>1, <1>11, Zenon

\* An empty cell is given its position and its first owner.
LEMMA PlacedGood ==
  ASSUME NEW n \in Nat, NEW t \in GoodTables(n), NEW i \in 0..n-1, NEW p \in Nat, NEW b \in Seqs,
         t.pos[i] = -1
  PROVE  /\ cell_seq_add(pos_set(t, i, p), i, b) \in GoodTables(n)
         /\ cell_seq_add(pos_set(t, i, p), i, b).pos[i] = p
         /\ cell_seq_add(pos_set(t, i, p), i, b).seq[i] = {b}
<1> DEFINE r == reset(n)
           q == [j \in 0..n-1 |-> p]
           src == With(r, q, r.shift, r.seq, r.used, r.seq_pos)
<1>1. r \in Tables(n) /\ t \in Tables(n)
  BY ResetGood DEF GoodTables
<1>2. q \in [0..n-1 -> Int] /\ q[i] = p /\ r.shift[i] = 0
  BY DEF reset
<1> HIDE DEF r, q
<1>3. src \in Tables(n) /\ src.pos[i] = p /\ src.shift[i] = 0
  BY <1>1, <1>2 DEF With, Tables
<1> HIDE DEF src
<1>4. CopyCell(t, src, i, b) = cell_seq_add(pos_set(t, i, p), i, b)
  <2>1. p - 0 = p
    OBVIOUS
  <2> QED
    BY <1>3, <2>1 DEF CopyCell
<1>5. /\ CopyCell(t, src, i, b) \in GoodTables(n)
      /\ CopyCell(t, src, i, b).pos[i] = p /\ CopyCell(t, src, i, b).seq[i] = {b}
  BY <1>1, <1>3, CopyGood
<1> QED
  BY <1>4, <1>5

\* An empty cell is given its position and all its owners (apply_ubatch).
LEMMA TakeFold ==
  ASSUME NEW n \in Nat, NEW t \in GoodTables(n), NEW i \in 0..n-1, NEW p \in Nat,
         NEW Q \in SUBSET Seqs, Q # {}, t.pos[i] = -1
  PROVE  FoldSet(LAMBDA s, u : cell_seq_add(u, i, s), pos_set(t, i, p), Q) \in GoodTables(n)
<1> DEFINE b == pos_set(t, i, p)
           Step(g, T) == cell_seq_add(g[T \ {Chosen(T)}], i, Chosen(T))
           h == CHOOSE g : g = [T \in SUBSET Q |-> IF T = {} THEN b ELSE Step(g, T)]
           F == [e \in Q \X Tables(n) |-> cell_seq_add(e[2], i, e[1])]
<1>1. FoldSet(LAMBDA s, u : cell_seq_add(u, i, s), b, Q) = h[Q]
  BY DEF FoldSet, MapThenFoldSet, Chosen
<1>2. IsFiniteSet(Q) /\ b \in Tables(n)
  <2>1. t \in Tables(n)
    BY DEF GoodTables
  <2>2. IsFiniteSet(Q)
    BY KvAssumption, FS_Subset
  <2>3. p \in Int
    OBVIOUS
  <2>4. b \in Tables(n)
    BY <2>1, <2>3, PosSetFields, Zenon
  <2> QED
    BY <2>2, <2>4
<1>3. \A s \in Q : \A v \in Tables(n) : cell_seq_add(v, i, s) \in Tables(n)
  BY SeqAddGood
<1>4. F \in [Q \X Tables(n) -> Tables(n)]
  BY <1>3
<1> HIDE DEF b
<1>5. PICK g \in [SUBSET Q -> Tables(n)] : Walk(g, Q, b, F)
  <2> HIDE DEF F
  <2> QED
    BY <1>2, <1>4, SetFold
<1>6. ASSUME NEW T \in SUBSET Q, T # {} PROVE g[T] = Step(g, T)
  <2>1. Chosen(T) \in Q /\ T \ {Chosen(T)} \in SUBSET Q
    BY <1>6, ChosenIn
  <2>2. <<Chosen(T), g[T \ {Chosen(T)}]>> \in Q \X Tables(n)
    BY <2>1
  <2> QED
    BY <1>5, <1>6, <2>2 DEF Walk
<1>7. g = [T \in SUBSET Q |-> IF T = {} THEN b ELSE Step(g, T)]
  BY <1>5, <1>6 DEF Walk
<1>8. h = [T \in SUBSET Q |-> IF T = {} THEN b ELSE Step(h, T)]
  BY <1>7
<1> HIDE DEF h
<1> DEFINE Taken(T) == h[T] \in GoodTables(n) /\ h[T].pos[i] = p /\ h[T].seq[i] = T
           G == {T \in SUBSET Q : T # {} => Taken(T)}
<1>9. ASSUME NEW T \in SUBSET Q, T # {}, T \ {Chosen(T)} \in G PROVE T \in G
  <2> DEFINE x == Chosen(T)
             R == T \ {x}
  <2>1. x \in T /\ x \in Seqs
    BY <1>9, ChosenIn
  <2>2. h[T] = cell_seq_add(h[R], i, x)
    BY <1>8, <1>9
  <2>3. T = R \cup {x} /\ x \notin R /\ R \in SUBSET Q
    BY <2>1
  <2>4. R # {} => Taken(R)
    BY <1>9
  <2> HIDE DEF x, R
  <2>5. CASE R = {}
    <3>1. h[R] = b
      BY <1>8, <2>5
    <3>2. h[T] = cell_seq_add(pos_set(t, i, p), i, x) /\ T = {x}
      BY <2>2, <2>3, <2>5, <3>1 DEF b
    <3>3. Taken(T)
      BY <2>1, <3>2, PlacedGood
    <3> QED
      BY <3>3
  <2>6. CASE R # {}
    <3>1. h[R] \in GoodTables(n) /\ h[R] \in Tables(n) /\ h[R].pos[i] = p /\ h[R].seq[i] = R
      BY <2>4, <2>6 DEF GoodTables
    <3>2. /\ h[T] \in GoodTables(n) /\ h[T].pos = h[R].pos
          /\ h[T].seq[i] = R \cup {x}
      <4>1. p # -1
        OBVIOUS
      <4> QED
        BY <2>1, <2>2, <2>3, <3>1, <4>1, SeqAddGood
    <3>3. Taken(T)
      BY <2>3, <3>1, <3>2
    <3> QED
      BY <3>3
  <2> QED
    BY <2>5, <2>6
<1>10. Q \in G
  <2>1. {} \in G
    OBVIOUS
  <2> HIDE DEF G
  <2>2. Growing(G, Q)
    BY <1>9, ChosenIn DEF Growing
  <2> QED
    BY <1>2, <2>1, <2>2, Shrinking
<1>11. h[Q] \in GoodTables(n)
  BY <1>10
<1> QED
  BY <1>1, <1>11, Zenon DEF b

(***************************************************************************)
(* Folds along sequences, and folds whose steps need no more than a good   *)
(* value to make another                                                   *)
(***************************************************************************)

\* The largest and the least number of a finite set.
LEMMA MaxMin ==
  ASSUME NEW S, S \subseteq Int, IsFiniteSet(S), S # {}
  PROVE  /\ Max(S) \in S /\ \A y \in S : y <= Max(S)
         /\ Min(S) \in S /\ \A y \in S : Min(S) <= y
<1> DEFINE Top(T) == \E x \in T : \A y \in T : x >= y
           Low(T) == \E x \in T : \A y \in T : x <= y
           G == {T \in SUBSET S : T # {} => Top(T) /\ Low(T)}
<1>1. ASSUME NEW T \in SUBSET S, NEW x \in T, T \ {x} \in G PROVE T \in G
  <2>1. CASE T \ {x} = {}
    <3>1. T = {x} /\ x \in Int
      BY <2>1
    <3> QED
      BY <3>1
  <2>2. CASE T \ {x} # {}
    <3>1. Top(T \ {x}) /\ Low(T \ {x})
      BY <1>1, <2>2
    <3>2. PICK a \in T \ {x} : \A y \in T \ {x} : a >= y
      BY <3>1
    <3>3. PICK b \in T \ {x} : \A y \in T \ {x} : b <= y
      BY <3>1
    <3>4. T \subseteq Int
      OBVIOUS
    <3>5. Top(T)
      <4>1. CASE a >= x
        BY <3>2, <3>4, <4>1
      <4>2. CASE ~(a >= x)
        BY <3>2, <3>4, <4>2
      <4> QED
        BY <4>1, <4>2
    <3>6. Low(T)
      <4>1. CASE b <= x
        BY <3>3, <3>4, <4>1
      <4>2. CASE ~(b <= x)
        BY <3>3, <3>4, <4>2
      <4> QED
        BY <4>1, <4>2
    <3> QED
      BY <3>5, <3>6
  <2> QED
    BY <2>1, <2>2
<1>2. S \in G
  <2>1. {} \in G
    OBVIOUS
  <2> HIDE DEF G
  <2>2. Growing(G, S)
    BY <1>1 DEF Growing
  <2> QED
    BY <2>1, <2>2, Shrinking
<1>3. Max(S) \in S /\ \A y \in S : Max(S) >= y
  BY <1>2 DEF Max
<1>4. Min(S) \in S /\ \A y \in S : Min(S) <= y
  BY <1>2 DEF Min
<1> QED
  BY <1>3, <1>4

\* Those of two numbers.
LEMMA MaxMinOfTwo ==
  ASSUME NEW a \in Int, NEW b \in Int
  PROVE  Max({a, b}) \in Int /\ Min({a, b}) \in {a, b}
<1>1. IsFiniteSet({a, b})
  <2>1. IsFiniteSet({a})
    BY FS_Singleton
  <2>2. IsFiniteSet({a} \cup {b})
    BY <2>1, FS_AddElement
  <2>3. {a} \cup {b} = {a, b}
    OBVIOUS
  <2> QED
    BY <2>2, <2>3
<1>2. {a, b} \subseteq Int /\ {a, b} # {}
  OBVIOUS
<1> QED
  BY <1>1, <1>2, MaxMin

\* The places of a sequence of length m.
Places(S) == \E m \in Nat : S = 1..m

\* The element a fold along a sequence takes out first is the last one.
LEMMA LastIn ==
  ASSUME NEW S, Places(S), NEW T \in SUBSET S, T # {}
  PROVE  Max(T) \in T /\ Max(T) \in S /\ T \ {Max(T)} \in SUBSET S
<1>1. PICK m \in Nat : S = 1..m
  BY DEF Places
<1>2. IsFiniteSet(T)
  <2>1. 1 \in Int /\ m \in Int
    OBVIOUS
  <2>2. IsFiniteSet(1..m)
    BY <2>1, FS_Interval
  <2> QED
    BY <1>1, <2>2, FS_Subset
<1>3. T \subseteq Int
  BY <1>1
<1> QED
  BY <1>2, <1>3, MaxMin

SeqWalk(g, S, base, F) ==
    \A T \in SUBSET S : g[T] = IF T = {} THEN base ELSE F[<<Max(T), g[T \ {Max(T)}]>>]

\* A fold along a sequence whose steps stay in V exists.
LEMMA SeqFold ==
  ASSUME NEW S, Places(S), NEW V, NEW base \in V, NEW F \in [S \X V -> V]
  PROVE  \E g \in [SUBSET S -> V] : SeqWalk(g, S, base, F)
<1> DEFINE ch == [T \in SUBSET S |-> Max(T)]
<1>1. \A T \in SUBSET S : ch[T] = Max(T)
  OBVIOUS
<1>2. Choice(ch, S)
  BY <1>1, LastIn DEF Choice
<1> HIDE DEF ch
<1>3. IsFiniteSet(S)
  BY FS_Interval DEF Places
<1>4. PICK g \in [SUBSET S -> V] : Solution(g, S, base, F, ch)
  BY <1>2, <1>3, Recursion
<1>5. SeqWalk(g, S, base, F)
  BY <1>1, <1>4 DEF Solution, SeqWalk
<1> QED
  BY <1>5

\* Folds whose steps stay in V end in V.
LEMMA FoldIn ==
  ASSUME NEW S, IsFiniteSet(S), NEW V, NEW h, h[{}] \in V,
         \A T \in SUBSET S : T # {} /\ h[T \ {Chosen(T)}] \in V => h[T] \in V
  PROVE  h[S] \in V
<1> DEFINE G == {T \in SUBSET S : h[T] \in V}
<1>1. {} \in G /\ \A T \in SUBSET S : T # {} /\ T \ {Chosen(T)} \in G => T \in G
  OBVIOUS
<1>2. S \in G
  <2> HIDE DEF G
  <2>1. Growing(G, S)
    BY <1>1, ChosenIn DEF Growing
  <2> QED
    BY <1>1, <2>1, Shrinking
<1> QED
  BY <1>2

LEMMA SeqFoldIn ==
  ASSUME NEW S, Places(S), NEW V, NEW h, h[{}] \in V,
         \A T \in SUBSET S : T # {} /\ h[T \ {Max(T)}] \in V => h[T] \in V
  PROVE  h[S] \in V
<1> DEFINE G == {T \in SUBSET S : h[T] \in V}
<1>1. {} \in G /\ \A T \in SUBSET S : T # {} /\ T \ {Max(T)} \in G => T \in G
  OBVIOUS
<1>2. IsFiniteSet(S)
  BY FS_Interval DEF Places
<1>3. S \in G
  <2> HIDE DEF G
  <2>1. Growing(G, S)
    BY <1>1, LastIn DEF Growing
  <2> QED
    BY <1>1, <1>2, <2>1, Shrinking
<1> QED
  BY <1>3

\* Saved cells are put back (set).
LEMMA SetFoldGood ==
  ASSUME NEW n \in Nat, NEW t \in GoodTables(n), NEW m \in Nat, NEW idxs \in [1..m -> 0..n-1],
         NEW saved \in [1..m -> SavedCells]
  PROVE  set(t, idxs, saved) \in GoodTables(n)
<1> DEFINE dom == [j \in DOMAIN idxs |-> j]
           S == DOMAIN dom
           V == GoodTables(n)
           Step(g, T) == SetCell(g[T \ {Max(T)}], idxs[dom[Max(T)]], saved[dom[Max(T)]])
           h == CHOOSE g : g = [T \in SUBSET S |-> IF T = {} THEN t ELSE Step(g, T)]
           F == [e \in S \X V |-> SetCell(e[2], idxs[dom[e[1]]], saved[dom[e[1]]])]
<1>1. set(t, idxs, saved) = h[S]
  BY DEF FoldLeftDomain, FoldLeft, MapThenFoldSet, set
<1>2. Places(S) /\ t \in V
  BY DEF Places
<1>3. ASSUME NEW x \in S, NEW v \in V PROVE SetCell(v, idxs[dom[x]], saved[dom[x]]) \in V
  BY SetGood
<1>4. F \in [S \X V -> V]
  BY <1>3
<1> HIDE DEF S, V
<1>5. PICK g \in [SUBSET S -> V] : SeqWalk(g, S, t, F)
  <2> HIDE DEF F
  <2> QED
    BY <1>2, <1>4, SeqFold
<1>6. ASSUME NEW T \in SUBSET S, T # {} PROVE g[T] = Step(g, T)
  <2>1. Max(T) \in S /\ T \ {Max(T)} \in SUBSET S
    BY <1>2, <1>6, LastIn
  <2>2. <<Max(T), g[T \ {Max(T)}]>> \in S \X V
    BY <2>1
  <2> QED
    BY <1>5, <1>6, <2>2 DEF SeqWalk
<1>7. g = [T \in SUBSET S |-> IF T = {} THEN t ELSE Step(g, T)]
  BY <1>5, <1>6 DEF SeqWalk
<1>8. h = [T \in SUBSET S |-> IF T = {} THEN t ELSE Step(h, T)]
  BY <1>7
<1> HIDE DEF h
<1>9. ASSUME NEW T \in SUBSET S, T # {}, h[T \ {Max(T)}] \in V PROVE h[T] \in V
  <2>1. Max(T) \in S
    BY <1>2, <1>9, LastIn
  <2>2. h[T] = Step(h, T)
    BY <1>8, <1>9
  <2> QED
    BY <1>3, <1>9, <2>1, <2>2
<1>10. h[S] \in V
  <2>1. h[{}] \in V
    BY <1>2, <1>8
  <2> QED
    BY <1>2, <1>9, <2>1, SeqFoldIn
<1> QED
  BY <1>1, <1>10, Zenon DEF V

(***************************************************************************)
(* The memory operations of one cache                                      *)
(***************************************************************************)

\* The caches of n cells per stream with exact tables and the queued copies x
\* and the rows y.
GoodCaches(n, x, y) ==
    [cells : [Streams -> GoodTables(n)], heads : [Streams -> Int], sc_info : {x}, data : {y}]

GoodCache(k, n) == k \in GoodCaches(n, k.sc_info, k.data)

\* A sequence's stream.
LEMMA StreamOf ==
  ASSUME NEW s \in Seqs PROVE seq_to_stream(s) \in Streams
  BY DEF seq_to_stream, Streams

\* Another table and another head for one stream.
LEMMA StreamChange ==
  ASSUME NEW n \in Nat, NEW x, NEW y, NEW k \in GoodCaches(n, x, y), NEW st \in Streams,
         NEW t \in GoodTables(n), NEW h \in Int
  PROVE  /\ [k EXCEPT !.cells[st] = t, !.heads[st] = h] \in GoodCaches(n, x, y)
         /\ [k EXCEPT !.cells[st] = t] \in GoodCaches(n, x, y)
<1> DEFINE a == [k.cells EXCEPT ![st] = t]
           b == [k.heads EXCEPT ![st] = h]
<1>1. a \in [Streams -> GoodTables(n)] /\ b \in [Streams -> Int]
  BY DEF GoodCaches
<1>2. /\ [k EXCEPT !.cells[st] = t, !.heads[st] = h] = [k EXCEPT !.cells = a, !.heads = b]
      /\ [k EXCEPT !.cells[st] = t] = [k EXCEPT !.cells = a]
  BY DEF GoodCaches
<1> HIDE DEF a, b
<1>3. /\ [k EXCEPT !.cells = a, !.heads = b] \in GoodCaches(n, x, y)
      /\ [k EXCEPT !.cells = a] \in GoodCaches(n, x, y)
  BY <1>1 DEF GoodCaches
<1> QED
  BY <1>2, <1>3

\* Another table for one stream.
LEMMA TableChange ==
  ASSUME NEW n \in Nat, NEW x, NEW y, NEW k \in GoodCaches(n, x, y), NEW st \in Streams,
         NEW t \in GoodTables(n)
  PROVE  [k EXCEPT !.cells[st] = t] \in GoodCaches(n, x, y)
<1>1. 0 \in Int
  OBVIOUS
<1> QED
  BY <1>1, StreamChange

\* The head after cells were freed.
LEMMA HeadLowered ==
  ASSUME NEW n \in Nat, NEW freed \in SUBSET (0..n-1), NEW h \in Int
  PROVE  LowerHead(h, freed) \in Int /\ (freed # {} => Min(freed) \in Int)
<1>1. IsFiniteSet(freed) /\ freed \subseteq Int
  BY FiniteCells
<1>2. freed # {} => Min(freed) \in Int
  BY <1>1, MaxMin
<1> QED
  BY <1>2 DEF LowerHead

\* The cells of s in a range have a position and s among their owners.
LEMMA OwnedCells ==
  ASSUME NEW n \in Nat, NEW t \in GoodTables(n), NEW s, NEW p0, NEW p1
  PROVE  /\ Owned(t, s, p0, p1) \in SUBSET (0..n-1)
         /\ \A i \in Owned(t, s, p0, p1) : s \in t.seq[i] /\ t.pos[i] # -1 /\ t.pos[i] >= 0
<1>1. Cells(t) = 0..n-1
  BY CellsOf DEF GoodTables
<1>2. ASSUME NEW i \in 0..n-1, s \in t.seq[i] PROVE t.pos[i] # -1 /\ t.pos[i] >= 0
  BY <1>2, CellFacts
<1> QED
  BY <1>1, <1>2 DEF Owned

\* What seq_rm of one sequence makes of a cache.
LEMMA RmCache ==
  ASSUME NEW n \in Nat, NEW x, NEW y, NEW k \in GoodCaches(n, x, y), NEW s \in Seqs, NEW p0, NEW p1
  PROVE  seq_rm(k, s, p0, p1) \in GoodCaches(n, x, y)
<1> DEFINE st == seq_to_stream(s)
           t == k.cells[st]
           hit == Owned(t, s, p0, p1)
           u == FoldSet(LAMBDA i, v : cell_seq_rm(v, i, s), t, hit)
           freed == {i \in hit : t.seq[i] = {s}}
           h == LowerHead(k.heads[st], freed)
<1>1. seq_rm(k, s, p0, p1) = [k EXCEPT !.cells[st] = u, !.heads[st] = h]
  BY DEF seq_rm
<1>2. st \in Streams
  BY StreamOf
<1>3. t \in GoodTables(n) /\ k.heads[st] \in Int
  BY <1>2 DEF GoodCaches
<1> HIDE DEF st, t
<1>4. hit \in SUBSET (0..n-1) /\ \A i \in hit : s \in t.seq[i]
  BY <1>3, OwnedCells
<1> HIDE DEF hit
<1>5. u \in GoodTables(n)
  BY <1>3, <1>4, RmFold
<1>6. h \in Int
  BY <1>3, <1>4, HeadLowered
<1> HIDE DEF u, h
<1>7. [k EXCEPT !.cells[st] = u, !.heads[st] = h] \in GoodCaches(n, x, y)
  BY <1>2, <1>5, <1>6, StreamChange
<1> QED
  BY <1>1, <1>7, Zenon

\* What seq_rm of any sequence makes of a cache.
LEMMA RmAnyCache ==
  ASSUME NEW n \in Nat, NEW x, NEW y, NEW k \in GoodCaches(n, x, y), NEW p0, NEW p1
  PROVE  seq_rm_any(k, p0, p1) \in GoodCaches(n, x, y)
<1> DEFINE hit(st) == {i \in Cells(k.cells[st]) : pos_in(k.cells[st], i, p0, p1)}
           C == [st \in Streams |-> FoldSet(LAMBDA i, u : rm(u, i), k.cells[st], hit(st))]
           H == [st \in Streams |-> LowerHead(k.heads[st], hit(st))]
<1>1. seq_rm_any(k, p0, p1) = [k EXCEPT !.cells = C, !.heads = H]
  BY DEF seq_rm_any
<1>2. ASSUME NEW st \in Streams
      PROVE  /\ FoldSet(LAMBDA i, u : rm(u, i), k.cells[st], hit(st)) \in GoodTables(n)
             /\ LowerHead(k.heads[st], hit(st)) \in Int
  <2> DEFINE t == k.cells[st]
             T == hit(st)
  <2>1. t \in GoodTables(n) /\ k.heads[st] \in Int
    BY <1>2 DEF GoodCaches
  <2>2. T \in SUBSET (0..n-1)
    BY <2>1, CellsOf DEF GoodTables
  <2> HIDE DEF t, T
  <2>3. FoldSet(LAMBDA i, u : rm(u, i), t, T) \in GoodTables(n)
    BY <2>1, <2>2, RmAnyFold
  <2>4. LowerHead(k.heads[st], T) \in Int
    BY <2>1, <2>2, HeadLowered
  <2> QED
    BY <2>3, <2>4, Zenon DEF t, T
<1>3. C \in [Streams -> GoodTables(n)] /\ H \in [Streams -> Int]
  BY <1>2, Zenon
<1> HIDE DEF C, H
<1>4. [k EXCEPT !.cells = C, !.heads = H] \in GoodCaches(n, x, y)
  BY <1>3 DEF GoodCaches
<1> QED
  BY <1>1, <1>4, Zenon

\* What seq_keep makes of a cache.
LEMMA KeepCache ==
  ASSUME NEW n \in Nat, NEW x, NEW y, NEW k \in GoodCaches(n, x, y), NEW s \in Seqs
  PROVE  seq_keep(k, s) \in GoodCaches(n, x, y)
<1> DEFINE st == seq_to_stream(s)
           t == k.cells[st]
           hit == Cells(t)
           u == FoldSet(LAMBDA i, v : cell_seq_keep(v, i, s), t, hit)
           freed == {i \in t.used : s \notin t.seq[i]}
           h == LowerHead(k.heads[st], freed)
<1>1. seq_keep(k, s) = [k EXCEPT !.cells[st] = u, !.heads[st] = h]
  BY DEF seq_keep
<1>2. st \in Streams
  BY StreamOf
<1>3. t \in GoodTables(n) /\ k.heads[st] \in Int
  BY <1>2 DEF GoodCaches
<1> HIDE DEF st, t
<1>4. hit \in SUBSET (0..n-1) /\ freed \in SUBSET (0..n-1)
  BY <1>3, CellsOf, FieldTypes DEF GoodTables
<1> HIDE DEF hit, freed
<1>5. u \in GoodTables(n)
  BY <1>3, <1>4, KeepFold
<1>6. h \in Int
  BY <1>3, <1>4, HeadLowered
<1> HIDE DEF u, h
<1>7. [k EXCEPT !.cells[st] = u, !.heads[st] = h] \in GoodCaches(n, x, y)
  BY <1>2, <1>5, <1>6, StreamChange
<1> QED
  BY <1>1, <1>7, Zenon

\* What seq_add makes of a cache.
LEMMA AddCache ==
  ASSUME NEW n \in Nat, NEW x, NEW y, NEW k \in GoodCaches(n, x, y), NEW s \in Seqs,
         NEW p0, NEW p1, NEW d \in Int
  PROVE  seq_add(k, s, p0, p1, d) \in GoodCaches(n, x, y)
<1> DEFINE st == seq_to_stream(s)
           t == k.cells[st]
           hit == Owned(t, s, p0, p1)
           u == FoldSet(LAMBDA i, v : pos_add(v, i, d), t, hit)
           freed == {i \in hit : t.pos[i] + d < 0}
           h == IF freed # {} THEN Min(freed) ELSE 0
<1>1. seq_add(k, s, p0, p1, d) = IF d = 0 \/ p0 = p1 THEN k
                                 ELSE [k EXCEPT !.cells[st] = u, !.heads[st] = h]
  BY DEF seq_add
<1>2. st \in Streams
  BY StreamOf
<1>3. t \in GoodTables(n) /\ k.heads[st] \in Int
  BY <1>2 DEF GoodCaches
<1> HIDE DEF st, t
<1>4. hit \in SUBSET (0..n-1) /\ \A i \in hit : t.pos[i] # -1
  BY <1>3, OwnedCells
<1> HIDE DEF hit
<1>5. u \in GoodTables(n)
  BY <1>3, <1>4, MoveFold
<1>6. h \in Int
  <2>1. freed \in SUBSET (0..n-1)
    BY <1>4, Zenon
  <2> HIDE DEF freed
  <2>2. freed # {} => Min(freed) \in Int
    <3>1. 0 \in Int
      OBVIOUS
    <3> QED
      BY <2>1, <3>1, HeadLowered
  <2> QED
    BY <2>2
<1> HIDE DEF u, h
<1>7. [k EXCEPT !.cells[st] = u, !.heads[st] = h] \in GoodCaches(n, x, y)
  BY <1>2, <1>5, <1>6, StreamChange
<1> QED
  BY <1>1, <1>7, Zenon

\* What seq_div makes of a cache.
LEMMA DivCache ==
  ASSUME NEW n \in Nat, NEW x, NEW y, NEW k \in GoodCaches(n, x, y), NEW s \in Seqs,
         NEW p0, NEW p1, NEW d \in Nat \ {0}
  PROVE  seq_div(k, s, p0, p1, d) \in GoodCaches(n, x, y)
<1> DEFINE st == seq_to_stream(s)
           t == k.cells[st]
           hit == Owned(t, s, p0, p1)
           u == FoldSet(LAMBDA i, v : pos_div(v, i, d), t, hit)
<1>1. seq_div(k, s, p0, p1, d) = IF d = 1 \/ p0 = p1 THEN k ELSE [k EXCEPT !.cells[st] = u]
  BY DEF seq_div
<1>2. st \in Streams
  BY StreamOf
<1>3. t \in GoodTables(n)
  BY <1>2 DEF GoodCaches
<1> HIDE DEF st, t
<1>4. hit \in SUBSET (0..n-1) /\ \A i \in hit : t.pos[i] # -1
  BY <1>3, OwnedCells
<1> HIDE DEF hit
<1>5. u \in GoodTables(n)
  BY <1>3, <1>4, DivFold
<1> HIDE DEF u
<1>6. [k EXCEPT !.cells[st] = u] \in GoodCaches(n, x, y)
  BY <1>2, <1>5, TableChange
<1> QED
  BY <1>1, <1>6, Zenon

\* A cache is good whatever is queued and whatever its rows hold.
LEMMA GoodIs ==
  ASSUME NEW n, NEW x, NEW y, NEW k \in GoodCaches(n, x, y)
  PROVE  GoodCache(k, n) /\ k.sc_info = x /\ k.data = y
  BY DEF GoodCaches, GoodCache

LEMMA RowsChange ==
  ASSUME NEW n, NEW k, GoodCache(k, n), NEW x, NEW y
  PROVE  /\ GoodCache([k EXCEPT !.data = y], n)
         /\ GoodCache([k EXCEPT !.data = y, !.sc_info = x], n)
         /\ GoodCache([k EXCEPT !.sc_info = x], n)
  BY DEF GoodCaches, GoodCache

\* No cell of the cache is owned by b.
NoCell(k, b) == \A st \in Streams : \A i \in Cells(k.cells[st]) : b \notin k.cells[st].seq[i]

\* What seq_cp makes of a cache: in the shared stream, if b owns no cell yet.
LEMMA CpCache ==
  ASSUME NEW n \in Nat, NEW k, GoodCache(k, n), NEW a \in Seqs, NEW b \in Seqs, a # b,
         cfg.unified => NoCell(k, b)
  PROVE  GoodCache(seq_cp(k, a, b), n)
<1> DEFINE s0 == seq_to_stream(a)
           s1 == seq_to_stream(b)
           t == k.cells[s0]
           hit == Owned(t, a, 0, PosMax)
<1>1. s0 \in Streams /\ s1 \in Streams /\ (s0 = s1 => cfg.unified)
  BY StreamOf DEF seq_to_stream
<1>2. t \in GoodTables(n) /\ k.heads[s0] \in Int /\ k \in GoodCaches(n, k.sc_info, k.data)
  BY <1>1 DEF GoodCache, GoodCaches
<1>3. hit \in SUBSET (0..n-1) /\ \A i \in hit : t.pos[i] # -1 /\ t.pos[i] >= 0
  BY <1>2, OwnedCells
<1>4. CASE s0 = s1
  <2> DEFINE u == FoldSet(LAMBDA i, v : cell_seq_add(v, i, b), t, hit)
  <2>1. seq_cp(k, a, b) = [k EXCEPT !.cells[s0] = u]
    BY <1>4 DEF seq_cp, seq_cp_shared
  <2>2. \A i \in hit : b \notin t.seq[i]
    BY <1>1, <1>2, <1>3, <1>4, CellsOf DEF NoCell, GoodTables
  <2> HIDE DEF s0, t, hit
  <2>3. u \in GoodTables(n)
    BY <1>2, <1>3, <2>2, AddFold
  <2> HIDE DEF u
  <2>4. [k EXCEPT !.cells[s0] = u] \in GoodCaches(n, k.sc_info, k.data)
    BY <1>1, <1>2, <2>3, TableChange
  <2>5. GoodCache([k EXCEPT !.cells[s0] = u], n)
    BY <2>4, GoodIs
  <2> QED
    BY <2>1, <2>5, Zenon
<1>5. CASE s0 # s1
  <2> DEFINE m == Cardinality(Cells(t))
             u == FoldSet(LAMBDA i, v : CopyCell(v, t, i, b), reset(m), hit)
             q == Append(k.sc_info, <<s0, s1>>)
             h == k.heads[s0]
             j == [k EXCEPT !.cells[s1] = u, !.heads[s1] = h]
  <2>1. seq_cp(k, a, b) = [k EXCEPT !.sc_info = q, !.cells[s1] = u, !.heads[s1] = h]
    BY <1>5 DEF seq_cp, seq_cp_stream
  <2> HIDE DEF s0, s1, t, hit
  <2>2. m = n
    <3>1. Cells(t) = 0..n-1
      BY <1>2, CellsOf DEF GoodTables
    <3>2. 0 \in Int /\ n - 1 \in Int /\ n - 1 - 0 + 1 = n /\ (0 > n - 1 => n = 0)
      OBVIOUS
    <3>3. Cardinality(0..n-1) = IF 0 > n - 1 THEN 0 ELSE n - 1 - 0 + 1
      BY <3>2, FS_Interval
    <3> QED
      BY <3>1, <3>2, <3>3
  <2>3. reset(m) \in GoodTables(n) /\ \A i \in 0..n-1 : reset(m).pos[i] = -1
    <3>1. \A i \in 0..n-1 : reset(n).pos[i] = -1
      BY DEF reset
    <3> QED
      BY <2>2, <3>1, ResetGood
  <2>4. t \in Tables(n)
    BY <1>2 DEF GoodTables
  <2>5. u \in GoodTables(n)
    <3> DEFINE r == reset(m)
    <3>1. r \in GoodTables(n) /\ \A i \in hit : r.pos[i] = -1 /\ t.pos[i] >= 0
      BY <1>3, <2>3
    <3> HIDE DEF r
    <3>2. FoldSet(LAMBDA i, v : CopyCell(v, t, i, b), r, hit) \in GoodTables(n)
      BY <1>3, <2>4, <3>1, CopyFold
    <3> QED
      BY <3>2, Zenon DEF r
  <2> HIDE DEF u, h, q
  <2>6. j \in GoodCaches(n, k.sc_info, k.data)
    BY <1>1, <1>2, <2>5, StreamChange DEF h
  <2>7. [k EXCEPT !.sc_info = q, !.cells[s1] = u, !.heads[s1] = h] = [j EXCEPT !.sc_info = q]
    BY <1>1, <1>2 DEF GoodCaches
  <2> HIDE DEF j
  <2>8. GoodCache([j EXCEPT !.sc_info = q], n)
    <3>1. GoodCache(j, n)
      BY <2>6, GoodIs
    <3> QED
      BY <3>1, RowsChange
  <2> QED
    BY <2>1, <2>7, <2>8, Zenon
<1> QED
  BY <1>4, <1>5

\* A fresh cache, and one that clear leaves behind.
LEMMA NewIsGood ==
  ASSUME NEW c, Size(c) \in Nat, NEW k
  PROVE  GoodCache(NewCache(c), Size(c)) /\ GoodCache(clear(c, k), Size(c))
<1> DEFINE C == [st \in Streams |-> reset(Size(c))]
           H == [st \in Streams |-> 0]
           D == [st \in Streams |-> [i \in 0..Size(c)-1 |-> Stale]]
<1>1. NewCache(c) = [cells |-> C, heads |-> H, sc_info |-> <<>>, data |-> D]
  BY DEF NewCache
<1>2. C \in [Streams -> GoodTables(Size(c))] /\ H \in [Streams -> Int]
  BY ResetGood
<1> HIDE DEF C, H, D
<1>3. GoodCache(NewCache(c), Size(c))
  BY <1>1, <1>2 DEF GoodCache, GoodCaches
<1>4. GoodCache(clear(c, k), Size(c))
  BY <1>3, RowsChange DEF clear
<1> QED
  BY <1>3, <1>4

\* update() and the dropping of rows nobody owns.
LEMMA UpdateCache ==
  ASSUME NEW n \in Nat, NEW k, GoodCache(k, n), NEW works
  PROVE  GoodCache(update(k, works), n) /\ GoodCache(Tidy(k), n)
<1>1. GoodCache(Tidy(k), n)
  BY RowsChange DEF Tidy
<1> DEFINE j == CopyStreams(k)
<1>2. GoodCache(j, n)
  <2> DEFINE D == FoldLeft(LAMBDA d, e : [d EXCEPT ![e[2]] = d[e[1]]], k.data, k.sc_info)
  <2>1. j = [k EXCEPT !.data = D, !.sc_info = <<>>]
    BY DEF CopyStreams
  <2> HIDE DEF D, j
  <2> QED
    BY <2>1, RowsChange
<1> HIDE DEF j
<1>3. GoodCache(ShiftK(j), n)
  <2> DEFINE C == [st \in Streams |-> reset_shift(j.cells[st])]
             D == [st \in Streams |-> [i \in DOMAIN j.data[st] |->
                        [j.data[st][i] EXCEPT !.rot = @ + j.cells[st].shift[i]]]]
  <2>1. ShiftK(j) = [j EXCEPT !.data = D, !.cells = C]
    BY DEF ShiftK
  <2>2. j.cells \in [Streams -> GoodTables(n)]
    BY <1>2 DEF GoodCache, GoodCaches
  <2>3. C \in [Streams -> GoodTables(n)]
    BY <2>2, ResetShiftGood
  <2> HIDE DEF C, D
  <2> QED
    BY <1>2, <2>1, <2>3 DEF GoodCache, GoodCaches
<1> QED
  BY <1>1, <1>2, <1>3 DEF update, j

(***************************************************************************)
(* apply_ubatch                                                            *)
(***************************************************************************)

\* A token has a position and belongs to some sequences.
GoodToken(e) == e.pos \in Nat /\ e.seqs \in SUBSET Seqs /\ e.seqs # {}

GoodTokens(q) == Places(DOMAIN q) /\ \A i \in DOMAIN q : GoodToken(q[i])

\* The slots of an ubatch are cells of the cache.
Fits(sinfo, ub, n) ==
    /\ GoodTokens(ub)
    /\ \A i \in DOMAIN ub : StrmOf(sinfo, i) \in Streams /\ IdxOf(sinfo, i) \in 0..n-1
    /\ \A j \in DOMAIN sinfo : Last(sinfo[j].idxs) \in Int

\* A cache in the middle of apply_ubatch, and the positions overwritten so far.
Placing(n, x, y) == [k : GoodCaches(n, x, y), gone : [Seqs -> Int]]

\* One token is placed, over the cell's content if there is any.
LEMMA PlaceGood ==
  ASSUME NEW n \in Nat, NEW x, NEW y, NEW a \in Placing(n, x, y), NEW st \in Streams,
         NEW i \in 0..n-1, NEW token, GoodToken(token)
  PROVE  Place(a, st, i, token) \in Placing(n, x, y)
<1> DEFINE t == a.k.cells[st]
           owner == CHOOSE s \in Seqs : t.seq[i] = {s}
           gone == IF is_empty(t, i) THEN a.gone
                   ELSE [a.gone EXCEPT ![owner] = Max({@, t.pos[i]})]
           freed == IF is_empty(t, i) THEN t ELSE rm(t, i)
           Q == token.seqs
           p == token.pos
           taken == FoldSet(LAMBDA s, u : cell_seq_add(u, i, s), pos_set(freed, i, p), Q)
           j == [a.k EXCEPT !.cells[st] = taken]
<1>1. Place(a, st, i, token) = [k |-> j, gone |-> gone]
  BY DEF Place
<1>2. a.k \in GoodCaches(n, x, y) /\ a.gone \in [Seqs -> Int]
  BY DEF Placing
<1>3. t \in GoodTables(n)
  BY <1>2 DEF GoodCaches
<1>4. Q \in SUBSET Seqs /\ Q # {} /\ p \in Nat
  BY DEF GoodToken
<1> HIDE DEF t, Q, p
<1>5. t.pos[i] \in Int /\ t \in Tables(n)
  BY <1>3, CellFacts
<1>6. gone \in [Seqs -> Int]
  <2>1. ASSUME NEW v \in Int PROVE Max({v, t.pos[i]}) \in Int
    BY <1>5, MaxMinOfTwo
  <2> HIDE DEF owner
  <2> QED
    BY <1>2, <2>1
<1>7. freed \in GoodTables(n) /\ freed.pos[i] = -1
  BY <1>3, <1>5, RmGood DEF is_empty
<1> HIDE DEF freed, gone
<1>8. taken \in GoodTables(n)
  BY <1>4, <1>7, TakeFold
<1> HIDE DEF taken
<1>9. j \in GoodCaches(n, x, y)
  BY <1>2, <1>8, TableChange
<1> HIDE DEF j
<1>10. [k |-> j, gone |-> gone] \in Placing(n, x, y)
  BY <1>6, <1>9 DEF Placing
<1> QED
  BY <1>1, <1>10, Zenon

\* The two passes of apply_ubatch.
Placed(base, sinfo, ub) ==
    FoldLeftDomain(LAMBDA a, i : Place(a, StrmOf(sinfo, i), IdxOf(sinfo, i), ub[i]), base, ub)

Purged(k, gone) == FoldSet(LAMBDA s, u : Purge(u, s, gone[s]), k, Seqs)

\* All tokens of an ubatch are placed.
LEMMA PlaceFold ==
  ASSUME NEW n \in Nat, NEW x, NEW y, NEW base \in Placing(n, x, y), NEW sinfo, NEW ub,
         Fits(sinfo, ub, n)
  PROVE  Placed(base, sinfo, ub) \in Placing(n, x, y)
<1> DEFINE dom == [i \in DOMAIN ub |-> i]
           S == DOMAIN dom
           V == Placing(n, x, y)
           Step(g, T) == Place(g[T \ {Max(T)}], StrmOf(sinfo, dom[Max(T)]), IdxOf(sinfo, dom[Max(T)]), ub[dom[Max(T)]])
           h == CHOOSE g : g = [T \in SUBSET S |-> IF T = {} THEN base ELSE Step(g, T)]
           F == [e \in S \X V |-> Place(e[2], StrmOf(sinfo, dom[e[1]]), IdxOf(sinfo, dom[e[1]]), ub[dom[e[1]]])]
<1>1. Placed(base, sinfo, ub) = h[S]
  BY DEF FoldLeftDomain, FoldLeft, MapThenFoldSet, Placed
<1>2. Places(S) /\ base \in V
  BY DEF Fits, GoodTokens
<1>3. ASSUME NEW z \in S, NEW v \in V PROVE Place(v, StrmOf(sinfo, dom[z]), IdxOf(sinfo, dom[z]), ub[dom[z]]) \in V
  <2>1. z \in DOMAIN ub /\ dom[z] = z
    OBVIOUS
  <2>2. StrmOf(sinfo, z) \in Streams /\ IdxOf(sinfo, z) \in 0..n-1 /\ GoodToken(ub[z])
    BY <2>1 DEF Fits, GoodTokens
  <2> HIDE DEF dom
  <2> QED
    BY <2>1, <2>2, PlaceGood
<1>4. F \in [S \X V -> V]
  BY <1>3
<1> HIDE DEF S, V
<1>5. PICK g \in [SUBSET S -> V] : SeqWalk(g, S, base, F)
  <2> HIDE DEF F
  <2> QED
    BY <1>2, <1>4, SeqFold
<1>6. ASSUME NEW T \in SUBSET S, T # {} PROVE g[T] = Step(g, T)
  <2>1. Max(T) \in S /\ T \ {Max(T)} \in SUBSET S
    BY <1>2, <1>6, LastIn
  <2>2. <<Max(T), g[T \ {Max(T)}]>> \in S \X V
    BY <2>1
  <2> QED
    BY <1>5, <1>6, <2>2 DEF SeqWalk
<1>7. g = [T \in SUBSET S |-> IF T = {} THEN base ELSE Step(g, T)]
  BY <1>5, <1>6 DEF SeqWalk
<1>8. h = [T \in SUBSET S |-> IF T = {} THEN base ELSE Step(h, T)]
  BY <1>7
<1> HIDE DEF h
<1>9. ASSUME NEW T \in SUBSET S, T # {}, h[T \ {Max(T)}] \in V PROVE h[T] \in V
  <2>1. Max(T) \in S
    BY <1>2, <1>9, LastIn
  <2>2. h[T] = Step(h, T)
    BY <1>8, <1>9
  <2> QED
    BY <1>3, <1>9, <2>1, <2>2
<1>10. h[S] \in V
  <2>1. h[{}] \in V
    BY <1>2, <1>8
  <2> QED
    BY <1>2, <1>9, <2>1, SeqFoldIn
<1> QED
  BY <1>1, <1>10, Zenon DEF V

\* The older positions go with the overwritten ones.
LEMMA PurgeFold ==
  ASSUME NEW n \in Nat, NEW x, NEW y, NEW k \in GoodCaches(n, x, y), NEW gone
  PROVE  Purged(k, gone) \in GoodCaches(n, x, y)
<1> DEFINE S == Seqs
           V == GoodCaches(n, x, y)
           Step(g, T) == Purge(g[T \ {Chosen(T)}], Chosen(T), gone[Chosen(T)])
           h == CHOOSE g : g = [T \in SUBSET S |-> IF T = {} THEN k ELSE Step(g, T)]
           F == [e \in S \X V |-> Purge(e[2], e[1], gone[e[1]])]
<1>1. Purged(k, gone) = h[S]
  BY DEF FoldSet, MapThenFoldSet, Chosen, Purged
<1>2. IsFiniteSet(S) /\ k \in V
  BY KvAssumption
<1>3. ASSUME NEW s \in S, NEW v \in V PROVE Purge(v, s, gone[s]) \in V
  BY RmCache DEF Purge
<1>4. F \in [S \X V -> V]
  BY <1>3
<1> HIDE DEF S, V
<1>5. PICK g \in [SUBSET S -> V] : Walk(g, S, k, F)
  <2> HIDE DEF F
  <2> QED
    BY <1>2, <1>4, SetFold
<1>6. ASSUME NEW T \in SUBSET S, T # {} PROVE g[T] = Step(g, T)
  <2>1. Chosen(T) \in S /\ T \ {Chosen(T)} \in SUBSET S
    BY <1>2, <1>6, ChosenIn
  <2>2. <<Chosen(T), g[T \ {Chosen(T)}]>> \in S \X V
    BY <2>1
  <2> QED
    BY <1>5, <1>6, <2>2 DEF Walk
<1>7. g = [T \in SUBSET S |-> IF T = {} THEN k ELSE Step(g, T)]
  BY <1>5, <1>6 DEF Walk
<1>8. h = [T \in SUBSET S |-> IF T = {} THEN k ELSE Step(h, T)]
  BY <1>7
<1> HIDE DEF h
<1>9. ASSUME NEW T \in SUBSET S, T # {}, h[T \ {Chosen(T)}] \in V PROVE h[T] \in V
  <2>1. Chosen(T) \in S
    BY <1>2, <1>9, ChosenIn
  <2>2. h[T] = Step(h, T)
    BY <1>8, <1>9
  <2> QED
    BY <1>3, <1>9, <2>1, <2>2
<1>10. h[S] \in V
  <2>1. h[{}] \in V
    BY <1>2, <1>8
  <2> QED
    BY <1>2, <1>9, <2>1, FoldIn
<1> QED
  BY <1>1, <1>10, Zenon DEF V

\* What apply_ubatch makes of a cache.
LEMMA ApplyCache ==
  ASSUME NEW n \in Nat, NEW x, NEW y, NEW k \in GoodCaches(n, x, y), NEW sinfo, NEW ub,
         Fits(sinfo, ub, n)
  PROVE  apply_ubatch(k, sinfo, ub) \in GoodCaches(n, x, y)
<1> DEFINE base == [k |-> k, gone |-> [s \in Seqs |-> -1]]
           placed == Placed(base, sinfo, ub)
           purged == Purged(placed.k, placed.gone)
           Own(st) == \E j \in DOMAIN sinfo : sinfo[j].strm = st
           H == [st \in Streams |-> IF Own(st)
                    THEN Last(sinfo[CHOOSE j \in DOMAIN sinfo : sinfo[j].strm = st].idxs) + 1
                    ELSE purged.heads[st]]
<1>1. apply_ubatch(k, sinfo, ub) = [purged EXCEPT !.heads = H]
  BY DEF apply_ubatch, Placed, Purged
<1>2. base \in Placing(n, x, y)
  BY DEF Placing
<1> HIDE DEF base
<1>3. placed \in Placing(n, x, y)
  BY <1>2, PlaceFold
<1> HIDE DEF placed
<1>4. purged \in GoodCaches(n, x, y)
  BY <1>3, PurgeFold DEF Placing
<1> HIDE DEF purged
<1>5. H \in [Streams -> Int]
  <2>1. ASSUME NEW st \in Streams, Own(st)
        PROVE  Last(sinfo[CHOOSE j \in DOMAIN sinfo : sinfo[j].strm = st].idxs) + 1 \in Int
    <3>1. (CHOOSE j \in DOMAIN sinfo : sinfo[j].strm = st) \in DOMAIN sinfo
      BY <2>1
    <3> QED
      BY <3>1 DEF Fits
  <2>2. ASSUME NEW st \in Streams PROVE purged.heads[st] \in Int
    BY <1>4, <2>2 DEF GoodCaches
  <2> QED
    BY <2>1, <2>2
<1> HIDE DEF H
<1>6. [purged EXCEPT !.heads = H] \in GoodCaches(n, x, y)
  BY <1>4, <1>5 DEF GoodCaches
<1> QED
  BY <1>1, <1>6, Zenon

(***************************************************************************)
(* Finding slots                                                           *)
(***************************************************************************)

\* A function on 1..m is a sequence of length m, and the other way round.
LEMMA IsSeq ==
  ASSUME NEW m \in Nat, NEW X, NEW f \in [1..m -> X]
  PROVE  f \in Seq(X) /\ Len(f) = m /\ DOMAIN f = 1..m
  OBVIOUS

LEMMA SeqIs ==
  ASSUME NEW X, NEW q \in Seq(X)
  PROVE  /\ Len(q) \in Nat /\ DOMAIN q = 1..Len(q) /\ q \in [1..Len(q) -> X] /\ Places(DOMAIN q)
         /\ \A i \in DOMAIN q : q[i] \in X
<1>1. Len(q) \in Nat /\ DOMAIN q = 1..Len(q) /\ q \in [1..Len(q) -> X]
  OBVIOUS
<1> QED
  BY <1>1 DEF Places

\* The m-th number of a finite set, and the numbers in order.
LEMMA OrderedIs ==
  ASSUME NEW S, S \subseteq Int, IsFiniteSet(S)
  PROVE  Cardinality(S) \in Nat /\ Ordered(S) \in [1..Cardinality(S) -> S]
<1> DEFINE Rank(T, x) == Cardinality({y \in T : y <= x})
           All(T) == \A m \in 1..Cardinality(T) : \E x \in T : Rank(T, x) = m
           G == {T \in SUBSET S : All(T)}
<1>0. \A T \in SUBSET S : IsFiniteSet(T) /\ Cardinality(T) \in Nat
  BY FS_Subset, FS_CardinalityType
<1>1. ASSUME NEW T \in SUBSET S, T # {}, T \ {Max(T)} \in G PROVE T \in G
  <2> DEFINE x == Max(T)
             R == T \ {x}
  <2>1. x \in T /\ (\A y \in T : y <= x) /\ T \subseteq Int
    BY <1>0, <1>1, MaxMin
  <2> HIDE DEF x
  <2>2. Cardinality(R) = Cardinality(T) - 1
    BY <1>0, <2>1, FS_RemoveElement
  <2>3. {y \in T : y <= x} = T
    BY <2>1
  <2>4. ASSUME NEW w \in R PROVE {y \in T : y <= w} = {y \in R : y <= w}
    BY <2>1, <2>4
  <2>5. All(R)
    BY <1>1 DEF x
  <2>6. ASSUME NEW m \in 1..Cardinality(T) PROVE \E w \in T : Rank(T, w) = m
    <3>1. CASE m = Cardinality(T)
      BY <2>1, <2>3, <3>1
    <3>2. CASE m # Cardinality(T)
      <4>1. m \in 1..Cardinality(R)
        BY <1>0, <2>2, <3>2
      <4>2. PICK w \in R : Rank(R, w) = m
        BY <2>5, <4>1
      <4>3. Rank(T, w) = m
        BY <2>4, <4>2
      <4> QED
        BY <4>3
    <3> QED
      BY <3>1, <3>2
  <2> QED
    BY <2>6
<1>2. S \in G
  <2>1. {} \in G
    BY FS_EmptySet
  <2> HIDE DEF G
  <2>2. Growing(G, S)
    <3>1. \A T \in SUBSET S : T # {} => Max(T) \in T
      BY <1>0, MaxMin
    <3> QED
      BY <1>1, <3>1 DEF Growing
  <2> QED
    BY <2>1, <2>2, Shrinking
<1>3. \A m \in 1..Cardinality(S) : (CHOOSE x \in S : Rank(S, x) = m) \in S
  BY <1>2
<1> QED
  BY <1>0, <1>3 DEF Ordered

\* The elements of a sequence at some of its places.
LEMMA PickedIs ==
  ASSUME NEW X, NEW q \in Seq(X), NEW places \in SUBSET (DOMAIN q)
  PROVE  /\ Picked(q, places) \in Seq(X) /\ Len(Picked(q, places)) = Cardinality(places)
         /\ Cardinality(places) \in Nat /\ IsFiniteSet(places)
         /\ \A m \in 1..Cardinality(places) : \E i \in places : Picked(q, places)[m] = q[i]
<1> DEFINE p == Ordered(places)
           c == Cardinality(places)
<1>1. places \subseteq Int /\ IsFiniteSet(places)
  <2>1. DOMAIN q = 1..Len(q) /\ Len(q) \in Nat
    OBVIOUS
  <2>2. IsFiniteSet(1..Len(q))
    BY <2>1, FS_Interval
  <2> QED
    BY <2>1, <2>2, FS_Subset
<1>2. p \in [1..c -> places] /\ c \in Nat
  BY <1>1, OrderedIs
<1>3. Picked(q, places) = [m \in DOMAIN p |-> q[p[m]]]
  BY DEF Picked
<1> HIDE DEF p, c
<1>4. Picked(q, places) \in [1..c -> X]
  BY <1>2, <1>3, SeqIs
<1>5. \A m \in 1..c : Picked(q, places)[m] = q[p[m]] /\ p[m] \in places
  BY <1>2, <1>3
<1>6. Picked(q, places) \in Seq(X) /\ Len(Picked(q, places)) = c
  BY <1>2, <1>4, IsSeq
<1> QED
  BY <1>1, <1>2, <1>5, <1>6 DEF c

\* The i-th element of m blocks of q.
LEMMA Blocks ==
  ASSUME NEW m \in Nat \ {0}, NEW q \in Nat \ {0}
  PROVE  /\ (m * q) \div m = q /\ m * q \in Nat \ {0}
         /\ \A i \in 1..m*q : (i - 1) \div q + 1 \in 1..m /\ ((i - 1) % q) + 1 \in 1..q
<1>1. m * q \in Nat \ {0} /\ (m * q) \div m = q
  OBVIOUS
<1>2. ASSUME NEW i \in 1..m*q PROVE (i - 1) \div q + 1 \in 1..m /\ ((i - 1) % q) + 1 \in 1..q
  <2> DEFINE d == (i - 1) \div q
  <2>1. i - 1 \in Nat /\ i - 1 < m * q
    BY <1>1
  <2>2. d \in Nat /\ q * d <= i - 1
    BY <2>1
  <2>3. ((i - 1) % q) \in 0..q-1
    BY <2>1
  <2> HIDE DEF d
  <2>4. d < m
    <3> SUFFICES ASSUME d >= m PROVE FALSE
      BY <2>2
    <3>1. q * d >= q * m
      BY <2>2
    <3>2. q * m = m * q
      OBVIOUS
    <3> QED
      BY <2>1, <2>2, <3>1, <3>2
  <2>5. d + 1 \in 1..m
    BY <2>2, <2>4
  <2>6. ((i - 1) % q) + 1 \in 1..q
    BY <2>3
  <2> QED
    BY <2>5, <2>6 DEF d
<1> QED
  BY <1>1, <1>2

Tokens == [seqs : (SUBSET Seqs) \ {{}}, pos : Nat, tok : Seqs]

\* An ubatch; with a stream for each sequence, every sequence has as many
\* tokens of it as any other.
GoodUb(ub) ==
    /\ ub \in Seq(Tokens) /\ Len(ub) > 0
    /\ ~cfg.unified => \E q \in Nat \ {0} : Len(ub) = Cardinality(UbSeqs(ub)) * q

\* The slot_infos of caches with n cells per stream.
Slots(n) == {q \in Seq([strm : Streams, idxs : Seq(0..n-1)]) : \A j \in DOMAIN q : j - 1 \in Streams}

\* The tokens of an ubatch are tokens.
LEMMA UbTokens ==
  ASSUME NEW ub \in Seq(Tokens) PROVE GoodTokens(ub)
<1>1. Places(DOMAIN ub) /\ \A i \in DOMAIN ub : ub[i] \in Tokens
  BY SeqIs
<1> QED
  BY <1>1 DEF GoodTokens, GoodToken, Tokens

\* The sequences of an ubatch.
LEMMA UbSeqsAre ==
  ASSUME NEW ub \in Seq(Tokens)
  PROVE  /\ UbSeqs(ub) \subseteq Seqs /\ UbSeqs(ub) \subseteq Int /\ IsFiniteSet(UbSeqs(ub))
         /\ Cardinality(UbSeqs(ub)) \in 0..Cardinality(Seqs)
         /\ Len(ub) > 0 => UbSeqs(ub) # {} /\ Cardinality(UbSeqs(ub)) # 0
<1>1. \A i \in DOMAIN ub : ub[i].seqs \subseteq Seqs /\ ub[i].seqs # {}
  BY UbTokens DEF GoodTokens, GoodToken
<1>2. UbSeqs(ub) \subseteq Seqs
  BY <1>1 DEF UbSeqs
<1>3. IsFiniteSet(Seqs) /\ Seqs \subseteq Nat
  BY KvAssumption, SeqsAssumption
<1>4. IsFiniteSet(UbSeqs(ub)) /\ Cardinality(UbSeqs(ub)) <= Cardinality(Seqs)
  BY <1>2, <1>3, FS_Subset
<1>5. Cardinality(UbSeqs(ub)) \in Nat /\ Cardinality(Seqs) \in Nat
  BY <1>3, <1>4, FS_CardinalityType
<1>6. ASSUME Len(ub) > 0 PROVE UbSeqs(ub) # {}
  <2>1. 1 \in DOMAIN ub
    BY <1>6, SeqIs
  <2> QED
    BY <1>1, <2>1 DEF UbSeqs
<1>7. UbSeqs(ub) # {} => Cardinality(UbSeqs(ub)) # 0
  BY <1>4, FS_EmptySet
<1>8. UbSeqs(ub) \subseteq Int
  <2>1. Nat \subseteq Int
    OBVIOUS
  <2> QED
    BY <1>2, <1>3, <2>1, Zenon
<1>9. Cardinality(UbSeqs(ub)) \in 0..Cardinality(Seqs)
  BY <1>4, <1>5
<1> QED
  BY <1>2, <1>4, <1>6, <1>7, <1>8, <1>9

\* The scan visits cells of the table.
LEMMA ScanIs ==
  ASSUME NEW n \in Nat \ {0}, NEW t \in GoodTables(n), NEW q \in Nat, NEW head \in Int
  PROVE  ScanFrom(t, q, head) \in Seq(0..n-1)
<1> DEFINE size == Cardinality(Cells(t))
           start == IF head > Cardinality(t.used) + 2*q THEN 0 ELSE head
<1>1. size = n
  <2>1. Cells(t) = 0..n-1
    BY CellsOf DEF GoodTables
  <2>2. 0 \in Int /\ n - 1 \in Int /\ n - 1 - 0 + 1 = n /\ ~(0 > n - 1)
    OBVIOUS
  <2>3. Cardinality(0..n-1) = IF 0 > n - 1 THEN 0 ELSE n - 1 - 0 + 1
    BY <2>2, FS_Interval
  <2> QED
    BY <2>1, <2>2, <2>3
<1>2. start \in Int
  OBVIOUS
<1>3. ScanFrom(t, q, head) = [j \in 1..size |-> (start + j - 1) % size]
  BY DEF ScanFrom
<1> HIDE DEF size, start
<1>4. \A j \in 1..n : (start + j - 1) % n \in 0..n-1
  BY <1>2
<1>5. ScanFrom(t, q, head) \in [1..n -> 0..n-1]
  BY <1>1, <1>3, <1>4
<1> QED
  BY <1>5, IsSeq

\* The slots of sinfo are m blocks of q cells.
LEMMA BlocksFit ==
  ASSUME NEW n \in Nat \ {0}, NEW m \in Nat \ {0}, NEW q \in Nat \ {0}, NEW ub \in Seq(Tokens),
         Len(ub) = m * q, NEW sinfo \in [1..m -> [strm : Streams, idxs : [1..q -> 0..n-1]]]
  PROVE  Fits(sinfo, ub, n)
<1>1. GoodTokens(ub) /\ DOMAIN ub = 1..m*q
  BY UbTokens, SeqIs
<1>2. \A j \in 1..m : /\ sinfo[j].strm \in Streams /\ sinfo[j].idxs \in [1..q -> 0..n-1]
                      /\ Len(sinfo[j].idxs) = q
  BY IsSeq
<1>3. Len(sinfo[1].idxs) = q
  BY <1>2
<1>4. ASSUME NEW i \in DOMAIN ub PROVE StrmOf(sinfo, i) \in Streams /\ IdxOf(sinfo, i) \in 0..n-1
  <2> DEFINE a == (i - 1) \div q + 1
             b == ((i - 1) % q) + 1
  <2>1. a \in 1..m /\ b \in 1..q
    BY <1>1, Blocks
  <2>2. StrmOf(sinfo, i) = sinfo[a].strm /\ IdxOf(sinfo, i) = sinfo[a].idxs[b]
    BY <1>3 DEF StrmOf, IdxOf
  <2> HIDE DEF a, b
  <2>3. sinfo[a].strm \in Streams /\ sinfo[a].idxs \in [1..q -> 0..n-1]
    BY <1>2, <2>1, Zenon
  <2>4. sinfo[a].idxs[b] \in 0..n-1
    BY <2>1, <2>3, Zenon
  <2> QED
    BY <2>2, <2>3, <2>4, Zenon
<1>5. ASSUME NEW j \in DOMAIN sinfo PROVE Last(sinfo[j].idxs) \in Int
  <2>1. Len(sinfo[j].idxs) = q /\ sinfo[j].idxs \in [1..q -> 0..n-1]
    BY <1>2
  <2> QED
    BY <2>1 DEF Last
<1> QED
  BY <1>1, <1>4, <1>5 DEF Fits

\* What find_slot returns: nothing, or cells for all tokens of the ubatch.
LEMMA FindSlot ==
  ASSUME NEW n \in Nat \ {0}, NEW x, NEW y, NEW k \in GoodCaches(n, x, y), NEW c, NEW ub, GoodUb(ub),
         NEW sinfo, sinfo = find_slot(c, k, ub), sinfo # <<>>
  PROVE  sinfo \in Slots(n) /\ Fits(sinfo, ub, n)
<1> DEFINE seqs == IF cfg.unified THEN <<Min(UbSeqs(ub))>> ELSE Ordered(UbSeqs(ub))
           nn == Len(ub) \div Len(seqs)
           strm == [j \in DOMAIN seqs |-> seq_to_stream(seqs[j])]
           Scan(j) == ScanFrom(k.cells[strm[j]], nn, k.heads[strm[j]])
           Open(j) == {r \in DOMAIN Scan(j) : can_use(c, k.cells[strm[j]], Scan(j)[r])}
           free == [j \in DOMAIN seqs |-> Picked(Scan(j), Open(j))]
<1>1. sinfo = IF \E j \in DOMAIN seqs : Len(free[j]) < nn THEN <<>>
              ELSE [j \in DOMAIN seqs |-> [strm |-> strm[j], idxs |-> SubSeq(free[j], 1, nn)]]
  BY DEF find_slot
<1>2. ub \in Seq(Tokens) /\ Len(ub) > 0 /\ Len(ub) \in Nat
  BY SeqIs DEF GoodUb
<1>3. PICK m \in Nat \ {0} : /\ seqs \in [1..m -> Seqs] /\ \A j \in 1..m : j - 1 \in Streams
                             /\ \E q \in Nat \ {0} : Len(ub) = m * q
  <2> DEFINE U == UbSeqs(ub)
             e == Cardinality(U)
  <2>1. /\ U \subseteq Seqs /\ U \subseteq Int /\ IsFiniteSet(U) /\ U # {}
        /\ e \in 0..Cardinality(Seqs) /\ e # 0
    BY <1>2, UbSeqsAre
  <2> HIDE DEF U
  <2>2. CASE cfg.unified
    <3>1. Min(U) \in Seqs
      BY <2>1, MaxMin
    <3>2. seqs \in [1..1 -> Seqs] /\ Streams = {0} /\ Len(ub) = 1 * Len(ub)
      BY <1>2, <2>2, <3>1 DEF Streams, U
    <3>3. \A j \in 1..1 : j - 1 \in Streams
      BY <3>2
    <3>4. 1 \in Nat \ {0} /\ Len(ub) \in Nat \ {0}
      BY <1>2
    <3> QED
      BY <3>2, <3>3, <3>4
  <2>3. CASE ~cfg.unified
    <3>1. Ordered(U) \in [1..e -> U] /\ e \in Nat \ {0}
      BY <2>1, OrderedIs
    <3>2. seqs \in [1..e -> Seqs]
      BY <2>1, <2>3, <3>1 DEF U
    <3>3. Streams = 0..Cardinality(Seqs)-1 /\ Cardinality(Seqs) \in Nat
      BY <2>3, KvAssumption, FS_CardinalityType DEF Streams
    <3>4. \A j \in 1..e : j - 1 \in Streams
      BY <2>1, <3>1, <3>3
    <3>5. \E q \in Nat \ {0} : Len(ub) = e * q
      BY <2>3 DEF GoodUb, U
    <3> QED
      BY <3>1, <3>2, <3>4, <3>5
  <2> QED
    BY <2>2, <2>3
<1> HIDE DEF seqs
<1>4. PICK q \in Nat \ {0} : Len(ub) = m * q
  BY <1>3
<1>5. Len(seqs) = m /\ DOMAIN seqs = 1..m /\ nn = q
  <2>1. Len(seqs) = m /\ DOMAIN seqs = 1..m
    BY <1>3, IsSeq
  <2> QED
    BY <1>4, <2>1, Blocks
<1> HIDE DEF nn
<1>6. \A j \in 1..m : strm[j] \in Streams
  BY <1>3, <1>5, StreamOf
<1>7. ASSUME NEW j \in 1..m PROVE free[j] \in Seq(0..n-1)
  <2>1. k.cells[strm[j]] \in GoodTables(n) /\ k.heads[strm[j]] \in Int
    BY <1>6 DEF GoodCaches
  <2> HIDE DEF strm
  <2>2. Scan(j) \in Seq(0..n-1)
    BY <1>5, <2>1, ScanIs
  <2>3. Open(j) \in SUBSET (DOMAIN Scan(j))
    OBVIOUS
  <2>4. free[j] = Picked(Scan(j), Open(j))
    BY <1>5
  <2> HIDE DEF Scan, Open, free
  <2> QED
    BY <2>2, <2>3, <2>4, PickedIs
<1> HIDE DEF strm, free
<1>8. sinfo = [j \in 1..m |-> [strm |-> strm[j], idxs |-> SubSeq(free[j], 1, q)]]
      /\ \A j \in 1..m : ~(Len(free[j]) < q)
  BY <1>1, <1>5
<1>9. ASSUME NEW j \in 1..m PROVE SubSeq(free[j], 1, q) \in [1..q -> 0..n-1]
  <2> DEFINE f == free[j]
  <2>1. f \in Seq(0..n-1) /\ Len(f) >= q
    BY <1>7, <1>8
  <2> HIDE DEF f
  <2>2. \A i \in 1..q : f[i] \in 0..n-1
    BY <2>1, SeqIs
  <2>3. SubSeq(f, 1, q) \in Seq(0..n-1) /\ Len(SubSeq(f, 1, q)) = q
    <3>1. 1 \in Int /\ q \in Int /\ 1 <= q /\ q - 1 + 1 = q
      OBVIOUS
    <3> DEFINE X == 0..n-1
    <3>0. \A i \in 1..q : f[i] \in X
      BY <2>2
    <3> HIDE DEF X
    <3>3. /\ SubSeq(f, 1, q) \in Seq(X)
          /\ Len(SubSeq(f, 1, q)) = IF 1 <= q THEN q - 1 + 1 ELSE 0
      BY <3>0, <3>1, SubSeqProperties
    <3>2. /\ SubSeq(f, 1, q) \in Seq(0..n-1)
          /\ Len(SubSeq(f, 1, q)) = IF 1 <= q THEN q - 1 + 1 ELSE 0
      BY <3>3 DEF X
    <3> QED
      BY <3>1, <3>2
  <2> DEFINE z == SubSeq(f, 1, q)
  <2> HIDE DEF z
  <2>4. z \in [1..q -> 0..n-1]
    BY <2>3, SeqIs DEF z
  <2> QED
    BY <2>4 DEF f, z
<1>10. sinfo \in [1..m -> [strm : Streams, idxs : [1..q -> 0..n-1]]]
  BY <1>6, <1>8, <1>9
<1>11. Fits(sinfo, ub, n)
  BY <1>2, <1>4, <1>10, BlocksFit
<1>12. sinfo \in Slots(n)
  <2>1. [1..q -> 0..n-1] \subseteq Seq(0..n-1)
    BY IsSeq
  <2>2. sinfo \in [1..m -> [strm : Streams, idxs : Seq(0..n-1)]]
    BY <1>10, <2>1
  <2>3. sinfo \in Seq([strm : Streams, idxs : Seq(0..n-1)]) /\ DOMAIN sinfo = 1..m
    BY <2>2, IsSeq
  <2> QED
    BY <1>3, <2>3 DEF Slots
<1> QED
  BY <1>11, <1>12

(***************************************************************************)
(* prepare and its undoing                                                 *)
(***************************************************************************)

\* What prepare keeps to undo the placing of one ubatch.
Undos(n) ==
    {w \in [sinfo : Slots(n), heads : [Streams -> Int], saved : Seq(Seq(SavedCells))] :
        DOMAIN w.saved = DOMAIN w.sinfo
          /\ \A j \in DOMAIN w.sinfo : DOMAIN w.saved[j] = DOMAIN w.sinfo[j].idxs}

\* The state of prepare.
Preparing(n, x, y) ==
    [ok : BOOLEAN, k : GoodCaches(n, x, y), slots : Seq(Slots(n)), undo : Seq(Undos(n))]

\* The cells and the head of one stream are put back.
RestoreAt(u, w, j) ==
    [u EXCEPT !.cells[w.sinfo[j].strm] = set(@, w.sinfo[j].idxs, w.saved[j]),
              !.heads[w.sinfo[j].strm] = w.heads[j - 1]]

LEMMA RestoreAtGood ==
  ASSUME NEW n \in Nat, NEW x, NEW y, NEW k \in GoodCaches(n, x, y), NEW w \in Undos(n),
         NEW j \in DOMAIN w.sinfo
  PROVE  RestoreAt(k, w, j) \in GoodCaches(n, x, y)
<1> DEFINE st == w.sinfo[j].strm
           idxs == w.sinfo[j].idxs
           saved == w.saved[j]
           u == set(k.cells[st], idxs, saved)
           h == w.heads[j - 1]
<1>1. RestoreAt(k, w, j) = [k EXCEPT !.cells[st] = u, !.heads[st] = h]
  BY DEF RestoreAt
<1>2. /\ w.sinfo \in Slots(n) /\ w.heads \in [Streams -> Int] /\ w.saved \in Seq(Seq(SavedCells))
      /\ DOMAIN w.saved = DOMAIN w.sinfo /\ DOMAIN saved = DOMAIN idxs
  BY DEF Undos
<1>3. w.sinfo[j] \in [strm : Streams, idxs : Seq(0..n-1)] /\ j - 1 \in Streams
  BY <1>2, SeqIs DEF Slots
<1>4. st \in Streams /\ idxs \in Seq(0..n-1) /\ h \in Int /\ saved \in Seq(SavedCells)
  BY <1>2, <1>3, SeqIs
<1> HIDE DEF st, idxs, saved, h
<1>5. k.cells[st] \in GoodTables(n)
  BY <1>4 DEF GoodCaches
<1>6. u \in GoodTables(n)
  <2>1. Len(idxs) \in Nat /\ idxs \in [1..Len(idxs) -> 0..n-1] /\ DOMAIN idxs = 1..Len(idxs)
    BY <1>4, SeqIs
  <2>2. saved \in [1..Len(saved) -> SavedCells] /\ DOMAIN saved = 1..Len(saved)
    BY <1>4, SeqIs
  <2>3. saved \in [1..Len(idxs) -> SavedCells]
    BY <1>2, <2>1, <2>2
  <2> QED
    BY <1>5, <2>1, <2>3, SetFoldGood
<1> HIDE DEF u
<1>7. [k EXCEPT !.cells[st] = u, !.heads[st] = h] \in GoodCaches(n, x, y)
  BY <1>4, <1>6, StreamChange
<1> QED
  BY <1>1, <1>7

\* One ubatch is undone.
LEMMA RestoreGood ==
  ASSUME NEW n \in Nat, NEW x, NEW y, NEW k \in GoodCaches(n, x, y), NEW w \in Undos(n)
  PROVE  Restore(k, w) \in GoodCaches(n, x, y)
<1> DEFINE dom == [j \in DOMAIN w.sinfo |-> j]
           S == DOMAIN dom
           V == GoodCaches(n, x, y)
           Step(g, T) == RestoreAt(g[T \ {Max(T)}], w, dom[Max(T)])
           h == CHOOSE g : g = [T \in SUBSET S |-> IF T = {} THEN k ELSE Step(g, T)]
           F == [e \in S \X V |-> RestoreAt(e[2], w, dom[e[1]])]
<1>1. Restore(k, w) = h[S]
  BY DEF FoldLeftDomain, FoldLeft, MapThenFoldSet, Restore, RestoreAt
<1>2. Places(S) /\ k \in V
  <2>1. w.sinfo \in Seq([strm : Streams, idxs : Seq(0..n-1)])
    BY DEF Undos, Slots
  <2> QED
    BY <2>1, SeqIs
<1>3. ASSUME NEW z \in S, NEW v \in V PROVE RestoreAt(v, w, dom[z]) \in V
  <2>1. z \in DOMAIN w.sinfo /\ dom[z] = z
    OBVIOUS
  <2> HIDE DEF dom
  <2> QED
    BY <2>1, RestoreAtGood
<1>4. F \in [S \X V -> V]
  BY <1>3
<1> HIDE DEF S, V
<1>5. PICK g \in [SUBSET S -> V] : SeqWalk(g, S, k, F)
  <2> HIDE DEF F
  <2> QED
    BY <1>2, <1>4, SeqFold
<1>6. ASSUME NEW T \in SUBSET S, T # {} PROVE g[T] = Step(g, T)
  <2>1. Max(T) \in S /\ T \ {Max(T)} \in SUBSET S
    BY <1>2, <1>6, LastIn
  <2>2. <<Max(T), g[T \ {Max(T)}]>> \in S \X V
    BY <2>1
  <2> QED
    BY <1>5, <1>6, <2>2 DEF SeqWalk
<1>7. g = [T \in SUBSET S |-> IF T = {} THEN k ELSE Step(g, T)]
  BY <1>5, <1>6 DEF SeqWalk
<1>8. h = [T \in SUBSET S |-> IF T = {} THEN k ELSE Step(h, T)]
  BY <1>7
<1> HIDE DEF h
<1>9. ASSUME NEW T \in SUBSET S, T # {}, h[T \ {Max(T)}] \in V PROVE h[T] \in V
  <2>1. Max(T) \in S
    BY <1>2, <1>9, LastIn
  <2>2. h[T] = Step(h, T)
    BY <1>8, <1>9
  <2> QED
    BY <1>3, <1>9, <2>1, <2>2
<1>10. h[S] \in V
  <2>1. h[{}] \in V
    BY <1>2, <1>8
  <2> QED
    BY <1>2, <1>9, <2>1, SeqFoldIn
<1> QED
  BY <1>1, <1>10, Zenon DEF V

\* All ubatches are undone.
LEMMA UndoFold ==
  ASSUME NEW n \in Nat, NEW x, NEW y, NEW k \in GoodCaches(n, x, y), NEW undo \in Seq(Undos(n))
  PROVE  FoldLeft(Restore, k, undo) \in GoodCaches(n, x, y)
<1> DEFINE S == DOMAIN undo
           V == GoodCaches(n, x, y)
           Step(g, T) == Restore(g[T \ {Max(T)}], undo[Max(T)])
           h == CHOOSE g : g = [T \in SUBSET S |-> IF T = {} THEN k ELSE Step(g, T)]
           F == [e \in S \X V |-> Restore(e[2], undo[e[1]])]
<1>1. FoldLeft(Restore, k, undo) = h[S]
  BY DEF FoldLeft, MapThenFoldSet
<1>2. Places(S) /\ k \in V
  BY SeqIs
<1>3. ASSUME NEW z \in S, NEW v \in V PROVE Restore(v, undo[z]) \in V
  BY RestoreGood, SeqIs
<1>4. F \in [S \X V -> V]
  BY <1>3
<1> HIDE DEF S, V
<1>5. PICK g \in [SUBSET S -> V] : SeqWalk(g, S, k, F)
  <2> HIDE DEF F
  <2> QED
    BY <1>2, <1>4, SeqFold
<1>6. ASSUME NEW T \in SUBSET S, T # {} PROVE g[T] = Step(g, T)
  <2>1. Max(T) \in S /\ T \ {Max(T)} \in SUBSET S
    BY <1>2, <1>6, LastIn
  <2>2. <<Max(T), g[T \ {Max(T)}]>> \in S \X V
    BY <2>1
  <2> QED
    BY <1>5, <1>6, <2>2 DEF SeqWalk
<1>7. g = [T \in SUBSET S |-> IF T = {} THEN k ELSE Step(g, T)]
  BY <1>5, <1>6 DEF SeqWalk
<1>8. h = [T \in SUBSET S |-> IF T = {} THEN k ELSE Step(h, T)]
  BY <1>7
<1> HIDE DEF h
<1>9. ASSUME NEW T \in SUBSET S, T # {}, h[T \ {Max(T)}] \in V PROVE h[T] \in V
  <2>1. Max(T) \in S
    BY <1>2, <1>9, LastIn
  <2>2. h[T] = Step(h, T)
    BY <1>8, <1>9
  <2> QED
    BY <1>3, <1>9, <2>1, <2>2
<1>10. h[S] \in V
  <2>1. h[{}] \in V
    BY <1>2, <1>8
  <2> QED
    BY <1>2, <1>9, <2>1, SeqFoldIn
<1> QED
  BY <1>1, <1>10, Zenon DEF V

\* The ubatches that have a slot are placed one by one.
LEMMA PlaceAtGood ==
  ASSUME NEW n \in Nat, NEW x, NEW y, NEW a \in Preparing(n, x, y), NEW ub, NEW sinfo,
         sinfo # <<>> => sinfo \in Slots(n) /\ Fits(sinfo, ub, n),
         NEW b, b = PlaceAt(a, ub, sinfo)
  PROVE  /\ b \in Preparing(n, x, y)
         /\ b.ok => a.ok /\ b.slots = Append(a.slots, sinfo) /\ Fits(sinfo, ub, n)
<1>1. /\ a.k \in GoodCaches(n, x, y) /\ a.slots \in Seq(Slots(n)) /\ a.undo \in Seq(Undos(n))
      /\ a.ok \in BOOLEAN
  BY DEF Preparing
<1>2. CASE ~a.ok \/ sinfo = <<>>
  <2>1. b = [a EXCEPT !.ok = FALSE]
    BY <1>2 DEF PlaceAt
  <2> QED
    BY <2>1 DEF Preparing
<1>3. CASE a.ok /\ sinfo # <<>>
  <2> DEFINE j == apply_ubatch(a.k, sinfo, ub)
             C(i) == a.k.cells[sinfo[i].strm]
             saved == [i \in DOMAIN sinfo |-> cp(C(i), sinfo[i].idxs)]
             w == [sinfo |-> sinfo, heads |-> a.k.heads, saved |-> saved]
             slots == Append(a.slots, sinfo)
             undo == <<w>> \o a.undo
  <2>1. b = [ok |-> TRUE, k |-> j, slots |-> slots, undo |-> undo]
    BY <1>3 DEF PlaceAt
  <2>2. sinfo \in Slots(n) /\ Fits(sinfo, ub, n)
    BY <1>3
  <2>3. j \in GoodCaches(n, x, y)
    BY <1>1, <2>2, ApplyCache
  <2>4. DOMAIN sinfo = 1..Len(sinfo) /\ Len(sinfo) \in Nat
        /\ \A i \in DOMAIN sinfo : sinfo[i].strm \in Streams /\ sinfo[i].idxs \in Seq(0..n-1)
    <3>1. sinfo \in Seq([strm : Streams, idxs : Seq(0..n-1)])
      BY <2>2 DEF Slots
    <3>2. \A i \in DOMAIN sinfo : sinfo[i] \in [strm : Streams, idxs : Seq(0..n-1)]
      BY <3>1, SeqIs
    <3> QED
      BY <3>1, <3>2, SeqIs
  <2>5. ASSUME NEW i \in DOMAIN sinfo
        PROVE  cp(C(i), sinfo[i].idxs) \in Seq(SavedCells)
               /\ DOMAIN cp(C(i), sinfo[i].idxs) = DOMAIN sinfo[i].idxs
    <3> DEFINE t == C(i)
               q == sinfo[i].idxs
    <3>1. t \in GoodTables(n)
      BY <1>1, <2>4 DEF GoodCaches
    <3>2. q \in [1..Len(q) -> 0..n-1] /\ Len(q) \in Nat /\ DOMAIN q = 1..Len(q)
      BY <2>4, SeqIs
    <3> HIDE DEF t, q
    <3>3. \A r \in 1..Len(q) : [pos |-> t.pos[q[r]], seq |-> t.seq[q[r]]] \in SavedCells
      <4>1. ASSUME NEW z \in 0..n-1 PROVE [pos |-> t.pos[z], seq |-> t.seq[z]] \in SavedCells
        BY <3>1, CellFacts DEF SavedCells
      <4> QED
        BY <3>2, <4>1
    <3>4. cp(t, q) = [r \in 1..Len(q) |-> [pos |-> t.pos[q[r]], seq |-> t.seq[q[r]]]]
      BY <3>2 DEF cp
    <3>5. cp(t, q) \in [1..Len(q) -> SavedCells]
      BY <3>3, <3>4
    <3>6. cp(t, q) \in Seq(SavedCells) /\ DOMAIN cp(t, q) = DOMAIN q
      BY <3>2, <3>5, IsSeq
    <3> QED
      BY <3>6 DEF t, q
  <2>6. saved \in [1..Len(sinfo) -> Seq(SavedCells)]
        /\ \A i \in DOMAIN sinfo : DOMAIN saved[i] = DOMAIN sinfo[i].idxs
    BY <2>4, <2>5
  <2>7. saved \in Seq(Seq(SavedCells)) /\ DOMAIN saved = DOMAIN sinfo
    BY <2>4, <2>6, IsSeq
  <2>8. a.k.heads \in [Streams -> Int]
    BY <1>1 DEF GoodCaches
  <2> HIDE DEF saved, j
  <2>9. w \in Undos(n)
    BY <2>2, <2>6, <2>7, <2>8 DEF Undos
  <2> HIDE DEF w
  <2>10. slots \in Seq(Slots(n)) /\ undo \in Seq(Undos(n))
    BY <1>1, <2>2, <2>9
  <2> HIDE DEF slots, undo
  <2>11. b \in Preparing(n, x, y)
    BY <2>1, <2>3, <2>10 DEF Preparing
  <2> QED
    BY <1>3, <2>1, <2>2, <2>11 DEF slots
<1> QED
  BY <1>1, <1>2, <1>3

\* Along a sequence: what holds of the empty prefix, and of each prefix if it
\* does of the one before, holds of the whole sequence.
LEMMA PrefixIn ==
  ASSUME NEW m \in Nat, NEW h, NEW W, h[{}] \in W[0],
         \A i \in 1..m : h[(1..i) \ {Max(1..i)}] \in W[i - 1] => h[1..i] \in W[i]
  PROVE  h[1..m] \in W[m]
<1> DEFINE G == {i \in Nat : i <= m => h[1..i] \in W[i]}
<1>1. 0 \in G
  <2>1. 1..0 = {}
    OBVIOUS
  <2> QED
    BY <2>1
<1>2. ASSUME NEW i \in Nat, i \in G PROVE i + 1 \in G
  <2>1. CASE i + 1 <= m
    <3>1. Max(1..(i + 1)) = i + 1
      <4>1. i + 1 \in 1..(i + 1) /\ \A z \in 1..(i + 1) : i + 1 >= z
        OBVIOUS
      <4>2. \A z \in 1..(i + 1) : (\A v \in 1..(i + 1) : z >= v) => z = i + 1
        BY <4>1
      <4> QED
        BY <4>1, <4>2 DEF Max
    <3>2. (1..(i + 1)) \ {i + 1} = 1..i
      OBVIOUS
    <3>3. h[1..i] \in W[i]
      BY <1>2, <2>1
    <3>4. i + 1 \in 1..m /\ (i + 1) - 1 = i
      BY <2>1
    <3>5. h[1..(i + 1)] \in W[i + 1]
      BY <3>1, <3>2, <3>3, <3>4
    <3> QED
      BY <3>5
  <2> QED
    BY <2>1
<1>3. m \in G
  <2> HIDE DEF G
  <2> QED
    BY <1>1, <1>2, Counting
<1> QED
  BY <1>3

\* prepare's first half: a slot for every ubatch, or none.
PlaceAll(c, k, ubs) ==
    FoldLeft(LAMBDA a, ub : PlaceNext(c, a, ub),
             [ok |-> TRUE, k |-> k, slots |-> <<>>, undo |-> <<>>], ubs)

\* Slots for the first m ubatches.
SlotsFit(slots, ubs, n, m) ==
    /\ slots \in Seq(Slots(n)) /\ Len(slots) = m
    /\ \A i \in 1..m : Fits(slots[i], ubs[i], n)

LEMMA PlaceNextGood ==
  ASSUME NEW n \in Nat \ {0}, NEW x, NEW y, NEW a \in Preparing(n, x, y), NEW c, NEW ub, GoodUb(ub)
  PROVE  PlaceNext(c, a, ub) \in Preparing(n, x, y)
<1> DEFINE sinfo == find_slot(c, a.k, ub)
<1>1. a.k \in GoodCaches(n, x, y)
  BY DEF Preparing
<1>2. sinfo # <<>> => sinfo \in Slots(n) /\ Fits(sinfo, ub, n)
  BY <1>1, FindSlot
<1> HIDE DEF sinfo
<1>3. PlaceAt(a, ub, sinfo) \in Preparing(n, x, y)
  BY <1>2, PlaceAtGood
<1> QED
  BY <1>3 DEF PlaceNext, sinfo

\* It fits the slots to the ubatches.
LEMMA PlaceAllGood ==
  ASSUME NEW n \in Nat \ {0}, NEW x, NEW y, NEW k \in GoodCaches(n, x, y), NEW c, NEW m \in Nat, NEW ubs,
         DOMAIN ubs = 1..m, \A i \in 1..m : GoodUb(ubs[i])
  PROVE  /\ PlaceAll(c, k, ubs) \in Preparing(n, x, y)
         /\ PlaceAll(c, k, ubs).ok => SlotsFit(PlaceAll(c, k, ubs).slots, ubs, n, m)
<1> DEFINE base == [ok |-> TRUE, k |-> k, slots |-> <<>>, undo |-> <<>>]
           S == DOMAIN ubs
           V == Preparing(n, x, y)
           Step(g, T) == PlaceNext(c, g[T \ {Max(T)}], ubs[Max(T)])
           h == CHOOSE g : g = [T \in SUBSET S |-> IF T = {} THEN base ELSE Step(g, T)]
           F == [e \in S \X V |-> PlaceNext(c, e[2], ubs[e[1]])]
<1>1. PlaceAll(c, k, ubs) = h[S]
  BY DEF FoldLeft, MapThenFoldSet, PlaceAll
<1>2. Places(S) /\ base \in V
  BY DEF Preparing, Places
<1>3. ASSUME NEW z \in S, NEW v \in V PROVE PlaceNext(c, v, ubs[z]) \in V
  BY PlaceNextGood
<1>4. F \in [S \X V -> V]
  BY <1>3
<1> HIDE DEF S, V
<1>5. PICK g \in [SUBSET S -> V] : SeqWalk(g, S, base, F)
  <2> HIDE DEF F
  <2> QED
    BY <1>2, <1>4, SeqFold
<1>6. ASSUME NEW T \in SUBSET S, T # {} PROVE g[T] = Step(g, T)
  <2>1. Max(T) \in S /\ T \ {Max(T)} \in SUBSET S
    BY <1>2, <1>6, LastIn
  <2>2. <<Max(T), g[T \ {Max(T)}]>> \in S \X V
    BY <2>1
  <2> QED
    BY <1>5, <1>6, <2>2 DEF SeqWalk
<1>7. g = [T \in SUBSET S |-> IF T = {} THEN base ELSE Step(g, T)]
  BY <1>5, <1>6 DEF SeqWalk
<1>8. h = [T \in SUBSET S |-> IF T = {} THEN base ELSE Step(h, T)]
  BY <1>7
<1> HIDE DEF h
<1> DEFINE W == [i \in Nat |-> {a \in V : a.ok => SlotsFit(a.slots, ubs, n, i)}]
<1>9. h[{}] \in W[0]
  <2>1. h[{}] = base /\ base \in V
    BY <1>2, <1>8
  <2>2. SlotsFit(base.slots, ubs, n, 0)
    BY DEF SlotsFit
  <2> QED
    BY <2>1, <2>2
<1>10. ASSUME NEW i \in 1..m, h[(1..i) \ {Max(1..i)}] \in W[i - 1] PROVE h[1..i] \in W[i]
  <2> DEFINE a == h[(1..i) \ {Max(1..i)}]
             sinfo == find_slot(c, a.k, ubs[i])
  <2>1. Max(1..i) = i
    <3>1. i \in 1..i /\ \A z \in 1..i : i >= z
      OBVIOUS
    <3>2. \A z \in 1..i : (\A v \in 1..i : z >= v) => z = i
      BY <3>1
    <3> QED
      BY <3>1, <3>2 DEF Max
  <2>2. 1..i \in SUBSET S /\ 1..i # {}
    <3>1. S = 1..m
      BY DEF S
    <3>2. i \in 1..i /\ 1..i \subseteq 1..m
      OBVIOUS
    <3> QED
      BY <3>1, <3>2, Zenon
  <2>3. h[1..i] = PlaceNext(c, a, ubs[i])
    BY <1>8, <2>1, <2>2
  <2>4. a \in V /\ (a.ok => SlotsFit(a.slots, ubs, n, i - 1))
    BY <1>10
  <2> HIDE DEF a
  <2>5. a.k \in GoodCaches(n, x, y) /\ GoodUb(ubs[i])
    BY <2>4 DEF Preparing, V
  <2>6. sinfo # <<>> => sinfo \in Slots(n) /\ Fits(sinfo, ubs[i], n)
    BY <2>5, FindSlot
  <2> HIDE DEF sinfo
  <2> DEFINE b == h[1..i]
  <2>7. b = PlaceAt(a, ubs[i], sinfo)
    BY <2>3 DEF PlaceNext, sinfo
  <2> HIDE DEF b
  <2>8. /\ b \in V
        /\ b.ok => a.ok /\ b.slots = Append(a.slots, sinfo) /\ Fits(sinfo, ubs[i], n) /\ sinfo # <<>>
    <3>1. /\ b \in Preparing(n, x, y)
          /\ b.ok => a.ok /\ b.slots = Append(a.slots, sinfo) /\ Fits(sinfo, ubs[i], n)
      BY <2>4, <2>6, <2>7, PlaceAtGood DEF V
    <3>2. sinfo = <<>> => b = [a EXCEPT !.ok = FALSE]
      BY <2>7 DEF PlaceAt
    <3>3. a \in Preparing(n, x, y)
      BY <2>4 DEF V
    <3>4. sinfo = <<>> => ~b.ok
      BY <3>2, <3>3 DEF Preparing
    <3> QED
      BY <3>1, <3>4 DEF V
  <2>9. ASSUME b.ok PROVE SlotsFit(b.slots, ubs, n, i)
    <3> DEFINE q == a.slots
    <3>1. q \in Seq(Slots(n)) /\ Len(q) = i - 1 /\ \A r \in 1..i-1 : Fits(q[r], ubs[r], n)
      BY <2>4, <2>8, <2>9 DEF SlotsFit
    <3>2. b.slots = Append(q, sinfo) /\ sinfo \in Slots(n) /\ Fits(sinfo, ubs[i], n)
      BY <2>6, <2>8, <2>9
    <3> HIDE DEF q
    <3>3. /\ Append(q, sinfo) \in Seq(Slots(n)) /\ Len(Append(q, sinfo)) = i
          /\ Append(q, sinfo)[i] = sinfo /\ \A r \in 1..i-1 : Append(q, sinfo)[r] = q[r]
      BY <3>1, <3>2
    <3>4. \A r \in 1..i : Fits(Append(q, sinfo)[r], ubs[r], n)
      <4>1. \A r \in 1..i : r = i \/ r \in 1..i-1
        OBVIOUS
      <4> QED
        BY <3>1, <3>2, <3>3, <4>1
    <3> QED
      BY <3>2, <3>3, <3>4 DEF SlotsFit
  <2> QED
    BY <2>8, <2>9 DEF b
<1>11. h[1..m] \in W[m]
  <2> HIDE DEF W
  <2> QED
    BY <1>9, <1>10, PrefixIn
<1>12. h[S] \in V /\ (h[S].ok => SlotsFit(h[S].slots, ubs, n, m))
  BY <1>11 DEF S
<1> QED
  BY <1>1, <1>12, Zenon DEF V

\* prepare gives the cache back good, and slots for all ubatches or none.
LEMMA PrepareGood ==
  ASSUME NEW n \in Nat \ {0}, NEW x, NEW y, NEW k \in GoodCaches(n, x, y), NEW c, NEW m \in Nat,
         NEW ubs, DOMAIN ubs = 1..m, \A i \in 1..m : GoodUb(ubs[i])
  PROVE  /\ prepare(c, k, ubs).k \in GoodCaches(n, x, y)
         /\ prepare(c, k, ubs).slots # <<>> => SlotsFit(prepare(c, k, ubs).slots, ubs, n, m)
<1> DEFINE done == PlaceAll(c, k, ubs)
           j == FoldLeft(Restore, done.k, done.undo)
<1>1. prepare(c, k, ubs) = [slots |-> IF done.ok THEN done.slots ELSE <<>>, k |-> j]
  BY DEF prepare, Prepared, PlaceAll
<1>2. done \in Preparing(n, x, y) /\ (done.ok => SlotsFit(done.slots, ubs, n, m))
  BY PlaceAllGood
<1> HIDE DEF done
<1>3. done.k \in GoodCaches(n, x, y) /\ done.undo \in Seq(Undos(n))
  BY <1>2 DEF Preparing
<1>4. j \in GoodCaches(n, x, y)
  BY <1>3, UndoFold
<1> HIDE DEF j
<1> QED
  BY <1>1, <1>2, <1>4

(***************************************************************************)
(* Splitting a batch                                                       *)
(***************************************************************************)

GoodUbs == {ub \in Seq(Tokens) : GoodUb(ub)}

\* A finite number of numbers.
LEMMA ImageFinite ==
  ASSUME NEW m \in Nat, NEW X, NEW f \in [1..m -> X]
  PROVE  IsFiniteSet({f[j] : j \in 1..m})
<1> DEFINE T == {f[j] : j \in 1..m}
<1>1. IsFiniteSet(1..m)
  <2>1. 1 \in Int /\ m \in Int
    OBVIOUS
  <2> QED
    BY <2>1, FS_Interval
<1>2. [j \in 1..m |-> f[j]] \in Surjection(1..m, T)
  BY DEF Surjection
<1> HIDE DEF T
<1>3. IsFiniteSet(T)
  BY <1>1, <1>2, FS_Surjection
<1> QED
  BY <1>3 DEF T

\* The simple split: every ubatch but the last is full.
LEMMA SimpleGood ==
  ASSUME NEW batch \in Seq(Tokens), cfg.n_ubatch \in Nat \ {0}, cfg.unified
  PROVE  split_simple(batch) \in Seq(GoodUbs)
<1> DEFINE q == cfg.n_ubatch
           L == Len(batch)
           m == (L + q - 1) \div q
           e(j) == SubSeq(batch, (j - 1) * q + 1, Min({j * q, L}))
<1>1. split_simple(batch) = [j \in 1..m |-> e(j)]
  BY DEF split_simple
<1>2. L \in Nat /\ q \in Nat \ {0}
  BY SeqIs
<1> HIDE DEF q, L
<1>3. m \in Nat /\ m * q <= L + q - 1
  BY <1>2
<1> HIDE DEF m
<1>4. ASSUME NEW j \in 1..m PROVE e(j) \in GoodUbs
  <2> DEFINE a == (j - 1) * q + 1
             b == Min({j * q, L})
  <2>1. j * q \in Int /\ a \in Int /\ a >= 1 /\ j * q = (j - 1) * q + q
    BY <1>2, <1>3
  <2>2. j * q <= m * q
    BY <1>2, <1>3
  <2>3. b \in {j * q, L} /\ a <= L
    <3>1. b \in {j * q, L}
      <4> DEFINE P == j * q
      <4>1. P \in Int /\ L \in Int
        BY <1>2, <2>1
      <4> HIDE DEF P
      <4>2. Min({P, L}) \in {P, L}
        BY <4>1, MaxMinOfTwo
      <4> QED
        BY <4>2 DEF P
    <3>2. j * q <= L + q - 1 /\ a = j * q - q + 1
      <4> DEFINE P == j * q
                 R == m * q
      <4>1. P \in Int /\ R \in Int /\ P <= R /\ R <= L + q - 1
        BY <1>2, <1>3, <2>1, <2>2
      <4> HIDE DEF P, R
      <4>2. P <= L + q - 1
        BY <1>2, <4>1
      <4> QED
        BY <1>2, <2>1, <4>2 DEF P
    <3> DEFINE P == j * q
    <3>3. P \in Int /\ P <= L + q - 1 /\ a = P - q + 1
      BY <2>1, <3>2
    <3> HIDE DEF P, a
    <3>4. a <= L
      BY <1>2, <3>3
    <3> QED
      BY <3>1, <3>4
  <2>4. b \in Int /\ a <= b
    BY <1>2, <2>1, <2>3
  <2>5. b <= L
    <3>1. b = L \/ (b = j * q /\ b <= L)
      <4>1. {j * q, L} \subseteq Int /\ {j * q, L} # {} /\ L \in {j * q, L}
        BY <1>2, <2>1
      <4>2. IsFiniteSet({j * q, L})
        <5>1. IsFiniteSet({j * q} \cup {L})
          BY FS_Singleton, FS_AddElement
        <5>2. {j * q} \cup {L} = {j * q, L}
          OBVIOUS
        <5> QED
          BY <5>1, <5>2
      <4> QED
        BY <2>3, <4>1, <4>2, MaxMin
    <3> QED
      BY <1>2, <3>1
  <2> HIDE DEF a, b
  <2>6. \A i \in a..b : batch[i] \in Tokens
    <3>1. \A i \in a..b : i \in 1..L
      BY <1>2, <2>1, <2>4, <2>5
    <3> QED
      BY <3>1, SeqIs DEF L
  <2>7. SubSeq(batch, a, b) \in Seq(Tokens) /\ Len(SubSeq(batch, a, b)) > 0
    <3>1. /\ SubSeq(batch, a, b) \in Seq(Tokens)
          /\ Len(SubSeq(batch, a, b)) = IF a <= b THEN b - a + 1 ELSE 0
      <4>1. a \in Int /\ b \in Int
        BY <2>1, <2>4
      <4> QED
        BY <2>6, <4>1, SubSeqProperties
    <3> QED
      BY <2>1, <2>4, <3>1
  <2>8. SubSeq(batch, a, b) \in GoodUbs
    BY <2>7 DEF GoodUbs, GoodUb
  <2> QED
    BY <2>8 DEF a, b
<1> HIDE DEF e
<1>5. split_simple(batch) \in [1..m -> GoodUbs]
  BY <1>1, <1>4
<1> QED
  BY <1>3, <1>5, IsSeq

\* The tokens that the equal split is given: with a stream for each sequence,
\* of one sequence each.
Splittable == {e \in Tokens : ~cfg.unified => \E s \in Seqs : e.seqs = {s}}

\* The sequence sets that PickSets gathers: disjoint, each of some token.
SetLists(left) ==
    {sets \in Seq((SUBSET Seqs) \ {{}}) :
        /\ \A i, j \in DOMAIN sets : i # j => sets[i] \cap sets[j] = {}
        /\ \A j \in DOMAIN sets : \E i \in DOMAIN left : left[i].seqs = sets[j]}

PickOne(sets, t, sequential) ==
    IF /\ Len(sets) <= cfg.n_ubatch
       /\ \A j \in DOMAIN sets : sets[j] \cap t.seqs = {}
       /\ sequential => (sets = <<>> \/ Min(t.seqs) = Min(Last(sets)) + 1)
    THEN Append(sets, t.seqs) ELSE sets

LEMMA PickOneGood ==
  ASSUME NEW left \in Seq(Tokens), NEW z \in DOMAIN left, NEW sequential, NEW v \in SetLists(left)
  PROVE  PickOne(v, left[z], sequential) \in SetLists(left)
<1> DEFINE X == (SUBSET Seqs) \ {{}}
           e == left[z].seqs
           u == Append(v, e)
<1>1. e \in X
  <2>1. left[z] \in Tokens
    BY SeqIs
  <2> QED
    BY <2>1 DEF Tokens
<1>2. /\ v \in Seq(X) /\ DOMAIN v = 1..Len(v) /\ Len(v) \in Nat
      /\ \A i, j \in DOMAIN v : i # j => v[i] \cap v[j] = {}
      /\ \A j \in DOMAIN v : \E i \in DOMAIN left : left[i].seqs = v[j]
  BY SeqIs DEF SetLists
<1>3. ASSUME \A j \in DOMAIN v : v[j] \cap e = {} PROVE u \in SetLists(left)
  <2>0. e \in X /\ \E i \in DOMAIN left : left[i].seqs = e
    BY <1>1
  <2> HIDE DEF e, X
  <2>1. /\ u \in Seq(X) /\ DOMAIN u = 1..(Len(v) + 1) /\ u[Len(v) + 1] = e
        /\ \A j \in DOMAIN v : u[j] = v[j]
    BY <2>0, <1>2
  <2>2. \A j \in DOMAIN u : j \in DOMAIN v \/ j = Len(v) + 1
    BY <1>2, <2>1
  <2> HIDE DEF u
  <2>3. ASSUME NEW i \in DOMAIN u, NEW j \in DOMAIN u, i # j PROVE u[i] \cap u[j] = {}
    <3>1. CASE i \in DOMAIN v /\ j \in DOMAIN v
      BY <1>2, <2>1, <2>3, <3>1
    <3>2. CASE i = Len(v) + 1
      <4>1. j \in DOMAIN v /\ u[i] = e /\ u[j] = v[j]
        BY <2>1, <2>2, <2>3, <3>2
      <4> QED
        BY <1>3, <4>1
    <3>3. CASE j = Len(v) + 1
      <4>1. i \in DOMAIN v /\ u[j] = e /\ u[i] = v[i]
        BY <2>1, <2>2, <2>3, <3>3
      <4> QED
        BY <1>3, <4>1
    <3> QED
      BY <2>2, <3>1, <3>2, <3>3
  <2>4. \A j \in DOMAIN u : \E i \in DOMAIN left : left[i].seqs = u[j]
    BY <1>2, <2>0, <2>1, <2>2
  <2> QED
    BY <2>1, <2>3, <2>4 DEF SetLists, X
<1> QED
  BY <1>3 DEF PickOne

LEMMA MaxOfPlaces ==
  ASSUME NEW m \in Nat, 1..m # {} PROVE Max(1..m) = m
<1>1. m \in 1..m /\ \A z \in 1..m : m >= z
  OBVIOUS
<1>2. \A z \in 1..m : (\A v \in 1..m : z >= v) => z = m
  BY <1>1
<1> QED
  BY <1>1, <1>2 DEF Max

\* PickSets gathers at least one such set.
LEMMA PickSetsGood ==
  ASSUME NEW left \in Seq(Tokens), left # <<>>, NEW sequential, cfg.n_ubatch \in Nat
  PROVE  PickSets(left, sequential) \in SetLists(left) /\ PickSets(left, sequential) # <<>>
<1> DEFINE S == DOMAIN left
           V == SetLists(left)
           Step(g, T) == PickOne(g[T \ {Max(T)}], left[Max(T)], sequential)
           h == CHOOSE g : g = [T \in SUBSET S |-> IF T = {} THEN <<>> ELSE Step(g, T)]
           F == [e \in S \X V |-> PickOne(e[2], left[e[1]], sequential)]
<1>1. PickSets(left, sequential) = h[S]
  BY DEF FoldLeft, MapThenFoldSet, PickSets, PickOne
<1>2. Places(S) /\ <<>> \in V
  BY SeqIs DEF SetLists
<1>3. ASSUME NEW x \in S, NEW v \in V PROVE PickOne(v, left[x], sequential) \in V
  BY PickOneGood
<1>4. F \in [S \X V -> V]
  BY <1>3
<1> HIDE DEF S, V
<1>5. PICK g \in [SUBSET S -> V] : SeqWalk(g, S, <<>>, F)
  <2> HIDE DEF F
  <2> QED
    BY <1>2, <1>4, SeqFold
<1>6. ASSUME NEW T \in SUBSET S, T # {} PROVE g[T] = Step(g, T)
  <2>1. Max(T) \in S /\ T \ {Max(T)} \in SUBSET S
    BY <1>2, <1>6, LastIn
  <2>2. <<Max(T), g[T \ {Max(T)}]>> \in S \X V
    BY <2>1
  <2> QED
    BY <1>5, <1>6, <2>2 DEF SeqWalk
<1>7. g = [T \in SUBSET S |-> IF T = {} THEN <<>> ELSE Step(g, T)]
  BY <1>5, <1>6 DEF SeqWalk
<1>8. h = [T \in SUBSET S |-> IF T = {} THEN <<>> ELSE Step(h, T)]
  BY <1>7
<1> HIDE DEF h
<1>9. ASSUME NEW T \in SUBSET S, T # {}, h[T \ {Max(T)}] \in V PROVE h[T] \in V
  <2>1. Max(T) \in S
    BY <1>2, <1>9, LastIn
  <2>2. h[T] = Step(h, T)
    BY <1>8, <1>9
  <2> QED
    BY <1>3, <1>9, <2>1, <2>2
<1>10. h[S] \in V
  <2>1. h[{}] \in V
    BY <1>2, <1>8
  <2> QED
    BY <1>2, <1>9, <2>1, SeqFoldIn
<1>11. h[S] # <<>>
  <2>1. S \in SUBSET S /\ S # {}
    <3>1. Len(left) \in Nat \ {0}
      BY EmptySeq
    <3>2. S = 1..Len(left)
      BY SeqIs DEF S
    <3>3. 1 \in 1..Len(left)
      BY <3>1
    <3> QED
      BY <3>2, <3>3, Zenon
  <2> DEFINE z == Max(S)
             v == h[S \ {z}]
  <2>2. z \in S /\ S \ {z} \in SUBSET S
    BY <1>2, <2>1, LastIn
  <2>3. h[S] = PickOne(v, left[z], sequential)
    BY <1>8, <2>1
  <2>4. v \in V
    <3> DEFINE R == S \ {z}
    <3>1. ASSUME NEW T \in SUBSET R, T # {}, h[T \ {Max(T)}] \in V PROVE h[T] \in V
      BY <1>9, <3>1, <2>2
    <3>2. Places(R)
      <4>1. PICK m \in Nat : S = 1..m
        BY <1>2 DEF Places
      <4>2. z = m
        BY <2>1, <4>1, MaxOfPlaces
      <4>3. m - 1 \in Nat /\ R = 1..m-1
        BY <2>1, <4>1, <4>2
      <4> QED
        BY <4>3 DEF Places
    <3>3. h[{}] \in V
      BY <1>2, <1>8
    <3> HIDE DEF R, z
    <3>4. h[R] \in V
      BY <3>1, <3>2, <3>3, SeqFoldIn
    <3> QED
      BY <3>4 DEF R
  <2> HIDE DEF v, z
  <2>5. CASE v = <<>>
    <3>1. Len(v) = 0 /\ DOMAIN v = {}
      BY <2>5
    <3>2. h[S] = Append(v, left[z].seqs)
      BY <2>3, <2>5, <3>1 DEF PickOne
    <3> QED
      BY <2>5, <3>2
  <2>6. CASE v # <<>>
    <3>1. v \in Seq((SUBSET Seqs) \ {{}})
      BY <2>4 DEF V, SetLists
    <3>2. left[z].seqs \in (SUBSET Seqs) \ {{}}
      <4>1. left[z] \in Tokens
        BY <2>2, SeqIs DEF S
      <4> QED
        BY <4>1 DEF Tokens
    <3>3. Append(v, left[z].seqs) # <<>>
      BY <3>1, <3>2
    <3>4. h[S] = v \/ h[S] = Append(v, left[z].seqs)
      BY <2>3 DEF PickOne
    <3> QED
      BY <2>6, <3>3, <3>4
  <2> QED
    BY <2>5, <2>6
<1> QED
  BY <1>1, <1>10, <1>11, Zenon DEF V

\* The number of tokens of each set in the next ubatch.
LEMMA ShareIs ==
  ASSUME NEW m \in Nat \ {0}, NEW f \in [1..m -> Nat \ {0}], NEW q \in Nat,
         NEW r, r = Min({Max({1, q})} \cup {f[j] : j \in 1..m})
  PROVE  r \in Nat \ {0} /\ \A j \in 1..m : r <= f[j]
<1> DEFINE a == Max({1, q})
           F == {f[j] : j \in 1..m}
           A == {a} \cup F
<1>1. a \in Nat \ {0}
  <2>1. IsFiniteSet({1, q})
    <3>1. IsFiniteSet({1} \cup {q})
      BY FS_Singleton, FS_AddElement
    <3>2. {1} \cup {q} = {1, q}
      OBVIOUS
    <3> QED
      BY <3>1, <3>2
  <2>2. {1, q} \subseteq Int /\ {1, q} # {}
    OBVIOUS
  <2>3. a \in {1, q} /\ \A y \in {1, q} : y <= a
    BY <2>1, <2>2, MaxMin
  <2> QED
    BY <2>3
<1> HIDE DEF a
<1>2. IsFiniteSet(F) /\ F \subseteq Nat \ {0}
  BY ImageFinite
<1>3. A \subseteq Nat \ {0} /\ A # {} /\ \A j \in 1..m : f[j] \in A
  BY <1>1, <1>2
<1>4. IsFiniteSet(A)
  <2> HIDE DEF F
  <2>1. IsFiniteSet(F \cup {a})
    BY <1>2, FS_AddElement
  <2>2. F \cup {a} = A
    OBVIOUS
  <2> QED
    BY <2>1, <2>2
<1>5. r = Min(A)
  BY DEF a
<1> HIDE DEF A
<1>6. A \subseteq Int /\ A # {}
  BY <1>3
<1>7. r \in A /\ \A y \in A : r <= y
  <2>1. Min(A) \in A /\ \A y \in A : Min(A) <= y
    BY <1>4, <1>6, MaxMin
  <2> QED
    BY <1>5, <2>1
<1> QED
  BY <1>3, <1>7

\* Blocks begin at every multiple.
LEMMA BlockStart ==
  ASSUME NEW m \in Nat \ {0}, NEW q \in Nat \ {0}, NEW j \in 1..m
  PROVE  \E i \in 1..m*q : (i - 1) \div q + 1 = j
<1> DEFINE i == (j - 1) * q
<1>1. i \in Nat /\ i \div q = j - 1
  OBVIOUS
<1>2. i + q <= m * q
  <2>1. i + q = j * q
    OBVIOUS
  <2>2. j * q <= m * q
    OBVIOUS
  <2> QED
    BY <2>1, <2>2
<1>3. m * q \in Nat
  OBVIOUS
<1> DEFINE z == m * q
<1>4. i \in Nat /\ i + q <= z /\ z \in Nat
  BY <1>1, <1>2, <1>3
<1> HIDE DEF i, z
<1>5. i + 1 \in 1..z /\ (i + 1) - 1 = i
  BY <1>4
<1>6. ((i + 1) - 1) \div q + 1 = j
  BY <1>1, <1>5
<1> QED
  BY <1>5, <1>6 DEF z

\* The next ubatch of the equal split.
LEMMA NextEqualGood ==
  ASSUME NEW left \in Seq(Splittable), left # <<>>, NEW sequential, cfg.n_ubatch \in Nat \ {0}
  PROVE  NextEqual(left, sequential) \in GoodUbs
<1> DEFINE sets == PickSets(left, sequential)
           P(j) == {i \in DOMAIN left : left[i].seqs = sets[j]}
           of == [j \in DOMAIN sets |-> Picked(left, P(j))]
           m == Len(sets)
           d == cfg.n_ubatch \div m
           f == [j \in 1..m |-> Len(of[j])]
           q == Min({Max({1, d})} \cup {Len(of[j]) : j \in DOMAIN sets})
           ub == [i \in 1..m * q |-> of[(i - 1) \div q + 1][((i - 1) % q) + 1]]
<1>0. NextEqual(left, sequential) = ub
  BY DEF NextEqual
<1>1. /\ left \in Seq(Tokens) /\ \A i \in DOMAIN left : left[i] \in Splittable
      /\ Splittable \subseteq Tokens
  <2>1. Splittable \subseteq Tokens
    BY DEF Splittable
  <2>2. \A i \in DOMAIN left : left[i] \in Splittable
    BY SeqIs
  <2>3. left \in [1..Len(left) -> Splittable] /\ Len(left) \in Nat
    BY SeqIs
  <2>4. left \in [1..Len(left) -> Tokens]
    BY <2>1, <2>3
  <2>5. left \in Seq(Tokens)
    BY <2>3, <2>4, IsSeq
  <2> QED
    BY <2>1, <2>2, <2>5
<1>2. sets \in SetLists(left) /\ sets # <<>>
  BY <1>1, PickSetsGood
<1> HIDE DEF sets
<1>3. /\ m \in Nat \ {0} /\ DOMAIN sets = 1..m
      /\ \A j \in 1..m : sets[j] \in (SUBSET Seqs) \ {{}}
      /\ \A i, j \in 1..m : i # j => sets[i] \cap sets[j] = {}
      /\ \A j \in 1..m : \E i \in DOMAIN left : left[i].seqs = sets[j]
  <2>1. sets \in Seq((SUBSET Seqs) \ {{}})
    BY <1>2 DEF SetLists
  <2>2. m \in Nat \ {0}
    BY <1>2, <2>1, EmptySeq
  <2>3. DOMAIN sets = 1..m /\ \A j \in DOMAIN sets : sets[j] \in (SUBSET Seqs) \ {{}}
    BY <2>1, SeqIs
  <2> QED
    BY <1>2, <2>2, <2>3 DEF SetLists
<1> HIDE DEF m
<1>4. ASSUME NEW j \in 1..m
      PROVE  /\ of[j] \in Seq(Splittable) /\ Len(of[j]) \in Nat \ {0} /\ DOMAIN of[j] = 1..Len(of[j])
             /\ \A r \in 1..Len(of[j]) : of[j][r].seqs = sets[j] /\ of[j][r] \in Splittable
  <2> DEFINE p == P(j)
  <2>1. of[j] = Picked(left, p) /\ p \in SUBSET (DOMAIN left) /\ p # {}
    BY <1>3
  <2>2. \A i \in p : left[i].seqs = sets[j]
    OBVIOUS
  <2> HIDE DEF p, of
  <2>3. /\ of[j] \in Seq(Splittable) /\ Len(of[j]) = Cardinality(p)
        /\ Cardinality(p) \in Nat /\ IsFiniteSet(p)
        /\ \A r \in 1..Cardinality(p) : \E i \in p : of[j][r] = left[i]
    BY <2>1, PickedIs
  <2>4. Cardinality(p) # 0
    BY <2>1, <2>3, FS_EmptySet
  <2>5. DOMAIN of[j] = 1..Len(of[j]) /\ \A r \in DOMAIN of[j] : of[j][r] \in Splittable
    BY <2>3, SeqIs
  <2> QED
    BY <2>2, <2>3, <2>4, <2>5
<1> HIDE DEF of
<1>5. f \in [1..m -> Nat \ {0}] /\ \A j \in 1..m : f[j] = Len(of[j])
  BY <1>4
<1>6. d \in Nat
  <2>1. \A a \in Nat, b \in Nat \ {0} : a \div b \in Nat
    OBVIOUS
  <2> QED
    BY <1>3, <2>1
<1> HIDE DEF f, d
<1>7. q \in Nat \ {0} /\ \A j \in 1..m : q <= f[j]
  <2>1. {f[j] : j \in 1..m} = {Len(of[j]) : j \in DOMAIN sets}
    <3>1. DOMAIN sets = 1..m /\ \A j \in 1..m : f[j] = Len(of[j])
      BY <1>3, <1>5
    <3> HIDE DEF m
    <3> QED
      BY ONLY <3>1
  <2>2. q = Min({Max({1, d})} \cup {f[j] : j \in 1..m})
    BY <2>1
  <2> HIDE DEF q
  <2> QED
    BY <1>3, <1>5, <1>6, <2>2, ShareIs
<1> HIDE DEF q
<1>8. ASSUME NEW i \in 1..m * q
      PROVE  /\ (i - 1) \div q + 1 \in 1..m /\ ub[i] \in Splittable
             /\ ub[i].seqs = sets[(i - 1) \div q + 1]
  <2> DEFINE a == (i - 1) \div q + 1
             b == ((i - 1) % q) + 1
  <2>1. a \in 1..m /\ b \in 1..q
    BY <1>3, <1>7, Blocks
  <2>2. ub[i] = of[a][b]
    OBVIOUS
  <2> HIDE DEF a, b, ub
  <2>3. q <= Len(of[a]) /\ Len(of[a]) \in Nat
    BY <1>4, <1>5, <1>7, <2>1
  <2>4. b \in 1..Len(of[a])
    BY <1>7, <2>1, <2>3
  <2> QED
    BY <1>4, <2>1, <2>2, <2>4 DEF a
<1>9. m * q \in Nat \ {0}
  BY <1>3, <1>7, Blocks
<1>10. ub \in Seq(Tokens) /\ Len(ub) = m * q /\ DOMAIN ub = 1..m * q
  <2> DEFINE z == m * q
  <2>1. z \in Nat /\ ub \in [1..z -> Splittable]
    BY <1>8, <1>9
  <2> HIDE DEF z, ub
  <2>2. ub \in [1..z -> Tokens]
    BY <1>1, <2>1
  <2>3. ub \in Seq(Tokens) /\ Len(ub) = z /\ DOMAIN ub = 1..z
    BY <2>1, <2>2, IsSeq
  <2> QED
    BY <2>3 DEF z
<1> HIDE DEF ub
<1>11. ASSUME ~cfg.unified PROVE Cardinality(UbSeqs(ub)) = m
  <2> DEFINE U == UbSeqs(ub)
             one == [j \in 1..m |-> CHOOSE s \in Seqs : sets[j] = {s}]
  <2>1. ASSUME NEW j \in 1..m PROVE sets[j] = {one[j]}
    <3>1. PICK i \in DOMAIN left : left[i].seqs = sets[j]
      BY <1>3
    <3>2. \E s \in Seqs : sets[j] = {s}
      BY <1>1, <1>11, <3>1 DEF Splittable
    <3> QED
      BY <3>2
  <2> HIDE DEF one
  <2>2. ASSUME NEW j \in 1..m PROVE one[j] \in U
    <3>1. PICK i \in 1..m * q : (i - 1) \div q + 1 = j
      <4>1. m \in Nat \ {0} /\ q \in Nat \ {0} /\ j \in 1..m
        BY <1>3, <1>7
      <4> QED
        BY ONLY <4>1, BlockStart, Zenon
    <3>2. i \in DOMAIN ub /\ ub[i].seqs = sets[j]
      BY <1>8, <1>10, <3>1
    <3> QED
      BY <2>1, <3>2 DEF UbSeqs
  <2>3. ASSUME NEW s \in U PROVE \E j \in 1..m : one[j] = s
    <3>1. PICK i \in DOMAIN ub : s \in ub[i].seqs
      BY DEF UbSeqs
    <3>2. PICK j \in 1..m : ub[i].seqs = sets[j]
      BY <1>8, <1>10
    <3>3. s \in {one[j]}
      BY <2>1, <3>1, <3>2
    <3> QED
      BY <3>3
  <2>4. ASSUME NEW i \in 1..m, NEW j \in 1..m, one[i] = one[j] PROVE i = j
    <3>1. sets[i] = {one[j]} /\ sets[j] = {one[j]}
      BY <2>1, <2>4
    <3> QED
      BY <1>3, <3>1
  <2> HIDE DEF U
  <2>5. one = [j \in 1..m |-> one[j]]
    BY DEF one
  <2>6. one \in [1..m -> U]
    BY <2>2, <2>5
  <2>7. one \in Bijection(1..m, U)
    BY <2>3, <2>4, <2>6 DEF Bijection, Injection, Surjection, IsInjective
  <2>8. ExistsBijection(1..m, U) /\ m \in Nat
    BY <1>3, <2>7 DEF ExistsBijection
  <2>9. Cardinality(U) = m
    BY <2>8, FS_CountingElements
  <2> QED
    BY <2>9 DEF U
<1>12. GoodUb(ub)
  <2>1. Len(ub) > 0
    BY <1>9, <1>10
  <2>2. ~cfg.unified => Len(ub) = Cardinality(UbSeqs(ub)) * q
    BY <1>10, <1>11
  <2> QED
    BY <1>7, <1>10, <2>1, <2>2 DEF GoodUb
<1> QED
  BY <1>0, <1>10, <1>12 DEF GoodUbs

\* The equal split, round by round.
Splitting == [ubs : Seq(GoodUbs), left : Seq(Splittable)]

EqualRun(batch, sequential) ==
    FoldLeft(LAMBDA a, t : EqualStep(a, sequential), [ubs |-> <<>>, left |-> batch], batch)

LEMMA EqualStepGood ==
  ASSUME NEW a \in Splitting, NEW sequential, cfg.n_ubatch \in Nat \ {0}
  PROVE  EqualStep(a, sequential) \in Splitting
<1>1. a.ubs \in Seq(GoodUbs) /\ a.left \in Seq(Splittable)
  BY DEF Splitting
<1>2. CASE a.left = <<>>
  BY <1>2 DEF EqualStep
<1>3. CASE a.left # <<>>
  <2> DEFINE ub == NextEqual(a.left, sequential)
             P == {i \in DOMAIN a.left : a.left[i] \notin Range(ub)}
             rest == Picked(a.left, P)
             ubs == Append(a.ubs, ub)
  <2>1. EqualStep(a, sequential) = [ubs |-> ubs, left |-> rest]
    BY <1>3 DEF EqualStep
  <2>2. ub \in GoodUbs
    BY <1>1, <1>3, NextEqualGood
  <2>3. P \in SUBSET (DOMAIN a.left)
    OBVIOUS
  <2> HIDE DEF ub, P
  <2>4. rest \in Seq(Splittable)
    BY <1>1, <2>3, PickedIs
  <2>5. ubs \in Seq(GoodUbs)
    BY <1>1, <2>2
  <2> HIDE DEF rest, ubs
  <2> QED
    BY <2>1, <2>4, <2>5 DEF Splitting
<1> QED
  BY <1>2, <1>3

\* All its ubatches are good.
LEMMA EqualRunGood ==
  ASSUME NEW batch \in Seq(Splittable), NEW sequential, cfg.n_ubatch \in Nat \ {0}
  PROVE  EqualRun(batch, sequential) \in Splitting
<1> DEFINE base == [ubs |-> <<>>, left |-> batch]
           S == DOMAIN batch
           V == Splitting
           Step(g, T) == EqualStep(g[T \ {Max(T)}], sequential)
           h == CHOOSE g : g = [T \in SUBSET S |-> IF T = {} THEN base ELSE Step(g, T)]
           F == [e \in S \X V |-> EqualStep(e[2], sequential)]
<1>1. EqualRun(batch, sequential) = h[S]
  BY DEF FoldLeft, MapThenFoldSet, EqualRun
<1>2. Places(S) /\ base \in V
  BY SeqIs DEF Splitting
<1>3. ASSUME NEW x \in S, NEW v \in V PROVE EqualStep(v, sequential) \in V
  BY EqualStepGood
<1>4. F \in [S \X V -> V]
  BY <1>3
<1> HIDE DEF S, V
<1>5. PICK g \in [SUBSET S -> V] : SeqWalk(g, S, base, F)
  <2> HIDE DEF F
  <2> QED
    BY <1>2, <1>4, SeqFold
<1>6. ASSUME NEW T \in SUBSET S, T # {} PROVE g[T] = Step(g, T)
  <2>1. Max(T) \in S /\ T \ {Max(T)} \in SUBSET S
    BY <1>2, <1>6, LastIn
  <2>2. <<Max(T), g[T \ {Max(T)}]>> \in S \X V
    BY <2>1
  <2> QED
    BY <1>5, <1>6, <2>2 DEF SeqWalk
<1>7. g = [T \in SUBSET S |-> IF T = {} THEN base ELSE Step(g, T)]
  BY <1>5, <1>6 DEF SeqWalk
<1>8. h = [T \in SUBSET S |-> IF T = {} THEN base ELSE Step(h, T)]
  BY <1>7
<1> HIDE DEF h
<1>9. ASSUME NEW T \in SUBSET S, T # {}, h[T \ {Max(T)}] \in V PROVE h[T] \in V
  <2>1. Max(T) \in S
    BY <1>2, <1>9, LastIn
  <2>2. h[T] = Step(h, T)
    BY <1>8, <1>9
  <2> QED
    BY <1>3, <1>9, <2>1, <2>2
<1>10. h[S] \in V
  <2>1. h[{}] \in V
    BY <1>2, <1>8
  <2> QED
    BY <1>2, <1>9, <2>1, SeqFoldIn
<1> QED
  BY <1>1, <1>10, Zenon DEF V

LEMMA EqualGood ==
  ASSUME NEW batch \in Seq(Tokens), cfg.n_ubatch \in Nat \ {0}
  PROVE  split_equal(batch, ~cfg.unified) \in Seq(GoodUbs)
<1>1. CASE ~cfg.unified /\ HasCoupled(batch)
  BY <1>1 DEF split_equal
<1>2. CASE ~(~cfg.unified /\ HasCoupled(batch))
  <2> DEFINE b == ~cfg.unified
             r == EqualRun(batch, b)
  <2>1. split_equal(batch, b) = r.ubs
    BY <1>2 DEF split_equal, EqualRun
  <2>2. ASSUME NEW i \in DOMAIN batch PROVE batch[i] \in Splittable
    <3>1. batch[i] \in Tokens
      BY SeqIs
    <3>2. ASSUME ~cfg.unified PROVE \E s \in Seqs : batch[i].seqs = {s}
      <4> DEFINE Q == batch[i].seqs
      <4>1. Q \subseteq Seqs /\ Q # {} /\ ~(Cardinality(Q) > 1)
        BY <1>2, <3>1, <3>2 DEF Tokens, HasCoupled
      <4> HIDE DEF Q
      <4>2. IsFiniteSet(Q) /\ Cardinality(Q) \in Nat
        BY <4>1, KvAssumption, FS_Subset, FS_CardinalityType
      <4>3. Cardinality(Q) = 1
        BY <4>1, <4>2, FS_EmptySet
      <4>4. PICK s : Q = {s}
        BY <4>2, <4>3, FS_Singleton
      <4> QED
        BY <4>1, <4>4 DEF Q
    <3> QED
      BY <3>1, <3>2 DEF Splittable
  <2>3. batch \in Seq(Splittable)
    <3>1. batch \in [1..Len(batch) -> Tokens] /\ Len(batch) \in Nat /\ DOMAIN batch = 1..Len(batch)
      BY SeqIs
    <3>2. batch \in [1..Len(batch) -> Splittable]
      BY <2>2, <3>1
    <3> QED
      BY <3>1, <3>2, IsSeq
  <2> HIDE DEF b
  <2>4. r \in Splitting
    BY <2>3, EqualRunGood
  <2>5. r.ubs \in Seq(GoodUbs)
    BY <2>4 DEF Splitting
  <2> QED
    BY <2>1, <2>5 DEF b
<1> QED
  BY <1>1, <1>2

(***************************************************************************)
(* init_batch                                                              *)
(***************************************************************************)

\* The two caches, and the ubatches of a decode with slots for all of them.
GoodKv(caches) == DOMAIN caches = Caches /\ \A c \in Caches : GoodCache(caches[c], Size(c))

JobFits(ubs, slots) ==
    /\ ubs \in Seq(GoodUbs) /\ ubs # <<>>
    /\ DOMAIN slots = Caches
    /\ \A c \in Caches : SlotsFit(slots[c], ubs, Size(c), Len(ubs))

GoodSearch(r) == GoodKv(r.kv) /\ (r.found => JobFits(r.ubs, r.slots))

\* Both caches have cells.
LEMMA SizePos ==
  ASSUME cfg \in Configs, NEW c PROVE Size(c) \in Nat \ {0}
<1> DEFINE a == cfg.kv_size
           f == IF cfg.unified THEN Cardinality(Seqs) ELSE 1
           b == NSwa * f + cfg.n_ubatch
<1>1. a \in Nat \ {0} /\ cfg.n_ubatch \in Nat \ {0} /\ NSwa \in Nat
  BY KvAssumption
<1>2. Size(c) = IF c = "base" \/ cfg.swa_full THEN a ELSE Min({a, b})
  BY DEF Size
<1>3. f \in Nat
  BY KvAssumption, FS_CardinalityType
<1> HIDE DEF a, f
<1>4. NSwa * f \in Nat
  BY <1>1, <1>3
<1>5. b \in Nat \ {0}
  BY <1>1, <1>4
<1> HIDE DEF b
<1>6. Min({a, b}) \in {a, b}
  BY <1>1, <1>5, MaxMinOfTwo
<1> QED
  BY <1>1, <1>2, <1>5, <1>6

\* Slots are searched for one way of splitting.
LEMMA TrySplitGood ==
  ASSUME cfg \in Configs, NEW r, GoodSearch(r), NEW ubs \in Seq(GoodUbs)
  PROVE  GoodSearch(TrySplit(r, ubs))
<1>1. CASE r.found \/ ubs = <<>>
  BY <1>1 DEF TrySplit
<1>2. CASE ~(r.found \/ ubs = <<>>)
  <2> DEFINE k == r.kv
             p == [c \in Caches |-> prepare(c, k[c], ubs)]
             m == Len(ubs)
             z == [k EXCEPT !["base"] = p["base"].k,
                            !["swa"] = IF p["base"].slots = <<>> THEN @ ELSE p["swa"].k]
             slots == [c \in Caches |-> p[c].slots]
             found == \A c \in Caches : p[c].slots # <<>>
             u == TrySplit(r, ubs)
  <2>1. u = [kv |-> z, ubs |-> ubs, slots |-> slots, found |-> found]
    BY <1>2 DEF TrySplit, Split
  <2>2. m \in Nat /\ DOMAIN ubs = 1..m /\ \A i \in 1..m : GoodUb(ubs[i])
    BY SeqIs DEF GoodUbs
  <2>3. GoodKv(k)
    BY DEF GoodSearch
  <2>4. ASSUME NEW c \in Caches
        PROVE  /\ GoodCache(p[c].k, Size(c))
               /\ p[c].slots # <<>> => SlotsFit(p[c].slots, ubs, Size(c), m)
    <3> DEFINE j == k[c]
               n == Size(c)
    <3>1. n \in Nat \ {0} /\ j \in GoodCaches(n, j.sc_info, j.data)
      BY <2>3, SizePos DEF GoodKv, GoodCache
    <3>2. p[c] = prepare(c, j, ubs)
      OBVIOUS
    <3> HIDE DEF j, n, p, m
    <3>3. /\ prepare(c, j, ubs).k \in GoodCaches(n, j.sc_info, j.data)
          /\ prepare(c, j, ubs).slots # <<>> => SlotsFit(prepare(c, j, ubs).slots, ubs, n, m)
      BY <2>2, <3>1, PrepareGood
    <3>4. GoodCache(p[c].k, n)
      BY <3>2, <3>3, GoodIs
    <3> QED
      BY <3>2, <3>3, <3>4 DEF n
  <2> HIDE DEF p, m
  <2>5. GoodKv(z)
    <3>1. DOMAIN z = Caches
      BY <2>3 DEF GoodKv
    <3>2. z["base"] = p["base"].k /\ (z["swa"] = k["swa"] \/ z["swa"] = p["swa"].k)
      BY <2>3 DEF GoodKv, Caches
    <3>3. GoodCache(z["base"], Size("base")) /\ GoodCache(z["swa"], Size("swa"))
      BY <2>3, <2>4, <3>2 DEF GoodKv, Caches
    <3> QED
      BY <3>1, <3>3 DEF GoodKv, Caches
  <2>6. found => JobFits(ubs, slots)
    <3>1. DOMAIN slots = Caches /\ \A c \in Caches : slots[c] = p[c].slots
      OBVIOUS
    <3> QED
      BY <1>2, <2>4, <3>1 DEF JobFits, m
  <2> HIDE DEF z, slots, found, u
  <2> QED
    BY <2>1, <2>5, <2>6 DEF GoodSearch, u
<1> QED
  BY <1>1, <1>2

\* init_batch leaves good caches, and slots for the whole batch if it found any.
LEMMA InitBatchGood ==
  ASSUME cfg \in Configs, NEW caches, GoodKv(caches), NEW batch \in Seq(Tokens)
  PROVE  GoodSearch(init_batch(caches, batch))
<1> DEFINE none == [kv |-> caches, found |-> FALSE]
           simple == IF cfg.unified THEN TrySplit(none, split_simple(batch)) ELSE none
<1>1. cfg.n_ubatch \in Nat \ {0}
  BY KvAssumption
<1>2. init_batch(caches, batch) = TrySplit(simple, split_equal(batch, ~cfg.unified))
  BY DEF init_batch
<1>3. GoodSearch(none)
  BY DEF GoodSearch
<1>4. GoodSearch(simple)
  <2> HIDE DEF none
  <2> QED
    BY <1>1, <1>3, SimpleGood, TrySplitGood
<1> HIDE DEF simple
<1>5. split_equal(batch, ~cfg.unified) \in Seq(GoodUbs)
  BY <1>1, EqualGood
<1> QED
  BY <1>2, <1>4, <1>5, TrySplitGood

(***************************************************************************)
(* The state machine                                                       *)
(***************************************************************************)

\* Positions are at most N.
UpTo(x, N) == \A e \in x : e[1] \in 0..N

TextBound(N) == \A s \in Seqs : UpTo(text[s], N)

\* A text of every sequence, of bounded positions.
TextFits(x) == DOMAIN x = Seqs /\ \E N \in Nat : \A s \in Seqs : UpTo(x[s], N)

\* A decode in progress has ubatches left and slots that fit them.
JobIs(j) == j # NoJob => /\ JobFits(j.ubs, j.slots)
                         /\ j = [ubs |-> j.ubs, slots |-> j.slots,
                                  purged |-> j.purged, floor |-> j.floor]

\* The inductive invariant: exact tables in both caches, fitting slots for the
\* decode in progress, and positions that stay natural numbers.
KvInv ==
    /\ cfg \in Configs
    /\ GoodKv(kv)
    /\ JobIs(job)
    /\ TextFits(text)

\* It gives the property.
LEMMA KvInvGives ==
  ASSUME KvInv PROVE TableExact
<1>1. ASSUME NEW c \in Caches, NEW st \in Streams PROVE TableConsistent(kv[c].cells[st])
  <2>1. Size(c) \in Nat
    BY SizePos DEF KvInv
  <2>2. kv[c].cells[st] \in GoodTables(Size(c))
    BY DEF KvInv, GoodKv, GoodCache, GoodCaches
  <2> QED
    BY <2>1, <2>2, ExactIsConsistent
<1> QED
  BY <1>1 DEF TableExact

\* The invariant depends on the configuration, which no step changes.
LEMMA KvInvNext ==
  ASSUME cfg \in Configs, cfg' = cfg, GoodKv(kv'), JobIs(job'), TextFits(text')
  PROVE  KvInv'
<1>1. GoodKv(kv)'
  BY DEF GoodKv, GoodCache, GoodCaches, Size, Streams
<1>2. JobIs(job)'
  <2>1. GoodUbs' = GoodUbs
    BY DEF GoodUbs, GoodUb
  <2>2. Streams' = Streams /\ \A c : Size(c)' = Size(c)
    BY DEF Streams, Size
  <2>3. \A n, sinfo, ub : Fits(sinfo, ub, n)' = Fits(sinfo, ub, n)
    BY <2>2 DEF Fits
  <2>4. \A n : Slots(n)' = Slots(n)
    BY <2>2 DEF Slots
  <2> QED
    BY <2>1, <2>2, <2>3, <2>4, Zenon DEF JobIs, JobFits, SlotsFit, NoJob
<1>3. TextFits(text)' /\ (cfg \in Configs)'
  BY DEF TextFits
<1> QED
  BY <1>1, <1>2, <1>3 DEF KvInv

\* The callers' count of the tokens of a sequence.
LEMMA CountIs ==
  ASSUME NEW s \in Seqs, NEW N \in Nat, TextBound(N)
  PROVE  n_past(s) \in Nat
<1>1. Positions(s) \subseteq 0..N
  BY DEF Positions, TextBound, UpTo
<1>2. IsFiniteSet(0..N)
  <2>1. 0 \in Int /\ N \in Int
    OBVIOUS
  <2> QED
    BY <2>1, FS_Interval
<1>3. Positions(s) \subseteq Int /\ IsFiniteSet(Positions(s))
  BY <1>1, <1>2, FS_Subset
<1>4. ASSUME text[s] # {} PROVE Max(Positions(s)) \in 0..N
  <2>1. Positions(s) # {}
    BY <1>4 DEF Positions
  <2> QED
    BY <1>1, <1>3, <2>1, MaxMin
<1> QED
  BY <1>4 DEF n_past

\* The batches of the callers.
LEMMA BatchIs ==
  ASSUME cfg \in Configs, NEW N \in Nat, TextBound(N), NEW q \in BatchShapes
  PROVE  BatchOf(q) \in Seq(Tokens)
<1>1. PICK m \in 1..cfg.max_batch : q \in [1..m -> SeqSets]
  BY DEF BatchShapes
<1>2. m \in Nat
  <2>1. cfg.max_batch \in Nat
    BY KvAssumption
  <2> QED
    BY <2>1
<1>3. Seqs # {} /\ IsFiniteSet(Seqs) /\ Seqs \subseteq Nat
  BY KvAssumption, SeqsAssumption
<1>4. ASSUME NEW i \in 1..m
      PROVE  [seqs |-> q[i], pos  |-> n_past(Min(q[i])) + Cardinality({j \in 1..i-1 : Min(q[i]) \in q[j]}),
              tok  |-> Min(q[i])] \in Tokens
  <2>1. q[i] \subseteq Seqs /\ q[i] # {}
    <3>1. q[i] \in SeqSets
      BY <1>1
    <3> QED
      BY <3>1, <1>3 DEF SeqSets
  <2>2. Min(q[i]) \in Seqs
    <3>1. IsFiniteSet(q[i])
      BY <1>3, <2>1, FS_Subset
    <3>0. Nat \subseteq Int
      OBVIOUS
    <3>2. q[i] \subseteq Int
      BY <1>3, <2>1, <3>0, Zenon
    <3>3. Min(q[i]) \in q[i]
      BY <2>1, <3>1, <3>2, MaxMin
    <3> QED
      BY <2>1, <3>3
  <2>3. n_past(Min(q[i])) \in Nat
    BY <2>2, CountIs
  <2>4. Cardinality({j \in 1..i-1 : Min(q[i]) \in q[j]}) \in Nat
    <3> DEFINE J == {j \in 1..i-1 : Min(q[i]) \in q[j]}
    <3>1. 1 \in Int /\ i - 1 \in Int
      BY <1>2
    <3>2. IsFiniteSet(1..i-1)
      BY <3>1, FS_Interval
    <3>3. J \subseteq 1..i-1
      OBVIOUS
    <3> HIDE DEF J
    <3>4. Cardinality(J) \in Nat
      BY <3>2, <3>3, FS_Subset, FS_CardinalityType
    <3> QED
      BY <3>4 DEF J
  <2> QED
    BY <2>1, <2>2, <2>3, <2>4 DEF Tokens
<1>5. BatchOf(q) \in [1..m -> Tokens]
  <2>1. DOMAIN q = 1..m
    BY <1>1
  <2> QED
    BY <1>4, <2>1 DEF BatchOf
<1> QED
  BY <1>2, <1>5, IsSeq

\* Memory calls keep the positions of a text in its bound.
LEMMA WithoutUpTo ==
  ASSUME NEW x, NEW N \in Nat, UpTo(x, N), NEW p0, NEW p1 PROVE UpTo(Without(x, p0, p1), N)
  BY DEF UpTo, Without

LEMMA ShiftedUpTo ==
  ASSUME NEW x, NEW N \in Nat, UpTo(x, N), NEW p0 \in Int, NEW p1 \in Int, NEW d \in Int,
         d <= 0, p0 + d >= 0
  PROVE  UpTo(Shifted(x, p0, p1, d), N)
<1>1. ASSUME NEW e \in x PROVE (IF p0 <= e[1] /\ e[1] < p1 THEN e[1] + d ELSE e[1]) \in 0..N
  BY DEF UpTo
<1> QED
  BY <1>1 DEF UpTo, Shifted

LEMMA DividedUpTo ==
  ASSUME NEW x, NEW N \in Nat, UpTo(x, N), NEW p0 \in Int, NEW p1 \in Int, NEW d \in Nat \ {0}
  PROVE  UpTo(Divided(x, p0, p1, d), N)
<1>1. ASSUME NEW p \in 0..N PROVE p \div d \in 0..N
  <2>1. p \in Nat
    OBVIOUS
  <2>2. p \div d \in Nat /\ p \div d <= p
    BY <2>1
  <2> QED
    BY <2>2
<1>2. ASSUME NEW e \in x PROVE (IF p0 <= e[1] /\ e[1] < p1 THEN e[1] \div d ELSE e[1]) \in 0..N
  BY <1>1 DEF UpTo
<1> QED
  BY <1>2 DEF UpTo, Divided

\* The text of one sequence changes.
LEMMA TextChange ==
  ASSUME NEW x, NEW N \in Nat, DOMAIN x = Seqs, \A s \in Seqs : UpTo(x[s], N), NEW b \in Seqs, NEW v, UpTo(v, N)
  PROVE  TextFits([x EXCEPT ![b] = v])
<1>1. \A s \in Seqs : UpTo([x EXCEPT ![b] = v][s], N)
  <2>1. \A s \in Seqs : [x EXCEPT ![b] = v][s] = v \/ [x EXCEPT ![b] = v][s] = x[s]
    OBVIOUS
  <2> QED
    BY <2>1, Zenon
<1>2. DOMAIN [x EXCEPT ![b] = v] = Seqs
  OBVIOUS
<1> QED
  BY <1>1, <1>2, Zenon DEF TextFits

\* A text with tokens of an ubatch added.
LEMMA TextGrows ==
  ASSUME NEW x, TextFits(x), NEW ub \in Seq(Tokens), Len(ub) > 0,
         NEW y, y = [s \in Seqs |-> x[s] \cup
                      {<<ub[i].pos, ub[i].tok>> : i \in {j \in DOMAIN ub : s \in ub[j].seqs}}]
  PROVE  TextFits(y)
<1>1. PICK N \in Nat : \A s \in Seqs : UpTo(x[s], N)
  BY DEF TextFits
<1> DEFINE f == [i \in 1..Len(ub) |-> ub[i].pos]
           S == {f[i] : i \in 1..Len(ub)}
           M == N + Max(S)
<1>2. Len(ub) \in Nat /\ DOMAIN ub = 1..Len(ub) /\ \A i \in DOMAIN ub : ub[i].pos \in Nat
  <2>1. Len(ub) \in Nat /\ DOMAIN ub = 1..Len(ub) /\ \A i \in DOMAIN ub : ub[i] \in Tokens
    BY SeqIs
  <2>2. \A e \in Tokens : e.pos \in Nat
    BY DEF Tokens
  <2> QED
    BY <2>1, <2>2, Zenon
<1>3. f \in [1..Len(ub) -> Nat] /\ \A i \in DOMAIN ub : f[i] = ub[i].pos
  BY <1>2
<1> HIDE DEF f
<1>4. IsFiniteSet(S)
  BY <1>2, <1>3, ImageFinite
<1>5. S \subseteq Nat /\ S # {}
  BY <1>2, <1>3
<1>6. S \subseteq Int
  <2>1. Nat \subseteq Int
    OBVIOUS
  <2> QED
    BY <1>5, <2>1, Zenon
<1>7. Max(S) \in S /\ \A p \in S : p <= Max(S)
  BY <1>4, <1>5, <1>6, MaxMin
<1>8. \A i \in DOMAIN ub : ub[i].pos \in S
  BY <1>2, <1>3
<1> HIDE DEF S
<1>9. M \in Nat /\ (\A p \in S : p \in 0..M) /\ \A p \in 0..N : p \in 0..M
  <2> DEFINE top == Max(S)
  <2>1. top \in Nat /\ \A p \in S : p \in Nat /\ p <= top
    BY <1>5, <1>7
  <2> HIDE DEF top
  <2>2. N + top \in Nat /\ (\A p \in S : p \in 0..(N + top)) /\ \A p \in 0..N : p \in 0..(N + top)
    BY <2>1
  <2> QED
    BY <2>2 DEF top
<1> HIDE DEF M
<1>10. ASSUME NEW s \in Seqs PROVE UpTo(y[s], M)
  <2>1. y[s] = x[s] \cup {<<ub[i].pos, ub[i].tok>> : i \in {j \in DOMAIN ub : s \in ub[j].seqs}}
    OBVIOUS
  <2>2. ASSUME NEW e \in y[s] PROVE e[1] \in 0..M
    <3>1. CASE e \in x[s]
      BY <1>1, <1>9, <3>1 DEF UpTo
    <3>2. CASE e \notin x[s]
      <4>1. PICK i \in DOMAIN ub : e = <<ub[i].pos, ub[i].tok>>
        BY <2>1, <3>2
      <4>2. e[1] = ub[i].pos
        BY <4>1
      <4> QED
        BY <1>8, <1>9, <4>2
    <3> QED
      BY <3>1, <3>2
  <2> QED
    BY <2>2 DEF UpTo
<1>11. DOMAIN y = Seqs
  OBVIOUS
<1> QED
  BY <1>9, <1>10, <1>11, Zenon DEF TextFits

\* Both caches are good, tidied or not.
LEMMA TidyGood ==
  ASSUME cfg \in Configs, NEW f, \A c \in Caches : GoodCache(f[c], Size(c))
  PROVE  GoodKv([c \in Caches |-> Tidy(f[c])])
<1>1. ASSUME NEW c \in Caches PROVE GoodCache(Tidy(f[c]), Size(c))
  <2>1. Size(c) \in Nat
    BY SizePos
  <2> QED
    BY <2>1, UpdateCache
<1> QED
  BY <1>1, Zenon DEF GoodKv

\* What the invariant gives about each cache.
LEMMA KvInvCaches ==
  ASSUME KvInv, NEW c \in Caches
  PROVE  Size(c) \in Nat /\ Size(c) \in Nat \ {0} /\ kv[c] \in GoodCaches(Size(c), kv[c].sc_info, kv[c].data)
<1>1. Size(c) \in Nat \ {0}
  BY SizePos DEF KvInv
<1>2. GoodCache(kv[c], Size(c))
  BY DEF KvInv, GoodKv
<1> QED
  BY <1>1, <1>2 DEF GoodCache

\* A memory call whose operation keeps each cache good keeps the invariant.
LEMMA CallStep ==
  ASSUME KvInv, NEW f, \A c \in Caches : GoodCache(f[c], Size(c)),
         kv' = [c \in Caches |-> Tidy(f[c])], cfg' = cfg, job' = job, TextFits(text')
  PROVE  KvInv'
<1>1. cfg \in Configs /\ JobIs(job')
  BY DEF KvInv
<1>2. GoodKv(kv')
  BY <1>1, TidyGood
<1> QED
  BY <1>1, <1>2, KvInvNext

\* The initial caches.
LEMMA KvInit ==
  ASSUME Init PROVE KvInv
<1>1. cfg \in Configs
  BY DEF Init
<1>2. GoodKv(kv)
  <2>1. ASSUME NEW c \in Caches PROVE GoodCache(NewCache(c), Size(c))
    <3>1. Size(c) \in Nat
      BY <1>1, SizePos
    <3> QED
      BY <3>1, NewIsGood
  <2>2. kv = [c \in Caches |-> NewCache(c)]
    BY DEF Init
  <2> QED
    BY <2>1, <2>2, Zenon DEF GoodKv
<1>3. JobIs(job)
  BY DEF Init, JobIs
<1>4. TextFits(text)
  <2>1. DOMAIN text = Seqs /\ \A s \in Seqs : UpTo(text[s], 0)
    BY DEF Init, UpTo
  <2>2. 0 \in Nat
    OBVIOUS
  <2> QED
    BY <2>1, <2>2, Zenon DEF TextFits
<1> QED
  BY <1>1, <1>2, <1>3, <1>4 DEF KvInv

LEMMA ClearStep ==
  ASSUME KvInv, Clear PROVE KvInv'
<1>1. cfg \in Configs /\ cfg' = cfg /\ job' = job /\ JobIs(job')
  BY DEF KvInv, Clear
<1>2. GoodKv(kv')
  <2>1. ASSUME NEW c \in Caches PROVE GoodCache(clear(c, kv[c]), Size(c))
    <3>1. Size(c) \in Nat
      BY <1>1, SizePos
    <3> QED
      BY <3>1, NewIsGood
  <2>2. kv' = [c \in Caches |-> clear(c, kv[c])]
    BY DEF Clear
  <2> QED
    BY <2>1, <2>2, Zenon DEF GoodKv
<1>3. TextFits(text')
  <2>1. DOMAIN text' = Seqs /\ \A s \in Seqs : UpTo(text'[s], 0)
    BY DEF Clear, UpTo
  <2>2. 0 \in Nat
    OBVIOUS
  <2> QED
    BY <2>1, <2>2, Zenon DEF TextFits
<1> QED
  BY <1>1, <1>2, <1>3, KvInvNext

LEMMA KeepPrefixStep ==
  ASSUME KvInv, NEW s \in Seqs, NEW n, KeepPrefix(s, n) PROVE KvInv'
<1>1. PICK N \in Nat : DOMAIN text = Seqs /\ \A b \in Seqs : UpTo(text[b], N)
  BY DEF KvInv, TextFits
<1>2. PICK keep : /\ kv' = [c \in Caches |-> Tidy(seq_rm(kv[c], s, keep, PosMax))]
                  /\ text' = [text EXCEPT ![s] = Without(text[s], keep, PosMax)]
                  /\ cfg' = cfg /\ job' = job
  BY DEF KeepPrefix, Call
<1> DEFINE f == [c \in Caches |-> seq_rm(kv[c], s, keep, PosMax)]
<1>3. \A c \in Caches : GoodCache(f[c], Size(c))
  <2>1. ASSUME NEW c \in Caches PROVE GoodCache(seq_rm(kv[c], s, keep, PosMax), Size(c))
    BY KvInvCaches, RmCache, GoodIs
  <2> QED
    BY <2>1
<1>4. kv' = [c \in Caches |-> Tidy(f[c])]
  BY <1>2
<1>5. TextFits(text')
  BY <1>1, <1>2, WithoutUpTo, TextChange
<1> HIDE DEF f
<1> QED
  BY <1>2, <1>3, <1>4, <1>5, CallStep

LEMMA KeepPrefixAllStep ==
  ASSUME KvInv, NEW n, KeepPrefixAll(n) PROVE KvInv'
<1>1. PICK N \in Nat : DOMAIN text = Seqs /\ \A b \in Seqs : UpTo(text[b], N)
  BY DEF KvInv, TextFits
<1>2. /\ kv' = [c \in Caches |-> Tidy(seq_rm_any(kv[c], n, PosMax))]
      /\ text' = [s \in Seqs |-> Without(text[s], n, PosMax)]
      /\ cfg' = cfg /\ job' = job
  BY DEF KeepPrefixAll, Call
<1> DEFINE f == [c \in Caches |-> seq_rm_any(kv[c], n, PosMax)]
<1>3. \A c \in Caches : GoodCache(f[c], Size(c))
  <2>1. ASSUME NEW c \in Caches PROVE GoodCache(seq_rm_any(kv[c], n, PosMax), Size(c))
    BY KvInvCaches, RmAnyCache, GoodIs
  <2> QED
    BY <2>1
<1>4. kv' = [c \in Caches |-> Tidy(f[c])]
  BY <1>2
<1>5. TextFits(text')
  <2>1. \A s \in Seqs : UpTo(text'[s], N)
    BY <1>1, <1>2, WithoutUpTo
  <2>2. DOMAIN text' = Seqs
    BY <1>2
  <2> QED
    BY <2>1, <2>2 DEF TextFits
<1> HIDE DEF f
<1> QED
  BY <1>2, <1>3, <1>4, <1>5, CallStep

LEMMA SeqKeepStep ==
  ASSUME KvInv, NEW s \in Seqs, SeqKeep(s) PROVE KvInv'
<1>1. PICK N \in Nat : DOMAIN text = Seqs /\ \A b \in Seqs : UpTo(text[b], N)
  BY DEF KvInv, TextFits
<1>2. /\ kv' = [c \in Caches |-> Tidy(seq_keep(kv[c], s))]
      /\ text' = [b \in Seqs |-> IF seq_to_stream(b) = seq_to_stream(s) /\ b # s THEN {} ELSE text[b]]
      /\ cfg' = cfg /\ job' = job
  BY DEF SeqKeep, Call
<1> DEFINE f == [c \in Caches |-> seq_keep(kv[c], s)]
<1>3. \A c \in Caches : GoodCache(f[c], Size(c))
  <2>1. ASSUME NEW c \in Caches PROVE GoodCache(seq_keep(kv[c], s), Size(c))
    BY KvInvCaches, KeepCache, GoodIs
  <2> QED
    BY <2>1
<1>4. kv' = [c \in Caches |-> Tidy(f[c])]
  BY <1>2
<1>5. TextFits(text')
  <2>1. \A b \in Seqs : text'[b] = {} \/ text'[b] = text[b]
    BY <1>2
  <2>2. \A b \in Seqs : UpTo(text'[b], N)
    BY <1>1, <2>1 DEF UpTo
  <2>3. DOMAIN text' = Seqs
    BY <1>2
  <2> QED
    BY <2>2, <2>3 DEF TextFits
<1> HIDE DEF f
<1> QED
  BY <1>2, <1>3, <1>4, <1>5, CallStep

LEMMA ContextShiftStep ==
  ASSUME KvInv, NEW s \in Seqs, NEW keep \in KeepLengths, ContextShift(s, keep) PROVE KvInv'
<1>1. PICK N \in Nat : DOMAIN text = Seqs /\ \A b \in Seqs : UpTo(text[b], N)
  BY DEF KvInv, TextFits
<1> DEFINE past == n_past(s)
           lost == (n_past(s) - keep) \div 2
           top == keep + lost
<1>2. keep \in Nat
  BY KvAssumption
<1>3. past \in Nat
  BY <1>1, CountIs DEF TextBound
<1>4. /\ kv' = [c \in Caches |-> Tidy(seq_add(seq_rm(kv[c], s, keep, top), s, top, past, -lost))]
      /\ text' = [text EXCEPT ![s] = Shifted(Without(text[s], keep, top), top, past, -lost)]
      /\ cfg' = cfg /\ job' = job /\ lost > 0
  BY DEF ContextShift, Call
<1>5. lost \in Int /\ -lost \in Int /\ top \in Int /\ past \in Int /\ -lost <= 0 /\ top + (-lost) >= 0
  <2>1. lost \in Int
    BY <1>2, <1>3
  <2> HIDE DEF lost
  <2> QED
    BY <1>2, <1>3, <1>4, <2>1
<1> HIDE DEF past, lost, top
<1> DEFINE f == [c \in Caches |-> seq_add(seq_rm(kv[c], s, keep, top), s, top, past, -lost)]
<1>6. \A c \in Caches : GoodCache(f[c], Size(c))
  <2>1. ASSUME NEW c \in Caches
        PROVE  GoodCache(seq_add(seq_rm(kv[c], s, keep, top), s, top, past, -lost), Size(c))
    <3> DEFINE k == seq_rm(kv[c], s, keep, top)
    <3>1. k \in GoodCaches(Size(c), kv[c].sc_info, kv[c].data) /\ Size(c) \in Nat
      BY KvInvCaches, RmCache
    <3> HIDE DEF k
    <3>2. seq_add(k, s, top, past, -lost) \in GoodCaches(Size(c), kv[c].sc_info, kv[c].data)
      BY <1>5, <3>1, AddCache
    <3> QED
      BY <3>2, GoodIs DEF k
  <2> QED
    BY <2>1
<1>7. kv' = [c \in Caches |-> Tidy(f[c])]
  BY <1>4
<1>8. TextFits(text')
  <2>1. UpTo(Without(text[s], keep, top), N)
    BY <1>1, WithoutUpTo
  <2>2. UpTo(Shifted(Without(text[s], keep, top), top, past, -lost), N)
    BY <1>5, <2>1, ShiftedUpTo
  <2> QED
    BY <1>1, <1>4, <2>2, TextChange
<1> HIDE DEF f
<1> QED
  BY <1>4, <1>6, <1>7, <1>8, CallStep

LEMMA SelfExtendStep ==
  ASSUME KvInv, NEW s \in Seqs, SelfExtend(s) PROVE KvInv'
<1>1. PICK N \in Nat : DOMAIN text = Seqs /\ \A b \in Seqs : UpTo(text[b], N)
  BY DEF KvInv, TextFits
<1> DEFINE past == n_past(s)
           dd == GaW \div GaN - GaW
<1>2. GaW \in Nat /\ GaN \in Nat \ {0}
  BY KvAssumption
<1>3. past \in Nat
  BY <1>1, CountIs DEF TextBound
<1>4. /\ kv' = [c \in Caches |-> Tidy(seq_add(seq_div(kv[c], s, 0, GaW, GaN), s, GaW, past, dd))]
      /\ text' = [text EXCEPT ![s] = Shifted(Divided(text[s], 0, GaW, GaN), GaW, past, dd)]
      /\ cfg' = cfg /\ job' = job
  BY DEF SelfExtend, Call
<1>5. dd \in Int /\ dd <= 0 /\ GaW + dd >= 0
  <2>1. GaW \div GaN \in Nat /\ GaW \div GaN <= GaW
    BY <1>2
  <2> QED
    BY <1>2, <2>1
<1> HIDE DEF past, dd
<1> DEFINE f == [c \in Caches |-> seq_add(seq_div(kv[c], s, 0, GaW, GaN), s, GaW, past, dd)]
<1>6. \A c \in Caches : GoodCache(f[c], Size(c))
  <2>1. ASSUME NEW c \in Caches
        PROVE  GoodCache(seq_add(seq_div(kv[c], s, 0, GaW, GaN), s, GaW, past, dd), Size(c))
    <3> DEFINE k == seq_div(kv[c], s, 0, GaW, GaN)
    <3>1. k \in GoodCaches(Size(c), kv[c].sc_info, kv[c].data) /\ Size(c) \in Nat
      BY <1>2, KvInvCaches, DivCache
    <3> HIDE DEF k
    <3>2. seq_add(k, s, GaW, past, dd) \in GoodCaches(Size(c), kv[c].sc_info, kv[c].data)
      BY <1>5, <3>1, AddCache
    <3> QED
      BY <3>2, GoodIs DEF k
  <2> QED
    BY <2>1
<1>7. kv' = [c \in Caches |-> Tidy(f[c])]
  BY <1>4
<1>8. TextFits(text')
  <2>0. 0 \in Int /\ GaW \in Int /\ past \in Int
    BY <1>2, <1>3
  <2>1. UpTo(Divided(text[s], 0, GaW, GaN), N)
    BY <1>1, <1>2, <2>0, DividedUpTo
  <2>2. UpTo(Shifted(Divided(text[s], 0, GaW, GaN), GaW, past, dd), N)
    BY <1>5, <2>0, <2>1, ShiftedUpTo
  <2> QED
    BY <1>1, <1>4, <2>2, TextChange
<1> HIDE DEF f
<1> QED
  BY <1>4, <1>6, <1>7, <1>8, CallStep

\* No cell of a sequence that a unified context copies into.
Separate ==
    \A a, b \in Seqs : cfg.unified /\ "coupled" \notin known /\ a # b /\ text[b] = {} =>
        \A c \in Caches : NoCell(kv[c], b)

LEMMA SeqCpStep ==
  ASSUME KvInv, Separate, NEW a \in Seqs, NEW b \in Seqs, SeqCp(a, b) PROVE KvInv'
<1>1. PICK N \in Nat : DOMAIN text = Seqs /\ \A s \in Seqs : UpTo(text[s], N)
  BY DEF KvInv, TextFits
<1>2. /\ kv' = [c \in Caches |-> Tidy(seq_cp(kv[c], a, b))]
      /\ text' = [text EXCEPT ![b] = text[a]]
      /\ cfg' = cfg /\ job' = job
      /\ a # b /\ text[b] = {} /\ "coupled" \notin known
  BY DEF SeqCp, Call, Idle
<1> DEFINE f == [c \in Caches |-> seq_cp(kv[c], a, b)]
<1>3. \A c \in Caches : GoodCache(f[c], Size(c))
  <2>1. ASSUME NEW c \in Caches PROVE GoodCache(seq_cp(kv[c], a, b), Size(c))
    <3>1. cfg.unified => NoCell(kv[c], b)
      BY <1>2 DEF Separate
    <3>2. Size(c) \in Nat /\ GoodCache(kv[c], Size(c))
      BY KvInvCaches, GoodIs
    <3> QED
      BY <1>2, <3>1, <3>2, CpCache
  <2> QED
    BY <2>1
<1>4. kv' = [c \in Caches |-> Tidy(f[c])]
  BY <1>2
<1>5. TextFits(text')
  BY <1>1, <1>2, TextChange
<1> HIDE DEF f
<1> QED
  BY <1>2, <1>3, <1>4, <1>5, CallStep

\* The position from which a failed ubatch removes the cells of s, and the
\* removal itself.
FirstPos(ub, s) == Min({ub[i].pos : i \in {j \in DOMAIN ub : Min(ub[j].seqs) = s}})

Firsts(ub) == {Min(ub[i].seqs) : i \in DOMAIN ub}

TakeOut(k, ub, s) == seq_rm(k, s, FirstPos(ub, s), PosMax)

Removed(k, ub) == FoldSet(LAMBDA s, u : TakeOut(u, ub, s), k, Firsts(ub))

\* The first sequences of the tokens of an ubatch.
LEMMA FirstsAre ==
  ASSUME NEW ub \in Seq(Tokens) PROVE Firsts(ub) \subseteq Seqs /\ IsFiniteSet(Firsts(ub))
<1>1. ASSUME NEW i \in DOMAIN ub PROVE Min(ub[i].seqs) \in Seqs
  <2>1. ub[i] \in Tokens
    BY SeqIs
  <2>2. ub[i].seqs \subseteq Seqs /\ ub[i].seqs # {}
    BY <2>1 DEF Tokens
  <2>3. IsFiniteSet(ub[i].seqs)
    BY <2>2, KvAssumption, FS_Subset
  <2>4. Nat \subseteq Int
    OBVIOUS
  <2>5. ub[i].seqs \subseteq Int
    BY <2>2, <2>4, SeqsAssumption, Zenon
  <2>6. Min(ub[i].seqs) \in ub[i].seqs
    BY <2>2, <2>3, <2>5, MaxMin
  <2> QED
    BY <2>2, <2>6
<1>2. Firsts(ub) \subseteq Seqs
  BY <1>1 DEF Firsts
<1> QED
  BY <1>2, KvAssumption, FS_Subset

\* A failed ubatch is taken out again.
LEMMA RemoveFold ==
  ASSUME NEW n \in Nat, NEW x, NEW y, NEW k \in GoodCaches(n, x, y), NEW ub \in Seq(Tokens)
  PROVE  Removed(k, ub) \in GoodCaches(n, x, y)
<1> DEFINE S == Firsts(ub)
           V == GoodCaches(n, x, y)
           Step(g, T) == TakeOut(g[T \ {Chosen(T)}], ub, Chosen(T))
           h == CHOOSE g : g = [T \in SUBSET S |-> IF T = {} THEN k ELSE Step(g, T)]
           F == [e \in S \X V |-> TakeOut(e[2], ub, e[1])]
<1>1. Removed(k, ub) = h[S]
  BY DEF FoldSet, MapThenFoldSet, Chosen, Removed
<1>2. IsFiniteSet(S) /\ k \in V
  BY FirstsAre
<1>3. ASSUME NEW z \in S, NEW v \in V PROVE TakeOut(v, ub, z) \in V
  <2>1. z \in Seqs
    BY FirstsAre
  <2> QED
    BY <2>1, RmCache DEF TakeOut
<1>4. F \in [S \X V -> V]
  BY <1>3
<1> HIDE DEF S, V
<1>5. PICK g \in [SUBSET S -> V] : Walk(g, S, k, F)
  <2> HIDE DEF F
  <2> QED
    BY <1>2, <1>4, SetFold
<1>6. ASSUME NEW T \in SUBSET S, T # {} PROVE g[T] = Step(g, T)
  <2>1. Chosen(T) \in S /\ T \ {Chosen(T)} \in SUBSET S
    BY <1>2, <1>6, ChosenIn
  <2>2. <<Chosen(T), g[T \ {Chosen(T)}]>> \in S \X V
    BY <2>1
  <2> QED
    BY <1>5, <1>6, <2>2 DEF Walk
<1>7. g = [T \in SUBSET S |-> IF T = {} THEN k ELSE Step(g, T)]
  BY <1>5, <1>6 DEF Walk
<1>8. h = [T \in SUBSET S |-> IF T = {} THEN k ELSE Step(h, T)]
  BY <1>7
<1> HIDE DEF h
<1>9. ASSUME NEW T \in SUBSET S, T # {}, h[T \ {Chosen(T)}] \in V PROVE h[T] \in V
  <2>1. Chosen(T) \in S
    BY <1>2, <1>9, ChosenIn
  <2>2. h[T] = Step(h, T)
    BY <1>8, <1>9
  <2> QED
    BY <1>3, <1>9, <2>1, <2>2
<1>10. h[S] \in V
  <2>1. h[{}] \in V
    BY <1>2, <1>8
  <2> QED
    BY <1>2, <1>9, <2>1, FoldIn
<1> QED
  BY <1>1, <1>10, Zenon DEF V

\* The next ubatch of a decode and its slots.
LEMMA JobHead ==
  ASSUME KvInv, job # NoJob
  PROVE  /\ Ubatch \in Seq(Tokens) /\ Len(Ubatch) > 0
         /\ \A c \in Caches : Fits(Head(job.slots[c]), Ubatch, Size(c))
<1>1. JobFits(job.ubs, job.slots)
  BY DEF KvInv, JobIs
<1>2. job.ubs \in Seq(GoodUbs) /\ job.ubs # <<>>
  BY <1>1 DEF JobFits
<1>3. Len(job.ubs) \in Nat /\ 1 \in 1..Len(job.ubs) /\ Ubatch = job.ubs[1] /\ Ubatch \in GoodUbs
  <2> HIDE DEF GoodUbs
  <2> QED
    BY <1>2 DEF Ubatch
<1>4. ASSUME NEW c \in Caches PROVE Fits(Head(job.slots[c]), Ubatch, Size(c))
  <2> DEFINE q == job.slots[c]
  <2>1. SlotsFit(q, job.ubs, Size(c), Len(job.ubs))
    BY <1>1 DEF JobFits
  <2> HIDE DEF q
  <2>2. q \in Seq(Slots(Size(c))) /\ Len(q) = Len(job.ubs) /\ Fits(q[1], job.ubs[1], Size(c))
    BY <1>3, <2>1 DEF SlotsFit
  <2>3. Head(q) = q[1]
    BY <1>3, <2>2
  <2> QED
    BY <1>3, <2>2, <2>3 DEF q
<1> QED
  BY <1>3, <1>4 DEF GoodUbs, GoodUb

\* What is left of a decode after one ubatch.
LEMMA JobTail ==
  ASSUME NEW ubs, NEW slots, JobFits(ubs, slots), Len(ubs) # 1
  PROVE  JobFits(Tail(ubs), [c \in Caches |-> Tail(slots[c])])
<1> DEFINE rest == Tail(ubs)
           next == [c \in Caches |-> Tail(slots[c])]
<1>3. ubs \in Seq(GoodUbs) /\ ubs # <<>> /\ DOMAIN slots = Caches
  BY DEF JobFits
<1>4. Len(ubs) # 1
  OBVIOUS
<1>5. ASSUME NEW c \in Caches PROVE SlotsFit(slots[c], ubs, Size(c), Len(ubs))
  BY DEF JobFits
<1>6. /\ Len(ubs) \in Nat /\ Len(ubs) > 1 /\ rest \in Seq(GoodUbs) /\ Len(rest) = Len(ubs) - 1
      /\ rest # <<>> /\ \A i \in 1..Len(rest) : rest[i] = ubs[i + 1] /\ i + 1 \in 1..Len(ubs)
  <2> DEFINE X == GoodUbs
  <2>1. ubs \in Seq(X)
    BY <1>3
  <2> HIDE DEF X
  <2>2. /\ Len(ubs) \in Nat /\ Len(ubs) > 1 /\ rest \in Seq(X) /\ Len(rest) = Len(ubs) - 1
        /\ \A i \in 1..Len(rest) : rest[i] = ubs[i + 1] /\ i + 1 \in 1..Len(ubs)
    <3>1. ubs # <<>>
      BY <1>3
    <3>2. Len(ubs) \in Nat /\ Len(ubs) # 0
      BY <2>1, <3>1
    <3>3. Len(ubs) > 1
      BY <1>4, <3>2
    <3>4. rest \in Seq(X) /\ Len(rest) = Len(ubs) - 1
      BY <2>1, <3>1, HeadTailProperties
    <3>5. \A i \in 1..(Len(ubs) - 1) : rest[i] = ubs[i + 1]
      BY <2>1, <3>1, <3>4, HeadTailProperties
    <3> HIDE DEF rest
    <3> QED
      BY <3>2, <3>3, <3>4, <3>5
  <2> HIDE DEF rest
  <2>3. rest # <<>>
    BY <2>2
  <2> QED
    BY <2>2, <2>3 DEF X
<1>7. ASSUME NEW c \in Caches PROVE SlotsFit(next[c], rest, Size(c), Len(rest))
  <2> DEFINE q == slots[c]
             X == Slots(Size(c))
  <2>1. q \in Seq(X) /\ Len(q) = Len(ubs) /\ \A i \in 1..Len(ubs) : Fits(q[i], ubs[i], Size(c))
    BY <1>5 DEF SlotsFit
  <2>2. next[c] = Tail(q)
    OBVIOUS
  <2> HIDE DEF q, X, next, rest
  <2>3. /\ Tail(q) \in Seq(X) /\ Len(Tail(q)) = Len(rest)
        /\ \A i \in 1..Len(rest) : Tail(q)[i] = q[i + 1]
    BY <1>6, <2>1
  <2>4. \A i \in 1..Len(rest) : Fits(Tail(q)[i], rest[i], Size(c))
    BY <1>6, <2>1, <2>3
  <2> QED
    BY <2>2, <2>3, <2>4 DEF SlotsFit, X
<1>8. DOMAIN next = Caches
  OBVIOUS
<1> HIDE DEF next, rest
<1>9. JobFits(rest, next)
  BY <1>6, <1>7, <1>8 DEF JobFits
<1> QED
  BY <1>9 DEF rest, next

\* The caches with an ubatch placed, whatever the rows.
LEMMA AppliedGood ==
  ASSUME KvInv, job # NoJob, NEW c \in Caches, NEW d
  PROVE  GoodCache([Applied(c) EXCEPT !.data = d], Size(c)) /\ Size(c) \in Nat
<1>1. Size(c) \in Nat /\ kv[c] \in GoodCaches(Size(c), kv[c].sc_info, kv[c].data)
  BY KvInvCaches
<1>2. Fits(Head(job.slots[c]), Ubatch, Size(c))
  BY JobHead
<1>3. Applied(c) \in GoodCaches(Size(c), kv[c].sc_info, kv[c].data)
  BY <1>1, <1>2, ApplyCache DEF Applied
<1>4. GoodCache(Applied(c), Size(c))
  BY <1>3, GoodIs
<1> QED
  BY <1>1, <1>4, RowsChange

LEMMA ProcessUbatchStep ==
  ASSUME KvInv, ProcessUbatch PROVE KvInv'
<1>1. job # NoJob /\ cfg' = cfg /\ cfg \in Configs
  BY DEF KvInv, ProcessUbatch
<1> DEFINE row == [i \in DOMAIN Ubatch |-> [tok |-> Ubatch[i].tok, rot |-> Ubatch[i].pos]]
           f == [c \in Caches |-> [Applied(c) EXCEPT !.data = Written(c, row)]]
<1>2. kv' = [c \in Caches |-> Tidy([Applied(c) EXCEPT !.data = Written(c, row)])]
  BY DEF ProcessUbatch
<1> HIDE DEF row
<1>3. \A c \in Caches : GoodCache(f[c], Size(c))
  <2>1. ASSUME NEW c \in Caches PROVE GoodCache([Applied(c) EXCEPT !.data = Written(c, row)], Size(c))
    BY <1>1, AppliedGood
  <2> QED
    BY <2>1
<1>4. kv' = [c \in Caches |-> Tidy(f[c])]
  BY <1>2
<1> HIDE DEF f
<1>5. GoodKv(kv')
  BY <1>1, <1>3, <1>4, TidyGood
<1>6. TextFits(text')
  <2>1. TextFits(text) /\ Ubatch \in Seq(Tokens) /\ Len(Ubatch) > 0
    BY <1>1, JobHead DEF KvInv
  <2>2. text' = [s \in Seqs |-> text[s] \cup
          {<<Ubatch[i].pos, Ubatch[i].tok>> : i \in {j \in DOMAIN Ubatch : s \in Ubatch[j].seqs}}]
    BY DEF ProcessUbatch
  <2> QED
    BY <2>1, <2>2, TextGrows
<1>7. JobIs(job')
  <2>1. CASE Len(job.ubs) = 1
    BY <2>1 DEF ProcessUbatch, JobIs
  <2>2. CASE Len(job.ubs) # 1
    <3>1. job' = [job EXCEPT !.ubs = Tail(@), !.slots = [c \in Caches |-> Tail(@[c])]]
      BY <2>2 DEF ProcessUbatch
    <3> DEFINE ubs == job.ubs
               slots == job.slots
               purged == job.purged
               floor == job.floor
               next == [c \in Caches |-> Tail(slots[c])]
    <3>2. /\ JobFits(ubs, slots)
          /\ job = [ubs |-> ubs, slots |-> slots, purged |-> purged, floor |-> floor]
      BY <1>1 DEF KvInv, JobIs
    <3>3. job' = [job EXCEPT !.ubs = Tail(ubs), !.slots = next]
      BY <3>1
    <3>4. JobFits(Tail(ubs), next)
      BY <2>2, <3>2, JobTail
    <3> HIDE DEF ubs, slots, purged, floor, next
    <3>5. job' = [ubs |-> Tail(ubs), slots |-> next, purged |-> purged, floor |-> floor]
      BY <3>2, <3>3
    <3>6. job'.ubs = Tail(ubs) /\ job'.slots = next /\ job'.purged = purged /\ job'.floor = floor
      BY <3>5
    <3> QED
      BY <3>4, <3>5, <3>6 DEF JobIs
  <2> QED
    BY <2>1, <2>2
<1> QED
  BY <1>1, <1>5, <1>6, <1>7, KvInvNext

LEMMA UbatchFailsStep ==
  ASSUME KvInv, UbatchFails PROVE KvInv'
<1>1. job # NoJob /\ cfg' = cfg /\ cfg \in Configs /\ job' = NoJob /\ TextFits(text')
  BY DEF KvInv, UbatchFails
<1> DEFINE none == [i \in DOMAIN Ubatch |-> Stale]
           At(c) == [Applied(c) EXCEPT !.data = Written(c, none)]
           f == [c \in Caches |-> Removed(At(c), Ubatch)]
<1>2. kv' = [c \in Caches |-> Tidy(Removed(At(c), Ubatch))]
  BY DEF UbatchFails, Removed, TakeOut, FirstPos, Firsts
<1>3. \A c \in Caches : GoodCache(f[c], Size(c))
  <2>1. ASSUME NEW c \in Caches PROVE GoodCache(Removed(At(c), Ubatch), Size(c))
    <3> DEFINE k == At(c)
    <3>1. GoodCache(k, Size(c)) /\ Size(c) \in Nat
      BY <1>1, AppliedGood
    <3> HIDE DEF k
    <3>2. Ubatch \in Seq(Tokens)
      BY <1>1, JobHead
    <3>3. Removed(k, Ubatch) \in GoodCaches(Size(c), k.sc_info, k.data)
      BY <3>1, <3>2, RemoveFold DEF GoodCache
    <3>4. GoodCache(Removed(k, Ubatch), Size(c))
      BY <3>3, GoodIs
    <3> QED
      BY <3>4 DEF k
  <2> QED
    BY <2>1
<1>4. kv' = [c \in Caches |-> Tidy(f[c])]
  BY <1>2
<1> HIDE DEF f
<1>5. GoodKv(kv')
  BY <1>1, <1>3, <1>4, TidyGood
<1>6. JobIs(job')
  BY <1>1 DEF JobIs
<1> QED
  BY <1>1, <1>5, <1>6, KvInvNext

\* The caches after memory_update, whatever fails.
LEMMA UpdatedGood ==
  ASSUME cfg \in Configs, NEW caches, GoodKv(caches), NEW k \in Updated(caches)
  PROVE  GoodKv(k)
<1>1. PICK failed : k = [c \in Caches |-> update(caches[c], c \notin failed)]
  BY DEF Updated
<1>2. ASSUME NEW c \in Caches PROVE GoodCache(update(caches[c], c \notin failed), Size(c))
  <2>1. Size(c) \in Nat /\ GoodCache(caches[c], Size(c))
    BY SizePos DEF GoodKv
  <2> QED
    BY <2>1, UpdateCache
<1> QED
  BY <1>1, <1>2, Zenon DEF GoodKv

\* Every search for slots ends with good caches, and with slots that fit when
\* it found some.
LEMMA SearchGood ==
  ASSUME cfg \in Configs, GoodKv(kv), NEW batch \in Seq(Tokens), NEW r \in Searches(batch)
  PROVE  GoodSearch(r)
<1> DEFINE first == {init_batch(k, batch) : k \in Updated(kv)}
           more == UNION {Updated(q.kv) : q \in {f \in first : Retry(f)}}
           again == {init_batch(k, batch) : k \in more}
<1>1. r \in first \/ r \in again
  BY DEF Searches
<1>2. ASSUME NEW k, GoodKv(k) PROVE GoodSearch(init_batch(k, batch))
  BY <1>2, InitBatchGood
<1>3. ASSUME NEW q \in first PROVE GoodSearch(q)
  <2>1. PICK k \in Updated(kv) : q = init_batch(k, batch)
    OBVIOUS
  <2> QED
    BY <1>2, <2>1, UpdatedGood
<1> HIDE DEF first
<1>4. ASSUME NEW q \in again PROVE GoodSearch(q)
  <2>1. PICK k \in more : q = init_batch(k, batch)
    OBVIOUS
  <2>2. PICK w \in first : k \in Updated(w.kv)
    BY <2>1
  <2>3. GoodKv(w.kv)
    BY <1>3 DEF GoodSearch
  <2> QED
    BY <1>2, <2>1, <2>2, <2>3, UpdatedGood
<1> QED
  BY <1>1, <1>3, <1>4

LEMMA DecodeStep ==
  ASSUME KvInv, NEW q \in BatchShapes, Decode(q) PROVE KvInv'
<1>1. cfg' = cfg /\ cfg \in Configs /\ GoodKv(kv) /\ TextFits(text') /\ JobIs(job)
  BY DEF KvInv, Decode
<1>2. BatchOf(q) \in Seq(Tokens)
  <2>1. PICK N \in Nat : TextBound(N)
    BY DEF KvInv, TextFits, TextBound
  <2> QED
    BY <1>1, <2>1, BatchIs
<1> DEFINE Taken(r) == [ubs |-> r.ubs, slots |-> r.slots,
                        purged |-> \E s \in Seqs : Dropped(r.kv, s) # {},
                        floor |-> [s \in Seqs |-> pos_min(s)]]
<1>3. PICK r \in Searches(BatchOf(q)) :
        \/ r.found /\ kv' = r.kv /\ job' = Taken(r)
        \/ kv' = [c \in Caches |-> Tidy(r.kv[c])] /\ job' = job
  BY DEF Decode
<1>4. GoodSearch(r)
  BY <1>1, <1>2, SearchGood
<1>5. CASE r.found /\ kv' = r.kv /\ job' = Taken(r)
  <2>1. GoodKv(kv') /\ JobFits(r.ubs, r.slots)
    BY <1>4, <1>5 DEF GoodSearch
  <2>2. job'.ubs = r.ubs /\ job'.slots = r.slots
    BY <1>5
  <2>3. job' = [ubs |-> job'.ubs, slots |-> job'.slots, purged |-> job'.purged, floor |-> job'.floor]
    BY <1>5
  <2>4. JobIs(job')
    BY <2>1, <2>2, <2>3 DEF JobIs
  <2> QED
    BY <1>1, <2>1, <2>4, KvInvNext
<1>6. CASE kv' = [c \in Caches |-> Tidy(r.kv[c])] /\ job' = job
  <2> DEFINE f == r.kv
  <2>1. \A c \in Caches : GoodCache(f[c], Size(c))
    BY <1>4 DEF GoodSearch, GoodKv
  <2>2. kv' = [c \in Caches |-> Tidy(f[c])]
    BY <1>6
  <2> HIDE DEF f
  <2>3. GoodKv(kv')
    BY <1>1, <2>1, <2>2, TidyGood
  <2> QED
    BY <1>1, <1>6, <2>3, KvInvNext
<1> QED
  BY <1>3, <1>5, <1>6

\* The invariant is inductive, as long as a unified context only copies into
\* sequences without cells.
LEMMA KvStep ==
  ASSUME KvInv, Separate, [Next]_vars PROVE KvInv'
<1>1. CASE Clear
  BY <1>1, ClearStep
<1>2. CASE \E s \in Seqs, n \in 0..cfg.kv_size : KeepPrefix(s, n)
  BY <1>2, KeepPrefixStep
<1>3. CASE \E n \in 0..cfg.kv_size : KeepPrefixAll(n)
  BY <1>3, KeepPrefixAllStep
<1>4. CASE \E a, b \in Seqs : SeqCp(a, b)
  BY <1>4, SeqCpStep
<1>5. CASE \E s \in Seqs : SeqKeep(s)
  BY <1>5, SeqKeepStep
<1>6. CASE \E s \in Seqs, keep \in KeepLengths : ContextShift(s, keep)
  BY <1>6, ContextShiftStep
<1>7. CASE \E s \in Seqs : SelfExtend(s)
  BY <1>7, SelfExtendStep
<1>8. CASE \E q \in BatchShapes : Decode(q)
  BY <1>8, DecodeStep
<1>9. CASE ProcessUbatch
  BY <1>9, ProcessUbatchStep
<1>10. CASE UbatchFails
  BY <1>10, UbatchFailsStep
<1>11. CASE UNCHANGED vars
  <2>1. cfg \in Configs /\ cfg' = cfg /\ GoodKv(kv') /\ JobIs(job') /\ TextFits(text')
    BY <1>11 DEF vars, KvInv
  <2> QED
    BY <2>1, KvInvNext
<1> QED
  BY <1>1, <1>2, <1>3, <1>4, <1>5, <1>6, <1>7, <1>8, <1>9, <1>10, <1>11 DEF Next

\* A cache that holds exactly the texts has no cell of a sequence without one.
LEMMA TextSeparates ==
  ASSUME CachesHoldText PROVE Separate
<1> SUFFICES ASSUME NEW b \in Seqs, cfg.unified, "coupled" \notin known, text[b] = {},
                    NEW c \in Caches, NEW st \in Streams, NEW i \in Cells(kv[c].cells[st]),
                    b \in kv[c].cells[st].seq[i]
             PROVE  FALSE
  BY DEF Separate, NoCell
<1>1. st = seq_to_stream(b)
  BY DEF Streams, seq_to_stream
<1>2. Held(kv[c], b) # {}
  BY <1>1 DEF Held
<1>3. Held(kv["base"], b) = {} /\ Held(kv["swa"], b) = {}
  BY DEF CachesHoldText
<1> QED
  BY <1>2, <1>3 DEF Caches

\* The only sequence of a context is never copied.
LEMMA AloneSeparates ==
  ASSUME KvInv, \A c \in Configs : c.unified => Cardinality(Seqs) = 1 PROVE Separate
<1>1. ASSUME cfg.unified, NEW a \in Seqs, NEW b \in Seqs PROVE a = b
  <2>1. Cardinality(Seqs) = 1
    BY <1>1 DEF KvInv
  <2>2. Seqs = 0..0
    BY <2>1, KvAssumption
  <2> QED
    BY <2>2
<1> QED
  BY <1>1 DEF Separate

\* Where every sequence has a stream of its own, or there is only one, the
\* bookkeeping of both caches' cell tables (used, seq_pos of llama_kv_cells)
\* stays exact through every sequence of memory calls, decodes, undone
\* placements and failed ubatches, for caches, batches and windows of any size.
THEOREM TablesExactByStream ==
  ASSUME \A c \in Configs : c.unified => Cardinality(Seqs) = 1
  PROVE  Spec => []TableExact
<1>1. Init => KvInv
  BY KvInit
<1>2. KvInv /\ [Next]_vars => KvInv'
  BY AloneSeparates, KvStep
<1>3. KvInv => TableExact
  BY KvInvGives
<1> QED
  BY <1>1, <1>2, <1>3, PTL DEF Spec

\* In a unified context with several sequences it stays exact as long as the
\* caches hold the callers' texts: seq_cp's target then owns no cell of the
\* shared stream, and no sequence enters a position bag twice for one cell.
THEOREM TablesExactHoldingText ==
  Spec /\ []CachesHoldText => []TableExact
<1>1. Init => KvInv
  BY KvInit
<1>2. KvInv /\ CachesHoldText /\ [Next]_vars => KvInv'
  BY TextSeparates, KvStep
<1>3. KvInv => TableExact
  BY KvInvGives
<1> QED
  BY <1>1, <1>2, <1>3, PTL DEF Spec
=============================================================================
