------------------------------ MODULE FoldRule ------------------------------
(***************************************************************************)
(* Induction along a fold.  The proofs about a loop need a rule for any     *)
(* step and any invariant, and the prover cannot give a theorem operators.  *)
(* As constants of a module they are given by INSTANCE.                     *)
(*                                                                          *)
(* Both take the context c of the loop first: whatever stays the same in it *)
(* and is not state.                                                        *)
(***************************************************************************)
EXTENDS Folds, WellFoundedInduction, TLAPS

CONSTANTS
    Op(_, _, _),       \* the step, from a value and an element
    Holds(_, _, _, _)  \* of a sequence, of how much of it is done and a value

Largest(S) == CHOOSE x \in S : \A y \in S : x >= y

(* FoldLeft of SequencesExt written out, without the rest of that module,   *)
(* of which every instance would hold a copy.                               *)
Fold(c, base, seq) ==
    MapThenFoldSet(LAMBDA e, x : Op(c, x, e), base,
                   LAMBDA i : seq[i], LAMBDA S : Largest(S), DOMAIN seq)

LEMMA LeastOf ==
    ASSUME NEW T \in SUBSET Nat, T # {}
    PROVE  \E x \in T : \A y \in T : x <= y
<1> DEFINE R == OpToRel(<, Nat)
<1>1. PICK x \in T : \A y \in T : ~ (<<y, x>> \in R)
  <2>1. IsWellFoundedOn(R, Nat)
    BY NatLessThanWellFounded
  <2> HIDE DEF R
  <2> QED
    BY <2>1, WFMin
<1>2. \A y \in T : y < x => <<y, x>> \in R
  BY DEF OpToRel
<1>3. \A y \in T : ~ (y < x)
  BY <1>1, <1>2
<1> QED
  BY <1>3

(* The function of sets of indices that a fold is defined by.               *)
Iter(f, c, base, seq, k) ==
    f = [s \in SUBSET (1 .. k) |->
            IF s = {} THEN base ELSE Op(c, f[s \ {Largest(s)}], seq[Largest(s)])]

LEMMA LargestOf ==
    ASSUME NEW k \in Nat, NEW s \in SUBSET (1 .. k + 1), k + 1 \in s
    PROVE  Largest(s) = k + 1
<1>1. \A t \in s : t \in 1 .. k + 1
  OBVIOUS
<1>2. \A t \in s : k + 1 >= t
  BY <1>1
<1>3. \A x \in s : (\A t \in s : x >= t) => x = k + 1
  BY <1>1
<1> QED
  BY <1>2, <1>3 DEF Largest

LEMMA IterExtends ==
    ASSUME NEW c, NEW base, NEW seq, NEW k \in Nat, NEW g, Iter(g, c, base, seq, k)
    PROVE  \E f : Iter(f, c, base, seq, k + 1)
<1> DEFINE f == [s \in SUBSET (1 .. k + 1) |->
                    IF s \in SUBSET (1 .. k) THEN g[s] ELSE Op(c, g[s \ {k + 1}], seq[k + 1])]
           At(s) == IF s = {} THEN base ELSE Op(c, f[s \ {Largest(s)}], seq[Largest(s)])
<1>1. 1 .. k \subseteq 1 .. k + 1
  OBVIOUS
<1>2. \A s \in SUBSET (1 .. k) : f[s] = g[s]
  BY <1>1
<1>3. \A s \in SUBSET (1 .. k) :
         g[s] = IF s = {} THEN base ELSE Op(c, g[s \ {Largest(s)}], seq[Largest(s)])
  BY DEF Iter
<1>4. ASSUME NEW s \in SUBSET (1 .. k + 1) PROVE f[s] = At(s)
  <2>1. CASE s \in SUBSET (1 .. k)
    <3>1. s \ {Largest(s)} \in SUBSET (1 .. k)
      BY <2>1
    <3> QED
      BY <1>2, <1>3, <2>1, <3>1
  <2>2. CASE s \notin SUBSET (1 .. k)
    <3>1. k + 1 \in s
      <4>1. PICK t \in s : t \notin 1 .. k
        BY <2>2
      <4>2. t \in 1 .. k + 1
        BY <4>1
      <4>3. t = k + 1
        BY <4>1, <4>2
      <4> QED
        BY <4>1, <4>3
    <3>2. Largest(s) = k + 1
      BY <3>1, LargestOf
    <3>3. s \ {k + 1} \in SUBSET (1 .. k)
      <4>1. \A t \in s \ {k + 1} : t \in 1 .. k + 1 /\ t # k + 1
        OBVIOUS
      <4>2. \A t \in s \ {k + 1} : t \in 1 .. k
        BY <4>1
      <4> QED
        BY <4>2
    <3>4. f[s] = Op(c, g[s \ {k + 1}], seq[k + 1])
      BY <2>2
    <3>5. f[s \ {k + 1}] = g[s \ {k + 1}]
      BY <1>2, <3>3
    <3> QED
      BY <3>1, <3>2, <3>4, <3>5
  <2> QED
    BY <2>1, <2>2
<1>5. f = [s \in SUBSET (1 .. k + 1) |-> At(s)]
  <2>1. f = [s \in SUBSET (1 .. k + 1) |-> f[s]]
    OBVIOUS
  <2> HIDE DEF f
  <2> QED
    BY <1>4, <2>1, Zenon
<1> HIDE DEF f
<1>6. Iter(f, c, base, seq, k + 1)
  BY <1>5 DEF Iter
<1> QED
  BY <1>6

LEMMA IterExists ==
    ASSUME NEW c, NEW base, NEW seq, NEW n \in Nat
    PROVE  \E f : Iter(f, c, base, seq, n)
<1> DEFINE T == {k \in Nat : ~ \E f : Iter(f, c, base, seq, k)}
<1>1. SUFFICES ASSUME T # {} PROVE FALSE
  OBVIOUS
<1>2. PICK k \in T : \A j \in T : k <= j
  <2>1. T \in SUBSET Nat
    OBVIOUS
  <2> HIDE DEF T
  <2> QED
    BY <1>1, <2>1, LeastOf
<1>3. Iter([s \in SUBSET (1 .. 0) |-> base], c, base, seq, 0)
  <2>1. SUBSET (1 .. 0) = {{}}
    OBVIOUS
  <2> QED
    BY <2>1 DEF Iter
<1>4. k - 1 \in Nat /\ k - 1 \notin T
  BY <1>2, <1>3
<1>5. PICK g : Iter(g, c, base, seq, k - 1)
  BY <1>4
<1>6. \E f : Iter(f, c, base, seq, (k - 1) + 1)
  BY <1>4, <1>5, IterExtends
<1>7. (k - 1) + 1 = k
  BY <1>2
<1> QED
  BY <1>2, <1>6, <1>7

(* The values the step makes of one another; a fold is the last of them.    *)
AreValues(f, c, base, seq, n) ==
    /\ f = [k \in 0 .. n |-> f[k]]
    /\ f[0] = base /\ f[n] = Fold(c, base, seq)
    /\ \A k \in 1 .. n : f[k] = Op(c, f[k - 1], seq[k])

LEMMA Values ==
    \A c, base, seq : \A n \in Nat :
       DOMAIN seq = 1 .. n =>
          \E f : AreValues(f, c, base, seq, n)
<1> SUFFICES ASSUME NEW c, NEW base, NEW seq, NEW n \in Nat, DOMAIN seq = 1 .. n
             PROVE  \E f : AreValues(f, c, base, seq, n)
  OBVIOUS
<1>1. PICK g : g = CHOOSE h : Iter(h, c, base, seq, n)
  OBVIOUS
<1>2. Iter(g, c, base, seq, n)
  BY <1>1, IterExists
<1>3. Fold(c, base, seq) = g[1 .. n]
  BY <1>1 DEF Fold, MapThenFoldSet, Iter
<1> DEFINE f == [k \in 0 .. n |-> g[1 .. k]]
<1>4. g[{}] = base
  BY <1>2 DEF Iter
<1>5. 1 .. 0 = {}
  OBVIOUS
<1>6. ASSUME NEW k \in 1 .. n PROVE f[k] = Op(c, f[k - 1], seq[k])
  <2>1. k - 1 \in Nat /\ k - 1 \in 0 .. n /\ k \in 0 .. n /\ k = (k - 1) + 1
    OBVIOUS
  <2>2. 1 .. k \in SUBSET (1 .. n) /\ k \in 1 .. k
    OBVIOUS
  <2>3. Largest(1 .. k) = k
    <3>1. 1 .. k \in SUBSET (1 .. (k - 1) + 1) /\ (k - 1) + 1 \in 1 .. k
      OBVIOUS
    <3>2. Largest(1 .. k) = (k - 1) + 1
      BY <2>1, <3>1, LargestOf
    <3> QED
      BY <2>1, <3>2
  <2>4. (1 .. k) \ {k} = 1 .. k - 1
    OBVIOUS
  <2>5. g[1 .. k] = IF 1 .. k = {} THEN base ELSE Op(c, g[(1 .. k) \ {Largest(1 .. k)}], seq[Largest(1 .. k)])
    BY <1>2, <2>2 DEF Iter
  <2>6. g[1 .. k] = Op(c, g[1 .. k - 1], seq[k])
    BY <2>2, <2>3, <2>4, <2>5
  <2> QED
    BY <2>1, <2>6
<1>7. f[0] = base /\ f[n] = Fold(c, base, seq) /\ f = [k \in 0 .. n |-> f[k]]
  BY <1>3, <1>4, <1>5
<1> HIDE DEF f
<1>8. AreValues(f, c, base, seq, n)
  BY <1>6, <1>7 DEF AreValues
<1> QED
  BY <1>8

(* What holds before a loop and is kept by every step holds after it.       *)
THEOREM Rule ==
    \A c, base, seq : \A n \in Nat :
       /\ DOMAIN seq = 1 .. n
       /\ Holds(c, seq, 0, base)
       /\ \A k \in 1 .. n : \A x :
             Holds(c, seq, k - 1, x) => Holds(c, seq, k, Op(c, x, seq[k]))
       => Holds(c, seq, n, Fold(c, base, seq))
<1> SUFFICES ASSUME NEW c, NEW base, NEW seq, NEW n \in Nat, DOMAIN seq = 1 .. n,
                    Holds(c, seq, 0, base),
                    \A k \in 1 .. n : \A x :
                       Holds(c, seq, k - 1, x) => Holds(c, seq, k, Op(c, x, seq[k]))
             PROVE  Holds(c, seq, n, Fold(c, base, seq))
  OBVIOUS
<1>0. PICK f : AreValues(f, c, base, seq, n)
  BY Values
<1>1. /\ f[0] = base /\ f[n] = Fold(c, base, seq)
      /\ \A k \in 1 .. n : f[k] = Op(c, f[k - 1], seq[k])
  BY <1>0 DEF AreValues
<1> DEFINE T == {k \in 0 .. n : ~Holds(c, seq, k, f[k])}
<1>2. T = {}
  <2>1. SUFFICES ASSUME T # {} PROVE FALSE
    OBVIOUS
  <2>2. PICK k \in T : \A j \in T : k <= j
    <3>1. T \in SUBSET Nat
      OBVIOUS
    <3> HIDE DEF T
    <3> QED
      BY <2>1, <3>1, LeastOf
  <2>3. k \in 1 .. n /\ ~Holds(c, seq, k, f[k])
    BY <1>1, <2>2
  <2>4. k - 1 \in 0 .. n /\ k - 1 \notin T
    BY <2>2, <2>3
  <2>5. Holds(c, seq, k - 1, f[k - 1])
    BY <2>4
  <2>6. Holds(c, seq, k, Op(c, f[k - 1], seq[k]))
    BY <2>3, <2>5
  <2> QED
    BY <1>1, <2>3, <2>6
<1>3. Holds(c, seq, n, f[n])
  BY <1>2
<1> QED
  BY <1>1, <1>3
=============================================================================
