------------------------- MODULE DisassemblerProofs -------------------------
(***************************************************************************)
(* Proofs about the disassembly, for ROMs of any size with any op codes and *)
(* operands: that no byte of the ROM is dropped or held twice, that labels  *)
(* keep their addresses, and that code and jump tables are followed to      *)
(* their ends.                                                              *)
(*                                                                          *)
(* All of them rest on what every step of the marking keeps (Progress):     *)
(* elements leave the list only as unlabelled bytes, map and list only      *)
(* shrink, and what has become an instruction stays one.                    *)
(***************************************************************************)
EXTENDS Disassembler, FiniteSetTheorems, SequenceTheorems, WellFoundedInduction, TLAPS

(* Induction over the naturals, said of a set.                              *)
LEMMA LeastNatural ==
    ASSUME NEW T \in SUBSET Nat, T # {}
    PROVE  \E x \in T : \A y \in T : x <= y
<1> DEFINE R == OpToRel(<, Nat)
<1>1. PICK x \in T : \A y \in T : ~ (<<y, x>> \in R)
  <2>1. IsWellFoundedOn(R, Nat)
    BY NatLessThanWellFounded
  <2> HIDE DEF R
  <2> QED
    BY <2>1, WFMin
<1>2. \A y \in T : y < x => <<y, x>> \in R
  BY DEF OpToRel
<1>3. \A y \in T : ~ (y < x)
  BY <1>1, <1>2
<1> QED
  BY <1>3

LEMMA GreatestNatural ==
    ASSUME NEW bound \in Nat, NEW T \in SUBSET (0 .. bound), T # {}
    PROVE  \E x \in T : \A y \in T : y <= x
<1> DEFINE D == {bound - t : t \in T}
<1>1. PICK d \in D : \A e \in D : d <= e
  <2>1. D \in SUBSET Nat /\ D # {}
    <3>1. \A t \in T : bound - t \in Nat
      <4> TAKE t \in T
      <4>1. t \in 0 .. bound
        OBVIOUS
      <4> QED
        BY <4>1
    <3> QED
      BY <3>1
  <2> HIDE DEF D
  <2> QED
    BY <2>1, LeastNatural
<1>2. PICK x \in T : d = bound - x
  BY <1>1
<1>3. \A y \in T : y <= x
  <2> TAKE y \in T
  <2>1. d <= bound - y
    BY <1>1
  <2> QED
    BY <1>2, <2>1
<1> QED
  BY <1>3

-----------------------------------------------------------------------------
(* What the state is made of.                                               *)

Bank == BankSize[banks]

(* The home an address has, as long as it is mapped.                        *)
HomeOf(a) ==
    IF a \in Homes THEN a
    ELSE IF banks = 1 /\ a + Bank \in Homes THEN a + Bank ELSE None

Kind(h) == statement[h].kind

Byte == [kind : {"byte"}]
Instruction ==
    [kind : {"instruction"}, code : OpCodes \cap DOMAIN Shape, addr : Int,
     value : Int, label : Int]
DataWord == [kind : {"open", "number", "reference"}, value : Int, label : Int]
Call == [op : {"mark", "word", "label", "return"}, addr : Int, arg : Int]

StatementsTyped ==
    /\ DOMAIN statement = Homes
    /\ \A h \in Homes : statement[h] \in Byte \cup Instruction \cup DataWord

OpCodesTyped ==
    DOMAIN opcode \subseteq Homes /\ \A h \in DOMAIN opcode : opcode[h] \in OpCodes

ElementsTyped ==
    /\ list \subseteq offsets /\ offsets \subseteq Homes
    /\ banks = 2 => list = offsets

LabelsTyped == \A l \in labels : l \in [name : Int, home : Homes]

Typed ==
    /\ banks \in 1 .. 2 /\ phase \in {"running", "done", "panicked"}
    /\ OpCodesTyped /\ StatementsTyped /\ ElementsTyped /\ LabelsTyped
    /\ work \in Seq(Call) /\ dynJumps \in Seq(Int)
    /\ \A v \in DOMAIN jumpTables : jumpTables[v] \in BOOLEAN

LEMMA Layout ==
    ASSUME banks \in 1 .. 2
    PROVE  /\ Bank \in Nat \ {0} /\ 2 * VectorCount <= Bank /\ VectorCount \in Nat
           /\ End = 4 * Bank /\ PrgStart = 2 * Bank
           /\ End \in Nat /\ Start \in Nat /\ PrgStart \in Nat
           /\ Start = (IF banks = 1 THEN 3 * Bank ELSE 2 * Bank)
           /\ Homes = Start .. End - 1 /\ Homes \subseteq 0 .. End
           /\ None \notin Homes
<1>1. Bank \in Nat \ {0} /\ 2 * VectorCount <= Bank /\ VectorCount \in Nat
  BY DisassemblerAssumption DEF Bank
<1>2. End = 4 * Bank /\ PrgStart = 2 * Bank
  BY DEF End, PrgStart, Bank
<1>3. Start = End - banks * Bank /\ Homes = Start .. End - 1
  BY DEF Homes, Start, Bank
<1>4. CASE banks = 1
  BY <1>1, <1>2, <1>3, <1>4 DEF None
<1>5. CASE banks = 2
  BY <1>1, <1>2, <1>3, <1>5 DEF None
<1> QED
  BY <1>4, <1>5

(* The map gives an address its home or nothing.                            *)
LEMMA ElemIsHome ==
    ASSUME banks \in 1 .. 2, NEW offs \in SUBSET Homes, NEW a \in Int
    PROVE  ElemAtAddr(offs, a) = IF HomeOf(a) \in offs THEN HomeOf(a) ELSE None
<1>1. banks = 1 => BankSize[1] = Bank
  BY DEF Bank
<1>2. CASE banks = 1
  <2>1. Bank \in Nat \ {0} /\ End = 4 * Bank
    BY Layout
  <2>2. \A x : x \in Homes <=> x \in Int /\ 3 * Bank <= x /\ x < 4 * Bank
    BY <1>2, Layout
  <2>3. ElemAtAddr(offs, a) =
           IF a \in offs THEN a
           ELSE IF a < End - Bank /\ a + Bank \in offs THEN a + Bank ELSE None
    BY <1>1, <1>2 DEF ElemAtAddr
  <2>4. HomeOf(a) = IF a \in Homes THEN a
                    ELSE IF a + Bank \in Homes THEN a + Bank ELSE None
    BY <1>2 DEF HomeOf
  <2>5. CASE a \in Homes
    <3>1. ~ (a < End - Bank) /\ HomeOf(a) = a
      BY <2>1, <2>2, <2>4, <2>5
    <3> QED
      BY <2>3, <3>1
  <2>6. CASE a \notin Homes
    <3>1. a + Bank \in Homes => a < End - Bank
      BY <2>1, <2>2
    <3>2. None \notin Homes
      BY Layout
    <3> QED
      BY <2>3, <2>4, <2>6, <3>1, <3>2
  <2> QED
    BY <2>5, <2>6
<1>3. CASE banks # 1
  BY <1>3, Layout DEF ElemAtAddr, HomeOf
<1> QED
  BY <1>2, <1>3

LEMMA ShapeFacts ==
    ASSUME NEW c \in DOMAIN Shape
    PROVE  /\ Shape[c].size \in 1 .. 3
           /\ Shape[c].label \in {"none", "may", "must"}
           /\ Shape[c].label # "none" => Shape[c].size > 1
           /\ Shape[c].next \in {<< >>, <<"after">>, <<"target">>,
                                 <<"after", "target">>, <<"target", "return">>}
           /\ "bad" \notin DOMAIN Shape
           /\ c = "jsr" => Shape[c].next = <<"target", "return">> /\ Shape[c].size = 3
BY DEF Shape

-----------------------------------------------------------------------------
(* Neighbours in the list.                                                  *)
LEMMA NextHomeIs ==
    ASSUME Typed, NEW h \in list
    PROVE  \/ NextHome(h) = None /\ \A x \in list : x <= h
           \/ NextHome(h) \in list /\ NextHome(h) > h
              /\ \A x \in list : x > h => NextHome(h) <= x
<1> DEFINE later == {n \in list : n > h}
<1>1. list \subseteq Nat
  BY Layout DEF Typed, ElementsTyped
<1>2. CASE later = {}
  BY <1>1, <1>2 DEF NextHome
<1>3. CASE later # {}
  <2>1. PICK m \in later : \A x \in later : m <= x
    BY <1>1, <1>3, LeastNatural
  <2>2. NextHome(h) = Min(later)
    BY <1>1, <1>3 DEF NextHome
  <2>3. Min(later) \in later /\ \A x \in later : Min(later) <= x
    BY <2>1 DEF Min
  <2> QED
    BY <2>2, <2>3
<1> QED
  BY <1>2, <1>3

LEMMA PrevHomeIs ==
    ASSUME Typed, NEW h \in Homes
    PROVE  \/ PrevHome(h) = None /\ \A x \in list : x >= h
           \/ PrevHome(h) \in list /\ PrevHome(h) < h
              /\ \A x \in list : x < h => x <= PrevHome(h)
<1> DEFINE earlier == {p \in list : p < h}
<1>1. list \subseteq 0 .. End /\ End \in Nat /\ h \in Nat
  BY Layout DEF Typed, ElementsTyped
<1>2. CASE earlier = {}
  BY <1>1, <1>2 DEF PrevHome
<1>3. CASE earlier # {}
  <2>1. PICK m \in earlier : \A x \in earlier : x <= m
    BY <1>1, <1>3, GreatestNatural
  <2>2. PrevHome(h) = Max(earlier)
    BY <1>1, <1>3 DEF PrevHome
  <2>3. Max(earlier) \in earlier /\ \A x \in earlier : x <= Max(earlier)
    BY <1>1, <2>1 DEF Max
  <2> QED
    BY <2>2, <2>3
<1> QED
  BY <1>2, <1>3

(* The labels in front of an element are behind every element before it.    *)
LEMMA LabelsBeforeAre ==
    ASSUME Typed, NEW h
    PROVE  \A l : l \in LabelsBefore(h) <=>
                     /\ h \in list /\ l \in labels /\ l.home <= h
                     /\ \A p \in list : p < h => p < l.home
<1>1. CASE h \notin list
  BY <1>1 DEF LabelsBefore
<1>2. CASE h \in list
  <2>1. h \in Homes /\ Homes \subseteq Nat /\ list \subseteq Nat
    <3>1. Homes \subseteq Nat
      BY Layout DEF Typed
    <3> QED
      BY <1>2, <3>1 DEF Typed, ElementsTyped
  <2>2. \A l \in labels : l.home \in Nat
    BY <2>1 DEF Typed, LabelsTyped
  <2>3. LabelsBefore(h) = {l \in labels : PrevHome(h) < l.home /\ l.home <= h}
    BY <1>2 DEF LabelsBefore
  <2>4. ASSUME NEW l \in labels
        PROVE  PrevHome(h) < l.home <=> \A p \in list : p < h => p < l.home
    <3>1. l.home \in Nat
      BY <2>2
    <3>2. CASE PrevHome(h) = None /\ \A x \in list : x >= h
      BY <2>1, <3>1, <3>2 DEF None
    <3>3. CASE /\ PrevHome(h) \in list /\ PrevHome(h) < h
               /\ \A x \in list : x < h => x <= PrevHome(h)
      <4>1. PICK q \in list : /\ q = PrevHome(h) /\ q < h
                              /\ \A x \in list : x < h => x <= q
        BY <3>3
      <4>2. q < l.home <=> \A p \in list : p < h => p < l.home
        BY <2>1, <3>1, <4>1
      <4> QED
        BY <4>1, <4>2
    <3> QED
      BY <2>1, <3>2, <3>3, PrevHomeIs
  <2> QED
    BY <1>2, <2>3, <2>4
<1> QED
  BY <1>1, <1>2

LEMMA NextByteIs ==
    ASSUME Typed, NEW h, NextByte(h) # None
    PROVE  /\ h \in list /\ NextByte(h) = NextHome(h)
           /\ NextByte(h) \in list /\ NextByte(h) > h
           /\ \A x \in list : x > h => NextByte(h) <= x
           /\ LabelsBefore(NextByte(h)) = {} /\ ByteLike(NextByte(h))
<1>1. PICK n \in list : n = NextHome(h) /\ LabelsBefore(n) = {} /\ ByteLike(n)
  BY DEF NextByte
<1>2. NextByte(h) = NextHome(h)
  BY DEF NextByte
<1>3. n # None
  BY <1>1, Layout DEF Typed, ElementsTyped
<1>4. h \in list
  BY <1>1, <1>3 DEF NextHome
<1> QED
  BY <1>1, <1>2, <1>3, <1>4, NextHomeIs

LEMMA TypedSets ==
    ASSUME Typed
    PROVE  /\ Homes \subseteq Int /\ Homes \subseteq Nat /\ None \notin Homes
           /\ list \subseteq Homes /\ offsets \subseteq Homes /\ list \subseteq offsets
           /\ StatementsTyped
<1>1. Homes \subseteq 0 .. End /\ None \notin Homes
  BY Layout DEF Typed
<1>2. list \subseteq offsets /\ offsets \subseteq Homes /\ StatementsTyped
  BY DEF Typed, ElementsTyped
<1> QED
  BY <1>1, <1>2

LEMMA ByteLikeIs ==
    ASSUME Typed, NEW h \in Homes
    PROVE  ByteLike(h) <=> Kind(h) \in {"byte", "number"}
BY Layout DEF Typed, ByteLike, Kind

-----------------------------------------------------------------------------
(* Removing an operand takes the bytes behind the op code off the list, and *)
(* nothing else: those of them still there pass for bytes and carry no      *)
(* label.                                                                   *)
Leaves(newList, newOffsets, h, n) ==
    /\ newList = list \ (h + 1 .. h + n - 1)
    /\ newOffsets \subseteq offsets /\ newList \subseteq newOffsets
    /\ banks = 2 => newList = newOffsets
    /\ n > 1 => h \in list
    /\ \A e \in h + 1 .. h + n - 1 : e \in offsets
    /\ \A e \in list \ newList : ByteLike(e) /\ LabelsBefore(e) = {}

LEMMA OperandLeaves ==
    ASSUME Typed, NEW a \in Int, NEW h \in offsets, h = Elem(a), NEW n \in 1 .. 3,
           HasOperand(h, n), NEW s, s = OperandRemoved(a, n), s.ok
    PROVE  Leaves(s.list, s.offsets, h, n)
<1> DEFINE whole == [list |-> list, offsets |-> offsets, ok |-> TRUE]
           first == RemoveElemAt(whole, a + 1)
<1>1. /\ Bank \in Nat \ {0} /\ End = 4 * Bank /\ None \notin Homes
      /\ \A x : x \in Homes <=> x \in Int /\ Start <= x /\ x < 4 * Bank
      /\ Start = (IF banks = 1 THEN 3 * Bank ELSE 2 * Bank)
  <2>1. banks \in 1 .. 2
    BY DEF Typed
  <2>2. /\ Bank \in Nat \ {0} /\ End = 4 * Bank /\ None \notin Homes
        /\ Start = (IF banks = 1 THEN 3 * Bank ELSE 2 * Bank)
        /\ Homes = Start .. End - 1
    BY <2>1, Layout
  <2>3. Start \in Nat
    BY <2>1, Layout
  <2> QED
    BY <2>2, <2>3
<1>2. list \subseteq offsets /\ offsets \subseteq Homes /\ (banks = 2 => list = offsets)
  BY DEF Typed, ElementsTyped
<1>3. h \in Homes /\ (a = h \/ (banks = 1 /\ a + Bank = h /\ a \notin Homes))
  <2>1. h = IF HomeOf(a) \in offsets THEN HomeOf(a) ELSE None
    BY <1>2, ElemIsHome DEF Typed, Elem
  <2>2. h \in Homes
    BY <1>2
  <2>3. h # None
    BY <1>1, <2>2
  <2>4. h = HomeOf(a)
    BY <2>1, <2>3
  <2> QED
    BY <2>2, <2>3, <2>4 DEF HomeOf
<1>4. CASE n = 1
  <2>1. s = whole
    BY <1>4 DEF OperandRemoved
  <2>2. h + 1 .. h + n - 1 = {}
    BY <1>1, <1>3, <1>4
  <2> QED
    BY <1>2, <1>4, <2>1, <2>2 DEF Leaves
<1>5. ASSUME n > 1
      PROVE  /\ h \in list /\ NextByte(h) \in list /\ NextByte(h) > h
             /\ \A x \in list : x > h => NextByte(h) <= x
             /\ LabelsBefore(NextByte(h)) = {} /\ ByteLike(NextByte(h))
  <2>1. NextByte(h) # None
    BY <1>5 DEF HasOperand
  <2> QED
    BY <2>1, NextByteIs
<1>6. ASSUME NEW offs \in SUBSET offsets, NEW k \in 1 .. 2, h + k \in Homes,
             ElemAtAddr(offs, a + k) # None
      PROVE  ElemAtAddr(offs, a + k) = h + k /\ h + k \in offs
  <2>1. HomeOf(a + k) = h + k
    <3>1. CASE a = h
      BY <1>6, <3>1 DEF HomeOf
    <3>2. CASE banks = 1 /\ a + Bank = h /\ a \notin Homes
      <4>1. a + k \notin Homes
        BY <1>1, <1>3, <1>6, <3>2
      <4>2. (a + k) + Bank = h + k
        BY <1>1, <1>3, <3>2
      <4> QED
        BY <1>6, <3>2, <4>1, <4>2 DEF HomeOf
    <3> QED
      BY <1>3, <3>1, <3>2
  <2>2. a + k \in Int /\ offs \in SUBSET Homes
    BY <1>2
  <2> QED
    BY <1>6, <2>1, <2>2, ElemIsHome DEF Typed
<1>7. ASSUME NEW offs \in SUBSET offsets, NEW k \in 1 .. 2
      PROVE  offs \ {a + k} \subseteq offsets /\ \A x \in offs \ {a + k} : x \in offs
  OBVIOUS
<1>8. ASSUME NEW k \in 1 .. 2, h + k \in Homes
      PROVE  a + k = h + k \/ a + k \notin Homes
  BY <1>1, <1>3, <1>8
<1>9. CASE n = 2
  <2>1. s = first
    BY <1>9 DEF OperandRemoved
  <2>2. /\ first.list = list \ {ElemAtAddr(offsets, a + 1)}
        /\ first.offsets = offsets \ {a + 1}
        /\ first.ok <=> ElemAtAddr(offsets, a + 1) # None
    BY DEF RemoveElemAt
  <2>3. h + 1 \in Homes
    BY <1>1, <1>2, <1>3, <1>5, <1>9
  <2>4. ElemAtAddr(offsets, a + 1) = h + 1 /\ h + 1 \in offsets
    BY <1>6, <2>1, <2>2, <2>3
  <2>5. h + 1 .. h + n - 1 = {h + 1}
    BY <1>1, <1>3, <1>9
  <2>6. a + 1 = h + 1 \/ a + 1 \notin Homes
    BY <1>8, <2>3
  <2>7. ASSUME h + 1 \in list PROVE h + 1 = NextByte(h)
    BY <1>1, <1>2, <1>3, <1>5, <1>9, <2>7
  <2>8. s.list = list \ {h + 1} /\ s.offsets = offsets \ {a + 1}
    BY <2>1, <2>2, <2>4
  <2>9. s.list \subseteq s.offsets /\ (banks = 2 => s.list = s.offsets)
    <3>1. banks = 2 => a = h
      BY <1>3
    <3> QED
      BY <1>2, <2>6, <2>8, <3>1
  <2> QED
    BY <1>5, <1>9, <2>4, <2>5, <2>7, <2>8, <2>9 DEF Leaves
<1>10. CASE n = 3
  <2> DEFINE e1 == ElemAtAddr(offsets, a + 1)
             e2 == ElemAtAddr(offsets \ {a + 1}, a + 2)
  <2>1. s = RemoveElemAt(first, a + 2)
    BY <1>10 DEF OperandRemoved
  <2>2. /\ first.list = list \ {e1}
        /\ first.offsets = offsets \ {a + 1}
        /\ first.ok = (e1 # None)
    BY DEF RemoveElemAt
  <2>3. /\ s.list = (list \ {e1}) \ {e2}
        /\ s.offsets = (offsets \ {a + 1}) \ {a + 2}
        /\ e1 # None /\ e2 # None
    <3> DEFINE f == first
    <3>1. s = RemoveElemAt(f, a + 2)
      BY <2>1
    <3>2. /\ f.list = list \ {e1} /\ f.offsets = offsets \ {a + 1}
          /\ f.ok = (e1 # None)
      BY <2>2
    <3> HIDE DEF f
    <3>3. /\ s.list = f.list \ {ElemAtAddr(f.offsets, a + 2)}
          /\ s.offsets = f.offsets \ {a + 2}
      BY <3>1 DEF RemoveElemAt
    <3> DEFINE okay == f.ok /\ ElemAtAddr(f.offsets, a + 2) # None
    <3>4. s.ok = okay
      <4>1. s = [list |-> f.list \ {ElemAtAddr(f.offsets, a + 2)},
                 offsets |-> f.offsets \ {a + 2}, ok |-> okay]
        BY <3>1, Zenon DEF RemoveElemAt
      <4> HIDE DEF okay
      <4> QED
        BY <4>1
    <3>5. f.ok /\ ElemAtAddr(f.offsets, a + 2) # None
      BY <3>4, Zenon
    <3> QED
      BY <3>2, <3>3, <3>5
  <2>4. PICK m \in list : m = NextByte(h) /\ NextByte(m) # None
    BY <1>10 DEF HasOperand
  <2>5. /\ NextByte(m) \in list /\ NextByte(m) > m
        /\ \A x \in list : x > m => NextByte(m) <= x
        /\ LabelsBefore(NextByte(m)) = {} /\ ByteLike(NextByte(m))
    BY <2>4, NextByteIs
  <2>6. m > h /\ (\A x \in list : x > h => m <= x) /\ LabelsBefore(m) = {} /\ ByteLike(m)
    BY <1>5, <1>10, <2>4
  <2>7. h + 1 \in Homes /\ h + 2 \in Homes
    <3>1. PICK q \in Homes : q > m
      BY <1>2, <2>5
    <3>2. m \in Homes
      BY <1>2, <2>4
    <3> QED
      BY <1>1, <1>3, <2>6, <3>1, <3>2
  <2>8. e1 = h + 1 /\ h + 1 \in offsets
    BY <1>6, <2>3, <2>7
  <2>9. e2 = h + 2 /\ h + 2 \in offsets
    BY <1>6, <2>3, <2>7
  <2>10. h + 1 .. h + n - 1 = {h + 1, h + 2}
    BY <1>1, <1>3, <1>10
  <2>11. (a + 1 = h + 1 \/ a + 1 \notin Homes) /\ (a + 2 = h + 2 \/ a + 2 \notin Homes)
    BY <1>8, <2>7
  <2>12. ASSUME h + 1 \in list PROVE h + 1 = m
    BY <1>1, <1>2, <1>3, <2>4, <2>6, <2>12
  <2>13. ASSUME h + 2 \in list PROVE h + 2 \in {m, NextByte(m)}
    BY <1>1, <1>2, <1>3, <2>4, <2>5, <2>6, <2>13
  <2>14. s.list = list \ {h + 1, h + 2} /\ s.offsets = (offsets \ {a + 1}) \ {a + 2}
    BY <2>3, <2>8, <2>9
  <2>15. s.list \subseteq s.offsets /\ (banks = 2 => s.list = s.offsets)
    <3>1. banks = 2 => a = h
      BY <1>3
    <3> HIDE DEF e1, e2
    <3> QED
      BY <1>2, <2>11, <2>14, <3>1
  <2>16. \A e \in list \ s.list : ByteLike(e) /\ LabelsBefore(e) = {}
    BY <2>5, <2>6, <2>12, <2>13, <2>14
  <2> HIDE DEF e1, e2
  <2> QED
    BY <1>5, <1>10, <2>8, <2>9, <2>10, <2>14, <2>15, <2>16 DEF Leaves
<1> QED
  BY <1>4, <1>9, <1>10

-----------------------------------------------------------------------------
(* What the steps that decode something do, in facts that the proofs need.  *)

Took(h, n) == Leaves(list', offsets', h, n)

Decoded(a, h, c, v, name) ==
    /\ work # << >> /\ a = Top.addr /\ a >= PrgStart /\ h \in offsets /\ h = Elem(a) /\ ByteLike(h)
    /\ c \in OpCodes \cap DOMAIN Shape /\ v \in Int
    /\ opcode' = Noted(opcode, h, c)
    /\ statement' = [statement EXCEPT ![h] =
          [kind |-> "instruction", code |-> c, addr |-> a, value |-> v, label |-> name]]
    /\ Took(h, Shape[c].size)
    /\ name = (IF Shape[c].label = "none" THEN None ELSE LabelName(v, v))
    /\ labels' = (IF Shape[c].label = "none" THEN labels ELSE LabelsWith(v, v))
    /\ work' = Calls(c, a, v) \o Rest
    /\ UNCHANGED <<banks, dynJumps, jumpTables, phase>>

ReadAsWord(a, h, v) ==
    /\ a = Top.addr /\ h \in offsets /\ h = Elem(a) /\ ByteLike(h) /\ v \in Nat
    /\ statement' = [statement EXCEPT ![h] =
          [kind |-> IF v < PrgStart THEN "number" ELSE "open", value |-> v, label |-> None]]
    /\ Took(h, 2)
    /\ work' = IF v < PrgStart THEN Rest ELSE <<Mark(v, h), LabelWord(v, h)>> \o Rest
    /\ UNCHANGED <<banks, opcode, labels, dynJumps, jumpTables, phase>>

LEMMA ElemInRom ==
    ASSUME Typed, NEW a \in Int, Elem(a) # None
    PROVE  Elem(a) \in offsets /\ Elem(a) \in Homes /\ Elem(a) = HomeOf(a)
<1>1. offsets \in SUBSET Homes
  BY DEF Typed, ElementsTyped
<1>2. Elem(a) = IF HomeOf(a) \in offsets THEN HomeOf(a) ELSE None
  BY <1>1, ElemIsHome DEF Typed, Elem
<1> QED
  BY <1>1, <1>2

LEMMA TopTyped ==
    ASSUME Typed, work # << >>
    PROVE  Top \in Call /\ Rest \in Seq(Call)
<1>1. work \in Seq(Call)
  BY DEF Typed
<1> QED
  BY <1>1, HeadTailProperties DEF Top, Rest

LEMMA MarkInstructionDoes ==
    ASSUME Typed, MarkInstruction
    PROVE  Panic \/
              \E h \in offsets, c \in OpCodes : \E v, name : Decoded(Top.addr, h, c, v, name)
<1>1. PICK h \in offsets, c \in OpCodes : /\ h = Elem(Top.addr) /\ Decodes(c, h)
                             /\ \E v \in Operands(c, Top.addr) :
                LET shape == Shape[c]
                    s == OperandRemoved(Top.addr, shape.size)
                    name == IF shape.label = "none" THEN None
                            ELSE LabelName(v, v)
                IN  IF ~s.ok \/ (shape.label = "must" /\ name = None)
                    THEN Panic
                    ELSE /\ opcode' = Noted(opcode, h, c)
                         /\ statement' = [statement EXCEPT ![h] =
                               [kind |-> "instruction", code |-> c,
                                addr |-> Top.addr, value |-> v, label |-> name]]
                         /\ labels' = IF shape.label = "none" THEN labels
                                      ELSE LabelsWith(v, v)
                         /\ list' = s.list
                         /\ offsets' = s.offsets
                         /\ work' = Calls(c, Top.addr, v) \o Rest
                         /\ UNCHANGED <<banks, dynJumps, jumpTables, phase>>
  BY DEF MarkInstruction
<1>2. work # << >> /\ Decodable(Top.addr)
  BY DEF MarkInstruction, Marking
<1> DEFINE a == Top.addr
           n == Shape[c].size
           s == OperandRemoved(a, n)
<1>3. c \in DOMAIN Shape
  BY <1>1, DisassemblerAssumption DEF Decodes
<1>4. n \in 1 .. 3 /\ HasOperand(h, n)
  BY <1>1, <1>3, ShapeFacts DEF Decodes
<1>5. a \in Int
  BY <1>2, TopTyped DEF Call
<1>6. PICK v \in Operands(c, a) :
         LET name == IF Shape[c].label = "none" THEN None ELSE LabelName(v, v)
         IN  IF ~s.ok \/ (Shape[c].label = "must" /\ name = None)
             THEN Panic
             ELSE /\ opcode' = Noted(opcode, h, c)
                  /\ statement' = [statement EXCEPT ![h] =
                        [kind |-> "instruction", code |-> c,
                         addr |-> a, value |-> v, label |-> name]]
                  /\ labels' = IF Shape[c].label = "none" THEN labels ELSE LabelsWith(v, v)
                  /\ list' = s.list
                  /\ offsets' = s.offsets
                  /\ work' = Calls(c, a, v) \o Rest
                  /\ UNCHANGED <<banks, dynJumps, jumpTables, phase>>
  BY <1>1
<1>7. v \in Int
  <2>1. banks \in 1 .. 2
    BY DEF Typed
  <2>2. Targets[banks] \subseteq Int /\ Reach \subseteq Int
    BY <2>1, DisassemblerAssumption
  <2> HIDE DEF a
  <2> QED
    BY <1>5, <1>6, <2>2 DEF Operands
<1>8. CASE ~s.ok \/ (Shape[c].label = "must" /\ LabelName(v, v) = None)
  BY <1>6, <1>8
<1>9. CASE s.ok /\ ~(Shape[c].label = "must" /\ LabelName(v, v) = None)
  <2> DEFINE name == IF Shape[c].label = "none" THEN None ELSE LabelName(v, v)
  <2>1. /\ opcode' = Noted(opcode, h, c)
        /\ statement' = [statement EXCEPT ![h] =
              [kind |-> "instruction", code |-> c, addr |-> a, value |-> v, label |-> name]]
        /\ labels' = IF Shape[c].label = "none" THEN labels ELSE LabelsWith(v, v)
        /\ list' = s.list /\ offsets' = s.offsets
        /\ work' = Calls(c, a, v) \o Rest
        /\ UNCHANGED <<banks, dynJumps, jumpTables, phase>>
    BY <1>6, <1>9
  <2>2. Took(h, n)
    <3>1. h = Elem(a)
      BY <1>1
    <3>2. s.ok /\ list' = s.list /\ offsets' = s.offsets
      BY <1>9, <2>1
    <3> HIDE DEF a, n, s
    <3>3. s = OperandRemoved(a, n)
      BY DEF s
    <3>4. Leaves(s.list, s.offsets, h, n)
      BY <1>4, <1>5, <3>1, <3>2, <3>3, OperandLeaves
    <3> QED
      BY <3>2, <3>4 DEF Took
  <2>3. h = Elem(a) /\ ByteLike(h) /\ a >= PrgStart
    BY <1>1, <1>2 DEF Decodable
  <2>4. Decoded(a, h, c, v, name)
    BY <1>2, <1>3, <1>7, <2>1, <2>2, <2>3 DEF Decoded
  <2> QED
    BY <2>4
<1> QED
  BY <1>8, <1>9

LEMMA MarkWordDoes ==
    ASSUME Typed, MarkWord
    PROVE  Panic \/ \E h \in offsets : \E v : ReadAsWord(Top.addr, h, v)
<1> DEFINE a == Top.addr
           h == Elem(a)
           s == OperandRemoved(a, 2)
<1>1. CASE ~ByteLike(h) \/ NextByte(h) = None \/ ~s.ok
  BY <1>1 DEF MarkWord
<1>2. CASE ByteLike(h) /\ NextByte(h) # None /\ s.ok
  <2>1. PICK v \in Targets[banks] :
           /\ statement' = [statement EXCEPT ![h] =
                 [kind |-> IF v < PrgStart THEN "number" ELSE "open",
                  value |-> v, label |-> None]]
           /\ list' = s.list
           /\ offsets' = s.offsets
           /\ work' = IF v < PrgStart THEN Rest
                      ELSE <<Mark(v, h), LabelWord(v, h)>> \o Rest
           /\ UNCHANGED <<banks, opcode, labels, dynJumps, jumpTables, phase>>
    BY <1>2 DEF MarkWord
  <2>2. v \in Nat
    <3>1. banks \in 1 .. 2
      BY DEF Typed
    <3> QED
      BY <3>1, DisassemblerAssumption
  <2>3. a \in Int /\ h \in offsets
    <3>1. a \in Int
      BY TopTyped DEF Call, MarkWord
    <3> QED
      BY <1>2, <3>1, ElemInRom DEF ByteLike
  <2>4. Took(h, 2)
    <3>1. HasOperand(h, 2)
      BY <1>2 DEF HasOperand
    <3> HIDE DEF a, h
    <3>2. h = Elem(a)
      BY DEF h
    <3> QED
      BY <1>2, <2>1, <2>3, <3>1, <3>2, OperandLeaves DEF Took
  <2>5. ReadAsWord(a, h, v)
    BY <1>2, <2>1, <2>2, <2>3, <2>4 DEF ReadAsWord
  <2> QED
    BY <2>3, <2>5
<1> QED
  BY <1>1, <1>2

-----------------------------------------------------------------------------
(* Labels.                                                                  *)
LEMMA LabelAtIs ==
    ASSUME Typed, NEW h, LabelsBefore(h) # {}
    PROVE  LabelAt(h) \in LabelsBefore(h)
<1> DEFINE homes == {l.home : l \in LabelsBefore(h)}
<1>1. \A l \in LabelsBefore(h) : l \in labels
  BY LabelsBeforeAre
<1>2. \A l \in labels : l.home \in 0 .. End
  BY Layout DEF Typed, LabelsTyped
<1>3. homes \in SUBSET (0 .. End) /\ homes # {}
  BY <1>1, <1>2
<1>4. End \in Nat
  BY Layout DEF Typed
<1>5. PICK x \in homes : \A y \in homes : y <= x
  <2> HIDE DEF homes
  <2> QED
    BY <1>3, <1>4, GreatestNatural
<1>6. \E l \in LabelsBefore(h) : \A other \in LabelsBefore(h) : other.home <= l.home
  BY <1>5
<1> QED
  BY <1>6 DEF LabelAt

LEMMA LabelNameTyped ==
    ASSUME Typed, NEW a, NEW name \in Int
    PROVE  LabelName(a, name) \in Int
<1>1. ASSUME LabelsBefore(Elem(a)) # {} PROVE LabelAt(Elem(a)).name \in Int
  <2>1. LabelAt(Elem(a)) \in labels
    BY <1>1, LabelAtIs, LabelsBeforeAre
  <2> QED
    BY <2>1 DEF Typed, LabelsTyped
<1> QED
  BY <1>1 DEF LabelName, None

LEMMA LabelsWithTyped ==
    ASSUME Typed, NEW a, NEW name \in Int
    PROVE  /\ labels \subseteq LabelsWith(a, name)
           /\ \A l \in LabelsWith(a, name) : l \in [name : Int, home : Homes]
<1>1. \A l \in labels : l \in [name : Int, home : Homes]
  BY DEF Typed, LabelsTyped
<1>2. list \subseteq Homes
  BY DEF Typed, ElementsTyped
<1> QED
  BY <1>1, <1>2 DEF LabelsWith

-----------------------------------------------------------------------------
(* The stack of calls to come: what is pushed comes first, and everything   *)
(* but the top stays.                                                       *)
LEMMA StackPush ==
    ASSUME NEW S, NEW s \in Seq(S), s # << >>, NEW p \in Seq(S)
    PROVE  /\ p \o Tail(s) \in Seq(S)
           /\ Len(p \o Tail(s)) = Len(p) + Len(s) - 1
           /\ \A i \in 1 .. Len(p) : (p \o Tail(s))[i] = p[i]
           /\ \A i \in 2 .. Len(s) : (p \o Tail(s))[Len(p) + i - 1] = s[i]
           /\ \A j \in Len(p) + 1 .. Len(p \o Tail(s)) :
                 /\ j - Len(p) + 1 \in 2 .. Len(s)
                 /\ (p \o Tail(s))[j] = s[j - Len(p) + 1]
<1>1. Len(s) \in Nat \ {0} /\ Len(p) \in Nat
  BY EmptySeq
<1>2. /\ Tail(s) \in Seq(S) /\ Len(Tail(s)) = Len(s) - 1
      /\ \A i \in 1 .. Len(s) - 1 : Tail(s)[i] = s[i + 1]
  BY <1>1, HeadTailProperties
<1>3. /\ p \o Tail(s) \in Seq(S)
      /\ Len(p \o Tail(s)) = Len(p) + Len(Tail(s))
      /\ \A i \in 1 .. Len(p) + Len(Tail(s)) :
            (p \o Tail(s))[i] = IF i <= Len(p) THEN p[i] ELSE Tail(s)[i - Len(p)]
  BY <1>2, ConcatProperties
<1> QED
  BY <1>1, <1>2, <1>3

LEMMA StackPop ==
    ASSUME NEW S, NEW s \in Seq(S), s # << >>
    PROVE  /\ Tail(s) \in Seq(S) /\ Len(Tail(s)) = Len(s) - 1
           /\ \A i \in 1 .. Len(s) - 1 : Tail(s)[i] = s[i + 1]
           /\ Head(s) = s[1] /\ Len(s) \in Nat \ {0}
BY EmptySeq, HeadTailProperties

(* What is marked after an instruction.                                     *)
LEMMA CallsAre ==
    ASSUME NEW c \in DOMAIN Shape, NEW a, NEW v, NEW after, after = a + Shape[c].size
    PROVE  \/ Shape[c].next = << >> /\ Calls(c, a, v) = << >>
           \/ Shape[c].next = <<"after">> /\ Calls(c, a, v) = <<Mark(after, None)>>
           \/ Shape[c].next = <<"target">> /\ Calls(c, a, v) = <<Mark(v, None)>>
           \/ /\ Shape[c].next = <<"after", "target">>
              /\ Calls(c, a, v) = <<Mark(after, None), Mark(v, None)>>
           \/ /\ Shape[c].next = <<"target", "return">>
              /\ Calls(c, a, v) = <<Mark(v, None), Return(after, v)>>
<1> DEFINE next == Shape[c].next
           Made(n) == CASE n = "after" -> Mark(after, None)
                        [] n = "target" -> Mark(v, None)
                        [] n = "return" -> Return(after, v)
<1>1. Calls(c, a, v) = [i \in DOMAIN next |-> Made(next[i])]
  BY DEF Calls
<1>2. Made("after") = Mark(after, None) /\ Made("target") = Mark(v, None)
      /\ Made("return") = Return(after, v)
  OBVIOUS
<1>3. next \in {<< >>, <<"after">>, <<"target">>, <<"after", "target">>,
                <<"target", "return">>}
  BY ShapeFacts
<1> HIDE DEF Made, next
<1>4. CASE next = << >>
  BY <1>1, <1>4 DEF next
<1>5. CASE next = <<"after">>
  BY <1>1, <1>2, <1>5 DEF next
<1>6. CASE next = <<"target">>
  BY <1>1, <1>2, <1>6 DEF next
<1>7. CASE next = <<"after", "target">>
  BY <1>1, <1>2, <1>7 DEF next
<1>8. CASE next = <<"target", "return">>
  BY <1>1, <1>2, <1>8 DEF next
<1> QED
  BY <1>3, <1>4, <1>5, <1>6, <1>7, <1>8

-----------------------------------------------------------------------------
(* The calls to come are in order: whatever is to be marked comes before    *)
(* the one word that waits for its label, and that before the words that    *)
(* nobody has looked at yet.                                                *)
Ordered ==
    \A i, j \in 1 .. Len(work) :
        i < j /\ work[i].op \in {"word", "label"} => work[j].op = "word"

MarkedForWord ==
    \A i \in 1 .. Len(work) : work[i].op = "mark" /\ work[i].arg # None =>
        /\ i + 1 \in 1 .. Len(work)
        /\ work[i + 1].op = "label" /\ work[i + 1].arg = work[i].arg

AwaitsItsLabel(h, target) == h \in Homes /\ Kind(h) = "open" /\ statement[h].value = target

LabelsAwaited ==
    \A i \in 1 .. Len(work) :
        work[i].op = "label" => AwaitsItsLabel(work[i].arg, work[i].addr)

WordsInRom == \A i \in 1 .. Len(work) : work[i].op = "word" => work[i].addr \in Homes

OpenAwaited ==
    \A h \in Homes : Kind(h) = "open" =>
        \E i \in 1 .. Len(work) : work[i].op = "label" /\ work[i].arg = h

WorkInOrder == Ordered /\ MarkedForWord /\ LabelsAwaited /\ WordsInRom /\ OpenAwaited

(* An instruction stands at the home of its address.                        *)
AtHome == \A h \in Homes : Kind(h) = "instruction" => HomeOf(statement[h].addr) = h

DoneIsDone == phase = "done" => work = << >> /\ dynJumps = << >>

Inv == Typed /\ WorkInOrder /\ AtHome /\ DoneIsDone

(* What may be pushed in place of the top.                                  *)
Pushable(p) ==
    /\ \A i, j \in 1 .. Len(p) :
          i < j /\ p[i].op \in {"word", "label"} => p[j].op = "word"
    /\ \A i \in 1 .. Len(p) : p[i].op \in {"word", "label"} => Top.op \in {"word", "label"}
    /\ \A i \in 1 .. Len(p) : p[i].op = "mark" /\ p[i].arg # None =>
          /\ i + 1 \in 1 .. Len(p) /\ p[i + 1].op = "label" /\ p[i + 1].arg = p[i].arg
    /\ \A i \in 1 .. Len(p) : p[i].op = "word" => p[i].addr \in Homes

LEMMA WorkKept ==
    ASSUME Typed, WorkInOrder, work # << >>, NEW p \in Seq(Call), work' = p \o Rest,
           Pushable(p), banks' = banks,
           \A i \in 1 .. Len(p) : p[i].op = "label" => AwaitsItsLabel(p[i].arg, p[i].addr)',
           \A h \in Homes : Kind(h) = "open" /\ Top.op # "label" =>
                               statement'[h] = statement[h],
           \A h \in Homes : Kind(h)' = "open" =>
                \/ \E i \in 1 .. Len(p) : p[i].op = "label" /\ p[i].arg = h
                \/ Kind(h) = "open" /\ Top.op # "label"
    PROVE  WorkInOrder'
<1> DEFINE n == Len(p)
           w == work'
<1>1. work \in Seq(Call) /\ Top = work[1] /\ Len(work) \in Nat \ {0} /\ n \in Nat
  <2>1. work \in Seq(Call)
    BY DEF Typed
  <2> QED
    BY <2>1, StackPop DEF Top
<1>2. /\ Len(w) = n + Len(work) - 1
      /\ \A i \in 1 .. n : w[i] = p[i]
      /\ \A i \in 2 .. Len(work) : w[n + i - 1] = work[i]
      /\ \A j \in n + 1 .. Len(w) : j - n + 1 \in 2 .. Len(work) /\ w[j] = work[j - n + 1]
  BY <1>1, StackPush DEF Rest
<1>3. Homes' = Homes
  BY DEF Homes, End
<1>4. \A j \in n + 1 .. Len(w) : Top.op \in {"word", "label"} => w[j].op = "word"
  <2>1. \A i \in 2 .. Len(work) : Top.op \in {"word", "label"} => work[i].op = "word"
    BY <1>1 DEF WorkInOrder, Ordered
  <2> QED
    BY <1>2, <2>1
<1> HIDE DEF n, w
<1>5. \A j \in 1 .. Len(w) : j \in 1 .. n \/ j \in n + 1 .. Len(w)
  BY <1>1, <1>2
<1>6. Ordered'
  <2> SUFFICES ASSUME NEW i \in 1 .. Len(w), NEW j \in 1 .. Len(w), i < j,
                      w[i].op \in {"word", "label"}
               PROVE  w[j].op = "word"
    BY DEF Ordered, w
  <2>1. CASE i \in 1 .. n /\ j \in 1 .. n
    BY <1>2, <2>1 DEF Pushable, n
  <2>2. CASE i \in 1 .. n /\ j \in n + 1 .. Len(w)
    <3>1. Top.op \in {"word", "label"}
      BY <1>2, <2>2 DEF Pushable, n
    <3> QED
      BY <1>4, <2>2, <3>1
  <2>3. CASE i \in n + 1 .. Len(w)
    <3>1. j \in n + 1 .. Len(w) /\ i - n + 1 < j - n + 1
      BY <1>1, <2>3
    <3>2. /\ i - n + 1 \in 1 .. Len(work) /\ w[i] = work[i - n + 1]
          /\ j - n + 1 \in 1 .. Len(work) /\ w[j] = work[j - n + 1]
      BY <1>2, <2>3, <3>1
    <3> QED
      BY <3>1, <3>2 DEF WorkInOrder, Ordered
  <2> QED
    BY <1>5, <2>1, <2>2, <2>3
<1>7. MarkedForWord'
  <2> SUFFICES ASSUME NEW i \in 1 .. Len(w), w[i].op = "mark", w[i].arg # None
               PROVE  /\ i + 1 \in 1 .. Len(w)
                      /\ w[i + 1].op = "label" /\ w[i + 1].arg = w[i].arg
    BY DEF MarkedForWord, w
  <2>1. CASE i \in 1 .. n
    <3>1. i + 1 \in 1 .. n /\ p[i + 1].op = "label" /\ p[i + 1].arg = p[i].arg
      BY <1>2, <2>1 DEF Pushable, n
    <3>2. i + 1 \in 1 .. Len(w)
      BY <1>1, <1>2, <3>1
    <3> QED
      BY <1>2, <2>1, <3>1, <3>2
  <2>2. CASE i \in n + 1 .. Len(w)
    <3>1. PICK k \in 2 .. Len(work) : k = i - n + 1 /\ w[i] = work[k]
      BY <1>2, <2>2
    <3>2. /\ k + 1 \in 1 .. Len(work)
          /\ work[k + 1].op = "label" /\ work[k + 1].arg = work[k].arg
      BY <3>1 DEF WorkInOrder, MarkedForWord
    <3>3. n + (k + 1) - 1 = i + 1 /\ k + 1 \in 2 .. Len(work)
      BY <1>1, <3>1, <3>2
    <3>4. w[i + 1] = work[k + 1]
      BY <1>2, <3>3
    <3>5. i + 1 \in 1 .. Len(w)
      BY <1>1, <1>2, <2>2, <3>1, <3>2
    <3> QED
      BY <3>1, <3>2, <3>4, <3>5
  <2> QED
    BY <1>5, <2>1, <2>2
<1>8. LabelsAwaited'
  <2> SUFFICES \A i \in 1 .. Len(w) : w[i].op = "label" =>
                  /\ w[i].arg \in Homes /\ statement'[w[i].arg].kind = "open"
                  /\ statement'[w[i].arg].value = w[i].addr
    BY <1>3, Zenon DEF LabelsAwaited, AwaitsItsLabel, Kind, w
  <2> SUFFICES ASSUME NEW i \in 1 .. Len(w), NEW h, NEW a, w[i].op = "label",
                      h = w[i].arg, a = w[i].addr
               PROVE  h \in Homes /\ statement'[h].kind = "open" /\ statement'[h].value = a
    OBVIOUS
  <2>1. CASE i \in 1 .. n
    <3>1. AwaitsItsLabel(h, a)'
      BY <1>2, <2>1 DEF n
    <3> QED
      BY <1>3, <3>1 DEF AwaitsItsLabel, Kind
  <2>2. CASE i \in n + 1 .. Len(w)
    <3>1. PICK k \in 2 .. Len(work) : w[i] = work[k]
      BY <1>2, <2>2
    <3>2. AwaitsItsLabel(h, a)
      BY <3>1 DEF WorkInOrder, LabelsAwaited
    <3>3. Top.op # "label"
      BY <1>4, <2>2
    <3> QED
      BY <1>3, <3>2, <3>3 DEF AwaitsItsLabel, Kind
  <2> QED
    BY <1>5, <2>1, <2>2
<1>9. WordsInRom'
  <2> SUFFICES ASSUME NEW i \in 1 .. Len(w), w[i].op = "word" PROVE w[i].addr \in Homes
    BY <1>3 DEF WordsInRom, w
  <2>1. CASE i \in 1 .. n
    BY <1>2, <2>1 DEF Pushable, n
  <2>2. CASE i \in n + 1 .. Len(w)
    <3>1. PICK k \in 2 .. Len(work) : w[i] = work[k]
      BY <1>2, <2>2
    <3> QED
      BY <3>1 DEF WorkInOrder, WordsInRom
  <2> QED
    BY <1>5, <2>1, <2>2
<1>10. OpenAwaited'
  <2> SUFFICES ASSUME NEW h \in Homes, Kind(h)' = "open"
               PROVE  \E i \in 1 .. Len(w) : w[i].op = "label" /\ w[i].arg = h
    BY <1>3 DEF OpenAwaited, w
  <2>1. CASE \E i \in 1 .. n : p[i].op = "label" /\ p[i].arg = h
    <3>1. PICK i \in 1 .. n : p[i].op = "label" /\ p[i].arg = h
      BY <2>1
    <3>2. i \in 1 .. Len(w) /\ w[i] = p[i]
      BY <1>1, <1>2
    <3> QED
      BY <3>1, <3>2
  <2>2. CASE Kind(h) = "open" /\ Top.op # "label"
    <3>1. PICK i \in 1 .. Len(work) : work[i].op = "label" /\ work[i].arg = h
      BY <2>2 DEF WorkInOrder, OpenAwaited
    <3>2. i \in 2 .. Len(work)
      BY <1>1, <2>2, <3>1
    <3>3. n + i - 1 \in 1 .. Len(w) /\ w[n + i - 1] = work[i]
      BY <1>1, <1>2, <3>2
    <3> QED
      BY <3>1, <3>3
  <2> QED
    BY <2>1, <2>2 DEF n
<1> QED
  BY <1>6, <1>7, <1>8, <1>9, <1>10 DEF WorkInOrder

LEMMA WorkKeptByPop ==
    ASSUME Typed, WorkInOrder, work # << >>, work' = Rest, banks' = banks, Top.op # "label",
           \A h \in Homes : Kind(h) = "open" <=> Kind(h)' = "open",
           \A h \in Homes : Kind(h) = "open" => statement'[h] = statement[h]
    PROVE  WorkInOrder'
<1> DEFINE p == << >>
<1>1. p \in Seq(Call) /\ Len(p) = 0
  OBVIOUS
<1>2. work' = p \o Rest
  BY TopTyped
<1> HIDE DEF p
<1>3. Pushable(p)
  BY <1>1 DEF Pushable
<1>4. \A i \in 1 .. Len(p) : p[i].op = "label" => AwaitsItsLabel(p[i].arg, p[i].addr)'
  BY <1>1
<1>5. \A h \in Homes : Kind(h) = "open" /\ Top.op # "label" => statement'[h] = statement[h]
  OBVIOUS
<1>6. \A h \in Homes : Kind(h)' = "open" =>
         \/ \E i \in 1 .. Len(p) : p[i].op = "label" /\ p[i].arg = h
         \/ Kind(h) = "open" /\ Top.op # "label"
  OBVIOUS
<1> QED
  BY <1>1, <1>2, <1>3, <1>4, <1>5, <1>6, WorkKept

-----------------------------------------------------------------------------
(* What every step of the marking keeps.                                    *)
Progress ==
    /\ banks' = banks
    /\ list' \subseteq list /\ offsets' \subseteq offsets
    /\ labels \subseteq labels'
    /\ DOMAIN opcode \subseteq DOMAIN opcode'
    /\ \A e \in list \ list' : ByteLike(e) /\ LabelsBefore(e) = {}
    /\ \A h \in Homes : \/ statement'[h] = statement[h]
                        \/ /\ Kind(h) \in {"byte", "number", "open"}
                           /\ Kind(h)' \in {"instruction", "number", "open", "reference"}
    /\ \A v \in DOMAIN jumpTables :
          v \in DOMAIN jumpTables' /\ jumpTables'[v] = jumpTables[v]

LEMMA NewOpCode ==
    ASSUME OpCodesTyped, banks' = banks, NEW h \in Homes, NEW c \in OpCodes,
           opcode' = Noted(opcode, h, c)
    PROVE  /\ OpCodesTyped' /\ DOMAIN opcode \subseteq DOMAIN opcode' /\ h \in DOMAIN opcode'
<1>1. Homes' = Homes
  BY DEF Homes, End
<1>2. DOMAIN opcode' = {h} \cup DOMAIN opcode
  BY DEF Noted
<1>3. \A x \in DOMAIN opcode' : opcode'[x] \in OpCodes
  BY DEF OpCodesTyped, Noted
<1> QED
  BY <1>1, <1>2, <1>3 DEF OpCodesTyped

LEMMA NewStatement ==
    ASSUME StatementsTyped, banks' = banks, NEW h \in Homes,
           NEW r \in Byte \cup Instruction \cup DataWord,
           statement' = [statement EXCEPT ![h] = r]
    PROVE  /\ StatementsTyped' /\ statement'[h] = r
           /\ \A k \in Homes : k # h => statement'[k] = statement[k]
<1>1. Homes' = Homes
  BY DEF Homes, End
<1>2. statement'[h] = r /\ DOMAIN statement' = Homes
      /\ \A k \in Homes : k # h => statement'[k] = statement[k]
  BY DEF StatementsTyped
<1>3. \A k \in Homes : statement'[k] \in Byte \cup Instruction \cup DataWord
  BY <1>2 DEF StatementsTyped
<1> QED
  BY <1>1, <1>2, <1>3 DEF StatementsTyped

LEMMA KindIs ==
    ASSUME StatementsTyped, NEW h \in Homes
    PROVE  /\ Kind(h) \in Kinds
           /\ Kind(h) = "instruction" => statement[h] \in Instruction
           /\ Kind(h) \in {"open", "number", "reference"} => statement[h] \in DataWord
BY DEF StatementsTyped, Kind, Kinds, Byte, Instruction, DataWord

LEMMA InvUnchanged ==
    ASSUME Inv, UNCHANGED vars
    PROVE  Inv'
<1>1. Typed'
  BY DEF Inv, vars, Typed, OpCodesTyped, StatementsTyped, ElementsTyped, LabelsTyped,
         Homes, End
<1>2. WorkInOrder'
  BY DEF Inv, vars, WorkInOrder, Ordered, MarkedForWord, LabelsAwaited, WordsInRom,
         OpenAwaited, AwaitsItsLabel, Kind, Homes, End
<1>3. AtHome' /\ DoneIsDone'
  BY DEF Inv, vars, AtHome, HomeOf, DoneIsDone, Kind, Homes, End, Bank
<1> QED
  BY <1>1, <1>2, <1>3 DEF Inv

(* A step that leaves the statements, the list and the labels alone.        *)
LEMMA StandsStill ==
    ASSUME Inv, UNCHANGED <<banks, opcode, statement, list, offsets, labels>>,
           phase' \in {"running", "done", "panicked"}, work' \in Seq(Call), dynJumps' \in Seq(Int),
           \A v \in DOMAIN jumpTables' : jumpTables'[v] \in BOOLEAN
    PROVE  Typed' /\ AtHome'
<1>1. Homes' = Homes /\ Bank' = Bank
  BY DEF Homes, End, Bank
<1>2. Typed'
  BY <1>1 DEF Inv, Typed, OpCodesTyped, StatementsTyped, ElementsTyped, LabelsTyped
<1>3. AtHome'
  BY <1>1 DEF Inv, AtHome, HomeOf, Kind
<1> QED
  BY <1>2, <1>3

-----------------------------------------------------------------------------
(* Every step keeps the invariant and makes progress.                       *)
LEMMA StillProgress ==
    ASSUME UNCHANGED <<banks, opcode, statement, list, offsets, labels>>,
           \A v \in DOMAIN jumpTables :
              v \in DOMAIN jumpTables' /\ jumpTables'[v] = jumpTables[v]
    PROVE  Progress
BY DEF Progress

LEMMA PanicKeeps ==
    ASSUME Inv, Panic
    PROVE  Progress /\ Inv'
<1>1. Progress
  BY StillProgress DEF Panic
<1>2. Typed' /\ AtHome'
  BY StandsStill DEF Panic, Inv, Typed
<1>3. WorkInOrder'
  BY DEF Panic, Inv, WorkInOrder, Ordered, MarkedForWord, LabelsAwaited, WordsInRom,
         OpenAwaited, AwaitsItsLabel, Kind, Homes, End
<1>4. DoneIsDone'
  BY DEF Panic, DoneIsDone
<1> QED
  BY <1>1, <1>2, <1>3, <1>4 DEF Inv

LEMMA MarkNothingKeeps ==
    ASSUME Inv, MarkNothing
    PROVE  Progress /\ Inv'
<1>1. /\ work # << >> /\ Top.op = "mark" /\ work' = Rest /\ phase = "running"
      /\ UNCHANGED <<banks, opcode, statement, list, offsets, labels, dynJumps,
                     jumpTables, phase>>
  BY DEF MarkNothing, Marking
<1>2. Typed /\ WorkInOrder
  BY DEF Inv
<1>3. Progress
  BY <1>1, StillProgress
<1>4. Typed' /\ AtHome'
  BY <1>1, <1>2, StandsStill, TopTyped DEF Typed
<1>5. WorkInOrder'
  <2>1. \A h \in Homes : Kind(h) = "open" <=> Kind(h)' = "open"
    BY <1>1 DEF Kind
  <2>2. \A h \in Homes : Kind(h) = "open" => statement'[h] = statement[h]
    BY <1>1
  <2> QED
    BY <1>1, <1>2, <2>1, <2>2, WorkKeptByPop
<1>6. DoneIsDone'
  BY <1>1 DEF DoneIsDone
<1> QED
  BY <1>3, <1>4, <1>5, <1>6 DEF Inv

LEMMA FinishKeeps ==
    ASSUME Inv, Finish
    PROVE  Progress /\ Inv'
<1>1. Progress
  BY StillProgress DEF Finish
<1>2. Typed' /\ AtHome'
  BY StandsStill DEF Finish, Inv, Typed
<1>3. WorkInOrder'
  BY DEF Finish, Inv, WorkInOrder, Ordered, MarkedForWord, LabelsAwaited, WordsInRom,
         OpenAwaited, AwaitsItsLabel, Kind, Homes, End
<1>4. DoneIsDone'
  BY DEF Finish, DoneIsDone
<1> QED
  BY <1>1, <1>2, <1>3, <1>4 DEF Inv

LEMMA ReturnFromMarkKeeps ==
    ASSUME Inv, ReturnFromMark
    PROVE  Progress /\ Inv'
<1>1. /\ work # << >> /\ Top.op = "return" /\ phase = "running"
      /\ UNCHANGED <<banks, opcode, statement, list, offsets, labels, phase>>
  BY DEF ReturnFromMark
<1>2. PICK isTable \in BOOLEAN :
         /\ Top.arg \in DOMAIN jumpTables => isTable = jumpTables[Top.arg]
         /\ jumpTables' = Noted(jumpTables, Top.arg, isTable)
         /\ \/ isTable /\ dynJumps' = Append(dynJumps, Top.addr) /\ work' = Rest
            \/ ~isTable /\ work' = <<Mark(Top.addr, None)>> \o Rest /\ UNCHANGED dynJumps
  <2> DEFINE isTable == IF Top.arg \in DOMAIN jumpTables
                        THEN jumpTables[Top.arg] ELSE IsDispatch(Top.arg)
  <2>1. isTable \in BOOLEAN
    BY DEF IsDispatch, Inv, Typed
  <2>2. /\ jumpTables' = Noted(jumpTables, Top.arg, isTable)
        /\ IF isTable
           THEN dynJumps' = Append(dynJumps, Top.addr) /\ work' = Rest
           ELSE work' = <<Mark(Top.addr, None)>> \o Rest /\ UNCHANGED dynJumps
    BY Zenon DEF ReturnFromMark
  <2>3. Top.arg \in DOMAIN jumpTables => isTable = jumpTables[Top.arg]
    OBVIOUS
  <2> HIDE DEF isTable
  <2> QED
    BY <2>1, <2>2, <2>3
<1>3. Typed /\ WorkInOrder /\ Top \in Call /\ Rest \in Seq(Call)
  BY <1>1, TopTyped DEF Inv
<1>4. /\ \A v \in DOMAIN jumpTables' : jumpTables'[v] \in BOOLEAN
      /\ \A v \in DOMAIN jumpTables :
            v \in DOMAIN jumpTables' /\ jumpTables'[v] = jumpTables[v]
  BY <1>2, <1>3 DEF Noted, Typed
<1>5. Progress
  BY <1>1, <1>4, StillProgress
<1>6. PICK pushed \in Seq(Call) : pushed = <<Mark(Top.addr, None)>>
  <2>1. Mark(Top.addr, None) \in Call
    <3>1. Top.addr \in Int
      BY <1>3 DEF Call
    <3> QED
      BY <3>1 DEF Mark, Call, None
  <2>2. <<Mark(Top.addr, None)>> \in Seq(Call)
    BY <2>1
  <2> QED
    BY <2>2
<1>7. Len(pushed) = 1 /\ pushed[1].op = "mark" /\ pushed[1].arg = None
  BY <1>6 DEF Mark
<1>8. \/ dynJumps' = Append(dynJumps, Top.addr) /\ work' = Rest
      \/ work' = pushed \o Rest /\ UNCHANGED dynJumps
  BY <1>2, <1>6
<1>9. Typed' /\ AtHome'
  <2>1. Top.addr \in Int /\ dynJumps \in Seq(Int)
    BY <1>3 DEF Call, Typed
  <2>2. pushed \o Rest \in Seq(Call)
    BY <1>3
  <2>3. work' \in Seq(Call) /\ dynJumps' \in Seq(Int)
    <3>1. Append(dynJumps, Top.addr) \in Seq(Int)
      BY <2>1
    <3> QED
      BY <1>3, <1>8, <2>1, <2>2, <3>1
  <2> QED
    BY <1>1, <1>3, <1>4, <2>3, StandsStill DEF Typed
<1>10. WorkInOrder'
  <2>1. \A h \in Homes : Kind(h) = "open" <=> Kind(h)' = "open"
    BY <1>1 DEF Kind
  <2>2. \A h \in Homes : Kind(h) = "open" => statement'[h] = statement[h]
    BY <1>1
  <2>3. CASE work' = Rest
    BY <1>1, <1>3, <2>1, <2>2, <2>3, WorkKeptByPop
  <2>4. CASE work' = pushed \o Rest
    <3>1. Pushable(pushed)
      BY <1>7 DEF Pushable
    <3>2. \A i \in 1 .. Len(pushed) : pushed[i].op = "label" =>
             AwaitsItsLabel(pushed[i].arg, pushed[i].addr)'
      BY <1>7
    <3>3. \A h \in Homes : Kind(h) = "open" /\ Top.op # "label" => statement'[h] = statement[h]
      BY <2>2
    <3>4. \A h \in Homes : Kind(h)' = "open" =>
             \/ \E i \in 1 .. Len(pushed) : pushed[i].op = "label" /\ pushed[i].arg = h
             \/ Kind(h) = "open" /\ Top.op # "label"
      BY <1>1, <2>1
    <3> QED
      BY <1>1, <1>3, <1>6, <2>4, <3>1, <3>2, <3>3, <3>4, WorkKept
  <2> QED
    BY <1>8, <2>3, <2>4
<1>11. DoneIsDone'
  BY <1>1 DEF DoneIsDone
<1> QED
  BY <1>5, <1>9, <1>10, <1>11 DEF Inv

LEMMA ResolveDynJumpKeeps ==
    ASSUME Inv, ResolveDynJump
    PROVE  Progress /\ Inv'
<1> DEFINE h == Elem(Last(dynJumps))
<1>1. /\ work = << >> /\ dynJumps # << >> /\ phase = "running"
      /\ UNCHANGED <<banks, opcode, statement, list, offsets, labels, jumpTables, phase>>
      /\ \/ /\ ByteLike(h)
            /\ dynJumps' = Append(Front(dynJumps), Last(dynJumps) + 2)
            /\ work' = <<Word(h)>>
         \/ dynJumps' = Front(dynJumps) /\ UNCHANGED work
  BY DEF ResolveDynJump
<1>2. Typed /\ WorkInOrder
  BY DEF Inv
<1>3. Progress
  BY <1>1, StillProgress
<1>4. Last(dynJumps) \in Int /\ Front(dynJumps) \in Seq(Int)
  <2>1. dynJumps \in Seq(Int) /\ Len(dynJumps) \in Nat \ {0}
    BY <1>1, <1>2, EmptySeq DEF Typed
  <2>2. SubSeq(dynJumps, 1, Len(dynJumps) - 1) \in Seq(Int)
    BY <2>1, SubSeqProperties
  <2> QED
    BY <2>1, <2>2 DEF Last, Front
<1>5. ByteLike(h) => h \in Homes
  BY <1>2, <1>4, ElemInRom DEF ByteLike
<1>6. \A k \in Homes : Kind(k) # "open"
  BY <1>1, <1>2 DEF WorkInOrder, OpenAwaited
<1>7. \A k \in Homes : Kind(k)' # "open"
  BY <1>1, <1>6 DEF Kind
<1>8. Homes' = Homes
  BY <1>1 DEF Homes, End
<1>9. work' \in Seq(Call) /\ dynJumps' \in Seq(Int) /\ WorkInOrder'
  <2>1. CASE /\ ByteLike(h)
             /\ dynJumps' = Append(Front(dynJumps), Last(dynJumps) + 2)
             /\ work' = <<Word(h)>>
    <3>1. h \in Int
      BY <1>2, <1>5, <2>1, Layout DEF Typed
    <3> HIDE DEF h
    <3>2. /\ work' \in Seq(Call) /\ Len(work') = 1 /\ work'[1].op = "word"
          /\ work'[1].addr = h
      BY <2>1, <3>1 DEF Word, Call, None
    <3>3. dynJumps' \in Seq(Int)
      BY <1>4, <2>1
    <3>4. Ordered' /\ MarkedForWord' /\ LabelsAwaited'
      BY <3>2 DEF Ordered, MarkedForWord, LabelsAwaited
    <3>5. WordsInRom'
      BY <1>5, <1>8, <2>1, <3>2 DEF WordsInRom
    <3>6. OpenAwaited'
      BY <1>7, <1>8 DEF OpenAwaited
    <3> QED
      BY <3>2, <3>3, <3>4, <3>5, <3>6 DEF WorkInOrder
  <2>2. CASE dynJumps' = Front(dynJumps) /\ UNCHANGED work
    <3>1. WorkInOrder'
      BY <1>1, <1>2, <2>2
         DEF WorkInOrder, Ordered, MarkedForWord, LabelsAwaited, WordsInRom,
             OpenAwaited, AwaitsItsLabel, Kind, Homes, End
    <3> QED
      BY <1>2, <1>4, <2>2, <3>1 DEF Typed
  <2> QED
    BY <1>1, <2>1, <2>2
<1>10. Typed' /\ AtHome'
  BY <1>1, <1>2, <1>9, StandsStill DEF Typed
<1>11. DoneIsDone'
  BY <1>1 DEF DoneIsDone
<1> QED
  BY <1>3, <1>9, <1>10, <1>11 DEF Inv

(* A word changes its kind.                                                 *)
LEMMA WordRewritten ==
    ASSUME StatementsTyped, NEW h \in Homes, statement[h] \in DataWord, NEW k
    PROVE  [statement EXCEPT ![h].kind = k] =
              [statement EXCEPT ![h] =
                 [kind |-> k, value |-> statement[h].value, label |-> statement[h].label]]
<1>1. PICK r \in DataWord : r = statement[h]
  OBVIOUS
<1>2. [r EXCEPT !.kind = k] = [kind |-> k, value |-> r.value, label |-> r.label]
  BY DEF DataWord
<1>3. [statement EXCEPT ![h].kind = k] = [statement EXCEPT ![h] = [r EXCEPT !.kind = k]]
  BY <1>1 DEF StatementsTyped
<1> QED
  BY <1>1, <1>2, <1>3

(* A step that rewrites the statement at h, and nothing else of the ROM.    *)
LEMMA Rewrites ==
    ASSUME Inv, UNCHANGED <<banks, list, offsets, dynJumps, jumpTables>>,
           NEW h \in Homes, NEW r \in DataWord,
           statement' = [statement EXCEPT ![h] = r], Kind(h) = "open", r.kind # "open",
           OpCodesTyped', DOMAIN opcode \subseteq DOMAIN opcode',
           labels \subseteq labels', LabelsTyped',
           phase' \in {"running", "done", "panicked"}, work' \in Seq(Call)
    PROVE  Progress /\ Typed' /\ AtHome'
<1>1. Homes' = Homes /\ Bank' = Bank
  BY DEF Homes, End, Bank
<1>2. StatementsTyped' /\ statement'[h] = r
      /\ \A k \in Homes : k # h => statement'[k] = statement[k]
  BY NewStatement DEF Inv, Typed
<1>3. Typed'
  BY <1>1, <1>2 DEF Inv, Typed, ElementsTyped
<1>4. r.kind \in {"number", "reference"}
  BY DEF DataWord
<1>5. AtHome'
  BY <1>1, <1>2, <1>4 DEF Inv, AtHome, HomeOf, Kind
<1>6. Progress
  BY <1>2, <1>4 DEF Progress, Kind
<1> QED
  BY <1>3, <1>5, <1>6

LEMMA MarkFailsKeeps ==
    ASSUME Inv, MarkFails
    PROVE  Progress /\ Inv'
<1>1. /\ work # << >> /\ Top.op = "mark" /\ phase = "running"
      /\ UNCHANGED <<banks, list, offsets, labels, dynJumps, jumpTables, phase>>
  BY DEF MarkFails, Marking
<1>2. Typed /\ WorkInOrder /\ Top \in Call /\ Rest \in Seq(Call) /\ OpCodesTyped
  BY <1>1, TopTyped DEF Inv, Typed
<1>3. PICK h \in offsets : \E c \in OpCodeAt(h) : opcode' = Noted(opcode, h, c)
  BY DEF MarkFails
<1>4. Homes' = Homes
  BY <1>1 DEF Homes, End
<1>5. OpCodesTyped' /\ DOMAIN opcode \subseteq DOMAIN opcode'
  <2>1. PICK c \in OpCodes : opcode' = Noted(opcode, h, c)
    BY <1>2, <1>3 DEF OpCodeAt, OpCodesTyped
  <2>2. h \in Homes
    BY <1>2 DEF Typed, ElementsTyped
  <2> QED
    BY <1>1, <1>2, <2>1, <2>2, NewOpCode
<1>6. LabelsTyped' /\ labels \subseteq labels'
  BY <1>1, <1>2, <1>4 DEF Typed, LabelsTyped
<1>7. DoneIsDone'
  BY <1>1 DEF DoneIsDone
<1>8. CASE Top.arg = None
  <2>1. work' = Rest /\ UNCHANGED statement
    BY <1>8 DEF MarkFails
  <2>2. Typed' /\ AtHome'
    <3>1. Bank' = Bank
      BY <1>1 DEF Bank
    <3>2. Typed'
      BY <1>1, <1>2, <1>4, <1>5, <1>6, <2>1 DEF Typed, StatementsTyped, ElementsTyped
    <3>3. AtHome'
      BY <1>1, <1>4, <2>1, <3>1 DEF Inv, AtHome, HomeOf, Kind
    <3> QED
      BY <3>2, <3>3
  <2>3. Progress
    BY <1>1, <1>5, <2>1 DEF Progress
  <2>4. WorkInOrder'
    <3>1. \A k \in Homes : Kind(k) = "open" <=> Kind(k)' = "open"
      BY <2>1 DEF Kind
    <3>2. \A k \in Homes : Kind(k) = "open" => statement'[k] = statement[k]
      BY <2>1
    <3> QED
      BY <1>1, <1>2, <2>1, <3>1, <3>2, WorkKeptByPop
  <2> QED
    BY <1>7, <2>2, <2>3, <2>4 DEF Inv
<1>9. CASE Top.arg # None
  <2> DEFINE w == Top.arg
  <2>1. work' = Tail(Rest) /\ statement' = [statement EXCEPT ![w].kind = "number"]
    BY <1>9 DEF MarkFails
  <2>2. /\ work \in Seq(Call) /\ Len(work) \in Nat /\ Top = work[1]
        /\ 2 \in 1 .. Len(work) /\ work[2].op = "label" /\ work[2].arg = w
    <3>1. work \in Seq(Call) /\ Len(work) \in Nat \ {0} /\ Top = work[1]
      BY <1>1, <1>2, StackPop DEF Typed, Top
    <3>2. MarkedForWord /\ 1 \in 1 .. Len(work) /\ work[1].op = "mark" /\ work[1].arg # None
      BY <1>1, <1>2, <1>9, <3>1 DEF WorkInOrder
    <3>3. /\ 1 + 1 \in 1 .. Len(work)
          /\ work[1 + 1].op = "label" /\ work[1 + 1].arg = work[1].arg
      BY <3>2 DEF MarkedForWord
    <3> QED
      BY <3>1, <3>3
  <2>3. w \in Homes /\ Kind(w) = "open"
    BY <1>2, <2>2 DEF WorkInOrder, LabelsAwaited, AwaitsItsLabel
  <2>4. \A i \in 3 .. Len(work) : work[i].op = "word" /\ work[i].addr \in Homes
    BY <1>2, <2>2 DEF WorkInOrder, Ordered, WordsInRom
  <2>5. /\ work' \in Seq(Call) /\ Len(work') = Len(work) - 2
        /\ \A i \in 1 .. Len(work) - 2 : work'[i] = work[i + 2]
    <3>1. /\ Len(Rest) = Len(work) - 1
          /\ \A i \in 1 .. Len(work) - 1 : Rest[i] = work[i + 1]
      BY <1>1, <2>2, StackPop DEF Rest
    <3>2. Rest # << >>
      BY <2>2, <3>1
    <3>3. /\ Tail(Rest) \in Seq(Call) /\ Len(Tail(Rest)) = Len(Rest) - 1
          /\ \A i \in 1 .. Len(Rest) - 1 : Tail(Rest)[i] = Rest[i + 1]
      BY <1>2, <3>2, StackPop
    <3>4. Len(work') = Len(work) - 2
      BY <2>1, <2>2, <3>1, <3>3
    <3>5. ASSUME NEW i \in 1 .. Len(work) - 2 PROVE work'[i] = work[i + 2]
      <4>1. i \in 1 .. Len(Rest) - 1 /\ i + 1 \in 1 .. Len(work) - 1 /\ (i + 1) + 1 = i + 2
        BY <2>2, <3>1
      <4> QED
        BY <2>1, <3>1, <3>3, <4>1
    <3> QED
      BY <2>1, <3>3, <3>4, <3>5
  <2>6. \A i \in 1 .. Len(work') : work'[i].op = "word" /\ work'[i].addr \in Homes
    BY <2>2, <2>4, <2>5
  <2>7. StatementsTyped /\ statement[w] \in DataWord
    BY <1>2, <2>3, KindIs DEF Typed
  <2>8. PICK r \in DataWord :
           r.kind = "number" /\ statement' = [statement EXCEPT ![w] = r]
    <3> DEFINE r == [kind |-> "number", value |-> statement[w].value,
                     label |-> statement[w].label]
    <3>1. statement' = [statement EXCEPT ![w] = r]
      BY <2>1, <2>3, <2>7, WordRewritten
    <3>2. r \in DataWord /\ r.kind = "number"
      BY <2>7 DEF DataWord
    <3> QED
      BY <3>1, <3>2
  <2> HIDE DEF w
  <2>9. Progress /\ Typed' /\ AtHome'
    BY <1>1, <1>5, <1>6, <2>3, <2>5, <2>8, Rewrites
  <2>10. OpenAwaited'
    <3>1. \A k \in Homes : Kind(k) = "open" => k = w
      <4> SUFFICES ASSUME NEW k \in Homes, Kind(k) = "open" PROVE k = w
        OBVIOUS
      <4>1. PICK i \in 1 .. Len(work) : work[i].op = "label" /\ work[i].arg = k
        BY <1>2 DEF WorkInOrder, OpenAwaited
      <4>2. i = 2
        <5>1. i # 1
          BY <1>1, <2>2, <4>1
        <5>2. i \notin 3 .. Len(work)
          BY <2>4, <4>1
        <5> QED
          BY <2>2, <5>1, <5>2
      <4> QED
        BY <2>2, <4>1, <4>2
    <3>2. /\ statement'[w] = r
          /\ \A k \in Homes : k # w => statement'[k] = statement[k]
      BY <1>1, <2>3, <2>7, <2>8, NewStatement
    <3>3. \A k \in Homes : Kind(k)' # "open"
      BY <2>8, <3>1, <3>2 DEF Kind
    <3> QED
      BY <1>4, <3>3 DEF OpenAwaited
  <2>11. WorkInOrder'
    BY <1>4, <2>6, <2>10
       DEF WorkInOrder, Ordered, MarkedForWord, LabelsAwaited, WordsInRom
  <2> QED
    BY <1>7, <2>9, <2>11 DEF Inv
<1> QED
  BY <1>8, <1>9

LEMMA LabelTheWordDoes ==
    ASSUME Inv, LabelTheWord
    PROVE  \E name \in Int, found \in Int, r \in DataWord :
              /\ name = SuggestedName(Top.arg, Top.addr)
              /\ found = LabelName(Top.addr, name)
              /\ r.kind = (IF found = None THEN "number" ELSE "reference")
              /\ r.value = Top.addr /\ r.label = found
              /\ Top.arg \in Homes /\ Kind(Top.arg) = "open"
              /\ statement' = [statement EXCEPT ![Top.arg] = r]
              /\ labels' = LabelsWith(Top.addr, name)
<1>1. work # << >> /\ Top.op = "label"
  BY DEF LabelTheWord
<1>2. Typed /\ WorkInOrder /\ Top \in Call
  BY <1>1, TopTyped DEF Inv
<1>3. PICK w \in Homes, t \in Int :
         w = Top.arg /\ t = Top.addr /\ Kind(w) = "open" /\ statement[w].value = t
  <2>1. Top = work[1] /\ 1 \in 1 .. Len(work)
    BY <1>1, <1>2, StackPop DEF Typed, Top
  <2>2. AwaitsItsLabel(Top.arg, Top.addr)
    BY <1>1, <1>2, <2>1 DEF WorkInOrder, LabelsAwaited
  <2> QED
    BY <1>2, <2>2 DEF AwaitsItsLabel, Call
<1> DEFINE name == SuggestedName(w, t)
           found == LabelName(t, name)
           kind == IF found = None THEN "number" ELSE "reference"
           r == [kind |-> kind, value |-> t, label |-> found]
<1>4. /\ statement' = [statement EXCEPT ![w].kind = kind, ![w].label = found]
      /\ labels' = LabelsWith(t, name)
  BY <1>3 DEF LabelTheWord
<1>5. name \in Int
  <2>1. End \in Int /\ Homes \subseteq Int
    BY <1>2, Layout DEF Typed
  <2>2. End + w \in Int /\ t \in Int
    BY <1>3, <2>1
  <2> QED
    BY <2>2 DEF SuggestedName
<1>6. found \in Int
  <2> HIDE DEF name
  <2> QED
    BY <1>2, <1>5, LabelNameTyped
<1>7. r \in DataWord /\ r.kind = kind /\ r.value = t /\ r.label = found
  BY <1>3, <1>6 DEF DataWord
<1>8. statement' = [statement EXCEPT ![w] = r]
  <2>1. StatementsTyped /\ statement[w] \in DataWord
    BY <1>2, <1>3, KindIs DEF Typed
  <2> HIDE DEF kind, found
  <2>2. [statement EXCEPT ![w].kind = kind, ![w].label = found] =
           [statement EXCEPT ![w] =
               [kind |-> kind, value |-> statement[w].value, label |-> found]]
    <3>1. PICK word \in DataWord : word = statement[w]
      BY <2>1
    <3> DEFINE e == [kind |-> kind, value |-> word.value, label |-> word.label]
    <3>2. [word EXCEPT !.kind = kind] = e
      BY DEF DataWord
    <3>3. [e EXCEPT !.label = found] = [kind |-> kind, value |-> word.value, label |-> found]
      OBVIOUS
    <3>4. [statement EXCEPT ![w].kind = kind, ![w].label = found] =
             [statement EXCEPT ![w] = [[word EXCEPT !.kind = kind] EXCEPT !.label = found]]
      BY <1>3, <2>1, <3>1 DEF StatementsTyped
    <3> HIDE DEF e
    <3> QED
      BY <3>1, <3>2, <3>3, <3>4
  <2>3. statement[w].value = t
    BY <1>3
  <2>4. statement' = [statement EXCEPT ![w].kind = kind, ![w].label = found]
    BY <1>4
  <2> QED
    BY <2>2, <2>3, <2>4
<1>9. name = SuggestedName(Top.arg, Top.addr)
  BY <1>3
<1> HIDE DEF name, r
<1> QED
  BY <1>3, <1>4, <1>5, <1>6, <1>7, <1>8, <1>9

LEMMA LabelTheWordKeeps ==
    ASSUME Inv, LabelTheWord
    PROVE  Progress /\ Inv'
<1>1. /\ work # << >> /\ Top.op = "label" /\ phase = "running" /\ work' = Rest
      /\ UNCHANGED <<banks, opcode, list, offsets, dynJumps, jumpTables, phase>>
  BY DEF LabelTheWord
<1>2. Typed /\ WorkInOrder /\ Top \in Call /\ Rest \in Seq(Call)
  BY <1>1, TopTyped DEF Inv
<1>3. Homes' = Homes
  BY <1>1 DEF Homes, End
<1>4. PICK name \in Int, found \in Int, r \in DataWord :
         /\ r.kind = (IF found = None THEN "number" ELSE "reference")
         /\ Top.arg \in Homes /\ Kind(Top.arg) = "open"
         /\ statement' = [statement EXCEPT ![Top.arg] = r]
         /\ labels' = LabelsWith(Top.addr, name)
  BY LabelTheWordDoes
<1>5. PICK w \in Homes : w = Top.arg /\ Kind(w) = "open"
  BY <1>4
<1>6. LabelsTyped' /\ labels \subseteq labels'
  BY <1>2, <1>3, <1>4, LabelsWithTyped DEF LabelsTyped
<1>7. OpCodesTyped' /\ DOMAIN opcode \subseteq DOMAIN opcode'
  BY <1>1, <1>2, <1>3 DEF Typed, OpCodesTyped
<1>8. r.kind # "open"
  BY <1>4
<1>9. Progress /\ Typed' /\ AtHome'
  <2>1. statement' = [statement EXCEPT ![w] = r]
    BY <1>4, <1>5
  <2>2. phase' \in {"running", "done", "panicked"} /\ work' \in Seq(Call)
    BY <1>1, <1>2
  <2> QED
    BY <1>1, <1>5, <1>6, <1>7, <1>8, <2>1, <2>2, Rewrites
<1>10. WorkInOrder'
  <2>1. /\ work \in Seq(Call) /\ Len(work) \in Nat \ {0} /\ Top = work[1]
        /\ Len(work') = Len(work) - 1
        /\ \A i \in 1 .. Len(work) - 1 : work'[i] = work[i + 1]
    BY <1>1, <1>2, StackPop DEF Typed, Top, Rest
  <2>2. \A i \in 2 .. Len(work) : work[i].op = "word" /\ work[i].addr \in Homes
    BY <1>1, <1>2, <2>1 DEF WorkInOrder, Ordered, WordsInRom
  <2>3. \A i \in 1 .. Len(work') : work'[i].op = "word" /\ work'[i].addr \in Homes
    BY <2>1, <2>2
  <2>4. \A k \in Homes : Kind(k) = "open" => k = w
    <3> SUFFICES ASSUME NEW k \in Homes, Kind(k) = "open" PROVE k = w
      OBVIOUS
    <3>1. PICK i \in 1 .. Len(work) : work[i].op = "label" /\ work[i].arg = k
      BY <1>2 DEF WorkInOrder, OpenAwaited
    <3>2. i = 1
      BY <2>1, <2>2, <3>1
    <3> QED
      BY <1>5, <2>1, <3>1, <3>2
  <2>5. /\ statement'[w] = r
        /\ \A k \in Homes : k # w => statement'[k] = statement[k]
    BY <1>1, <1>2, <1>4, <1>5, NewStatement DEF Typed
  <2>6. \A k \in Homes : Kind(k)' # "open"
    BY <1>8, <2>4, <2>5 DEF Kind
  <2> QED
    BY <1>3, <2>3, <2>6
       DEF WorkInOrder, Ordered, MarkedForWord, LabelsAwaited, WordsInRom, OpenAwaited
<1>11. DoneIsDone'
  BY <1>1 DEF DoneIsDone
<1> QED
  BY <1>9, <1>10, <1>11 DEF Inv

(* A step that decodes a byte or a number at h.                             *)
LEMMA Takes ==
    ASSUME Inv, UNCHANGED <<banks, phase>>, NEW h \in Homes, NEW n, Took(h, n),
           NEW r \in Instruction \cup DataWord, ByteLike(h), r.kind # "reference",
           r.kind = "instruction" => HomeOf(r.addr) = h,
           statement' = [statement EXCEPT ![h] = r],
           OpCodesTyped', DOMAIN opcode \subseteq DOMAIN opcode',
           labels \subseteq labels', LabelsTyped',
           work' \in Seq(Call), UNCHANGED <<dynJumps, jumpTables>>
    PROVE  Progress /\ Typed' /\ AtHome'
<1>1. Homes' = Homes /\ Bank' = Bank
  BY DEF Homes, End, Bank
<1>2. StatementsTyped' /\ statement'[h] = r
      /\ \A k \in Homes : k # h => statement'[k] = statement[k]
  <2>1. r \in Byte \cup Instruction \cup DataWord /\ StatementsTyped
    BY DEF Inv, Typed
  <2> QED
    BY <2>1, NewStatement
<1>3. /\ list' \subseteq list /\ offsets' \subseteq offsets /\ list' \subseteq offsets'
      /\ banks = 2 => list' = offsets'
      /\ \A e \in list \ list' : ByteLike(e) /\ LabelsBefore(e) = {}
  BY DEF Took, Leaves
<1>4. Typed'
  <2>1. ElementsTyped'
    BY <1>1, <1>3 DEF Inv, Typed, ElementsTyped
  <2> QED
    BY <1>1, <1>2, <2>1 DEF Inv, Typed
<1>5. r.kind \in {"instruction", "number", "open"}
  BY DEF Instruction, DataWord
<1>6. AtHome'
  <2> SUFFICES ASSUME NEW k \in Homes, statement'[k].kind = "instruction"
               PROVE  HomeOf(statement'[k].addr) = k
    BY <1>1 DEF AtHome, HomeOf, Kind
  <2>1. CASE k = h
    BY <1>2, <2>1
  <2>2. CASE k # h
    BY <1>2, <2>2 DEF Inv, AtHome, Kind
  <2> QED
    BY <2>1, <2>2
<1>7. Progress
  <2>1. Kind(h) \in {"byte", "number"}
    BY ByteLikeIs DEF Inv
  <2>2. \A k \in Homes : \/ statement'[k] = statement[k]
                         \/ /\ Kind(k) \in {"byte", "number", "open"}
                            /\ Kind(k)' \in {"instruction", "number", "open", "reference"}
    BY <1>2, <1>5, <2>1 DEF Kind
  <2> QED
    BY <1>3, <2>2 DEF Progress
<1> QED
  BY <1>4, <1>6, <1>7

LEMMA PushedAre ==
    ASSUME NEW c \in DOMAIN Shape, NEW a \in Int, NEW v \in Int
    PROVE  /\ Calls(c, a, v) \in Seq(Call)
           /\ \A i \in 1 .. Len(Calls(c, a, v)) :
                 Calls(c, a, v)[i].op \in {"mark", "return"}
           /\ \A i \in 1 .. Len(Calls(c, a, v)) :
                 Calls(c, a, v)[i].op = "mark" => Calls(c, a, v)[i].arg = None
<1> DEFINE after == a + Shape[c].size
           p == Calls(c, a, v)
<1>1. after \in Int
  BY ShapeFacts
<1>2. \A x \in Int : Mark(x, None) \in Call /\ Return(x, v) \in Call
  BY DEF Mark, Return, Call, None
<1>3. Mark(after, None) \in Call /\ Mark(v, None) \in Call /\ Return(after, v) \in Call
  BY <1>1, <1>2
<1>4. /\ \A x : Mark(x, None).op = "mark" /\ Mark(x, None).arg = None
      /\ \A x, y : Return(x, y).op = "return"
  BY DEF Mark, Return
<1> HIDE DEF after
<1>5. \/ p = << >> \/ p = <<Mark(after, None)>> \/ p = <<Mark(v, None)>>
      \/ p = <<Mark(after, None), Mark(v, None)>> \/ p = <<Mark(v, None), Return(after, v)>>
  BY CallsAre DEF after
<1> HIDE DEF p
<1>6. /\ p \in Seq(Call)
      /\ \A i \in 1 .. Len(p) :
            p[i] \in {Mark(after, None), Mark(v, None), Return(after, v)}
  <2>1. PICK m1 \in Call, m2 \in Call, r \in Call :
           m1 = Mark(after, None) /\ m2 = Mark(v, None) /\ r = Return(after, v)
    BY <1>3
  <2>2. \/ p = << >> \/ p = <<m1>> \/ p = <<m2>> \/ p = <<m1, m2>> \/ p = <<m2, r>>
    BY <1>5, <2>1
  <2>3. p \in Seq(Call)
    <3>1. /\ << >> \in Seq(Call) /\ <<m1>> \in Seq(Call) /\ <<m2>> \in Seq(Call)
          /\ <<m1, m2>> \in Seq(Call) /\ <<m2, r>> \in Seq(Call)
      OBVIOUS
    <3> QED
      BY <2>2, <3>1
  <2>4. \A i \in 1 .. Len(p) : p[i] \in {m1, m2, r}
    BY <2>2
  <2> QED
    BY <2>1, <2>3, <2>4
<1>7. \A i \in 1 .. Len(p) :
         p[i].op \in {"mark", "return"} /\ (p[i].op = "mark" => p[i].arg = None)
  BY <1>4, <1>6
<1> QED
  BY <1>6, <1>7 DEF p

LEMMA MarkInstructionKeeps ==
    ASSUME Inv, MarkInstruction, ~Panic
    PROVE  Progress /\ Inv'
<1>1. work # << >> /\ Top.op = "mark" /\ phase = "running"
  BY DEF MarkInstruction, Marking
<1>2. Typed /\ WorkInOrder /\ Top \in Call /\ Rest \in Seq(Call)
  BY <1>1, TopTyped DEF Inv
<1>3. PICK h \in offsets, c \in OpCodes : \E v, name : Decoded(Top.addr, h, c, v, name)
  BY <1>2, MarkInstructionDoes
<1>4. PICK v, name : Decoded(Top.addr, h, c, v, name)
  BY <1>3
<1>5. PICK a \in Int : a = Top.addr
  BY <1>2 DEF Call
<1>6. /\ h = Elem(a) /\ ByteLike(h) /\ c \in OpCodes \cap DOMAIN Shape /\ v \in Int
      /\ opcode' = Noted(opcode, h, c)
      /\ Took(h, Shape[c].size)
      /\ name = (IF Shape[c].label = "none" THEN None ELSE LabelName(v, v))
      /\ labels' = (IF Shape[c].label = "none" THEN labels ELSE LabelsWith(v, v))
      /\ work' = Calls(c, a, v) \o Rest
      /\ UNCHANGED <<banks, dynJumps, jumpTables, phase>>
  BY <1>4, <1>5 DEF Decoded
<1>7. PICK r : /\ r = [kind |-> "instruction", code |-> c, addr |-> a, value |-> v, label |-> name]
               /\ statement' = [statement EXCEPT ![h] = r]
  BY <1>4, <1>5 DEF Decoded
<1>8. Homes' = Homes
  BY <1>6 DEF Homes, End
<1>9. h \in Homes /\ HomeOf(a) = h
  <2>1. h # None /\ h = Elem(a)
    BY <1>6 DEF ByteLike
  <2> QED
    BY <1>2, <2>1, ElemInRom
<1>10. name \in Int
  BY <1>2, <1>6, LabelNameTyped DEF None
<1>11. r \in Instruction /\ r.kind = "instruction" /\ r.addr = a
  BY <1>6, <1>7, <1>10 DEF Instruction
<1>12. OpCodesTyped' /\ DOMAIN opcode \subseteq DOMAIN opcode'
  <2>1. OpCodesTyped /\ banks' = banks
    BY <1>2, <1>6 DEF Typed
  <2> QED
    BY <1>3, <1>6, <1>9, <2>1, NewOpCode
<1>13. LabelsTyped' /\ labels \subseteq labels'
  BY <1>2, <1>6, <1>8, LabelsWithTyped DEF LabelsTyped, Typed
<1>14. PICK p \in Seq(Call) :
         /\ p = Calls(c, a, v)
         /\ \A i \in 1 .. Len(p) :
               p[i].op \in {"mark", "return"} /\ (p[i].op = "mark" => p[i].arg = None)
  BY <1>6, PushedAre
<1>15. work' \in Seq(Call) /\ work' = p \o Rest
  BY <1>2, <1>6, <1>14
<1>16. Progress /\ Typed' /\ AtHome'
  <2>1. r \in Instruction \cup DataWord /\ r.kind # "reference" /\ HomeOf(r.addr) = h
    BY <1>9, <1>11
  <2> QED
    BY <1>6, <1>7, <1>9, <1>12, <1>13, <1>15, <2>1, Takes
<1>17. WorkInOrder'
  <2>1. Pushable(p)
    BY <1>14 DEF Pushable
  <2>2. \A i \in 1 .. Len(p) : p[i].op = "label" => AwaitsItsLabel(p[i].arg, p[i].addr)'
    BY <1>14
  <2>3. /\ statement'[h] = r
        /\ \A k \in Homes : k # h => statement'[k] = statement[k]
    <3>1. StatementsTyped /\ banks' = banks /\ r \in Byte \cup Instruction \cup DataWord
      BY <1>2, <1>6, <1>11 DEF Typed
    <3> QED
      BY <1>7, <1>9, <3>1, NewStatement
  <2>4. Kind(h) # "open"
    BY <1>2, <1>6, <1>9, ByteLikeIs
  <2>5. \A k \in Homes : Kind(k) = "open" /\ Top.op # "label" => statement'[k] = statement[k]
    BY <2>3, <2>4
  <2>6. \A k \in Homes : Kind(k)' = "open" =>
           \/ \E i \in 1 .. Len(p) : p[i].op = "label" /\ p[i].arg = k
           \/ Kind(k) = "open" /\ Top.op # "label"
    BY <1>1, <1>11, <2>3 DEF Kind
  <2> QED
    BY <1>1, <1>2, <1>6, <1>14, <1>15, <2>1, <2>2, <2>5, <2>6, WorkKept
<1>18. DoneIsDone'
  BY <1>1, <1>6 DEF DoneIsDone
<1> QED
  BY <1>16, <1>17, <1>18 DEF Inv

LEMMA MarkWordKeeps ==
    ASSUME Inv, MarkWord, ~Panic
    PROVE  Progress /\ Inv'
<1>1. work # << >> /\ Top.op = "word" /\ phase = "running"
  BY DEF MarkWord
<1>2. Typed /\ WorkInOrder /\ Top \in Call /\ Rest \in Seq(Call)
  BY <1>1, TopTyped DEF Inv
<1>3. PICK h \in offsets : \E v : ReadAsWord(Top.addr, h, v)
  BY <1>2, MarkWordDoes
<1>4. PICK v : ReadAsWord(Top.addr, h, v)
  BY <1>3
<1>5. PICK a \in Int : a = Top.addr
  BY <1>2 DEF Call
<1>6. /\ h = Elem(a) /\ ByteLike(h) /\ v \in Nat
      /\ Took(h, 2)
      /\ UNCHANGED <<banks, opcode, labels, dynJumps, jumpTables, phase>>
  BY <1>4, <1>5 DEF ReadAsWord
<1>7. PICK r :
         /\ r = [kind |-> IF v < PrgStart THEN "number" ELSE "open", value |-> v, label |-> None]
         /\ statement' = [statement EXCEPT ![h] = r]
  BY <1>4 DEF ReadAsWord
<1>8. PICK p \in Seq(Call) :
         /\ work' = p \o Rest
         /\ p = IF v < PrgStart THEN << >> ELSE <<Mark(v, h), LabelWord(v, h)>>
  <2>1. h \in Int
    BY <1>2, Layout DEF Typed, ElementsTyped
  <2>2. Mark(v, h) \in Call /\ LabelWord(v, h) \in Call
    BY <1>6, <2>1 DEF Mark, LabelWord, Call
  <2>3. <<Mark(v, h), LabelWord(v, h)>> \in Seq(Call) /\ << >> \in Seq(Call)
    BY <2>2
  <2>4. << >> \o Rest = Rest
    BY <1>2
  <2> QED
    BY <1>4, <2>3, <2>4 DEF ReadAsWord
<1>9. Homes' = Homes
  BY <1>6 DEF Homes, End
<1>10. h \in Homes
  BY <1>2 DEF Typed, ElementsTyped
<1>11. /\ r \in DataWord /\ r.value = v
      /\ r.kind = (IF v < PrgStart THEN "number" ELSE "open")
  BY <1>6, <1>7 DEF DataWord, None
<1>12. work' \in Seq(Call)
  BY <1>2, <1>8
<1>13. /\ OpCodesTyped' /\ LabelsTyped'
       /\ DOMAIN opcode \subseteq DOMAIN opcode' /\ labels \subseteq labels'
  BY <1>2, <1>6, <1>9 DEF Typed, OpCodesTyped, LabelsTyped
<1>14. Progress /\ Typed' /\ AtHome'
  <2>1. r \in Instruction \cup DataWord /\ r.kind # "reference" /\ r.kind # "instruction"
    BY <1>11
  <2> QED
    BY <1>6, <1>7, <1>10, <1>12, <1>13, <2>1, Takes
<1>15. /\ statement'[h] = r
       /\ \A k \in Homes : k # h => statement'[k] = statement[k]
  <2>1. StatementsTyped /\ banks' = banks /\ r \in Byte \cup Instruction \cup DataWord
    BY <1>2, <1>6, <1>11 DEF Typed
  <2> QED
    BY <1>7, <1>10, <2>1, NewStatement
<1>16. Kind(h) # "open"
  BY <1>2, <1>6, <1>10, ByteLikeIs
<1>17. WorkInOrder'
  <2>1. \A k \in Homes : Kind(k) = "open" /\ Top.op # "label" => statement'[k] = statement[k]
    BY <1>15, <1>16
  <2>2. CASE v < PrgStart
    <3>1. Len(p) = 0
      BY <1>8, <2>2
    <3>2. Pushable(p)
      BY <3>1 DEF Pushable
    <3>3. \A i \in 1 .. Len(p) : p[i].op = "label" => AwaitsItsLabel(p[i].arg, p[i].addr)'
      BY <3>1
    <3>4. \A k \in Homes : Kind(k)' = "open" =>
             \/ \E i \in 1 .. Len(p) : p[i].op = "label" /\ p[i].arg = k
             \/ Kind(k) = "open" /\ Top.op # "label"
      BY <1>1, <1>11, <1>15, <2>2 DEF Kind
    <3> QED
      BY <1>1, <1>2, <1>6, <1>8, <2>1, <3>2, <3>3, <3>4, WorkKept
  <2>3. CASE ~(v < PrgStart)
    <3>1. /\ Len(p) = 2
          /\ p[1].op = "mark" /\ p[1].arg = h
          /\ p[2].op = "label" /\ p[2].arg = h /\ p[2].addr = v
      BY <1>8, <2>3 DEF Mark, LabelWord
    <3>2. \A i \in 1 .. Len(p) : i = 1 \/ i = 2
      BY <3>1
    <3>3. Pushable(p)
      BY <1>1, <3>1, <3>2 DEF Pushable
    <3>4. AwaitsItsLabel(h, v)'
      BY <1>9, <1>10, <1>11, <1>15, <2>3 DEF AwaitsItsLabel, Kind
    <3>5. \A i \in 1 .. Len(p) : p[i].op = "label" => AwaitsItsLabel(p[i].arg, p[i].addr)'
      BY <3>1, <3>2, <3>4
    <3>6. \A k \in Homes : Kind(k)' = "open" =>
             \/ \E i \in 1 .. Len(p) : p[i].op = "label" /\ p[i].arg = k
             \/ Kind(k) = "open" /\ Top.op # "label"
      <4> TAKE k \in Homes
      <4>1. CASE k = h
        BY <3>1, <4>1
      <4>2. CASE k # h
        BY <1>1, <1>15, <4>2 DEF Kind
      <4> QED
        BY <4>1, <4>2
    <3> QED
      BY <1>1, <1>2, <1>6, <1>8, <2>1, <3>3, <3>5, <3>6, WorkKept
  <2> QED
    BY <2>2, <2>3
<1>18. DoneIsDone'
  BY <1>1, <1>6 DEF DoneIsDone
<1> QED
  BY <1>14, <1>17, <1>18 DEF Inv

-----------------------------------------------------------------------------
LEMMA VectorsInRom ==
    ASSUME banks \in 1 .. 2, NEW i \in 1 .. VectorCount
    PROVE  Vectors[i] \in Homes /\ Vectors[i] = End - 2 * (VectorCount - i + 1)
<1>1. Vectors[i] = End - 2 * (VectorCount - i + 1)
  BY DEF Vectors
<1> DEFINE k == VectorCount - i + 1
<1>2. /\ Bank \in Nat /\ VectorCount \in Nat /\ 2 * VectorCount <= Bank
      /\ End = 4 * Bank /\ Homes = Start .. End - 1
      /\ Start = (IF banks = 1 THEN 3 * Bank ELSE 2 * Bank)
  BY Layout
<1>3. k \in Nat /\ 1 <= k /\ k <= VectorCount
  BY <1>2
<1>4. Vectors[i] = End - 2 * k
  BY <1>1
<1> HIDE DEF k
<1>5. Vectors[i] \in Homes
  BY <1>2, <1>3, <1>4
<1> QED
  BY <1>1, <1>5

LEMMA InitInv ==
    ASSUME Init
    PROVE  Inv
<1>1. banks \in 1 .. 2 /\ list = Homes /\ offsets = Homes /\ labels = {} /\ phase = "running"
  BY DEF Init
<1>2. \A h \in Homes : statement[h] = [kind |-> "byte"]
  BY DEF Init
<1>3. VectorCount \in Nat
  BY <1>1, Layout
<1>4. \A i \in 1 .. VectorCount : Word(Vectors[i]) \in Call /\ Word(Vectors[i]).op = "word"
                                     /\ Word(Vectors[i]).addr \in Homes
  <2> TAKE i \in 1 .. VectorCount
  <2>1. Vectors[i] \in Homes /\ Vectors[i] \in Int
    BY <1>1, VectorsInRom, Layout
  <2> QED
    BY <2>1 DEF Word, Call, None
<1>5. /\ work \in Seq(Call) /\ Len(work) = VectorCount
      /\ \A i \in 1 .. Len(work) : work[i].op = "word" /\ work[i].addr \in Homes
  <2>1. work = [i \in 1 .. VectorCount |-> Word(Vectors[i])]
    BY DEF Init
  <2> QED
    BY <1>3, <1>4, <2>1
<1>6. StatementsTyped
  BY <1>2 DEF Init, StatementsTyped, Byte
<1>7. Typed
  <2>1. OpCodesTyped /\ ElementsTyped /\ LabelsTyped
    BY <1>1 DEF Init, OpCodesTyped, ElementsTyped, LabelsTyped
  <2>2. dynJumps \in Seq(Int) /\ \A v \in DOMAIN jumpTables : jumpTables[v] \in BOOLEAN
    BY DEF Init
  <2> QED
    BY <1>1, <1>5, <1>6, <2>1, <2>2 DEF Typed
<1>8. WorkInOrder
  BY <1>2, <1>5
     DEF WorkInOrder, Ordered, MarkedForWord, LabelsAwaited, WordsInRom, OpenAwaited, Kind
<1>9. AtHome /\ DoneIsDone
  BY <1>1, <1>2 DEF AtHome, DoneIsDone, Kind
<1> QED
  BY <1>7, <1>8, <1>9 DEF Inv

LEMMA NextKeeps ==
    ASSUME Inv, Next
    PROVE  Progress /\ Inv'
<1>1. CASE MarkNothing
  BY <1>1, MarkNothingKeeps
<1>2. CASE MarkFails
  BY <1>2, MarkFailsKeeps
<1>3. CASE MarkInstruction
  BY <1>3, MarkInstructionKeeps, PanicKeeps
<1>4. CASE ReturnFromMark
  BY <1>4, ReturnFromMarkKeeps
<1>5. CASE MarkWord
  BY <1>5, MarkWordKeeps, PanicKeeps
<1>6. CASE LabelTheWord
  BY <1>6, LabelTheWordKeeps
<1>7. CASE ResolveDynJump
  BY <1>7, ResolveDynJumpKeeps
<1>8. CASE Finish
  BY <1>8, FinishKeeps
<1> QED
  BY <1>1, <1>2, <1>3, <1>4, <1>5, <1>6, <1>7, <1>8 DEF Next

LEMMA AlwaysInv == Spec => []Inv
<1>1. Init => Inv
  BY InitInv
<1>2. Inv /\ [Next]_vars => Inv'
  BY NextKeeps, InvUnchanged
<1> QED
  BY <1>1, <1>2, PTL DEF Spec

LEMMA NextProgress == Inv /\ [Next]_vars => Progress
<1>1. UNCHANGED vars => Progress
  BY DEF Progress, vars
<1> QED
  BY <1>1, NextKeeps

(* The map names elements that exist, the list holds only mapped ones, and  *)
(* at most one word is being marked at a time: Rom.Disassemble,             *)
(* markAsInstruction and markAsDataWordLabel.                               *)
THEOREM DisassemblyTypeCorrect == Spec => []TypeOK
<1>1. ASSUME Inv PROVE TypeOK
  <2>1. Typed /\ WorkInOrder
    BY <1>1 DEF Inv
  <2>2. DOMAIN statement = Homes /\ \A h \in Homes : statement[h].kind \in Kinds
    BY <2>1, KindIs DEF Typed, StatementsTyped, Kind
  <2>3. \A i \in DOMAIN work : work[i].op \in {"mark", "word", "label", "return"}
    <3>1. work \in Seq(Call)
      BY <2>1 DEF Typed
    <3>2. \A i \in DOMAIN work : work[i] \in Call
      BY <3>1
    <3> QED
      BY <3>2 DEF Call
  <2>4. Cardinality({h \in Homes : statement[h].kind = "open"}) <= 1
    <3> DEFINE open == {h \in Homes : statement[h].kind = "open"}
    <3>1. \A h, k \in open : h = k
      <4> SUFFICES ASSUME NEW h \in open, NEW k \in open PROVE h = k
        OBVIOUS
      <4>1. PICK i \in 1 .. Len(work) : work[i].op = "label" /\ work[i].arg = h
        BY <2>1 DEF WorkInOrder, OpenAwaited, Kind
      <4>2. PICK j \in 1 .. Len(work) : work[j].op = "label" /\ work[j].arg = k
        BY <2>1 DEF WorkInOrder, OpenAwaited, Kind
      <4>3. ~(i < j) /\ ~(j < i)
        BY <2>1, <4>1, <4>2 DEF WorkInOrder, Ordered
      <4>4. i = j
        <5>1. i \in Int /\ j \in Int
          OBVIOUS
        <5> QED
          BY <4>3, <5>1
      <4> QED
        BY <4>1, <4>2, <4>4
    <3> HIDE DEF open
    <3>2. ASSUME open = {} PROVE Cardinality(open) <= 1
      <4>1. Cardinality(open) = 0
        BY <3>2, FS_EmptySet
      <4> QED
        BY <4>1
    <3>3. ASSUME open # {} PROVE Cardinality(open) <= 1
      <4>1. PICK h \in open : TRUE
        BY <3>3
      <4>2. open = {h}
        BY <3>1, <4>1
      <4>3. Cardinality(open) = 1
        BY <4>2, FS_Singleton
      <4> QED
        BY <4>3
    <3> QED
      BY <3>2, <3>3 DEF open
  <2> QED
    BY <2>1, <2>2, <2>3, <2>4 DEF TypeOK, Typed, OpCodesTyped, ElementsTyped, LabelsTyped
<1> QED
  BY <1>1, AlwaysInv, PTL

-----------------------------------------------------------------------------
(* The statements of the list do not overlap.                               *)
NoOverlap == \A h \in list, i \in 1 .. 2 : i < Size(h) => h + i \notin list

LEMMA SizeIs ==
    ASSUME StatementsTyped, NEW h \in Homes
    PROVE  /\ Size(h) \in 1 .. 3
           /\ Kind(h) = "byte" => Size(h) = 1
           /\ Kind(h) = "instruction" => Size(h) = Shape[statement[h].code].size
           /\ Kind(h) \in {"open", "number", "reference"} => Size(h) = 2
<1>1. Kind(h) = "instruction" => statement[h].code \in DOMAIN Shape
  BY KindIs DEF Instruction
<1>2. Kind(h) = "instruction" => Size(h) = Shape[statement[h].code].size
  BY DEF Size, Kind
<1>3. Kind(h) = "byte" => Size(h) = 1
  BY DEF Size, Kind
<1>4. Kind(h) \in {"open", "number", "reference"} => Size(h) = 2
  BY DEF Size, Kind
<1>5. Kind(h) \in {"byte", "instruction", "open", "number", "reference"}
  BY KindIs DEF Kinds
<1>6. Kind(h) = "instruction" => Size(h) \in 1 .. 3
  BY <1>1, <1>2, ShapeFacts
<1> QED
  BY <1>2, <1>3, <1>4, <1>5, <1>6

LEMMA OneElement ==
    ASSUME NEW S, \A x, y \in S : x = y
    PROVE  Cardinality(S) = 1 <=> S # {}
<1>1. CASE S = {}
  <2>1. Cardinality(S) = 0
    BY <1>1, FS_EmptySet
  <2> QED
    BY <1>1, <2>1
<1>2. CASE S # {}
  <2>1. PICK x \in S : TRUE
    BY <1>2
  <2>2. S = {x}
    BY <2>1
  <2>3. Cardinality(S) = 1
    BY <2>2, FS_Singleton
  <2> QED
    BY <1>2, <2>3
<1> QED
  BY <1>1, <1>2

LEMMA OneHolder ==
    ASSUME Typed, NoOverlap, NEW b \in Homes
    PROVE  Cardinality(Holders(b)) = 1 <=> Holders(b) # {}
<1>1. Homes \subseteq Int /\ list \subseteq Homes /\ StatementsTyped
  BY TypedSets
<1>2. ASSUME NEW p \in Holders(b), NEW q \in Holders(b) PROVE ~(p < q)
  <2>1. /\ p \in list /\ p <= b /\ b < p + Size(p)
        /\ q \in list /\ q <= b
    BY DEF Holders
  <2>2. Size(p) \in 1 .. 3 /\ p \in Int /\ q \in Int /\ b \in Int
    BY <1>1, <2>1, SizeIs
  <2> SUFFICES ASSUME p < q PROVE FALSE
    OBVIOUS
  <2>3. PICK i \in 1 .. 2 : i = q - p
    BY <2>1, <2>2
  <2>4. p + i = q /\ i < Size(p)
    BY <2>1, <2>2, <2>3
  <2> QED
    BY <2>1, <2>3, <2>4 DEF NoOverlap
<1>3. \A p, q \in Holders(b) : p = q
  <2>1. \A p \in Holders(b) : p \in Int
    BY <1>1 DEF Holders
  <2> QED
    BY <1>2, <2>1
<1> QED
  BY <1>3, OneElement

KeepsBytes ==
    \A b \in Homes : Holders(b) # {} =>
        Holders(b)' # {} \/ (b - 1 \in Homes /\ NumberLost(b - 1))

LEMMA SameSizesKeepBytes ==
    ASSUME Typed, NoOverlap, list' = list, \A h \in Homes : Size(h)' = Size(h)
    PROVE  NoOverlap' /\ KeepsBytes
<1>1. \A h \in list : Size(h)' = Size(h)
  BY DEF Typed, ElementsTyped
<1>2. NoOverlap'
  BY <1>1 DEF NoOverlap
<1>3. \A b : Holders(b)' = Holders(b)
  BY <1>1 DEF Holders
<1> QED
  BY <1>2, <1>3 DEF KeepsBytes

LEMMA TakingKeepsBytes ==
    ASSUME Typed, NoOverlap, NEW h \in Homes, NEW n \in 1 .. 3, Took(h, n), ByteLike(h),
           Size(h)' = n, n = 1 => Kind(h)' = "instruction",
           \A k \in Homes : k # h => statement'[k] = statement[k]
    PROVE  NoOverlap' /\ KeepsBytes
<1>1. Homes \subseteq Int /\ list \subseteq Homes /\ StatementsTyped /\ h \in Int
  BY TypedSets
<1>2. /\ list' = list \ (h + 1 .. h + n - 1)
      /\ n > 1 => h \in list
      /\ \A e \in list \ list' : ByteLike(e)
  BY DEF Took, Leaves
<1>3. \A k \in Homes : k # h => Size(k)' = Size(k)
  BY DEF Size
<1>4. h \in list => h \in list'
  BY <1>1, <1>2
<1>5. NoOverlap'
  <2> SUFFICES ASSUME NEW k \in list', NEW i \in 1 .. 2, i < Size(k)' PROVE k + i \notin list'
    BY DEF NoOverlap
  <2>1. k \in list
    BY <1>2
  <2>2. CASE k = h
    <3>1. h + i \in h + 1 .. h + n - 1
      BY <1>1, <2>2
    <3> QED
      BY <1>2, <2>2, <3>1
  <2>3. CASE k # h
    <3>1. i < Size(k)
      BY <1>1, <1>3, <2>1, <2>3
    <3> QED
      BY <1>2, <2>1, <3>1 DEF NoOverlap
  <2> QED
    BY <2>2, <2>3
<1>6. ASSUME NEW e \in list, ByteLike(e), NEW b \in Homes, e < b, b < e + Size(e)
      PROVE  e = b - 1 /\ Kind(e) = "number"
  <2>1. e \in Homes /\ Kind(e) \in {"byte", "number"}
    BY <1>1, <1>6, ByteLikeIs
  <2>2. (Kind(e) = "number" /\ Size(e) = 2) \/ (Kind(e) = "byte" /\ Size(e) = 1)
    BY <1>1, <2>1, SizeIs
  <2> QED
    BY <1>1, <1>6, <2>1, <2>2
<1>7. KeepsBytes
  <2> SUFFICES ASSUME NEW b \in Homes, NEW p \in Holders(b)
               PROVE  Holders(b)' # {} \/ (b - 1 \in Homes /\ NumberLost(b - 1))
    BY DEF KeepsBytes
  <2>1. p \in list /\ p \in Homes /\ p <= b /\ b < p + Size(p) /\ b \in Int /\ p \in Int
    BY <1>1 DEF Holders
  <2>2. ASSUME p \in list', p # h PROVE p \in Holders(b)'
    <3>1. Size(p)' = Size(p)
      BY <1>3, <2>1, <2>2
    <3> QED
      BY <2>1, <2>2, <3>1 DEF Holders
  <2>3. CASE p = h /\ b < h + n
    <3>1. h \in Holders(b)'
      BY <1>4, <2>1, <2>3 DEF Holders
    <3> QED
      BY <3>1
  <2>4. CASE p = h /\ ~(b < h + n)
    <3>1. h < b
      BY <1>1, <2>1, <2>4
    <3>2. h = b - 1 /\ Kind(h) = "number"
      BY <1>6, <2>1, <2>4, <3>1
    <3>3. n = 1
      BY <1>1, <2>1, <2>4, <3>2
    <3> QED
      BY <2>1, <2>4, <3>2, <3>3 DEF NumberLost, Kind
  <2>5. CASE p # h /\ p \in list'
    BY <2>2, <2>5
  <2>6. CASE p # h /\ p \notin list'
    <3>1. ByteLike(p) /\ h + 1 <= p /\ p <= h + n - 1 /\ n > 1
      BY <1>1, <1>2, <2>1, <2>6
    <3>2. CASE b < h + n
      <4>1. h \in list' /\ h <= b
        BY <1>1, <1>2, <1>4, <2>1, <3>1
      <4>2. h \in Holders(b)'
        BY <3>2, <4>1 DEF Holders
      <4> QED
        BY <4>2
    <3>3. CASE ~(b < h + n)
      <4>1. p < b
        BY <1>1, <2>1, <3>1, <3>3
      <4>2. p = b - 1 /\ Kind(p) = "number"
        BY <1>6, <2>1, <3>1, <4>1
      <4> QED
        BY <2>1, <2>6, <4>2 DEF NumberLost, Kind
    <3> QED
      BY <3>2, <3>3
  <2> QED
    BY <2>3, <2>4, <2>5, <2>6
<1> QED
  BY <1>5, <1>7

(* A word that its caller looks at is a number when the marking failed.     *)
LEMMA MarkFailsDoes ==
    ASSUME Inv, MarkFails
    PROVE  /\ work # << >> /\ Top.op = "mark"
           /\ UNCHANGED <<banks, list, offsets, labels, dynJumps, jumpTables, phase>>
           /\ \/ UNCHANGED statement
              \/ \E w \in Homes :
                    /\ Kind(w) = "open" /\ Kind(w)' = "number"
                    /\ \A k \in Homes : k # w => statement'[k] = statement[k]
<1>1. Typed /\ WorkInOrder /\ StatementsTyped
  BY TypedSets DEF Inv
<1>2. /\ work # << >> /\ Top.op = "mark"
      /\ UNCHANGED <<banks, list, offsets, labels, dynJumps, jumpTables, phase>>
  BY DEF MarkFails, Marking
<1>3. CASE Top.arg = None
  BY <1>2, <1>3 DEF MarkFails
<1>4. CASE Top.arg # None
  <2>1. PICK w \in Homes : w = Top.arg /\ Kind(w) = "open"
    <3>1. /\ work \in Seq(Call) /\ Len(work) \in Nat \ {0} /\ Top = work[1]
      BY <1>1, <1>2, StackPop DEF Typed, Top
    <3>2. MarkedForWord /\ LabelsAwaited
      BY <1>1 DEF WorkInOrder
    <3>3. /\ 1 + 1 \in 1 .. Len(work)
          /\ work[1 + 1].op = "label" /\ work[1 + 1].arg = work[1].arg
      BY <1>2, <1>4, <3>1, <3>2 DEF MarkedForWord
    <3> QED
      BY <1>4, <3>1, <3>2, <3>3 DEF LabelsAwaited, AwaitsItsLabel
  <2>2. statement[w] \in DataWord
    BY <1>1, <2>1, KindIs
  <2>3. statement' = [statement EXCEPT ![w] =
                         [kind |-> "number", value |-> statement[w].value,
                          label |-> statement[w].label]]
    <3>1. statement' = [statement EXCEPT ![w].kind = "number"]
      BY <1>4, <2>1 DEF MarkFails
    <3> QED
      BY <1>1, <2>2, <3>1, WordRewritten
  <2>4. /\ Kind(w)' = "number"
        /\ \A k \in Homes : k # w => statement'[k] = statement[k]
    BY <1>1, <2>3 DEF StatementsTyped, Kind
  <2> QED
    BY <1>2, <2>1, <2>4
<1> QED
  BY <1>2, <1>3, <1>4

LEMMA NextKeepsBytes ==
    ASSUME Inv, NoOverlap, [Next]_vars
    PROVE  NoOverlap' /\ KeepsBytes
<1>1. Typed /\ WorkInOrder /\ StatementsTyped
  BY TypedSets DEF Inv
<1>2. CASE UNCHANGED <<statement, list>>
  BY <1>1, <1>2, SameSizesKeepBytes DEF Size
<1>3. CASE MarkFails
  <2>1. list' = list
    BY <1>1, <1>3, MarkFailsDoes
  <2>2. CASE UNCHANGED statement
    BY <1>2, <2>1, <2>2
  <2>3. ASSUME NEW w \in Homes, Kind(w) = "open", Kind(w)' = "number",
               \A k \in Homes : k # w => statement'[k] = statement[k]
        PROVE  NoOverlap' /\ KeepsBytes
    <3>1. Size(w) = 2 /\ Size(w)' = 2
      <4>1. Size(w)' = 2
        BY <2>3 DEF Size, Kind
      <4> QED
        BY <1>1, <2>3, <4>1, SizeIs
    <3>2. \A k \in Homes : Size(k)' = Size(k)
      BY <2>3, <3>1 DEF Size
    <3> QED
      BY <1>1, <2>1, <3>2, SameSizesKeepBytes
  <2> QED
    BY <1>3, <2>2, <2>3, MarkFailsDoes
<1>4. CASE LabelTheWord
  <2>1. PICK w \in Homes, r \in DataWord :
           /\ r.kind \in {"number", "reference"} /\ Kind(w) = "open"
           /\ statement' = [statement EXCEPT ![w] = r]
    BY <1>4, LabelTheWordDoes
  <2>2. statement'[w] = r /\ \A k \in Homes : k # w => statement'[k] = statement[k]
    BY <1>1, <2>1 DEF StatementsTyped
  <2>3. Size(w) = 2 /\ Size(w)' = 2
    <3>1. Size(w)' = 2
      BY <2>1, <2>2 DEF Size
    <3> QED
      BY <1>1, <2>1, <3>1, SizeIs
  <2>4. \A k \in Homes : Size(k)' = Size(k)
    BY <2>2, <2>3 DEF Size
  <2>5. list' = list
    BY <1>4 DEF LabelTheWord
  <2> QED
    BY <1>1, <2>4, <2>5, SameSizesKeepBytes
<1>5. CASE MarkInstruction /\ ~Panic
  <2>1. PICK h \in offsets, c \in OpCodes : \E v, name : Decoded(Top.addr, h, c, v, name)
    BY <1>1, <1>5, MarkInstructionDoes
  <2>2. PICK r : /\ r.kind = "instruction" /\ r.code = c /\ c \in DOMAIN Shape
                 /\ statement' = [statement EXCEPT ![h] = r]
                 /\ Took(h, Shape[c].size) /\ ByteLike(h)
    BY <2>1 DEF Decoded
  <2>3. h \in Homes
    BY <1>1, TypedSets
  <2>4. statement'[h] = r /\ \A k \in Homes : k # h => statement'[k] = statement[k]
    BY <1>1, <2>2, <2>3 DEF StatementsTyped
  <2>5. Size(h)' = Shape[c].size /\ Kind(h)' = "instruction"
    BY <2>2, <2>4 DEF Size, Kind
  <2>6. Shape[c].size \in 1 .. 3
    BY <2>2, ShapeFacts
  <2> QED
    BY <1>1, <2>2, <2>3, <2>4, <2>5, <2>6, TakingKeepsBytes
<1>6. CASE MarkWord /\ ~Panic
  <2>1. PICK h \in offsets : \E v : ReadAsWord(Top.addr, h, v)
    BY <1>1, <1>6, MarkWordDoes
  <2>2. PICK v : ReadAsWord(Top.addr, h, v)
    BY <2>1
  <2>3. PICK k : k = IF v < PrgStart THEN "number" ELSE "open"
    OBVIOUS
  <2>4. PICK r : r = [kind |-> k, value |-> v, label |-> None]
    OBVIOUS
  <2>5. statement' = [statement EXCEPT ![h] = r] /\ Took(h, 2) /\ ByteLike(h)
    BY <2>2, <2>3, <2>4 DEF ReadAsWord
  <2>6. h \in Homes
    BY <1>1, TypedSets
  <2>7. statement'[h] = r /\ \A x \in Homes : x # h => statement'[x] = statement[x]
    BY <1>1, <2>5, <2>6 DEF StatementsTyped
  <2>8. Size(h)' = 2
    BY <2>3, <2>4, <2>7 DEF Size
  <2>9. 2 \in 1 .. 3 /\ (2 = 1 => Kind(h)' = "instruction")
    OBVIOUS
  <2> QED
    BY <1>1, <2>5, <2>6, <2>7, <2>8, <2>9, TakingKeepsBytes
<1>7. ASSUME Panic \/ MarkNothing \/ ReturnFromMark \/ ResolveDynJump \/ Finish \/ UNCHANGED vars
      PROVE  UNCHANGED <<statement, list>>
  BY <1>7 DEF Panic, MarkNothing, ReturnFromMark, ResolveDynJump, Finish, vars
<1> QED
  BY <1>2, <1>3, <1>4, <1>5, <1>6, <1>7 DEF Next

(* Whatever order overlapping code, words and tables are found in, a byte   *)
(* that one statement of the list holds is held by exactly one after the    *)
(* next step as well, unless a plain number gives it up: removeElemAt and   *)
(* elemAsByte, for ROMs of any size.                                        *)
THEOREM RomAlwaysTiled == Spec => TilesRom
<1> DEFINE HeldOnce == \A b \in Homes : Cardinality(Holders(b)) = 1 <=> Holders(b) # {}
           Step == \A b \in Homes :
                       Cardinality(Holders(b)) = 1 =>
                          \/ Cardinality(Holders(b)') = 1
                          \/ b - 1 \in Homes /\ NumberLost(b - 1)
<1>1. ASSUME Inv, NoOverlap, [Next]_vars PROVE NoOverlap' /\ KeepsBytes
  BY <1>1, NextKeepsBytes
<1>2. Init => NoOverlap
  <2> SUFFICES ASSUME Init, NEW h \in list PROVE ~(1 < Size(h)) /\ ~(2 < Size(h))
    BY DEF NoOverlap
  <2>1. Size(h) = 1
    BY DEF Init, Size
  <2> QED
    BY <2>1
<1>3. Inv /\ NoOverlap => HeldOnce
  BY OneHolder DEF Inv
<1>4. ASSUME HeldOnce, HeldOnce', KeepsBytes, UNCHANGED banks PROVE Step
  <2>1. Homes' = Homes
    BY <1>4 DEF Homes, End
  <2> QED
    BY <1>4, <2>1 DEF KeepsBytes
<1>5. Inv /\ [Next]_vars => UNCHANGED banks
  BY NextKeeps DEF Progress, vars
<1>6. Spec => []Inv
  BY AlwaysInv
<1>7. Spec => []NoOverlap
  BY <1>1, <1>2, <1>6, PTL DEF Spec
<1> HIDE DEF HeldOnce
<1>8. Spec => [][Step]_vars
  BY <1>1, <1>3, <1>4, <1>5, <1>6, <1>7, PTL DEF Spec
<1> QED
  BY <1>8, PTL DEF TilesRom

-----------------------------------------------------------------------------
(* Labels keep their addresses.                                             *)

(* Where elements and labels are found.                                     *)
Located ==
    /\ \A a \in Int : Elem(a) = IF HomeOf(a) \in offsets THEN HomeOf(a) ELSE None
    /\ \A h, l : l \in LabelsBefore(h) <=>
                    /\ h \in list /\ l \in labels /\ l.home <= h
                    /\ \A p \in list : p < h => p < l.home

LEMMA AllLocated ==
    ASSUME Typed
    PROVE  Located
<1>1. offsets \in SUBSET Homes /\ banks \in 1 .. 2
  BY TypedSets DEF Typed
<1>2. \A a \in Int : Elem(a) = IF HomeOf(a) \in offsets THEN HomeOf(a) ELSE None
  BY <1>1, ElemIsHome DEF Elem
<1> QED
  BY <1>2, LabelsBeforeAre DEF Located

LEMMA SameHomes ==
    ASSUME banks' = banks
    PROVE  Homes' = Homes /\ PrgStart' = PrgStart /\ \A a : HomeOf(a)' = HomeOf(a)
BY DEF Homes, End, PrgStart, HomeOf, Bank

(* A label in front of an element stays there as long as the element is in  *)
(* the list.                                                                *)
LEMMA LabelsStay ==
    ASSUME Typed, Progress, Located, Located', NEW t \in list'
    PROVE  \A l \in LabelsBefore(t) : l \in LabelsBefore(t)'
<1>1. list' \subseteq list /\ labels \subseteq labels'
  BY DEF Progress
<1> QED
  BY <1>1 DEF Located

Resolved(h) ==
    (IF banks = 1 THEN Elem(statement[h].value) \in list ELSE ~IntoItself(h)) =>
        \E l \in LabelsBefore(Elem(statement[h].value)) : l.name = statement[h].label

LEMMA StaysResolved ==
    ASSUME Typed, Typed', Progress, Located, Located',
           NEW h \in list, Kind(h) \in {"instruction", "reference"}, statement'[h] = statement[h],
           Resolved(h)
    PROVE  Resolved(h)'
<1>1. /\ banks' = banks /\ list' \subseteq list /\ offsets' \subseteq offsets
      /\ \A e \in list \ list' : LabelsBefore(e) = {}
  BY DEF Progress
<1>2. /\ list \subseteq offsets /\ offsets \subseteq Homes /\ None \notin Homes
      /\ list' \subseteq offsets' /\ (banks = 2 => list' = offsets') /\ banks \in 1 .. 2
  BY <1>1, TypedSets DEF Typed, ElementsTyped
<1>3. PICK v \in Int : v = statement[h].value
  <2>1. h \in Homes
    BY TypedSets
  <2> QED
    BY <2>1, TypedSets, KindIs DEF Instruction, DataWord
<1>4. PICK t : t = HomeOf(v)
  OBVIOUS
<1>5. HomeOf(v)' = t
  BY <1>1, <1>4, SameHomes
<1>6. Elem(v) = (IF t \in offsets THEN t ELSE None) /\ Elem(v)' = IF t \in offsets' THEN t ELSE None
  BY <1>3, <1>4, <1>5 DEF Located
<1>7. IntoItself(h)' = IntoItself(h)
  BY DEF IntoItself, Size
<1>8. ASSUME t \in list', \E l \in LabelsBefore(t) : l.name = statement[h].label
      PROVE  Resolved(h)'
  <2>1. Elem(v)' = t
    BY <1>2, <1>6, <1>8
  <2>2. \E l \in LabelsBefore(t)' : l.name = statement[h].label
    BY <1>8, LabelsStay
  <2>3. statement'[h].value = v /\ statement'[h].label = statement[h].label
    BY <1>3
  <2> QED
    BY <2>1, <2>2, <2>3 DEF Resolved
<1>9. CASE banks = 1
  <2>1. ASSUME Elem(v)' \in list' PROVE t \in list' /\ Elem(v) = t
    BY <1>1, <1>2, <1>6, <2>1
  <2>2. CASE Elem(v)' \in list'
    <3>1. Elem(v) \in list /\ t \in list'
      BY <1>1, <2>1, <2>2
    <3>2. \E l \in LabelsBefore(t) : l.name = statement[h].label
      BY <1>3, <1>9, <2>1, <2>2, <3>1 DEF Resolved
    <3> QED
      BY <1>8, <3>1, <3>2
  <2>3. CASE Elem(v)' \notin list'
    <3>1. statement'[h].value = v
      BY <1>3
    <3> QED
      BY <1>1, <1>9, <2>3, <3>1 DEF Resolved
  <2> QED
    BY <2>2, <2>3
<1>10. CASE banks = 2
  <2>1. CASE IntoItself(h)
    BY <1>1, <1>7, <1>10, <2>1 DEF Resolved
  <2>2. CASE ~IntoItself(h)
    <3>1. PICK l \in LabelsBefore(Elem(v)) : l.name = statement[h].label
      BY <1>3, <1>10, <2>2 DEF Resolved
    <3>2. Elem(v) \in list
      BY <3>1 DEF Located
    <3>3. Elem(v) = t
      BY <1>2, <1>6, <3>2
    <3>4. t \in list'
      BY <1>1, <3>1, <3>2, <3>3
    <3> QED
      BY <1>8, <3>1, <3>3, <3>4
  <2> QED
    BY <2>1, <2>2
<1> QED
  BY <1>2, <1>9, <1>10

(* A label just made is found where it was made for, if that is still there. *)
LEMMA MadeLabelFound ==
    ASSUME Typed, Typed', Progress, Located, Located',
           NEW v \in Int, NEW name \in Int, labels' = LabelsWith(v, name),
           NEW t \in list', t = HomeOf(v)
    PROVE  /\ Elem(v) = t /\ Elem(v)' = t
           /\ \E l \in LabelsBefore(t)' : l.name = LabelName(v, name)
<1>1. /\ banks' = banks /\ list' \subseteq list /\ labels \subseteq labels'
      /\ list \subseteq offsets /\ list' \subseteq offsets' /\ offsets \subseteq Homes
      /\ None \notin Homes
  BY TypedSets DEF Progress, Typed, ElementsTyped
<1>2. Elem(v) = t /\ Elem(v)' = t
  <2>1. HomeOf(v)' = t
    BY <1>1, SameHomes
  <2> QED
    BY <1>1, <2>1 DEF Located
<1>3. t # None /\ t \in list
  BY <1>1
<1>4. CASE LabelsBefore(t) # {}
  <2>1. LabelName(v, name) = LabelAt(t).name
    BY <1>2, <1>3, <1>4 DEF LabelName
  <2>2. LabelAt(t) \in LabelsBefore(t)
    BY <1>4, LabelAtIs
  <2> QED
    BY <1>2, <2>1, <2>2, LabelsStay
<1>5. CASE LabelsBefore(t) = {}
  <2> DEFINE l == [name |-> name, home |-> t]
  <2>1. LabelName(v, name) = name
    BY <1>2, <1>3, <1>5 DEF LabelName
  <2>2. l \in labels' /\ l.home = t /\ l.name = name
    BY <1>2, <1>3, <1>5 DEF LabelsWith
  <2>3. t \in Int
    BY <1>3, TypedSets
  <2> HIDE DEF l
  <2>4. l \in LabelsBefore(t)'
    BY <2>2, <2>3 DEF Located
  <2> QED
    BY <1>2, <2>1, <2>2, <2>4
<1> QED
  BY <1>4, <1>5

(* Only an instruction and a word that gets its label come to have one.     *)
LEMMA NewlyLabelled ==
    ASSUME Inv, [Next]_vars, NEW h \in Homes, statement'[h] # statement[h],
           Kind(h)' \in {"instruction", "reference"}
    PROVE  \/ \E c \in OpCodes : \E v, name : Decoded(Top.addr, h, c, v, name)
           \/ LabelTheWord /\ h = Top.arg
<1>1. Typed /\ StatementsTyped
  BY TypedSets DEF Inv
<1>2. CASE MarkFails
  BY <1>2, MarkFailsDoes
<1>3. CASE MarkInstruction /\ ~Panic
  <2>1. PICK x \in offsets, c \in OpCodes : \E v, name : Decoded(Top.addr, x, c, v, name)
    BY <1>1, <1>3, MarkInstructionDoes
  <2>2. PICK r : statement' = [statement EXCEPT ![x] = r]
    BY <2>1 DEF Decoded
  <2>3. h = x
    BY <1>1, <2>2 DEF StatementsTyped
  <2> QED
    BY <2>1, <2>3
<1>4. CASE MarkWord /\ ~Panic
  <2>1. PICK x \in offsets : \E v : ReadAsWord(Top.addr, x, v)
    BY <1>1, <1>4, MarkWordDoes
  <2>2. PICK v : ReadAsWord(Top.addr, x, v)
    BY <2>1
  <2>3. PICK k : k = IF v < PrgStart THEN "number" ELSE "open"
    OBVIOUS
  <2>4. PICK r : r = [kind |-> k, value |-> v, label |-> None]
    OBVIOUS
  <2>5. statement' = [statement EXCEPT ![x] = r]
    BY <2>2, <2>3, <2>4 DEF ReadAsWord
  <2>6. statement'[h] = r
    BY <1>1, <2>5 DEF StatementsTyped
  <2> QED
    BY <2>3, <2>4, <2>6 DEF Kind
<1>5. CASE LabelTheWord
  <2>1. PICK w, r : w = Top.arg /\ statement' = [statement EXCEPT ![w] = r]
    BY <1>5, LabelTheWordDoes
  <2> QED
    BY <1>1, <1>5, <2>1 DEF StatementsTyped
<1>6. ASSUME Panic \/ MarkNothing \/ ReturnFromMark \/ ResolveDynJump \/ Finish \/ UNCHANGED vars
      PROVE  UNCHANGED statement
  BY <1>6 DEF Panic, MarkNothing, ReturnFromMark, ResolveDynJump, Finish, vars
<1> QED
  BY <1>2, <1>3, <1>4, <1>5, <1>6 DEF Next

LEMMA DecodedResolves ==
    ASSUME Inv, Inv', Progress, Located, Located', NEW h \in list', NEW c, NEW v, NEW name,
           Decoded(Top.addr, h, c, v, name), name # None
    PROVE  Resolved(h)'
<1>1. /\ Typed /\ Typed' /\ StatementsTyped /\ banks' = banks /\ banks \in 1 .. 2
      /\ list' \subseteq list /\ list \subseteq offsets /\ offsets \subseteq Homes
      /\ (banks = 2 => list = offsets) /\ None \notin Homes
      /\ list' \subseteq offsets' /\ offsets' \subseteq offsets
  BY TypedSets DEF Inv, Progress, Typed, ElementsTyped
<1>2. /\ h \in Homes /\ v \in Int /\ c \in DOMAIN Shape /\ Homes \subseteq Int
      /\ name = LabelName(v, v) /\ labels' = LabelsWith(v, v) /\ Took(h, Shape[c].size)
  BY <1>1, TypedSets DEF Decoded
<1>3. PICK a \in Int : a = Top.addr
  BY <1>1, TopTyped DEF Call, Decoded
<1>4. PICK r : /\ r = [kind |-> "instruction", code |-> c, addr |-> a, value |-> v, label |-> name]
                /\ statement' = [statement EXCEPT ![h] = r]
  BY <1>3 DEF Decoded
<1>5. statement'[h] = r
  BY <1>1, <1>2, <1>4 DEF StatementsTyped
<1>6. PICK t : t = HomeOf(v)
  OBVIOUS
<1>7. t \in offsets /\ Elem(v) = t
  <2>1. Elem(v) # None
    BY <1>2 DEF LabelName
  <2> QED
    BY <1>2, <1>6, <2>1 DEF Located
<1>8. ASSUME t \in list' PROVE Resolved(h)'
  <2>1. Elem(v)' = t /\ \E l \in LabelsBefore(t)' : l.name = name
    BY <1>1, <1>2, <1>6, <1>8, MadeLabelFound
  <2>2. statement'[h].value = v /\ statement'[h].label = name
    BY <1>4, <1>5
  <2> QED
    BY <2>1, <2>2 DEF Resolved
<1>9. CASE banks = 1
  <2>1. HomeOf(v)' = t
    BY <1>1, <1>6, SameHomes
  <2>2. CASE Elem(v)' \in list'
    <3>1. Elem(v)' = t
      BY <1>1, <1>2, <2>1, <2>2 DEF Located
    <3> QED
      BY <1>8, <2>2, <3>1
  <2>3. CASE Elem(v)' \notin list'
    <3>1. statement'[h].value = v
      BY <1>4, <1>5
    <3> QED
      BY <1>1, <1>9, <2>3, <3>1 DEF Resolved
  <2> QED
    BY <2>2, <2>3
<1>10. CASE banks = 2
  <2>1. t = v
    BY <1>1, <1>6, <1>7, <1>10 DEF HomeOf
  <2>2. Size(h)' = Shape[c].size
    BY <1>4, <1>5 DEF Size
  <2>3. a = h
    <3>1. HomeOf(a) = h
      <4>1. a \in Int /\ h = Elem(a)
        BY <1>3 DEF Decoded
      <4> QED
        BY <1>1, <1>2, <4>1 DEF Located
    <3> QED
      BY <1>1, <1>2, <1>10, <3>1 DEF HomeOf
  <2>4. CASE t \notin list'
    <3>1. t \in h + 1 .. h + Shape[c].size - 1
      BY <1>1, <1>2, <1>7, <1>10, <2>4 DEF Took, Leaves
    <3>2. a < v /\ v < a + Shape[c].size
      BY <1>2, <2>1, <2>3, <3>1, ShapeFacts
    <3>3. IntoItself(h)'
      BY <1>4, <1>5, <2>2, <3>2 DEF IntoItself
    <3> QED
      BY <1>1, <1>10, <3>3 DEF Resolved
  <2> QED
    BY <1>8, <2>4
<1> QED
  BY <1>1, <1>9, <1>10

LEMMA LabelledWordResolves ==
    ASSUME Inv, Inv', Progress, Located, Located', LabelTheWord,
           NEW w \in list', w = Top.arg, statement'[w].label # None
    PROVE  Resolved(w)'
<1>1. /\ Typed /\ Typed' /\ StatementsTyped /\ banks' = banks /\ banks \in 1 .. 2
      /\ list \subseteq offsets /\ offsets \subseteq Homes
      /\ (banks = 2 => list = offsets) /\ None \notin Homes
      /\ UNCHANGED <<list, offsets>> /\ work # << >>
  BY TypedSets DEF Inv, Progress, Typed, ElementsTyped, LabelTheWord
<1>2. PICK v \in Int : v = Top.addr
  BY <1>1, TopTyped DEF Call
<1>3. PICK name \in Int, found \in Int, r \in DataWord :
         /\ found = LabelName(v, name) /\ r.value = v /\ r.label = found
         /\ statement' = [statement EXCEPT ![w] = r]
         /\ labels' = LabelsWith(v, name)
  BY <1>2, LabelTheWordDoes
<1>4. statement'[w].value = v /\ statement'[w].label = found
  BY <1>1, <1>3, TypedSets DEF StatementsTyped
<1>5. PICK t : t = HomeOf(v)
  OBVIOUS
<1>6. t \in offsets /\ Elem(v) = t /\ Elem(v)' = t
  <2>1. Elem(v) # None
    BY <1>2, <1>3, <1>4 DEF LabelName
  <2>2. HomeOf(v)' = t
    BY <1>1, <1>5, SameHomes
  <2> QED
    BY <1>1, <1>5, <2>1, <2>2 DEF Located
<1>7. CASE t \in list'
  <2>1. \E l \in LabelsBefore(t)' : l.name = found
    BY <1>1, <1>3, <1>5, <1>7, MadeLabelFound
  <2> QED
    BY <1>4, <1>6, <2>1 DEF Resolved
<1>8. CASE t \notin list'
  <2>1. banks' = 1
    BY <1>1, <1>6, <1>8
  <2> QED
    BY <1>4, <1>6, <1>8, <2>1 DEF Resolved
<1> QED
  BY <1>7, <1>8

(* Every label still names the address it was made for, after the ROM has   *)
(* been taken apart around it: getLabelAt, elemLabelStmt, removeElemAt and  *)
(* the operands of markAsInstruction and markAsDataWordLabel.               *)
THEOREM LabelsAlwaysResolve == Spec => []LabelsResolve
<1> DEFINE AllResolved == \A h \in Labelled : Resolved(h)
<1>1. LabelsResolve <=> AllResolved
  BY DEF LabelsResolve, Resolved
<1>2. Init => LabelsResolve
  BY DEF Init, LabelsResolve, Labelled
<1>3. Inv => Located
  BY AllLocated DEF Inv
<1>4. ASSUME Inv, Inv', Located, Located', Progress, [Next]_vars, AllResolved
      PROVE  AllResolved'
  <2>1. /\ Typed /\ Typed' /\ list' \subseteq list /\ list \subseteq Homes
    BY <1>4, TypedSets DEF Inv, Progress
  <2> SUFFICES ASSUME NEW h \in Labelled' PROVE Resolved(h)'
    OBVIOUS
  <2>2. /\ h \in list' /\ h \in list /\ h \in Homes
        /\ Kind(h)' \in {"instruction", "reference"} /\ statement'[h].label # None
    BY <2>1 DEF Labelled, Kind
  <2>3. CASE statement'[h] = statement[h]
    <3>1. h \in Labelled /\ Kind(h) \in {"instruction", "reference"}
      BY <2>2, <2>3 DEF Labelled, Kind
    <3>2. Resolved(h)
      BY <1>4, <3>1
    <3> QED
      BY <1>4, <2>1, <2>2, <2>3, <3>1, <3>2, StaysResolved
  <2>4. CASE statement'[h] # statement[h] /\ LabelTheWord /\ h = Top.arg
    BY <1>4, <2>2, <2>4, LabelledWordResolves
  <2>5. CASE \E c \in OpCodes : \E v, name : Decoded(Top.addr, h, c, v, name)
    <3>1. PICK c \in OpCodes : \E v, name : Decoded(Top.addr, h, c, v, name)
      BY <2>5
    <3>2. PICK v, name : Decoded(Top.addr, h, c, v, name)
      BY <3>1
    <3>3. PICK r : r.label = name /\ statement' = [statement EXCEPT ![h] = r]
      BY <3>2 DEF Decoded
    <3>4. name # None
      BY <2>1, <2>2, <3>3, TypedSets DEF StatementsTyped
    <3> QED
      BY <1>4, <2>2, <3>2, <3>4, DecodedResolves
  <2> QED
    BY <1>4, <2>2, <2>3, <2>4, <2>5, NewlyLabelled
<1>5. Inv /\ [Next]_vars => Progress
  BY NextProgress
<1>6. Spec => []Inv
  BY AlwaysInv
<1> HIDE DEF AllResolved
<1> QED
  BY <1>1, <1>2, <1>3, <1>4, <1>5, <1>6, PTL DEF Spec

-----------------------------------------------------------------------------
(* Code is followed to its end.                                             *)

(* A call that is still to come.                                            *)
Due(op, a, arg) ==
    \E i \in 1 .. Len(work) : work[i].op = op /\ work[i].addr = a /\ work[i].arg = arg

ToBeMarked(a) == \E word : Due("mark", a, word)

(* Every call but the one on top is still to come, and so is what is pushed. *)
LEMMA DueStays ==
    ASSUME Typed, work # << >>, NEW p \in Seq(Call), work' = p \o Rest
    PROVE  /\ \A op, a, arg : Due(op, a, arg) =>
                 Due(op, a, arg)' \/ (Top.op = op /\ Top.addr = a /\ Top.arg = arg)
           /\ \A i \in 1 .. Len(p) : Due(p[i].op, p[i].addr, p[i].arg)'
<1> DEFINE w == work'
           n == Len(p)
<1>1. work \in Seq(Call) /\ Top = work[1] /\ Len(work) \in Nat \ {0} /\ n \in Nat
  <2>1. work \in Seq(Call)
    BY DEF Typed
  <2> QED
    BY <2>1, StackPop DEF Top
<1>2. /\ Len(w) = n + Len(work) - 1
      /\ \A i \in 1 .. n : w[i] = p[i]
      /\ \A i \in 2 .. Len(work) : w[n + i - 1] = work[i]
  BY <1>1, StackPush DEF Rest
<1> HIDE DEF w, n
<1>3. \A i \in 1 .. n : i \in 1 .. Len(w)
  BY <1>1, <1>2
<1>4. \A i \in 2 .. Len(work) : n + i - 1 \in 1 .. Len(w)
  BY <1>1, <1>2
<1>5. ASSUME NEW op, NEW a, NEW arg, Due(op, a, arg)
      PROVE  Due(op, a, arg)' \/ (Top.op = op /\ Top.addr = a /\ Top.arg = arg)
  <2>1. PICK i \in 1 .. Len(work) : work[i].op = op /\ work[i].addr = a /\ work[i].arg = arg
    BY <1>5 DEF Due
  <2>2. CASE i = 1
    BY <1>1, <2>1, <2>2
  <2>3. CASE i \in 2 .. Len(work)
    <3>1. PICK j \in 1 .. Len(w) : w[j] = work[i]
      BY <1>2, <1>4, <2>3
    <3> QED
      BY <2>1, <3>1 DEF Due, w
  <2> QED
    BY <1>1, <2>2, <2>3
<1>6. ASSUME NEW i \in 1 .. n PROVE Due(p[i].op, p[i].addr, p[i].arg)'
  <2>1. w[i] = p[i] /\ i \in 1 .. Len(w)
    BY <1>2, <1>3
  <2> QED
    BY <2>1 DEF Due, w
<1> QED
  BY <1>5, <1>6 DEF n

LEMMA DueStaysAfterPop ==
    ASSUME Typed, work # << >>, work' = Rest
    PROVE  \A op, a, arg : Due(op, a, arg) =>
              Due(op, a, arg)' \/ (Top.op = op /\ Top.addr = a /\ Top.arg = arg)
<1> DEFINE p == << >>
<1>1. p \in Seq(Call)
  OBVIOUS
<1>2. work' = p \o Rest
  BY TopTyped
<1> HIDE DEF p
<1> QED
  BY <1>1, <1>2, DueStays

(* A marking that fails is the end of the call of its word as well.         *)
LEMMA DueStaysAfterFailure ==
    ASSUME Inv, MarkFails
    PROVE  \A op, a, arg : Due(op, a, arg) =>
              \/ Due(op, a, arg)'
              \/ op = "label" /\ arg = Top.arg /\ Top.arg # None
              \/ Top.op = op /\ Top.addr = a /\ Top.arg = arg
<1>1. Typed /\ WorkInOrder /\ work # << >> /\ Top.op = "mark"
  BY MarkFailsDoes DEF Inv
<1>2. CASE Top.arg = None
  <2>1. work' = Rest
    BY <1>2 DEF MarkFails
  <2> QED
    BY <1>1, <2>1, DueStaysAfterPop
<1>3. CASE Top.arg # None
  <2>1. /\ work \in Seq(Call) /\ Len(work) \in Nat \ {0} /\ Top = work[1]
        /\ Rest \in Seq(Call) /\ Len(Rest) = Len(work) - 1
        /\ \A i \in 1 .. Len(work) - 1 : Rest[i] = work[i + 1]
    <3>1. work \in Seq(Call)
      BY <1>1 DEF Typed
    <3> QED
      BY <1>1, <3>1, StackPop DEF Top, Rest
  <2>2. 1 + 1 \in 1 .. Len(work) /\ work[1 + 1].op = "label" /\ work[1 + 1].arg = Top.arg
    BY <1>1, <1>3, <2>1 DEF WorkInOrder, MarkedForWord
  <2>3. Rest # << >> /\ work' = Tail(Rest)
    BY <1>3, <2>1, <2>2 DEF MarkFails
  <2>4. /\ Len(work') = Len(Rest) - 1
        /\ \A i \in 1 .. Len(Rest) - 1 : work'[i] = Rest[i + 1]
    BY <2>1, <2>3, StackPop
  <2> SUFFICES ASSUME NEW op, NEW a, NEW arg, Due(op, a, arg),
                      ~(op = "label" /\ arg = Top.arg),
                      ~(Top.op = op /\ Top.addr = a /\ Top.arg = arg)
               PROVE  Due(op, a, arg)'
    BY <1>3
  <2>5. PICK i \in 1 .. Len(work) : work[i].op = op /\ work[i].addr = a /\ work[i].arg = arg
    BY DEF Due
  <2>6. i \in 3 .. Len(work)
    BY <2>1, <2>2, <2>5
  <2>7. /\ i - 2 \in 1 .. Len(work') /\ i - 2 \in 1 .. Len(Rest) - 1
        /\ (i - 2) + 1 \in 1 .. Len(work) - 1 /\ ((i - 2) + 1) + 1 = i
    BY <2>1, <2>4, <2>6
  <2>8. work'[i - 2] = work[i]
    BY <2>1, <2>4, <2>7
  <2> QED
    BY <2>5, <2>7, <2>8 DEF Due
<1> QED
  BY <1>2, <1>3

(* Nothing is to be found out about an address any more.                    *)
Examined(a) ==
    \/ a < PrgStart
    \/ Elem(a) = None
    \/ Kind(Elem(a)) # "byte"
    \/ Elem(a) \in DOMAIN opcode

LEMMA ExaminedIs ==
    ASSUME Typed, Located, NEW a \in Int
    PROVE  Examined(a) <=> \/ a < PrgStart
                           \/ HomeOf(a) \notin offsets
                           \/ Kind(HomeOf(a)) # "byte"
                           \/ HomeOf(a) \in DOMAIN opcode
<1>1. None \notin offsets
  BY TypedSets
<1>2. Elem(a) = IF HomeOf(a) \in offsets THEN HomeOf(a) ELSE None
  BY DEF Located
<1> QED
  BY <1>1, <1>2 DEF Examined

(* What every address has been found out about after a step, given that the *)
(* facts of ExaminedIs hold then too.                                       *)
Examining ==
    \A a \in Int : Examined(a) <=> \/ a < PrgStart
                                   \/ HomeOf(a) \notin offsets
                                   \/ Kind(HomeOf(a)) # "byte"
                                   \/ HomeOf(a) \in DOMAIN opcode

LEMMA ExaminedStays ==
    ASSUME Typed, Progress, Examining, Examining', NEW a \in Int, Examined(a)
    PROVE  Examined(a)'
<1>1. /\ offsets' \subseteq offsets /\ DOMAIN opcode \subseteq DOMAIN opcode'
      /\ PrgStart' = PrgStart /\ offsets \subseteq Homes
  BY TypedSets, SameHomes DEF Progress
<1>2. PICK t : t = HomeOf(a) /\ HomeOf(a)' = t
  BY SameHomes DEF Progress
<1>3. t \in Homes /\ Kind(t) # "byte" => Kind(t)' # "byte"
  BY DEF Progress, Kind
<1>4. \/ a < PrgStart \/ t \notin offsets \/ Kind(t) # "byte" \/ t \in DOMAIN opcode
  BY <1>2 DEF Examining
<1>5. \/ a < PrgStart' \/ t \notin offsets' \/ Kind(t)' # "byte" \/ t \in DOMAIN opcode'
  BY <1>1, <1>3, <1>4
<1> QED
  BY <1>2, <1>5 DEF Examining

(* What a step does to the calls to come.                                   *)
LEMMA CallsToCome ==
    ASSUME Inv, [Next]_vars, work # << >>
    PROVE  \/ UNCHANGED work
           \/ MarkFails
           \/ work' = Rest
           \/ \E p \in Seq(Call) :
                 work' = p \o Rest /\ \A i \in 1 .. Len(p) : p[i].op # "word"
<1>1. Typed /\ Top.addr \in Int /\ Top.arg \in Int
  BY TopTyped DEF Inv, Call
<1>2. ASSUME NEW m \in Call, m.op # "word"
      PROVE  <<m>> \in Seq(Call) /\ \A i \in 1 .. Len(<<m>>) : <<m>>[i].op # "word"
  BY <1>2
<1>3. CASE MarkInstruction /\ ~Panic
  <2>1. PICK h \in offsets, c \in OpCodes : \E v, name : Decoded(Top.addr, h, c, v, name)
    BY <1>1, <1>3, MarkInstructionDoes
  <2>2. PICK v, name : Decoded(Top.addr, h, c, v, name)
    BY <2>1
  <2>3. PICK a \in Int : a = Top.addr
    BY <1>1
  <2>4. PICK p \in Seq(Call) : /\ p = Calls(c, a, v)
                               /\ \A i \in 1 .. Len(p) : p[i].op \in {"mark", "return"}
    BY <2>2, <2>3, PushedAre DEF Decoded
  <2>5. work' = p \o Rest /\ \A i \in 1 .. Len(p) : p[i].op # "word"
    BY <2>2, <2>3, <2>4 DEF Decoded
  <2> QED
    BY <2>5
<1>4. CASE ReturnFromMark
  <2>1. PICK a \in Int : a = Top.addr
    BY <1>1
  <2>2. Mark(a, None) \in Call /\ Mark(a, None).op # "word"
    BY DEF Mark, Call, None
  <2>3. PICK m \in Call : m = Mark(a, None) /\ m.op # "word"
    BY <2>2
  <2>4. work' = Rest \/ work' = <<m>> \o Rest
    BY <1>4, <2>1, <2>3, Zenon DEF ReturnFromMark
  <2> QED
    BY <1>2, <2>3, <2>4
<1>5. CASE MarkWord /\ ~Panic
  <2>1. PICK h \in offsets : \E v : ReadAsWord(Top.addr, h, v)
    BY <1>1, <1>5, MarkWordDoes
  <2>2. PICK v : ReadAsWord(Top.addr, h, v)
    BY <2>1
  <2>3. v \in Int /\ h \in Int
    BY <1>1, <2>2, TypedSets DEF ReadAsWord
  <2>4. PICK m \in Call, l \in Call :
           m = Mark(v, h) /\ l = LabelWord(v, h) /\ m.op # "word" /\ l.op # "word"
    <3>1. Mark(v, h) \in Call /\ LabelWord(v, h) \in Call
      BY <2>3 DEF Mark, LabelWord, Call
    <3>2. Mark(v, h).op # "word" /\ LabelWord(v, h).op # "word"
      BY DEF Mark, LabelWord
    <3> QED
      BY <3>1, <3>2
  <2>5. <<m, l>> \in Seq(Call) /\ \A i \in 1 .. Len(<<m, l>>) : <<m, l>>[i].op # "word"
    BY <2>4
  <2>6. work' = Rest \/ work' = <<m, l>> \o Rest
    BY <2>2, <2>4 DEF ReadAsWord
  <2> QED
    BY <2>5, <2>6
<1>6. ASSUME MarkNothing \/ LabelTheWord PROVE work' = Rest
  BY <1>6 DEF MarkNothing, LabelTheWord
<1>7. ASSUME Panic \/ ResolveDynJump \/ Finish \/ UNCHANGED vars PROVE UNCHANGED work
  BY <1>7 DEF Panic, ResolveDynJump, Finish, vars
<1> QED
  BY <1>3, <1>4, <1>5, <1>6, <1>7 DEF Next

(* A call stays until it is on top.                                         *)
LEMMA DueRemains ==
    ASSUME Inv, [Next]_vars
    PROVE  \A op, a, arg : Due(op, a, arg) =>
              \/ Due(op, a, arg)'
              \/ op = "label" /\ MarkFails /\ arg = Top.arg /\ Top.arg # None
              \/ Top.op = op /\ Top.addr = a /\ Top.arg = arg
<1>1. Typed
  BY DEF Inv
<1>2. CASE work = << >>
  BY <1>2 DEF Due
<1>3. CASE UNCHANGED work
  BY <1>3 DEF Due
<1>4. CASE MarkFails
  BY <1>4, DueStaysAfterFailure
<1>5. CASE work # << >> /\ work' = Rest
  BY <1>1, <1>5, DueStaysAfterPop
<1>6. CASE work # << >> /\ \E p \in Seq(Call) : work' = p \o Rest
  BY <1>1, <1>6, DueStays
<1> QED
  BY <1>2, <1>3, <1>4, <1>5, <1>6, CallsToCome

(* Whatever is to be marked is examined when it is marked.                  *)
LEMMA MarkedIsExamined ==
    ASSUME Inv, [Next]_vars, Progress, Located, Examining, Examining',
           NEW a \in Int, NEW word, Due("mark", a, word)
    PROVE  Due("mark", a, word)' \/ Examined(a)'
<1>1. Typed /\ offsets' \subseteq offsets /\ None \notin offsets /\ WorkInOrder
  BY TypedSets DEF Inv, Progress
<1>2. PICK t : t = HomeOf(a) /\ HomeOf(a)' = t /\ Elem(a) = IF t \in offsets THEN t ELSE None
  BY SameHomes DEF Progress, Located
<1>3. work # << >>
  BY DEF Due
<1>4. CASE ~(Top.op = "mark" /\ Top.addr = a)
  BY <1>4, DueRemains
<1>5. CASE MarkNothing /\ Top.addr = a
  <2>1. a < PrgStart \/ Elem(a) = None \/ Kind(Elem(a)) # "byte"
    BY <1>1, <1>5, Layout DEF MarkNothing, Decodable, ByteLike, Kind, Typed
  <2> QED
    BY <1>1, <2>1, ExaminedStays DEF Examined
<1>6. ASSUME NEW h, h = Elem(Top.addr), NEW c, opcode' = Noted(opcode, h, c), Top.addr = a
      PROVE  Examined(a)'
  <2>1. h \in DOMAIN opcode'
    BY <1>6 DEF Noted
  <2>2. t \notin offsets' \/ t \in DOMAIN opcode'
    BY <1>1, <1>2, <1>6, <2>1
  <2> QED
    BY <1>2, <2>2 DEF Examining
<1>7. CASE MarkFails
  <2>1. PICK h, c : h = Elem(Top.addr) /\ opcode' = Noted(opcode, h, c)
    BY <1>7 DEF MarkFails
  <2> QED
    BY <1>4, <1>6, <2>1
<1>8. CASE MarkInstruction /\ ~Panic
  <2>1. PICK h \in offsets, c \in OpCodes : \E v, name : Decoded(Top.addr, h, c, v, name)
    BY <1>1, <1>8, MarkInstructionDoes
  <2>2. PICK v, name : Decoded(Top.addr, h, c, v, name)
    BY <2>1
  <2>3. h = Elem(Top.addr) /\ opcode' = Noted(opcode, h, c)
    BY <2>2 DEF Decoded
  <2> QED
    BY <1>4, <1>6, <2>3
<1>9. CASE UNCHANGED work
  BY <1>9 DEF Due
<1>10. ASSUME ReturnFromMark \/ MarkWord \/ LabelTheWord
       PROVE  Top.op # "mark"
  BY <1>10 DEF ReturnFromMark, MarkWord, LabelTheWord
<1>11. ASSUME Panic \/ ResolveDynJump \/ Finish \/ UNCHANGED vars
       PROVE  UNCHANGED work
  BY <1>3, <1>11 DEF Panic, ResolveDynJump, Finish, vars
<1> QED
  BY <1>4, <1>5, <1>7, <1>8, <1>9, <1>10, <1>11 DEF Next

Seen(a) == Examined(a) \/ ToBeMarked(a)

CallsTable(target) == target \in DOMAIN jumpTables /\ jumpTables[target]

(* What is promised of an instruction with operand v.                       *)
Leads(c, n) == \E i \in DOMAIN Shape[c].next : Shape[c].next[i] = n

FollowedAs(c, after, v) ==
    /\ Leads(c, "after") => Seen(after)
    /\ Leads(c, "target") => Seen(v)
    /\ Leads(c, "return") => CallsTable(v) \/ Due("return", after, v) \/ Seen(after)

Followed(h) ==
    FollowedAs(statement[h].code,
               statement[h].addr + Shape[statement[h].code].size, statement[h].value)

CodeFollowed == \A h \in Homes : Kind(h) = "instruction" => Followed(h)

LEMMA SeenStays ==
    ASSUME Inv, [Next]_vars, Progress, Located, Examining, Examining', NEW a \in Int, Seen(a)
    PROVE  Seen(a)'
<1>1. Typed
  BY DEF Inv
<1>2. CASE Examined(a)
  BY <1>1, <1>2, ExaminedStays DEF Seen
<1>3. CASE ToBeMarked(a)
  <2>1. PICK word : Due("mark", a, word)
    BY <1>3 DEF ToBeMarked
  <2>2. Due("mark", a, word)' \/ Examined(a)'
    BY <2>1, MarkedIsExamined
  <2> QED
    BY <2>2 DEF Seen, ToBeMarked
<1> QED
  BY <1>2, <1>3 DEF Seen

(* After a call there is a table, or code that is marked.                   *)
LEMMA ReturnedIsSeen ==
    ASSUME Inv, [Next]_vars, NEW a \in Int, NEW v, Due("return", a, v)
    PROVE  Due("return", a, v)' \/ CallsTable(v)' \/ ToBeMarked(a)'
<1>1. Typed /\ work # << >>
  BY DEF Inv, Due
<1>2. CASE UNCHANGED work
  BY <1>2 DEF Due
<1>3. CASE ReturnFromMark /\ Top.addr = a /\ Top.arg = v
  <2>1. CASE CallsTable(v)'
    BY <2>1
  <2>2. CASE work' = <<Mark(Top.addr, None)>> \o Rest
    <3>1. Mark(a, None) \in Call
      BY DEF Mark, Call, None
    <3>2. PICK p \in Seq(Call) : p = <<Mark(a, None)>>
      <4>1. <<Mark(a, None)>> \in Seq(Call)
        BY <3>1
      <4> QED
        BY <4>1
    <3>3. work' = p \o Rest
      BY <1>3, <2>2, <3>2
    <3>4. 1 \in 1 .. Len(p) /\ p[1].op = "mark" /\ p[1].addr = a /\ p[1].arg = None
      BY <3>2 DEF Mark
    <3>5. Due(p[1].op, p[1].addr, p[1].arg)'
      BY <1>1, <3>3, <3>4, DueStays
    <3>6. Due("mark", a, None)'
      BY <3>4, <3>5
    <3> QED
      BY <3>6 DEF ToBeMarked
  <2>3. CallsTable(v)' \/ work' = <<Mark(Top.addr, None)>> \o Rest
    <3> DEFINE isTable == IF Top.arg \in DOMAIN jumpTables
                          THEN jumpTables[Top.arg] ELSE IsDispatch(Top.arg)
    <3>1. /\ jumpTables' = Noted(jumpTables, Top.arg, isTable)
          /\ isTable \/ work' = <<Mark(Top.addr, None)>> \o Rest
      BY <1>3, Zenon DEF ReturnFromMark
    <3> HIDE DEF isTable
    <3>2. v \in DOMAIN jumpTables' /\ jumpTables'[v] = isTable
      BY <1>3, <3>1 DEF Noted
    <3> QED
      BY <3>1, <3>2, Zenon DEF CallsTable
  <2> QED
    BY <2>1, <2>2, <2>3
<1>4. CASE ~(Top.op = "return" /\ Top.addr = a /\ Top.arg = v)
  BY <1>4, DueRemains
<1>5. ASSUME MarkNothing \/ MarkFails \/ (MarkInstruction /\ ~Panic) \/ MarkWord \/ LabelTheWord
      PROVE  Top.op # "return"
  BY <1>5 DEF MarkNothing, MarkFails, MarkInstruction, Marking, MarkWord, LabelTheWord
<1>6. ASSUME Panic \/ ResolveDynJump \/ Finish \/ UNCHANGED vars
      PROVE  UNCHANGED work
  BY <1>1, <1>6 DEF Panic, ResolveDynJump, Finish, vars
<1> QED
  BY <1>2, <1>3, <1>4, <1>5, <1>6 DEF Next

LEMMA FollowedStays ==
    ASSUME Inv, [Next]_vars, Progress, Located, Examining, Examining',
           NEW c, NEW after \in Int, NEW v \in Int, FollowedAs(c, after, v)
    PROVE  FollowedAs(c, after, v)'
<1>1. Seen(after) => Seen(after)'
  BY SeenStays
<1>2. Seen(v) => Seen(v)'
  BY SeenStays
<1>3. CallsTable(v) => CallsTable(v)'
  BY DEF Progress, CallsTable
<1>4. Due("return", after, v) => Due("return", after, v)' \/ CallsTable(v)' \/ ToBeMarked(after)'
  BY ReturnedIsSeen
<1>5. ToBeMarked(after)' => Seen(after)'
  BY DEF Seen
<1> QED
  BY <1>1, <1>2, <1>3, <1>4, <1>5 DEF FollowedAs

LEMMA DecodedIsFollowed ==
    ASSUME Inv, NEW h, NEW c, NEW v, NEW name, Decoded(Top.addr, h, c, v, name),
           NEW a, a = Top.addr, NEW after, after = a + Shape[c].size
    PROVE  /\ FollowedAs(c, after, v)'
           /\ Leads(c, "return") => Due("return", after, v)'
<1>1. Typed /\ work # << >> /\ c \in DOMAIN Shape /\ v \in Int /\ work' = Calls(c, a, v) \o Rest
  BY DEF Inv, Decoded
<1>2. a \in Int
  BY <1>1, TopTyped DEF Call
<1>3. PICK p \in Seq(Call) : p = Calls(c, a, v)
  BY <1>1, <1>2, PushedAre
<1>4. work' = p \o Rest
  BY <1>1, <1>3
<1>5. \A i \in 1 .. Len(p) : Due(p[i].op, p[i].addr, p[i].arg)'
  BY <1>1, <1>4, DueStays
<1>6. ASSUME NEW b, NEW i \in 1 .. Len(p), p[i] = Mark(b, None) PROVE Seen(b)'
  <2>1. p[i].op = "mark" /\ p[i].addr = b /\ p[i].arg = None
    BY <1>6 DEF Mark
  <2>2. Due("mark", b, None)'
    BY <1>5, <2>1
  <2> QED
    BY <2>2 DEF Seen, ToBeMarked
<1>7. ASSUME NEW i \in 1 .. Len(p), p[i] = Return(after, v) PROVE Due("return", after, v)'
  <2>1. p[i].op = "return" /\ p[i].addr = after /\ p[i].arg = v
    BY <1>7 DEF Return
  <2> QED
    BY <1>5, <2>1
<1>8. PICK next, m1, m2, r :
         next = Shape[c].next /\ m1 = Mark(after, None) /\ m2 = Mark(v, None) /\ r = Return(after, v)
  OBVIOUS
<1>9. \/ next = << >> /\ p = << >>
      \/ next = <<"after">> /\ p = <<m1>>
      \/ next = <<"target">> /\ p = <<m2>>
      \/ next = <<"after", "target">> /\ p = <<m1, m2>>
      \/ next = <<"target", "return">> /\ p = <<m2, r>>
  BY <1>1, <1>3, <1>8, CallsAre
<1>10. /\ Leads(c, "after") => \E i \in 1 .. Len(p) : p[i] = m1
       /\ Leads(c, "target") => \E i \in 1 .. Len(p) : p[i] = m2
       /\ Leads(c, "return") => \E i \in 1 .. Len(p) : p[i] = r
  <2>1. \A n : Leads(c, n) <=> \E i \in DOMAIN next : next[i] = n
    BY <1>8 DEF Leads
  <2>2. CASE next = << >> /\ p = << >>
    BY <2>1, <2>2
  <2>3. CASE next = <<"after">> /\ p = <<m1>>
    BY <2>1, <2>3
  <2>4. CASE next = <<"target">> /\ p = <<m2>>
    BY <2>1, <2>4
  <2>5. CASE next = <<"after", "target">> /\ p = <<m1, m2>>
    BY <2>1, <2>5
  <2>6. CASE next = <<"target", "return">> /\ p = <<m2, r>>
    BY <2>1, <2>6
  <2> QED
    BY <1>9, <2>2, <2>3, <2>4, <2>5, <2>6
<1> QED
  BY <1>6, <1>7, <1>8, <1>10 DEF FollowedAs

LEMMA CodeStaysFollowed ==
    ASSUME Inv, Inv', [Next]_vars, Progress, Located, Examining, Examining', CodeFollowed
    PROVE  CodeFollowed'
<1>1. Typed /\ StatementsTyped /\ Homes' = Homes /\ work \in Seq(Call)
  BY TypedSets, SameHomes DEF Inv, Progress, Typed
<1> SUFFICES ASSUME NEW h \in Homes, Kind(h)' = "instruction" PROVE Followed(h)'
  BY <1>1 DEF CodeFollowed
<1>2. CASE statement'[h] = statement[h]
  <2>1. Kind(h) = "instruction" /\ Followed(h)
    BY <1>2 DEF CodeFollowed, Kind
  <2>2. PICK c \in DOMAIN Shape, a \in Int, v \in Int :
           c = statement[h].code /\ a = statement[h].addr /\ v = statement[h].value
    BY <1>1, <2>1, KindIs DEF Instruction
  <2>3. PICK after \in Int : after = a + Shape[c].size
    BY ShapeFacts
  <2>4. FollowedAs(c, after, v)'
    BY <2>1, <2>2, <2>3, FollowedStays DEF Followed
  <2> QED
    BY <1>2, <2>2, <2>3, <2>4 DEF Followed
<1>3. CASE statement'[h] # statement[h]
  <2>1. CASE LabelTheWord /\ h = Top.arg
    <3>1. PICK r : /\ statement' = [statement EXCEPT ![h] = r]
                   /\ r.kind = "number" \/ r.kind = "reference"
      BY <2>1, LabelTheWordDoes
    <3> QED
      BY <1>1, <3>1 DEF StatementsTyped, Kind
  <2>2. CASE \E c \in OpCodes : \E v, name : Decoded(Top.addr, h, c, v, name)
    <3>1. PICK c \in OpCodes : \E v, name : Decoded(Top.addr, h, c, v, name)
      BY <2>2
    <3>2. PICK v, name : Decoded(Top.addr, h, c, v, name)
      BY <3>1
    <3>3. PICK a : a = Top.addr
      OBVIOUS
    <3>4. PICK after : after = a + Shape[c].size
      OBVIOUS
    <3>5. FollowedAs(c, after, v)'
      BY <3>2, <3>3, <3>4, DecodedIsFollowed
    <3>6. PICK r : /\ r = [kind |-> "instruction", code |-> c, addr |-> a, value |-> v, label |-> name]
                   /\ statement' = [statement EXCEPT ![h] = r]
      BY <3>2, <3>3 DEF Decoded
    <3>7. statement'[h] = r
      BY <1>1, <3>6 DEF StatementsTyped
    <3> QED
      BY <3>4, <3>5, <3>6, <3>7 DEF Followed
  <2> QED
    BY <1>3, <2>1, <2>2, NewlyLabelled
<1> QED
  BY <1>2, <1>3

(* Nothing that instructions lead to is left unexamined at the end: the     *)
(* recursion of markAsInstruction and of the jsr case in it, over ROMs of   *)
(* any size, whatever overlaps in them.                                     *)
THEOREM CodeAlwaysClosed == Spec => []CodeClosed
<1>1. Inv => Located
  BY AllLocated DEF Inv
<1>2. Inv /\ Located => Examining
  BY ExaminedIs DEF Inv, Examining
<1>3. Init => CodeFollowed
  BY DEF Init, CodeFollowed, Kind
<1>4. Inv /\ Located /\ CodeFollowed => CodeClosed
  <2> SUFFICES ASSUME Inv, Located, CodeFollowed, phase = "done",
                      NEW h \in Homes, Kind(h) = "instruction", NEW a \in Successors(h)
               PROVE  Examined(a)
    BY DEF CodeClosed, Examined, Kind
  <2>1. work = << >>
    BY DEF Inv, DoneIsDone
  <2>2. PICK c \in DOMAIN Shape, at \in Int, v \in Int :
           c = statement[h].code /\ at = statement[h].addr /\ v = statement[h].value
    BY TypedSets, KindIs DEF Inv, Instruction
  <2>3. PICK after \in Int : after = at + Shape[c].size
    BY ShapeFacts
  <2>4. \A b : ~ToBeMarked(b) /\ \A x : ~Due("return", b, x)
    BY <2>1 DEF ToBeMarked, Due
  <2>5. /\ Leads(c, "after") => Examined(after)
        /\ Leads(c, "target") => Examined(v)
        /\ Leads(c, "return") => CallsTable(v) \/ Examined(after)
    BY <2>2, <2>3, <2>4 DEF CodeFollowed, Followed, FollowedAs, Seen
  <2>6. Size(h) = Shape[c].size
    BY <2>2 DEF Size, Kind
  <2>7. PICK n \in Range(Shape[c].next) \ (IF CallsTable(v) THEN {"return"} ELSE {}) :
           a = IF n = "target" THEN v ELSE after
    BY <2>2, <2>3, <2>6 DEF Successors, CallsTable
  <2>8. Leads(c, n) /\ n \in {"after", "target", "return"} /\ (n = "return" => ~CallsTable(v))
    <3>1. PICK next : next = Shape[c].next
      OBVIOUS
    <3>2. PICK i \in DOMAIN next : next[i] = n
      BY <2>7, <3>1 DEF Range
    <3>3. next \in {<< >>, <<"after">>, <<"target">>, <<"after", "target">>,
                    <<"target", "return">>}
      BY <3>1, ShapeFacts
    <3>4. n \in {"after", "target", "return"}
      BY <3>2, <3>3
    <3> QED
      BY <2>7, <3>1, <3>2, <3>4 DEF Leads
  <2> QED
    BY <2>5, <2>7, <2>8
<1>5. Inv /\ [Next]_vars => Progress
  BY NextProgress
<1>6. Inv /\ Inv' /\ [Next]_vars /\ Progress /\ Located /\ Examining /\ Examining' /\ CodeFollowed
         => CodeFollowed'
  BY CodeStaysFollowed
<1>7. Spec => []Inv
  BY AlwaysInv
<1> QED
  BY <1>1, <1>2, <1>3, <1>4, <1>5, <1>6, <1>7, PTL DEF Spec

-----------------------------------------------------------------------------
(* Tables are read to their ends.                                           *)

(* The element at e does not go on a table, and never will.                 *)
Ended(e) ==
    \/ e \notin list
    \/ Kind(e) # "byte"
    \/ LabelsBefore(e) # {}
    \/ \A x \in list : x <= e
    \/ \E n \in list : /\ n > e /\ \A x \in list : x > e => n <= x
                       /\ LabelsBefore(n) # {} \/ Kind(n) \in {"instruction", "reference"}

WordDue(a) == \E arg : Due("word", a, arg)

TableDue(e) == \E i \in 1 .. Len(dynJumps) : HomeOf(dynJumps[i]) = e

(* Nothing goes on a table at e, or somebody will still have a look.        *)
Covered(e) == e \notin Homes \/ Ended(e) \/ WordDue(e) \/ TableDue(e)

(* A call that returns has its table looked at, if it calls one.            *)
TableOfCall(h, after, v) ==
    \/ Due("return", after, v)
    \/ v \in DOMAIN jumpTables /\ (jumpTables[v] => Covered(h + 3))

TablesFollowed ==
    /\ \A w \in Homes : Kind(w) \in {"open", "number", "reference"} => Covered(w + 2)
    /\ \A a \in Homes : WordDue(a) => Covered(a + 2)
    /\ \A h \in Homes : Kind(h) = "instruction" /\ statement[h].code = "jsr" =>
          TableOfCall(h, statement[h].addr + 3, statement[h].value)

(* The bytes after a home are the homes of the addresses after its address. *)
LEMMA HomesAfter ==
    ASSUME banks \in 1 .. 2, NEW a \in Int, NEW h \in Homes, h = HomeOf(a),
           NEW k \in Nat, h + k \in Homes
    PROVE  HomeOf(a + k) = h + k
<1>1. /\ Bank \in Nat \ {0} /\ None \notin Homes
      /\ \A x : x \in Homes <=> x \in Int /\ Start <= x /\ x < 4 * Bank
      /\ Start = (IF banks = 1 THEN 3 * Bank ELSE 2 * Bank)
  <2>1. /\ Bank \in Nat \ {0} /\ None \notin Homes /\ End = 4 * Bank /\ Start \in Nat
        /\ Homes = Start .. End - 1 /\ Start = (IF banks = 1 THEN 3 * Bank ELSE 2 * Bank)
    BY Layout
  <2> QED
    BY <2>1
<1>2. a = h \/ (banks = 1 /\ a + Bank = h)
  BY <1>1 DEF HomeOf
<1>3. CASE a = h
  BY <1>3 DEF HomeOf
<1>4. CASE banks = 1 /\ a + Bank = h
  <2>1. (a + k) + Bank = h + k /\ a + k \notin Homes
    BY <1>1, <1>4
  <2> QED
    BY <1>4, <2>1 DEF HomeOf
<1> QED
  BY <1>2, <1>3, <1>4

LEMMA EndedStays ==
    ASSUME Typed, Progress, Located, Located', NEW e, Ended(e)
    PROVE  Ended(e)'
<1>1. /\ list' \subseteq list /\ list \subseteq Homes /\ Homes \subseteq Int
      /\ \A x \in list \ list' : ByteLike(x) /\ LabelsBefore(x) = {}
      /\ \A x \in list' : LabelsBefore(x) # {} => LabelsBefore(x)' # {}
  BY TypedSets, LabelsStay DEF Progress
<1>2. \A x \in Homes : /\ Kind(x) # "byte" => Kind(x)' # "byte"
                       /\ Kind(x) \in {"instruction", "reference"} => Kind(x)' = Kind(x)
  BY DEF Progress, Kind
<1> SUFFICES ASSUME e \in list' PROVE Ended(e)'
  BY DEF Ended
<1>3. CASE Kind(e) # "byte"
  BY <1>1, <1>2, <1>3 DEF Ended
<1>4. CASE LabelsBefore(e) # {}
  BY <1>1, <1>4 DEF Ended
<1>5. CASE \A x \in list : x <= e
  BY <1>1, <1>5 DEF Ended
<1>6. ASSUME NEW n \in list, n > e, \A x \in list : x > e => n <= x,
             LabelsBefore(n) # {} \/ Kind(n) \in {"instruction", "reference"}
      PROVE  Ended(e)'
  <2>1. n \in list'
    BY <1>1, <1>6 DEF ByteLike, Kind
  <2>2. LabelsBefore(n)' # {} \/ Kind(n)' \in {"instruction", "reference"}
    BY <1>1, <1>2, <1>6, <2>1
  <2>3. \A x \in list' : x > e => n <= x
    BY <1>1, <1>6
  <2> QED
    BY <1>6, <2>1, <2>2, <2>3 DEF Ended
<1> QED
  BY <1>1, <1>3, <1>4, <1>5, <1>6 DEF Ended

(* Two bytes that go on a table have not been covered.                      *)
LEMMA PairNotEnded ==
    ASSUME Typed, NEW e \in Homes, Kind(e) = "byte", LabelsBefore(e) = {}, NextByte(e) # None
    PROVE  ~Ended(e)
<1>1. Homes \subseteq Int /\ list \subseteq Homes
  BY TypedSets
<1>2. /\ e \in list /\ NextByte(e) \in list /\ NextByte(e) > e
      /\ \A x \in list : x > e => NextByte(e) <= x
      /\ LabelsBefore(NextByte(e)) = {} /\ ByteLike(NextByte(e))
  BY NextByteIs
<1>3. PICK m \in list : m = NextByte(e) /\ m > e /\ (\A x \in list : x > e => m <= x)
                        /\ LabelsBefore(m) = {} /\ Kind(m) \in {"byte", "number"}
  BY <1>1, <1>2 DEF ByteLike, Kind
<1>4. ASSUME NEW n \in list, n > e, \A x \in list : x > e => n <= x PROVE n = m
  BY <1>1, <1>3, <1>4
<1>5. ~ \A x \in list : x <= e
  BY <1>1, <1>3
<1> QED
  BY <1>2, <1>3, <1>4, <1>5 DEF Ended

(* What is not two bytes ends a table, while no word is being marked.       *)
LEMMA NoPairEnded ==
    ASSUME Typed, Located, NEW e \in Homes, \A x \in Homes : Kind(x) # "open",
           ~(ByteLike(e) /\ LabelsBefore(e) = {} /\ NextByte(e) # None)
    PROVE  Ended(e)
<1>1. /\ Homes \subseteq Int /\ list \subseteq Homes /\ StatementsTyped /\ None \notin Homes
  BY TypedSets
<1> SUFFICES ASSUME e \in list, Kind(e) = "byte", LabelsBefore(e) = {} PROVE Ended(e)
  BY DEF Ended
<1>2. NextByte(e) = None
  BY <1>1, ByteLikeIs
<1>3. CASE \A x \in list : x <= e
  BY <1>3 DEF Ended
<1>4. CASE NextHome(e) \in list /\ NextHome(e) > e /\ \A x \in list : x > e => NextHome(e) <= x
  <2>1. PICK n \in list : n = NextHome(e) /\ n > e /\ \A x \in list : x > e => n <= x
    BY <1>4
  <2>2. n # None /\ n \in Homes
    BY <1>1
  <2>3. LabelsBefore(n) # {} \/ ~ByteLike(n)
    BY <1>2, <2>1, <2>2 DEF NextByte
  <2>4. ~ByteLike(n) => Kind(n) \in {"instruction", "reference"}
    BY <1>1, <2>2, KindIs, ByteLikeIs DEF Kinds
  <2> QED
    BY <2>1, <2>3, <2>4 DEF Ended
<1> QED
  BY <1>3, <1>4, NextHomeIs

(* A call that was not to come before was pushed.                           *)
LEMMA NewCall ==
    ASSUME Typed, work # << >>, NEW p \in Seq(Call), work' = p \o Rest,
           NEW i \in 1 .. Len(work')
    PROVE  (\E j \in 1 .. Len(p) : work'[i] = p[j]) \/ (\E j \in 1 .. Len(work) : work'[i] = work[j])
<1>1. work \in Seq(Call) /\ Len(work) \in Nat \ {0} /\ Len(p) \in Nat
  <2>1. work \in Seq(Call)
    BY DEF Typed
  <2> QED
    BY <2>1, StackPop
<1>2. /\ Len(work') = Len(p) + Len(work) - 1
      /\ \A j \in 1 .. Len(p) : work'[j] = p[j]
      /\ \A j \in Len(p) + 1 .. Len(work') :
            j - Len(p) + 1 \in 2 .. Len(work) /\ work'[j] = work[j - Len(p) + 1]
  BY <1>1, StackPush DEF Rest
<1>3. i \in 1 .. Len(p) \/ i \in Len(p) + 1 .. Len(work')
  BY <1>1, <1>2
<1>4. \A j \in 2 .. Len(work) : j \in 1 .. Len(work)
  BY <1>1
<1> QED
  BY <1>2, <1>3, <1>4

(* Words are looked at when the tables are resolved, one at a time.         *)
LEMMA NewWordDue ==
    ASSUME Inv, [Next]_vars, NEW a, WordDue(a)', ~WordDue(a)
    PROVE  /\ work = << >> /\ dynJumps # << >> /\ a = Elem(Last(dynJumps)) /\ ByteLike(a)
           /\ dynJumps' = Append(Front(dynJumps), Last(dynJumps) + 2)
<1>1. Typed
  BY DEF Inv
<1>2. PICK i \in 1 .. Len(work') : work'[i].op = "word" /\ work'[i].addr = a
  BY DEF WordDue, Due
<1>3. ~ \E j \in 1 .. Len(work) : work'[i] = work[j]
  BY <1>2 DEF WordDue, Due
<1>4. work \in Seq(Call) /\ (work # << >> => Len(work) \in Nat \ {0})
  <2>1. work \in Seq(Call)
    BY <1>1 DEF Typed
  <2> QED
    BY <2>1, StackPop
<1>5. work' # work
  BY <1>2, <1>3
<1>6. CASE work # << >>
  <2>1. CASE work' = Rest
    <3> DEFINE p == << >>
    <3>1. p \in Seq(Call) /\ Len(p) = 0
      OBVIOUS
    <3>2. work' = p \o Rest
      BY <1>1, <1>6, <2>1, TopTyped
    <3> HIDE DEF p
    <3>3. ~ \E j \in 1 .. Len(p) : work'[i] = p[j]
      BY <3>1
    <3>4. FALSE
      BY <1>1, <1>2, <1>3, <1>6, <3>1, <3>2, <3>3, NewCall
    <3> QED
      BY <3>4
  <2>2. ASSUME NEW p \in Seq(Call), work' = p \o Rest, \A j \in 1 .. Len(p) : p[j].op # "word"
        PROVE  FALSE
    BY <1>1, <1>2, <1>3, <1>6, <2>2, NewCall
  <2>3. CASE MarkFails
    <3>1. work' = Rest \/ work' = Tail(Rest)
      BY <2>3 DEF MarkFails
    <3>2. /\ Rest \in Seq(Call) /\ Len(Rest) = Len(work) - 1
          /\ \A j \in 1 .. Len(work) - 1 : Rest[j] = work[j + 1]
      BY <1>4, <1>6, StackPop DEF Rest
    <3>3. CASE work' = Tail(Rest) /\ Rest # << >>
      <4>1. /\ Len(work') = Len(Rest) - 1
            /\ \A j \in 1 .. Len(Rest) - 1 : work'[j] = Rest[j + 1]
        BY <3>2, <3>3, StackPop
      <4>2. i \in 1 .. Len(Rest) - 1 /\ i + 1 \in 1 .. Len(work) - 1 /\ i + 2 \in 1 .. Len(work)
        BY <1>4, <1>6, <3>2, <4>1
      <4>3. work'[i] = work[i + 2]
        <5>1. work'[i] = Rest[i + 1] /\ Rest[i + 1] = work[(i + 1) + 1] /\ (i + 1) + 1 = i + 2
          BY <3>2, <4>1, <4>2
        <5> QED
          BY <5>1
      <4> QED
        BY <1>3, <4>2, <4>3
    <3>4. CASE work' = Tail(Rest) /\ Rest = << >>
      <4>1. Top.arg # None
        BY <2>1, <2>3, <3>4 DEF MarkFails
      <4>2. MarkedForWord /\ Top = work[1] /\ Top.op = "mark"
        BY <1>4, <1>6, <2>3, StackPop DEF Inv, WorkInOrder, MarkFails, Marking, Top
      <4>3. 1 + 1 \in 1 .. Len(work)
        BY <1>4, <1>6, <4>1, <4>2 DEF MarkedForWord
      <4> QED
        BY <1>4, <1>6, <3>2, <3>4, <4>3
    <3> QED
      BY <2>1, <3>1, <3>3, <3>4
  <2> QED
    BY <1>5, <1>6, <2>1, <2>2, <2>3, CallsToCome
<1>7. CASE work = << >>
  <2>1. ResolveDynJump
    BY <1>5, <1>7 DEF Next, MarkNothing, MarkFails, MarkInstruction, Marking, ReturnFromMark,
                     MarkWord, LabelTheWord, Finish, vars
  <2>2. /\ dynJumps # << >> /\ ByteLike(Elem(Last(dynJumps)))
        /\ dynJumps' = Append(Front(dynJumps), Last(dynJumps) + 2)
        /\ work' = <<Word(Elem(Last(dynJumps)))>>
    BY <1>5, <2>1 DEF ResolveDynJump
  <2>3. PICK h : h = Elem(Last(dynJumps))
    OBVIOUS
  <2>4. work'[i] = Word(h)
    BY <2>2, <2>3
  <2> QED
    BY <1>2, <1>7, <2>2, <2>3, <2>4 DEF Word
<1> QED
  BY <1>6, <1>7

LEMMA WordDueIsRead ==
    ASSUME Inv, [Next]_vars, Located, NEW e \in Homes, WordDue(e)
    PROVE  WordDue(e)' \/ Ended(e)'
<1>1. Typed /\ work # << >> /\ StatementsTyped
  BY TypedSets DEF Inv, WordDue, Due
<1>2. PICK arg : Due("word", e, arg)
  BY DEF WordDue
<1>3. CASE Due("word", e, arg)'
  BY <1>3 DEF WordDue
<1>4. CASE Top.op = "word" /\ Top.addr = e
  <2>1. CASE MarkWord /\ ~Panic
    <3>1. PICK h \in offsets : \E v : ReadAsWord(Top.addr, h, v)
      BY <1>1, <2>1, MarkWordDoes
    <3>2. PICK v : ReadAsWord(Top.addr, h, v)
      BY <3>1
    <3>3. PICK k : k = IF v < PrgStart THEN "number" ELSE "open"
      OBVIOUS
    <3>4. PICK r : r = [kind |-> k, value |-> v, label |-> None]
      OBVIOUS
    <3>5. statement' = [statement EXCEPT ![h] = r] /\ h = Elem(e)
      BY <1>4, <3>2, <3>3, <3>4 DEF ReadAsWord
    <3>6. h = e
      <4>1. h \in Homes /\ None \notin Homes /\ e \in Int /\ HomeOf(e) = e
        BY <1>1, TypedSets DEF HomeOf
      <4> QED
        BY <3>5, <4>1 DEF Located
    <3>7. statement'[e] = r /\ r.kind # "byte"
      BY <1>1, <3>3, <3>4, <3>5, <3>6 DEF StatementsTyped
    <3> QED
      BY <3>7 DEF Ended, Kind
  <2>2. CASE UNCHANGED work
    BY <1>2, <2>2 DEF Due, WordDue
  <2>3. ASSUME MarkNothing \/ MarkFails \/ (MarkInstruction /\ ~Panic) \/ ReturnFromMark \/ LabelTheWord
        PROVE  FALSE
    BY <1>4, <2>3 DEF MarkNothing, MarkFails, MarkInstruction, Marking, ReturnFromMark, LabelTheWord
  <2>4. ASSUME Panic \/ ResolveDynJump \/ Finish \/ UNCHANGED vars
        PROVE  UNCHANGED work
    BY <1>1, <2>4 DEF Panic, ResolveDynJump, Finish, vars
  <2> QED
    BY <2>1, <2>2, <2>3, <2>4 DEF Next
<1> QED
  BY <1>2, <1>3, <1>4, DueRemains

(* What a step does to the tables that are due.                             *)
LEMMA DynJumpsDo ==
    ASSUME Inv, [Next]_vars
    PROVE  \/ UNCHANGED dynJumps
           \/ ReturnFromMark /\ dynJumps' = Append(dynJumps, Top.addr)
           \/ ResolveDynJump
<1>1. Typed
  BY DEF Inv
<1>2. CASE MarkInstruction /\ ~Panic
  <2>1. PICK h \in offsets, c \in OpCodes : \E v, name : Decoded(Top.addr, h, c, v, name)
    BY <1>1, <1>2, MarkInstructionDoes
  <2> QED
    BY <2>1 DEF Decoded
<1>3. CASE MarkWord /\ ~Panic
  <2>1. PICK h \in offsets : \E v : ReadAsWord(Top.addr, h, v)
    BY <1>1, <1>3, MarkWordDoes
  <2> QED
    BY <2>1 DEF ReadAsWord
<1>4. CASE ReturnFromMark
  BY <1>4, Zenon DEF ReturnFromMark
<1>5. ASSUME MarkNothing \/ MarkFails \/ LabelTheWord \/ Panic \/ Finish \/ UNCHANGED vars
      PROVE  UNCHANGED dynJumps
  BY <1>5 DEF MarkNothing, MarkFails, LabelTheWord, Panic, Finish, vars
<1> QED
  BY <1>2, <1>3, <1>4, <1>5 DEF Next

LEMMA DynJumpsAre ==
    ASSUME Typed, dynJumps # << >>
    PROVE  /\ dynJumps \in Seq(Int) /\ Len(dynJumps) \in Nat \ {0}
           /\ Last(dynJumps) = dynJumps[Len(dynJumps)] /\ Last(dynJumps) \in Int
           /\ Front(dynJumps) \in Seq(Int) /\ Len(Front(dynJumps)) = Len(dynJumps) - 1
           /\ \A i \in 1 .. Len(dynJumps) - 1 : Front(dynJumps)[i] = dynJumps[i]
<1>1. dynJumps \in Seq(Int)
  BY DEF Typed
<1>2. Len(dynJumps) \in Nat \ {0}
  BY <1>1, EmptySeq
<1>3. Last(dynJumps) = dynJumps[Len(dynJumps)] /\ Last(dynJumps) \in Int
  BY <1>1, <1>2 DEF Last
<1>4. Front(dynJumps) = SubSeq(dynJumps, 1, Len(dynJumps) - 1)
  BY DEF Front
<1>5. PICK n \in Nat : n = Len(dynJumps) - 1
  BY <1>2
<1>6. \A i \in 1 .. n : dynJumps[i] \in Int
  BY <1>1, <1>5
<1>7. SubSeq(dynJumps, 1, n) \in Seq(Int) /\ Len(SubSeq(dynJumps, 1, n)) = n
  BY <1>5, <1>6, SubSeqProperties
<1>8. \A i \in 1 .. n : SubSeq(dynJumps, 1, n)[i] = dynJumps[i]
  <2>1. \A i \in 1 .. n - 1 + 1 : SubSeq(dynJumps, 1, n)[i] = dynJumps[1 + i - 1]
    BY <1>6, SubSeqProperties
  <2>2. \A i \in 1 .. n : i \in 1 .. n - 1 + 1 /\ 1 + i - 1 = i
    OBVIOUS
  <2> QED
    BY <2>1, <2>2
<1> QED
  BY <1>1, <1>2, <1>3, <1>4, <1>5, <1>7, <1>8

LEMMA TableDueIsRead ==
    ASSUME Inv, [Next]_vars, Progress, Located, Located', NEW e \in Homes, TableDue(e)
    PROVE  TableDue(e)' \/ WordDue(e)' \/ Ended(e)'
<1>1. Typed /\ banks' = banks /\ dynJumps \in Seq(Int) /\ Homes \subseteq Int /\ None \notin Homes
      /\ StatementsTyped /\ WorkInOrder
  BY TypedSets DEF Inv, Progress, Typed
<1>2. \A a : HomeOf(a)' = HomeOf(a)
  BY <1>1, SameHomes
<1>3. PICK i \in 1 .. Len(dynJumps) : HomeOf(dynJumps[i]) = e
  BY DEF TableDue
<1>4. CASE UNCHANGED dynJumps
  BY <1>2, <1>3, <1>4 DEF TableDue
<1>5. CASE ReturnFromMark /\ dynJumps' = Append(dynJumps, Top.addr)
  <2>1. i \in 1 .. Len(dynJumps') /\ dynJumps'[i] = dynJumps[i]
    BY <1>1, <1>3, <1>5
  <2> QED
    BY <1>2, <1>3, <2>1 DEF TableDue
<1>6. CASE ResolveDynJump
  <2>1. /\ work = << >> /\ dynJumps # << >>
        /\ UNCHANGED <<banks, opcode, statement, list, offsets, labels, jumpTables, phase>>
    BY <1>6 DEF ResolveDynJump
  <2>2. PICK last \in Int, front \in Seq(Int) :
           /\ last = Last(dynJumps) /\ front = Front(dynJumps)
           /\ last = dynJumps[Len(dynJumps)] /\ Len(dynJumps) \in Nat \ {0}
           /\ Len(front) = Len(dynJumps) - 1
           /\ \A j \in 1 .. Len(dynJumps) - 1 : front[j] = dynJumps[j]
    BY <1>1, <2>1, DynJumpsAre
  <2>3. dynJumps' = front \/ dynJumps' = Append(front, last + 2)
    BY <1>6, <2>2 DEF ResolveDynJump
  <2>4. CASE i # Len(dynJumps)
    <3>1. i \in 1 .. Len(dynJumps) - 1 /\ front[i] = dynJumps[i]
      BY <2>2, <2>4
    <3>2. /\ Len(Append(front, last + 2)) = Len(front) + 1
          /\ \A j \in 1 .. Len(front) : Append(front, last + 2)[j] = front[j]
      BY <2>2
    <3>3. i \in 1 .. Len(dynJumps') /\ dynJumps'[i] = dynJumps[i]
      BY <2>2, <2>3, <3>1, <3>2
    <3> QED
      BY <1>2, <1>3, <3>3 DEF TableDue
  <2>5. CASE i = Len(dynJumps)
    <3>1. HomeOf(last) = e
      BY <1>3, <2>2, <2>5
    <3>2. Elem(last) = IF e \in offsets THEN e ELSE None
      BY <3>1 DEF Located
    <3>3. CASE ByteLike(Elem(last)) /\ LabelsBefore(Elem(last)) = {} /\ NextByte(Elem(last)) # None
      <4>1. Elem(last) = e
        BY <3>2, <3>3 DEF ByteLike
      <4>2. work' = <<Word(e)>>
        BY <1>6, <2>2, <3>3, <4>1 DEF ResolveDynJump
      <4>3. 1 \in 1 .. Len(work') /\ work'[1].op = "word" /\ work'[1].addr = e
        BY <4>2 DEF Word
      <4> QED
        BY <4>3 DEF WordDue, Due
    <3>4. CASE ~(ByteLike(Elem(last)) /\ LabelsBefore(Elem(last)) = {} /\ NextByte(Elem(last)) # None)
      <4>1. CASE e \in offsets
        <5>1. ~(ByteLike(e) /\ LabelsBefore(e) = {} /\ NextByte(e) # None)
          BY <3>2, <3>4, <4>1
        <5>2. \A x \in Homes : Kind(x) # "open"
          BY <1>1, <2>1 DEF WorkInOrder, OpenAwaited
        <5>3. Ended(e)
          BY <1>1, <5>1, <5>2, NoPairEnded
        <5> QED
          BY <1>1, <5>3, EndedStays
      <4>2. CASE e \notin offsets
        <5>1. e \notin list'
          BY <1>1, <2>1, <4>2, TypedSets
        <5> QED
          BY <5>1 DEF Ended
      <4> QED
        BY <4>1, <4>2
    <3> QED
      BY <3>3, <3>4
  <2> QED
    BY <2>4, <2>5
<1> QED
  BY <1>4, <1>5, <1>6, DynJumpsDo

LEMMA CoveredStays ==
    ASSUME Inv, [Next]_vars, Progress, Located, Located', NEW e \in Int, Covered(e)
    PROVE  Covered(e)'
<1>1. Homes' = Homes /\ Typed
  BY SameHomes DEF Progress, Inv
<1>2. CASE e \notin Homes
  BY <1>1, <1>2 DEF Covered
<1>3. CASE Ended(e)
  BY <1>1, <1>3, EndedStays DEF Covered
<1>4. CASE e \in Homes /\ WordDue(e)
  BY <1>4, WordDueIsRead DEF Covered
<1>5. CASE e \in Homes /\ TableDue(e)
  BY <1>5, TableDueIsRead DEF Covered
<1> QED
  BY <1>2, <1>3, <1>4, <1>5 DEF Covered

(* A byte becomes a word because the word was to be looked at.              *)
LEMMA NewWordWasDue ==
    ASSUME Inv, [Next]_vars, Located, NEW w \in Homes, Kind(w) = "byte",
           Kind(w)' \in {"open", "number", "reference"}
    PROVE  WordDue(w)
<1>1. Typed /\ WorkInOrder /\ StatementsTyped /\ Homes \subseteq Int /\ None \notin Homes
  BY TypedSets DEF Inv
<1>2. statement'[w] # statement[w]
  BY DEF Kind
<1>3. CASE MarkFails
  BY <1>2, <1>3, MarkFailsDoes
<1>4. CASE MarkInstruction /\ ~Panic
  <2>1. PICK h \in offsets, c \in OpCodes : \E v, name : Decoded(Top.addr, h, c, v, name)
    BY <1>1, <1>4, MarkInstructionDoes
  <2>2. PICK r : r.kind = "instruction" /\ statement' = [statement EXCEPT ![h] = r]
    BY <2>1 DEF Decoded
  <2> QED
    BY <1>1, <1>2, <2>2 DEF StatementsTyped, Kind
<1>5. CASE MarkWord /\ ~Panic
  <2>1. PICK h \in offsets : \E v : ReadAsWord(Top.addr, h, v)
    BY <1>1, <1>5, MarkWordDoes
  <2>2. PICK r : statement' = [statement EXCEPT ![h] = r]
    BY <2>1 DEF ReadAsWord
  <2>3. w = h /\ h = Elem(Top.addr)
    BY <1>1, <1>2, <2>1, <2>2 DEF StatementsTyped, ReadAsWord
  <2>4. work # << >> /\ Top.op = "word"
    BY <1>5 DEF MarkWord
  <2>5. work \in Seq(Call) /\ Top = work[1] /\ 1 \in 1 .. Len(work)
    <3>1. work \in Seq(Call)
      BY <1>1 DEF Typed
    <3> QED
      BY <2>4, <3>1, StackPop DEF Top
  <2>6. Top.addr \in Homes
    BY <1>1, <2>4, <2>5 DEF WorkInOrder, WordsInRom
  <2>7. PICK a \in Homes : a = Top.addr
    BY <2>6
  <2>8. a = w
    BY <1>1, <2>3, <2>7 DEF Located, HomeOf
  <2> QED
    BY <2>4, <2>5, <2>7, <2>8 DEF WordDue, Due
<1>6. CASE LabelTheWord
  <2>1. PICK x, r : Kind(x) = "open" /\ statement' = [statement EXCEPT ![x] = r]
    BY <1>6, LabelTheWordDoes
  <2> QED
    BY <1>1, <1>2, <2>1 DEF StatementsTyped
<1>7. ASSUME Panic \/ MarkNothing \/ ReturnFromMark \/ ResolveDynJump \/ Finish \/ UNCHANGED vars
      PROVE  UNCHANGED statement
  BY <1>7 DEF Panic, MarkNothing, ReturnFromMark, ResolveDynJump, Finish, vars
<1> QED
  BY <1>2, <1>3, <1>4, <1>5, <1>6, <1>7 DEF Next

LEMMA WordsStayFollowed ==
    ASSUME Inv, [Next]_vars, Progress, Located, Located', TablesFollowed, NEW w \in Homes,
           Kind(w)' \in {"open", "number", "reference"}
    PROVE  Covered(w + 2)'
<1>1. StatementsTyped /\ w + 2 \in Int
  BY TypedSets DEF Inv
<1>2. CASE Kind(w) \in {"open", "number", "reference"}
  BY <1>1, <1>2, CoveredStays DEF TablesFollowed
<1>3. CASE Kind(w) = "byte"
  <2>1. WordDue(w)
    BY <1>3, NewWordWasDue
  <2> QED
    BY <1>1, <2>1, CoveredStays DEF TablesFollowed
<1>4. Kind(w) # "instruction"
  BY DEF Progress, Kind
<1> QED
  BY <1>1, <1>2, <1>3, <1>4, KindIs DEF Kinds

LEMMA DueWordsStayFollowed ==
    ASSUME Inv, [Next]_vars, Progress, Located, Located', TablesFollowed, NEW a \in Homes,
           WordDue(a)'
    PROVE  Covered(a + 2)'
<1>1. /\ Typed /\ banks \in 1 .. 2 /\ Homes' = Homes /\ a + 2 \in Int /\ None \notin Homes
      /\ \A x : HomeOf(x)' = HomeOf(x)
  BY TypedSets, SameHomes DEF Inv, Typed, Progress
<1>2. CASE WordDue(a)
  BY <1>1, <1>2, CoveredStays DEF TablesFollowed
<1>3. CASE ~WordDue(a)
  <2>1. /\ dynJumps # << >> /\ a = Elem(Last(dynJumps))
        /\ dynJumps' = Append(Front(dynJumps), Last(dynJumps) + 2)
    BY <1>3, NewWordDue
  <2>2. PICK last \in Int, front \in Seq(Int) :
           last = Last(dynJumps) /\ front = Front(dynJumps)
    BY <1>1, <2>1, DynJumpsAre
  <2>3. HomeOf(last) = a
    BY <1>1, <2>1, <2>2 DEF Located
  <2>4. CASE a + 2 \in Homes
    <3>1. HomeOf(last + 2) = a + 2
      BY <1>1, <2>3, <2>4, HomesAfter
    <3>2. /\ Len(dynJumps') \in 1 .. Len(dynJumps') /\ dynJumps'[Len(dynJumps')] = last + 2
      BY <2>1, <2>2
    <3> QED
      BY <1>1, <3>1, <3>2 DEF Covered, TableDue
  <2> QED
    BY <1>1, <2>4 DEF Covered
<1> QED
  BY <1>2, <1>3

LEMMA CallsStayFollowed ==
    ASSUME Inv, [Next]_vars, Progress, Located, Located', NEW h \in Homes,
           NEW a \in Int, HomeOf(a) = h, NEW after \in Int, after = a + 3, NEW v,
           TableOfCall(h, after, v)
    PROVE  TableOfCall(h, after, v)'
<1>1. /\ Typed /\ banks \in 1 .. 2 /\ Homes' = Homes /\ h + 3 \in Int
      /\ \A x : HomeOf(x)' = HomeOf(x)
      /\ \A x \in DOMAIN jumpTables : x \in DOMAIN jumpTables' /\ jumpTables'[x] = jumpTables[x]
  BY TypedSets, SameHomes DEF Inv, Typed, Progress
<1>2. CASE v \in DOMAIN jumpTables /\ (jumpTables[v] => Covered(h + 3))
  <2>1. Covered(h + 3) => Covered(h + 3)'
    BY <1>1, CoveredStays
  <2>2. v \in DOMAIN jumpTables' /\ jumpTables'[v] = jumpTables[v]
    BY <1>1, <1>2
  <2>3. jumpTables[v] => Covered(h + 3)'
    BY <1>2, <2>1
  <2>4. jumpTables'[v] => Covered(h + 3)'
    BY <2>2, <2>3
  <2> QED
    BY <2>2, <2>4 DEF TableOfCall
<1>3. CASE Due("return", after, v)'
  BY <1>3 DEF TableOfCall
<1>4. CASE Due("return", after, v) /\ ~Due("return", after, v)'
  <2>1. Top.op = "return" /\ Top.addr = after /\ Top.arg = v /\ work # << >>
    <3>1. Top.op = "return" /\ Top.addr = after /\ Top.arg = v
      BY <1>4, DueRemains
    <3>2. work # << >>
      BY <1>4 DEF Due
    <3> QED
      BY <3>1, <3>2
  <2>2. CASE ReturnFromMark
    <3> DEFINE isTable == IF Top.arg \in DOMAIN jumpTables
                          THEN jumpTables[Top.arg] ELSE IsDispatch(Top.arg)
    <3>1. /\ jumpTables' = Noted(jumpTables, Top.arg, isTable)
          /\ isTable => dynJumps' = Append(dynJumps, Top.addr)
      BY <2>2, Zenon DEF ReturnFromMark
    <3> HIDE DEF isTable
    <3>2. v \in DOMAIN jumpTables' /\ jumpTables'[v] = isTable
      BY <2>1, <3>1 DEF Noted
    <3>3. ASSUME dynJumps' = Append(dynJumps, after) PROVE Covered(h + 3)'
      <4>1. CASE h + 3 \in Homes
        <5>1. HomeOf(after) = h + 3
          BY <1>1, <4>1, HomesAfter
        <5>2. Len(dynJumps') \in 1 .. Len(dynJumps') /\ dynJumps'[Len(dynJumps')] = after
          BY <1>1, <3>3 DEF Typed
        <5> QED
          BY <1>1, <5>1, <5>2 DEF Covered, TableDue
      <4> QED
        BY <1>1, <4>1 DEF Covered
    <3>4. jumpTables'[v] => Covered(h + 3)'
      BY <2>1, <3>1, <3>2, <3>3, Zenon
    <3> QED
      BY <3>2, <3>4 DEF TableOfCall
  <2>3. ASSUME MarkNothing \/ MarkFails \/ (MarkInstruction /\ ~Panic) \/ MarkWord \/ LabelTheWord
        PROVE  FALSE
    BY <2>1, <2>3 DEF MarkNothing, MarkFails, MarkInstruction, Marking, MarkWord, LabelTheWord
  <2>4. ASSUME Panic \/ ResolveDynJump \/ Finish \/ UNCHANGED vars
        PROVE  FALSE
    <3>1. UNCHANGED work
      BY <2>1, <2>4 DEF Panic, ResolveDynJump, Finish, vars
    <3> QED
      BY <1>4, <3>1 DEF Due
  <2> QED
    BY <2>2, <2>3, <2>4 DEF Next
<1> QED
  BY <1>2, <1>3, <1>4 DEF TableOfCall

LEMMA TablesStayFollowed ==
    ASSUME Inv, Inv', [Next]_vars, Progress, Located, Located', TablesFollowed
    PROVE  TablesFollowed'
<1>1. Typed /\ Homes' = Homes /\ Homes \subseteq Int /\ StatementsTyped
  BY TypedSets, SameHomes DEF Inv, Progress
<1>2. \A w \in Homes : Kind(w)' \in {"open", "number", "reference"} => Covered(w + 2)'
  BY WordsStayFollowed
<1>3. \A a \in Homes : WordDue(a)' => Covered(a + 2)'
  BY DueWordsStayFollowed
<1>4. ASSUME NEW h \in Homes, Kind(h)' = "instruction", statement'[h].code = "jsr"
      PROVE  TableOfCall(h, statement[h].addr + 3, statement[h].value)'
  <2>1. CASE statement'[h] = statement[h]
    <3>1. Kind(h) = "instruction" /\ statement[h].code = "jsr"
      BY <1>4, <2>1 DEF Kind
    <3>2. PICK a, v : a \in Int /\ a = statement[h].addr /\ v = statement[h].value
      BY <1>1, <3>1, KindIs DEF Instruction
    <3>3. PICK after \in Int : after = a + 3
      BY <3>2
    <3>4. HomeOf(a) = h
      BY <3>1, <3>2 DEF Inv, AtHome
    <3>5. TableOfCall(h, after, v)
      BY <3>1, <3>2, <3>3 DEF TablesFollowed
    <3>6. TableOfCall(h, after, v)'
      BY <3>2, <3>3, <3>4, <3>5, CallsStayFollowed
    <3> QED
      BY <2>1, <3>2, <3>3, <3>6
  <2>2. CASE statement'[h] # statement[h]
    <3>1. CASE LabelTheWord /\ h = Top.arg
      <4>1. PICK r : /\ statement' = [statement EXCEPT ![h] = r]
                     /\ r.kind = "number" \/ r.kind = "reference"
        BY <3>1, LabelTheWordDoes
      <4> QED
        BY <1>1, <1>4, <4>1 DEF StatementsTyped, Kind
    <3>2. CASE \E c \in OpCodes : \E v, name : Decoded(Top.addr, h, c, v, name)
      <4>1. PICK c \in OpCodes : \E v, name : Decoded(Top.addr, h, c, v, name)
        BY <3>2
      <4>2. PICK v, name : Decoded(Top.addr, h, c, v, name)
        BY <4>1
      <4>3. PICK a : a = Top.addr
        OBVIOUS
      <4>4. PICK r : /\ r = [kind |-> "instruction", code |-> c, addr |-> a, value |-> v, label |-> name]
                     /\ statement' = [statement EXCEPT ![h] = r]
        BY <4>2, <4>3 DEF Decoded
      <4>5. statement'[h] = r
        BY <1>1, <4>4 DEF StatementsTyped
      <4>6. c = "jsr" /\ c \in DOMAIN Shape
        BY <1>4, <4>2, <4>4, <4>5 DEF Decoded
      <4>7. Shape[c].size = 3 /\ Leads(c, "return")
        <5>1. PICK next : next = Shape[c].next
          OBVIOUS
        <5>2. next = <<"target", "return">>
          BY <4>6, <5>1, ShapeFacts
        <5>3. 2 \in DOMAIN next /\ next[2] = "return"
          BY <5>2
        <5> QED
          BY <4>6, <5>1, <5>3, ShapeFacts DEF Leads
      <4>8. PICK after : after = a + Shape[c].size
        OBVIOUS
      <4>9. Due("return", after, v)'
        BY <4>2, <4>3, <4>7, <4>8, DecodedIsFollowed
      <4> QED
        BY <4>4, <4>5, <4>7, <4>8, <4>9 DEF TableOfCall
    <3> QED
      BY <1>4, <2>2, <3>1, <3>2, NewlyLabelled
  <2> QED
    BY <2>1, <2>2
<1> QED
  BY <1>1, <1>2, <1>3, <1>4 DEF TablesFollowed

LEMMA VectorsCovered == Init => TablesFollowed
<1> SUFFICES ASSUME Init PROVE TablesFollowed
  OBVIOUS
<1>1. \A h \in Homes : Kind(h) = "byte"
  BY DEF Init, Kind
<1>2. banks \in 1 .. 2 /\ work = [i \in 1 .. VectorCount |-> Word(Vectors[i])]
  BY DEF Init
<1>3. VectorCount \in Nat /\ End \in Nat /\ Homes = Start .. End - 1
  BY <1>2, Layout
<1>4. Len(work) = VectorCount /\ \A i \in 1 .. VectorCount : work[i] = Word(Vectors[i])
  BY <1>2, <1>3
<1>5. \A i \in 1 .. VectorCount : Vectors[i] = End - 2 * (VectorCount - i + 1)
  BY DEF Vectors
<1>6. ASSUME NEW a \in Homes, WordDue(a) PROVE Covered(a + 2)
  <2>1. PICK i \in 1 .. VectorCount : work[i].addr = a
    BY <1>4, <1>6 DEF WordDue, Due
  <2>2. a = Vectors[i]
    BY <1>4, <2>1 DEF Word
  <2>3. a = End - 2 * (VectorCount - i + 1)
    BY <1>5, <2>2
  <2>4. CASE i = VectorCount
    <3>1. a + 2 \notin Homes
      BY <1>3, <2>3, <2>4
    <3> QED
      BY <3>1 DEF Covered
  <2>5. CASE i # VectorCount
    <3>1. i + 1 \in 1 .. VectorCount
      BY <1>3, <2>5
    <3>2. a + 2 = Vectors[i + 1]
      <4>1. a \in Int /\ a + 2 = End - 2 * (VectorCount - (i + 1) + 1)
        BY <1>3, <2>3
      <4> QED
        BY <1>5, <3>1, <4>1
    <3>3. i + 1 \in 1 .. Len(work) /\ work[i + 1].op = "word" /\ work[i + 1].addr = a + 2
      BY <1>4, <3>1, <3>2 DEF Word
    <3>4. Due("word", a + 2, work[i + 1].arg)
      BY <3>3 DEF Due
    <3> QED
      BY <3>4 DEF Covered, WordDue
  <2> QED
    BY <2>4, <2>5
<1> QED
  BY <1>1, <1>6 DEF TablesFollowed

(* At the end, the bytes behind a table call or behind a word of the ROM    *)
(* are a word or no two bytes.                                              *)
LEMMA CoveredAtEnd ==
    ASSUME Typed, Located, work = << >>, dynJumps = << >>, NEW e \in Int, Start <= e, Covered(e),
           NEW x, x = Elem(e), ByteLike(x), LabelsBefore(x) = {}, NextByte(x) # None
    PROVE  Kind(x) \in {"number", "reference"}
<1>1. StatementsTyped /\ offsets \subseteq Homes /\ x # None /\ banks \in 1 .. 2
  BY TypedSets DEF ByteLike, Typed
<1>2. /\ Bank \in Nat \ {0} /\ End = 4 * Bank /\ Start \in Nat /\ Homes = Start .. End - 1
      /\ Start = (IF banks = 1 THEN 3 * Bank ELSE 2 * Bank)
  BY <1>1, Layout
<1>3. x = HomeOf(e) /\ x \in Homes
  BY <1>1 DEF Located
<1>4. x = e
  BY <1>1, <1>2, <1>3 DEF HomeOf
<1>5. ~WordDue(e) /\ ~TableDue(e)
  BY DEF WordDue, Due, TableDue
<1>6. Ended(x)
  BY <1>3, <1>4, <1>5 DEF Covered
<1>7. Kind(x) # "byte"
  BY <1>3, <1>6, PairNotEnded
<1> QED
  BY <1>3, <1>7, ByteLikeIs

(* No call of a jump table has words behind it and then two bytes that were *)
(* never tried as an entry: resolveDynJumpCases and the dynJumps of a jsr,  *)
(* whatever tables are found while others are read.                         *)
THEOREM TablesAlwaysExhausted == Spec => []TablesExhausted
<1>1. Inv => Located
  BY AllLocated DEF Inv
<1>2. Init => TablesFollowed
  BY VectorsCovered
<1>3. Inv /\ Located /\ TablesFollowed => TablesExhausted
  <2> DEFINE IsTableCall(h) ==
                /\ statement[h].kind = "instruction" /\ statement[h].code = "jsr"
                /\ statement[h].value \in DOMAIN jumpTables
                /\ jumpTables[statement[h].value]
             Entry(h, k) == Elem(h + 3 + 2 * k)
             IsWord(e) == e # None /\ statement[e].kind \in {"number", "reference"}
             IsPair(e) == ByteLike(e) /\ LabelsBefore(e) = {} /\ NextByte(e) # None
  <2> SUFFICES ASSUME Inv, Located, TablesFollowed, phase = "done",
                      NEW h \in list, NEW k \in 0 .. Cardinality(Homes),
                      IsTableCall(h), \A j \in 0 .. k - 1 : IsWord(Entry(h, j)),
                      IsPair(Entry(h, k))
               PROVE  IsWord(Entry(h, k))
    BY DEF TablesExhausted
  <2>1. /\ Typed /\ work = << >> /\ dynJumps = << >> /\ h \in Homes /\ StatementsTyped
        /\ banks \in 1 .. 2 /\ offsets \subseteq Homes /\ None \notin Homes
    BY TypedSets DEF Inv, DoneIsDone, Typed
  <2>2. /\ Bank \in Nat \ {0} /\ End = 4 * Bank /\ Start \in Nat /\ Homes = Start .. End - 1
        /\ Start = (IF banks = 1 THEN 3 * Bank ELSE 2 * Bank)
    BY <2>1, Layout
  <2>3. k \in Nat
    <3>1. PICK last \in Int : last = End - 1 /\ Homes = Start .. last
      BY <2>2
    <3>2. PICK first \in Int : first = Start
      BY <2>2
    <3>3. Cardinality(first .. last) = IF first > last THEN 0 ELSE last - first + 1
      BY FS_Interval
    <3>4. Cardinality(Homes) \in Nat
      BY <3>1, <3>2, <3>3
    <3> QED
      BY <3>4
  <2>4. PICK e \in Int : e = h + 3 + 2 * k
    BY <2>1, <2>2, <2>3
  <2>5. Start <= e
    BY <2>1, <2>2, <2>3, <2>4
  <2>6. Covered(e)
    <3>1. CASE k = 0
      <4>1. ~Due("return", statement[h].addr + 3, statement[h].value)
        BY <2>1 DEF Due
      <4>2. TableOfCall(h, statement[h].addr + 3, statement[h].value)
        BY <2>1 DEF TablesFollowed, Kind
      <4>3. Covered(h + 3)
        BY <4>1, <4>2 DEF TableOfCall
      <4>4. e = h + 3
        BY <2>1, <2>2, <2>4, <3>1
      <4> QED
        BY <4>3, <4>4
    <3>2. CASE k # 0
      <4>1. PICK j \in 0 .. k - 1 : j = k - 1
        BY <2>3, <3>2
      <4>2. PICK w \in Int : w = h + 3 + 2 * j /\ w + 2 = e /\ Start <= w
        <5>1. h \in Int /\ Start <= h /\ Start \in Int
          BY <2>1, <2>2
        <5>2. PICK w \in Int : w = h + 3 + 2 * j
          BY <5>1
        <5>3. w + 2 = e /\ Start <= w
          BY <2>3, <2>4, <4>1, <5>1, <5>2
        <5> QED
          BY <5>2, <5>3
      <4>3. Elem(w) # None /\ statement[Elem(w)].kind \in {"number", "reference"}
        BY <4>2
      <4>4. HomeOf(w) \in Homes /\ Elem(w) = HomeOf(w)
        BY <2>1, <4>3 DEF Located
      <4>5. Elem(w) = w /\ w \in Homes
        BY <2>1, <2>2, <4>2, <4>4 DEF HomeOf
      <4> QED
        BY <4>2, <4>3, <4>5 DEF TablesFollowed, Kind
    <3> QED
      BY <3>1, <3>2
  <2>7. PICK x : x = Elem(e)
    OBVIOUS
  <2>8. ByteLike(x) /\ LabelsBefore(x) = {} /\ NextByte(x) # None
    BY <2>4, <2>7
  <2>9. Kind(x) \in {"number", "reference"}
    BY <2>1, <2>5, <2>6, <2>7, <2>8, CoveredAtEnd
  <2> QED
    BY <2>4, <2>7, <2>8, <2>9 DEF Kind, ByteLike
<1>4. Inv /\ [Next]_vars => Progress
  BY NextProgress
<1>5. Inv /\ Inv' /\ [Next]_vars /\ Progress /\ Located /\ Located' /\ TablesFollowed => TablesFollowed'
  BY TablesStayFollowed
<1>6. Spec => []Inv
  BY AlwaysInv
<1> QED
  BY <1>1, <1>2, <1>3, <1>4, <1>5, <1>6, PTL DEF Spec

=============================================================================
