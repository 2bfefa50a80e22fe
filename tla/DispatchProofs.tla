--------------------------- MODULE DispatchProofs ---------------------------
(***************************************************************************)
(* Proofs about compiled ROMs: that the blocks are whole, that the PC       *)
(* register and compiled code agree, that what marking found is never       *)
(* interpreted, and that all of it does what a 6502 does.                   *)
(*                                                                          *)
(* The first half is about marking: what it leaves behind for compilation   *)
(* (MarkingInv).  After that the list and its labels stay, and the second   *)
(* half follows the program through them.  The last part is again about     *)
(* marking: what it leaves behind for the text (TextKept), which            *)
(* PackageProofs takes up.                                                  *)
(***************************************************************************)
EXTENDS Dispatch, DisassemblerProofs

(* The steps of marking, as far as compilation depends on them.             *)
LEMMA StepsAre ==
    ASSUME Inv, [Next]_vars
    PROVE  \/ UNCHANGED <<statement, list, offsets, labels>>
           \/ MarkFails
           \/ \E h \in offsets, c \in OpCodes : \E v, name : Decoded(Top.addr, h, c, v, name)
           \/ MarkWord /\ \E h \in offsets : \E v : ReadAsWord(Top.addr, h, v)
           \/ LabelTheWord
<1>1. Typed
  BY DEF Inv
<1>2. CASE MarkInstruction /\ ~Panic
  BY <1>1, <1>2, MarkInstructionDoes
<1>3. CASE MarkWord /\ ~Panic
  BY <1>1, <1>3, MarkWordDoes
<1>4. ASSUME Panic \/ MarkNothing \/ ReturnFromMark \/ ResolveDynJump \/ Finish \/ UNCHANGED vars
      PROVE  UNCHANGED <<statement, list, offsets, labels>>
  BY <1>4 DEF Panic, MarkNothing, ReturnFromMark, ResolveDynJump, Finish, vars
<1> QED
  BY <1>2, <1>3, <1>4 DEF Next

(* An address means a byte of the ROM just when it has a home there.        *)
LEMMA MirroredIs ==
    ASSUME banks \in 1 .. 2, NEW a \in Int
    PROVE  /\ HomeOf(a) \in Homes => Mirrored(a) = HomeOf(a)
           /\ Mirrored(a) \in Homes => HomeOf(a) = Mirrored(a)
           /\ HomeOf(a) # None <=> HomeOf(a) \in Homes
<1>1. banks = 1 => BankSize[1] = Bank
  BY DEF Bank
<1>2. /\ Bank \in Nat \ {0} /\ End = 4 * Bank /\ PrgStart = 2 * Bank
      /\ Start = (IF banks = 1 THEN 3 * Bank ELSE 2 * Bank) /\ Homes = Start .. End - 1
      /\ None \notin Homes
  BY Layout
<1>3. Mirrored(a) = IF banks = 1 /\ PrgStart <= a /\ a < Start THEN a + Bank ELSE a
  BY <1>1 DEF Mirrored
<1>4. HomeOf(a) = IF a \in Homes THEN a
                  ELSE IF banks = 1 /\ a + Bank \in Homes THEN a + Bank ELSE None
  BY DEF HomeOf
<1>5. \A x \in Int : x \in Homes <=> Start <= x /\ x < End
  BY <1>2
<1>6. CASE a \in Homes
  <2>1. Mirrored(a) = a
    BY <1>2, <1>3, <1>5, <1>6
  <2> QED
    BY <1>2, <1>4, <1>6, <2>1
<1>7. CASE a \notin Homes
  <2>1. CASE banks = 1
    <3>1. PrgStart <= a /\ a < Start <=> a + Bank \in Homes
      BY <1>2, <1>5, <2>1
    <3> QED
      BY <1>2, <1>3, <1>4, <1>7, <2>1, <3>1
  <2>2. CASE banks # 1
    BY <1>2, <1>3, <1>4, <1>7, <2>2
  <2> QED
    BY <2>1, <2>2
<1> QED
  BY <1>6, <1>7

-----------------------------------------------------------------------------
(* Labels and the names of operands.                                        *)

(* What a label is called says where it is.                                 *)
Names(n, x) ==
    \/ n < End /\ HomeOf(n) = x
    \/ /\ n >= End /\ n - End \in Homes /\ Kind(n - End) = "reference"
       /\ HomeOf(statement[n - End].value) = x

LabelsNamed == \A l \in labels : Names(l.name, l.home)

(* The label of an operand that becomes one, or why it has none.            *)
OperandNamed(h) ==
    LET i == statement[h]
        x == HomeOf(i.value)
    IN  IF i.label = None THEN x \notin list
        ELSE /\ x \in Homes /\ Names(i.label, x)
             /\ x \in list => \E l \in labels : l.name = i.label /\ l.home = x

TakesLabel(h) == IsCode(h) /\ Shape[statement[h].code].label # "none"

OperandsNamed == Overlaps \/ \A h \in Homes : TakesLabel(h) => OperandNamed(h)

LEMMA NamesOne ==
    ASSUME NEW n, NEW x, NEW y, Names(n, x), Names(n, y), banks \in 1 .. 2, n \in Int
    PROVE  x = y
<1>1. End \in Nat
  BY Layout
<1> QED
  BY <1>1 DEF Names

LEMMA NamesStay ==
    ASSUME Typed, Progress, NEW n, NEW x, Names(n, x)
    PROVE  Names(n, x)'
<1>1. /\ banks' = banks /\ Homes' = Homes /\ End' = End /\ \A a : HomeOf(a)' = HomeOf(a)
  BY SameHomes DEF Progress, End
<1>2. n - End \in Homes /\ Kind(n - End) = "reference" => statement'[n - End] = statement[n - End]
  BY DEF Progress
<1> QED
  BY <1>1, <1>2 DEF Names, Kind

LEMMA OverlapsStay == Progress /\ Overlaps => Overlaps'
BY DEF Progress, Overlaps

(* No label has the name that stands for none.                              *)
LEMMA NamesAreSome ==
    ASSUME banks \in 1 .. 2, NEW n, NEW x \in Homes, Names(n, x)
    PROVE  n # None
<1>1. End \in Nat /\ Bank \in Nat /\ \A a : a \in Homes <=> a \in Start .. End - 1
  BY Layout
<1>2. None \notin Homes /\ None < End
  BY <1>1, Layout DEF None
<1>3. banks = 1 => None + Bank \notin Homes
  BY Layout DEF None
<1>4. HomeOf(None) = None
  BY <1>2, <1>3 DEF HomeOf
<1>5. ~Names(None, x)
  <2>1. ~(None >= End) /\ x # None
    BY <1>1, <1>2 DEF None
  <2> QED
    BY <1>4, <2>1 DEF Names
<1> QED
  BY <1>5

(* A label in front of an element stands where the element does, unless     *)
(* code overlaps.                                                           *)
LEMMA LabelsStandAtHomes ==
    ASSUME Located, list \subseteq Int, \A l \in labels : l.home \in Int, NEW h,
           NEW l \in LabelsBefore(h)
    PROVE  l \in labels /\ h \in list /\ (l.home = h \/ Overlaps)
<1>1. h \in list /\ l \in labels /\ l.home <= h /\ \A p \in list : p < h => p < l.home
  BY DEF Located
<1>2. l.home \in Int /\ h \in Int
  BY <1>1
<1>3. l.home \in list => l.home = h
  BY <1>1, <1>2
<1> QED
  BY <1>1, <1>3 DEF Overlaps

(* A label of its own, or one that was there already: the operand that is   *)
(* given a label at v.                                                      *)
LEMMA LabelledOperand ==
    ASSUME Typed, Typed', Progress, Located, Located', LabelsNamed, NEW v \in Int,
           labels' = LabelsWith(v, v), NEW name, name = LabelName(v, v), NEW x, x = HomeOf(v)
    PROVE  \/ Overlaps
           \/ IF name = None THEN x \notin list'
              ELSE /\ x \in Homes /\ Names(name, x)'
                   /\ x \in list' => \E l \in labels' : l.name = name /\ l.home = x
<1>1. SUFFICES ASSUME ~Overlaps
               PROVE  IF name = None THEN x \notin list'
                      ELSE /\ x \in Homes /\ Names(name, x)'
                           /\ x \in list' => \E l \in labels' : l.name = name /\ l.home = x
  OBVIOUS
<1>2. /\ list \subseteq Int /\ list' \subseteq list /\ list \subseteq offsets
      /\ labels \subseteq labels' /\ banks \in 1 .. 2
      /\ \A l \in labels : l.home \in Int
  BY TypedSets DEF Progress, Typed, LabelsTyped
<1>3. Elem(v) = IF x \in offsets THEN x ELSE None
  BY DEF Located
<1>4. CASE x \notin offsets
  <2>1. name = None
    BY <1>3, <1>4 DEF LabelName
  <2> QED
    BY <1>2, <1>4, <2>1
<1>5. CASE x \in offsets
  <2>1. x \in Homes /\ x # None /\ Elem(v) = x
    BY <1>3, <1>5, TypedSets
  <2>2. CASE LabelsBefore(x) # {}
    <3>1. PICK l \in LabelsBefore(x) : l = LabelAt(x)
      BY <1>2, <2>2, LabelAtIs
    <3>2. name = l.name
      BY <2>1, <2>2, <3>1 DEF LabelName
    <3>3. l \in labels /\ l.home = x
      BY <1>1, <1>2, LabelsStandAtHomes
    <3>4. Names(name, x) /\ Names(name, x)'
      BY <3>2, <3>3, NamesStay DEF LabelsNamed
    <3> QED
      BY <1>2, <2>1, <3>2, <3>3, <3>4, NamesAreSome
  <2>3. CASE LabelsBefore(x) = {}
    <3>1. name = v
      BY <2>1, <2>3 DEF LabelName
    <3>2. Names(v, x)
      <4>1. Bank \in Nat \ {0} /\ End \in Nat /\ \A y \in Homes : y \in Int /\ y < End
        BY <1>2, Layout
      <4>2. v \in Homes \/ v + Bank \in Homes
        BY <2>1 DEF HomeOf
      <4>3. v < End
        BY <4>1, <4>2
      <4> QED
        BY <4>3 DEF Names
    <3>3. x \in list => [name |-> v, home |-> x] \in labels'
      BY <2>1, <2>3 DEF LabelsWith
    <3>4. x \in list' => \E l \in labels' : l.name = v /\ l.home = x
      BY <1>2, <3>3
    <3> QED
      BY <1>2, <2>1, <3>1, <3>2, <3>4, NamesStay, NamesAreSome
  <2> QED
    BY <2>2, <2>3
<1> QED
  BY <1>4, <1>5

(* A label that is new names where it is.                                   *)
LEMMA MadeLabelNamed ==
    ASSUME Typed, Typed', Progress, Located, LabelsNamed, NEW v, NEW name,
           labels' = LabelsWith(v, name), NEW e, e = Elem(v), e \in list => Names(name, e)'
    PROVE  LabelsNamed'
<1>1. SUFFICES ASSUME NEW l \in labels' PROVE Names(l.name, l.home)'
  BY DEF LabelsNamed
<1>2. CASE l \in labels
  BY <1>2, NamesStay DEF LabelsNamed
<1>3. CASE l \notin labels
  <2>1. e \in list /\ l = [name |-> name, home |-> e]
    BY <1>3 DEF LabelsWith
  <2>2. l.name = name /\ l.home = e
    BY <2>1
  <2> QED
    BY <2>1, <2>2
<1> QED
  BY <1>2, <1>3

(* An address below the ROM's end names its home.                           *)
LEMMA AddressNames ==
    ASSUME banks \in 1 .. 2, NEW v \in Int, HomeOf(v) \in Homes
    PROVE  v < End /\ Names(v, HomeOf(v))
<1>1. Bank \in Nat \ {0} /\ End \in Nat /\ None \notin Homes /\ \A y \in Homes : y \in Int /\ y < End
  <2>1. /\ Bank \in Nat \ {0} /\ End \in Nat /\ Start \in Nat
        /\ Homes = Start .. End - 1 /\ None \notin Homes
    BY Layout
  <2> QED
    BY <2>1
<1>2. v \in Homes \/ v + Bank \in Homes
  BY <1>1 DEF HomeOf
<1>3. v < End
  BY <1>1, <1>2
<1> QED
  BY <1>3 DEF Names

(* The name suggested for a vector's label is the vector's.                 *)
LEMMA LabelledWordNames ==
    ASSUME Inv, Inv', Progress, Located, LabelsNamed, LabelTheWord
    PROVE  LabelsNamed'
<1>1. Typed /\ Typed' /\ banks \in 1 .. 2 /\ list \subseteq offsets /\ offsets \subseteq Homes
  BY TypedSets DEF Inv, Typed
<1>2. PICK a, w : a = Top.addr /\ w = Top.arg
  OBVIOUS
<1>3. PICK e : e = Elem(a)
  OBVIOUS
<1>4. a \in Int
  BY <1>1, <1>2, TopTyped DEF LabelTheWord, Call
<1>5. PICK name \in Int, found \in Int, r \in DataWord :
         /\ name = SuggestedName(w, a) /\ labels' = LabelsWith(a, name)
         /\ found = LabelName(a, name)
         /\ r.kind = (IF found = None THEN "number" ELSE "reference")
         /\ r.value = a /\ r.label = found /\ w \in Homes
         /\ statement' = [statement EXCEPT ![w] = r]
  BY <1>2, LabelTheWordDoes
<1>6. statement'[w] = r /\ banks' = banks /\ Homes' = Homes /\ End' = End
      /\ \A x : HomeOf(x)' = HomeOf(x)
  BY <1>1, <1>5, TypedSets, SameHomes DEF StatementsTyped, Progress, End
<1>7. ASSUME e \in list PROVE Names(name, e)'
  <2>1. e \in Homes /\ e # None
    BY <1>1, <1>7, TypedSets
  <2>2. e = HomeOf(a)
    BY <1>3, <1>4, <2>1 DEF Located
  <2>3. a < End /\ Names(a, e)
    BY <1>1, <1>4, <2>1, <2>2, AddressNames
  <2>4. CASE name = a
    BY <1>1, <2>3, <2>4, NamesStay
  <2>5. CASE name = End + w
    <3>1. name >= End /\ name - End = w
      <4>1. End \in Nat /\ w \in Nat
        BY <1>1, <1>5, TypedSets, Layout
      <4> QED
        BY <2>5, <4>1
    <3>2. found # None
      <4>1. CASE LabelsBefore(e) # {}
        <5>1. PICK l \in labels : l = LabelAt(e)
          BY <1>1, <4>1, LabelAtIs DEF Located
        <5>2. Names(l.name, l.home) /\ l.home \in Homes
          BY <1>1, <5>1 DEF LabelsNamed, Typed, LabelsTyped
        <5>3. l.name # None
          BY <1>1, <5>2, NamesAreSome
        <5> QED
          BY <1>3, <1>5, <2>1, <4>1, <5>1, <5>3 DEF LabelName
      <4>2. CASE LabelsBefore(e) = {}
        BY <1>1, <1>3, <1>5, <2>1, <3>1, <4>2, Layout DEF LabelName, None
      <4> QED
        BY <4>1, <4>2
    <3> QED
      BY <1>5, <1>6, <2>2, <3>1, <3>2 DEF Names, Kind
  <2> QED
    BY <1>5, <2>4, <2>5 DEF SuggestedName
<1> QED
  BY <1>1, <1>3, <1>5, <1>7, MadeLabelNamed

LEMMA LabelsStayNamed ==
    ASSUME Inv, Inv', [Next]_vars, Progress, Located, Located', LabelsNamed
    PROVE  LabelsNamed'
<1>1. Typed /\ Typed' /\ banks \in 1 .. 2 /\ list \subseteq offsets /\ offsets \subseteq Homes
  BY TypedSets DEF Inv, Typed
<1>2. CASE labels' = labels
  BY <1>1, <1>2, NamesStay DEF LabelsNamed
<1>3. CASE \E h \in offsets, c \in OpCodes : \E v, name : Decoded(Top.addr, h, c, v, name)
  <2>1. PICK h \in offsets, c \in OpCodes : \E v, name : Decoded(Top.addr, h, c, v, name)
    BY <1>3
  <2>2. PICK v, name : Decoded(Top.addr, h, c, v, name)
    BY <2>1
  <2>3. v \in Int /\ (labels' = labels \/ labels' = LabelsWith(v, v))
    BY <2>2 DEF Decoded
  <2>4. PICK e : e = Elem(v)
    OBVIOUS
  <2>5. ASSUME e \in list PROVE Names(v, e)'
    <3>1. e \in Homes /\ e # None
      BY <1>1, <2>5, TypedSets
    <3>2. e = HomeOf(v)
      BY <2>3, <2>4, <3>1 DEF Located
    <3>3. Names(v, e)
      BY <1>1, <2>3, <3>1, <3>2, AddressNames
    <3> QED
      BY <1>1, <3>3, NamesStay
  <2> QED
    BY <1>1, <1>2, <2>3, <2>4, <2>5, MadeLabelNamed
<1>4. CASE LabelTheWord
  BY <1>1, <1>4, LabelledWordNames
<1> QED
  BY <1>1, <1>2, <1>3, <1>4, StepsAre, MarkFailsDoes DEF ReadAsWord

LEMMA OperandStaysNamed ==
    ASSUME Typed, Progress, NEW h \in Homes, statement'[h] = statement[h], OperandNamed(h)
    PROVE  OperandNamed(h)'
<1> DEFINE x == HomeOf(statement[h].value)
<1>1. x' = x /\ Homes' = Homes /\ list' \subseteq list /\ labels \subseteq labels'
  BY SameHomes DEF Progress
<1>2. PICK name : name = statement[h].label
  OBVIOUS
<1>3. PICK y : y = x
  OBVIOUS
<1>4. Names(name, y) => Names(name, y)'
  BY NamesStay
<1> QED
  BY <1>1, <1>2, <1>3, <1>4 DEF OperandNamed

LEMMA OperandsStayNamed ==
    ASSUME Inv, Inv', [Next]_vars, Progress, Located, Located', LabelsNamed, OperandsNamed
    PROVE  OperandsNamed'
<1>1. SUFFICES ASSUME ~Overlaps, NEW h \in Homes, TakesLabel(h)' PROVE OperandNamed(h)'
  BY OverlapsStay, SameHomes DEF OperandsNamed, Progress
<1>2. Typed /\ Typed'
  BY DEF Inv
<1>3. CASE statement'[h] = statement[h]
  BY <1>1, <1>2, <1>3, OperandStaysNamed DEF OperandsNamed, TakesLabel, IsCode
<1>4. CASE statement'[h] # statement[h]
  <2>1. statement'[h].kind = "instruction"
    BY <1>1 DEF TakesLabel, IsCode
  <2>2. ~ LabelTheWord \/ h # Top.arg
    BY <1>2, <2>1, LabelTheWordDoes, TypedSets DEF StatementsTyped, None
  <2>3. PICK c, v, name : c \in OpCodes /\ Decoded(Top.addr, h, c, v, name)
    BY <1>4, <2>1, <2>2, NewlyLabelled DEF Kind
  <2>4. /\ statement'[h].code = c /\ statement'[h].value = v /\ statement'[h].label = name
        /\ v \in Int
    BY <1>2, <2>3, TypedSets DEF Decoded, StatementsTyped
  <2>5. Shape[c].label # "none"
    BY <1>1, <2>4 DEF TakesLabel
  <2>6. name = LabelName(v, v) /\ labels' = LabelsWith(v, v)
    BY <2>3, <2>5 DEF Decoded
  <2>7. PICK x : x = HomeOf(v)
    OBVIOUS
  <2>8. IF name = None THEN x \notin list'
        ELSE /\ x \in Homes /\ Names(name, x)'
             /\ x \in list' => \E l \in labels' : l.name = name /\ l.home = x
    BY <1>1, <1>2, <2>4, <2>6, <2>7, LabelledOperand
  <2>9. HomeOf(statement[h].value)' = x /\ Homes' = Homes
    BY <2>4, <2>7, SameHomes DEF Progress
  <2> QED
    BY <2>4, <2>8, <2>9 DEF OperandNamed
<1> QED
  BY <1>3, <1>4

-----------------------------------------------------------------------------
(* How code is reached.                                                     *)

(* Code in the list from which execution, or the return of a call, goes on  *)
(* at h.                                                                    *)
GoesOn(c) == Leads(c, "after") \/ c = "jsr"

LeadsOnTo(p, h) ==
    p \in list /\ IsCode(p) /\ GoesOn(statement[p].code) /\ HomeOf(Behind(p)) = h

LabelDue(h) == \E a, w : Due("label", a, w) /\ HomeOf(a) = h

Reached(h) ==
    \/ DecodedTwice
    \/ LabelsBefore(h) # {}
    \/ LabelDue(h)
    \/ \E p \in Homes : LeadsOnTo(p, h)

CodeReached == \A h \in list : IsCode(h) => Reached(h)

MarksReached ==
    \A a, w : Due("mark", a, w) /\ HomeOf(a) \in list => Reached(HomeOf(a))

ReturnsReached ==
    \A a, v : Due("return", a, v) => DecodedTwice \/ \E p \in Homes : LeadsOnTo(p, HomeOf(a))

(* A word that is being marked is marked for what it says.                  *)
MarksOfWords ==
    \A a, w : Due("mark", a, w) /\ w # None => AwaitsItsLabel(w, a)

AllReached == CodeReached /\ MarksReached /\ ReturnsReached /\ MarksOfWords

LEMMA DecodedTwiceStays == Typed /\ Progress /\ DecodedTwice => DecodedTwice'
<1>1. SUFFICES ASSUME Typed, Progress, NEW h \in Homes, h \notin list, IsCode(h) PROVE DecodedTwice'
  BY DEF DecodedTwice
<1>2. h \in Homes' /\ h \notin list' /\ statement'[h] = statement[h]
  BY <1>1, SameHomes DEF Progress, IsCode, Kind
<1> QED
  BY <1>1, <1>2 DEF DecodedTwice, IsCode

LEMMA LeadsOnStays ==
    ASSUME Typed, Progress, NEW p \in Homes, NEW h, LeadsOnTo(p, h)
    PROVE  LeadsOnTo(p, h)'
<1>1. p \in list /\ Kind(p) = "instruction"
  BY DEF LeadsOnTo, IsCode, Kind
<1>2. p \in list' /\ statement'[p] = statement[p]
  <2>1. ~ByteLike(p)
    BY <1>1 DEF ByteLike, Kind
  <2> QED
    BY <1>1, <2>1 DEF Progress
<1>3. \A a : HomeOf(a)' = HomeOf(a)
  BY SameHomes DEF Progress
<1>4. Behind(p)' = Behind(p)
  BY <1>2 DEF Behind, Size
<1> QED
  BY <1>2, <1>3, <1>4 DEF LeadsOnTo, IsCode

(* A label that is due is made, or the word it was for is left a number     *)
(* because the bytes it leads to are no code.                               *)
LEMMA LabelDueStays ==
    ASSUME Inv, Inv', [Next]_vars, Progress, Located, Located', MarksOfWords,
           NEW h \in list', LabelDue(h)
    PROVE  \/ LabelDue(h)' \/ LabelsBefore(h)' # {}
           \/ MarkFails /\ Top.arg # None /\ HomeOf(Top.addr) = h
<1>1. PICK a, w : Due("label", a, w) /\ HomeOf(a) = h
  BY DEF LabelDue
<1>2. Typed /\ Typed' /\ WorkInOrder /\ HomeOf(a)' = h
  BY <1>1, SameHomes DEF Inv, Progress
<1>3. CASE Due("label", a, w)'
  BY <1>2, <1>3 DEF LabelDue
<1>4. CASE MarkFails /\ w = Top.arg /\ Top.arg # None
  <2>1. work # << >> /\ Top.op = "mark" /\ Top = work[1] /\ 1 \in 1 .. Len(work)
    <3>1. work # << >> /\ Top.op = "mark"
      BY <1>4, MarkFailsDoes
    <3> QED
      BY <1>2, <3>1, StackPop DEF Typed, Top
  <2>2. Due("mark", Top.addr, w)
    BY <1>4, <2>1 DEF Due
  <2>3. statement[w].value = Top.addr
    BY <1>4, <2>2 DEF MarksOfWords, AwaitsItsLabel
  <2>4. statement[w].value = a
    BY <1>1, <1>2 DEF Due, WorkInOrder, LabelsAwaited, AwaitsItsLabel
  <2> QED
    BY <1>1, <1>4, <2>3, <2>4
<1>5. CASE ~Due("label", a, w)' /\ Top.op = "label" /\ Top.addr = a /\ Top.arg = w
  <2>1. LabelTheWord
    <3>1. work # << >>
      BY <1>1 DEF Due
    <3>2. ASSUME Panic \/ ResolveDynJump \/ Finish \/ UNCHANGED vars PROVE UNCHANGED work
      BY <3>1, <3>2 DEF Panic, ResolveDynJump, Finish, vars
    <3>3. UNCHANGED work => Due("label", a, w)'
      BY <1>1 DEF Due
    <3>4. ASSUME MarkNothing \/ MarkFails \/ MarkInstruction \/ ReturnFromMark \/ MarkWord
          PROVE  Top.op # "label"
      BY <3>4 DEF MarkNothing, MarkFails, MarkInstruction, ReturnFromMark, MarkWord, Marking
    <3> QED
      BY <1>5, <3>2, <3>3, <3>4 DEF Next
  <2>2. PICK name \in Int : labels' = LabelsWith(a, name)
    BY <1>5, <2>1, LabelTheWordDoes
  <2>3. a \in Int
    BY <1>1, <1>2, TopTyped, <1>5 DEF Due, Call
  <2> QED
    BY <1>1, <1>2, <2>2, <2>3, MadeLabelFound
<1> QED
  BY <1>1, <1>3, <1>4, <1>5, DueRemains

LEMMA ReachedStays ==
    ASSUME Inv, Inv', [Next]_vars, Progress, Located, Located', MarksOfWords,
           NEW h \in list', Reached(h)
    PROVE  Reached(h)' \/ (MarkFails /\ Top.arg # None /\ HomeOf(Top.addr) = h)
<1>1. Typed /\ Homes' = Homes
  BY SameHomes DEF Inv, Progress
<1>2. CASE LabelsBefore(h) # {}
  <2>1. LabelsBefore(h)' # {}
    BY <1>1, <1>2, LabelsStay
  <2> QED
    BY <2>1 DEF Reached
<1>3. CASE \E p \in Homes : LeadsOnTo(p, h)
  BY <1>1, <1>3, LeadsOnStays DEF Reached
<1> QED
  BY <1>1, <1>2, <1>3, DecodedTwiceStays, LabelDueStays DEF Reached

(* When a word is left a number, nothing but words is to come.              *)
LEMMA OnlyWordsAfterFailure ==
    ASSUME Inv, MarkFails, Top.arg # None
    PROVE  \A i \in 1 .. Len(work') : work'[i].op = "word"
<1>1. Typed /\ WorkInOrder /\ work # << >> /\ Top.op = "mark"
  BY MarkFailsDoes DEF Inv
<1>2. /\ work \in Seq(Call) /\ Len(work) \in Nat \ {0} /\ Top = work[1]
      /\ Rest \in Seq(Call) /\ Len(Rest) = Len(work) - 1
      /\ \A i \in 1 .. Len(work) - 1 : Rest[i] = work[i + 1]
  <2>1. work \in Seq(Call)
    BY <1>1 DEF Typed
  <2> QED
    BY <1>1, <2>1, StackPop DEF Top, Rest
<1>3. 1 + 1 \in 1 .. Len(work) /\ work[1 + 1].op = "label"
  <2>1. 1 \in 1 .. Len(work) /\ work[1].op = "mark" /\ work[1].arg # None
    BY <1>1, <1>2
  <2> QED
    BY <1>1, <2>1 DEF WorkInOrder, MarkedForWord
<1>4. Rest # << >> /\ work' = Tail(Rest)
  BY <1>2, <1>3 DEF MarkFails
<1>5. Len(work') = Len(Rest) - 1 /\ \A i \in 1 .. Len(Rest) - 1 : work'[i] = Rest[i + 1]
  BY <1>2, <1>4, StackPop
<1>6. SUFFICES ASSUME NEW i \in 1 .. Len(work') PROVE work'[i].op = "word"
  OBVIOUS
<1>7. i \in 1 .. Len(Rest) - 1 /\ i + 1 \in 1 .. Len(work) - 1 /\ i + 2 \in 1 .. Len(work)
      /\ (i + 1) + 1 = i + 2 /\ 1 + 1 < i + 2
  BY <1>2, <1>5
<1>8. work'[i] = work[i + 2]
  BY <1>2, <1>5, <1>7
<1> QED
  BY <1>1, <1>3, <1>7, <1>8 DEF WorkInOrder, Ordered

LEMMA OnlyCallsReturn ==
    ASSUME NEW c \in DOMAIN Shape
    PROVE  Leads(c, "return") <=> c = "jsr"
BY DEF Shape, Leads

(* What is pushed when an instruction is decoded.                           *)
ArisesFrom(op, a, w, h, c, v) ==
    \/ op = "mark" /\ w = None /\ Leads(c, "after") /\ a = Top.addr + Shape[c].size
    \/ op = "mark" /\ w = None /\ Leads(c, "target") /\ a = v
    \/ op = "return" /\ c = "jsr" /\ a = Top.addr + 3

LEMMA CallsOfDecoded ==
    ASSUME NEW c \in DOMAIN Shape, NEW v, NEW h, NEW t, t = Top.addr,
           NEW i \in 1 .. Len(Calls(c, t, v)), NEW m, m = Calls(c, t, v)[i]
    PROVE  m.op \in {"mark", "return"} /\ ArisesFrom(m.op, m.addr, m.arg, h, c, v)
<1>1. PICK after : after = t + Shape[c].size
  OBVIOUS
<1>2. /\ Mark(after, None).op = "mark" /\ Mark(after, None).addr = after /\ Mark(after, None).arg = None
      /\ Mark(v, None).op = "mark" /\ Mark(v, None).addr = v /\ Mark(v, None).arg = None
      /\ Return(after, v).op = "return" /\ Return(after, v).addr = after
  BY DEF Mark, Return
<1>3. CASE Shape[c].next = << >> /\ Calls(c, t, v) = << >>
  BY <1>3
<1>4. CASE Shape[c].next = <<"after">> /\ Calls(c, t, v) = <<Mark(after, None)>>
  <2>1. m = Mark(after, None)
    BY <1>4
  <2>2. Leads(c, "after")
    BY <1>4 DEF Leads
  <2> QED
    BY <1>1, <1>2, <2>1, <2>2 DEF ArisesFrom
<1>5. CASE Shape[c].next = <<"target">> /\ Calls(c, t, v) = <<Mark(v, None)>>
  <2>1. m = Mark(v, None)
    BY <1>5
  <2>2. Leads(c, "target")
    BY <1>5 DEF Leads
  <2> QED
    BY <1>1, <1>2, <2>1, <2>2 DEF ArisesFrom
<1>6. CASE /\ Shape[c].next = <<"after", "target">>
           /\ Calls(c, t, v) = <<Mark(after, None), Mark(v, None)>>
  <2>1. m = Mark(after, None) \/ m = Mark(v, None)
    BY <1>6
  <2>2. Leads(c, "target") /\ Leads(c, "after")
    BY <1>6 DEF Leads
  <2> QED
    BY <1>1, <1>2, <2>1, <2>2 DEF ArisesFrom
<1>7. CASE /\ Shape[c].next = <<"target", "return">>
           /\ Calls(c, t, v) = <<Mark(v, None), Return(after, v)>>
  <2>1. m = Mark(v, None) \/ m = Return(after, v)
    BY <1>7
  <2>2. Leads(c, "target") /\ Leads(c, "return")
    BY <1>7 DEF Leads
  <2>3. c = "jsr" /\ Shape[c].size = 3
    BY <2>2, OnlyCallsReturn, ShapeFacts
  <2> QED
    BY <1>1, <1>2, <2>1, <2>2, <2>3 DEF ArisesFrom
<1> QED
  BY <1>1, <1>3, <1>4, <1>5, <1>6, <1>7, CallsAre

(* Where the calls that mark come from.                                     *)
LEMMA MarksArise ==
    ASSUME Inv, [Next]_vars, NEW op, op \in {"mark", "return"}, NEW a, NEW w, Due(op, a, w)'
    PROVE  \/ Due(op, a, w) /\ ~(MarkFails /\ Top.arg # None)
           \/ op = "mark" /\ w = None /\ \E v : Due("return", a, v)
           \/ \E h \in offsets, c \in OpCodes : \E v, name :
                 Decoded(Top.addr, h, c, v, name) /\ ArisesFrom(op, a, w, h, c, v)
           \/ /\ op = "mark" /\ MarkWord /\ a >= PrgStart /\ w \in offsets
              /\ ReadAsWord(Top.addr, w, a) /\ Due("label", a, w)'
<1>1. Typed /\ WorkInOrder
  BY DEF Inv
<1>2. PICK i \in 1 .. Len(work') : work'[i].op = op /\ work'[i].addr = a /\ work'[i].arg = w
  BY DEF Due
<1>3. ASSUME NEW j \in 1 .. Len(work), work'[i] = work[j] PROVE Due(op, a, w)
  BY <1>2, <1>3 DEF Due
<1>4. CASE UNCHANGED work /\ ~MarkFails
  BY <1>2, <1>3, <1>4
<1>5. CASE MarkFails /\ Top.arg # None
  BY <1>2, <1>5, OnlyWordsAfterFailure
<1>6. ASSUME work # << >>, work' = Rest, ~(MarkFails /\ Top.arg # None) PROVE Due(op, a, w) /\ ~(MarkFails /\ Top.arg # None)
  <2>1. /\ work \in Seq(Call) /\ Len(work) \in Nat \ {0}
        /\ Len(Rest) = Len(work) - 1 /\ \A j \in 1 .. Len(work) - 1 : Rest[j] = work[j + 1]
    <3>1. work \in Seq(Call)
      BY <1>1 DEF Typed
    <3> QED
      BY <1>6, <3>1, StackPop DEF Rest
  <2>2. i + 1 \in 1 .. Len(work) /\ work'[i] = work[i + 1]
    BY <1>6, <2>1
  <2> QED
    BY <1>3, <1>6, <2>2
<1>7. CASE work # << >> /\ MarkFails /\ Top.arg = None
  BY <1>6, <1>7 DEF MarkFails
<1>8. CASE work # << >> /\ ReturnFromMark
  <2>1. PICK p, t : /\ p \in Seq(Call) /\ work' = p \o Rest /\ t = Top.addr /\ t \in Int
                    /\ p = << >> \/ p = <<Mark(t, None)>>
    <3>1. Top.addr \in Int
      BY <1>1, <1>8, TopTyped DEF Call
    <3>2. PICK t \in Int : t = Top.addr
      BY <3>1
    <3>3. Mark(t, None) \in Call
      BY <3>2 DEF Mark, Call, None
    <3>4. PICK m \in Call : m = Mark(t, None)
      BY <3>3
    <3>5. work' = Rest \/ work' = <<m>> \o Rest
      BY <1>8, <3>2, <3>4, Zenon DEF ReturnFromMark
    <3>6. << >> \in Seq(Call) /\ <<m>> \in Seq(Call) /\ << >> \o Rest = Rest
      BY <1>1, <1>8, TopTyped
    <3> QED
      BY <3>2, <3>4, <3>5, <3>6
  <2>2. CASE \E j \in 1 .. Len(p) : work'[i] = p[j]
    <3>1. work'[i] = Mark(t, None)
      BY <2>1, <2>2
    <3>2. op = "mark" /\ a = t /\ w = None
      BY <1>2, <3>1 DEF Mark
    <3>3. Due("return", t, Top.arg)
      <4>1. work \in Seq(Call) /\ Top = work[1] /\ 1 \in 1 .. Len(work)
        <5>1. work \in Seq(Call)
          BY <1>1 DEF Typed
        <5> QED
          BY <1>8, <5>1, StackPop DEF Top
      <4> QED
        BY <1>8, <2>1, <4>1 DEF Due, ReturnFromMark
    <3> QED
      BY <3>2, <3>3
  <2>3. ~MarkFails
    BY <1>8 DEF MarkFails, ReturnFromMark, Marking
  <2> QED
    BY <1>1, <1>3, <1>8, <2>1, <2>2, <2>3, NewCall
<1>9. CASE \E h \in offsets, c \in OpCodes : \E v, name : Decoded(Top.addr, h, c, v, name)
  <2>1. PICK h \in offsets, c \in OpCodes : \E v, name : Decoded(Top.addr, h, c, v, name)
    BY <1>9
  <2>2. PICK v, name : Decoded(Top.addr, h, c, v, name)
    BY <2>1
  <2>3. PICK t : t = Top.addr
    OBVIOUS
  <2>4. c \in DOMAIN Shape /\ v \in Int /\ work # << >> /\ t \in Int
    BY <1>1, <2>2, <2>3, TopTyped DEF Decoded, Call
  <2>5. PICK p \in Seq(Call) : p = Calls(c, t, v) /\ work' = p \o Rest
    BY <2>2, <2>3, <2>4, PushedAre DEF Decoded
  <2>6. CASE \E j \in 1 .. Len(p) : work'[i] = p[j]
    <3>1. PICK j \in 1 .. Len(p) : work'[i] = p[j]
      BY <2>6
    <3>2. ArisesFrom(op, a, w, h, c, v)
      BY <1>2, <2>3, <2>4, <2>5, <3>1, CallsOfDecoded
    <3> QED
      BY <2>2, <3>2
  <2>7. CASE \E j \in 1 .. Len(work) : work'[i] = work[j]
    BY <1>3, <1>5, <2>7
  <2> QED
    BY <1>1, <2>4, <2>5, <2>6, <2>7, NewCall
<1>10. CASE MarkWord /\ work # << >> /\ \E h \in offsets : \E v : ReadAsWord(Top.addr, h, v)
  <2>1. PICK h \in offsets : \E v : ReadAsWord(Top.addr, h, v)
    BY <1>10
  <2>2. PICK v : ReadAsWord(Top.addr, h, v)
    BY <2>1
  <2>3. v \in Int /\ h \in Int
    BY <1>1, <2>2, TypedSets DEF ReadAsWord
  <2>4. ~MarkFails
    BY <1>10 DEF MarkFails, MarkWord, Marking
  <2>5. CASE v < PrgStart
    BY <1>6, <1>10, <2>2, <2>4, <2>5 DEF ReadAsWord
  <2>6. CASE ~(v < PrgStart)
    <3>1. PICK m \in Call, l \in Call :
             /\ m = Mark(v, h) /\ l = LabelWord(v, h)
             /\ l.op = "label" /\ l.addr = v /\ l.arg = h
             /\ m.op = "mark" /\ m.addr = v /\ m.arg = h
      <4>1. Mark(v, h) \in Call /\ LabelWord(v, h) \in Call
        BY <2>3 DEF Mark, LabelWord, Call
      <4>2. /\ LabelWord(v, h).op = "label" /\ LabelWord(v, h).addr = v /\ LabelWord(v, h).arg = h
            /\ Mark(v, h).op = "mark" /\ Mark(v, h).addr = v /\ Mark(v, h).arg = h
        BY DEF Mark, LabelWord
      <4> QED
        BY <4>1, <4>2
    <3>2. PICK p \in Seq(Call) : p = <<m, l>> /\ Len(p) = 2 /\ p[1] = m /\ p[2] = l
      <4>1. <<m, l>> \in Seq(Call) /\ Len(<<m, l>>) = 2 /\ <<m, l>>[1] = m /\ <<m, l>>[2] = l
        OBVIOUS
      <4> QED
        BY <4>1
    <3>3. work' = p \o Rest
      BY <2>2, <2>6, <3>1, <3>2 DEF ReadAsWord
    <3>4. CASE \E j \in 1 .. Len(p) : work'[i] = p[j]
      <4>1. work'[i] = m
        BY <1>2, <3>1, <3>2, <3>4
      <4>2. a = v /\ w = h /\ op = "mark"
        BY <1>2, <3>1, <4>1
      <4>3. 2 \in 1 .. Len(p)
        BY <3>2
      <4>4. Due("label", v, h)'
        BY <1>1, <1>10, <3>1, <3>2, <3>3, <4>3, DueStays
      <4>5. v >= PrgStart
        <5>1. banks \in 1 .. 2
          BY <1>1 DEF Typed
        <5>2. PrgStart \in Nat
          BY <5>1, Layout
        <5> QED
          BY <2>3, <2>6, <5>2
      <4> QED
        BY <1>10, <2>2, <4>2, <4>4, <4>5
    <3> QED
      BY <1>1, <1>3, <1>10, <2>4, <3>3, <3>4, NewCall
  <2> QED
    BY <2>5, <2>6
<1>11. CASE work = << >>
  <2>1. ASSUME work' # << >> PROVE op = "word"
    <3>1. UNCHANGED work \/ ResolveDynJump
      BY <1>11, DueStays DEF Next, MarkNothing, Marking, MarkFails, MarkInstruction, ReturnFromMark,
             MarkWord, LabelTheWord, Finish, vars
    <3>2. ResolveDynJump
      BY <1>11, <2>1, <3>1
    <3>3. PICK h : work' = <<Word(h)>>
      BY <1>11, <2>1, <3>2 DEF ResolveDynJump
    <3> QED
      BY <1>2, <3>3 DEF Word
  <2>2. work' # << >>
    BY <1>2
  <2> QED
    BY <2>1, <2>2
<1>12. ASSUME work # << >>, MarkNothing \/ LabelTheWord PROVE work' = Rest /\ ~MarkFails
  BY <1>12 DEF MarkNothing, LabelTheWord, MarkFails, Marking
<1>13. ASSUME work # << >>, Panic \/ ResolveDynJump \/ Finish \/ UNCHANGED vars
       PROVE  UNCHANGED work
  BY <1>13 DEF Panic, ResolveDynJump, Finish, vars
<1>14. CASE work # << >> /\ UNCHANGED work
  BY <1>2, <1>3, <1>5, <1>14
<1>15. ASSUME MarkInstruction, ~Panic
       PROVE  \E h \in offsets, c \in OpCodes : \E v, name : Decoded(Top.addr, h, c, v, name)
  BY <1>1, <1>15, MarkInstructionDoes
<1>16. ASSUME MarkWord, ~Panic
       PROVE  \E h \in offsets : \E v : ReadAsWord(Top.addr, h, v)
  BY <1>1, <1>16, MarkWordDoes
<1> QED
  BY <1>5, <1>6, <1>7, <1>8, <1>9, <1>10, <1>11, <1>12, <1>13, <1>14, <1>15, <1>16 DEF Next

(* A word that is being marked changes when its marking ends.               *)
LEMMA OpenWordStays ==
    ASSUME Inv, [Next]_vars, ~(MarkFails /\ Top.arg # None), ~LabelTheWord,
           NEW w \in Homes, Kind(w) = "open"
    PROVE  statement'[w] = statement[w]
<1>1. Typed /\ DOMAIN statement = Homes /\ offsets \subseteq Homes
  BY TypedSets DEF Inv, StatementsTyped
<1>2. CASE MarkFails
  BY <1>2 DEF MarkFails
<1>3. CASE \E h \in offsets, c \in OpCodes : \E v, name : Decoded(Top.addr, h, c, v, name)
  <2>1. PICK h, r : ByteLike(h) /\ statement' = [statement EXCEPT ![h] = r]
    BY <1>3 DEF Decoded
  <2>2. h # w
    BY <2>1 DEF ByteLike, Kind
  <2> QED
    BY <1>1, <2>1, <2>2
<1>4. CASE \E h \in offsets : \E v : ReadAsWord(Top.addr, h, v)
  <2>1. PICK h \in offsets : \E v : ReadAsWord(Top.addr, h, v)
    BY <1>4
  <2>2. PICK r : ByteLike(h) /\ statement' = [statement EXCEPT ![h] = r]
    BY <2>1 DEF ReadAsWord
  <2>3. h # w
    BY <2>2 DEF ByteLike, Kind
  <2> QED
    BY <1>1, <2>2, <2>3
<1> QED
  BY <1>2, <1>3, <1>4, StepsAre

(* While something is to be marked, no word is at its label.                *)
LEMMA NothingMarkedAtLabel ==
    ASSUME Inv, LabelTheWord, NEW a, NEW w
    PROVE  ~Due("mark", a, w)
<1>1. SUFFICES ASSUME NEW i \in 1 .. Len(work), work[i].op = "mark" PROVE FALSE
  BY DEF Due
<1>2. work \in Seq(Call) /\ work # << >> /\ Top.op = "label" /\ WorkInOrder
  BY DEF Inv, Typed, LabelTheWord
<1>3. Top = work[1] /\ 1 \in 1 .. Len(work) /\ Len(work) \in Nat
  BY <1>2, StackPop DEF Top
<1>4. i # 1 => 1 < i
  BY <1>3
<1> QED
  BY <1>1, <1>2, <1>3, <1>4 DEF WorkInOrder, Ordered

LEMMA MarksOfWordsStay ==
    ASSUME Inv, Inv', [Next]_vars, Progress, MarksOfWords
    PROVE  MarksOfWords'
<1>1. SUFFICES ASSUME NEW a, NEW w, Due("mark", a, w)', w # None
               PROVE  AwaitsItsLabel(w, a)'
  BY DEF MarksOfWords
<1>2. Typed /\ Homes' = Homes /\ DOMAIN statement = Homes /\ offsets \subseteq Homes
  BY TypedSets, SameHomes DEF Inv, Progress, StatementsTyped
<1>3. CASE Due("mark", a, w) /\ ~(MarkFails /\ Top.arg # None)
  <2>1. AwaitsItsLabel(w, a)
    BY <1>1, <1>3 DEF MarksOfWords
  <2>2. statement'[w] = statement[w]
    BY <1>3, <2>1, OpenWordStays, NothingMarkedAtLabel DEF AwaitsItsLabel
  <2> QED
    BY <1>2, <2>1, <2>2 DEF AwaitsItsLabel, Kind
<1>4. CASE w \in offsets /\ a >= PrgStart /\ ReadAsWord(Top.addr, w, a)
  <2>1. ~(a < PrgStart)
    BY <1>2, <1>4, Layout DEF ReadAsWord, Typed
  <2>2. statement'[w] = [kind |-> "open", value |-> a, label |-> None]
    BY <1>2, <1>4, <2>1 DEF ReadAsWord
  <2> QED
    BY <1>2, <1>4, <2>2 DEF AwaitsItsLabel, Kind
<1> QED
  BY <1>1, <1>3, <1>4, MarksArise DEF ArisesFrom

LEMMA TargetsAreLabelled ==
    ASSUME NEW c \in DOMAIN Shape, Leads(c, "target")
    PROVE  Shape[c].label # "none"
BY DEF Shape, Leads

(* An instruction just decoded leads on, or is an operand as well.          *)
LEMMA DecodedLeadsOn ==
    ASSUME Inv, Inv', Progress, NEW h \in offsets, NEW c \in OpCodes, NEW v, NEW name,
           Decoded(Top.addr, h, c, v, name), GoesOn(c), NEW a, a = Top.addr + Shape[c].size,
           NEW x, x = HomeOf(a)
    PROVE  DecodedTwice' \/ LeadsOnTo(h, x)'
<1>1. DOMAIN statement = Homes /\ offsets \subseteq Homes /\ Homes' = Homes /\ HomeOf(a)' = x
  BY TypedSets, SameHomes DEF Inv, Progress, StatementsTyped
<1>2. statement'[h].kind = "instruction" /\ statement'[h].code = c /\ statement'[h].addr = Top.addr
  BY <1>1 DEF Decoded
<1>3. Behind(h)' = a
  BY <1>2 DEF Behind, Size
<1> QED
  BY <1>1, <1>2, <1>3 DEF DecodedTwice, LeadsOnTo, IsCode

LEMMA MarksStayReached ==
    ASSUME Inv, Inv', [Next]_vars, Progress, Located, Located', AllReached
    PROVE  MarksReached' /\ ReturnsReached'
<1>1. Typed /\ Typed' /\ Homes' = Homes /\ list' \subseteq list /\ \A y : HomeOf(y)' = HomeOf(y)
  BY SameHomes DEF Inv, Progress
<1>2. ASSUME NEW a, NEW v, Due("return", a, v), NEW x, x = HomeOf(a)
      PROVE  DecodedTwice' \/ \E p \in Homes : LeadsOnTo(p, x)'
  BY <1>1, <1>2, DecodedTwiceStays, LeadsOnStays DEF AllReached, ReturnsReached
<1>3. ASSUME NEW h \in offsets, NEW c \in OpCodes, NEW v, NEW name, NEW a,
             Decoded(Top.addr, h, c, v, name), GoesOn(c), a = Top.addr + Shape[c].size,
             NEW x, x = HomeOf(a)
      PROVE  DecodedTwice' \/ \E p \in Homes : LeadsOnTo(p, x)'
  BY <1>1, <1>3, DecodedLeadsOn, TypedSets
<1>4. ASSUME NEW a, NEW w, Due("mark", a, w)', HomeOf(a) \in list'
      PROVE  Reached(HomeOf(a))'
  <2>1. PICK x \in list' : x = HomeOf(a)
    BY <1>4
  <2>2. (DecodedTwice' \/ \E p \in Homes : LeadsOnTo(p, x)') => Reached(x)'
    BY <1>1 DEF Reached
  <2>3. CASE Due("mark", a, w) /\ ~(MarkFails /\ Top.arg # None)
    <3>1. Reached(x)
      BY <1>1, <2>1, <2>3 DEF AllReached, MarksReached
    <3>2. Reached(x)'
      BY <2>1, <2>3, <3>1, ReachedStays DEF AllReached
    <3> QED
      BY <1>1, <2>1, <3>2
  <2>4. CASE \E v : Due("return", a, v)
    BY <1>1, <1>2, <2>1, <2>2, <2>4
  <2>5. CASE \E h \in offsets, c \in OpCodes : \E v, name :
                Decoded(Top.addr, h, c, v, name) /\ ArisesFrom("mark", a, w, h, c, v)
    <3>1. PICK h \in offsets, c \in OpCodes : \E v, name :
                Decoded(Top.addr, h, c, v, name) /\ ArisesFrom("mark", a, w, h, c, v)
      BY <2>5
    <3>2. PICK v, name : Decoded(Top.addr, h, c, v, name) /\ ArisesFrom("mark", a, w, h, c, v)
      BY <3>1
    <3>3. CASE Leads(c, "after") /\ a = Top.addr + Shape[c].size
      <4>1. GoesOn(c)
        BY <3>3 DEF GoesOn
      <4> QED
        BY <1>1, <1>3, <2>1, <2>2, <3>2, <3>3, <4>1
    <3>4. CASE Leads(c, "target") /\ a = v
      <4>1. v \in Int /\ labels' = LabelsWith(v, v)
        BY <3>2, <3>4, TargetsAreLabelled DEF Decoded
      <4>2. LabelsBefore(x)' # {}
        BY <1>1, <2>1, <3>4, <4>1, MadeLabelFound
      <4> QED
        BY <1>1, <2>1, <4>2 DEF Reached
    <3> QED
      BY <3>2, <3>3, <3>4 DEF ArisesFrom
  <2>6. CASE Due("label", a, w)'
    <3>1. LabelDue(x)'
      BY <1>1, <2>1, <2>6 DEF LabelDue
    <3> QED
      BY <1>1, <2>1, <3>1 DEF Reached
  <2> QED
    BY <1>4, <2>3, <2>4, <2>5, <2>6, MarksArise
<1>5. ASSUME NEW a, NEW w, Due("return", a, w)'
      PROVE  DecodedTwice' \/ \E p \in Homes : LeadsOnTo(p, HomeOf(a))'
  <2>1. PICK x : x = HomeOf(a)
    OBVIOUS
  <2>2. CASE Due("return", a, w)
    BY <1>1, <1>2, <2>1, <2>2
  <2>3. CASE \E h \in offsets, c \in OpCodes : \E v, name :
                Decoded(Top.addr, h, c, v, name) /\ ArisesFrom("return", a, w, h, c, v)
    <3>1. PICK h \in offsets, c \in OpCodes : \E v, name :
                Decoded(Top.addr, h, c, v, name) /\ ArisesFrom("return", a, w, h, c, v)
      BY <2>3
    <3>2. PICK v, name : Decoded(Top.addr, h, c, v, name) /\ ArisesFrom("return", a, w, h, c, v)
      BY <3>1
    <3>3. GoesOn(c) /\ a = Top.addr + Shape[c].size
      BY <3>2, ShapeFacts DEF ArisesFrom, Decoded, GoesOn
    <3> QED
      BY <1>1, <1>3, <2>1, <3>2, <3>3
  <2> QED
    BY <1>5, <2>2, <2>3, MarksArise
<1> QED
  BY <1>1, <1>4, <1>5 DEF MarksReached, ReturnsReached

(* Only marking makes instructions.                                         *)
LEMMA NewCodeIsMarked ==
    ASSUME Inv, [Next]_vars, NEW h \in Homes, Kind(h) # "instruction", Kind(h)' = "instruction"
    PROVE  MarkInstruction
<1>1. Typed /\ DOMAIN statement = Homes
  BY TypedSets DEF Inv, StatementsTyped
<1>2. ~MarkFails
  BY <1>1, MarkFailsDoes DEF Kind
<1>3. ~LabelTheWord
  <2>1. SUFFICES ASSUME LabelTheWord PROVE FALSE
    OBVIOUS
  <2>2. PICK w, r : statement' = [statement EXCEPT ![w] = r] /\ r.kind \in {"number", "reference"}
    BY <2>1, LabelTheWordDoes
  <2> QED
    BY <1>1, <2>2 DEF Kind
<1>4. ~MarkWord
  <2>1. SUFFICES ASSUME MarkWord, ~Panic PROVE FALSE
    BY DEF Panic, Kind
  <2>2. PICK x \in offsets : \E v : ReadAsWord(Top.addr, x, v)
    BY <1>1, <2>1, MarkWordDoes
  <2>3. PICK v : ReadAsWord(Top.addr, x, v)
    BY <2>2
  <2>4. PICK k : k \in {"number", "open"} /\ k = IF v < PrgStart THEN "number" ELSE "open"
    OBVIOUS
  <2>5. PICK r : r = [kind |-> k, value |-> v, label |-> None]
    OBVIOUS
  <2>6. statement' = [statement EXCEPT ![x] = r]
    BY <2>3, <2>4, <2>5 DEF ReadAsWord
  <2> QED
    BY <1>1, <2>4, <2>5, <2>6 DEF Kind
<1>5. ASSUME Panic \/ MarkNothing \/ ReturnFromMark \/ ResolveDynJump \/ Finish \/ UNCHANGED vars
      PROVE  UNCHANGED statement
  BY <1>5 DEF Panic, MarkNothing, ReturnFromMark, ResolveDynJump, Finish, vars
<1> QED
  BY <1>2, <1>3, <1>4, <1>5 DEF Next, Kind

LEMMA CodeStaysReached ==
    ASSUME Inv, Inv', [Next]_vars, Progress, Located, Located', AllReached
    PROVE  CodeReached'
<1>1. SUFFICES ASSUME NEW h \in list', IsCode(h)' PROVE Reached(h)'
  BY DEF CodeReached
<1>2. /\ Typed /\ list' \subseteq list /\ list \subseteq Homes /\ None \notin Homes
      /\ DOMAIN statement = Homes
  BY TypedSets DEF Inv, Progress, StatementsTyped
<1>3. ASSUME MarkFails PROVE HomeOf(Top.addr) # h \/ Kind(h) # "instruction"
  <2>1. ByteLike(Elem(Top.addr)) /\ Elem(Top.addr) # None
    BY <1>3 DEF MarkFails, Decodable, ByteLike
  <2>2. Top.addr \in Int
    BY <1>2, <1>3, MarkFailsDoes, TopTyped DEF Call
  <2>3. Elem(Top.addr) = HomeOf(Top.addr)
    BY <2>1, <2>2 DEF Located
  <2> QED
    BY <2>1, <2>3 DEF ByteLike, Kind
<1>4. CASE IsCode(h)
  <2>1. Reached(h)
    BY <1>2, <1>4 DEF AllReached, CodeReached
  <2> QED
    BY <1>3, <1>4, <2>1, ReachedStays DEF AllReached, IsCode, Kind
<1>5. CASE ~IsCode(h)
  <2>1. h \in Homes /\ statement'[h] # statement[h] /\ Kind(h)' = "instruction"
    BY <1>1, <1>2, <1>5 DEF IsCode, Kind
  <2>2. ~ LabelTheWord \/ h # Top.arg
    BY <1>2, <2>1, LabelTheWordDoes DEF Kind, None
  <2>3. PICK c, v, name : c \in OpCodes /\ Decoded(Top.addr, h, c, v, name)
    BY <2>1, <2>2, NewlyLabelled
  <2>4. ~MarkFails
    BY <1>2, <2>1, MarkFailsDoes
  <2>5. work # << >> /\ Top.op = "mark"
    BY <1>5, <2>1, NewCodeIsMarked DEF MarkInstruction, Marking, IsCode, Kind
  <2>6. Due("mark", Top.addr, Top.arg)
    <3>1. work \in Seq(Call)
      BY <1>2 DEF Typed
    <3>2. Top = work[1] /\ 1 \in 1 .. Len(work)
      BY <2>5, <3>1, StackPop DEF Top
    <3> QED
      BY <2>5, <3>2 DEF Due
  <2>7. h = HomeOf(Top.addr)
    BY <1>2, <2>1, <2>3, <2>5, TopTyped DEF Decoded, Located, Call
  <2>8. Reached(h)
    BY <1>2, <2>6, <2>7 DEF AllReached, MarksReached
  <2> QED
    BY <2>4, <2>8, ReachedStays DEF AllReached
<1> QED
  BY <1>4, <1>5

(* What compilation builds on.                                              *)
LEMMA AllStayReached ==
    ASSUME Inv, Inv', [Next]_vars, Progress, Located, Located', AllReached
    PROVE  AllReached'
<1>1. MarksOfWords
  BY DEF AllReached
<1> QED
  BY <1>1, CodeStaysReached, MarksStayReached, MarksOfWordsStay DEF AllReached

-----------------------------------------------------------------------------
(* The end of the ROM.                                                      *)

(* Instructions end inside the ROM, and after the last vector has been read *)
(* none of several bytes ends with the ROM: its last byte is the vector's.  *)
CodeInRom == \A h \in Homes : IsCode(h) => h + Size(h) - 1 \in Homes

LastByteTaken ==
    /\ End - 1 \notin offsets
    /\ \A h \in list : IsCode(h) /\ Size(h) > 1 => h + Size(h) # End

LastByteKept == WordDue(End - 2) \/ LastByteTaken

LEMMA LastVector ==
    ASSUME banks \in 1 .. 2
    PROVE  /\ VectorCount \in Nat \ {0} /\ End \in Nat
           /\ End - 2 \in Homes /\ End - 1 \in Homes /\ Vectors[VectorCount] = End - 2
<1>1. VectorCount \in Nat \ {0}
  BY DisassemblerAssumption, DispatchAssumption
<1>2. VectorCount \in 1 .. VectorCount
  BY <1>1
<1>3. Vectors[VectorCount] = End - 2 * (VectorCount - VectorCount + 1) /\ Vectors[VectorCount] \in Homes
  BY <1>2, VectorsInRom
<1>4. VectorCount - VectorCount + 1 = 1
  BY <1>1
<1> QED
  BY <1>1, <1>3, <1>4, Layout

LEMMA CodeIs ==
    ASSUME Typed, NEW h \in Homes, IsCode(h)
    PROVE  /\ statement[h] \in Instruction /\ statement[h].code \in DOMAIN Shape
           /\ Size(h) = Shape[statement[h].code].size /\ Size(h) \in 1 .. 3 /\ Behind(h) \in Int
           /\ Behind(h) = statement[h].addr + Size(h) /\ statement[h].addr \in Int
           /\ statement[h].value \in Int
<1>1. Kind(h) = "instruction" /\ StatementsTyped
  BY DEF IsCode, Kind, Typed
<1>2. statement[h] \in Instruction
  BY <1>1, KindIs
<1>3. Size(h) = Shape[statement[h].code].size /\ Size(h) \in 1 .. 3
  BY <1>1, SizeIs
<1> QED
  BY <1>2, <1>3 DEF Instruction, Behind

LEMMA CodeStaysInRom ==
    ASSUME Inv, Inv', [Next]_vars, Progress, CodeInRom
    PROVE  CodeInRom'
<1>1. SUFFICES ASSUME NEW h \in Homes, IsCode(h)' PROVE (h + Size(h) - 1)' \in Homes
  BY SameHomes DEF CodeInRom, Progress
<1>2. Typed /\ DOMAIN statement = Homes /\ offsets \subseteq Homes /\ Homes \subseteq Int
  BY TypedSets DEF Inv, StatementsTyped
<1>3. CASE statement'[h] = statement[h]
  BY <1>1, <1>3 DEF CodeInRom, IsCode, Size
<1>4. CASE statement'[h] # statement[h]
  <2>1. ~ LabelTheWord \/ h # Top.arg
    BY <1>1, <1>2, LabelTheWordDoes DEF IsCode, None
  <2>2. PICK c, v, name : c \in OpCodes /\ Decoded(Top.addr, h, c, v, name)
    BY <1>1, <1>4, <2>1, NewlyLabelled DEF IsCode, Kind
  <2>3. statement'[h].kind = "instruction" /\ statement'[h].code = c /\ c \in DOMAIN Shape
    BY <1>2, <2>2 DEF Decoded
  <2>4. PICK n \in 1 .. 3 : n = Shape[c].size
    BY <2>3, ShapeFacts
  <2>5. Size(h)' = n
    BY <2>3, <2>4 DEF Size
  <2>6. \A e \in h + 1 .. h + n - 1 : e \in offsets
    BY <2>2, <2>4 DEF Decoded, Took, Leaves
  <2>7. n = 1 \/ h + n - 1 \in h + 1 .. h + n - 1
    BY <1>2, <2>4
  <2>8. h + n - 1 \in Homes
    BY <1>2, <2>6, <2>7
  <2> QED
    BY <2>5, <2>8
<1> QED
  BY <1>3, <1>4

LEMMA LastByteStaysTaken ==
    ASSUME Inv, Inv', [Next]_vars, Progress, LastByteTaken
    PROVE  LastByteTaken'
<1>1. /\ Typed /\ DOMAIN statement = Homes /\ Homes \subseteq Int /\ list \subseteq Homes
      /\ list' \subseteq list /\ offsets' \subseteq offsets /\ End' = End /\ banks \in 1 .. 2
  BY TypedSets DEF Inv, StatementsTyped, Progress, End, Typed
<1>2. SUFFICES ASSUME NEW h \in list', IsCode(h)', Size(h)' > 1 PROVE h + Size(h)' # End
  BY <1>1 DEF LastByteTaken
<1>3. CASE statement'[h] = statement[h]
  BY <1>1, <1>2, <1>3 DEF LastByteTaken, IsCode, Size
<1>4. CASE statement'[h] # statement[h]
  <2>1. ~ LabelTheWord \/ h # Top.arg
    BY <1>1, <1>2, LabelTheWordDoes DEF IsCode, None
  <2>2. PICK c, v, name : c \in OpCodes /\ Decoded(Top.addr, h, c, v, name)
    BY <1>1, <1>2, <1>4, <2>1, NewlyLabelled DEF IsCode, Kind
  <2>3. statement'[h].kind = "instruction" /\ statement'[h].code = c /\ c \in DOMAIN Shape
    BY <1>1, <2>2 DEF Decoded
  <2>4. PICK n \in 1 .. 3 : n = Shape[c].size
    BY <2>3, ShapeFacts
  <2>5. Size(h)' = n /\ n > 1
    BY <1>2, <2>3, <2>4 DEF Size
  <2>6. \A e \in h + 1 .. h + n - 1 : e \in offsets
    BY <2>2, <2>4 DEF Decoded, Took, Leaves
  <2>7. h + n - 1 \in h + 1 .. h + n - 1
    BY <1>1, <2>4, <2>5
  <2>8. h + n - 1 # End - 1
    BY <2>6, <2>7 DEF LastByteTaken
  <2>9. h + n # End
    <3>1. h \in Int /\ End \in Nat
      BY <1>1, LastVector
    <3> QED
      BY <2>4, <2>8, <3>1
  <2> QED
    BY <1>1, <2>5, <2>9
<1> QED
  BY <1>3, <1>4

LEMMA LastByteStaysKept ==
    ASSUME Inv, Inv', [Next]_vars, Progress, Located, NoOverlap, LastByteKept
    PROVE  LastByteKept'
<1>1. /\ Typed /\ DOMAIN statement = Homes /\ Homes \subseteq Int /\ list \subseteq Homes
      /\ list' \subseteq list /\ End' = End /\ banks \in 1 .. 2 /\ None \notin Homes
  BY TypedSets DEF Inv, StatementsTyped, Progress, End, Typed
<1>2. PICK w : w = End - 2 /\ w \in Homes /\ w + 1 = End - 1 /\ w + 2 = End
               /\ (\A x \in Homes : x > w => x = w + 1) /\ (End - 2)' = w
  <2>1. PICK e \in Nat : e = End
    BY <1>1, LastVector
  <2>2. e - 2 \in Homes /\ \A x \in Homes : x \in Int /\ x < e
    BY <1>1, <2>1, LastVector, Layout
  <2>3. (End - 2)' = e - 2
    BY <1>1, <2>1
  <2> QED
    BY <2>1, <2>2, <2>3
<1>3. CASE LastByteTaken
  BY <1>3, LastByteStaysTaken DEF LastByteKept
<1>4. CASE WordDue(w) /\ WordDue(w)'
  BY <1>2, <1>4 DEF LastByteKept
<1>5. CASE WordDue(w) /\ ~WordDue(w)'
  <2>1. work # << >> /\ Top.op = "word" /\ Top.addr = w
    <3>1. PICK arg : Due("word", w, arg) /\ ~Due("word", w, arg)'
      BY <1>5 DEF WordDue
    <3>2. work # << >>
      BY <3>1 DEF Due
    <3> QED
      BY <3>1, <3>2, DueRemains
  <2>2. MarkWord /\ ~Panic
    <3>1. ~UNCHANGED work
      BY <1>5 DEF WordDue, Due
    <3>2. ASSUME Panic \/ ResolveDynJump \/ Finish \/ UNCHANGED vars PROVE UNCHANGED work
      BY <2>1, <3>2 DEF Panic, ResolveDynJump, Finish, vars
    <3>3. ASSUME MarkNothing \/ MarkFails \/ MarkInstruction \/ ReturnFromMark \/ LabelTheWord
          PROVE  Top.op # "word"
      BY <3>3 DEF MarkNothing, MarkFails, MarkInstruction, ReturnFromMark, LabelTheWord, Marking
    <3> QED
      BY <2>1, <3>1, <3>2, <3>3 DEF Next
  <2>3. Elem(w) = w
    <3>1. HomeOf(w) = w /\ w \in Int
      BY <1>1, <1>2 DEF HomeOf
    <3>2. Elem(w) # None
      BY <2>1, <2>2 DEF MarkWord, ByteLike
    <3> QED
      BY <3>1, <3>2 DEF Located
  <2>4. NextByte(w) # None /\ offsets' \subseteq offsets \ {w + 1}
    <3>1. OperandRemoved(w, 2).offsets = offsets \ {w + 1}
      BY DEF OperandRemoved, RemoveElemAt
    <3>2. /\ NextByte(Elem(Top.addr)) # None
          /\ offsets' = OperandRemoved(Top.addr, 2).offsets
      BY <2>2 DEF MarkWord
    <3> QED
      BY <2>1, <2>3, <3>1, <3>2
  <2>5. w + 1 \in list
    BY <1>1, <1>2, <2>4, NextByteIs
  <2>6. ASSUME NEW h \in list', IsCode(h)', Size(h)' > 1 PROVE h + Size(h)' # End
    <3>1. ~MarkInstruction
      BY <2>2 DEF MarkInstruction, Marking, MarkWord
    <3>2. statement'[h] = statement[h]
      BY <1>1, <2>6, <3>1, NewCodeIsMarked DEF IsCode, Kind, Progress
    <3>3. IsCode(h) /\ Size(h) = Size(h)' /\ Size(h) \in 1 .. 3
      BY <1>1, <2>6, <3>2, CodeIs DEF IsCode, Size
    <3>4. CASE h + Size(h) = End
      <4>1. Size(h) - 1 \in 1 .. 2 /\ Size(h) - 1 < Size(h) /\ h + (Size(h) - 1) = w + 1
        BY <1>1, <1>2, <2>6, <3>3, <3>4
      <4> QED
        BY <1>1, <2>5, <2>6, <4>1 DEF NoOverlap
    <3> QED
      BY <3>3, <3>4
  <2>7. LastByteTaken'
    BY <1>1, <1>2, <2>4, <2>6 DEF LastByteTaken
  <2> QED
    BY <2>7 DEF LastByteKept
<1> QED
  BY <1>2, <1>3, <1>4, <1>5 DEF LastByteKept

-----------------------------------------------------------------------------
(* What marking keeps for compilation.                                      *)
MarkingInv ==
    /\ Inv /\ NoOverlap /\ LabelsNamed /\ OperandsNamed /\ AllReached
    /\ CodeInRom /\ LastByteKept

LEMMA InitMarking ==
    ASSUME Init
    PROVE  MarkingInv
<1>1. Inv /\ banks \in 1 .. 2 /\ labels = {} /\ list = Homes
  BY InitInv DEF Init
<1>2. \A h \in Homes : statement[h] = [kind |-> "byte"]
  BY DEF Init
<1>3. \A h \in Homes : ~IsCode(h) /\ Size(h) = 1
  BY <1>2 DEF IsCode, Size
<1>4. NoOverlap /\ LabelsNamed /\ OperandsNamed /\ CodeReached /\ CodeInRom
  <2>1. \A h \in Homes : ~(1 < Size(h)) /\ ~(2 < Size(h))
    BY <1>3
  <2> QED
    BY <1>1, <1>3, <2>1
       DEF NoOverlap, LabelsNamed, OperandsNamed, TakesLabel, CodeReached, CodeInRom
<1>5. /\ VectorCount \in Nat \ {0} /\ Vectors[VectorCount] = End - 2
      /\ Len(work) = VectorCount
      /\ \A i \in 1 .. Len(work) : work[i] = Word(Vectors[i])
  BY <1>1, LastVector DEF Init
<1>6. \A i \in 1 .. Len(work) : work[i].op = "word" /\ work[i].addr = Vectors[i]
  BY <1>5 DEF Word
<1>7. MarksReached /\ ReturnsReached /\ MarksOfWords
  BY <1>6 DEF MarksReached, ReturnsReached, MarksOfWords, Due
<1>8. VectorCount \in 1 .. Len(work)
  BY <1>5
<1>9. LastByteKept
  BY <1>5, <1>6, <1>8 DEF LastByteKept, WordDue, Due
<1> QED
  BY <1>1, <1>4, <1>7, <1>9 DEF MarkingInv, AllReached

LEMMA MarkingStays ==
    ASSUME MarkingInv, [Next]_vars, Located, Located'
    PROVE  MarkingInv'
<1>1. Inv /\ NoOverlap /\ LabelsNamed /\ OperandsNamed /\ AllReached /\ CodeInRom /\ LastByteKept
  BY DEF MarkingInv
<1>2. Inv' /\ Progress /\ NoOverlap'
  BY <1>1, NextKeeps, InvUnchanged, NextProgress, NextKeepsBytes
<1>3. LabelsNamed'
  BY <1>1, <1>2, LabelsStayNamed
<1>4. OperandsNamed'
  BY <1>1, <1>2, OperandsStayNamed
<1>5. AllReached'
  BY <1>1, <1>2, AllStayReached
<1>6. CodeInRom'
  BY <1>1, <1>2, CodeStaysInRom
<1>7. LastByteKept'
  BY <1>1, <1>2, LastByteStaysKept
<1> QED
  BY <1>2, <1>3, <1>4, <1>5, <1>6, <1>7 DEF MarkingInv

(* addLabelsAfterJsrs makes nothing but labels.                             *)
LEMMA ReturnLabelsAre ==
    ASSUME Inv, Located, NEW l \in ReturnLabels
    PROVE  /\ l \in [name : Int, home : Homes]
           /\ l \in labels \/ Names(l.name, l.home)
<1>1. PICK h \in Callers : l \in LabelsWith(Behind(h), Behind(h))
  BY DEF ReturnLabels
<1>2. h \in list /\ IsCode(h)
  BY <1>1 DEF Callers, Code
<1>3. Typed /\ h \in Homes /\ Behind(h) \in Int
  BY <1>2, CodeIs, TypedSets DEF Inv
<1>4. PICK a \in Int : a = Behind(h)
  BY <1>3
<1>5. l \in [name : Int, home : Homes]
  BY <1>1, <1>3, <1>4, LabelsWithTyped
<1>6. ASSUME l \notin labels PROVE Names(l.name, l.home)
  <2>1. PICK e \in list : e = Elem(a) /\ l = [name |-> a, home |-> e]
    BY <1>1, <1>4, <1>6 DEF LabelsWith
  <2>2. e \in Homes /\ e # None
    BY <1>3, TypedSets
  <2>3. e = HomeOf(a)
    BY <2>1, <2>2 DEF Located
  <2>4. Names(a, e)
    BY <1>3, <2>2, <2>3, AddressNames DEF Typed
  <2> QED
    BY <2>1, <2>4
<1> QED
  BY <1>5, <1>6

LEMMA ReturnsKeepInv ==
    ASSUME Inv, AddLabelsAfterJsrs, Located
    PROVE  Inv' /\ Progress
<1>1. labels' = labels \cup ReturnLabels /\ UNCHANGED markVars /\ Typed
  BY DEF AddLabelsAfterJsrs, Inv
<1>2. UNCHANGED <<banks, opcode, statement, list, offsets, work, dynJumps, jumpTables, phase>>
  BY <1>1 DEF markVars
<1>3. Homes' = Homes /\ \A a : HomeOf(a)' = HomeOf(a)
  BY <1>2, SameHomes
<1>4. LabelsTyped'
  BY <1>1, <1>3, ReturnLabelsAre DEF Typed, LabelsTyped
<1>5. Typed'
  BY <1>1, <1>2, <1>3, <1>4 DEF Typed, OpCodesTyped, StatementsTyped, ElementsTyped
<1>6. WorkInOrder'
  <2>1. Ordered' /\ MarkedForWord'
    BY <1>2 DEF Inv, WorkInOrder, Ordered, MarkedForWord
  <2>2. LabelsAwaited'
    BY <1>2, <1>3 DEF Inv, WorkInOrder, LabelsAwaited, AwaitsItsLabel, Kind
  <2>3. WordsInRom' /\ OpenAwaited'
    BY <1>2, <1>3 DEF Inv, WorkInOrder, WordsInRom, OpenAwaited, Kind
  <2> QED
    BY <2>1, <2>2, <2>3 DEF WorkInOrder
<1>7. AtHome' /\ DoneIsDone'
  BY <1>2, <1>3 DEF Inv, AtHome, DoneIsDone, Kind
<1>8. Progress
  BY <1>1, <1>2 DEF Progress
<1> QED
  BY <1>5, <1>6, <1>7, <1>8 DEF Inv

LEMMA ReturnsKeepMarking ==
    ASSUME MarkingInv, AddLabelsAfterJsrs, Located, Located'
    PROVE  MarkingInv'
<1>1. /\ Inv /\ NoOverlap /\ LabelsNamed /\ OperandsNamed /\ AllReached /\ CodeInRom /\ LastByteKept
      /\ labels' = labels \cup ReturnLabels /\ UNCHANGED markVars /\ phase = "done"
      /\ Typed
  BY DEF MarkingInv, AddLabelsAfterJsrs, Inv
<1>2. work = << >> /\ work' = << >>
  BY <1>1 DEF Inv, DoneIsDone, markVars
<1>3. \A op, a, w : ~Due(op, a, w) /\ ~Due(op, a, w)'
  BY <1>2 DEF Due
<1>4. UNCHANGED <<banks, opcode, statement, list, offsets, work, dynJumps, jumpTables, phase>>
  BY <1>1 DEF markVars
<1>5. Homes' = Homes /\ End' = End /\ \A a : HomeOf(a)' = HomeOf(a)
  BY <1>4, SameHomes DEF End
<1>6. Inv' /\ Progress
  BY <1>1, ReturnsKeepInv
<1>7. Progress
  BY <1>6
<1>8. NoOverlap' /\ CodeInRom' /\ LastByteKept'
  <2>1. \A h : Size(h)' = Size(h) /\ IsCode(h)' = IsCode(h)
    BY <1>4 DEF Size, IsCode
  <2>2. NoOverlap'
    BY <1>1, <1>4, <2>1 DEF NoOverlap
  <2>3. CodeInRom'
    BY <1>1, <1>5, <2>1 DEF CodeInRom
  <2>4. LastByteTaken
    BY <1>1, <1>3 DEF LastByteKept, WordDue
  <2>5. LastByteTaken'
    BY <1>4, <1>5, <2>1, <2>4 DEF LastByteTaken
  <2> QED
    BY <2>2, <2>3, <2>5 DEF LastByteKept
<1>9. LabelsNamed'
  BY <1>1, <1>7, NamesStay, ReturnLabelsAre DEF LabelsNamed
<1>10. OperandsNamed'
  <2>1. SUFFICES ASSUME ~Overlaps, NEW h \in Homes, TakesLabel(h)' PROVE OperandNamed(h)'
    BY <1>5, <1>7, OverlapsStay DEF OperandsNamed
  <2>2. statement'[h] = statement[h] /\ OperandNamed(h)
    BY <1>1, <1>4, <2>1 DEF OperandsNamed, TakesLabel, IsCode
  <2> QED
    BY <1>1, <1>7, <2>2, OperandStaysNamed
<1>11. AllReached'
  <2>1. MarksReached' /\ ReturnsReached' /\ MarksOfWords'
    BY <1>3 DEF MarksReached, ReturnsReached, MarksOfWords
  <2>2. ASSUME NEW h \in list', IsCode(h)' PROVE Reached(h)'
    <3>1. h \in list /\ IsCode(h) /\ ~LabelDue(h)
      BY <1>3, <1>4, <2>2 DEF IsCode, LabelDue
    <3>2. Reached(h)
      BY <1>1, <3>1 DEF AllReached, CodeReached
    <3>3. CASE LabelsBefore(h) # {}
      <4>1. LabelsBefore(h)' # {}
        BY <1>1, <1>7, <2>2, <3>3, LabelsStay
      <4> QED
        BY <4>1 DEF Reached
    <3>4. CASE \E p \in Homes : LeadsOnTo(p, h)
      BY <1>1, <1>5, <1>7, <3>4, LeadsOnStays DEF Reached
    <3> QED
      BY <1>1, <1>7, <3>1, <3>2, <3>3, <3>4, DecodedTwiceStays DEF Reached
  <2> QED
    BY <2>1, <2>2 DEF AllReached, CodeReached
<1> QED
  BY <1>6, <1>8, <1>9, <1>10, <1>11 DEF MarkingInv

(* The code behind every call has a label now.                              *)
ReturnsLabelled ==
    \A h \in Callers : Elem(Behind(h)) \in Kept => LabelsBefore(Elem(Behind(h))) # {}

LEMMA ReturnsAreLabelled ==
    ASSUME MarkingInv, AddLabelsAfterJsrs, Located, Located'
    PROVE  ReturnsLabelled'
<1>1. /\ labels' = labels \cup ReturnLabels /\ UNCHANGED <<statement, list, offsets, banks, fills>>
  BY DEF AddLabelsAfterJsrs, markVars
<1>2. /\ Callers' = Callers /\ (\A h : Behind(h)' = Behind(h)) /\ (\A a : Elem(a)' = Elem(a))
      /\ Kept' = Kept
  BY <1>1 DEF Callers, Code, IsCode, Behind, Size, Elem, ElemAtAddr, End, Kept
<1>3. SUFFICES ASSUME NEW h \in Callers, NEW e \in list, e = Elem(Behind(h)), e \notin fills
               PROVE  LabelsBefore(e)' # {}
  BY <1>1, <1>2 DEF ReturnsLabelled, Kept
<1>4. \A l \in LabelsBefore(e) : l \in LabelsBefore(e)'
  BY <1>1, <1>3 DEF Located
<1>5. CASE LabelsBefore(e) = {}
  <2>1. [name |-> Behind(h), home |-> e] \in labels'
    BY <1>1, <1>3, <1>5 DEF ReturnLabels, LabelsWith
  <2>2. PICK l \in labels' : l.home = e
    BY <2>1
  <2>3. list \subseteq Int
    BY TypedSets DEF MarkingInv, Inv
  <2>4. l \in LabelsBefore(e)'
    BY <1>1, <1>3, <2>2, <2>3 DEF Located
  <2> QED
    BY <2>4
<1> QED
  BY <1>4, <1>5

-----------------------------------------------------------------------------
(* The blocks.                                                              *)

(* The bytes of an .org are data, and something is kept behind them.        *)
FillsFit == fills \subseteq list /\ \A h \in fills : ~IsCode(h) /\ \E n \in Kept : h < n

LEMMA KeptCode ==
    ASSUME FillsFit, NEW h \in Code
    PROVE  h \in Kept /\ h \in list /\ IsCode(h)
BY DEF FillsFit, Code, Kept

LEMMA PrevKeptIs ==
    ASSUME Typed, NEW h \in Homes
    PROVE  \/ PrevKept(h) = None /\ \A x \in Kept : x >= h
           \/ PrevKept(h) \in Kept /\ PrevKept(h) < h
              /\ \A x \in Kept : x < h => x <= PrevKept(h)
<1> DEFINE earlier == {p \in Kept : p < h}
<1>1. Kept \subseteq 0 .. End /\ End \in Nat /\ h \in Nat
  BY Layout DEF Typed, ElementsTyped, Kept
<1>2. CASE earlier = {}
  BY <1>1, <1>2 DEF PrevKept
<1>3. CASE earlier # {}
  <2>1. PICK m \in earlier : \A x \in earlier : x <= m
    BY <1>1, <1>3, GreatestNatural
  <2>2. PrevKept(h) = Max(earlier)
    BY <1>1, <1>3 DEF PrevKept
  <2>3. Max(earlier) \in earlier /\ \A x \in earlier : x <= Max(earlier)
    BY <1>1, <2>1 DEF Max
  <2> QED
    BY <2>2, <2>3
<1> QED
  BY <1>2, <1>3

LEMMA LastAheadIs ==
    ASSUME Typed, NEW h, LabelsAhead(h) # {}
    PROVE  LastAhead(h) \in LabelsAhead(h)
<1> DEFINE homes == {l.home : l \in LabelsAhead(h)}
<1>1. \A l \in labels : l.home \in 0 .. End
  BY Layout DEF Typed, LabelsTyped
<1>2. homes \in SUBSET (0 .. End) /\ homes # {}
  BY <1>1 DEF LabelsAhead
<1>3. End \in Nat
  BY Layout DEF Typed
<1>4. PICK x \in homes : \A y \in homes : y <= x
  <2> HIDE DEF homes
  <2> QED
    BY <1>2, <1>3, GreatestNatural
<1>5. \E l \in LabelsAhead(h) : \A other \in LabelsAhead(h) : other.home <= l.home
  BY <1>4
<1> QED
  BY <1>5 DEF LastAhead

(* A label in front of an instruction is one of what is behind an .org too. *)
LEMMA LabelsBeforeAhead ==
    ASSUME Typed, Located, NEW h \in list, NEW l \in LabelsBefore(h)
    PROVE  l \in LabelsAhead(h)
<1>1. l \in labels /\ l.home <= h /\ \A p \in list : p < h => p < l.home
  BY DEF Located
<1>2. l.home \in Nat /\ h \in Homes
  BY <1>1, TypedSets DEF Typed, LabelsTyped
<1>3. PrevKept(h) < l.home
  <2>1. CASE PrevKept(h) = None
    BY <1>2, <2>1 DEF None
  <2>2. CASE PrevKept(h) \in Kept /\ PrevKept(h) < h
    BY <1>1, <2>2 DEF Kept
  <2> QED
    BY <1>2, <2>1, <2>2, PrevKeptIs
<1> QED
  BY <1>1, <1>3 DEF LabelsAhead

(* The label in front of an instruction is no label of data.                *)
LEMMA CodeKeepsItsLabels ==
    ASSUME Typed, Located, FillsFit, NEW h \in Code, NEW l \in LabelsBefore(h)
    PROVE  l \in labels \ LabeledData
<1>1. l \in labels /\ l.home <= h /\ \A p \in list : p < h => p < l.home
  BY DEF Located
<1>2. h \in list /\ list \subseteq Int /\ l.home \in Int /\ h \in Kept
  BY <1>1, TypedSets, KeptCode DEF Code, Typed, LabelsTyped
<1>3. SUFFICES ASSUME l \in LabeledData PROVE FALSE
  BY <1>1
<1>4. PICK d \in Kept \ Code : LabelsAhead(d) # {} /\ l = LastAhead(d)
  BY <1>3 DEF LabeledData
<1>5. PrevKept(d) < l.home /\ l.home <= d
  BY <1>4, LastAheadIs DEF LabelsAhead
<1>6. d # h /\ d \in list /\ d \in Int /\ d \in Homes
  BY <1>2, <1>4, TypedSets DEF Kept
<1>7. CASE d < h
  BY <1>1, <1>2, <1>5, <1>6, <1>7
<1>8. CASE h < d
  <2>1. PrevKept(d) \in Kept /\ h <= PrevKept(d)
    BY <1>2, <1>6, <1>8, PrevKeptIs
  <2>2. PrevKept(d) \in Int
    BY <1>2, <2>1 DEF Kept
  <2> QED
    BY <1>1, <1>2, <1>5, <2>1, <2>2
<1> QED
  BY <1>2, <1>6, <1>7, <1>8

(* Marking is over and the calls have their labels.                         *)
Compilable == MarkingInv /\ Located /\ phase = "done" /\ ReturnsLabelled /\ FillsFit

LEMMA CompilableIs ==
    ASSUME Compilable
    PROVE  /\ Inv /\ Typed /\ Located /\ NoOverlap /\ LabelsNamed /\ OperandsNamed /\ CodeInRom
           /\ banks \in 1 .. 2 /\ LastByteTaken /\ ReturnsLabelled /\ FillsFit
           /\ \A h \in Code : \/ DecodedTwice \/ LabelsBefore(h) # {}
                              \/ \E p \in Homes : LeadsOnTo(p, h)
<1>1. MarkingInv /\ Inv /\ Typed /\ work = << >>
  BY DEF Compilable, MarkingInv, Inv, DoneIsDone
<1>2. \A op, a, w : ~Due(op, a, w)
  BY <1>1 DEF Due
<1>3. LastByteTaken
  BY <1>1, <1>2 DEF MarkingInv, LastByteKept, WordDue
<1>4. \A h \in Code : Reached(h) /\ ~LabelDue(h)
  BY <1>1, <1>2 DEF MarkingInv, AllReached, CodeReached, Code, LabelDue
<1> QED
  BY <1>1, <1>3, <1>4 DEF Compilable, MarkingInv, Typed, Reached

LEMMA FallsIs ==
    ASSUME NEW c \in DOMAIN Shape
    PROVE  /\ Leads(c, "after") <=> c \notin {"jmp", "jmpInd", "jsr", "stop", "tail"}
           /\ Leads(c, "after") <=> c \in {"plain1", "plain2", "access", "head", "branch"}
BY DEF Shape, Leads

(* What stands behind an instruction in the list.                           *)
LEMMA NextIs ==
    ASSUME Compilable, NEW h \in Code
    PROVE  /\ h \in Homes /\ h \in list /\ IsCode(h)
           /\ h + Size(h) \in Homes =>
                 Mirrored(Behind(h)) = h + Size(h) /\ HomeOf(Behind(h)) = h + Size(h)
           /\ NextHome(h) # None =>
                 /\ NextHome(h) \in list /\ h < NextHome(h) /\ h + Size(h) <= NextHome(h)
                 /\ h + Size(h) \in Homes
                 /\ \A x \in list : x > h => NextHome(h) <= x
<1>1. Inv /\ Typed /\ NoOverlap /\ CodeInRom /\ banks \in 1 .. 2
  BY CompilableIs
<1>2. h \in list /\ IsCode(h) /\ h \in Homes /\ list \subseteq Homes /\ Homes \subseteq Int
  BY <1>1, TypedSets DEF Code
<1>3. /\ Size(h) \in 1 .. 3 /\ Behind(h) = statement[h].addr + Size(h)
      /\ statement[h].addr \in Int /\ HomeOf(statement[h].addr) = h
  BY <1>1, <1>2, CodeIs DEF Inv, AtHome, IsCode, Kind
<1>4. ASSUME h + Size(h) \in Homes
      PROVE  Mirrored(Behind(h)) = h + Size(h) /\ HomeOf(Behind(h)) = h + Size(h)
  <2>1. HomeOf(Behind(h)) = h + Size(h)
    BY <1>1, <1>2, <1>3, <1>4, HomesAfter
  <2> QED
    BY <1>1, <1>3, <1>4, <2>1, MirroredIs
<1>5. ASSUME NextHome(h) # None
      PROVE  /\ NextHome(h) \in list /\ h < NextHome(h) /\ h + Size(h) <= NextHome(h)
             /\ h + Size(h) \in Homes
             /\ \A x \in list : x > h => NextHome(h) <= x
  <2>1. PICK n \in list : /\ n = NextHome(h) /\ n > h
                          /\ \A x \in list : x > h => n <= x
    BY <1>1, <1>2, <1>5, NextHomeIs
  <2>2. n \in Int /\ h \in Int
    BY <1>2
  <2>3. h + Size(h) <= n
    <3>1. SUFFICES ASSUME n < h + Size(h) PROVE FALSE
      BY <1>3, <2>2
    <3>2. n - h \in 1 .. 2 /\ n - h < Size(h) /\ h + (n - h) = n
      BY <1>3, <2>1, <2>2, <3>1
    <3> QED
      BY <1>1, <1>2, <2>1, <3>2 DEF NoOverlap
  <2>4. h + Size(h) \in Homes
    <3>1. Homes = Start .. End - 1 /\ Start \in Nat /\ End \in Nat
      BY <1>1, Layout
    <3> QED
      BY <1>2, <1>3, <2>2, <2>3, <3>1
  <2> QED
    BY <2>1, <2>3, <2>4
<1> QED
  BY <1>2, <1>4, <1>5

(* The element in front of the one behind an instruction is the instruction. *)
LEMMA PrevIs ==
    ASSUME Compilable, NEW p \in Code, NEW h \in list, h = p + Size(p)
    PROVE  PrevKept(h) = p
<1>1. Typed /\ NoOverlap /\ p \in Kept /\ p \in Homes /\ Homes \subseteq Int /\ IsCode(p)
      /\ list \subseteq Homes /\ Kept \subseteq list /\ None \notin Homes
  BY CompilableIs, TypedSets, NextIs, KeptCode DEF Kept
<1>2. Size(p) \in 1 .. 3
  BY <1>1, CodeIs
<1>3. p < h /\ p \in Int /\ h \in Int
  BY <1>1, <1>2
<1>4. PICK q \in Kept : q = PrevKept(h) /\ q < h /\ \A x \in Kept : x < h => x <= q
  <2>1. ~ \A x \in Kept : x >= h
    BY <1>1, <1>3
  <2> QED
    BY <1>1, <2>1, PrevKeptIs
<1>5. p <= q /\ q \in Int
  BY <1>1, <1>3, <1>4
<1>6. CASE q # p
  <2>1. q - p \in 1 .. 2 /\ q - p < Size(p) /\ p + (q - p) = q
    BY <1>2, <1>3, <1>4, <1>5, <1>6
  <2> QED
    BY <1>1, <1>4, <2>1 DEF NoOverlap
<1> QED
  BY <1>4, <1>6

(* A label in front of an instruction, or an instruction that goes on.      *)
LEMMA AllInBlocks ==
    ASSUME Compilable
    PROVE  Whole(labels \ LabeledData) \/ DecodedTwice \/ RunsOut
<1>1. SUFFICES ASSUME ~DecodedTwice, ~RunsOut, NEW h \in Code
               PROVE  \/ (labels \ LabeledData) \cap LabelsAhead(h) # {}
                      \/ PrevKept(h) # None /\ Falls(PrevKept(h))
  BY DEF Whole
<1>2. Typed /\ Located /\ ReturnsLabelled /\ FillsFit /\ banks \in 1 .. 2
      /\ h \in list /\ h \in Kept
      /\ list \subseteq offsets /\ list \subseteq Homes /\ None \notin Homes
  BY CompilableIs, TypedSets, NextIs, KeptCode
<1>3. CASE LabelsBefore(h) # {}
  <2>1. PICK l : l \in LabelsBefore(h)
    BY <1>3
  <2>2. l \in labels \ LabeledData
    BY <1>2, <2>1, CodeKeepsItsLabels
  <2>3. l \in LabelsAhead(h)
    BY <1>2, <2>1, LabelsBeforeAhead
  <2> QED
    BY <2>2, <2>3
<1>4. CASE \E p \in Homes : LeadsOnTo(p, h)
  <2>1. PICK p \in Homes : LeadsOnTo(p, h)
    BY <1>4
  <2>2. p \in Code /\ IsCode(p) /\ HomeOf(Behind(p)) = h /\ GoesOn(statement[p].code)
    BY <2>1 DEF LeadsOnTo, Code
  <2>3. Behind(p) \in Int /\ statement[p].code \in DOMAIN Shape
    BY <1>2, <2>2, CodeIs
  <2>4. CASE statement[p].code = "jsr"
    <3>1. Elem(Behind(p)) = h
      BY <1>2, <2>2, <2>3 DEF Located
    <3>2. LabelsBefore(h) # {}
      BY <1>2, <2>2, <2>4, <3>1 DEF ReturnsLabelled, Callers
    <3> QED
      BY <1>3, <3>2
  <2>5. CASE Leads(statement[p].code, "after")
    <3>1. Falls(p)
      BY <2>2, <2>3, <2>5, FallsIs DEF Falls
    <3>2. NextHome(p) # None
      BY <1>1, <2>2, <3>1 DEF RunsOut
    <3>3. h = p + Size(p)
      BY <2>2, <3>2, NextIs
    <3>4. PrevKept(h) = p
      BY <1>2, <2>2, <3>3, PrevIs
    <3> QED
      BY <1>2, <2>1, <3>1, <3>4
  <2> QED
    BY <2>2, <2>4, <2>5 DEF GoesOn
<1> QED
  BY <1>1, <1>3, <1>4, CompilableIs

(* The program is not compiled yet.                                         *)
Making == mode \in {"disassembling", "compiling"}

LEMMA DispatchSteps ==
    ASSUME [DispatchNext]_<<vars, runVars>>
    PROVE  \/ [Next]_vars /\ UNCHANGED runVars
           \/ MakeOrgs \/ AddLabelsAfterJsrs \/ Compile \/ Runs
BY DEF DispatchNext, Marks, vars, runVars

(* What becomes part of an .org: bytes with something behind them.          *)
LEMMA OrgsFit ==
    ASSUME Typed, MakeOrgs
    PROVE  FillsFit'
<1>1. PICK repeating :
         fills' = {h \in list : /\ LookedAt(h)
                                /\ Cardinality(RunOf(repeating, h)) > MinRepeat
                                /\ Max(list) \notin RunOf(repeating, h)}
  BY DEF MakeOrgs
<1>2. list' = list /\ statement' = statement
  BY DEF MakeOrgs, vars
<1>3. list \subseteq 0 .. End /\ End \in Nat
  BY TypedSets, Layout DEF Typed
<1>4. SUFFICES ASSUME NEW h \in list, LookedAt(h), Max(list) \notin RunOf(repeating, h),
                      h \in fills'
               PROVE  ~IsCode(h) /\ \E n \in list \ fills' : h < n
  BY <1>1, <1>2 DEF FillsFit, Kept, IsCode
<1>5. ~IsCode(h)
  BY <1>4 DEF LookedAt, ByteLike, IsCode
<1>6. PICK m \in list : \A x \in list : x <= m
  BY <1>3, GreatestNatural
<1>7. Max(list) \in list /\ \A x \in list : x <= Max(list)
  BY <1>3, <1>6 DEF Max
<1>8. \A e \in list : e \in RunOf(repeating, e)
  BY <1>3 DEF RunOf
<1>9. Max(list) \notin fills'
  BY <1>1, <1>7, <1>8
<1>10. PICK last \in list : last = Max(list) /\ last # h /\ h <= last
  BY <1>4, <1>7, <1>8
<1>11. h < last
  BY <1>3, <1>10
<1> QED
  BY <1>5, <1>9, <1>10, <1>11

LEMMA RunsKeepRom ==
    ASSUME Compile \/ Runs
    PROVE  UNCHANGED vars /\ UNCHANGED fills /\ ~Making /\ ~Making'
<1> USE DEF Making
<1>1. CASE Compile
  <2>1. mode = "labelled" /\ UNCHANGED vars /\ UNCHANGED fills
    BY <1>1 DEF Compile
  <2>2. \A h : GoTo(h) => mode' \in {"static", "interpret"}
    BY DEF GoTo
  <2> QED
    BY <1>1, <2>1, <2>2 DEF Compile
<1>2. ASSUME InterpretPlain \/ InterpretLdyZpgX \/ InterpretBranch \/ InterpretCall
      PROVE  UNCHANGED vars /\ UNCHANGED fills /\ mode = "interpret" /\ mode' = "dynJump"
  BY <1>2 DEF InterpretPlain, InterpretLdyZpgX, InterpretBranch, InterpretCall, Interprets
<1>3. \A h : GoTo(h) => mode' \in {"static", "interpret"}
  BY DEF GoTo
<1>4. \A name : JumpTo(name) => mode' \in {"static", "interpret"}
  BY <1>3 DEF JumpTo
<1>5. ASSUME RunPlain \/ RunTableHead \/ RunBranch \/ RunJump \/ RunCall \/ RunReturn \/ RunJumpIndirect
      PROVE  UNCHANGED vars /\ UNCHANGED fills /\ mode = "static" /\ ~Making'
  BY <1>3, <1>4, <1>5 DEF RunPlain, RunTableHead, RunBranch, RunJump, RunCall, RunReturn,
     RunJumpIndirect, At, FallThrough
<1>6. CASE DynJump
  BY <1>3, <1>6 DEF DynJump
<1>7. CASE InterpretPanics
  BY <1>7 DEF InterpretPanics
<1> QED
  BY <1>1, <1>2, <1>5, <1>6, <1>7 DEF Runs

LEMMA AlwaysMarking == DispatchSpec => [](Inv /\ Located /\ MarkingInv)
<1>1. DispatchInit => Inv /\ MarkingInv
  BY InitMarking DEF DispatchInit, MarkingInv
<1>2. ASSUME Inv, [DispatchNext]_<<vars, runVars>> PROVE Inv'
  <2>1. Located
    BY <1>2, AllLocated DEF Inv
  <2>2. CASE [Next]_vars
    BY <1>2, <2>2, NextKeeps, InvUnchanged
  <2>3. CASE AddLabelsAfterJsrs
    BY <1>2, <2>1, <2>3, ReturnsKeepInv
  <2>4. CASE MakeOrgs \/ Compile \/ Runs
    <3>1. UNCHANGED vars
      BY <2>4, RunsKeepRom DEF MakeOrgs
    <3> QED
      BY <1>2, <3>1, InvUnchanged
  <2> QED
    BY <1>2, <2>2, <2>3, <2>4, DispatchSteps
<1>3. DispatchSpec => []Inv
  BY <1>1, <1>2, PTL DEF DispatchSpec
<1>4. Inv => Located
  BY AllLocated DEF Inv
<1>5. ASSUME MarkingInv, Located, Located', [DispatchNext]_<<vars, runVars>> PROVE MarkingInv'
  <2>1. CASE [Next]_vars
    BY <1>5, <2>1, MarkingStays
  <2>2. CASE AddLabelsAfterJsrs
    BY <1>5, <2>2, ReturnsKeepMarking
  <2>3. CASE MakeOrgs \/ Compile \/ Runs
    <3>1. UNCHANGED vars
      BY <2>3, RunsKeepRom DEF MakeOrgs
    <3> QED
      BY <1>5, <3>1, MarkingStays
  <2> QED
    BY <1>5, <2>1, <2>2, <2>3, DispatchSteps
<1> QED
  BY <1>1, <1>3, <1>4, <1>5, PTL DEF DispatchSpec

(* Compilation begins when marking is over.                                 *)
CompilesDone ==
    /\ IF mode = "disassembling" THEN fills = {} ELSE phase = "done"
    /\ Making \/ ReturnsLabelled
    /\ FillsFit

LEMMA NothingMarkedAfterwards == phase = "done" => ~Next
BY DEF Next, MarkNothing, Marking, MarkFails, MarkInstruction, ReturnFromMark, MarkWord, LabelTheWord,
   ResolveDynJump, Finish

LEMMA SameLabelsReturned ==
    ASSUME UNCHANGED vars, UNCHANGED fills
    PROVE  phase' = phase /\ (ReturnsLabelled => ReturnsLabelled') /\ (FillsFit => FillsFit')
<1>1. UNCHANGED <<phase, banks, statement, list, offsets, labels>>
  BY DEF vars
<1>2. Kept' = Kept /\ (\A h : IsCode(h)' = IsCode(h))
  BY <1>1 DEF Kept, IsCode
<1>3. Callers' = Callers /\ (\A h : Elem(Behind(h))' = Elem(Behind(h)))
      /\ (\A h : LabelsBefore(h)' = LabelsBefore(h))
  BY <1>1 DEF Callers, Code, IsCode, Behind, Size, Elem, ElemAtAddr, End, LabelsBefore, PrevHome
<1>4. ReturnsLabelled => ReturnsLabelled'
  BY <1>2, <1>3 DEF ReturnsLabelled
<1>5. FillsFit => FillsFit'
  BY <1>1, <1>2 DEF FillsFit
<1> QED
  BY <1>1, <1>4, <1>5

LEMMA AlwaysCompilesDone == DispatchSpec => []CompilesDone
<1>1. DispatchInit => CompilesDone
  BY DEF DispatchInit, CompilesDone, Making, FillsFit
<1>2. ASSUME MarkingInv, Located, Located', CompilesDone, [DispatchNext]_<<vars, runVars>>
      PROVE  CompilesDone'
  <2>1. CASE [Next]_vars /\ UNCHANGED runVars
    <3>1. UNCHANGED fills /\ UNCHANGED mode
      BY <2>1 DEF runVars
    <3>2. CASE mode = "disassembling"
      <4>1. fills' = {}
        BY <1>2, <3>1, <3>2 DEF CompilesDone
      <4> QED
        BY <3>1, <3>2, <4>1 DEF CompilesDone, Making, FillsFit
    <3>3. CASE mode # "disassembling"
      <4>1. UNCHANGED vars
        BY <1>2, <2>1, <3>3, NothingMarkedAfterwards DEF CompilesDone
      <4> QED
        BY <1>2, <3>1, <3>3, <4>1, SameLabelsReturned DEF CompilesDone, Making
    <3> QED
      BY <3>2, <3>3
  <2>2. CASE AddLabelsAfterJsrs
    <3>1. ReturnsLabelled'
      BY <1>2, <2>2, ReturnsAreLabelled
    <3>2. /\ phase' = "done" /\ mode' = "labelled"
          /\ UNCHANGED statement /\ UNCHANGED list /\ UNCHANGED fills
      BY <2>2 DEF AddLabelsAfterJsrs, markVars
    <3>3. FillsFit'
      BY <1>2, <3>2 DEF CompilesDone, FillsFit, Kept, IsCode
    <3> QED
      BY <3>1, <3>2, <3>3 DEF CompilesDone
  <2>3. CASE MakeOrgs
    <3>1. Typed /\ phase' = "done" /\ mode' = "compiling"
      BY <1>2, <2>3 DEF MarkingInv, Inv, MakeOrgs, vars
    <3>2. FillsFit'
      BY <2>3, <3>1, OrgsFit
    <3> QED
      BY <3>1, <3>2 DEF CompilesDone, Making
  <2>4. CASE Compile \/ Runs
    <3>1. UNCHANGED vars /\ UNCHANGED fills /\ ~Making /\ ~Making'
      BY <2>4, RunsKeepRom
    <3>2. mode # "disassembling" /\ mode' # "disassembling"
      BY <3>1 DEF Making
    <3> QED
      BY <1>2, <3>1, <3>2, SameLabelsReturned DEF CompilesDone
  <2> QED
    BY <1>2, <2>1, <2>2, <2>3, <2>4, DispatchSteps
<1> QED
  BY <1>1, <1>2, AlwaysMarking, PTL DEF DispatchSpec

(* Every instruction is in a basic block, and none stands behind the jump   *)
(* that ends one: what addLabelsAfterJsrs and the labels of marking leave   *)
(* to compileLabels, for every ROM in which no operand was decoded as code  *)
(* too and no code runs out of the ROM, wherever its .org runs are.         *)
THEOREM BlocksAlwaysWhole == DispatchSpec => []BlocksAreWhole
<1>1. MarkingInv /\ Located /\ CompilesDone => BlocksAreWhole
  BY AllInBlocks DEF Compilable, CompilesDone, Making, BlocksAreWhole
<1> QED
  BY <1>1, AlwaysMarking, AlwaysCompilesDone, PTL

-----------------------------------------------------------------------------
(* Where labels, operands and neighbours lead a program.                    *)
LEMMA FollowerIs ==
    ASSUME list \subseteq Int, NEW h \in list
    PROVE  Follower(h) = h
<1> DEFINE S == {n \in list : n >= h}
<1>1. h \in S /\ \A y \in S : h <= y /\ y \in Int
  OBVIOUS
<1>2. Follower(h) = CHOOSE x \in S : \A y \in S : x <= y
  BY DEF Follower, Min
<1> HIDE DEF S
<1>3. \A x \in S : (\A y \in S : x <= y) => x = h
  BY <1>1
<1> QED
  BY <1>1, <1>2, <1>3

AddressOf(name) == IF name >= End THEN statement[name - End].value ELSE name

LEMMA NamedAddress ==
    ASSUME Typed, NEW n \in Int, NEW x \in Homes, Names(n, x)
    PROVE  AddressOf(n) \in Int /\ HomeOf(AddressOf(n)) = x /\ Mirrored(AddressOf(n)) = x
<1>1. StatementsTyped /\ banks \in 1 .. 2 /\ End \in Nat
  BY Layout DEF Typed
<1>2. CASE n < End /\ HomeOf(n) = x
  <2>1. AddressOf(n) = n
    BY <1>1, <1>2 DEF AddressOf
  <2> QED
    BY <1>1, <1>2, <2>1, MirroredIs
<1>3. CASE /\ n >= End /\ n - End \in Homes /\ Kind(n - End) = "reference"
           /\ HomeOf(statement[n - End].value) = x
  <2>1. statement[n - End] \in DataWord
    BY <1>1, <1>3, KindIs
  <2>2. AddressOf(n) = statement[n - End].value /\ AddressOf(n) \in Int
    BY <1>3, <2>1 DEF AddressOf, DataWord
  <2> QED
    BY <1>1, <1>3, <2>2, MirroredIs
<1> QED
  BY <1>2, <1>3 DEF Names

LEMMA LabelLeads ==
    ASSUME Compilable, ~Overlaps, NEW l \in labels
    PROVE  /\ l.home \in list /\ l.home \in Homes /\ Follower(l.home) = l.home
           /\ LabelAddress(l) = AddressOf(l.name) /\ l.name \in Int
           /\ Names(l.name, l.home)
           /\ LabelAddress(l) \in Int
           /\ HomeOf(LabelAddress(l)) = l.home /\ Mirrored(LabelAddress(l)) = l.home
<1>1. Typed /\ list \subseteq Int /\ LabelsNamed
  BY CompilableIs, TypedSets
<1>2. l.home \in list /\ l.home \in Homes /\ l.name \in Int
  BY <1>1 DEF Overlaps, Typed, LabelsTyped
<1>3. LabelAddress(l) = AddressOf(l.name)
  BY DEF LabelAddress, AddressOf
<1>4. Names(l.name, l.home)
  BY <1>1 DEF LabelsNamed
<1> QED
  BY <1>1, <1>2, <1>3, <1>4, FollowerIs, NamedAddress

Blocks == labels \ LabeledData

(* A label whose code can be jumped to is one of a block.                   *)
LEMMA CodeHasBlock ==
    ASSUME Compilable, NEW l \in labels, l.home \in Code
    PROVE  l \in Blocks
<1>1. PICK h \in Code : h = l.home
  OBVIOUS
<1>2. Typed /\ Located /\ FillsFit /\ h \in list
  BY CompilableIs DEF Code
<1>3. h \in Int
  BY <1>2, TypedSets
<1>4. h <= h
  BY <1>3
<1>5. l \in LabelsBefore(h)
  BY <1>1, <1>2, <1>4 DEF Located
<1> QED
  BY <1>2, <1>5, CodeKeepsItsLabels DEF Blocks

LEMMA LabelAddrIs ==
    ASSUME NEW name, name # None
    PROVE  LabelAddr(name) = AddressOf(name)
<1> DEFINE S == labels \cup {[name |-> name, home |-> None]}
<1>1. \E l \in S : l.name = name
  <2>1. [name |-> name, home |-> None] \in S
    OBVIOUS
  <2>2. [name |-> name, home |-> None].name = name
    OBVIOUS
  <2> HIDE DEF S
  <2> QED
    BY <2>1, <2>2
<1>2. PICK l : l = (CHOOSE k \in S : k.name = name)
  OBVIOUS
<1>3. LabelAddr(name) = LabelAddress(l)
  BY <1>2 DEF LabelAddr
<1> HIDE DEF S
<1>4. l.name = name
  BY <1>1, <1>2
<1> QED
  BY <1>3, <1>4 DEF LabelAddress, AddressOf

(* The blocks of an operand's label are where the operand says, and an      *)
(* operand that names code has a block.                                     *)
LEMMA OperandLeads ==
    ASSUME Compilable, ~Overlaps, NEW h \in Code, TakesLabel(h),
           NEW v, v = statement[h].value, NEW name, name = statement[h].label
    PROVE  /\ v \in Int /\ name \in Int
           /\ \A l \in Blocks : l.name = name =>
                 /\ Follower(l.home) = l.home /\ l.home \in list
                 /\ Mirrored(v) = l.home /\ name # None
                 /\ LabelAddress(l) \in Int /\ Mirrored(LabelAddress(l)) = l.home
           /\ name # None =>
                 /\ LabelAddr(name) \in Int
                 /\ Mirrored(LabelAddr(name)) = Mirrored(v) /\ Mirrored(v) \in Homes
           /\ InCode(v) => name # None /\ \E l \in Blocks : l.name = name
<1>1. /\ Typed /\ banks \in 1 .. 2 /\ h \in Homes /\ IsCode(h) /\ h \in list
      /\ list \subseteq Homes /\ OperandsNamed
  BY CompilableIs, NextIs, TypedSets
<1>2. v \in Int /\ name \in Int
  BY <1>1, CodeIs DEF Instruction
<1>3. PICK x : x = HomeOf(v)
  OBVIOUS
<1>4. IF name = None THEN x \notin list
      ELSE /\ x \in Homes /\ Names(name, x)
           /\ x \in list => \E l \in labels : l.name = name /\ l.home = x
  BY <1>1, <1>3 DEF OperandsNamed, OperandNamed
<1>5. ASSUME NEW l \in Blocks, l.name = name
      PROVE  /\ Follower(l.home) = l.home /\ l.home \in list
             /\ Mirrored(v) = l.home /\ name # None
             /\ LabelAddress(l) \in Int /\ Mirrored(LabelAddress(l)) = l.home
  <2>1. l \in labels
    BY DEF Blocks
  <2>2. l.home \in Homes /\ Names(name, l.home) /\ Follower(l.home) = l.home /\ l.home \in list
        /\ LabelAddress(l) \in Int /\ Mirrored(LabelAddress(l)) = l.home
    BY <1>5, <2>1, LabelLeads
  <2>3. name # None
    BY <1>1, <2>2, NamesAreSome
  <2>4. x = l.home
    BY <1>1, <1>2, <1>4, <2>2, <2>3, NamesOne
  <2>5. Mirrored(v) = x
    BY <1>1, <1>2, <1>3, <2>2, <2>4, MirroredIs
  <2> QED
    BY <2>2, <2>3, <2>4, <2>5
<1>6. ASSUME name # None
      PROVE  /\ LabelAddr(name) \in Int
             /\ Mirrored(LabelAddr(name)) = Mirrored(v) /\ Mirrored(v) \in Homes
  <2>1. Mirrored(v) = x /\ x \in Homes
    BY <1>1, <1>2, <1>3, <1>4, <1>6, MirroredIs
  <2>2. AddressOf(name) \in Int /\ Mirrored(AddressOf(name)) = x
    BY <1>1, <1>2, <1>4, <1>6, NamedAddress
  <2> QED
    BY <1>6, <2>1, <2>2, LabelAddrIs
<1>7. ASSUME InCode(v) PROVE name # None /\ \E l \in Blocks : l.name = name
  <2>1. Mirrored(v) \in Homes /\ Mirrored(v) \in Code /\ x = Mirrored(v)
    BY <1>1, <1>2, <1>3, <1>7, MirroredIs DEF InCode
  <2>2. x \in list
    BY <2>1 DEF Code
  <2>3. name # None /\ \E l \in labels : l.name = name /\ l.home = x
    BY <1>4, <2>2
  <2> QED
    BY <2>1, <2>3, CodeHasBlock
<1> QED
  BY <1>2, <1>5, <1>6, <1>7

(* What is behind an instruction is code just when its block goes on.       *)
LEMMA FallsThrough ==
    ASSUME Compilable, ~RunsOut, NEW h \in Code, Falls(h), NEW n, n = NextHome(h),
           NEW p, p = Behind(h)
    PROVE  /\ p \in Int /\ n \in list
           /\ Mirrored(p) = h + Size(h)
           /\ n = h + Size(h) \/ ByteLost
           /\ ~IsCode(n) => ~InCode(p)
<1>1. /\ Typed /\ NoOverlap /\ h \in Homes /\ IsCode(h) /\ h \in list
      /\ list \subseteq Homes /\ Homes \subseteq Int /\ banks \in 1 .. 2
  BY CompilableIs, NextIs, TypedSets
<1>2. NextHome(h) # None
  BY DEF RunsOut
<1>3. /\ n \in list /\ h < n /\ h + Size(h) <= n /\ h + Size(h) \in Homes
      /\ \A x \in list : x > h => n <= x
      /\ Mirrored(p) = h + Size(h)
  BY <1>2, NextIs
<1>4. Size(h) \in 1 .. 3 /\ p \in Int
  BY <1>1, CodeIs
<1>5. ASSUME h + Size(h) \in list PROVE n = h + Size(h)
  <2>1. h + Size(h) > h /\ h + Size(h) \in Int
    BY <1>1, <1>4
  <2>2. n <= h + Size(h)
    BY <1>3, <1>5, <2>1
  <2> QED
    BY <1>1, <1>3, <2>1, <2>2
<1>6. ASSUME ~ByteLost PROVE n = h + Size(h)
  <2>1. PICK b \in Homes : b = h + Size(h)
    BY <1>3
  <2>2. PICK d \in list : d <= b /\ b < d + Size(d)
    BY <1>6, <2>1 DEF ByteLost, Holders
  <2>3. Size(d) \in 1 .. 3 /\ d \in Int /\ b \in Int /\ h \in Int /\ n \in Int
    BY <1>1, <1>3, <2>1, <2>2, SizeIs, TypedSets
  <2>4. CASE d <= h
    <3>1. d # h
      BY <1>4, <2>1, <2>2, <2>3
    <3>2. h - d \in 1 .. 2 /\ h - d < Size(d) /\ d + (h - d) = h
      BY <1>4, <2>1, <2>2, <2>3, <2>4, <3>1
    <3> QED
      BY <1>1, <2>2, <3>2 DEF NoOverlap
  <2>5. CASE d > h
    <3>1. n <= d /\ h + Size(h) <= n
      BY <1>3, <2>2, <2>5
    <3> QED
      BY <1>4, <2>1, <2>2, <2>3, <3>1
  <2> QED
    BY <2>3, <2>4, <2>5
<1>7. ASSUME InCode(p) PROVE IsCode(n)
  <2>1. h + Size(h) \in Code
    BY <1>3, <1>7 DEF InCode
  <2>2. h + Size(h) \in list /\ IsCode(h + Size(h))
    BY <2>1 DEF Code
  <2> QED
    BY <1>5, <2>2
<1> QED
  BY <1>3, <1>4, <1>6, <1>7

-----------------------------------------------------------------------------
(* A running program.                                                       *)

(* What is kept at an element, or behind the .org it is part of.            *)
LEMMA PastOrgsIs ==
    ASSUME Compilable, NEW t \in list
    PROVE  /\ PastOrgs(t) \in list
           /\ t \notin fills => PastOrgs(t) = t
           /\ t \in fills => ~IsCode(t)
<1> DEFINE S == {n \in Kept : n >= t}
<1>1. FillsFit /\ list \subseteq Nat /\ t \in Nat
  BY CompilableIs, TypedSets
<1>2. \E n \in Kept : n >= t
  <2>1. CASE t \in fills
    <3>1. PICK n \in Kept : t < n
      BY <1>1, <2>1 DEF FillsFit
    <3> QED
      BY <1>1, <3>1 DEF Kept
  <2>2. CASE t \notin fills
    BY <1>1, <2>2 DEF Kept
  <2> QED
    BY <2>1, <2>2
<1>3. PICK m \in S : \A x \in S : m <= x
  <2>1. S \in SUBSET Nat /\ S # {}
    BY <1>1, <1>2 DEF Kept
  <2> HIDE DEF S
  <2> QED
    BY <2>1, LeastNatural
<1>4. S \subseteq Nat /\ S \subseteq list
  BY <1>1 DEF Kept
<1>5. PastOrgs(t) = CHOOSE x \in S : \A y \in S : x <= y
  BY DEF PastOrgs, Min
<1>6. PastOrgs(t) \in S /\ \A y \in S : PastOrgs(t) <= y
  <2> HIDE DEF S
  <2> QED
    BY <1>3, <1>5
<1>7. ASSUME t \notin fills PROVE PastOrgs(t) = t
  <2>1. t \in S
    BY <1>1, <1>7 DEF Kept
  <2>2. PastOrgs(t) <= t /\ PastOrgs(t) >= t /\ PastOrgs(t) \in Nat
    BY <1>4, <1>6, <2>1
  <2> QED
    BY <1>1, <2>2
<1>8. t \in fills => ~IsCode(t)
  BY <1>1 DEF FillsFit
<1> QED
  BY <1>4, <1>6, <1>7, <1>8

(* Compiled code that was led to an .org is behind it, and p names it.      *)
Skipped(m, p) == m = "static" /\ Mirrored(p) \in fills

(* Where compiled code is, pc names it, but for the first instruction.      *)
InStep(m, x, p) ==
    m = "static" => /\ x \in Code
                    /\ \/ Mirrored(p) = x \/ p = 0 \/ ByteLost
                       \/ Mirrored(p) \in fills /\ x = PastOrgs(Mirrored(p))

(* Where the processor would be.                                            *)
Place(m, x, p) == IF m = "static" THEN x ELSE Mirrored(p)

(* Words that a return adds one to as the processor does.                   *)
ReturnWords == {w \in Int : Mirrored(w + 1) = Mirrored(w) + 1}

CallWords == {w \in Int : \E h \in Callers : w + 1 = Behind(h)}

Right(m, x, p, s) == p \in Int /\ s \in Seq(ReturnWords) /\ InStep(m, x, p)

(* Execution that only followed what marking followed.                      *)
Follows(m, p, s) ==
    \/ ReturnsElsewhere
    \/ /\ s \in Seq(CallWords)
       /\ m = "dynJump" /\ InCode(p) => \E l \in Blocks : LabelAddress(l) = p
       /\ m = "interpret" => ~InCode(p)

LEMMA Arrives ==
    ASSUME Compilable, NEW t \in list, NEW p, Mirrored(p) = t, GoTo(t)
    PROVE  /\ mode' \in {"static", "interpret"} /\ InStep(mode', here', p)
           /\ Skipped(mode', p) \/ Place(mode', here', p) = t
           /\ mode' = "interpret" => ~InCode(p)
<1>1. PICK n : n = PastOrgs(t)
  OBVIOUS
<1>2. n \in list /\ (t \notin fills => n = t) /\ (t \in fills => ~IsCode(t))
  BY <1>1, PastOrgsIs
<1>3. IF IsCode(n) THEN mode' = "static" /\ here' = n ELSE mode' = "interpret" /\ here' = None
  BY <1>1 DEF GoTo
<1>4. CASE IsCode(n)
  <2>1. mode' = "static" /\ here' = n /\ here' \in Code
    BY <1>2, <1>3, <1>4 DEF Code
  <2> QED
    BY <1>1, <1>2, <2>1 DEF InStep, Skipped, Place
<1>5. CASE ~IsCode(n)
  <2>1. mode' = "interpret" /\ ~IsCode(t)
    BY <1>2, <1>3, <1>5
  <2> QED
    BY <2>1 DEF InStep, Place, InCode, Code
<1> QED
  BY <1>4, <1>5

LEMMA FallingArrives ==
    ASSUME Compilable, ~RunsOut, here \in Code, Falls(here), NEW p, p = AddrNext, FallThrough
    PROVE  /\ mode' \in {"static", "interpret"} /\ InStep(mode', here', p)
           /\ p \in Int
           /\ \/ ByteLost \/ Skipped(mode', p)
              \/ Place(mode', here', p) = here + Size(here)
           /\ mode' = "interpret" => ~InCode(p)
<1>1. PICK n : n = NextHome(here)
  OBVIOUS
<1>2. /\ p \in Int /\ n \in list /\ Mirrored(p) = here + Size(here)
      /\ n = here + Size(here) \/ ByteLost
      /\ ~IsCode(n) => ~InCode(p)
  BY <1>1, FallsThrough DEF AddrNext
<1>3. GoTo(n)
  BY <1>1 DEF FallThrough
<1>4. CASE ~ByteLost
  BY <1>2, <1>3, <1>4, Arrives
<1>5. CASE ByteLost
  <2>1. PICK k : k = PastOrgs(n)
    OBVIOUS
  <2>2. k \in list /\ (n \notin fills => k = n) /\ (n \in fills => ~IsCode(n))
    BY <1>2, <2>1, PastOrgsIs
  <2>3. IF IsCode(k) THEN mode' = "static" /\ here' = k ELSE mode' = "interpret" /\ here' = None
    BY <1>3, <2>1 DEF GoTo
  <2> QED
    BY <1>2, <1>5, <2>2, <2>3 DEF InStep, Code
<1> QED
  BY <1>4, <1>5

LEMMA NoCodeAtZero ==
    ASSUME banks \in 1 .. 2
    PROVE  ~InCode(0)
<1>1. PICK b \in Nat \ {0} : b = Bank /\ PrgStart = 2 * b /\ End = 4 * b
                            /\ Start = (IF banks = 1 THEN 3 * b ELSE 2 * b) /\ Homes = Start .. End - 1
  BY Layout
<1>2. ~(PrgStart <= 0) /\ 0 \notin Homes
  BY <1>1
<1>3. Mirrored(0) = 0
  BY <1>2 DEF Mirrored
<1> QED
  BY <1>2, <1>3 DEF InCode

(* A jump to the label of an operand, with pc at the label or at what the   *)
(* operand says.                                                            *)
LEMMA JumpingArrives ==
    ASSUME Compilable, ~Overlaps, here \in Code, TakesLabel(here), blocks = Blocks,
           NEW p, p = LabelAddr(This.label) \/ p = This.value, JumpTo(This.label)
    PROVE  /\ mode' \in {"static", "interpret"} /\ InStep(mode', here', p)
           /\ p \in Int
           /\ \/ This.label = None /\ p # This.value
              \/ Skipped(mode', p)
              \/ Place(mode', here', p) = Mirrored(This.value)
           /\ mode' = "interpret" => ~InCode(p)
<1>1. PICK v, name : v = This.value /\ name = This.label
  OBVIOUS
<1>2. v = statement[here].value /\ name = statement[here].label
  BY <1>1 DEF This
<1>3. /\ v \in Int /\ name \in Int
      /\ \A l \in Blocks : l.name = name =>
            /\ Follower(l.home) = l.home /\ l.home \in list
            /\ Mirrored(v) = l.home /\ name # None
      /\ name # None =>
            /\ LabelAddr(name) \in Int
            /\ Mirrored(LabelAddr(name)) = Mirrored(v) /\ Mirrored(v) \in Homes
      /\ InCode(v) => name # None /\ \E l \in Blocks : l.name = name
  BY <1>2, OperandLeads
<1>4. name = None => LabelAddr(name) = 0 /\ ~InCode(0)
  <2>1. ~InCode(0)
    BY CompilableIs, NoCodeAtZero
  <2> QED
    BY <2>1 DEF LabelAddr
<1>5. CASE BlocksNamed(name) = {}
  <2>1. mode' = "interpret"
    BY <1>1, <1>5 DEF JumpTo
  <2>2. ~InCode(v)
    BY <1>3, <1>5 DEF BlocksNamed
  <2>3. ~InCode(p)
    BY <1>1, <1>3, <1>4, <2>2 DEF InCode
  <2> QED
    BY <1>1, <1>3, <1>4, <2>1, <2>3 DEF InStep, Place
<1>6. CASE BlocksNamed(name) # {}
  <2>1. PICK l \in Blocks : l.name = name /\ GoTo(Follower(l.home))
    BY <1>1, <1>6 DEF JumpTo, BlocksNamed
  <2>2. name # None /\ l.home \in list /\ Mirrored(p) = l.home /\ GoTo(l.home)
    BY <1>1, <1>3, <2>1
  <2> QED
    BY <1>1, <1>3, <2>1, <2>2, Arrives
<1> QED
  BY <1>5, <1>6

(* The words that calls push.                                               *)
LEMMA PushedWords ==
    ASSUME Compilable, NEW h \in Callers, NEW w, w = statement[h].addr + 2
    PROVE  /\ w \in ReturnWords /\ w \in CallWords
           /\ Mirrored(w) = h + 2 /\ h + Size(h) - 1 = h + 2
<1>1. /\ h \in Code /\ h \in Homes /\ h \in list /\ IsCode(h) /\ statement[h].code = "jsr"
      /\ Typed /\ Inv /\ CodeInRom /\ LastByteTaken /\ banks \in 1 .. 2
  BY CompilableIs, NextIs DEF Callers
<1>2. Size(h) = 3 /\ statement[h].addr \in Int /\ HomeOf(statement[h].addr) = h
  BY <1>1, CodeIs, ShapeFacts DEF Inv, AtHome, IsCode, Kind
<1>3. PICK a \in Int : a = statement[h].addr /\ HomeOf(a) = h
  BY <1>2
<1>4. h + 2 \in Homes /\ h + 3 \in Homes
  <2>1. h + 3 - 1 \in Homes /\ h + 3 # End
    BY <1>1, <1>2 DEF CodeInRom, LastByteTaken
  <2>2. Homes = Start .. End - 1 /\ Start \in Nat /\ End \in Nat
    BY <1>1, Layout
  <2> QED
    BY <1>1, <2>1, <2>2
<1>5. HomeOf(a + 2) = h + 2 /\ HomeOf(a + 3) = h + 3
  BY <1>1, <1>3, <1>4, HomesAfter
<1>6. Mirrored(a + 2) = h + 2 /\ Mirrored(a + 3) = h + 3
  BY <1>1, <1>3, <1>4, <1>5, MirroredIs
<1>7. h \in Int
  BY <1>1, TypedSets
<1>8. w \in Int /\ w = a + 2 /\ w + 1 = a + 3 /\ (h + 2) + 1 = h + 3 /\ h + 3 - 1 = h + 2
  BY <1>3, <1>7
<1>9. w \in ReturnWords
  BY <1>6, <1>8 DEF ReturnWords
<1>10. Behind(h) = w + 1
  BY <1>2, <1>3, <1>8 DEF Behind
<1> QED
  BY <1>2, <1>6, <1>8, <1>9, <1>10 DEF CallWords

LEMMA Stacks ==
    ASSUME NEW W, NEW s \in Seq(W)
    PROVE  /\ s # << >> => Head(s) \in W /\ Tail(s) \in Seq(W)
           /\ \A w \in W : <<w>> \o s \in Seq(W)
OBVIOUS

(* What may be fetched, and where: nothing that is fetched lies across the  *)
(* edge of a bank.                                                          *)
LEMMA InstructionIs ==
    ASSUME Compilable, NEW a \in Int, NEW i \in Instructions(a)
    PROVE  i = [code |-> i.code, value |-> i.value] /\ i.code \in DOMAIN Shape /\ i.value \in Int
<1>1. Typed /\ banks \in 1 .. 2 /\ End \in Nat \ {0}
  <2>1. Typed /\ banks \in 1 .. 2
    BY CompilableIs
  <2>2. Bank \in Nat \ {0} /\ End = 4 * Bank
    BY <2>1, Layout
  <2> QED
    BY <2>1, <2>2
<1>2. CASE InCode(a)
  <2>1. PICK h \in Code : h = Mirrored(a) /\ h \in Homes
    BY <1>2 DEF InCode
  <2>2. statement[h].code \in DOMAIN Shape /\ statement[h].value \in Int
    BY <1>1, <2>1, CodeIs DEF Code
  <2>3. i = [code |-> statement[h].code, value |-> statement[h].value]
    BY <1>2, <2>1 DEF Instructions
  <2> QED
    BY <2>2, <2>3
<1>3. CASE ~InCode(a)
  <2> DEFINE Cs == (IF Mirrored(a) \in DOMAIN opcode THEN {opcode[Mirrored(a)]} ELSE OpCodes) \ {"bad"}
  <2>1. Cs \subseteq DOMAIN Shape
    BY <1>1, DisassemblerAssumption DEF Typed, OpCodesTyped
  <2>2. \A c \in DOMAIN Shape : \A v \in Operands(c, a) : v \in Int
    <3>1. Reach \subseteq Int /\ Targets[banks] \subseteq Nat
      BY <1>1, DisassemblerAssumption
    <3>2. SUFFICES ASSUME NEW c \in DOMAIN Shape, NEW v \in Operands(c, a) PROVE v \in Int
      OBVIOUS
    <3>3. PICK label, size : label = Shape[c].label /\ size = Shape[c].size
      OBVIOUS
    <3>4. \/ v \in {a + 2 + d : d \in Reach} \/ v \in Targets[banks] \/ v \in {0}
      BY <3>2, <3>3 DEF Operands
    <3> QED
      BY <3>1, <3>4
  <2>3. Instructions(a) = UNION {[code : {c}, value : {v % End : v \in Operands(c, a)}] : c \in Cs}
    BY <1>3 DEF Instructions
  <2> HIDE DEF Cs
  <2>4. PICK c \in Cs : i \in [code : {c}, value : {v % End : v \in Operands(c, a)}]
    BY <2>3
  <2>5. PICK v \in Operands(c, a) : i.value = v % End /\ i.code = c
    BY <2>4
  <2>6. v \in Int /\ c \in DOMAIN Shape
    BY <2>1, <2>2
  <2>7. i.value \in Int
    BY <1>1, <2>5, <2>6
  <2> QED
    BY <2>4, <2>5, <2>6, <2>7
<1> QED
  BY <1>2, <1>3

LEMMA FetchedIs ==
    ASSUME Compilable, pc \in Int, NEW i \in Fetched
    PROVE  /\ i \in Instructions(pc) /\ i.code \in DOMAIN Shape /\ i.value \in Int
           /\ Mirrored(pc) \in 0 .. End - 1
           /\ \A k \in 0 .. 3 : k <= Shape[i.code].size => Mirrored(pc + k) = Mirrored(pc) + k
<1>1. PICK p \in Int : p = pc
  OBVIOUS
<1>2. /\ p \in RamCode \/ p >= PrgStart
      /\ i \in Instructions(p) /\ Mirrored(p) + Shape[i.code].size < End
  BY <1>1 DEF Fetched
<1>3. i.code \in DOMAIN Shape /\ i.value \in Int
  BY <1>2, InstructionIs
<1>4. PICK n \in 1 .. 3 : n = Shape[i.code].size
  BY <1>3, ShapeFacts
<1>5. /\ banks \in 1 .. 2 /\ Bank \in Nat \ {0} /\ End = 4 * Bank /\ PrgStart = 2 * Bank
      /\ Start = (IF banks = 1 THEN 3 * Bank ELSE 2 * Bank) /\ Bank = BankSize[banks]
  BY CompilableIs, Layout DEF Bank
<1>6. \A a : Mirrored(a) = IF banks = 1 /\ PrgStart <= a /\ a < Start THEN a + Bank ELSE a
  BY <1>5 DEF Mirrored
<1>7. p \in RamCode => p \in Nat /\ p + 3 < PrgStart
  BY <1>5, DispatchAssumption
<1>8. p >= 0 /\ Mirrored(p) \in 0 .. End - 1
  BY <1>2, <1>4, <1>5, <1>6, <1>7
<1>9. ASSUME NEW k \in 0 .. 3, k <= n PROVE Mirrored(p + k) = Mirrored(p) + k
  <2>1. CASE banks = 1 /\ PrgStart <= p /\ p < Start
    <3>1. Mirrored(p) = p + Bank /\ (p + Bank) + n < 4 * Bank
      BY <1>2, <1>4, <1>5, <1>6, <2>1
    <3>2. PrgStart <= p + k /\ p + k < Start
      BY <1>4, <1>5, <1>9, <2>1, <3>1
    <3> QED
      BY <1>4, <1>5, <1>6, <1>9, <2>1, <3>1, <3>2
  <2>2. CASE ~(banks = 1 /\ PrgStart <= p /\ p < Start)
    <3>1. Mirrored(p) = p
      BY <1>6, <2>2
    <3>2. ~(banks = 1 /\ PrgStart <= p + k /\ p + k < Start)
      BY <1>2, <1>5, <1>7, <1>9, <2>2
    <3> QED
      BY <1>6, <3>1, <3>2
  <2> QED
    BY <2>1, <2>2
<1> QED
  BY <1>1, <1>2, <1>3, <1>4, <1>8, <1>9

-----------------------------------------------------------------------------
(* What every step of a running program keeps.                              *)
Loaded == blocks = Blocks /\ ~RunsOut

Now == Right(mode, here, pc, stack)
Then == Right(mode', here', pc', stack')
FollowedNow == marked => Follows(mode, pc, stack)
FollowedThen == marked' => Follows(mode', pc', stack')

LEMMA AtCode ==
    ASSUME Compilable, Now, NEW codes, At(codes)
    PROVE  /\ mode = "static" /\ here \in Code /\ IsCode(here) /\ here \in Homes
           /\ statement[here].code \in codes /\ statement[here].code \in DOMAIN Shape
           /\ Size(here) = Shape[statement[here].code].size /\ Size(here) \in 1 .. 3
<1>1. mode = "static" /\ here \in Code /\ statement[here].code \in codes
  BY DEF At, Now, Right, InStep
<1>2. Typed /\ IsCode(here) /\ here \in Homes
  BY <1>1, CompilableIs, NextIs
<1> QED
  BY <1>1, <1>2, CodeIs

(* A step that goes on behind the instruction: the words on the stack are   *)
(* the ones that were there, or fewer.                                      *)
LEMMA FallingKeeps ==
    ASSUME Compilable, Loaded, Now, here \in Code, Falls(here), pc' = AddrNext, FallThrough,
           UNCHANGED marked, stack' \in {stack, Tail(stack)}, stack = << >> => stack' = stack
    PROVE  Then /\ (FollowedNow => FollowedThen)
<1>1. /\ mode' \in {"static", "interpret"} /\ InStep(mode', here', pc') /\ pc' \in Int
      /\ mode' = "interpret" => ~InCode(pc')
  BY FallingArrives DEF Loaded
<1>2. stack \in Seq(ReturnWords) => stack' \in Seq(ReturnWords)
  BY Stacks
<1>3. stack \in Seq(CallWords) => stack' \in Seq(CallWords)
  BY Stacks
<1>4. Then
  BY <1>1, <1>2 DEF Now, Then, Right
<1>5. Follows(mode, pc, stack) => Follows(mode', pc', stack')
  BY <1>1, <1>3 DEF Follows
<1> QED
  BY <1>4, <1>5, Zenon DEF FollowedNow, FollowedThen

LEMMA RunPlainKeeps ==
    ASSUME Compilable, Loaded, Now, RunPlain
    PROVE  Then /\ (FollowedNow => FollowedThen)
<1>1. here \in Code /\ Falls(here)
  BY AtCode DEF RunPlain, Falls
<1> QED
  BY <1>1, FallingKeeps DEF RunPlain

LEMMA RunTableHeadKeeps ==
    ASSUME Compilable, Loaded, Now, RunTableHead
    PROVE  Then /\ (FollowedNow => FollowedThen)
<1>1. here \in Code /\ Falls(here)
  BY AtCode DEF RunTableHead, Falls
<1> QED
  BY <1>1, FallingKeeps DEF RunTableHead

(* Compiled code that goes to a block or to the interpreter.                *)
LEMMA ArrivingKeeps ==
    ASSUME Now, pc' \in Int, mode' \in {"static", "interpret"}, InStep(mode', here', pc'),
           mode' = "interpret" => ~InCode(pc'), UNCHANGED marked,
           UNCHANGED stack \/ \E w \in ReturnWords \cap CallWords : stack' = <<w>> \o stack
    PROVE  Then /\ (FollowedNow => FollowedThen)
<1>1. stack \in Seq(ReturnWords) => stack' \in Seq(ReturnWords)
  BY Stacks
<1>2. stack \in Seq(CallWords) => stack' \in Seq(CallWords)
  BY Stacks
<1>3. Then
  BY <1>1 DEF Now, Then, Right
<1>4. Follows(mode, pc, stack) => Follows(mode', pc', stack')
  BY <1>2 DEF Follows
<1> QED
  BY <1>3, <1>4, Zenon DEF FollowedNow, FollowedThen

LEMMA LabelsTaken == \A c \in {"branch", "jmp", "jsr"} : Shape[c].label # "none"
BY DEF Shape

LEMMA RunBranchKeeps ==
    ASSUME Compilable, ~Overlaps, Loaded, Now, RunBranch
    PROVE  Then /\ (FollowedNow => FollowedThen)
<1>1. here \in Code /\ IsCode(here) /\ statement[here].code = "branch"
  BY AtCode DEF RunBranch
<1>2. CASE pc' = AddrNext /\ FallThrough
  BY <1>1, <1>2, FallingKeeps DEF RunBranch, Falls
<1>3. CASE \E l \in BlocksNamed(This.label) : pc' = LabelAddress(l) /\ GoTo(Follower(l.home))
  <2>1. PICK l \in Blocks : pc' = LabelAddress(l) /\ GoTo(Follower(l.home))
    BY <1>3 DEF BlocksNamed, Loaded
  <2>2. l.home \in list /\ Follower(l.home) = l.home /\ pc' \in Int /\ Mirrored(pc') = l.home
    BY <2>1, LabelLeads DEF Blocks
  <2>3. /\ mode' \in {"static", "interpret"} /\ InStep(mode', here', pc')
        /\ mode' = "interpret" => ~InCode(pc')
    BY <2>1, <2>2, Arrives
  <2> QED
    BY <2>2, <2>3, ArrivingKeeps DEF RunBranch
<1> QED
  BY <1>2, <1>3 DEF RunBranch

LEMMA RunJumpKeeps ==
    ASSUME Compilable, ~Overlaps, Loaded, Now, RunJump
    PROVE  Then /\ (FollowedNow => FollowedThen)
<1>1. here \in Code /\ TakesLabel(here)
  BY AtCode, LabelsTaken DEF RunJump, TakesLabel
<1>2. /\ mode' \in {"static", "interpret"} /\ InStep(mode', here', pc')
      /\ pc' \in Int
      /\ mode' = "interpret" => ~InCode(pc')
  BY <1>1, JumpingArrives DEF RunJump, Loaded
<1> QED
  BY <1>2, ArrivingKeeps DEF RunJump

LEMMA RunCallKeeps ==
    ASSUME Compilable, ~Overlaps, Loaded, Now, RunCall
    PROVE  Then /\ (FollowedNow => FollowedThen)
<1>1. here \in Code /\ TakesLabel(here) /\ here \in Callers
  BY AtCode, LabelsTaken DEF RunCall, TakesLabel, Callers
<1>2. /\ mode' \in {"static", "interpret"} /\ InStep(mode', here', pc')
      /\ pc' \in Int
      /\ mode' = "interpret" => ~InCode(pc')
  BY <1>1, JumpingArrives DEF RunCall, Loaded
<1>3. This.addr + 2 \in ReturnWords \cap CallWords
  BY <1>1, PushedWords DEF This
<1> QED
  BY <1>2, <1>3, ArrivingKeeps DEF RunCall

LEMMA TargetsAre ==
    ASSUME Compilable
    PROVE  Targets[banks] \subseteq Int
BY CompilableIs, DisassemblerAssumption

(* A return to where a call was made: its code has a block.                 *)
LEMMA ReturnsFollow ==
    ASSUME Compilable, ~Overlaps, NEW w \in CallWords, InCode(w + 1)
    PROVE  ReturnsElsewhere \/ \E l \in Blocks : LabelAddress(l) = w + 1
<1>1. PICK h \in Callers : w + 1 = Behind(h)
  BY DEF CallWords
<1>2. PICK a \in Int : a = w + 1
  BY DEF CallWords
<1>3. Typed /\ Located /\ banks \in 1 .. 2 /\ ReturnsLabelled /\ list \subseteq offsets /\ list \subseteq Int
  BY CompilableIs, TypedSets
<1>4. PICK x \in Code : x = Mirrored(a) /\ x = HomeOf(a) /\ x \in list
  <2>1. Mirrored(a) \in Homes /\ Mirrored(a) \in Code
    BY <1>2 DEF InCode
  <2> QED
    BY <1>3, <2>1, MirroredIs DEF Code
<1>5. Elem(a) = x
  BY <1>3, <1>4 DEF Located
<1>6. PICK l : l \in LabelsBefore(x)
  <2>1. x \in Kept
    BY <1>4, CompilableIs, KeptCode
  <2>2. Elem(Behind(h)) = x
    BY <1>1, <1>2, <1>5
  <2>3. LabelsBefore(x) # {}
    BY <1>3, <2>1, <2>2 DEF ReturnsLabelled
  <2> QED
    BY <2>3
<1>7. l \in labels /\ l.home = x
  <2>1. \A k \in labels : k.home \in Int
    BY <1>3, TypedSets DEF Typed, LabelsTyped
  <2> QED
    BY <1>3, <1>6, <2>1, LabelsStandAtHomes
<1>8. l \in Blocks
  BY <1>4, <1>7, CodeHasBlock
<1>9. LabelAddress(l) = a \/ ReturnsElsewhere
  BY <1>1, <1>2, <1>4, <1>7 DEF ReturnsElsewhere
<1> QED
  BY <1>2, <1>8, <1>9

LEMMA RunReturnKeeps ==
    ASSUME Compilable, ~Overlaps, Loaded, Now, RunReturn
    PROVE  Then /\ (FollowedNow => FollowedThen)
<1>1. mode' = "dynJump"
  BY DEF RunReturn
<1>2. InStep(mode', here', pc')
  BY <1>1 DEF InStep
<1>3. CASE stack = << >>
  <2>1. pc' \in Int /\ ~marked' /\ stack' = stack
    BY <1>3, TargetsAre DEF RunReturn
  <2> QED
    BY <1>2, <2>1 DEF Now, Then, Right, FollowedThen
<1>4. CASE stack # << >>
  <2>1. PICK w : w = Head(stack) /\ pc' = w + 1 /\ stack' = Tail(stack) /\ UNCHANGED marked
    BY <1>4 DEF RunReturn, Pulled
  <2>2. w \in ReturnWords /\ Tail(stack) \in Seq(ReturnWords)
    BY <1>4, <2>1, Stacks DEF Now, Right
  <2>3. Then
    BY <1>2, <2>1, <2>2 DEF Then, Right, ReturnWords
  <2>4. ASSUME Follows(mode, pc, stack) PROVE Follows(mode', pc', stack')
    <3>1. CASE stack \in Seq(CallWords) /\ ~ReturnsElsewhere
      <4>1. w \in CallWords /\ stack' \in Seq(CallWords)
        BY <1>4, <2>1, <3>1, Stacks
      <4>2. InCode(w + 1) => \E l \in Blocks : LabelAddress(l) = w + 1
        BY <3>1, <4>1, ReturnsFollow
      <4> QED
        BY <1>1, <2>1, <4>1, <4>2 DEF Follows
    <3> QED
      BY <2>4, <3>1 DEF Follows
  <2> QED
    BY <2>1, <2>3, <2>4, Zenon DEF FollowedNow, FollowedThen
<1> QED
  BY <1>3, <1>4

LEMMA RunJumpIndirectKeeps ==
    ASSUME Compilable, Now, RunJumpIndirect
    PROVE  Then /\ (FollowedNow => FollowedThen)
<1>1. pc' \in Int /\ ~marked' /\ stack' = stack /\ mode' = "dynJump"
  BY TargetsAre DEF RunJumpIndirect
<1> QED
  BY <1>1 DEF Now, Then, Right, InStep, FollowedThen

(* The table of all blocks goes where the address is.                       *)
LEMMA DynJumpGoes ==
    ASSUME Compilable, ~Overlaps, Loaded, Now, DynJump
    PROVE  \/ mode' = "interpret" /\ BlocksAtPc = {}
           \/ /\ mode' \in {"static", "interpret"} /\ InStep(mode', here', pc)
              /\ Skipped(mode', pc) \/ Place(mode', here', pc) = Mirrored(pc)
              /\ mode' = "interpret" => ~InCode(pc)
<1>1. CASE BlocksAtPc # {}
  <2>1. PICK l \in Blocks : LabelAddress(l) = pc /\ GoTo(Follower(l.home))
    BY <1>1 DEF DynJump, BlocksAtPc, Loaded
  <2>2. l.home \in list /\ Follower(l.home) = l.home /\ Mirrored(pc) = l.home
    BY <2>1, LabelLeads DEF Blocks
  <2> QED
    BY <2>1, <2>2, Arrives
<1> QED
  BY <1>1 DEF DynJump

LEMMA DynJumpKeeps ==
    ASSUME Compilable, ~Overlaps, Loaded, Now, DynJump
    PROVE  Then /\ (FollowedNow => FollowedThen)
<1>1. mode = "dynJump" /\ pc' = pc /\ stack' = stack /\ UNCHANGED marked
  BY DEF DynJump
<1>2. mode' \in {"static", "interpret"} /\ InStep(mode', here', pc')
  BY <1>1, DynJumpGoes DEF InStep
<1>3. ASSUME Follows(mode, pc, stack) PROVE Follows(mode', pc', stack')
  <2>1. ASSUME mode' = "interpret", InCode(pc) PROVE ReturnsElsewhere
    <3>1. BlocksAtPc = {}
      BY <2>1, DynJumpGoes
    <3> QED
      BY <1>1, <1>3, <2>1, <3>1 DEF Follows, BlocksAtPc, Loaded
  <2> QED
    BY <1>1, <1>2, <1>3, <2>1 DEF Follows
<1>4. Then
  BY <1>1, <1>2 DEF Now, Then, Right
<1> QED
  BY <1>1, <1>3, <1>4, Zenon DEF FollowedNow, FollowedThen

(* What is interpreted.                                                     *)
LEMMA InterpretedKeeps ==
    ASSUME Now, mode = "interpret", mode' = "dynJump", marked' = (marked /\ InCode(pc)),
           pc' \in Int, stack' \in Seq(ReturnWords)
    PROVE  Then /\ (FollowedNow => FollowedThen)
<1>1. Then
  BY DEF Then, Right, InStep
<1>2. InCode(pc) /\ Follows(mode, pc, stack) => Follows(mode', pc', stack')
  BY DEF Follows
<1> QED
  BY <1>1, <1>2, Zenon DEF FollowedNow, FollowedThen

LEMMA InterpretsIs ==
    ASSUME InterpretPlain \/ InterpretLdyZpgX \/ InterpretBranch \/ InterpretCall
    PROVE  /\ mode = "interpret" /\ mode' = "dynJump" /\ marked' = (marked /\ InCode(pc))
           /\ \E i \in Fetched :
                 \/ /\ i.code \in {"plain1", "plain2", "access"}
                    /\ InterpretLdyZpgX \/ pc' = pc + Shape[i.code].size
                    /\ pc' \in {pc + 1, pc + Shape[i.code].size} /\ UNCHANGED stack
                 \/ i.code = "branch" /\ pc' \in {pc + 2, i.value} /\ UNCHANGED stack
                 \/ i.code = "jsr" /\ pc' = i.value /\ stack' = <<ReturnAddress(pc + 3)>> \o stack
<1>1. CASE InterpretPlain
  BY <1>1 DEF InterpretPlain, Interprets
<1>2. CASE InterpretLdyZpgX
  BY <1>2 DEF InterpretLdyZpgX, Interprets
<1>3. CASE InterpretBranch
  BY <1>3 DEF InterpretBranch, Interprets
<1>4. CASE InterpretCall
  BY <1>4 DEF InterpretCall, Interprets
<1> QED
  BY <1>1, <1>2, <1>3, <1>4

LEMMA ShapeSizes ==
    /\ Shape["jsr"].size = 3 /\ Shape["branch"].size = 2
BY DEF Shape

LEMMA PushedByInterpreter ==
    ASSUME Compilable, pc \in Int, NEW i \in Fetched, i.code = "jsr",
           NEW w, w = ReturnAddress(pc + 3)
    PROVE  w \in ReturnWords /\ Mirrored(w) = Mirrored(pc) + 2 /\ Mirrored(pc) \in Int
<1>1. PICK p \in Int : p = pc
  OBVIOUS
<1>2. \A k \in 0 .. 3 : Mirrored(p + k) = Mirrored(p) + k
  BY <1>1, FetchedIs, ShapeSizes
<1>3. Mirrored(p) \in Int
  <2>1. Mirrored(pc) \in 0 .. End - 1 /\ End \in Nat
    BY FetchedIs, CompilableIs, Layout
  <2> QED
    BY <1>1, <2>1
<1>4. w = p + 2 /\ w + 1 = p + 3 /\ w \in Int
  BY <1>1 DEF ReturnAddress
<1>5. Mirrored(p + 2) = Mirrored(p) + 2 /\ Mirrored(p + 3) = Mirrored(p) + 3
  BY <1>2
<1>6. Mirrored(w + 1) = Mirrored(w) + 1
  BY <1>3, <1>4, <1>5
<1> QED
  BY <1>1, <1>3, <1>4, <1>5, <1>6 DEF ReturnWords

LEMMA InterpretsKeeps ==
    ASSUME Compilable, Now,
           InterpretPlain \/ InterpretLdyZpgX \/ InterpretBranch \/ InterpretCall
    PROVE  Then /\ (FollowedNow => FollowedThen)
<1>1. pc \in Int /\ stack \in Seq(ReturnWords)
  BY DEF Now, Right
<1>2. PICK i \in Fetched :
         \/ /\ i.code \in {"plain1", "plain2", "access"}
            /\ pc' \in {pc + 1, pc + Shape[i.code].size} /\ UNCHANGED stack
         \/ i.code = "branch" /\ pc' \in {pc + 2, i.value} /\ UNCHANGED stack
         \/ i.code = "jsr" /\ pc' = i.value /\ stack' = <<ReturnAddress(pc + 3)>> \o stack
  BY InterpretsIs
<1>3. i.value \in Int /\ Shape[i.code].size \in 1 .. 3
  BY <1>1, FetchedIs, ShapeFacts
<1>4. pc' \in Int
  BY <1>1, <1>2, <1>3
<1>5. stack' \in Seq(ReturnWords)
  BY <1>1, <1>2, PushedByInterpreter, Stacks
<1> QED
  BY <1>4, <1>5, InterpretsIs, InterpretedKeeps

LEMMA InterpretPanicsKeeps ==
    ASSUME Now, InterpretPanics
    PROVE  Then /\ (FollowedNow => FollowedThen)
<1>1. mode' = "panicked" /\ mode = "interpret" /\ pc' = pc /\ stack' = stack /\ UNCHANGED marked
  BY DEF InterpretPanics
<1>2. Then
  BY <1>1 DEF Now, Then, Right, InStep
<1>3. Follows(mode, pc, stack) => Follows(mode', pc', stack')
  BY <1>1 DEF Follows
<1> QED
  BY <1>1, <1>2, <1>3, Zenon DEF FollowedNow, FollowedThen

LEMMA CompileRuns ==
    ASSUME Compilable, ~Overlaps, Compile, pc = 0, stack = << >>
    PROVE  Then /\ FollowedThen
<1>1. pc' = 0 /\ stack' = << >> /\ stack' \in Seq(ReturnWords) /\ stack' \in Seq(CallWords)
  BY DEF Compile
<1>2. ~InCode(0)
  BY CompilableIs, NoCodeAtZero
<1>3. \A h : GoTo(h) => /\ mode' \in {"static", "interpret"}
                        /\ mode' = "static" => IsCode(here') /\ here' = PastOrgs(h)
  BY DEF GoTo
<1>4. CASE mode' \in {"crashed", "refused"}
  BY <1>1, <1>4 DEF Then, Right, InStep, FollowedThen, Follows
<1>5. CASE \E l \in blocks' : GoTo(Follower(l.home))
  <2>1. PICK l \in labels : GoTo(Follower(l.home))
    BY <1>5 DEF Compile
  <2>2. Follower(l.home) \in list
    BY <2>1, LabelLeads
  <2>3. PastOrgs(Follower(l.home)) \in list
    BY <2>2, PastOrgsIs
  <2>4. mode' \in {"static", "interpret"} /\ (mode' = "static" => here' \in Code)
    BY <1>3, <2>1, <2>3 DEF Code
  <2> QED
    BY <1>1, <1>2, <2>4 DEF Then, Right, InStep, FollowedThen, Follows
<1> QED
  BY <1>4, <1>5 DEF Compile

LEMMA CompileLoads ==
    ASSUME Compile
    PROVE  mode' \in {"crashed", "refused"} \/ (blocks' = Blocks /\ ~RunsOut)
BY DEF Compile, Blocks

RunInv ==
    /\ mode \in {"disassembling", "compiling", "labelled"} => pc = 0 /\ stack = << >>
    /\ mode \in {"static", "dynJump", "interpret"} => Loaded
    /\ Overlaps \/ (Now /\ FollowedNow)

LEMMA NotYetRunning ==
    ASSUME mode \in {"disassembling", "compiling", "labelled"}, pc = 0, stack = << >>
    PROVE  Now /\ FollowedNow
<1>1. stack \in Seq(ReturnWords) /\ stack \in Seq(CallWords)
  OBVIOUS
<1> QED
  BY <1>1 DEF Now, FollowedNow, Right, Follows, InStep

LEMMA StillNotRunning ==
    ASSUME mode' \in {"disassembling", "compiling", "labelled"}, pc' = 0, stack' = << >>
    PROVE  Now' /\ FollowedNow'
<1>1. stack' \in Seq(ReturnWords') /\ stack' \in Seq(CallWords')
  OBVIOUS
<1> QED
  BY <1>1 DEF Now, FollowedNow, Right, Follows, InStep

(* What was said of the ROM is still so when a step is over.                *)
LEMMA SameMirrors ==
    ASSUME UNCHANGED vars
    PROVE  \A a : Mirrored(a)' = Mirrored(a)
BY DEF vars, Mirrored, PrgStart, Start, End

LEMMA SameRom ==
    ASSUME UNCHANGED vars, UNCHANGED fills
    PROVE  /\ Overlaps' <=> Overlaps
           /\ ByteLost' <=> ByteLost
           /\ ReturnsElsewhere' <=> ReturnsElsewhere
           /\ RunsOut' <=> RunsOut
           /\ Code' = Code /\ Callers' = Callers /\ Blocks' = Blocks
           /\ \A a : (InCode(a)' <=> InCode(a)) /\ Mirrored(a)' = Mirrored(a)
           /\ \A l : LabelAddress(l)' = LabelAddress(l)
           /\ ReturnWords' = ReturnWords /\ CallWords' = CallWords
           /\ \A h : PastOrgs(h)' = PastOrgs(h)
<1>1. UNCHANGED <<banks, statement, list, labels>>
  BY DEF vars
<1>2. /\ Homes' = Homes /\ End' = End /\ Start' = Start /\ PrgStart' = PrgStart
      /\ \A h : Size(h)' = Size(h) /\ Behind(h)' = Behind(h) /\ (IsCode(h)' <=> IsCode(h))
  BY <1>1 DEF Homes, End, Start, PrgStart, Size, Behind, IsCode
<1>3. \A a : Mirrored(a)' = Mirrored(a)
  BY <1>1, <1>2 DEF Mirrored
<1>4. Code' = Code
  BY <1>1, <1>2 DEF Code
<1>5. \A a : InCode(a)' <=> InCode(a)
  BY <1>2, <1>3, <1>4 DEF InCode
<1>6. Callers' = Callers
  BY <1>1, <1>4 DEF Callers
<1>7. \A l : LabelAddress(l)' = LabelAddress(l)
  BY <1>1, <1>2 DEF LabelAddress
<1>8. Overlaps' <=> Overlaps
  BY <1>1 DEF Overlaps
<1>9. ByteLost' <=> ByteLost
  BY <1>1, <1>2 DEF ByteLost, Holders
<1>10. ReturnsElsewhere' <=> ReturnsElsewhere
  <2>1. \A h \in Callers : Mirrored(Behind(h))' = Mirrored(Behind(h))
    BY <1>1, <1>2 DEF Mirrored
  <2> QED
    BY <1>1, <1>2, <1>6, <1>7, <2>1 DEF ReturnsElsewhere
<1>11. (\A h : NextHome(h)' = NextHome(h)) /\ (\A h : PrevHome(h)' = PrevHome(h))
  BY <1>1 DEF NextHome, PrevHome
<1>12. RunsOut' <=> RunsOut
  BY <1>1, <1>2, <1>4, <1>11 DEF RunsOut, Falls
<1>13. Kept' = Kept /\ \A h : PastOrgs(h)' = PastOrgs(h)
  BY <1>1 DEF Kept, PastOrgs
<1>14. Blocks' = Blocks
  <2>1. \A h : PrevKept(h)' = PrevKept(h)
    BY <1>13 DEF PrevKept
  <2>2. \A h : LabelsAhead(h)' = LabelsAhead(h)
    BY <1>1, <2>1 DEF LabelsAhead
  <2>3. \A h : LastAhead(h)' = LastAhead(h)
    BY <2>2 DEF LastAhead
  <2>4. VisitEnd' = VisitEnd
    <3>1. {h \in Code : /\ LabelsAhead(h) = {}
                        /\ PrevKept(h) # None /\ ~IsCode(PrevKept(h))}'
           = {h \in Code : /\ LabelsAhead(h) = {}
                           /\ PrevKept(h) # None /\ ~IsCode(PrevKept(h))}
      BY <1>1, <1>4, <2>1, <2>2 DEF IsCode
    <3> QED
      BY <1>2, <3>1 DEF VisitEnd
  <2>5. LabeledData' = LabeledData
    BY <1>1, <1>4, <1>13, <2>2, <2>3, <2>4 DEF LabeledData
  <2> QED
    BY <1>1, <2>5 DEF Blocks
<1>15. ReturnWords' = ReturnWords
  BY <1>3 DEF ReturnWords
<1>16. CallWords' = CallWords
  BY <1>2, <1>6 DEF CallWords
<1> QED
  BY <1>3, <1>4, <1>5, <1>6, <1>7, <1>8, <1>9, <1>10, <1>12, <1>13, <1>14, <1>15, <1>16

LEMMA ThenIsNow ==
    ASSUME UNCHANGED vars, UNCHANGED fills
    PROVE  (Then => Now') /\ (FollowedThen => FollowedNow')
<1>1. PICK p : p = pc'
  OBVIOUS
<1>2. InCode(pc)' <=> InCode(p)
  BY <1>1, SameRom
<1>3. Mirrored(pc)' = Mirrored(p)
  BY <1>1, SameRom
<1>4. Then => Now'
  <2>1. PastOrgs(Mirrored(pc))' = PastOrgs(Mirrored(p))
    BY <1>3, SameRom
  <2>2. InStep(mode', here', pc') => InStep(mode, here, pc)'
    BY <1>1, <1>3, <2>1, SameRom DEF InStep
  <2> QED
    BY <2>2, SameRom DEF Then, Now, Right
<1>5. Follows(mode', pc', stack') => Follows(mode, pc, stack)'
  BY <1>1, <1>2, SameRom DEF Follows
<1> QED
  BY <1>4, <1>5, Zenon DEF FollowedNow, FollowedThen

LEMMA RunsKeep ==
    ASSUME Compilable, ~Overlaps, Loaded, Now, Runs
    PROVE  Then /\ (FollowedNow => FollowedThen)
BY RunPlainKeeps, RunTableHeadKeeps, RunBranchKeeps, RunJumpKeeps, RunCallKeeps, RunReturnKeeps,
   RunJumpIndirectKeeps, DynJumpKeeps, InterpretsKeeps, InterpretPanicsKeeps DEF Runs

(* Only a program that is loaded runs.                                      *)
LEMMA OnlyLoadedRuns ==
    ASSUME Runs
    PROVE  mode \in {"static", "dynJump", "interpret"} /\ UNCHANGED blocks
<1>1. ASSUME InterpretPlain \/ InterpretLdyZpgX \/ InterpretBranch \/ InterpretCall
      PROVE  mode = "interpret" /\ UNCHANGED blocks
  BY <1>1 DEF InterpretPlain, InterpretLdyZpgX, InterpretBranch, InterpretCall, Interprets
<1>2. ASSUME RunPlain \/ RunTableHead \/ RunBranch \/ RunJump \/ RunCall \/ RunReturn \/ RunJumpIndirect
      PROVE  mode = "static" /\ UNCHANGED blocks
  BY <1>2 DEF RunPlain, RunTableHead, RunBranch, RunJump, RunCall, RunReturn, RunJumpIndirect, At
<1> QED
  BY <1>1, <1>2 DEF Runs, DynJump, InterpretPanics

LEMMA RunInvStays ==
    ASSUME RunInv, Compile \/ Runs, Compilable
    PROVE  RunInv'
<1>1. UNCHANGED vars /\ UNCHANGED fills /\ mode' \notin {"disassembling", "compiling"}
  BY RunsKeepRom DEF Making
<1>2. mode' # "labelled"
  <2>1. CASE Compile
    BY <2>1 DEF Compile, GoTo
  <2>2. CASE Runs
    <3>1. \A h : GoTo(h) => mode' # "labelled"
      BY DEF GoTo
    <3>2. \A name : JumpTo(name) => mode' # "labelled"
      BY <3>1 DEF JumpTo
    <3> QED
      BY <2>2, <3>1, <3>2 DEF Runs, RunPlain, RunTableHead, RunBranch, RunJump, RunCall, RunReturn,
         RunJumpIndirect, DynJump, InterpretPlain, InterpretLdyZpgX, InterpretBranch, InterpretCall,
         Interprets, InterpretPanics, FallThrough
  <2> QED
    BY <2>1, <2>2
<1>3. mode' \in {"static", "dynJump", "interpret"} => Loaded'
  <2>1. CASE Compile
    BY <1>1, <2>1, CompileLoads, SameRom DEF Loaded
  <2>2. CASE Runs
    BY <1>1, <2>2, OnlyLoadedRuns, SameRom DEF RunInv, Loaded
  <2> QED
    BY <2>1, <2>2
<1>4. ASSUME ~Overlaps PROVE Now' /\ FollowedNow'
  <2>1. CASE Compile
    <3>1. Then /\ FollowedThen
      BY <1>4, <2>1, CompileRuns DEF RunInv, Compile
    <3> QED
      BY <1>1, <3>1, ThenIsNow
  <2>2. CASE Runs
    <3>1. Then /\ FollowedThen
      BY <1>4, <2>2, RunsKeep, OnlyLoadedRuns DEF RunInv
    <3> QED
      BY <1>1, <3>1, ThenIsNow
  <2> QED
    BY <2>1, <2>2
<1>5. Overlaps' <=> Overlaps
  BY <1>1, SameRom
<1> QED
  BY <1>1, <1>2, <1>3, <1>4, <1>5 DEF RunInv

LEMMA AlwaysRunInv == DispatchSpec => [](RunInv /\ (Making \/ Compilable))
<1>1. DispatchInit => RunInv
  BY NotYetRunning DEF DispatchInit, RunInv
<1>2. MarkingInv /\ Located /\ CompilesDone => (Making \/ Compilable)
  BY DEF CompilesDone, Compilable, Making
<1>3. DispatchSpec => [](Making \/ Compilable)
  BY <1>2, AlwaysMarking, AlwaysCompilesDone, PTL
<1>4. ASSUME RunInv, Making \/ Compilable, [DispatchNext]_<<vars, runVars>>
      PROVE  RunInv'
  <2>1. CASE UNCHANGED runVars /\ mode \in {"disassembling", "compiling", "labelled"}
    <3>1. UNCHANGED <<mode, pc, stack>> /\ pc = 0 /\ stack = << >>
      BY <1>4, <2>1 DEF runVars, RunInv
    <3>2. Now' /\ FollowedNow'
      BY <2>1, <3>1, StillNotRunning
    <3> QED
      BY <2>1, <3>1, <3>2 DEF RunInv
  <2>2. CASE UNCHANGED <<vars, runVars>>
    <3>1. UNCHANGED <<mode, fills, here, pc, stack, blocks, marked>>
      BY <2>2 DEF runVars
    <3>2. Overlaps' <=> Overlaps
      BY <2>2, <3>1, SameRom
    <3>3. Now /\ FollowedNow => Then /\ FollowedThen
      BY <3>1 DEF Now, Then, FollowedNow, FollowedThen
    <3>4. Loaded => Loaded'
      BY <2>2, <3>1, SameRom DEF Loaded
    <3> QED
      BY <1>4, <2>2, <3>1, <3>2, <3>3, <3>4, ThenIsNow DEF RunInv
  <2>3. CASE AddLabelsAfterJsrs
    <3>1. mode = "compiling" /\ mode' = "labelled" /\ UNCHANGED <<pc, stack>> /\ pc = 0 /\ stack = << >>
      BY <1>4, <2>3 DEF AddLabelsAfterJsrs, RunInv
    <3>2. Now' /\ FollowedNow'
      BY <3>1, StillNotRunning
    <3> QED
      BY <3>1, <3>2 DEF RunInv
  <2>4. CASE MakeOrgs
    <3>1. mode = "disassembling" /\ mode' = "compiling" /\ UNCHANGED <<pc, stack>> /\ pc = 0 /\ stack = << >>
      BY <1>4, <2>4 DEF MakeOrgs, RunInv
    <3>2. Now' /\ FollowedNow'
      BY <3>1, StillNotRunning
    <3> QED
      BY <3>1, <3>2 DEF RunInv
  <2>5. CASE Compile \/ Runs
    BY <1>4, <2>5, RunsKeepRom, RunInvStays
  <2>6. CASE [Next]_vars /\ UNCHANGED runVars
    <3>1. CASE Making
      BY <2>1, <2>6, <3>1 DEF Making
    <3>2. CASE ~Making
      <4>1. phase = "done"
        BY <1>4, <3>2 DEF Compilable
      <4> QED
        BY <2>2, <2>6, <4>1, NothingMarkedAfterwards
    <3> QED
      BY <3>1, <3>2
  <2> QED
    BY <1>4, <2>3, <2>4, <2>5, <2>6, DispatchSteps
<1> QED
  BY <1>1, <1>3, <1>4, PTL DEF DispatchSpec

(* The register names the instruction that compiled code is at: what the    *)
(* stores to rPC of Instruction.Compile, createBranch and the dispatch of   *)
(* addDynJumpTable keep through every jump, call, return, fall-through and  *)
(* spell of interpretation, for every ROM: where code was led to an .org it *)
(* names the .org, and the code is at what is behind.                       *)
THEOREM PcAlwaysNamesInstruction == DispatchSpec => []PcNamesInstruction
<1>1. RunInv => PcNamesInstruction
  BY DEF RunInv, Now, Right, InStep, PcNamesInstruction, SkippedOrg
<1> QED
  BY <1>1, AlwaysRunInv, PTL

(* What marking found is never left to the interpreter, which panics at     *)
(* most op codes, as long as no address was computed: the label that        *)
(* addLabelsAfterJsrs puts behind a call is in the table of every return.   *)
THEOREM MarkedNeverInterpreted == DispatchSpec => []NeverInterpreted
<1>1. RunInv => NeverInterpreted
  BY DEF RunInv, FollowedNow, Follows, NeverInterpreted
<1> QED
  BY <1>1, AlwaysRunInv, PTL

-----------------------------------------------------------------------------
(* The processor.                                                           *)
Words(s) == [k \in DOMAIN s |-> Mirrored(s[k])]

(* From address a with the words t on the stack to address b with u.        *)
From(a, t, b, u) ==
    /\ a = Place(mode, here, pc) /\ t = Words(stack)
    /\ b = Place(mode', here', pc') /\ u = Words(stack')

LEMMA Processes ==
    ASSUME UNCHANGED vars, NEW a, NEW t, NEW b, NEW u, From(a, t, b, u)
    PROVE  /\ (IF mode = "static" THEN here ELSE Mirrored(pc)) = a
           /\ (IF mode = "static" THEN here ELSE Mirrored(pc))' = b
           /\ [k \in DOMAIN stack |-> Mirrored(stack[k])] = t
           /\ [k \in DOMAIN stack |-> Mirrored(stack[k])]' = u
<1>1. PICK p : p = pc'
  OBVIOUS
<1>2. Mirrored(pc)' = Mirrored(p)
  BY <1>1, SameMirrors
<1>3. \A k \in DOMAIN stack' : Mirrored(stack[k])' = Mirrored(stack'[k])
  BY SameMirrors
<1>4. (IF mode = "static" THEN here ELSE Mirrored(pc))' = b
  BY <1>1, <1>2 DEF From, Place
<1>5. [k \in DOMAIN stack |-> Mirrored(stack[k])]' = u
  BY <1>3 DEF From, Words
<1> QED
  BY <1>4, <1>5 DEF From, Place, Words

(* Fetch of Cpu, by kinds.                                                  *)
Fetches(i, a, t, b, u) ==
    LET after == a + Shape[i.code].size
    IN  \/ i.code \in {"plain1", "plain2", "access"} /\ b = after /\ u = t
        \/ i.code = "head" /\ b = after /\ u = IF t = << >> THEN << >> ELSE Tail(t)
        \/ i.code = "branch" /\ b \in {after, i.value} /\ u = t
        \/ i.code = "jmp" /\ b = i.value /\ u = t
        \/ i.code \in {"jmpInd", "tail"} /\ (\E w \in Targets[banks] : b = Mirrored(w)) /\ u = t
        \/ i.code = "jsr" /\ b = i.value /\ u = <<after - 1>> \o t
        \/ i.code = "stop" /\ IF t = << >>
                              THEN (\E w \in Targets[banks] : b = Mirrored(w)) /\ u = t
                              ELSE b = Head(t) + 1 /\ u = Tail(t)

LEMMA FetchesIs ==
    ASSUME UNCHANGED vars, NEW a, NEW t, NEW b, NEW u, From(a, t, b, u),
           NEW i, i.code \in DOMAIN Shape, Fetches(i, a, t, b, u)
    PROVE  Processor!Fetch(i)
<1>1. PICK c : c = i.code
  OBVIOUS
<1>2. [k \in DOMAIN Shape |-> Shape[k].size][c] = Shape[c].size
  BY <1>1
<1>3. /\ (IF mode = "static" THEN here ELSE Mirrored(pc)) = a
      /\ (IF mode = "static" THEN here ELSE Mirrored(pc))' = b
      /\ [k \in DOMAIN stack |-> Mirrored(stack[k])] = t
      /\ [k \in DOMAIN stack |-> Mirrored(stack[k])]' = u
  BY Processes
<1>4. CASE c \in {"plain1", "plain2", "access"}
  BY <1>1, <1>2, <1>3, <1>4 DEF Fetches, Processor!Fetch, Processor!After
<1>5. CASE c = "head"
  BY <1>1, <1>2, <1>3, <1>5 DEF Fetches, Processor!Fetch, Processor!After
<1>6. CASE c = "branch"
  BY <1>1, <1>2, <1>3, <1>6 DEF Fetches, Processor!Fetch, Processor!After
<1>7. CASE c = "jmp"
  BY <1>1, <1>2, <1>3, <1>7 DEF Fetches, Processor!Fetch, Processor!After
<1>8. CASE c \in {"jmpInd", "tail"}
  BY <1>1, <1>2, <1>3, <1>8 DEF Fetches, Processor!Fetch, Processor!After
<1>9. CASE c = "jsr"
  BY <1>1, <1>2, <1>3, <1>9 DEF Fetches, Processor!Fetch, Processor!After
<1>10. CASE c = "stop"
  BY <1>1, <1>2, <1>3, <1>10 DEF Fetches, Processor!Fetch, Processor!After
<1> QED
  BY <1>1, <1>4, <1>5, <1>6, <1>7, <1>8, <1>9, <1>10 DEF Shape

(* What may be at an address may be fetched at its home.                    *)
LEMMA StepsAsProcessor ==
    ASSUME Compilable, UNCHANGED vars, NEW a, NEW t, NEW b, NEW u, From(a, t, b, u),
           NEW p \in Int, Mirrored(p) = a, a \in 0 .. End - 1, NEW i \in Instructions(p),
           NEW j, j = [code |-> i.code, value |-> Mirrored(i.value)], Fetches(j, a, t, b, u)
    PROVE  Processor!Next
<1>1. i = [code |-> i.code, value |-> i.value] /\ i.code \in DOMAIN Shape
  BY InstructionIs
<1>2. j = [i EXCEPT !.value = Mirrored(@)]
  BY <1>1
<1>3. p \in Aliases(a)
  <2>1. BankSize[1] \in Int /\ a \in Int
    BY CompilableIs, Layout, DisassemblerAssumption
  <2>2. p = a \/ p = a - BankSize[1]
    BY <2>1 DEF Mirrored
  <2> QED
    BY <2>2 DEF Aliases
<1>4. j \in {[k EXCEPT !.value = Mirrored(@)] : k \in UNION {Instructions(q) : q \in Aliases(a)}}
  BY <1>2, <1>3
<1> DEFINE H == [e \in 0 .. End - 1 |->
                 {[k EXCEPT !.value = Mirrored(@)] :
                    k \in UNION {Instructions(q) : q \in Aliases(e)}}]
<1>5. j \in H[a]
  BY <1>4
<1>6. j.code \in DOMAIN Shape
  BY <1>1
<1>7. Processor!Fetch(j)
  BY <1>6, FetchesIs
<1>8. (IF mode = "static" THEN here ELSE Mirrored(pc)) = a
  BY Processes
<1>9. Processor!Next <=> \E k \in H[IF mode = "static" THEN here ELSE Mirrored(pc)] : Processor!Fetch(k)
  BY DEF Processor!Next
<1> HIDE DEF H
<1> QED
  BY <1>5, <1>7, <1>8, <1>9

LEMMA MirroredInt ==
    ASSUME NEW w \in Int
    PROVE  Mirrored(w) \in Int
<1>1. BankSize[1] \in Int
  BY DisassemblerAssumption
<1> QED
  BY <1>1 DEF Mirrored

(* The stack as the processor sees it.                                      *)
LEMMA WordsAre ==
    ASSUME NEW s \in Seq(Int)
    PROVE  /\ Words(s) \in Seq(Int) /\ Len(Words(s)) = Len(s)
           /\ \A k \in 1 .. Len(s) : Words(s)[k] = Mirrored(s[k])
           /\ Words(s) = << >> <=> s = << >>
<1>1. DOMAIN s = 1 .. Len(s) /\ Len(s) \in Nat /\ \A k \in 1 .. Len(s) : s[k] \in Int
  OBVIOUS
<1>2. Words(s) = [k \in 1 .. Len(s) |-> Mirrored(s[k])]
  BY <1>1 DEF Words
<1>3. \A k \in 1 .. Len(s) : Mirrored(s[k]) \in Int
  BY <1>1, MirroredInt
<1>4. Words(s) \in Seq(Int) /\ Len(Words(s)) = Len(s)
  BY <1>1, <1>2, <1>3
<1> QED
  BY <1>1, <1>2, <1>4

LEMMA WordsPulled ==
    ASSUME NEW s \in Seq(Int), s # << >>
    PROVE  Head(Words(s)) = Mirrored(Head(s)) /\ Tail(Words(s)) = Words(Tail(s))
<1>1. /\ Tail(s) \in Seq(Int) /\ Len(Tail(s)) = Len(s) - 1 /\ Len(s) \in Nat \ {0}
      /\ \A k \in 1 .. Len(s) - 1 : Tail(s)[k] = s[k + 1]
      /\ Head(s) = s[1]
  OBVIOUS
<1>2. /\ Words(s) \in Seq(Int) /\ Len(Words(s)) = Len(s) /\ Words(s) # << >>
      /\ \A k \in 1 .. Len(s) : Words(s)[k] = Mirrored(s[k])
  BY WordsAre
<1>3. /\ Words(Tail(s)) \in Seq(Int) /\ Len(Words(Tail(s))) = Len(s) - 1
      /\ \A k \in 1 .. Len(s) - 1 : Words(Tail(s))[k] = Mirrored(Tail(s)[k])
  BY <1>1, WordsAre
<1>4. PICK y \in Seq(Int) : y = Words(s)
  BY <1>2
<1>5. /\ Tail(y) \in Seq(Int) /\ Len(Tail(y)) = Len(s) - 1
      /\ \A k \in 1 .. Len(s) - 1 : Tail(y)[k] = y[k + 1]
      /\ Head(y) = y[1]
  BY <1>2, <1>4
<1>6. ASSUME NEW k \in 1 .. Len(s) - 1 PROVE Tail(y)[k] = Words(Tail(s))[k]
  <2>1. k + 1 \in 1 .. Len(s)
    <3>1. PICK n \in Nat : n = Len(s)
      BY <1>1
    <3> QED
      BY <3>1
  <2>2. Tail(y)[k] = y[k + 1] /\ y[k + 1] = Mirrored(s[k + 1])
    BY <1>2, <1>4, <1>5, <2>1
  <2>3. Words(Tail(s))[k] = Mirrored(Tail(s)[k]) /\ Tail(s)[k] = s[k + 1]
    BY <1>1, <1>3
  <2> QED
    BY <2>2, <2>3
<1>7. Tail(y) = Words(Tail(s))
  BY <1>3, <1>5, <1>6, SeqEqual
<1>8. 1 \in 1 .. Len(s)
  BY <1>1
<1> QED
  BY <1>1, <1>2, <1>4, <1>5, <1>7, <1>8

LEMMA OnTop ==
    ASSUME NEW s \in Seq(Int), NEW w \in Int, NEW r, r = <<w>> \o s
    PROVE  /\ r \in Seq(Int) /\ Len(r) = Len(s) + 1 /\ r[1] = w /\ Len(s) \in Nat
           /\ \A k \in 1 .. Len(s) : r[k + 1] = s[k]
<1>1. PICK one \in Seq(Int) : one = <<w>> /\ Len(one) = 1 /\ one[1] = w
  <2>1. <<w>> \in Seq(Int) /\ Len(<<w>>) = 1 /\ <<w>>[1] = w
    OBVIOUS
  <2> QED
    BY <2>1
<1>2. /\ r \in Seq(Int) /\ Len(r) = 1 + Len(s) /\ Len(s) \in Nat
      /\ \A k \in 1 .. 1 + Len(s) : r[k] = IF k <= 1 THEN one[k] ELSE s[k - 1]
  BY <1>1, ConcatProperties, LenProperties
<1>3. r[1] = w
  BY <1>1, <1>2
<1>4. ASSUME NEW k \in 1 .. Len(s) PROVE r[k + 1] = s[k]
  <2>1. k + 1 \in 1 .. 1 + Len(s) /\ ~(k + 1 <= 1) /\ (k + 1) - 1 = k
    BY <1>2
  <2> QED
    BY <1>2, <2>1
<1> QED
  BY <1>2, <1>3, <1>4

LEMMA WordsPushed ==
    ASSUME NEW s \in Seq(Int), NEW w \in Int
    PROVE  Words(<<w>> \o s) = <<Mirrored(w)>> \o Words(s)
<1>1. PICK r : r = <<w>> \o s
  OBVIOUS
<1>2. /\ r \in Seq(Int) /\ Len(r) = Len(s) + 1 /\ r[1] = w /\ Len(s) \in Nat
      /\ \A k \in 1 .. Len(s) : r[k + 1] = s[k]
  BY <1>1, OnTop
<1>3. PICK m \in Int : m = Mirrored(w)
  BY MirroredInt
<1>4. PICK y \in Seq(Int) : /\ y = Words(s) /\ Len(y) = Len(s)
                            /\ \A k \in 1 .. Len(s) : y[k] = Mirrored(s[k])
  BY WordsAre
<1>5. PICK q : q = <<m>> \o y
  OBVIOUS
<1>6. /\ q \in Seq(Int) /\ Len(q) = Len(s) + 1 /\ q[1] = m
      /\ \A k \in 1 .. Len(s) : q[k + 1] = y[k]
  BY <1>4, <1>5, OnTop
<1>7. PICK z \in Seq(Int) : /\ z = Words(r) /\ Len(z) = Len(r)
                            /\ \A k \in 1 .. Len(r) : z[k] = Mirrored(r[k])
  BY <1>2, WordsAre
<1>8. ASSUME NEW k \in 1 .. Len(r) PROVE z[k] = q[k]
  <2>1. CASE k = 1
    BY <1>2, <1>3, <1>6, <1>7, <2>1
  <2>2. CASE k # 1
    <3>1. k - 1 \in 1 .. Len(s) /\ (k - 1) + 1 = k
      BY <1>2, <2>2
    <3> QED
      BY <1>2, <1>4, <1>6, <1>7, <3>1
  <2> QED
    BY <2>1, <2>2
<1>9. z = q
  BY <1>2, <1>6, <1>7, <1>8, SeqEqual
<1> QED
  BY <1>1, <1>3, <1>4, <1>5, <1>7, <1>9

LEMMA CompiledSteps ==
    ASSUME Compilable, UNCHANGED vars, mode = "static", here \in Code,
           NEW t, NEW b, NEW u, From(here, t, b, u),
           NEW j, j = [code |-> statement[here].code, value |-> Mirrored(statement[here].value)],
           Fetches(j, here, t, b, u)
    PROVE  Processor!Next
<1>1. banks \in 1 .. 2 /\ here \in Homes
  BY CompilableIs, NextIs
<1>2. here \in Int /\ here \in 0 .. End - 1
  BY <1>1, Layout
<1>3. Mirrored(here) = here
  BY <1>1, <1>2, MirroredIs DEF HomeOf
<1>4. PICK i : i = [code |-> statement[here].code, value |-> statement[here].value]
  OBVIOUS
<1>5. i \in Instructions(here)
  BY <1>1, <1>3, <1>4 DEF Instructions, InCode
<1>6. j = [code |-> i.code, value |-> Mirrored(i.value)]
  BY <1>4
<1> QED
  BY <1>2, <1>3, <1>5, <1>6, StepsAsProcessor

LEMMA StackIs ==
    ASSUME Now
    PROVE  stack \in Seq(Int) /\ stack \in Seq(ReturnWords) /\ pc \in Int
<1>1. ReturnWords \subseteq Int /\ stack \in Seq(ReturnWords) /\ pc \in Int
  BY DEF ReturnWords, Now, Right
<1> QED
  BY <1>1, SeqMonotonic

(* Compiled code, instruction by instruction.                               *)
LEMMA FallsAsProcessor ==
    ASSUME Compilable, ~ByteLost, Loaded, Now, UNCHANGED vars, RunPlain \/ RunTableHead, ~SkipsOrg
    PROVE  Processor!Next
<1>1. /\ mode = "static" /\ here \in Code /\ Falls(here)
      /\ Size(here) = Shape[statement[here].code].size
      /\ statement[here].code \in {"plain1", "plain2", "access", "head"}
      /\ statement[here].code = "head" <=> RunTableHead
  BY AtCode DEF RunPlain, RunTableHead, Falls, At
<1>2. PICK t, b, u : t = Words(stack) /\ b = Place(mode', here', pc') /\ u = Words(stack')
  OBVIOUS
<1>3. From(here, t, b, u)
  BY <1>1, <1>2 DEF From, Place
<1>4. b = here + Size(here)
  BY <1>1, <1>2, FallingArrives DEF RunPlain, RunTableHead, Loaded, SkipsOrg, Skipped
<1>5. PICK j : j = [code |-> statement[here].code, value |-> Mirrored(statement[here].value)]
  OBVIOUS
<1>6. CASE RunPlain
  <2>1. u = t
    BY <1>2, <1>6 DEF RunPlain
  <2>2. statement[here].code \in {"plain1", "plain2", "access"}
    BY <1>6 DEF RunPlain, At
  <2>3. Fetches(j, here, t, b, u)
    BY <1>1, <1>4, <1>5, <2>1, <2>2 DEF Fetches
  <2> QED
    BY <1>1, <1>3, <1>5, <2>3, CompiledSteps
<1>7. CASE RunTableHead
  <2>1. u = IF t = << >> THEN << >> ELSE Tail(t)
    <3>1. stack \in Seq(Int)
      BY StackIs
    <3>2. t = << >> <=> stack = << >>
      BY <1>2, <3>1, WordsAre
    <3>3. CASE stack = << >>
      BY <1>2, <1>7, <3>2, <3>3 DEF RunTableHead
    <3>4. CASE stack # << >>
      BY <1>2, <1>7, <3>1, <3>2, <3>4, WordsPulled DEF RunTableHead
    <3> QED
      BY <3>3, <3>4
  <2>2. Fetches(j, here, t, b, u)
    BY <1>1, <1>4, <1>5, <1>7, <2>1 DEF Fetches
  <2> QED
    BY <1>1, <1>3, <1>5, <2>2, CompiledSteps
<1> QED
  BY <1>6, <1>7

LEMMA BranchesAsProcessor ==
    ASSUME Compilable, ~Overlaps, ~ByteLost, Loaded, Now, UNCHANGED vars, RunBranch, ~SkipsOrg
    PROVE  Processor!Next
<1>1. /\ mode = "static" /\ here \in Code /\ Falls(here) /\ TakesLabel(here)
      /\ Size(here) = Shape[statement[here].code].size
      /\ statement[here].code = "branch"
  BY AtCode, LabelsTaken DEF RunBranch, Falls, TakesLabel, At
<1>2. PICK t, b, u : t = Words(stack) /\ b = Place(mode', here', pc') /\ u = Words(stack')
  OBVIOUS
<1>3. From(here, t, b, u) /\ u = t
  BY <1>1, <1>2 DEF From, Place, RunBranch
<1>4. PICK j : j = [code |-> statement[here].code, value |-> Mirrored(statement[here].value)]
  OBVIOUS
<1>5. b \in {here + Size(here), Mirrored(statement[here].value)}
  <2>1. CASE pc' = AddrNext /\ FallThrough
    BY <1>1, <1>2, <2>1, FallingArrives DEF Loaded, SkipsOrg, Skipped
  <2>2. CASE \E l \in BlocksNamed(This.label) : pc' = LabelAddress(l) /\ GoTo(Follower(l.home))
    <3>1. PICK l \in Blocks : l.name = This.label /\ pc' = LabelAddress(l) /\ GoTo(Follower(l.home))
      BY <2>2 DEF BlocksNamed, Loaded
    <3>2. /\ l.home \in list /\ Follower(l.home) = l.home /\ Mirrored(pc') = l.home
          /\ Mirrored(statement[here].value) = l.home
      BY <1>1, <3>1, OperandLeads DEF This
    <3>3. b = l.home
      BY <1>2, <3>1, <3>2, Arrives DEF SkipsOrg, Skipped
    <3> QED
      BY <3>2, <3>3
  <2> QED
    BY <2>1, <2>2 DEF RunBranch
<1>6. Fetches(j, here, t, b, u)
  BY <1>1, <1>3, <1>4, <1>5 DEF Fetches
<1> QED
  BY <1>1, <1>3, <1>4, <1>6, CompiledSteps

LEMMA JumpsAsProcessor ==
    ASSUME Compilable, ~Overlaps, Loaded, Now, UNCHANGED vars, RunJump, ~JumpOutOfRom, ~SkipsOrg
    PROVE  Processor!Next
<1>1. /\ mode = "static" /\ here \in Code /\ TakesLabel(here) /\ statement[here].code = "jmp"
      /\ This.label # None
  BY AtCode, LabelsTaken DEF RunJump, TakesLabel, JumpOutOfRom
<1>2. PICK t, b, u : t = Words(stack) /\ b = Place(mode', here', pc') /\ u = Words(stack')
  OBVIOUS
<1>3. From(here, t, b, u) /\ u = t
  BY <1>1, <1>2 DEF From, Place, RunJump
<1>4. PICK j : j = [code |-> statement[here].code, value |-> Mirrored(statement[here].value)]
  OBVIOUS
<1>5. b = Mirrored(statement[here].value)
  <2>1. Place(mode', here', pc') = Mirrored(This.value)
    BY <1>1, JumpingArrives DEF RunJump, Loaded, SkipsOrg, Skipped
  <2> QED
    BY <1>2, <2>1 DEF This
<1>6. Fetches(j, here, t, b, u)
  BY <1>1, <1>3, <1>4, <1>5 DEF Fetches
<1> QED
  BY <1>1, <1>3, <1>4, <1>6, CompiledSteps

LEMMA CallsAsProcessor ==
    ASSUME Compilable, ~Overlaps, Loaded, Now, UNCHANGED vars, RunCall, ~SkipsOrg
    PROVE  Processor!Next
<1>1. /\ mode = "static" /\ here \in Code /\ TakesLabel(here) /\ statement[here].code = "jsr"
      /\ here \in Callers /\ here \in Homes
      /\ Size(here) = Shape[statement[here].code].size /\ Size(here) \in 1 .. 3
  BY AtCode, LabelsTaken DEF RunCall, TakesLabel, Callers
<1>2. PICK t, b, u : t = Words(stack) /\ b = Place(mode', here', pc') /\ u = Words(stack')
  OBVIOUS
<1>3. From(here, t, b, u)
  BY <1>1, <1>2 DEF From, Place
<1>4. PICK j : j = [code |-> statement[here].code, value |-> Mirrored(statement[here].value)]
  OBVIOUS
<1>5. b = Mirrored(statement[here].value)
  <2>1. pc' = This.value /\ JumpTo(This.label) /\ blocks = Blocks
    BY DEF RunCall, Loaded
  <2>2. Place(mode', here', pc') = Mirrored(This.value)
    BY <1>1, <2>1, JumpingArrives DEF SkipsOrg, Skipped
  <2> QED
    BY <1>2, <2>2 DEF This
<1>6. u = <<(here + Shape[statement[here].code].size) - 1>> \o t
  <2>1. PICK w \in Int : w = This.addr + 2 /\ Mirrored(w) = here + 2 /\ here + Size(here) - 1 = here + 2
    BY <1>1, PushedWords DEF This, ReturnWords
  <2>2. stack' = <<w>> \o stack
    BY <2>1 DEF RunCall
  <2>3. Words(stack') = <<Mirrored(w)>> \o Words(stack)
    <3>1. PICK s \in Seq(Int) : s = stack
      BY StackIs
    <3>2. Words(<<w>> \o s) = <<Mirrored(w)>> \o Words(s)
      BY WordsPushed
    <3> QED
      BY <2>2, <3>1, <3>2
  <2>4. (here + Shape[statement[here].code].size) - 1 = here + 2
    <3>1. PICK n \in 1 .. 3 : n = Shape[statement[here].code].size /\ n = Size(here)
      BY <1>1
    <3>2. PICK h \in Int : h = here
      BY <1>1 DEF Homes
    <3>3. h + n - 1 = h + 2
      BY <2>1, <3>1, <3>2
    <3>4. (h + n) - 1 = h + 2
      BY <3>3
    <3> QED
      BY <3>1, <3>2, <3>4
  <2> QED
    BY <1>2, <2>1, <2>3, <2>4
<1>7. Fetches(j, here, t, b, u)
  BY <1>1, <1>4, <1>5, <1>6 DEF Fetches
<1> QED
  BY <1>1, <1>3, <1>4, <1>7, CompiledSteps

LEMMA ReturnsAsProcessor ==
    ASSUME Compilable, Loaded, Now, UNCHANGED vars, RunReturn \/ RunJumpIndirect
    PROVE  Processor!Next
<1>1. /\ mode = "static" /\ here \in Code /\ mode' = "dynJump"
      /\ IF RunReturn THEN statement[here].code = "stop"
                      ELSE statement[here].code \in {"jmpInd", "tail"}
  BY AtCode DEF RunReturn, RunJumpIndirect
<1>2. PICK t, b, u : t = Words(stack) /\ b = Place(mode', here', pc') /\ u = Words(stack')
  OBVIOUS
<1>3. From(here, t, b, u) /\ b = Mirrored(pc')
  BY <1>1, <1>2 DEF From, Place
<1>4. PICK j : j = [code |-> statement[here].code, value |-> Mirrored(statement[here].value)]
  OBVIOUS
<1>5. CASE RunReturn
  <2>1. stack \in Seq(Int) /\ (t = << >> <=> stack = << >>)
    BY <1>2, StackIs, WordsAre
  <2>2. CASE stack = << >>
    <3>1. u = t /\ \E w \in Targets[banks] : b = Mirrored(w)
      BY <1>2, <1>3, <1>5, <2>2 DEF RunReturn
    <3>2. Fetches(j, here, t, b, u)
      BY <1>1, <1>4, <1>5, <2>1, <2>2, <3>1 DEF Fetches
    <3> QED
      BY <1>1, <1>3, <1>4, <3>2, CompiledSteps
  <2>3. CASE stack # << >>
    <3>1. PICK w \in ReturnWords : w = Head(stack) /\ pc' = w + 1 /\ stack' = Tail(stack)
      BY <1>5, <2>3, StackIs, Stacks DEF RunReturn, Pulled
    <3>2. b = Mirrored(w) + 1
      BY <1>3, <3>1 DEF ReturnWords
    <3>3. Head(t) = Mirrored(w) /\ u = Tail(t)
      BY <1>2, <2>1, <2>3, <3>1, WordsPulled
    <3>4. Fetches(j, here, t, b, u)
      BY <1>1, <1>4, <1>5, <2>1, <2>3, <3>2, <3>3 DEF Fetches
    <3> QED
      BY <1>1, <1>3, <1>4, <3>4, CompiledSteps
  <2> QED
    BY <2>2, <2>3
<1>6. CASE ~RunReturn
  <2>1. u = t /\ \E w \in Targets[banks] : b = Mirrored(w)
    BY <1>2, <1>3, <1>6 DEF RunJumpIndirect
  <2>2. Fetches(j, here, t, b, u)
    BY <1>1, <1>4, <1>6, <2>1 DEF Fetches
  <2> QED
    BY <1>1, <1>3, <1>4, <2>2, CompiledSteps
<1> QED
  BY <1>5, <1>6

(* The table of blocks and the interpreter.                                 *)
LEMMA StandsStillAsProcessor ==
    ASSUME UNCHANGED vars, NEW a, NEW t, From(a, t, a, t)
    PROVE  UNCHANGED Processor!cpuVars
BY Processes DEF Processor!cpuVars

LEMMA DynJumpAsProcessor ==
    ASSUME Compilable, ~Overlaps, Loaded, Now, UNCHANGED vars, DynJump, ~SkipsOrg
    PROVE  UNCHANGED Processor!cpuVars
<1>1. mode = "dynJump" /\ pc' = pc /\ stack' = stack
  BY DEF DynJump
<1>2. Place(mode', here', pc') = Mirrored(pc)
  BY <1>1, DynJumpGoes DEF Place, SkipsOrg, Skipped
<1>3. Place(mode, here, pc) = Mirrored(pc)
  BY <1>1 DEF Place
<1>4. PICK a, t : a = Mirrored(pc) /\ t = Words(stack)
  OBVIOUS
<1>5. From(a, t, a, t)
  BY <1>1, <1>2, <1>3, <1>4 DEF From
<1> QED
  BY <1>5, StandsStillAsProcessor

LEMMA PanicsAsProcessor ==
    ASSUME UNCHANGED vars, InterpretPanics
    PROVE  UNCHANGED Processor!cpuVars
<1>1. mode = "interpret" /\ mode' = "panicked" /\ pc' = pc /\ stack' = stack
  BY DEF InterpretPanics
<1>2. PICK a, t : a = Mirrored(pc) /\ t = Words(stack)
  OBVIOUS
<1>3. From(a, t, a, t)
  BY <1>1, <1>2 DEF From, Place
<1> QED
  BY <1>3, StandsStillAsProcessor

LEMMA InterpretsAsProcessor ==
    ASSUME Compilable, Now, UNCHANGED vars, ~InterpretLdyZpgX,
           InterpretPlain \/ InterpretBranch \/ InterpretCall
    PROVE  Processor!Next
<1>1. /\ mode = "interpret" /\ mode' = "dynJump" /\ pc \in Int
      /\ stack \in Seq(Int)
  BY InterpretsIs, StackIs
<1>2. PICK i \in Fetched :
         \/ /\ i.code \in {"plain1", "plain2", "access"}
            /\ pc' = pc + Shape[i.code].size /\ UNCHANGED stack
         \/ i.code = "branch" /\ pc' \in {pc + 2, i.value} /\ UNCHANGED stack
         \/ i.code = "jsr" /\ pc' = i.value /\ stack' = <<ReturnAddress(pc + 3)>> \o stack
  BY InterpretsIs
<1>3. /\ i \in Instructions(pc) /\ i.code \in DOMAIN Shape /\ i.value \in Int
      /\ Mirrored(pc) \in 0 .. End - 1
      /\ \A k \in 0 .. 3 : k <= Shape[i.code].size => Mirrored(pc + k) = Mirrored(pc) + k
  BY <1>1, FetchedIs
<1>4. PICK p, t, b, u : p \in Int /\ p = pc /\ t = Words(stack) /\ b = Mirrored(pc') /\ u = Words(stack')
  BY <1>1
<1>5. PICK a : a = Mirrored(p)
  OBVIOUS
<1>6. From(a, t, b, u)
  BY <1>1, <1>4, <1>5 DEF From, Place
<1>7. PICK j : j = [code |-> i.code, value |-> Mirrored(i.value)]
  OBVIOUS
<1>8. PICK n \in 1 .. 3 : n = Shape[i.code].size /\ Mirrored(p + n) = a + n
  <2>1. Shape[i.code].size \in 1 .. 3
    BY <1>3, ShapeFacts
  <2> QED
    BY <1>3, <1>4, <1>5, <2>1
<1>9. Fetches(j, a, t, b, u)
  <2>1. CASE i.code \in {"plain1", "plain2", "access"} /\ pc' = pc + n /\ UNCHANGED stack
    <3>1. b = a + n /\ u = t
      BY <1>4, <1>8, <2>1
    <3> QED
      BY <1>7, <1>8, <2>1, <3>1 DEF Fetches
  <2>2. CASE i.code = "branch" /\ pc' \in {pc + 2, i.value} /\ UNCHANGED stack
    <3>1. n = 2
      BY <1>8, <2>2, ShapeSizes
    <3>2. b \in {a + n, Mirrored(i.value)} /\ u = t
      BY <1>4, <1>8, <2>2, <3>1
    <3> QED
      BY <1>7, <1>8, <2>2, <3>2 DEF Fetches
  <2>3. CASE i.code = "jsr" /\ pc' = i.value /\ stack' = <<ReturnAddress(pc + 3)>> \o stack
    <3>1. n = 3
      BY <1>8, <2>3, ShapeSizes
    <3>2. PICK w \in Int : w = ReturnAddress(pc + 3) /\ Mirrored(w) = a + 2 /\ a \in Int
      BY <1>1, <1>4, <1>5, <2>3, PushedByInterpreter DEF ReturnWords
    <3>3. PICK s \in Seq(Int) : s = stack
      BY <1>1
    <3>4. Words(<<w>> \o s) = <<Mirrored(w)>> \o Words(s)
      BY WordsPushed
    <3>5. (a + n) - 1 = a + 2
      BY <3>1, <3>2
    <3>6. u = <<(a + n) - 1>> \o t
      BY <1>4, <2>3, <3>2, <3>3, <3>4, <3>5
    <3>7. b = Mirrored(i.value)
      BY <1>4, <2>3
    <3> QED
      BY <1>7, <1>8, <2>3, <3>6, <3>7 DEF Fetches
  <2> QED
    BY <1>2, <1>8, <2>1, <2>2, <2>3
<1> QED
  BY <1>3, <1>4, <1>5, <1>6, <1>7, <1>9, StepsAsProcessor

LEMMA RunsAsProcessor ==
    ASSUME Compilable, ~Overlaps, ~ByteLost, Loaded, Now, UNCHANGED vars, Runs,
           ~JumpOutOfRom, ~SkipsOrg, ~InterpretLdyZpgX
    PROVE  Processor!Next \/ UNCHANGED Processor!cpuVars
<1>1. CASE RunPlain \/ RunTableHead
  BY <1>1, FallsAsProcessor
<1>2. CASE RunBranch
  BY <1>2, BranchesAsProcessor
<1>3. CASE RunJump
  BY <1>3, JumpsAsProcessor
<1>4. CASE RunCall
  BY <1>4, CallsAsProcessor
<1>5. CASE RunReturn \/ RunJumpIndirect
  BY <1>5, ReturnsAsProcessor
<1>6. CASE DynJump
  BY <1>6, DynJumpAsProcessor
<1>7. CASE InterpretPlain \/ InterpretBranch \/ InterpretCall
  BY <1>7, InterpretsAsProcessor
<1>8. CASE InterpretPanics
  BY <1>8, PanicsAsProcessor
<1> QED
  BY <1>1, <1>2, <1>3, <1>4, <1>5, <1>6, <1>7, <1>8 DEF Runs

(* While the program is made the processor stands still.                    *)
LEMMA MakingAsProcessor ==
    ASSUME banks' = banks, mode # "static", mode' # "static", pc' = pc, stack' = stack
    PROVE  UNCHANGED Processor!cpuVars
<1>1. PICK p : p = pc
  OBVIOUS
<1>2. \A a : Mirrored(a)' = Mirrored(a)
  BY SameHomes DEF Mirrored, PrgStart, Start, End
<1>3. Mirrored(pc)' = Mirrored(p)
  BY <1>1, <1>2
<1>4. PICK s : s = stack
  OBVIOUS
<1>5. [k \in DOMAIN stack |-> Mirrored(stack[k])]' = [k \in DOMAIN s |-> Mirrored(s[k])]
  BY <1>2, <1>4
<1>6. (IF mode = "static" THEN here ELSE Mirrored(pc))' = (IF mode = "static" THEN here ELSE Mirrored(pc))
  BY <1>1, <1>3
<1> QED
  BY <1>4, <1>5, <1>6 DEF Processor!cpuVars

LEMMA StutterAsProcessor ==
    ASSUME UNCHANGED <<vars, runVars>>
    PROVE  UNCHANGED Processor!cpuVars
<1>1. UNCHANGED vars /\ mode' = mode /\ here' = here /\ pc' = pc /\ stack' = stack
  BY DEF runVars
<1>2. PICK a, t : a = Place(mode, here, pc) /\ t = Words(stack)
  OBVIOUS
<1>3. From(a, t, a, t)
  BY <1>1, <1>2 DEF From
<1> QED
  BY <1>1, <1>3, StandsStillAsProcessor

(* What a ROM's program executes, compiled, through the table of blocks and *)
(* interpreted, is what the processor would execute: every step of the      *)
(* emitted code is an instruction of the processor's or moves between the   *)
(* three ways of execution where the processor stands still, for every ROM. *)
(* The start, which compilation chooses, a jump out of the ROM, a step into *)
(* an .org, which compiled code skips, and ldy zpg,x under interpretation   *)
(* are other steps; nothing is said of ROMs whose code overlaps itself or   *)
(* lost a byte.                                                             *)
THEOREM CompiledRunsAsCpu == DispatchSpec => ImplementsCpu
<1> DEFINE Excepted == Overlaps \/ ByteLost \/ Compile \/ JumpOutOfRom \/ SkipsOrg
                       \/ InterpretLdyZpgX
           Executes == Processor!Next \/ Excepted \/ UNCHANGED Processor!cpuVars
<1>1. ASSUME RunInv, Inv, Making \/ Compilable, [DispatchNext]_<<vars, runVars>>
      PROVE  Executes
  <2>1. CASE UNCHANGED <<vars, runVars>>
    BY <2>1, StutterAsProcessor
  <2>2. CASE [Next]_vars /\ UNCHANGED runVars
    <3>1. CASE Making
      <4>1. banks' = banks
        BY <1>1, <2>2, NextProgress DEF Progress
      <4>2. UNCHANGED Processor!cpuVars
        BY <2>2, <3>1, <4>1, MakingAsProcessor DEF runVars, Making
      <4> QED
        BY <4>2
    <3>2. CASE ~Making
      BY <1>1, <2>1, <2>2, <3>2, NothingMarkedAfterwards DEF Compilable
    <3> QED
      BY <3>1, <3>2
  <2>3. CASE AddLabelsAfterJsrs
    <3>1. UNCHANGED Processor!cpuVars
      BY <2>3, MakingAsProcessor DEF AddLabelsAfterJsrs, markVars
    <3> QED
      BY <3>1
  <2>4. CASE MakeOrgs
    <3>1. UNCHANGED Processor!cpuVars
      BY <2>4, MakingAsProcessor DEF MakeOrgs, vars
    <3> QED
      BY <3>1
  <2>5. CASE Compile
    BY <2>5
  <2>6. CASE Runs
    <3> SUFFICES ASSUME ~Excepted
                 PROVE  Processor!Next \/ UNCHANGED Processor!cpuVars
      OBVIOUS
    <3>1. UNCHANGED vars /\ Compilable /\ Loaded /\ Now
      BY <1>1, <2>6, RunsKeepRom, OnlyLoadedRuns DEF RunInv
    <3> QED
      BY <2>6, <3>1, RunsAsProcessor
  <2> QED
    BY <1>1, <2>2, <2>3, <2>4, <2>5, <2>6, DispatchSteps
<1>2. ASSUME RunInv, Inv, Making \/ Compilable, [DispatchNext]_<<vars, runVars>>
      PROVE  [Processor!Next \/ Overlaps \/ ByteLost
                \/ Compile \/ JumpOutOfRom \/ SkipsOrg \/ InterpretLdyZpgX]_(Processor!cpuVars)
  BY <1>1, <1>2
<1> QED
  BY <1>2, AlwaysMarking, AlwaysRunInv, PTL DEF DispatchSpec, ImplementsCpu

-----------------------------------------------------------------------------
(* What marking keeps for the text.                                         *)

(* A labelled statement whose address is that of no element.                *)
Moved ==
    \E h \in list :
        /\ statement[h].kind \in {"instruction", "reference"}
        /\ statement[h].label # None /\ statement[h].value \notin list

(* A label that has moved is never put right.                               *)
LEMMA MovedStays == Typed /\ Progress /\ Moved => Moved'
<1>1. SUFFICES ASSUME Typed, Progress, NEW h \in list,
                      Kind(h) \in {"instruction", "reference"},
                      statement[h].label # None, statement[h].value \notin list
               PROVE  Moved'
  BY DEF Moved, Kind
<1>2. list' \subseteq list /\ h \in Homes /\ \A e \in list \ list' : ByteLike(e)
  BY <1>1, TypedSets DEF Progress
<1>3. ~ByteLike(h)
  BY <1>1, <1>2, ByteLikeIs
<1>4. h \in list'
  BY <1>1, <1>2, <1>3
<1>5. statement'[h] = statement[h]
  BY <1>1, <1>2 DEF Progress
<1> QED
  BY <1>1, <1>2, <1>4, <1>5 DEF Moved, Kind

(* What an instruction says of its operand.                                 *)
OperandFits(h) ==
    LET i == statement[h]
    IN  /\ Shape[i.code].label = "none" => i.label = None
        /\ Shape[i.code].label = "must" =>
              i.label # None /\ i.value - (i.addr + 2) \in Reach

OperandsFit == \A h \in Homes : IsCode(h) => OperandFits(h)

LEMMA OperandsStayFit ==
    ASSUME Inv, Inv', [Next]_vars, Progress, OperandsFit
    PROVE  OperandsFit'
<1> SUFFICES ASSUME NEW h \in Homes, Kind(h)' = "instruction"
             PROVE  OperandFits(h)'
  BY SameHomes DEF OperandsFit, IsCode, Kind, Progress
<1>1. CASE Kind(h) = "instruction"
  <2>1. statement'[h] = statement[h]
    BY <1>1 DEF Progress
  <2>2. OperandFits(h)
    BY <1>1 DEF OperandsFit, IsCode, Kind
  <2> QED
    BY <2>1, <2>2 DEF OperandFits
<1>2. CASE Kind(h) # "instruction"
  <2>1. MarkInstruction
    BY <1>2, NewCodeIsMarked
  <2>2. PICK g \in offsets, c \in OpCodes :
           /\ g = Elem(Top.addr) /\ Decodes(c, g)
           /\ \E v \in Operands(c, Top.addr) :
                LET name == IF Shape[c].label = "none" THEN None ELSE LabelName(v, v)
                IN  \/ Panic
                    \/ /\ ~(Shape[c].label = "must" /\ name = None)
                       /\ statement' = [statement EXCEPT ![g] =
                             [kind |-> "instruction", code |-> c,
                              addr |-> Top.addr, value |-> v, label |-> name]]
    BY <2>1 DEF MarkInstruction
  <2>3. ~Panic
    BY <1>2 DEF Panic, Kind
  <2>4. PICK v, name :
           /\ v \in Operands(c, Top.addr)
           /\ name = IF Shape[c].label = "none" THEN None ELSE LabelName(v, v)
           /\ ~(Shape[c].label = "must" /\ name = None)
           /\ statement' = [statement EXCEPT ![g] =
                 [kind |-> "instruction", code |-> c,
                  addr |-> Top.addr, value |-> v, label |-> name]]
    BY <2>2, <2>3
  <2>5. h = g
    BY <1>2, <2>4 DEF Kind
  <2>6. DOMAIN statement = Homes
    BY DEF Inv, Typed, StatementsTyped
  <2>7. statement'[h] = [kind |-> "instruction", code |-> c,
                         addr |-> Top.addr, value |-> v, label |-> name]
    BY <2>4, <2>5, <2>6
  <2>8. ASSUME Shape[c].label = "must" PROVE v - (Top.addr + 2) \in Reach
    <3>1. PICK d \in Reach : v = Top.addr + 2 + d
      BY <2>4, <2>8 DEF Operands
    <3>2. work # << >>
      BY <2>1 DEF MarkInstruction, Marking
    <3>3. Top.addr \in Int
      BY <3>2, TopTyped DEF Call, Inv
    <3>4. d \in Int
      BY DisassemblerAssumption
    <3>5. v - (Top.addr + 2) = d
      BY <3>1, <3>3, <3>4
    <3> QED
      BY <3>5
  <2> QED
    BY <2>4, <2>7, <2>8 DEF OperandFits
<1> QED
  BY <1>1, <1>2

(* Labels stand in front of elements, unless one has moved; and no two in   *)
(* front of one.                                                            *)
LabelsStand == Overlaps => Moved
LabelsApart == \A l, m \in labels : l.home = m.home => l = m

(* A label at the address of an element is put in front of it.              *)
LEMMA LabelStandsBefore ==
    ASSUME Located, Typed, NEW l \in labels, l.home \in list
    PROVE  l \in LabelsBefore(l.home)
<1>1. PICK h : h = l.home
  OBVIOUS
<1>2. h \in Int /\ h <= h
  BY <1>1, TypedSets
<1>3. \A p \in list : p < h => p < h
  OBVIOUS
<1> QED
  BY <1>1, <1>2, <1>3 DEF Located

(* labelAt makes no second label of an address.                             *)
LEMMA LabelsStayApart ==
    ASSUME Typed, Located, LabelsApart, NEW a, NEW name, labels' = LabelsWith(a, name)
    PROVE  LabelsApart'
<1>1. CASE labels' = labels
  BY <1>1 DEF LabelsApart
<1>2. CASE labels' # labels
  <2>1. Elem(a) \in list /\ LabelsBefore(Elem(a)) = {}
        /\ labels' = labels \cup {[name |-> name, home |-> Elem(a)]}
    BY <1>2 DEF LabelsWith
  <2>2. PICK e, r : e = Elem(a) /\ r = [name |-> name, home |-> e]
    OBVIOUS
  <2>3. r.home = e /\ labels' = labels \cup {r}
    BY <2>1, <2>2
  <2>4. \A l \in labels : l.home # e
    BY <2>1, <2>2, LabelStandsBefore
  <2> QED
    BY <2>3, <2>4 DEF LabelsApart
<1> QED
  BY <1>1, <1>2

LEMMA LabelsStayStanding ==
    ASSUME Inv, Inv', [Next]_vars, Progress, Located, Located', LabelsStand
    PROVE  LabelsStand'
<1>1. Typed /\ Typed' /\ banks \in 1 .. 2 /\ list \subseteq offsets /\ offsets \subseteq Homes
      /\ Homes' = Homes /\ list' \subseteq list
  BY TypedSets, SameHomes DEF Inv, Typed, Progress
<1>2. SUFFICES ASSUME NEW l \in labels', l.home \notin list', ~Moved' PROVE FALSE
  BY DEF LabelsStand, Overlaps
<1>3. ~Moved /\ ~Overlaps
  BY <1>1, <1>2, MovedStays DEF LabelsStand
<1>4. CASE l \in labels
  <2>1. l.home \in list
    BY <1>3, <1>4 DEF Overlaps
  <2>2. LabelsBefore(l.home) # {}
    BY <1>1, <1>4, <2>1, LabelStandsBefore
  <2> QED
    BY <1>2, <2>1, <2>2 DEF Progress
<1>5. CASE l \notin labels
  <2>1. CASE \E h \in offsets, c \in OpCodes : \E v, name : Decoded(Top.addr, h, c, v, name)
    <3>1. PICK h \in offsets, c \in OpCodes : \E v, name : Decoded(Top.addr, h, c, v, name)
      BY <2>1
    <3>2. PICK v, name : Decoded(Top.addr, h, c, v, name)
      BY <3>1
    <3>3. Shape[c].label # "none" /\ labels' = LabelsWith(v, v) /\ name = LabelName(v, v)
          /\ c \in DOMAIN Shape /\ v \in Int
      BY <1>5, <3>2 DEF Decoded
    <3>4. /\ Elem(v) \in list /\ LabelsBefore(Elem(v)) = {} /\ l = [name |-> v, home |-> Elem(v)]
      BY <1>5, <3>3 DEF LabelsWith
    <3>5. PICK e : e = Elem(v)
      OBVIOUS
    <3>6. e \in Homes /\ e # None /\ e = HomeOf(v) /\ e \notin list'
      BY <1>1, <1>2, <3>3, <3>4, <3>5, TypedSets DEF Located
    <3>7. name = v /\ v # None
      <4>1. name = v
        BY <3>3, <3>4, <3>5, <3>6 DEF LabelName
      <4>2. Names(v, e)
        BY <1>1, <3>3, <3>6, AddressNames
      <4> QED
        BY <1>1, <3>6, <4>1, <4>2, NamesAreSome
    <3>8. v \notin list'
      <4>1. v \in Homes => HomeOf(v) = v
        BY DEF HomeOf
      <4> QED
        BY <1>1, <3>6, <4>1
    <3>9. h \in list /\ h \in list'
      <4>1. Shape[c].size > 1 /\ Shape[c].size \in 1 .. 3
        BY <3>3, ShapeFacts
      <4>2. Took(h, Shape[c].size)
        BY <3>2 DEF Decoded
      <4>3. h \in list /\ list' = list \ (h + 1 .. h + Shape[c].size - 1)
        BY <4>1, <4>2 DEF Took, Leaves
      <4>4. h \in Int
        BY <1>1, TypedSets
      <4>5. h \notin h + 1 .. h + Shape[c].size - 1
        BY <4>4
      <4> QED
        BY <4>3, <4>5
    <3>10. statement'[h].kind = "instruction" /\ statement'[h].value = v /\ statement'[h].label = name
      <4>1. DOMAIN statement = Homes /\ h \in Homes
        BY <1>1 DEF Typed, StatementsTyped
      <4>2. statement' = [statement EXCEPT ![h] =
               [kind |-> "instruction", code |-> c, addr |-> Top.addr, value |-> v, label |-> name]]
        BY <3>2 DEF Decoded
      <4> QED
        BY <4>1, <4>2
    <3>11. None' = None
      OBVIOUS
    <3> QED
      BY <1>2, <3>7, <3>8, <3>9, <3>10 DEF Moved
  <2>2. CASE LabelTheWord
    <3>1. list' = list /\ \E a, name : labels' = LabelsWith(a, name)
      BY <2>2, LabelTheWordDoes DEF LabelTheWord
    <3>2. PICK a, name : labels' = LabelsWith(a, name)
      BY <3>1
    <3>3. Elem(a) \in list /\ l = [name |-> name, home |-> Elem(a)]
      BY <1>5, <3>2 DEF LabelsWith
    <3> QED
      BY <1>2, <3>1, <3>3
  <2> QED
    BY <1>5, <2>1, <2>2, StepsAre, MarkFailsDoes DEF ReadAsWord
<1> QED
  BY <1>4, <1>5

LEMMA LabelsAlwaysApart ==
    ASSUME Inv, [Next]_vars, Located, LabelsApart
    PROVE  LabelsApart'
<1>1. Typed
  BY DEF Inv
<1>2. CASE labels' = labels
  BY <1>2 DEF LabelsApart
<1>3. CASE \E h \in offsets, c \in OpCodes : \E v, name : Decoded(Top.addr, h, c, v, name)
  <2>1. PICK h \in offsets, c \in OpCodes : \E v, name : Decoded(Top.addr, h, c, v, name)
    BY <1>3
  <2>2. PICK v, name : Decoded(Top.addr, h, c, v, name)
    BY <2>1
  <2>3. labels' = labels \/ labels' = LabelsWith(v, v)
    BY <2>2 DEF Decoded
  <2> QED
    BY <1>1, <1>2, <2>3, LabelsStayApart
<1>4. CASE LabelTheWord
  <2>1. \E a, name : labels' = LabelsWith(a, name)
    BY <1>4, LabelTheWordDoes
  <2> QED
    BY <1>1, <2>1, LabelsStayApart
<1> QED
  BY <1>2, <1>3, <1>4, StepsAre, MarkFailsDoes DEF ReadAsWord

-----------------------------------------------------------------------------
(* Addresses in the mirror of a single bank.                                *)

(* What is still open is in the list.                                       *)
OpenListed == \A h \in Homes : Kind(h) = "open" => h \in list

(* Three bytes of the ROM that are taken are elements of the list.          *)
LEMMA TakenStays ==
    ASSUME Typed, NEW h \in offsets, NEW n \in 1 .. 3, Took(h, n)
    PROVE  (n > 1 => h \in list) /\ (h \in list => h \in list')
<1>1. list' = list \ (h + 1 .. h + n - 1) /\ (n > 1 => h \in list)
  BY DEF Took, Leaves
<1>2. h \in Int
  BY TypedSets
<1>3. h \notin h + 1 .. h + n - 1
  BY <1>2
<1> QED
  BY <1>1, <1>3

LEMMA OpenStayListed ==
    ASSUME Inv, Inv', [Next]_vars, Progress, OpenListed
    PROVE  OpenListed'
<1>1. Typed /\ StatementsTyped /\ DOMAIN statement = Homes /\ offsets \subseteq Homes
      /\ Homes' = Homes /\ \A e \in list \ list' : ByteLike(e)
  BY TypedSets, SameHomes DEF Inv, Typed, StatementsTyped, Progress
<1>2. SUFFICES ASSUME NEW h \in Homes, Kind(h)' = "open" PROVE h \in list'
  BY <1>1 DEF OpenListed
<1>3. CASE Kind(h) = "open"
  <2>1. ~ByteLike(h)
    BY <1>1, <1>3, ByteLikeIs
  <2> QED
    BY <1>1, <1>3, <2>1 DEF OpenListed
<1>4. CASE Kind(h) # "open"
  <2>1. CASE UNCHANGED statement
    BY <1>2, <1>4, <2>1 DEF Kind
  <2>2. CASE \E g \in offsets, c \in OpCodes : \E v, name : Decoded(Top.addr, g, c, v, name)
    <3>1. PICK g \in offsets, c \in OpCodes : \E v, name : Decoded(Top.addr, g, c, v, name)
      BY <2>2
    <3>2. PICK v, name : statement' = [statement EXCEPT ![g] =
             [kind |-> "instruction", code |-> c, addr |-> Top.addr, value |-> v, label |-> name]]
      BY <3>1 DEF Decoded
    <3> QED
      BY <1>1, <1>2, <1>4, <3>2 DEF Kind
  <2>3. CASE \E g \in offsets : \E v : ReadAsWord(Top.addr, g, v)
    <3>1. PICK g \in offsets : \E v : ReadAsWord(Top.addr, g, v)
      BY <2>3
    <3>2. PICK v : ReadAsWord(Top.addr, g, v)
      BY <3>1
    <3>3. h = g
      BY <1>1, <1>2, <1>4, <3>2 DEF Kind, ReadAsWord
    <3>4. Took(g, 2) /\ 2 \in 1 .. 3 /\ 2 > 1
      BY <3>2 DEF ReadAsWord
    <3> QED
      BY <1>1, <3>3, <3>4, TakenStays
  <2>4. CASE LabelTheWord
    <3>1. PICK found, r : /\ statement' = [statement EXCEPT ![Top.arg] = r]
                          /\ r.kind = (IF found = None THEN "number" ELSE "reference")
      BY <2>4, LabelTheWordDoes
    <3> QED
      BY <1>1, <1>2, <1>4, <3>1 DEF Kind
  <2>5. CASE MarkFails
    BY <1>1, <1>2, <1>4, <2>5, MarkFailsDoes DEF Kind
  <2> QED
    BY <2>1, <2>2, <2>3, <2>4, <2>5, StepsAre
<1> QED
  BY <1>3, <1>4

(* Either no address of the mirror is known, or a word or operand has one,  *)
(* or the word that has one is about to get its label.                      *)
HomeOrNone(a) == a \in Homes \/ HomeOf(a) \notin offsets

Unmirrored ==
    /\ list = offsets
    /\ \A h \in Homes : IsCode(h) => statement[h].addr = h
    /\ \A a, w : Due("mark", a, w) => HomeOrNone(a) \/ w # None
    /\ \A a, v : Due("return", a, v) => HomeOrNone(a)

WordLeads ==
    \E a, w : /\ Due("label", a, w) /\ a \notin Homes
              /\ HomeOf(a) \in list /\ IsCode(HomeOf(a))

MirrorNamed == Moved \/ Unmirrored \/ WordLeads

(* The top of the stack is due.                                             *)
LEMMA TopIsDue ==
    ASSUME Typed, work # << >>
    PROVE  Due(Top.op, Top.addr, Top.arg) /\ Top.addr \in Int
<1>1. work \in Seq(Call)
  BY DEF Typed
<1>2. Top = work[1] /\ 1 \in 1 .. Len(work) /\ Top.addr \in Int
  BY <1>1, StackPop, TopTyped DEF Top, Call
<1> QED
  BY <1>2 DEF Due

(* The label that is due for a word is the one it says. *)
LEMMA DueForWord ==
    ASSUME Inv, MarksOfWords, NEW a, NEW b, NEW w, Due("label", a, w), Due("mark", b, w), w # None
    PROVE  a = b
<1>1. AwaitsItsLabel(w, b)
  BY DEF MarksOfWords
<1>2. AwaitsItsLabel(w, a)
  <2>1. PICK i \in 1 .. Len(work) : work[i].op = "label" /\ work[i].addr = a /\ work[i].arg = w
    BY DEF Due
  <2> QED
    BY <2>1 DEF Inv, WorkInOrder, LabelsAwaited
<1> QED
  BY <1>1, <1>2 DEF AwaitsItsLabel

(* The word gets its label, or it has moved.                                *)
LEMMA WordStillLeads ==
    ASSUME Inv, Inv', [Next]_vars, Progress, Located, LabelsNamed, MarksOfWords, OpenListed, WordLeads
    PROVE  WordLeads' \/ Moved'
<1>1. /\ Typed /\ StatementsTyped /\ DOMAIN statement = Homes /\ offsets \subseteq Homes
      /\ list \subseteq offsets /\ banks \in 1 .. 2 /\ None \notin Homes
      /\ Homes' = Homes /\ list' \subseteq list /\ \A e \in list \ list' : ByteLike(e)
  BY TypedSets, SameHomes DEF Inv, Typed, StatementsTyped, Progress
<1>2. PICK a, w : Due("label", a, w) /\ a \notin Homes /\ HomeOf(a) \in list /\ IsCode(HomeOf(a))
  BY DEF WordLeads
<1>3. PICK x : x = HomeOf(a)
  OBVIOUS
<1>4. x \in Homes /\ x \in offsets /\ x # None /\ ~ByteLike(x)
  BY <1>1, <1>2, <1>3, ByteLikeIs DEF IsCode, Kind
<1>5. AwaitsItsLabel(w, a) /\ work # << >>
  BY <1>2 DEF Due, Inv, WorkInOrder, LabelsAwaited
<1>6. a \in Int /\ w \in Homes /\ w # None
  BY <1>1, <1>2, <1>5, KindIs DEF AwaitsItsLabel, DataWord
<1>7. Elem(a) = x
  BY <1>3, <1>4, <1>6 DEF Located
<1>8. CASE Due("label", a, w)'
  <2>1. HomeOf(a)' = x
    BY <1>3, SameHomes DEF Progress
  <2>2. x \in list'
    BY <1>1, <1>2, <1>3, <1>4
  <2>3. statement'[x] = statement[x]
    BY <1>2, <1>3, <1>4 DEF Progress, IsCode, Kind
  <2>4. IsCode(x)'
    BY <1>2, <1>3, <2>3 DEF IsCode
  <2> QED
    BY <1>1, <1>2, <1>8, <2>1, <2>2, <2>4 DEF WordLeads
<1>9. CASE MarkFails /\ w = Top.arg
  <2>1. Top.op = "mark" /\ ByteLike(Elem(Top.addr))
    BY <1>9 DEF MarkFails, Marking, Decodable
  <2>2. Due("mark", Top.addr, w)
    BY <1>1, <1>5, <1>9, <2>1, TopIsDue
  <2>3. Top.addr = a
    BY <1>2, <1>6, <2>2, DueForWord
  <2> QED
    BY <1>4, <1>7, <2>1, <2>3
<1>10. CASE LabelTheWord /\ Top.addr = a /\ Top.arg = w
  <2>1. PICK name \in Int, found \in Int, r \in DataWord :
              /\ name = SuggestedName(w, a)
              /\ found = LabelName(a, name)
              /\ r.kind = (IF found = None THEN "number" ELSE "reference")
              /\ r.value = a /\ r.label = found
              /\ Kind(w) = "open"
              /\ statement' = [statement EXCEPT ![w] = r]
    BY <1>10, LabelTheWordDoes
  <2>2. found # None
    <3>1. CASE LabelsBefore(x) # {}
      <4>1. PICK l \in LabelsBefore(x) : l = LabelAt(x)
        BY <1>1, <3>1, LabelAtIs
      <4>2. l \in labels /\ l.home \in Homes
        BY <1>1 DEF Located, Typed, LabelsTyped
      <4>3. l.name # None
        BY <1>1, <4>2, NamesAreSome DEF LabelsNamed
      <4> QED
        BY <1>4, <1>7, <2>1, <3>1, <4>1, <4>3 DEF LabelName
    <3>2. CASE LabelsBefore(x) = {}
      <4>1. found = name
        BY <1>4, <1>7, <2>1, <3>2 DEF LabelName
      <4>2. End \in Nat /\ w \in Nat /\ None = -1
        BY <1>1, <1>6, Layout, TypedSets DEF None
      <4>3. a # None
        <5>1. Names(a, x)
          BY <1>1, <1>3, <1>4, <1>6, AddressNames
        <5> QED
          BY <1>1, <1>4, <5>1, NamesAreSome
      <4> QED
        BY <2>1, <4>1, <4>2, <4>3 DEF SuggestedName
    <3> QED
      BY <3>1, <3>2
  <2>3. w \in list' /\ statement'[w] = r
    BY <1>1, <1>6, <1>10, <2>1 DEF OpenListed, LabelTheWord
  <2>4. a \notin list'
    BY <1>1, <1>2
  <2>5. None' = None
    OBVIOUS
  <2> QED
    BY <2>1, <2>2, <2>3, <2>4, <2>5 DEF Moved
<1>11. CASE Top.op = "label" /\ Top.addr = a /\ Top.arg = w
  <2>1. UNCHANGED vars \/ LabelTheWord
    BY <1>5, <1>11 DEF Next, MarkNothing, MarkFails, Marking, MarkInstruction, ReturnFromMark, MarkWord,
                 ResolveDynJump, Finish
  <2>2. UNCHANGED vars => Due("label", a, w)'
    BY <1>2 DEF Due, vars
  <2> QED
    BY <1>8, <1>10, <1>11, <2>1, <2>2
<1> QED
  BY <1>2, <1>8, <1>9, <1>11, DueRemains

(* Operands of code that is not in the mirror leave the map and the list.   *)
LEMMA OperandAtHome ==
    ASSUME Typed, NEW a \in Homes, NEW n \in 1 .. 3, list = offsets
    PROVE  OperandRemoved(a, n).list = OperandRemoved(a, n).offsets
<1>1. /\ Bank \in Nat \ {0} /\ End = 4 * Bank /\ a \in Int
      /\ Start = (IF banks = 1 THEN 3 * Bank ELSE 2 * Bank) /\ Homes = Start .. End - 1
      /\ (banks = 1 => BankSize[1] = Bank) /\ offsets \subseteq Homes /\ None \notin Homes
  BY Layout, TypedSets DEF Typed, Bank
<1>2. ASSUME NEW s, NEW k \in 1 .. 2, s.list = s.offsets, s.offsets \subseteq Homes
      PROVE  RemoveElemAt(s, a + k).list = RemoveElemAt(s, a + k).offsets
  <2>1. ~ (banks = 1 /\ a + k < End - BankSize[1])
    BY <1>1
  <2>2. PICK h : h = ElemAtAddr(s.offsets, a + k)
    OBVIOUS
  <2>3. h = IF a + k \in s.offsets THEN a + k ELSE None
    BY <2>1, <2>2 DEF ElemAtAddr
  <2>4. s.list \ {h} = s.offsets \ {a + k}
    BY <1>1, <1>2, <2>3
  <2> QED
    BY <2>2, <2>4 DEF RemoveElemAt
<1>3. PICK w : w = [list |-> list, offsets |-> offsets, ok |-> TRUE]
  OBVIOUS
<1>4. w.list = w.offsets /\ w.offsets \subseteq Homes
  BY <1>1, <1>3
<1>5. PICK f : f = RemoveElemAt(w, a + 1)
  OBVIOUS
<1>6. f.list = f.offsets /\ f.offsets \subseteq Homes
  BY <1>2, <1>4, <1>5 DEF RemoveElemAt
<1>7. RemoveElemAt(f, a + 2).list = RemoveElemAt(f, a + 2).offsets
  BY <1>2, <1>6
<1>8. CASE n = 1
  BY <1>3, <1>4, <1>8 DEF OperandRemoved
<1>9. CASE n = 2
  BY <1>3, <1>5, <1>6, <1>9 DEF OperandRemoved
<1>10. CASE n = 3
  BY <1>3, <1>5, <1>7, <1>10 DEF OperandRemoved
<1> QED
  BY <1>8, <1>9, <1>10

LEMMA StaysUnmirrored ==
    ASSUME Inv, Inv', [Next]_vars, Progress, Located, list = offsets,
           MarkInstruction => Top.addr \in Homes
    PROVE  list' = offsets'
<1>1. Typed /\ None \notin Homes
  BY TypedSets DEF Inv
<1>2. CASE MarkInstruction /\ ~Panic
  <2>1. PICK c : c \in DOMAIN Shape /\ list' = OperandRemoved(Top.addr, Shape[c].size).list
                        /\ offsets' = OperandRemoved(Top.addr, Shape[c].size).offsets
    <3>1. PICK h \in offsets, c \in OpCodes : /\ Decodes(c, h)
             /\ \E v \in Operands(c, Top.addr) :
                LET s == OperandRemoved(Top.addr, Shape[c].size)
                IN  Panic \/ (list' = s.list /\ offsets' = s.offsets)
      BY <1>2 DEF MarkInstruction
    <3>2. c \in DOMAIN Shape
      BY <3>1, DisassemblerAssumption DEF Decodes
    <3> QED
      BY <1>2, <3>1, <3>2
  <2>2. Shape[c].size \in 1 .. 3
    BY <2>1, ShapeFacts
  <2> QED
    BY <1>1, <1>2, <2>1, <2>2, OperandAtHome
<1>3. CASE MarkWord /\ ~Panic
  <2>1. list' = OperandRemoved(Top.addr, 2).list /\ offsets' = OperandRemoved(Top.addr, 2).offsets
        /\ work # << >> /\ Top.op = "word"
    BY <1>3 DEF MarkWord
  <2>2. Top.addr \in Homes
    <3>1. work \in Seq(Call) /\ Top = work[1] /\ 1 \in 1 .. Len(work)
      <4>1. work \in Seq(Call)
        BY <1>1 DEF Typed
      <4> QED
        BY <2>1, <4>1, StackPop DEF Top
    <3> QED
      BY <2>1, <3>1 DEF Inv, WorkInOrder, WordsInRom
  <2> QED
    BY <1>1, <2>1, <2>2, OperandAtHome
<1>4. ASSUME Panic \/ MarkNothing \/ MarkFails \/ LabelTheWord \/ ReturnFromMark \/ ResolveDynJump
                \/ Finish \/ UNCHANGED vars
      PROVE  UNCHANGED <<list, offsets>>
  BY <1>4 DEF Panic, MarkNothing, MarkFails, LabelTheWord, ReturnFromMark, ResolveDynJump, Finish, vars
<1> QED
  BY <1>2, <1>3, <1>4 DEF Next

(* What lies behind a home is a home, or behind the end.                    *)
LEMMA BehindHomes ==
    ASSUME Typed, NEW h \in Homes, NEW n \in 1 .. 3
    PROVE  HomeOrNone(h + n)
<1>1. /\ Bank \in Nat \ {0} /\ End = 4 * Bank /\ h \in Int /\ None \notin offsets
      /\ Start = (IF banks = 1 THEN 3 * Bank ELSE 2 * Bank) /\ Homes = Start .. End - 1
  BY Layout, TypedSets DEF Typed
<1>2. h + n \in Homes \/ ~(h + n < End)
  BY <1>1
<1>3. ~(h + n < End) => h + n \notin Homes /\ h + n + Bank \notin Homes
  BY <1>1
<1> QED
  BY <1>1, <1>2, <1>3 DEF HomeOrNone, HomeOf

(* A target in the mirror has a label that is not where it says.            *)
LEMMA MirroredTargetMoves ==
    ASSUME Inv, Progress, Located, LabelsNamed, list' = offsets',
           NEW h \in offsets, NEW c \in OpCodes, NEW v, NEW name,
           Decoded(Top.addr, h, c, v, name), Leads(c, "target"), v \notin Homes,
           HomeOf(v) \in offsets'
    PROVE  Moved'
<1>1. Typed /\ banks \in 1 .. 2 /\ offsets \subseteq Homes /\ list \subseteq offsets /\ None \notin Homes
      /\ list' \subseteq list /\ DOMAIN statement = Homes
  BY TypedSets DEF Inv, Typed, Progress, StatementsTyped
<1>2. PICK x : x = HomeOf(v)
  OBVIOUS
<1>3. c \in DOMAIN Shape /\ v \in Int /\ Shape[c].label # "none" /\ name = LabelName(v, v)
      /\ Took(h, Shape[c].size)
      /\ statement' = [statement EXCEPT ![h] =
            [kind |-> "instruction", code |-> c, addr |-> Top.addr, value |-> v, label |-> name]]
  BY TargetsAreLabelled DEF Decoded
<1>4. x \in Homes /\ x \in list /\ Elem(v) = x /\ x # None
  BY <1>1, <1>2, <1>3 DEF Located
<1>5. name # None
  <2>1. CASE LabelsBefore(x) # {}
    <3>1. PICK l \in LabelsBefore(x) : l = LabelAt(x)
      BY <1>1, <2>1, LabelAtIs
    <3>2. l \in labels /\ l.home \in Homes
      BY <1>1 DEF Located, Typed, LabelsTyped
    <3>3. l.name # None
      BY <1>1, <3>2, NamesAreSome DEF LabelsNamed
    <3> QED
      BY <1>3, <1>4, <2>1, <3>1, <3>3 DEF LabelName
  <2>2. CASE LabelsBefore(x) = {}
    <3>1. name = v
      BY <1>3, <1>4, <2>2 DEF LabelName
    <3>2. Names(v, x)
      BY <1>1, <1>2, <1>3, <1>4, AddressNames
    <3> QED
      BY <1>1, <1>4, <3>1, <3>2, NamesAreSome
  <2> QED
    BY <2>1, <2>2
<1>6. h \in list'
  <2>1. Shape[c].size \in 1 .. 3 /\ Shape[c].size > 1
    BY <1>3, ShapeFacts
  <2> QED
    BY <1>1, <1>3, <2>1, TakenStays
<1>7. statement'[h].kind = "instruction" /\ statement'[h].value = v /\ statement'[h].label = name
  BY <1>1, <1>3
<1>8. v \notin list' /\ None' = None
  BY <1>1
<1> QED
  BY <1>5, <1>6, <1>7, <1>8 DEF Moved

(* The first address of the mirror is that of a word or of an operand.      *)
LEMMA UnmirroredStays ==
    ASSUME Inv, Inv', [Next]_vars, Progress, Located, LabelsNamed, MarksOfWords, Unmirrored
    PROVE  MirrorNamed'
<1>1. /\ Typed /\ Typed' /\ banks \in 1 .. 2 /\ offsets \subseteq Homes /\ None \notin Homes /\ None' = None
      /\ list = offsets /\ list' \subseteq list /\ DOMAIN statement = Homes
      /\ Homes' = Homes /\ offsets' \subseteq offsets /\ \A y : HomeOf(y)' = HomeOf(y)
  BY TypedSets, SameHomes DEF Inv, Typed, Progress, StatementsTyped, Unmirrored
<1>2. ASSUME NEW h \in offsets, NEW c \in OpCodes, NEW v, NEW name, Decoded(Top.addr, h, c, v, name)
      PROVE  /\ MarkInstruction /\ work # << >> /\ Top.op = "mark" /\ Top.addr \in Int /\ HomeOf(Top.addr) = h
             /\ statement'[h].kind = "instruction" /\ h \in list' /\ c \in DOMAIN Shape
             /\ statement'[h].addr = Top.addr
  <2>1. ByteLike(h) /\ statement'[h].kind = "instruction" /\ c \in DOMAIN Shape /\ h = Elem(Top.addr)
        /\ h \in Homes /\ Took(h, Shape[c].size) /\ statement'[h].addr = Top.addr
    BY <1>1, <1>2 DEF Decoded
  <2>2. Kind(h) # "instruction"
    BY <1>1, <2>1, ByteLikeIs
  <2>3. MarkInstruction
    BY <2>1, <2>2, NewCodeIsMarked DEF Kind
  <2>4. Top.addr \in Int /\ work # << >> /\ Top.op = "mark"
    BY <1>1, <2>3, TopIsDue DEF MarkInstruction, Marking
  <2>5. HomeOf(Top.addr) = h
    BY <1>1, <2>1, <2>4 DEF Located
  <2>6. h \in list'
    BY <1>1, <2>1, TakenStays, ShapeFacts
  <2> QED
    BY <2>1, <2>3, <2>4, <2>5, <2>6
<1>3. CASE MarkInstruction /\ ~Panic /\ Top.addr \notin Homes
  <2>1. PICK h \in offsets, c \in OpCodes : \E v, name : Decoded(Top.addr, h, c, v, name)
    BY <1>1, <1>3, MarkInstructionDoes
  <2>2. PICK v, name : Decoded(Top.addr, h, c, v, name)
    BY <2>1
  <2>3. /\ work # << >> /\ Top.op = "mark" /\ HomeOf(Top.addr) = h
        /\ statement'[h].kind = "instruction" /\ h \in list'
    BY <1>2, <2>2
  <2>4. PICK a, w : a = Top.addr /\ w = Top.arg
    OBVIOUS
  <2>5. Due("mark", a, w)
    BY <1>1, <2>3, <2>4, TopIsDue
  <2>6. w # None
    BY <1>3, <2>3, <2>4, <2>5 DEF Unmirrored, HomeOrNone
  <2>7. Due("label", a, w)
    <3>1. Top = work[1] /\ 1 \in 1 .. Len(work)
      <4>1. work \in Seq(Call)
        BY <1>1 DEF Typed
      <4> QED
        BY <2>3, <4>1, StackPop DEF Top
    <3>2. 1 + 1 \in 1 .. Len(work) /\ work[1 + 1].op = "label" /\ work[1 + 1].arg = w
      BY <2>3, <2>4, <2>6, <3>1 DEF Inv, WorkInOrder, MarkedForWord
    <3>3. PICK b : b = work[1 + 1].addr
      OBVIOUS
    <3>4. Due("label", b, w)
      BY <3>2, <3>3 DEF Due
    <3>5. a = b \/ b = a
      BY <2>5, <2>6, <3>4, DueForWord
    <3> QED
      BY <3>4, <3>5
  <2>8. ~MarkFails
    BY <1>1, <1>3, <2>2, <2>3, MarkFailsDoes DEF Decoded, ByteLike, Kind
  <2>9. Due("label", a, w)'
    BY <2>3, <2>7, <2>8, DueRemains
  <2> QED
    BY <1>1, <1>3, <2>3, <2>4, <2>9 DEF MirrorNamed, WordLeads, IsCode
<1>4. CASE MarkInstruction => Panic \/ Top.addr \in Homes
  <2>1. list' = offsets'
    <3>1. CASE Panic
      BY <1>1, <3>1 DEF Panic
    <3> QED
      BY <1>1, <1>4, <3>1, StaysUnmirrored
  <2>2. ASSUME NEW h \in offsets, NEW c \in OpCodes, NEW v, NEW name, Decoded(Top.addr, h, c, v, name)
        PROVE  Top.addr = h
    <3>1. MarkInstruction /\ HomeOf(Top.addr) = h
      BY <1>2, <2>2
    <3>2. ~Panic
      <4>1. statement' # statement
        BY <1>1, <1>2, <2>2, ByteLikeIs DEF Decoded, Kind
      <4> QED
        BY <4>1 DEF Panic
    <3> QED
      BY <1>4, <3>1, <3>2 DEF HomeOf
  <2>3. ASSUME NEW h \in Homes, IsCode(h)' PROVE statement'[h].addr = h
    <3>1. CASE IsCode(h)
      <4>1. statement'[h] = statement[h]
        BY <3>1 DEF Progress, IsCode, Kind
      <4> QED
        BY <3>1, <4>1 DEF Unmirrored
    <3>2. CASE ~IsCode(h)
      <4>1. MarkInstruction /\ ~Panic
        BY <2>3, <3>2, NewCodeIsMarked DEF IsCode, Kind, Panic
      <4>2. PICK g \in offsets, c \in OpCodes : \E v, name : Decoded(Top.addr, g, c, v, name)
        BY <1>1, <4>1, MarkInstructionDoes
      <4>3. PICK v, name : Decoded(Top.addr, g, c, v, name)
        BY <4>2
      <4>4. Top.addr = g /\ statement'[g].addr = Top.addr
        BY <1>2, <2>2, <4>3
      <4>5. h = g
        <5>1. PICK r : statement' = [statement EXCEPT ![g] = r]
          BY <4>3 DEF Decoded
        <5> QED
          BY <1>1, <2>3, <3>2, <5>1 DEF IsCode
      <4> QED
        BY <4>4, <4>5
    <3> QED
      BY <3>1, <3>2
  <2>4. ASSUME NEW a, HomeOrNone(a) PROVE HomeOrNone(a)'
    BY <1>1, <2>4 DEF HomeOrNone
  <2>5. ASSUME NEW a, NEW h \in offsets, NEW c \in OpCodes, NEW v, NEW name,
               Decoded(Top.addr, h, c, v, name), a = Top.addr + Shape[c].size
        PROVE  HomeOrNone(a)'
    <3>1. Top.addr = h /\ h \in Homes /\ Shape[c].size \in 1 .. 3
      BY <1>1, <1>2, <2>2, <2>5, ShapeFacts
    <3>2. HomeOrNone(a)
      BY <1>1, <2>5, <3>1, BehindHomes
    <3> QED
      BY <2>4, <3>2
  <2>6. ASSUME NEW a, NEW w, Due("mark", a, w)', ~Moved' PROVE HomeOrNone(a)' \/ w # None
    <3>1. ASSUME Due("mark", a, w) PROVE HomeOrNone(a)' \/ w # None
      BY <2>4, <3>1 DEF Unmirrored
    <3>2. ASSUME NEW v, Due("return", a, v) PROVE HomeOrNone(a)'
      BY <2>4, <3>2 DEF Unmirrored
    <3>3. ASSUME NEW h \in offsets, NEW c \in OpCodes, NEW v, NEW name,
                 Decoded(Top.addr, h, c, v, name), ArisesFrom("mark", a, w, h, c, v)
          PROVE  HomeOrNone(a)'
      <4>1. CASE a = Top.addr + Shape[c].size
        BY <2>5, <3>3, <4>1
      <4>2. CASE Leads(c, "target") /\ a = v
        BY <1>1, <2>1, <2>6, <3>3, <4>2, MirroredTargetMoves DEF HomeOrNone
      <4> QED
        BY <3>3, <4>1, <4>2 DEF ArisesFrom
    <3> QED
      BY <1>1, <2>6, <3>1, <3>2, <3>3, MarksArise
  <2>7. ASSUME NEW a, NEW w, Due("return", a, w)' PROVE HomeOrNone(a)'
    <3>1. ASSUME Due("return", a, w) PROVE HomeOrNone(a)'
      BY <2>4, <3>1 DEF Unmirrored
    <3>2. ASSUME NEW h \in offsets, NEW c \in OpCodes, NEW v, NEW name,
                 Decoded(Top.addr, h, c, v, name), ArisesFrom("return", a, w, h, c, v)
          PROVE  HomeOrNone(a)'
      <4>1. a = Top.addr + Shape[c].size
        BY <1>2, <3>2, ShapeFacts DEF ArisesFrom
      <4> QED
        BY <2>5, <3>2, <4>1
    <3> QED
      BY <2>7, <3>1, <3>2, MarksArise
  <2> QED
    BY <1>1, <2>1, <2>3, <2>6, <2>7 DEF MirrorNamed, Unmirrored
<1> QED
  BY <1>3, <1>4

LEMMA MirrorStaysNamed ==
    ASSUME Inv, Inv', [Next]_vars, Progress, Located, LabelsNamed, MarksOfWords, OpenListed, MirrorNamed
    PROVE  MirrorNamed'
<1>1. Typed
  BY DEF Inv
<1> QED
  BY <1>1, UnmirroredStays, WordStillLeads, MovedStays DEF MirrorNamed

-----------------------------------------------------------------------------
(* Words end inside the ROM, as instructions do.                            *)
StatementsInRom == \A h \in Homes : h + Size(h) - 1 \in Homes

LEMMA StatementsStayInRom ==
    ASSUME Inv, Inv', [Next]_vars, Progress, StatementsInRom, CodeInRom'
    PROVE  StatementsInRom'
<1>1. /\ Typed /\ Typed' /\ StatementsTyped /\ StatementsTyped' /\ DOMAIN statement = Homes
      /\ Homes' = Homes /\ offsets \subseteq Homes /\ Homes \subseteq Int
  <2>1. Typed' /\ StatementsTyped'
    BY DEF Inv, Typed
  <2> QED
    BY <2>1, TypedSets, SameHomes DEF Inv, StatementsTyped, Progress
<1>2. SUFFICES ASSUME NEW h \in Homes PROVE h + Size(h)' - 1 \in Homes
  BY <1>1 DEF StatementsInRom
<1>3. h + Size(h) - 1 \in Homes
  BY DEF StatementsInRom
<1>4. CASE Size(h)' = Size(h)
  BY <1>3, <1>4
<1>5. CASE Kind(h)' = "instruction"
  BY <1>1, <1>2, <1>5 DEF CodeInRom, IsCode, Kind
<1>6. CASE \E g \in offsets : \E v : ReadAsWord(Top.addr, g, v)
  <2>1. PICK g \in offsets : \E v : ReadAsWord(Top.addr, g, v)
    BY <1>6
  <2>2. PICK v : ReadAsWord(Top.addr, g, v)
    BY <2>1
  <2>3. PICK k : k = IF v < PrgStart THEN "number" ELSE "open"
    OBVIOUS
  <2>4. PICK r : r = [kind |-> k, value |-> v, label |-> None]
    OBVIOUS
  <2>5. statement' = [statement EXCEPT ![g] = r] /\ \A e \in g + 1 .. g + 2 - 1 : e \in offsets
    BY <2>2, <2>3, <2>4 DEF ReadAsWord, Took, Leaves
  <2>6. CASE h = g
    <3>1. statement'[h].kind = k
      BY <1>1, <2>4, <2>5, <2>6
    <3>2. Size(h)' = 2
      BY <2>3, <3>1 DEF Size
    <3>3. h \in Int /\ h + 1 \in g + 1 .. g + 2 - 1
      BY <1>1, <2>6
    <3>4. h + 1 \in Homes /\ h + 2 - 1 = h + 1
      BY <1>1, <2>5, <3>3
    <3> QED
      BY <3>2, <3>4
  <2>7. CASE h # g
    <3>1. statement'[h] = statement[h]
      BY <2>5, <2>7
    <3> QED
      BY <1>3, <3>1 DEF Size
  <2> QED
    BY <2>6, <2>7
<1>7. CASE statement'[h] # statement[h] /\ Kind(h)' # "instruction"
           /\ ~(\E g \in offsets : \E v : ReadAsWord(Top.addr, g, v))
  <2>1. Kind(h) = "open" /\ Kind(h)' \in {"number", "reference"}
    <3>1. CASE MarkFails
      BY <1>1, <1>7, <3>1, MarkFailsDoes
    <3>2. CASE LabelTheWord
      <4>1. PICK w, r : /\ statement' = [statement EXCEPT ![w] = r] /\ w = Top.arg
                        /\ r.kind \in {"number", "reference"} /\ Kind(w) = "open"
        BY <3>2, LabelTheWordDoes
      <4> QED
        BY <1>1, <1>7, <4>1 DEF Kind
    <3>3. CASE \E g \in offsets, c \in OpCodes : \E v, name : Decoded(Top.addr, g, c, v, name)
      <4>1. PICK g \in offsets, c \in OpCodes : \E v, name : Decoded(Top.addr, g, c, v, name)
        BY <3>3
      <4>2. PICK v, name : Decoded(Top.addr, g, c, v, name)
        BY <4>1
      <4>3. PICK r : /\ r = [kind |-> "instruction", code |-> c, addr |-> Top.addr, value |-> v,
                             label |-> name]
                     /\ statement' = [statement EXCEPT ![g] = r]
        BY <4>2 DEF Decoded
      <4>4. r.kind = "instruction"
        BY <4>3
      <4> QED
        BY <1>1, <1>7, <4>3, <4>4 DEF Kind
    <3> QED
      BY <1>7, <3>1, <3>2, <3>3, StepsAre
  <2>2. Size(h) = 2 /\ Size(h)' = 2
    BY <2>1 DEF Size, Kind
  <2> QED
    BY <1>4, <2>2
<1> QED
  BY <1>4, <1>5, <1>6, <1>7 DEF Size

(* A word is a reference when it has a label.                               *)
ReferencesLabelled == \A h \in Homes : Kind(h) = "reference" => statement[h].label # None

LEMMA ReferencesStayLabelled ==
    ASSUME Inv, [Next]_vars, Progress, ReferencesLabelled
    PROVE  ReferencesLabelled'
<1>1. Typed /\ DOMAIN statement = Homes /\ Homes' = Homes /\ None' = None
  BY SameHomes DEF Inv, Typed, StatementsTyped, Progress
<1>2. SUFFICES ASSUME NEW h \in Homes, Kind(h)' = "reference" PROVE statement'[h].label # None
  BY <1>1 DEF ReferencesLabelled
<1>3. CASE statement'[h] = statement[h]
  BY <1>2, <1>3 DEF ReferencesLabelled, Kind
<1>4. CASE statement'[h] # statement[h]
  <2>1. CASE \E c \in OpCodes : \E v, name : Decoded(Top.addr, h, c, v, name)
    <3>1. PICK c, v, name : Decoded(Top.addr, h, c, v, name)
      BY <2>1
    <3>2. PICK r : /\ r = [kind |-> "instruction", code |-> c, addr |-> Top.addr, value |-> v,
                           label |-> name]
                   /\ statement' = [statement EXCEPT ![h] = r]
      BY <3>1 DEF Decoded
    <3>3. r.kind = "instruction"
      BY <3>2
    <3> QED
      BY <1>1, <1>2, <3>2, <3>3 DEF Kind
  <2>2. CASE LabelTheWord /\ h = Top.arg
    <3>1. PICK found, r : /\ statement' = [statement EXCEPT ![h] = r] /\ r.label = found
                          /\ r.kind = (IF found = None THEN "number" ELSE "reference")
      BY <2>2, LabelTheWordDoes
    <3> QED
      BY <1>1, <1>2, <3>1 DEF Kind
  <2> QED
    BY <1>2, <1>4, <2>1, <2>2, NewlyLabelled
<1> QED
  BY <1>3, <1>4

(* The first byte of the ROM is nobody's operand.                           *)
LEMMA StartStaysListed ==
    ASSUME Inv, [Next]_vars, Progress, Start \in list
    PROVE  (Start \in list)'
<1>1. /\ Typed /\ banks \in 1 .. 2 /\ offsets \subseteq Homes /\ Start' = Start /\ Homes \subseteq Int
  BY TypedSets DEF Inv, Typed, Progress, Start, End
<1>2. ASSUME NEW g \in offsets, NEW n \in 1 .. 3, Took(g, n) PROVE Start \in list'
  <2>1. list' = list \ (g + 1 .. g + n - 1)
    BY <1>2 DEF Took, Leaves
  <2>2. g \in Int /\ Start \in Nat /\ Start <= g
    BY <1>1, Layout
  <2>3. Start \notin g + 1 .. g + n - 1
    BY <2>2
  <2> QED
    BY <2>1, <2>3
<1>3. CASE \E g \in offsets, c \in OpCodes : \E v, name : Decoded(Top.addr, g, c, v, name)
  <2>1. PICK g \in offsets, c \in OpCodes : \E v, name : Decoded(Top.addr, g, c, v, name)
    BY <1>3
  <2>2. c \in DOMAIN Shape /\ Took(g, Shape[c].size)
    BY <2>1 DEF Decoded
  <2> QED
    BY <1>1, <1>2, <2>2, ShapeFacts
<1>4. CASE \E g \in offsets : \E v : ReadAsWord(Top.addr, g, v)
  <2>1. PICK g \in offsets : Took(g, 2)
    BY <1>4 DEF ReadAsWord
  <2> QED
    BY <1>1, <1>2, <2>1
<1>5. ASSUME MarkFails \/ LabelTheWord PROVE UNCHANGED list
  BY <1>5 DEF MarkFails, LabelTheWord
<1> QED
  BY <1>1, <1>3, <1>4, <1>5, StepsAre

(* What marking keeps for the text, together.                               *)
TextKept ==
    /\ OperandsFit /\ LabelsStand /\ LabelsApart /\ OpenListed /\ MirrorNamed
    /\ StatementsInRom /\ ReferencesLabelled /\ Start \in list

LEMMA InitText == Init => TextKept
<1> SUFFICES ASSUME Init PROVE TextKept
  OBVIOUS
<1>1. labels = {} /\ list = Homes /\ offsets = Homes /\ \A h \in Homes : Kind(h) = "byte"
  BY DEF Init, Kind
<1>2. work = [i \in 1 .. VectorCount |-> Word(Vectors[i])] /\ VectorCount \in Nat
  BY DisassemblerAssumption DEF Init
<1>3. Len(work) = VectorCount /\ \A i \in 1 .. Len(work) : work[i] = Word(Vectors[i])
  BY <1>2
<1>4. \A i \in 1 .. Len(work) : work[i].op = "word"
  BY <1>3 DEF Word
<1>5. \A a, w : ~Due("mark", a, w) /\ ~Due("return", a, w)
  BY <1>4 DEF Due
<1>6. \A h \in Homes : ~IsCode(h)
  BY <1>1 DEF IsCode, Kind
<1>7. OperandsFit /\ LabelsStand /\ LabelsApart /\ OpenListed
  BY <1>1, <1>6 DEF OperandsFit, LabelsStand, Overlaps, LabelsApart, OpenListed
<1>8. Unmirrored
  BY <1>1, <1>5, <1>6 DEF Unmirrored
<1>9. StatementsInRom
  <2>1. \A h \in Homes : Size(h) = 1 /\ h \in Int
    BY <1>1, InitInv, TypedSets DEF Inv, Size, Kind
  <2>2. \A h \in Int : h + 1 - 1 = h
    OBVIOUS
  <2> QED
    BY <2>1, <2>2 DEF StatementsInRom
<1>10. ReferencesLabelled /\ Start \in list
  <2>1. banks \in 1 .. 2
    BY DEF Init
  <2>2. Start \in Homes
    BY <2>1, Layout
  <2> QED
    BY <1>1, <2>2 DEF ReferencesLabelled
<1> QED
  BY <1>7, <1>8, <1>9, <1>10 DEF TextKept, MirrorNamed

LEMMA TextStays ==
    ASSUME MarkingInv, TextKept, [Next]_vars, Located, Located'
    PROVE  TextKept'
<1>1. /\ Inv /\ LabelsNamed /\ MarksOfWords /\ OperandsFit /\ LabelsStand /\ LabelsApart
      /\ OpenListed /\ MirrorNamed /\ StatementsInRom /\ ReferencesLabelled /\ Start \in list
  BY DEF MarkingInv, TextKept, AllReached
<1>2. Inv' /\ Progress
  BY <1>1, NextKeeps, InvUnchanged, NextProgress
<1>3. OperandsFit'
  BY <1>1, <1>2, OperandsStayFit
<1>4. LabelsStand'
  BY <1>1, <1>2, LabelsStayStanding
<1>5. LabelsApart'
  BY <1>1, LabelsAlwaysApart
<1>6. OpenListed'
  BY <1>1, <1>2, OpenStayListed
<1>7. MirrorNamed'
  BY <1>1, <1>2, MirrorStaysNamed
<1>8. StatementsInRom'
  <2>1. CodeInRom'
    BY <1>2, MarkingStays DEF MarkingInv
  <2> QED
    BY <1>1, <1>2, <2>1, StatementsStayInRom
<1>9. ReferencesLabelled' /\ (Start \in list)'
  BY <1>1, <1>2, ReferencesStayLabelled, StartStaysListed
<1> QED
  BY <1>3, <1>4, <1>5, <1>6, <1>7, <1>8, <1>9 DEF TextKept
=============================================================================
