---------------------------- MODULE PackageProofs ----------------------------
(***************************************************************************)
(* Proofs about a ROM taken apart and put together again, for every ROM:    *)
(* that it comes back byte for byte, unless it has one of the exceptions    *)
(* that are named, and that what is lost is noticed.                        *)
(*                                                                          *)
(* TextProofs says what becomes of a listing.  The one that marking ended   *)
(* with stands where the elements of its list do (TextInPlace), and is      *)
(* assembled to the bytes they were decoded from (TextSpelled), which       *)
(* together are the ROM (RomIsSpelled).                                     *)
(*                                                                          *)
(* That a loss is noticed is shown without the exceptions' help, by the     *)
(* size of what is assembled (BankWeighs).                                  *)
(***************************************************************************)
EXTENDS TextProofs, DispatchProofs

-----------------------------------------------------------------------------
(* The list in order.                                                       *)

(* The places in front of e, in order.                                      *)
PlacesTo(P, e) ==
    /\ P \in Seq(Int)
    /\ \A i \in 1 .. Len(P) : 2 * Start <= P[i] /\ P[i] < e /\ Placed(P[i])
    /\ \A i, j \in 1 .. Len(P) : i < j => P[i] < P[j]
    /\ \A p \in Int : 2 * Start <= p /\ p < e /\ Placed(p) => \E i \in 1 .. Len(P) : P[i] = p

PlaceStep(c, places, p) == WithPlace(places, p)
PlaceInv(c, seq, k, places) == PlacesTo(places, c + k)
Placing == INSTANCE FoldRule WITH Op <- PlaceStep, Holds <- PlaceInv

(* One place more.                                                          *)
LEMMA WithPlaceKeeps ==
    ASSUME Start \in Nat, NEW P, NEW e \in Int, PlacesTo(P, e), 2 * Start <= e
    PROVE  PlacesTo(WithPlace(P, e), e + 1)
<1>1. P \in Seq(Int) /\ Len(P) \in Nat
  BY DEF PlacesTo
<1>2. CASE ~Placed(e)
  <2>1. \A p \in Int : p < e + 1 => p < e \/ p = e
    OBVIOUS
  <2>2. \A i \in 1 .. Len(P) : P[i] \in Int
    BY <1>1
  <2> QED
    BY <1>2, <2>1, <2>2 DEF PlacesTo, WithPlace
<1>3. CASE Placed(e)
  <2>1. PICK Q \in Seq(Int) : Q = Append(P, e) /\ Len(Q) = Len(P) + 1 /\ Q[Len(P) + 1] = e
                                /\ \A i \in 1 .. Len(P) : Q[i] = P[i]
    <3>1. /\ Append(P, e) \in Seq(Int) /\ Len(Append(P, e)) = Len(P) + 1
          /\ Append(P, e)[Len(P) + 1] = e /\ \A i \in 1 .. Len(P) : Append(P, e)[i] = P[i]
      BY <1>1, AppendProperties
    <3> QED
      BY <3>1
  <2>2. WithPlace(P, e) = Q
    BY <1>3, <2>1 DEF WithPlace
  <2>3. ASSUME NEW i \in 1 .. Len(Q)
        PROVE  2 * Start <= Q[i] /\ Q[i] < e + 1 /\ Placed(Q[i])
    <3>1. CASE i \in 1 .. Len(P)
      <4>1. PICK q \in Int : q = P[i]
        BY <1>1, <3>1
      <4>2. 2 * Start <= q /\ q < e /\ Placed(q)
        BY <3>1, <4>1 DEF PlacesTo
      <4> QED
        BY <2>1, <3>1, <4>1, <4>2
    <3>2. CASE i = Len(P) + 1
      BY <1>3, <2>1, <3>2
    <3> QED
      BY <1>1, <2>1, <3>1, <3>2
  <2>4. ASSUME NEW i \in 1 .. Len(Q), NEW j \in 1 .. Len(Q), i < j PROVE Q[i] < Q[j]
    <3>1. i \in 1 .. Len(P)
      BY <1>1, <2>1, <2>4
    <3>2. Q[i] = P[i] /\ P[i] < e
      BY <2>1, <3>1 DEF PlacesTo
    <3>3. CASE j \in 1 .. Len(P)
      BY <2>1, <2>4, <3>1, <3>3 DEF PlacesTo
    <3>4. CASE j = Len(P) + 1
      BY <2>1, <3>2, <3>4
    <3> QED
      BY <1>1, <2>1, <3>3, <3>4
  <2>5. ASSUME NEW p \in Int, 2 * Start <= p, p < e + 1, Placed(p)
        PROVE  \E i \in 1 .. Len(Q) : Q[i] = p
    <3>1. CASE p < e
      <4>1. PICK i \in 1 .. Len(P) : P[i] = p
        BY <2>5, <3>1 DEF PlacesTo
      <4>2. i \in 1 .. Len(Q)
        BY <1>1, <2>1, <4>1
      <4> QED
        BY <2>1, <4>1, <4>2
    <3>2. CASE p = e
      <4>1. Len(P) + 1 \in 1 .. Len(Q)
        BY <1>1, <2>1
      <4> QED
        BY <2>1, <3>2, <4>1
    <3> QED
      BY <2>5, <3>1, <3>2
  <2> QED
    BY <2>2, <2>3, <2>4, <2>5, <2>1 DEF PlacesTo
<1> QED
  BY <1>2, <1>3

(* The places of the list are all of them.                                  *)
LEMMA PlacesAre ==
    ASSUME banks \in 1 .. 2
    PROVE  PlacesTo(Places, 2 * End)
<1>1. PICK s \in Nat, t \in Nat : s = Start /\ t = End /\ s <= t /\ Homes = s .. t - 1
  BY Layout
<1>2. Cardinality(Homes) = t - s
  <2>1. s \in Int /\ t - 1 \in Int /\ t - 1 - s + 1 = t - s /\ (s > t - 1 => t - s = 0)
    BY <1>1
  <2>2. Cardinality(s .. t - 1) = IF s > t - 1 THEN 0 ELSE t - 1 - s + 1
    BY <2>1, FS_Interval
  <2> QED
    BY <1>1, <2>1, <2>2
<1>3. PICK n \in Nat : n = 2 * (t - s) /\ n = 2 * Cardinality(Homes)
  BY <1>1, <1>2
<1>4. PICK seq : seq = [i \in 1 .. n |-> 2 * s + i - 1]
  OBVIOUS
<1>5. DOMAIN seq = 1 .. n /\ \A i \in 1 .. n : seq[i] = 2 * s + i - 1
  BY <1>4
<1>6. PICK c \in Int : c = 2 * s
  BY <1>1
<1>7. PlaceInv(c, seq, 0, << >>)
  BY <1>1, <1>6 DEF PlaceInv, PlacesTo
<1>8. ASSUME NEW k \in 1 .. n, NEW P, PlaceInv(c, seq, k - 1, P)
      PROVE  PlaceInv(c, seq, k, PlaceStep(c, P, seq[k]))
  <2>1. PICK e \in Int : e = c + (k - 1) /\ e = seq[k] /\ e + 1 = c + k /\ 2 * Start <= e
    <3>1. seq[k] = 2 * s + k - 1
      BY <1>5
    <3>2. c + (k - 1) = 2 * s + k - 1 /\ (2 * s + k - 1) + 1 = c + k /\ 2 * Start <= 2 * s + k - 1
          /\ 2 * s + k - 1 \in Int
      BY <1>1, <1>6
    <3> QED
      BY <3>1, <3>2
  <2>2. PlacesTo(P, e)
    BY <1>8, <2>1 DEF PlaceInv
  <2>3. PlacesTo(WithPlace(P, e), e + 1)
    BY <1>1, <2>1, <2>2, WithPlaceKeeps
  <2> QED
    BY <2>1, <2>3 DEF PlaceInv, PlaceStep
<1>9. PlaceInv(c, seq, n, Placing!Fold(c, << >>, seq))
  BY <1>5, <1>7, <1>8, Placing!Rule
<1>10. Places = Placing!Fold(c, << >>, seq)
  <2>1. seq = [i \in 1 .. 2 * Cardinality(Homes) |-> 2 * Start + i - 1]
    BY <1>1, <1>3, <1>4
  <2> QED
    BY <2>1 DEF Places, Placing!Fold, PlaceStep, FoldLeft, MapThenFoldSet,
                Placing!MapThenFoldSet, Placing!Largest, Max
<1>11. c + n = 2 * End
  BY <1>1, <1>3, <1>6
<1> QED
  BY <1>9, <1>10, <1>11 DEF PlaceInv

(* Marking is over, and no label is known to have moved.                    *)
Marked ==
    /\ MarkingInv /\ TextKept /\ Located /\ phase = "done" /\ ~Moved

(* What that means for the list and its labels.                             *)
LEMMA MarkedIs ==
    ASSUME Marked
    PROVE  /\ Typed /\ StatementsTyped /\ banks \in 1 .. 2 /\ list \subseteq Homes /\ Homes \subseteq Int
           /\ NoOverlap /\ Start \in list /\ StatementsInRom /\ None \notin Homes
           /\ \A h \in Homes : Kind(h) \in {"byte", "number", "reference", "instruction"}
           /\ \A l \in labels : l.home \in list /\ l.name \in Int
           /\ End - 1 \notin list
           /\ \A h \in Homes : IsCode(h) => statement[h].addr = h /\ OperandFits(h)
           /\ ReferencesLabelled /\ LabelsNamed /\ LabelsApart
<1>1. /\ MarkingInv /\ TextKept /\ Located /\ phase = "done" /\ ~Moved
      /\ Inv /\ Typed /\ NoOverlap /\ LabelsNamed /\ LastByteKept
      /\ OperandsFit /\ LabelsStand /\ LabelsApart /\ MirrorNamed /\ StatementsInRom
      /\ ReferencesLabelled /\ Start \in list
  BY DEF Marked, MarkingInv, TextKept, Inv
<1>2. work = << >> /\ banks \in 1 .. 2
  BY <1>1 DEF Inv, DoneIsDone, Typed
<1>3. \A op, a, w : ~Due(op, a, w)
  BY <1>2 DEF Due
<1>4. \A h \in Homes : Kind(h) # "open"
  BY <1>1, <1>2 DEF Inv, WorkInOrder, OpenAwaited
<1>5. \A h \in Homes : Kind(h) \in {"byte", "number", "reference", "instruction"}
  BY <1>1, <1>4, KindIs, TypedSets DEF Kinds
<1>6. \A l \in labels : l.home \in list /\ l.name \in Int
  <2>1. \A l \in labels : l \in [name : Int, home : Homes]
    BY <1>1 DEF Typed, LabelsTyped
  <2> QED
    BY <1>1, <2>1 DEF LabelsStand, Overlaps
<1>7. End - 1 \notin list
  BY <1>1, <1>3, TypedSets DEF LastByteKept, WordDue, LastByteTaken
<1>8. \A h \in Homes : IsCode(h) => statement[h].addr = h /\ OperandFits(h)
  BY <1>1, <1>3 DEF MirrorNamed, WordLeads, Unmirrored, OperandsFit
<1> QED
  BY <1>1, <1>2, <1>5, <1>6, <1>7, <1>8, TypedSets

-----------------------------------------------------------------------------
(* The listing.                                                             *)

(* How accesses name their operands, and the bytes of data.                 *)
Chosen(f, d) == f \in [Accesses -> Forms] /\ d \in [DataHomes -> 0 .. Radix - 1]

ElementHere(P, L, f, d, k, h) == h \in list /\ P[k] = 2 * h + 1 /\ L[k] = StatementAt(h, f, d)
LabelHere(P, L, k, h) ==
    h \in list /\ P[k] = 2 * h /\ \E l \in labels : l.home = h /\ L[k] = Asm!Label(l.name, h)

(* The statement of an element of the list. *)
IsListed(s, h) ==
    /\ s.home = h /\ s.kind \in {"data", "instruction"} /\ Lone(s) /\ s \in Statement
    /\ TrueSize(s) = Size(h)
    /\ s.kind = "data" => Len(s.items) = 1

ReadsAs(s, f, d, h) ==
    /\ Kind(h) = "byte" => /\ h \in DataHomes /\ s = Asm!Data(1, <<Asm!Number(d[h])>>, h)
                           /\ d[h] \in 0 .. Radix - 1
    /\ Kind(h) = "number" => s = Asm!Data(2, <<Asm!Number(statement[h].value)>>, h)
    /\ Kind(h) = "reference" => s = Asm!Data(2, <<Asm!LabelCall(statement[h].label)>>, h)
    /\ Kind(h) = "instruction" =>
          s = Asm!Instruction(statement[h].code, IF h \in Accesses THEN f[h] ELSE "direct",
                              statement[h].value, statement[h].label, h)

(* What the text says of an element.                                        *)
LEMMA StatementAtIs ==
    ASSUME Marked, NEW f, NEW d, Chosen(f, d), NEW h \in list, NEW s, s = StatementAt(h, f, d)
    PROVE  IsListed(s, h) /\ ReadsAs(s, f, d, h)
<1>1. /\ h \in Homes /\ h \in Int /\ StatementsTyped
      /\ Kind(h) \in {"byte", "number", "reference", "instruction"}
  BY MarkedIs
<1>2. CASE Kind(h) = "byte"
  <2>1. h \in DataHomes
    BY <1>2 DEF DataHomes, Kind
  <2>2. PICK v : v = d[h] /\ v \in 0 .. Radix - 1 /\ v \in Int
    BY <2>1 DEF Chosen
  <2>3. PICK item : item = [kind |-> "number", value |-> v] /\ item \in NumberItem
    <3>1. [kind |-> "number", value |-> v] \in NumberItem
      BY <2>2 DEF NumberItem
    <3> QED
      BY <3>1
  <2>4. s = [kind |-> "data", width |-> 1, items |-> <<item>>, home |-> h]
    BY <1>2, <2>2, <2>3 DEF StatementAt, Kind, Asm!Data, Asm!Number
  <2>5. <<item>> \in Seq(Item) /\ Len(<<item>>) = 1 /\ <<item>>[1] = item
    BY <2>3 DEF Item
  <2>6. s \in DataStatement /\ s.kind = "data" /\ s.width = 1 /\ s.home = h
        /\ s.items = <<item>>
    BY <1>1, <2>4, <2>5 DEF DataStatement
  <2>7. Lone(s) /\ s \in Statement
    BY <2>3, <2>5, <2>6 DEF Lone, Statement
  <2>8. TrueSize(s) = 1 /\ Size(h) = 1
    BY <1>1, <1>2, <2>6, SizeIs DEF TrueSize
  <2>9. s = Asm!Data(1, <<Asm!Number(d[h])>>, h)
    BY <2>2, <2>3, <2>4 DEF Asm!Data, Asm!Number
  <2> QED
    BY <1>2, <2>1, <2>2, <2>5, <2>6, <2>7, <2>8, <2>9 DEF IsListed, ReadsAs
<1>3. CASE Kind(h) \in {"number", "reference"}
  <2>1. statement[h] \in DataWord
    BY <1>1, <1>3, KindIs
  <2>2. PICK item : /\ item = IF Kind(h) = "number" THEN [kind |-> "number", value |-> statement[h].value]
                              ELSE [kind |-> "call", value |-> statement[h].label]
                    /\ item \in NumberItem \cup CallItem
    <3>1. PICK v \in Int, l \in Int : v = statement[h].value /\ l = statement[h].label
      BY <2>1 DEF DataWord
    <3>2. [kind |-> "number", value |-> v] \in NumberItem /\ [kind |-> "call", value |-> l] \in CallItem
      BY <3>1 DEF NumberItem, CallItem
    <3> QED
      BY <3>1, <3>2
  <2>3. s = [kind |-> "data", width |-> 2, items |-> <<item>>, home |-> h]
    BY <1>3, <2>2 DEF StatementAt, Kind, Asm!Data, Asm!Number, Asm!LabelCall
  <2>4. <<item>> \in Seq(Item) /\ Len(<<item>>) = 1 /\ <<item>>[1] = item
    BY <2>2 DEF Item
  <2>5. s \in DataStatement /\ s.kind = "data" /\ s.width = 2 /\ s.home = h
        /\ s.items = <<item>>
    BY <1>1, <2>3, <2>4 DEF DataStatement
  <2>6. Lone(s) /\ s \in Statement
    BY <2>2, <2>4, <2>5 DEF Lone, Statement
  <2>7. TrueSize(s) = 2 /\ Size(h) = 2
    BY <1>1, <1>3, <2>5, SizeIs DEF TrueSize
  <2>8. Kind(h) = "number" => s = Asm!Data(2, <<Asm!Number(statement[h].value)>>, h)
    BY <2>2, <2>3 DEF Asm!Data, Asm!Number
  <2>9. Kind(h) = "reference" => s = Asm!Data(2, <<Asm!LabelCall(statement[h].label)>>, h)
    BY <2>2, <2>3 DEF Asm!Data, Asm!LabelCall
  <2> QED
    BY <1>3, <2>4, <2>5, <2>6, <2>7, <2>8, <2>9 DEF IsListed, ReadsAs
<1>4. CASE Kind(h) = "instruction"
  <2>1. statement[h] \in Instruction
    BY <1>1, <1>4, KindIs
  <2>2. PICK c \in DOMAIN Shape, v \in Int, l \in Int :
           c = statement[h].code /\ v = statement[h].value /\ l = statement[h].label
    BY <2>1 DEF Instruction
  <2>3. PICK g \in Forms \cup {"direct"} : g = IF h \in Accesses THEN f[h] ELSE "direct"
    BY DEF Chosen
  <2>4. s = [kind |-> "instruction", code |-> c, form |-> g, value |-> v, label |-> l, home |-> h]
    BY <1>4, <2>2, <2>3 DEF StatementAt, Kind, Asm!Instruction
  <2>5. s \in CodeStatement /\ s.kind = "instruction" /\ s.code = c /\ s.home = h
    BY <1>1, <2>2, <2>3, <2>4 DEF CodeStatement
  <2>6. Lone(s) /\ s \in Statement
    BY <2>5 DEF Lone, Statement
  <2>7. TrueSize(s) = Shape[c].size /\ Size(h) = Shape[c].size
    BY <1>1, <1>4, <2>2, <2>5, SizeIs DEF TrueSize
  <2>8. s = Asm!Instruction(statement[h].code, IF h \in Accesses THEN f[h] ELSE "direct",
                            statement[h].value, statement[h].label, h)
    BY <2>2, <2>3, <2>4 DEF Asm!Instruction
  <2> QED
    BY <1>4, <2>5, <2>6, <2>7, <2>8 DEF IsListed, ReadsAs
<1> QED
  BY <1>1, <1>2, <1>3, <1>4

(* A listing, its places, and what stands at each.                          *)
Text(P, L, f, d) ==
    /\ Marked /\ Chosen(f, d) /\ PlacesTo(P, 2 * End)
    /\ Listing(L) /\ Len(L) = Len(P) /\ Len(L) > 0
    /\ \A k \in 1 .. Len(L) : \E h \in list : ElementHere(P, L, f, d, k, h) \/ LabelHere(P, L, k, h)

(* A place is an element, or a label in front of one.                       *)
LEMMA PlaceIs ==
    ASSUME Marked, NEW p \in Int, Placed(p)
    PROVE  /\ p \div 2 \in list
           /\ p % 2 = 1 => p = 2 * (p \div 2) + 1
           /\ p % 2 # 1 => p = 2 * (p \div 2)
           /\ p % 2 # 1 => \E l \in labels : l.home = p \div 2
<1>1. PICK h \in Int, r \in {0, 1} : p = 2 * h + r /\ p \div 2 = h /\ p % 2 = r
  <2>1. PICK h \in Int : h = p \div 2
    OBVIOUS
  <2>2. PICK r \in {0, 1} : r = p % 2
    OBVIOUS
  <2>3. p = 2 * h + r
    BY <2>1, <2>2
  <2> QED
    BY <2>1, <2>2, <2>3
<1>2. CASE r = 1
  BY <1>1, <1>2 DEF Placed
<1>3. CASE r = 0
  <2>1. PICK l \in labels : 2 * l.home = p
    BY <1>1, <1>3 DEF Placed
  <2>2. l.home \in list /\ list \subseteq Int
    BY MarkedIs
  <2>3. PICK g \in Int : g = l.home
    BY <2>2
  <2>4. 2 * g = p /\ p = 2 * h
    BY <1>1, <1>3, <2>1, <2>3
  <2>5. g = h
    BY <2>4
  <2>6. h \in list /\ \E m \in labels : m.home = h
    BY <2>2, <2>3, <2>5
  <2>7. p % 2 # 1 /\ p = 2 * h
    BY <1>1, <1>3
  <2> QED
    BY <1>1, <2>6, <2>7
<1> QED
  BY <1>1, <1>2, <1>3

(* The label in front of an element.                                        *)
LEMMA LabelPutIs ==
    ASSUME Marked, NEW h \in list, \E l \in labels : l.home = h
    PROVE  /\ \E l \in labels : l.home = h /\ LabelPut(h) = Asm!Label(l.name, h)
           /\ LabelPut(h) \in LabelStatement
<1>1. PICK l \in labels : l.home = h /\ LabelPut(h) = Asm!Label(l.name, h)
  <2>1. PICK l : l = CHOOSE m \in labels : m.home = h
    OBVIOUS
  <2>2. l \in labels /\ l.home = h
    BY <2>1
  <2> QED
    BY <2>1, <2>2 DEF LabelPut
<1>2. l.name \in Int /\ h \in Int
  BY MarkedIs
<1>3. PICK n \in Int : n = l.name
  BY <1>2
<1>4. [kind |-> "label", name |-> n, home |-> h] \in LabelStatement
  BY <1>2 DEF LabelStatement
<1>5. LabelPut(h) \in LabelStatement
  BY <1>1, <1>3, <1>4 DEF Asm!Label
<1> QED
  BY <1>1, <1>5

(* Such is the listing that marking ends with.                              *)
LEMMA ListedIsText ==
    ASSUME Marked, NEW f, NEW d, Chosen(f, d)
    PROVE  Text(Places, Listed(f, d), f, d)
<1>1. PICK P, e : e \in Int /\ P = Places /\ e = 2 * End /\ PlacesTo(P, e)
  <2>1. banks \in 1 .. 2
    BY MarkedIs
  <2>2. PICK e \in Int : e = 2 * End
    BY <2>1, Layout
  <2>3. PlacesTo(Places, e)
    BY <2>1, <2>2, PlacesAre
  <2> QED
    BY <2>2, <2>3
<1>2. P \in Seq(Int) /\ Len(P) \in Nat
  BY <1>1 DEF PlacesTo
<1>3. PICK L : L = Listed(f, d)
  OBVIOUS
<1>4. L = [i \in 1 .. Len(P) |-> IF P[i] % 2 = 1 THEN StatementAt(P[i] \div 2, f, d)
                                 ELSE LabelPut(P[i] \div 2)]
  <2>1. DOMAIN P = 1 .. Len(P)
    BY <1>2
  <2> QED
    BY <1>1, <1>3, <2>1 DEF Listed
<1>5. ASSUME NEW k \in 1 .. Len(P)
      PROVE  /\ \E h \in list : ElementHere(P, L, f, d, k, h) \/ LabelHere(P, L, k, h)
             /\ L[k] \in Statement /\ Lone(L[k])
  <2>1. PICK p \in Int : p = P[k] /\ Placed(p)
    BY <1>1, <1>2 DEF PlacesTo
  <2>2. PICK h : h = p \div 2
    OBVIOUS
  <2>3. /\ p % 2 = 1 => p = 2 * h + 1
        /\ p % 2 # 1 => p = 2 * h
        /\ p % 2 # 1 => \E l \in labels : l.home = h
    BY <2>1, <2>2, PlaceIs
  <2>4. h \in list
    BY <2>1, <2>2, PlaceIs
  <2>5. CASE p % 2 = 1
    <3>1. L[k] = StatementAt(h, f, d)
      BY <1>4, <2>1, <2>2, <2>5
    <3>2. StatementAt(h, f, d) \in Statement /\ Lone(StatementAt(h, f, d))
      BY <2>4, StatementAtIs DEF IsListed
    <3> QED
      BY <2>1, <2>3, <2>4, <2>5, <3>1, <3>2 DEF ElementHere
  <2>6. CASE p % 2 # 1
    <3>1. L[k] = LabelPut(h)
      BY <1>4, <2>1, <2>2, <2>6
    <3>2. LabelPut(h) \in LabelStatement /\ \E l \in labels : l.home = h /\ LabelPut(h) = Asm!Label(l.name, h)
      BY <2>3, <2>4, <2>6, LabelPutIs
    <3> QED
      BY <2>1, <2>3, <2>4, <2>6, <3>1, <3>2 DEF LabelHere, Statement, Lone
  <2> QED
    BY <2>5, <2>6
<1>6. L \in Seq(Statement) /\ Len(L) = Len(P)
  <2>1. PICK n \in Nat : n = Len(P)
    BY <1>2
  <2>2. \A k \in 1 .. n : L[k] \in Statement
    BY <1>5, <2>1
  <2>3. L = [k \in 1 .. n |-> L[k]]
    BY <1>4, <2>1
  <2>4. L \in [1 .. n -> Statement]
    BY <2>2, <2>3
  <2>5. L \in Seq(Statement) /\ Len(L) = n
    BY <2>4, SeqDef, LenProperties
  <2> QED
    BY <2>1, <2>5
<1>7. Listing(L)
  BY <1>5, <1>6 DEF Listing
<1>8. Len(P) > 0
  <2>1. Start \in list /\ Start \in Nat /\ End \in Nat /\ Start < End /\ banks \in 1 .. 2
    <3>1. banks \in 1 .. 2 /\ Start \in list /\ list \subseteq Homes
      BY MarkedIs
    <3> QED
      BY <3>1, Layout
  <2>2. PICK s \in Nat : s = Start
    BY <2>1
  <2>3. (2 * s + 1) % 2 = 1 /\ (2 * s + 1) \div 2 = s
    OBVIOUS
  <2>4. Placed(2 * s + 1)
    BY <2>1, <2>2, <2>3 DEF Placed
  <2>5. 2 * s + 1 \in Int /\ 2 * Start <= 2 * s + 1 /\ 2 * s + 1 < e
    BY <1>1, <2>1, <2>2
  <2>6. \E i \in 1 .. Len(P) : P[i] = 2 * s + 1
    BY <1>1, <2>4, <2>5 DEF PlacesTo
  <2> QED
    BY <1>2, <2>6
<1> QED
  BY <1>1, <1>3, <1>5, <1>6, <1>7, <1>8 DEF Text

-----------------------------------------------------------------------------
(* Where the statements of the listing are.                                 *)

(* Up to its successor an element of the list holds all bytes or is too     *)
(* short for that.                                                          *)
LEMMA GapHeld ==
    ASSUME Marked, NEW h \in list, NEW g \in Int, h < g, g <= End, g \in list \/ g = End,
           \A n \in list : ~(h < n /\ n < g)
    PROVE  /\ h \in Int /\ Size(h) \in 1 .. 3
           /\ h + Size(h) <= g
           /\ h + Size(h) = g <=> \A b \in h .. g - 1 : Holders(b) # {}
<1>1. /\ banks \in 1 .. 2 /\ list \subseteq Homes /\ Homes \subseteq Int /\ NoOverlap /\ StatementsInRom
      /\ StatementsTyped
  BY MarkedIs
<1>2. PICK z \in 1 .. 3 : z = Size(h)
  BY <1>1, SizeIs
<1>3. h \in Int /\ h + z <= End
  <2>1. h \in Int /\ h + z - 1 \in Homes
    BY <1>1, <1>2 DEF StatementsInRom
  <2>2. PICK e \in Nat : e = End /\ Homes = Start .. e - 1 /\ Start \in Nat
    BY <1>1, Layout
  <2> QED
    BY <2>1, <2>2
<1>4. h + z <= g
  <2>1. SUFFICES ASSUME g < h + z PROVE FALSE
    BY <1>2, <1>3
  <2>2. PICK e \in Nat : e = End
    BY <1>1, Layout
  <2>3. g \in list
    BY <1>3, <2>1, <2>2
  <2>4. g - h \in 1 .. 2 /\ g - h < z /\ h + (g - h) = g
    BY <1>2, <1>3, <2>1
  <2>5. PICK i \in 1 .. 2 : i = g - h
    BY <2>4
  <2>6. ~(i < Size(h) /\ h + i \in list)
    BY <1>1 DEF NoOverlap
  <2> QED
    BY <1>2, <2>3, <2>4, <2>5, <2>6
<1>5. ASSUME h + z = g, NEW b \in h .. g - 1 PROVE Holders(b) # {}
  <2>1. h <= b /\ b < h + z
    BY <1>2, <1>3, <1>5
  <2>2. h \in Holders(b)
    BY <1>2, <2>1 DEF Holders
  <2> QED
    BY <2>2
<1>6. ASSUME \A b \in h .. g - 1 : Holders(b) # {} PROVE h + z = g
  <2>1. SUFFICES ASSUME h + z < g PROVE FALSE
    BY <1>2, <1>3, <1>4
  <2>2. PICK b \in Int : b = h + z /\ b \in h .. g - 1
    BY <1>2, <1>3, <2>1
  <2>3. PICK n \in list : n <= b /\ b < n + Size(n)
    BY <1>6, <2>2 DEF Holders
  <2>4. PICK y \in 1 .. 3 : y = Size(n)
    BY <1>1, SizeIs
  <2>5. n \in Int /\ ~(h < n)
    BY <1>1, <2>1, <2>2, <2>3
  <2>6. n # h
    BY <1>2, <1>3, <2>2, <2>3
  <2>7. h - n \in 1 .. 2 /\ h - n < y /\ n + (h - n) = h
    BY <1>2, <1>3, <2>2, <2>3, <2>4, <2>5, <2>6
  <2> QED
    BY <1>1, <2>4, <2>7 DEF NoOverlap
<1> QED
  BY <1>2, <1>3, <1>4, <1>5, <1>6

(* The home of a place of the list, and behind the last one the end.        *)
HomeAt(P, k) == IF k <= Len(P) THEN P[k] \div 2 ELSE End

LEMMA HomeAtIs ==
    ASSUME NEW P, NEW L, NEW f, NEW d, Text(P, L, f, d), NEW k \in 1 .. Len(L), NEW h
    PROVE  /\ ElementHere(P, L, f, d, k, h) => HomeAt(P, k) = h /\ h \in Int
           /\ LabelHere(P, L, k, h) => HomeAt(P, k) = h /\ h \in Int
           /\ ~(ElementHere(P, L, f, d, k, h) /\ LabelHere(P, L, k, h))
<1>1. k <= Len(P) /\ list \subseteq Int
  BY MarkedIs DEF Text, Listing
<1>2. \A g \in Int : (2 * g + 1) \div 2 = g /\ (2 * g) \div 2 = g /\ 2 * g + 1 # 2 * g
  OBVIOUS
<1>3. ASSUME h \in list, P[k] = 2 * h + 1 \/ P[k] = 2 * h PROVE HomeAt(P, k) = h /\ h \in Int
  BY <1>1, <1>2, <1>3 DEF HomeAt
<1> QED
  BY <1>1, <1>2, <1>3 DEF ElementHere, LabelHere

(* Behind a label is the element it was put in front of.                    *)
LEMMA BehindALabel ==
    ASSUME NEW P, NEW L, NEW f, NEW d, Text(P, L, f, d), NEW k \in 1 .. Len(L), NEW h,
           LabelHere(P, L, k, h)
    PROVE  k + 1 <= Len(L) /\ ElementHere(P, L, f, d, k + 1, h)
<1>1. /\ h \in list /\ P[k] = 2 * h /\ list \subseteq Homes /\ banks \in 1 .. 2
      /\ Marked /\ Len(L) = Len(P) /\ PlacesTo(P, 2 * End) /\ h \in Int
      /\ P \in Seq(Int)
  BY MarkedIs DEF Text, LabelHere, PlacesTo
<1>2. PICK s \in Nat, e \in Nat : s = Start /\ e = End /\ s <= h /\ h < e
  <2>1. PICK s \in Nat, e \in Nat : s = Start /\ e = End /\ Homes = s .. e - 1
    BY <1>1, Layout
  <2>2. h \in s .. e - 1
    BY <1>1, <2>1
  <2>3. s <= h /\ h < e
    BY <2>2
  <2> QED
    BY <2>1, <2>3
<1>3. (2 * h + 1) % 2 = 1 /\ (2 * h + 1) \div 2 = h
  BY <1>1
<1>4. Placed(2 * h + 1)
  BY <1>1, <1>3 DEF Placed
<1>5. PICK q \in Int : q = 2 * h + 1 /\ 2 * Start <= q /\ q < 2 * End /\ Placed(q)
  BY <1>1, <1>2, <1>4
<1>6. PICK j \in 1 .. Len(P) : P[j] = q
  BY <1>1, <1>5 DEF PlacesTo
<1>7. PICK n \in Nat : n = Len(P)
  BY <1>1
<1>8. k < j
  <2>1. ~(j < k)
    <3>1. j < k => P[j] < P[k]
      BY <1>1, <1>6, <1>7 DEF PlacesTo
    <3> QED
      BY <1>1, <1>5, <1>6, <3>1
  <2>2. j # k
    BY <1>1, <1>5, <1>6
  <2> QED
    BY <1>1, <1>6, <1>7, <2>1, <2>2
<1>9. k + 1 \in 1 .. Len(P)
  BY <1>1, <1>6, <1>7, <1>8
<1>10. P[k + 1] = q
  <2>1. PICK a \in Int : a = P[k + 1]
    BY <1>1, <1>9
  <2>2. k < k + 1 /\ P[k] < a
    BY <1>1, <1>7, <1>9, <2>1 DEF PlacesTo
  <2>3. k + 1 < j => a < q
    BY <1>1, <1>6, <1>9, <2>1 DEF PlacesTo
  <2>4. ~(k + 1 < j)
    BY <1>1, <1>5, <2>1, <2>2, <2>3
  <2>5. j = k + 1
    BY <1>1, <1>6, <1>7, <1>8, <2>4
  <2> QED
    BY <1>6, <2>5
<1>11. PICK g \in list : ElementHere(P, L, f, d, k + 1, g) \/ LabelHere(P, L, k + 1, g)
  BY <1>1, <1>9 DEF Text
<1>12. g = h /\ ElementHere(P, L, f, d, k + 1, g)
  <2>1. g \in Int
    BY <1>1, MarkedIs
  <2> QED
    BY <1>1, <1>5, <1>10, <1>11, <2>1 DEF ElementHere, LabelHere
<1> QED
  BY <1>1, <1>7, <1>9, <1>12

(* Behind an element is what the next one begins with.                      *)
LEMMA BehindAnElement ==
    ASSUME NEW P, NEW L, NEW f, NEW d, Text(P, L, f, d), NEW k \in 1 .. Len(L), NEW h,
           ElementHere(P, L, f, d, k, h), NEW g, g = HomeAt(P, k + 1)
    PROVE  /\ g \in Int /\ h \in Int /\ h < g /\ g <= End
           /\ \A n \in list : ~(h < n /\ n < g)
           /\ IF k + 1 <= Len(L)
              THEN /\ g \in list
                   /\ \/ ElementHere(P, L, f, d, k + 1, g) /\ \A l \in labels : l.home # g
                      \/ LabelHere(P, L, k + 1, g)
              ELSE g = End
<1>1. /\ h \in list /\ P[k] = 2 * h + 1 /\ list \subseteq Homes /\ banks \in 1 .. 2
      /\ Marked /\ Len(L) = Len(P) /\ PlacesTo(P, 2 * End) /\ h \in Int
      /\ P \in Seq(Int) /\ list \subseteq Int
  BY MarkedIs DEF Text, ElementHere, PlacesTo
<1>2. PICK s \in Nat, e \in Nat : s = Start /\ e = End /\ \A x \in list : s <= x /\ x < e
  <2>1. PICK s \in Nat, e \in Nat : s = Start /\ e = End /\ Homes = s .. e - 1
    BY <1>1, Layout
  <2>2. \A x \in Homes : s <= x /\ x < e
    BY <2>1
  <2>3. \A x \in list : s <= x /\ x < e
    BY <1>1, <2>2
  <2> QED
    BY <2>1, <2>3
<1>3. PICK n \in Nat : n = Len(P)
  BY <1>1
(* Nothing is placed between the two. *)
<1>4. ASSUME NEW q \in Int, 2 * h + 1 < q, q < 2 * e, Placed(q)
      PROVE  k + 1 \in 1 .. n /\ P[k + 1] <= q
  <2>1. 2 * Start <= q /\ q < 2 * End
    BY <1>1, <1>2, <1>4
  <2>2. PICK j \in 1 .. n : P[j] = q
    BY <1>1, <1>3, <1>4, <2>1 DEF PlacesTo
  <2>3. j < k => P[j] < P[k]
    BY <1>1, <1>3, <2>2 DEF PlacesTo
  <2>4. k < j
    BY <1>1, <1>3, <1>4, <2>2, <2>3
  <2>5. k + 1 \in 1 .. n
    BY <1>1, <1>3, <2>2, <2>4
  <2>6. k + 1 < j => P[k + 1] < P[j]
    BY <1>1, <1>3, <2>2, <2>5 DEF PlacesTo
  <2>7. P[k + 1] \in Int
    BY <1>1, <1>3, <2>5
  <2>8. k + 1 = j \/ k + 1 < j
    BY <1>3, <2>2, <2>4
  <2> QED
    BY <1>4, <2>2, <2>5, <2>6, <2>7, <2>8
<1>5. CASE k + 1 <= Len(L)
  <2>1. k + 1 \in 1 .. n /\ k + 1 \in 1 .. Len(L)
    BY <1>1, <1>3, <1>5
  <2>2. PICK x \in list : ElementHere(P, L, f, d, k + 1, x) \/ LabelHere(P, L, k + 1, x)
    BY <2>1 DEF Text
  <2>3. g = x /\ x \in Int
    BY <2>1, <2>2, HomeAtIs
  <2>4. PICK p \in Int : p = P[k + 1] /\ 2 * h + 1 < p
    <3>1. P[k] < P[k + 1] /\ P[k + 1] \in Int
      BY <1>1, <1>3, <2>1 DEF PlacesTo
    <3> QED
      BY <1>1, <3>1
  <2>5. p = 2 * g + 1 \/ p = 2 * g
    BY <2>2, <2>3, <2>4 DEF ElementHere, LabelHere
  <2>6. h < g /\ g < e
    <3>1. h \in Int /\ g \in Int
      BY <1>1, <2>3
    <3>2. g \in list
      BY <2>2, <2>3
    <3>3. g < e
      BY <1>2, <3>2
    <3>4. h < g
      BY <2>4, <2>5, <3>1
    <3> QED
      BY <3>3, <3>4
  <2>7. ASSUME NEW m \in list, h < m, m < g PROVE FALSE
    <3>1. PICK q \in Int : q = 2 * m + 1 /\ m \in Int
      BY <1>1
    <3>2. q % 2 = 1 /\ q \div 2 = m
      BY <3>1
    <3>3. Placed(q)
      BY <3>2, <2>7 DEF Placed
    <3>4. 2 * h + 1 < q /\ q < 2 * e
      BY <1>1, <1>2, <2>7, <3>1
    <3>5. p <= q
      BY <1>4, <2>4, <3>3, <3>4
    <3> QED
      BY <2>3, <2>5, <2>7, <3>1, <3>5
  <2>8. ASSUME ElementHere(P, L, f, d, k + 1, g), NEW l \in labels, l.home = g PROVE FALSE
    <3>1. PICK q \in Int : q = 2 * g
      BY <2>3
    <3>2. q % 2 = 0 /\ ~(q % 2 = 1)
      BY <2>3, <3>1
    <3>3. Placed(q)
      BY <2>8, <3>1, <3>2 DEF Placed
    <3>4. 2 * h + 1 < q /\ q < 2 * e
      BY <1>1, <1>2, <2>3, <2>6, <3>1
    <3>5. p <= q
      BY <1>4, <2>4, <3>3, <3>4
    <3> QED
      BY <2>3, <2>4, <2>8, <3>1, <3>5 DEF ElementHere
  <2>9. g \in Int /\ h \in Int /\ h < g /\ g <= End /\ g \in list
    <3>1. g \in Int /\ h \in Int /\ g \in list
      BY <1>1, <2>2, <2>3
    <3>2. e = End /\ e \in Nat
      BY <1>2
    <3> QED
      BY <2>6, <3>1, <3>2
  <2>10. \A m \in list : ~(h < m /\ m < g)
    BY <2>7
  <2>11. \/ ElementHere(P, L, f, d, k + 1, g) /\ \A l \in labels : l.home # g
         \/ LabelHere(P, L, k + 1, g)
    BY <2>2, <2>3, <2>8
  <2> QED
    BY <1>5, <2>9, <2>10, <2>11
<1>6. CASE ~(k + 1 <= Len(L))
  <2>1. g = e
    BY <1>1, <1>2, <1>6 DEF HomeAt
  <2>2. ASSUME NEW m \in list, h < m, m < g PROVE FALSE
    <3>1. PICK q \in Int : q = 2 * m + 1 /\ m \in Int
      BY <1>1
    <3>2. q % 2 = 1 /\ q \div 2 = m
      BY <3>1
    <3>3. Placed(q)
      BY <3>2, <2>2 DEF Placed
    <3>4. 2 * h + 1 < q /\ q < 2 * e
      BY <1>1, <2>1, <2>2, <3>1
    <3>5. k + 1 \in 1 .. n
      BY <1>4, <3>3, <3>4
    <3> QED
      BY <1>1, <1>3, <1>6, <3>5
  <2> QED
    BY <1>1, <1>2, <1>6, <2>1, <2>2
<1> QED
  BY <1>5, <1>6

-----------------------------------------------------------------------------
(* The addresses of the statements, as their sizes make them.               *)

(* In front of the k-th place only bytes that no statement holds are missing. *)
MeasuredTo(P, T, k) ==
    LET h == HomeAt(P, k)
    IN  /\ T[k - 1] \in Int /\ h \in Int /\ Start <= h
        /\ T[k - 1] <= h
        /\ T[k - 1] = h <=> \A b \in Start .. h - 1 : Holders(b) # {}

(* One statement more.                                                      *)
LEMMA MeasuredStep ==
    ASSUME NEW P, NEW L, NEW f, NEW d, Text(P, L, f, d), NEW T, Measures(L, T),
           NEW k \in 1 .. Len(L), MeasuredTo(P, T, k)
    PROVE  MeasuredTo(P, T, k + 1)
<1>1. PICK h \in list : ElementHere(P, L, f, d, k, h) \/ LabelHere(P, L, k, h)
  BY DEF Text
<1>2. /\ Marked /\ Chosen(f, d) /\ Listing(L) /\ h \in Int /\ HomeAt(P, k) = h /\ Len(L) \in Nat
  BY <1>1, HomeAtIs DEF Text, Listing
<1>3. PICK t \in Int : t = T[k - 1] /\ t <= h
  BY <1>2 DEF MeasuredTo
<1>4. Start <= h /\ (t = h <=> \A b \in Start .. h - 1 : Holders(b) # {})
  BY <1>2, <1>3 DEF MeasuredTo
<1>5. T[k] = t + TrueSize(L[k])
  BY <1>3 DEF Measures
<1>6. k + 1 - 1 = k
  BY <1>2
<1>7. CASE LabelHere(P, L, k, h)
  <2>1. L[k].kind = "label"
    BY <1>7 DEF LabelHere, Asm!Label
  <2>2. TrueSize(L[k]) = 0
    BY <2>1 DEF TrueSize
  <2>3. k + 1 \in 1 .. Len(L) /\ ElementHere(P, L, f, d, k + 1, h)
    BY <1>2, <1>7, BehindALabel
  <2>4. HomeAt(P, k + 1) = h
    BY <2>3, HomeAtIs
  <2> QED
    BY <1>2, <1>3, <1>4, <1>5, <1>6, <2>2, <2>4 DEF MeasuredTo
<1>8. CASE ElementHere(P, L, f, d, k, h)
  <2>1. L[k] = StatementAt(h, f, d)
    BY <1>8 DEF ElementHere
  <2>2. TrueSize(L[k]) = Size(h)
    <3>1. PICK s : s = StatementAt(h, f, d)
      OBVIOUS
    <3>2. Marked /\ Chosen(f, d)
      BY <1>2
    <3>3. TrueSize(s) = Size(h)
      BY <3>1, <3>2, StatementAtIs DEF IsListed
    <3> QED
      BY <2>1, <3>1, <3>3
  <2>3. PICK g : g = HomeAt(P, k + 1)
    OBVIOUS
  <2>4. g \in Int /\ h < g /\ g <= End /\ \A n \in list : ~(h < n /\ n < g)
    BY <1>8, <2>3, BehindAnElement
  <2>5. g \in list \/ g = End
    BY <1>8, <2>3, BehindAnElement
  <2>6. PICK z \in 1 .. 3 : z = Size(h) /\ h + z <= g
                            /\ (h + z = g <=> \A b \in h .. g - 1 : Holders(b) # {})
    BY <1>2, <2>4, <2>5, GapHeld
  <2>7. T[k] = t + z
    BY <1>5, <2>2, <2>6
  <2>8. Start \in Int
    BY <1>2, MarkedIs, Layout
  <2>9. Start .. g - 1 = (Start .. h - 1) \cup (h .. g - 1)
    BY <1>2, <1>4, <2>4, <2>8
  <2>10. t + z = g <=> t = h /\ h + z = g
    BY <1>2, <1>3, <2>4, <2>6
  <2>11. t + z = g <=> \A b \in Start .. g - 1 : Holders(b) # {}
    BY <1>4, <2>6, <2>9, <2>10
  <2>12. t + z \in Int /\ t + z <= g /\ Start <= g
    BY <1>2, <1>3, <1>4, <2>4, <2>6, <2>8
  <2> QED
    BY <1>6, <2>3, <2>4, <2>7, <2>11, <2>12 DEF MeasuredTo
<1> QED
  BY <1>1, <1>7, <1>8

(* The first place is the first byte of the ROM.                            *)
LEMMA TextBegins ==
    ASSUME NEW P, NEW L, NEW f, NEW d, Text(P, L, f, d)
    PROVE  HomeAt(P, 1) = Start
<1>1. /\ Len(L) = Len(P) /\ PlacesTo(P, 2 * End) /\ P \in Seq(Int) /\ Len(P) > 0
      /\ Start \in list /\ banks \in 1 .. 2 /\ list \subseteq Homes
  BY MarkedIs DEF Text, PlacesTo
<1>2. PICK s \in Nat, e \in Nat : s = Start /\ e = End /\ s < e
  <2>1. PICK s \in Nat, e \in Nat : s = Start /\ e = End /\ Homes = s .. e - 1
    BY <1>1, Layout
  <2>2. s \in s .. e - 1
    BY <1>1, <2>1
  <2>3. s < e
    BY <2>2
  <2> QED
    BY <2>1, <2>3
<1>3. PICK n \in Nat : n = Len(P) /\ n > 0
  BY <1>1
<1>4. PICK p \in Int : p = P[1] /\ 2 * s <= p
  BY <1>1, <1>2, <1>3 DEF PlacesTo
<1>5. PICK q \in Int : q = 2 * s + 1 /\ 2 * Start <= q /\ q < 2 * End
  BY <1>2
<1>6. q % 2 = 1 /\ q \div 2 = s
  BY <1>5
<1>7. Placed(q)
  BY <1>1, <1>2, <1>6 DEF Placed
<1>8. PICK j \in 1 .. n : P[j] = q
  BY <1>1, <1>3, <1>5, <1>7 DEF PlacesTo
<1>9. 1 < j => P[1] < P[j]
  BY <1>1, <1>3, <1>8 DEF PlacesTo
<1>10. p <= q
  BY <1>3, <1>4, <1>8, <1>9
<1>11. p = 2 * s \/ p = 2 * s + 1
  BY <1>4, <1>5, <1>10
<1>12. (2 * s) \div 2 = s /\ (2 * s + 1) \div 2 = s
  OBVIOUS
<1>13. p \div 2 = s
  BY <1>11, <1>12
<1> QED
  BY <1>2, <1>3, <1>4, <1>13 DEF HomeAt

(* So it is with every place.                                               *)
LEMMA TextMeasured ==
    ASSUME NEW P, NEW L, NEW f, NEW d, Text(P, L, f, d), NEW T, Measures(L, T), T[0] = Start
    PROVE  \A k \in 1 .. Len(L) + 1 : MeasuredTo(P, T, k)
<1>1. PICK n \in Nat : n = Len(L)
  BY DEF Text, Listing
<1>2. MeasuredTo(P, T, 1)
  <2>1. HomeAt(P, 1) = Start /\ Start \in Int /\ 1 - 1 = 0
    BY TextBegins, MarkedIs, Layout DEF Text
  <2> QED
    BY <2>1 DEF MeasuredTo
<1> DEFINE Bad == {k \in 1 .. n + 1 : ~MeasuredTo(P, T, k)}
<1>3. SUFFICES ASSUME Bad # {} PROVE FALSE
  BY <1>1
<1>4. Bad \in SUBSET Nat
  OBVIOUS
<1>5. PICK k \in Bad : \A y \in Bad : k <= y
  <2> HIDE DEF Bad
  <2> QED
    BY <1>3, <1>4, Sizes!LeastOf
<1>6. k \in 1 .. n + 1 /\ ~MeasuredTo(P, T, k)
  OBVIOUS
<1>7. PICK j \in 1 .. n : j = k - 1 /\ k = j + 1
  <2>1. k # 1
    BY <1>2, <1>6
  <2>2. k - 1 \in 1 .. n /\ k = (k - 1) + 1
    BY <1>6, <2>1
  <2> QED
    BY <2>2
<1>8. MeasuredTo(P, T, j)
  <2>1. j \notin Bad
    <3>1. ~(k <= j)
      BY <1>7
    <3> HIDE DEF Bad
    <3> QED
      BY <1>5, <3>1
  <2> QED
    BY <1>7, <2>1
<1>9. MeasuredTo(P, T, j + 1)
  BY <1>1, <1>8, MeasuredStep
<1> QED
  BY <1>6, <1>7, <1>9

(* The last statement is an element of the list.                            *)
LEMMA TextEndsInBytes ==
    ASSUME NEW P, NEW L, NEW f, NEW d, Text(P, L, f, d)
    PROVE  L[Len(L)].kind \in {"data", "instruction"}
<1>1. PICK n \in Nat : n = Len(L) /\ n > 0
  BY DEF Text, Listing
<1>2. PICK h \in list : ElementHere(P, L, f, d, n, h) \/ LabelHere(P, L, n, h)
  BY <1>1 DEF Text
<1>3. ~LabelHere(P, L, n, h)
  BY <1>1, <1>2, BehindALabel
<1>4. PICK s : s = StatementAt(h, f, d)
  OBVIOUS
<1>5. Marked /\ Chosen(f, d)
  BY DEF Text
<1>6. s.kind \in {"data", "instruction"}
  BY <1>4, <1>5, StatementAtIs DEF IsListed
<1> QED
  BY <1>1, <1>2, <1>3, <1>4, <1>6 DEF ElementHere

(* With no byte lost every statement is where its element is.               *)
LEMMA TextInPlace ==
    ASSUME NEW P, NEW L, NEW f, NEW d, Text(P, L, f, d), NEW T, Measures(L, T), T[0] = Start
    PROVE  /\ T[Len(L)] \in Int /\ T[Len(L)] <= End
           /\ ByteLost => T[Len(L)] < End
           /\ ~ByteLost => T[Len(L)] = End /\ \A k \in 1 .. Len(L) : T[k - 1] = HomeAt(P, k)
<1>1. PICK n \in Nat : n = Len(L) /\ n > 0 /\ n = Len(P)
  BY DEF Text, Listing
<1>2. banks \in 1 .. 2 /\ Homes = Start .. End - 1
  BY MarkedIs, Layout DEF Text
<1>3. HomeAt(P, n + 1) = End /\ n + 1 - 1 = n
  BY <1>1 DEF HomeAt
<1>4. MeasuredTo(P, T, n + 1)
  <2>1. \A k \in 1 .. Len(L) + 1 : MeasuredTo(P, T, k)
    BY TextMeasured
  <2> QED
    BY <1>1, <2>1
<1>5. T[n] \in Int /\ End \in Int /\ T[n] <= End /\ (T[n] = End <=> ~ByteLost)
  BY <1>2, <1>3, <1>4 DEF MeasuredTo, ByteLost
<1>6. ASSUME ~ByteLost, NEW k \in 1 .. n PROVE T[k - 1] = HomeAt(P, k)
  <2>1. MeasuredTo(P, T, k)
    <3>1. \A i \in 1 .. Len(L) + 1 : MeasuredTo(P, T, i)
      BY TextMeasured
    <3> QED
      BY <1>1, <3>1
  <2>2. PICK h \in list : HomeAt(P, k) = h
    BY <1>1, HomeAtIs DEF Text
  <2>3. h \in Int /\ Start \in Int /\ h < End
    BY <1>2, MarkedIs, Layout DEF Text
  <2>4. \A b \in Start .. h - 1 : b \in Homes
    BY <1>2, <1>5, <2>3
  <2> QED
    BY <1>6, <2>1, <2>2, <2>4 DEF MeasuredTo, ByteLost
<1> QED
  BY <1>1, <1>5, <1>6

-----------------------------------------------------------------------------
(* Nothing in the text that the assembler would not take as it is.          *)

(* The element or the label that a statement of the listing is.             *)
IsElement(P, L, f, d, k, h) ==
    ElementHere(P, L, f, d, k, h) /\ IsListed(L[k], h) /\ ReadsAs(L[k], f, d, h)

(* There is one at every place,                                             *)
LEMMA PlaceHolds ==
    ASSUME NEW P, NEW L, NEW f, NEW d, Text(P, L, f, d), NEW k \in 1 .. Len(L)
    PROVE  \E h \in list : /\ HomeAt(P, k) = h /\ h \in Int
                           /\ \/ L[k].kind = "label" /\ LabelHere(P, L, k, h)
                              \/ L[k].kind # "label" /\ IsElement(P, L, f, d, k, h)
<1>1. PICK h \in list : ElementHere(P, L, f, d, k, h) \/ LabelHere(P, L, k, h)
  BY DEF Text
<1>2. HomeAt(P, k) = h /\ h \in Int
  BY <1>1, HomeAtIs
<1>3. CASE LabelHere(P, L, k, h)
  <2>1. L[k].kind = "label"
    BY <1>3 DEF LabelHere, Asm!Label
  <2> QED
    BY <1>2, <1>3, <2>1
<1>4. CASE ElementHere(P, L, f, d, k, h)
  <2>1. PICK s : s = StatementAt(h, f, d)
    OBVIOUS
  <2>2. Marked /\ Chosen(f, d)
    BY DEF Text
  <2>3. IsListed(s, h) /\ ReadsAs(s, f, d, h)
    BY <2>1, <2>2, StatementAtIs
  <2>4. L[k] = s
    BY <1>4, <2>1 DEF ElementHere
  <2>5. L[k].kind # "label"
    BY <2>3, <2>4 DEF IsListed
  <2> QED
    BY <1>2, <1>4, <2>3, <2>4, <2>5 DEF IsElement
<1> QED
  BY <1>1, <1>3, <1>4

(* and no two places are one.                                               *)
LEMMA PlacesDiffer ==
    ASSUME NEW P, NEW L, NEW f, NEW d, Text(P, L, f, d),
           NEW i \in 1 .. Len(L), NEW j \in 1 .. Len(L), P[i] = P[j]
    PROVE  i = j
<1>1. PICK n \in Nat : n = Len(P) /\ n = Len(L)
  BY DEF Text, Listing
<1>2. PlacesTo(P, 2 * End) /\ P \in Seq(Int)
  BY DEF Text, PlacesTo
<1>3. P[i] \in Int /\ P[j] \in Int
  <2>1. i \in 1 .. Len(P) /\ j \in 1 .. Len(P)
    BY <1>1
  <2> QED
    BY <1>2, <2>1
<1>4. (i < j => P[i] < P[j]) /\ (j < i => P[j] < P[i])
  BY <1>1, <1>2 DEF PlacesTo
<1> QED
  BY <1>1, <1>3, <1>4

(* No two labels have one name. *)
LEMMA LabelNamesDiffer ==
    ASSUME NEW P, NEW L, NEW f, NEW d, Text(P, L, f, d),
           NEW i \in 1 .. Len(L), NEW j \in 1 .. Len(L),
           L[i].kind = "label", L[j].kind = "label", L[i].name = L[j].name
    PROVE  i = j
<1>1. PICK g \in list : LabelHere(P, L, i, g)
  BY PlaceHolds
<1>2. PICK h \in list : LabelHere(P, L, j, h)
  BY PlaceHolds
<1>3. PICK l \in labels : l.home = g /\ L[i] = Asm!Label(l.name, g)
  BY <1>1 DEF LabelHere
<1>4. PICK m \in labels : m.home = h /\ L[j] = Asm!Label(m.name, h)
  BY <1>2 DEF LabelHere
<1>5. L[i].name = l.name /\ L[j].name = m.name
  BY <1>3, <1>4 DEF Asm!Label
<1>6. PICK n \in Int : n = l.name /\ n = m.name
  BY <1>5, MarkedIs DEF Text
<1>7. Names(n, g) /\ Names(n, h) /\ banks \in 1 .. 2
  BY <1>3, <1>4, <1>6, MarkedIs DEF Text, LabelsNamed
<1>8. g = h
  BY <1>7, NamesOne
<1>9. P[i] = P[j]
  BY <1>1, <1>2, <1>8 DEF LabelHere
<1> QED
  BY <1>9, PlacesDiffer

(* The last byte of the ROM begins no statement. *)
LEMMA BeforeTheEnd ==
    ASSUME NEW P, NEW L, NEW f, NEW d, Text(P, L, f, d), NEW T, Measures(L, T), T[0] = Start,
           NEW k \in 1 .. Len(L)
    PROVE  T[k - 1] \in Int /\ T[k - 1] < End - 1
<1>1. PICK h \in list : HomeAt(P, k) = h /\ h \in Int
  BY PlaceHolds
<1>2. End - 1 \notin list /\ banks \in 1 .. 2 /\ list \subseteq Homes
  BY MarkedIs DEF Text
<1>3. PICK s \in Nat, e \in Nat : s = Start /\ e = End /\ Homes = s .. e - 1
  BY <1>2, Layout
<1>4. h \in s .. e - 1 /\ h # e - 1
  BY <1>2, <1>3
<1>5. h < e - 1
  BY <1>3, <1>4
<1>6. MeasuredTo(P, T, k)
  <2>1. \A i \in 1 .. Len(L) + 1 : MeasuredTo(P, T, i)
    BY TextMeasured
  <2>2. Len(L) \in Nat
    BY DEF Text, Listing
  <2> QED
    BY <2>1, <2>2
<1>7. T[k - 1] \in Int /\ T[k - 1] <= h
  BY <1>1, <1>6 DEF MeasuredTo
<1>8. PICK t \in Int : t = T[k - 1] /\ t <= h
  BY <1>7
<1>9. t < e - 1
  BY <1>1, <1>3, <1>5, <1>8
<1> QED
  BY <1>3, <1>8, <1>9

(* What no operand that is lost means for an instruction. *)
LEMMA CodeIsPlain ==
    ASSUME NEW P, NEW L, Text(P, L, form, data), ~OperandLost,
           NEW k \in 1 .. Len(L), L[k].kind = "instruction"
    PROVE  ~Asm!IsRefused(L[k]) /\ ~Asm!IsShort(L[k]) /\ ~Asm!IsJmpIndirect(L[k])
<1>1. PICK h \in list : IsElement(P, L, form, data, k, h)
  BY PlaceHolds
<1>2. list \subseteq Homes /\ \A g \in Homes : Kind(g) \in {"byte", "number", "reference", "instruction"}
  BY MarkedIs DEF Text
<1>3. Kind(h) = "instruction"
  <2>1. Kind(h) \in {"byte", "number", "reference", "instruction"}
    BY <1>2
  <2> QED
    BY <1>1, <2>1 DEF IsElement, ReadsAs, Asm!Data
<1>4. PICK c, v, n, g : /\ c = statement[h].code /\ v = statement[h].value /\ n = statement[h].label
                        /\ g = IF h \in Accesses THEN form[h] ELSE "direct"
  OBVIOUS
<1>5. L[k] = [kind |-> "instruction", code |-> c, form |-> g, value |-> v, label |-> n, home |-> h]
  BY <1>1, <1>3, <1>4 DEF IsElement, ReadsAs, Asm!Instruction
<1>6. c = "access" => h \in Accesses
  BY <1>3, <1>4 DEF Accesses, Kind
<1>7. /\ ~(h \in Accesses /\ form[h] = "indexedY")
      /\ ~(h \in Accesses /\ n = None /\ v < Radix)
      /\ ~(c = "jmp" /\ n = None)
  BY <1>3, <1>4 DEF OperandLost, Kind
<1>8. g # "indexedY"
  BY <1>4, <1>7
<1>9. Asm!None = None
  BY DEF Asm!None, None
<1> QED
  BY <1>5, <1>6, <1>7, <1>8, <1>9 DEF Asm!IsRefused, Asm!IsShort, Asm!IsJmpIndirect

-----------------------------------------------------------------------------
(* The text is what the passes made of the listing.                         *)
Written(P, L, x, at) ==
    /\ Text(P, L, form, data)
    /\ Chain(L, x, at, Len(L) + 1) /\ Len(x) > 0 /\ x[Len(x)].kind = L[Len(L)].kind
    /\ source = Program(x)

(* What is known of a text and its listing.                                 *)
LEMMA WrittenIs ==
    ASSUME NEW P, NEW L, NEW x, NEW at, Written(P, L, x, at)
    PROVE  /\ Listing(L) /\ x \in Seq(Statement) /\ Chain(L, x, at, Len(L) + 1) /\ Len(L) \in Nat
           /\ Text(P, L, form, data) /\ Len(x) \in Nat /\ Marked /\ Chosen(form, data)
           /\ DOMAIN source = 1 .. Len(x) + 1 /\ Len(source) = Len(x) + 1
           /\ \A m \in 1 .. Len(x) : source[m + 1] = x[m]
<1>1. x \in Seq(Statement) /\ source = Program(x) /\ Text(P, L, form, data)
      /\ Chain(L, x, at, Len(L) + 1)
  BY DEF Written, Chain
<1>2. Listing(L) /\ Marked /\ Chosen(form, data)
  BY <1>1 DEF Text
<1>3. Len(L) \in Nat /\ Len(x) \in Nat
  BY <1>1, <1>2 DEF Listing
<1> QED
  BY <1>1, <1>2, <1>3, ProgramIs

(* An element that is a word of the text. *)
LEMMA WordIs ==
    ASSUME NEW P, NEW L, Text(P, L, form, data), NEW k \in 1 .. Len(L),
           L[k].kind = "data", NEW h, IsElement(P, L, form, data, k, h)
    PROVE  /\ h \in list /\ L[k].home = h /\ L[k].width \in {1, 2}
           /\ L[k].width = 2 <=> IsWord(h)
           /\ L[k].width = 1 <=> h \in DataHomes
<1>1. /\ list \subseteq Homes
      /\ \A g \in Homes : Kind(g) \in {"byte", "number", "reference", "instruction"}
  BY MarkedIs DEF Text
<1>2. h \in list /\ L[k].home = h
  BY DEF IsElement, ElementHere, IsListed
<1>3. Kind(h) \in {"byte", "number", "reference", "instruction"}
  BY <1>1, <1>2
<1>4. Kind(h) # "instruction"
  BY DEF IsElement, ReadsAs, Asm!Instruction
<1>5. Kind(h) = "byte" => L[k].width = 1
  BY DEF IsElement, ReadsAs, Asm!Data
<1>6. Kind(h) \in {"number", "reference"} => L[k].width = 2
  BY DEF IsElement, ReadsAs, Asm!Data
<1> QED
  BY <1>2, <1>3, <1>4, <1>5, <1>6 DEF IsWord, DataHomes, Kind

(* A word whose list grew by bytes. *)
LEMMA JoinsAreNamed ==
    ASSUME NEW P, NEW L, NEW x, NEW at, Written(P, L, x, at), NEW m \in 1 .. Len(x),
           x[m].kind = "data", Joined(x[m])
    PROVE  WordsJoined
<1>1. /\ Listing(L) /\ x \in Seq(Statement) /\ Chain(L, x, at, Len(L) + 1) /\ Len(L) \in Nat
      /\ Text(P, L, form, data) /\ Marked
  BY WrittenIs
<1>2. PICK s : s = x[m] /\ s.kind = "data" /\ Joined(s)
  OBVIOUS
<1>3. PICK i, j : /\ i = at[m] /\ j = at[m + 1] /\ i \in 1 .. Len(L) /\ j \in i + 1 .. Len(L) + 1
                  /\ DataCovers(L, s, i, j)
  BY <1>1, <1>2, CoveredIs
<1>4. PICK n \in Nat : n = Len(L)
  BY <1>1
<1>5. i \in 1 .. n /\ j \in i + 1 .. n + 1 /\ i \in Int /\ j \in Int
  BY <1>3, <1>4
<1>6. PICK pos : ItemsCover(L, s.items, pos, i, j)
  BY <1>3 DEF DataCovers
<1>7. PICK T : Measures(L, T)
  <2>1. 0 \in Int
    OBVIOUS
  <2>2. \E T : Measures(L, T) /\ T[0] = 0
    BY <1>1, <2>1, Measured
  <2> QED
    BY <2>2
<1>8. PICK q \in 2 .. Len(s.items) : s.items[q].kind # "string"
  BY <1>2 DEF Joined
<1>9. s \in DataStatement /\ s.width = 2 /\ s.home = L[i].home /\ L[i].width = 2
  BY <1>2, <1>3 DEF DataCovers, Joined
<1>10. Len(s.items) \in Nat
  BY <1>9 DEF DataStatement
<1>11. 2 \in 1 .. Len(s.items)
  BY <1>8, <1>10
<1>12. j \in i .. Len(L) + 1
  BY <1>4, <1>5
<1>13. pos[2] \in i .. j - 1 /\ (2 # 1 => pos[2] # i)
  BY <1>1, <1>3, <1>6, <1>7, <1>11, <1>12, ItemIs
<1>14. PICK k \in 1 .. n : k = i + 1 /\ k \in i + 1 .. j - 1
  <2>1. PICK p \in Int : p \in i .. j - 1 /\ p # i
    BY <1>5, <1>13
  <2>2. i + 1 \in 1 .. n /\ i + 1 \in i + 1 .. j - 1
    BY <1>5, <2>1
  <2> QED
    BY <2>2
<1>15. L[i].kind = "data"
  <2>1. i \in i .. j - 1
    BY <1>5
  <2> QED
    BY <1>3, <2>1 DEF DataCovers
<1>16. L[k].kind = "data" /\ L[k].width = 1
  <2>1. k \in i .. j - 1
    BY <1>5, <1>14
  <2> QED
    BY <1>3, <1>14, <2>1 DEF DataCovers
<1>17. PICK h \in list : IsElement(P, L, form, data, i, h)
  <2>1. i \in 1 .. Len(L)
    BY <1>3
  <2> QED
    BY <1>1, <1>15, <2>1, PlaceHolds
<1>18. PICK g \in list : IsElement(P, L, form, data, k, g) /\ HomeAt(P, k) = g
  <2>1. k \in 1 .. Len(L)
    BY <1>4, <1>14
  <2> QED
    BY <1>1, <1>16, <2>1, PlaceHolds
<1>19. IsWord(h) /\ L[i].home = h
  BY <1>1, <1>3, <1>9, <1>15, <1>17, WordIs
<1>20. g \in DataHomes
  BY <1>1, <1>4, <1>14, <1>16, <1>18, WordIs
<1>21. /\ g \in Int /\ h \in Int /\ h < g /\ \A z \in list : ~(h < z /\ z < g)
       /\ k <= Len(L) => \/ ElementHere(P, L, form, data, k, g) /\ \A l \in labels : l.home # g
                         \/ LabelHere(P, L, k, g)
  <2>1. ElementHere(P, L, form, data, i, h) /\ g = HomeAt(P, i + 1)
    BY <1>14, <1>17, <1>18 DEF IsElement
  <2>2. i \in 1 .. Len(L) /\ k = i + 1
    BY <1>3, <1>14
  <2>3. /\ g \in Int /\ h \in Int /\ h < g /\ \A z \in list : ~(h < z /\ z < g)
        /\ IF i + 1 <= Len(L)
           THEN /\ g \in list
                /\ \/ ElementHere(P, L, form, data, i + 1, g) /\ \A l \in labels : l.home # g
                   \/ LabelHere(P, L, i + 1, g)
           ELSE g = End
    <3>1. Text(P, L, form, data)
      BY <1>1
    <3> QED
      BY <2>1, <2>2, <3>1, BehindAnElement
  <2> QED
    BY <2>2, <2>3
<1>22. \A l \in labels : l.home # g
  <2>1. k \in 1 .. Len(L)
    BY <1>4, <1>14
  <2>2. ~LabelHere(P, L, k, g)
    BY <1>1, <1>18, <2>1, HomeAtIs DEF IsElement
  <2>3. k <= Len(L)
    BY <1>4, <1>14
  <2> QED
    BY <1>21, <2>2, <2>3
<1>23. Typed /\ Located /\ list \subseteq Int /\ \A l \in labels : l.home \in list
  BY <1>1, MarkedIs DEF Marked
<1>24. NextHome(h) = g
  <2>1. \/ NextHome(h) = None /\ \A y \in list : y <= h
        \/ NextHome(h) \in list /\ NextHome(h) > h
           /\ \A y \in list : y > h => NextHome(h) <= y
    BY <1>23, NextHomeIs
  <2>2. NextHome(h) \in list /\ NextHome(h) > h /\ NextHome(h) <= g
    BY <1>21, <2>1
  <2>3. NextHome(h) \in Int /\ ~(NextHome(h) < g)
    BY <1>21, <1>23, <2>2
  <2> QED
    BY <1>21, <2>2, <2>3
<1>25. LabelsBefore(g) = {}
  <2>1. SUFFICES ASSUME NEW l \in LabelsBefore(g) PROVE FALSE
    OBVIOUS
  <2>2. l \in labels /\ l.home <= g /\ \A p \in list : p < g => p < l.home
    BY <1>23, <2>1 DEF Located
  <2>3. PICK y \in list : y = l.home
    BY <1>23, <2>2
  <2>4. y \in Int /\ y <= g /\ y # g
    BY <1>22, <1>23, <2>2, <2>3
  <2>5. y < g
    BY <1>21, <2>4
  <2>6. y < y
    BY <2>2, <2>3, <2>5
  <2> QED
    BY <2>4, <2>6
<1>26. m + 1 \in StatementsOf(h)
  <2>1. m + 1 \in DOMAIN source /\ source[m + 1] = s
    BY <1>2, WrittenIs
  <2>2. s.home = h
    BY <1>9, <1>19
  <2> QED
    BY <1>2, <2>1, <2>2 DEF StatementsOf
<1>27. source[m + 1] = s
  BY <1>2, WrittenIs
<1>28. \E y \in StatementsOf(h) : \E z \in 2 .. Len(source[y].items) :
          source[y].items[z].kind # "string"
  BY <1>8, <1>26, <1>27
<1> QED
  BY <1>19, <1>20, <1>24, <1>25, <1>28 DEF WordsJoined

(* A run that took a word for a byte.                                       *)
LEMMA RunsAreBytes ==
    ASSUME NEW P, NEW L, NEW x, NEW at, Written(P, L, x, at), ~WordInRun,
           NEW m \in 1 .. Len(x), x[m].kind = "org", NEW k \in at[m] .. at[m + 1] - 1
    PROVE  L[k].width = 1
<1>1. /\ Listing(L) /\ x \in Seq(Statement) /\ Chain(L, x, at, Len(L) + 1) /\ Len(L) \in Nat
      /\ Text(P, L, form, data) /\ Marked /\ Len(x) \in Nat
  BY WrittenIs
<1>2. PICK i, j : /\ i = at[m] /\ j = at[m + 1] /\ i \in 1 .. Len(L) /\ j \in i + 1 .. Len(L) + 1
                  /\ OrgCovers(L, x[m], i, j)
  BY <1>1, CoveredIs
<1>3. PICK n \in Nat : n = Len(L)
  BY <1>1
<1>4. i \in 1 .. n /\ j \in i + 1 .. n + 1 /\ i \in Int /\ j \in Int
  BY <1>2, <1>3
<1>5. k \in i .. j - 1
  BY <1>2
<1>6. k \in 1 .. Len(L) /\ k \in Int
  BY <1>3, <1>4, <1>5
<1>7. L[k].kind = "data"
  BY <1>2, <1>5 DEF OrgCovers, Asm!IsRepeatable
<1>8. PICK h \in list : IsElement(P, L, form, data, k, h)
  BY <1>1, <1>6, <1>7, PlaceHolds
<1>9. L[k].width \in {1, 2} /\ L[k].home = h /\ (L[k].width = 2 => IsWord(h))
  BY <1>1, <1>6, <1>7, <1>8, WordIs
<1>10. SUFFICES ASSUME L[k].width = 2 PROVE FALSE
  BY <1>9
<1>11. StatementsOf(h) # {}
  BY <1>8, <1>9, <1>10 DEF WordInRun
<1>12. PICK y \in DOMAIN source : source[y].kind = "data" /\ source[y].home = h
  BY <1>11 DEF StatementsOf
<1>13. y \in 1 .. Len(x) + 1 /\ source = Program(x)
  BY WrittenIs DEF Written
<1>14. y # 1
  <2>1. source[1] = Asm!Org(Start, Radix - 1)
    BY <1>1, <1>13, ProgramIs
  <2> QED
    BY <1>12, <2>1 DEF Asm!Org
<1>15. PICK r \in 1 .. Len(x) : r = y - 1 /\ y = r + 1
  BY <1>1, <1>13, <1>14
<1>16. x[r].kind = "data" /\ x[r].home = h
  BY <1>12, <1>15, WrittenIs
<1>17. PICK z : z = at[r] /\ z \in 1 .. Len(L) /\ DataCovers(L, x[r], z, at[r + 1]) /\ at[r + 1] \in z + 1 .. Len(L) + 1
  BY <1>1, <1>16, CoveredIs
<1>18. L[z].kind = "data" /\ L[z].home = h
  <2>1. z \in z .. at[r + 1] - 1
    BY <1>3, <1>17
  <2> QED
    BY <1>16, <1>17, <2>1 DEF DataCovers
<1>19. PICK g \in list : IsElement(P, L, form, data, z, g)
  BY <1>1, <1>17, <1>18, PlaceHolds
<1>20. g = h
  BY <1>1, <1>17, <1>18, <1>19, WordIs
<1>21. z = k
  <2>1. P[z] = P[k]
    BY <1>8, <1>19, <1>20 DEF IsElement, ElementHere
  <2> QED
    BY <1>1, <1>6, <1>17, <2>1, PlacesDiffer
<1>22. r # m
  BY <1>16
<1>23. PICK a \in [1 .. Len(x) + 1 -> 1 .. Len(L) + 1] :
          a = at /\ \A b, c \in 1 .. Len(x) + 1 : b < c => a[b] < a[c]
  BY <1>1 DEF Chain
<1>24. /\ r \in 1 .. Len(x) + 1 /\ m \in 1 .. Len(x) + 1 /\ r + 1 \in 1 .. Len(x) + 1
       /\ m + 1 \in 1 .. Len(x) + 1
  BY <1>1
<1>25. a[r] \in Int /\ a[m] \in Int /\ a[m + 1] \in Int /\ a[r + 1] \in Int
  <2>1. \A b \in 1 .. Len(x) + 1 : a[b] \in 1 .. n + 1
    BY <1>3, <1>23
  <2> QED
    BY <1>24, <2>1
<1>26. CASE r < m
  <2>1. a[r] < a[m]
    BY <1>23, <1>24, <1>26
  <2>2. a[r] = k /\ a[m] = i
    BY <1>2, <1>17, <1>21, <1>23
  <2> QED
    BY <1>4, <1>5, <2>1, <2>2
<1>27. CASE m < r
  <2>1. m + 1 = r \/ m + 1 < r
    BY <1>1, <1>27
  <2>2. m + 1 < r => a[m + 1] < a[r]
    BY <1>23, <1>24
  <2>3. a[m + 1] <= a[r]
    BY <1>25, <2>1, <2>2
  <2>4. a[r] = k /\ a[m + 1] = j
    BY <1>2, <1>17, <1>21, <1>23
  <2> QED
    BY <1>4, <1>5, <2>3, <2>4
<1> QED
  BY <1>1, <1>22, <1>26, <1>27

(* Of two runs that are not adjacent.                                       *)
LEMMA RunsAreApart ==
    ASSUME NEW P, NEW L, NEW x, NEW at, Written(P, L, x, at), ~RunsAdjacent
    PROVE  RunsApart(x)
<1>1. Len(x) \in Nat
  BY WrittenIs
<1>2. SUFFICES ASSUME NEW m \in 1 .. Len(x), NEW n \in 1 .. Len(x), m < n,
                      x[m].kind = "org", x[n].kind = "org",
                      \A k \in m + 1 .. n - 1 : x[k].kind = "label"
               PROVE  FALSE
  BY DEF RunsApart
<1>3. PICK i \in Int, j \in Int : i = m + 1 /\ j = n + 1
  BY <1>1
<1>4. i \in 2 .. Len(source) /\ j \in 2 .. Len(source) /\ i < j
  BY <1>1, <1>2, <1>3, WrittenIs
<1>5. source[i].kind = "org" /\ source[j].kind = "org"
  BY <1>2, <1>3, WrittenIs
<1>6. ASSUME NEW k \in i + 1 .. j - 1 PROVE source[k].kind = "label"
  <2>1. PICK c \in m + 1 .. n - 1 : c = k - 1 /\ k = c + 1
    BY <1>1, <1>3
  <2>2. c \in 1 .. Len(x)
    BY <1>1, <2>1
  <2>3. source[c + 1] = x[c]
    BY <2>2, WrittenIs
  <2> QED
    BY <1>2, <2>1, <2>3
<1> QED
  BY <1>4, <1>5, <1>6 DEF RunsAdjacent

(* The text is one that the assembler takes as it is.                       *)
NoException ==
    /\ ~OperandLost /\ ~WordsJoined /\ ~WordInRun /\ ~RunsAdjacent /\ ~LabelMoved /\ ~ByteLost

LEMMA TextFits ==
    ASSUME NEW P, NEW L, NEW x, NEW at, Written(P, L, x, at), NoException,
           NEW T, Measures(L, T), T[0] = Start
    PROVE  Fits(L, T, x, at) /\ RunsApart(x)
<1>1. /\ Listing(L) /\ Chain(L, x, at, Len(L) + 1) /\ Len(L) \in Nat
      /\ Text(P, L, form, data) /\ Marked /\ banks \in 1 .. 2
  BY WrittenIs, MarkedIs
<1>2. End \in Int
  BY <1>1, Layout
<1>3. \A k \in 1 .. Len(L) : T[k - 1] < End - 1
  BY <1>1, BeforeTheEnd
<1>4. \A i, j \in 1 .. Len(L) :
         L[i].kind = "label" /\ L[j].kind = "label" /\ L[i].name = L[j].name => i = j
  BY <1>1, LabelNamesDiffer
<1>5. ASSUME NEW k \in 1 .. Len(L), L[k].kind = "data"
      PROVE  L[k].home = T[k - 1] /\ (L[k].width = 1 => L[k].items[1].value \in 0 .. Radix - 1)
  <2>1. PICK h \in list : IsElement(P, L, form, data, k, h) /\ HomeAt(P, k) = h
    BY <1>1, <1>5, PlaceHolds
  <2>2. T[k - 1] = HomeAt(P, k)
    BY <1>1, TextInPlace DEF NoException
  <2>3. L[k].home = h /\ (L[k].width = 1 => h \in DataHomes)
    BY <1>1, <1>5, <2>1, WordIs
  <2>4. ASSUME h \in DataHomes PROVE L[k].items[1].value \in 0 .. Radix - 1
    <3>1. Kind(h) = "byte"
      BY <2>4 DEF DataHomes, Kind
    <3>2. PICK v : v = data[h] /\ v \in 0 .. Radix - 1
      BY <2>1, <3>1 DEF IsElement, ReadsAs
    <3>3. L[k].items[1].value = v
      BY <2>1, <3>1, <3>2 DEF IsElement, ReadsAs, Asm!Data, Asm!Number
    <3> QED
      BY <3>2, <3>3
  <2> QED
    BY <2>1, <2>2, <2>3, <2>4
<1>6. \A k \in 1 .. Len(L) : L[k].kind = "instruction" =>
         ~Asm!IsRefused(L[k]) /\ ~Asm!IsShort(L[k]) /\ ~Asm!IsJmpIndirect(L[k])
  BY <1>1, CodeIsPlain DEF NoException
<1>7. \A m \in 1 .. Len(x) : x[m].kind = "data" => ~Joined(x[m])
  BY JoinsAreNamed DEF NoException
<1>8. \A m \in 1 .. Len(x) : x[m].kind = "org" =>
         \A k \in at[m] .. at[m + 1] - 1 : L[k].width = 1
  BY RunsAreBytes DEF NoException
<1>9. RunsApart(x)
  BY RunsAreApart DEF NoException
<1> QED
  BY <1>2, <1>3, <1>4, <1>5, <1>6, <1>7, <1>8, <1>9 DEF Fits

-----------------------------------------------------------------------------
(* The bytes of the ROM, and those the statements are assembled to.         *)

(* Rows of few bytes.                                                       *)
LEMMA BytesOfOne ==
    \A a, b, c \in Int :
       /\ <<a>> \in Seq(Int) /\ Len(<<a>>) = 1
       /\ <<a, b>> \in Seq(Int) /\ Len(<<a, b>>) = 2
       /\ <<a>> \o <<b>> = <<a, b>>
       /\ <<a>> \o <<b, c>> \in Seq(Int) /\ Len(<<a>> \o <<b, c>>) = 3
<1> SUFFICES ASSUME NEW a \in Int, NEW b \in Int, NEW c \in Int
             PROVE  /\ <<a>> \in Seq(Int) /\ Len(<<a>>) = 1
                    /\ <<a, b>> \in Seq(Int) /\ Len(<<a, b>>) = 2
                    /\ <<a>> \o <<b>> = <<a, b>>
                    /\ <<a>> \o <<b, c>> \in Seq(Int) /\ Len(<<a>> \o <<b, c>>) = 3
  OBVIOUS
<1>1. <<a>> \in Seq(Int) /\ Len(<<a>>) = 1 /\ <<a, b>> \in Seq(Int) /\ Len(<<a, b>>) = 2
      /\ <<b, c>> \in Seq(Int) /\ Len(<<b, c>>) = 2
  OBVIOUS
<1>2. <<a>> \o <<b, c>> \in Seq(Int) /\ Len(<<a>> \o <<b, c>>) = 3
  BY <1>1, ConcatProperties
<1>3. <<a>> \o <<b>> = <<a, b>>
  <2>1. <<b>> \in Seq(Int) /\ Len(<<b>>) = 1 /\ <<b>>[1] = b /\ <<a>>[1] = a
    OBVIOUS
  <2>2. PICK s \in Seq(Int) : /\ s = <<a>> \o <<b>> /\ Len(s) = 2
                             /\ \A i \in 1 .. 2 : s[i] = IF i <= 1 THEN <<a>>[i] ELSE <<b>>[i - 1]
    <3>1. PICK u \in Seq(Int), w \in Seq(Int) : u = <<a>> /\ w = <<b>> /\ Len(u) = 1 /\ Len(w) = 1
      BY <1>1, <2>1
    <3>2. u \o w \in Seq(Int) /\ Len(u \o w) = Len(u) + Len(w)
      BY ConcatProperties
    <3>3. \A i \in 1 .. Len(u) + Len(w) : (u \o w)[i] = IF i <= Len(u) THEN u[i] ELSE w[i - Len(u)]
      BY ConcatProperties
    <3>4. Len(u) + Len(w) = 2
      BY <3>1
    <3> QED
      BY <3>1, <3>2, <3>3, <3>4
  <2>3. s[1] = a /\ s[2] = b
    BY <2>1, <2>2
  <2>4. PICK t \in Seq(Int) : t = <<a, b>> /\ Len(t) = 2 /\ t[1] = a /\ t[2] = b
    BY <1>1
  <2>5. \A i \in 1 .. Len(s) : s[i] = t[i]
    <3>1. \A i \in 1 .. 2 : i = 1 \/ i = 2
      OBVIOUS
    <3> QED
      BY <2>2, <2>3, <2>4, <3>1
  <2>6. s = t
    BY <2>2, <2>4, <2>5, SeqEqual
  <2> QED
    BY <2>2, <2>4, <2>6
<1> QED
  BY <1>1, <1>2, <1>3

LEMMA BytesOfNone ==
    \A a \in Int : <<a>> \o << >> = <<a>>
OBVIOUS

(* Bytes are integers. *)
LEMMA ByteArithmetic ==
    /\ Radix \in Nat \ {0}
    /\ \A v \in Int : v % Radix \in Int /\ v \div Radix \in Int
    /\ \A c \in DOMAIN Shape : OpByte[c] \in Int
    /\ OpByte["indexedY"] \in Int
<1>1. Radix \in Nat \ {0} /\ OpByte \in [DOMAIN Shape \cup {"bad", "short", "indexedY"} -> 0 .. Radix - 1]
  BY PackageAssumption
<1>2. \A v \in Int : v % Radix \in Int /\ v \div Radix \in Int
  BY <1>1
<1>3. \A c \in DOMAIN Shape \cup {"bad", "short", "indexedY"} : OpByte[c] \in Int
  BY <1>1
<1> QED
  BY <1>1, <1>2, <1>3

(* A word is two bytes.                                                     *)
LEMMA WordBytes ==
    ASSUME NEW v \in Int
    PROVE  \E a, b \in Int : Asm!Word(v) = <<a, b>>
BY ByteArithmetic DEF Asm!Word

(* Labels are operands of branches, jumps and accesses.                     *)
LEMMA ShapeLabels ==
    ASSUME NEW c \in DOMAIN Shape
    PROVE  /\ Shape[c].label = "must" => Shape[c].size = 2
           /\ Shape[c].label = "may" => Shape[c].size = 3
           /\ (Asm!None = None) /\ ("jmpInd" \in DOMAIN Shape)
BY DEF Shape, None, Asm!None

(* The bytes of an instruction behind its op code. *)
LEMMA OperandIs ==
    ASSUME NEW i, NEW c \in DOMAIN Shape, i.code = c
    PROVE  /\ Shape[c].size = 1 => OperandOf(i) = << >>
           /\ Shape[c].size = 3 => OperandOf(i) = Asm!Word(i.value)
           /\ Shape[c].size = 2 /\ Shape[c].label = "must" =>
                 OperandOf(i) = <<(i.value - (i.addr + 2)) % Radix>>
           /\ Shape[c].size = 2 /\ Shape[c].label # "must" => OperandOf(i) = <<i.value>>
<1>1. Shape[c].size \in 1 .. 3 /\ (Shape[c].label = "must" => Shape[c].size = 2)
  BY ShapeFacts, ShapeLabels
<1>2. PICK z, n : z = Shape[i.code].size /\ n = Shape[i.code].label
  OBVIOUS
<1>3. z \in 1 .. 3 /\ (n = "must" => z = 2)
  BY <1>1, <1>2
<1>4. OperandOf(i) = CASE z = 1 -> << >>
                       [] z = 3 -> Asm!Word(i.value)
                       [] n = "must" -> <<(i.value - (i.addr + 2)) % Radix>>
                       [] OTHER -> <<i.value>>
  BY <1>2 DEF OperandOf
<1>5. z = 1 => OperandOf(i) = << >>
  BY <1>3, <1>4
<1>6. z = 3 => OperandOf(i) = Asm!Word(i.value)
  BY <1>3, <1>4
<1>7. z = 2 /\ n = "must" => OperandOf(i) = <<(i.value - (i.addr + 2)) % Radix>>
  BY <1>3, <1>4
<1>8. z = 2 /\ n # "must" => OperandOf(i) = <<i.value>>
  BY <1>3, <1>4
<1> QED
  BY <1>2, <1>5, <1>6, <1>7, <1>8

(* The bytes of an element are as many as it holds.                         *)
LEMMA RomBytesAre ==
    ASSUME Marked, Chosen(form, data), NEW h \in list
    PROVE  /\ RomBytes(h) \in Seq(Int) /\ Len(RomBytes(h)) = Size(h)
           /\ Kind(h) = "byte" => RomBytes(h) = <<data[h]>>
           /\ Kind(h) \in {"number", "reference"} => RomBytes(h) = Asm!Word(statement[h].value)
           /\ Kind(h) = "instruction" => RomBytes(h) = <<OpByteAt(h)>> \o OperandOf(statement[h])
<1>1. /\ h \in Homes /\ h \in Int /\ StatementsTyped
      /\ Kind(h) \in {"byte", "number", "reference", "instruction"}
  BY MarkedIs
<1>2. PICK k : k = statement[h].kind /\ k = Kind(h)
  BY DEF Kind
<1>3. RomBytes(h) = CASE k = "byte" -> <<data[h]>>
                      [] k = "instruction" -> <<OpByteAt(h)>> \o OperandOf(statement[h])
                      [] OTHER -> Asm!Word(statement[h].value)
  BY <1>2 DEF RomBytes
<1>4. CASE k = "byte"
  <2>1. RomBytes(h) = <<data[h]>>
    BY <1>3, <1>4
  <2>2. h \in DataHomes
    BY <1>2, <1>4 DEF DataHomes
  <2>3. PICK v : v = data[h] /\ v \in 0 .. Radix - 1 /\ v \in Int
    BY <2>2 DEF Chosen
  <2>4. <<v>> \in Seq(Int) /\ Len(<<v>>) = 1
    BY <2>3
  <2>5. Size(h) = 1
    BY <1>1, <1>2, <1>4, SizeIs
  <2> QED
    BY <1>2, <1>4, <2>1, <2>3, <2>4, <2>5
<1>5. CASE k \in {"number", "reference"}
  <2>1. RomBytes(h) = Asm!Word(statement[h].value)
    BY <1>3, <1>5
  <2>2. statement[h] \in DataWord
    BY <1>1, <1>2, <1>5, KindIs
  <2>3. PICK v \in Int : v = statement[h].value
    BY <2>2 DEF DataWord
  <2>4. PICK a \in Int, b \in Int : Asm!Word(v) = <<a, b>>
    BY WordBytes
  <2>5. <<a, b>> \in Seq(Int) /\ Len(<<a, b>>) = 2
    OBVIOUS
  <2>6. Size(h) = 2
    BY <1>1, <1>2, <1>5, SizeIs
  <2> QED
    BY <1>2, <1>5, <2>1, <2>3, <2>4, <2>5, <2>6
<1>6. CASE k = "instruction"
  <2>1. RomBytes(h) = <<OpByteAt(h)>> \o OperandOf(statement[h])
    BY <1>3, <1>6
  <2>2. statement[h] \in Instruction
    BY <1>1, <1>2, <1>6, KindIs
  <2>3. PICK c \in DOMAIN Shape, v \in Int, a \in Int :
           c = statement[h].code /\ v = statement[h].value /\ a = statement[h].addr
    BY <2>2 DEF Instruction
  <2>4. PICK o \in Int : o = OpByteAt(h)
    BY <2>3, ByteArithmetic DEF OpByteAt
  <2>5. PICK z \in 1 .. 3 : z = Shape[c].size /\ z = Size(h)
    BY <1>1, <1>2, <1>6, <2>3, SizeIs
  <2>6. CASE z = 1
    <3>1. OperandOf(statement[h]) = << >>
      BY <2>3, <2>5, <2>6, OperandIs
    <3>2. <<o>> \o << >> = <<o>> /\ <<o>> \in Seq(Int) /\ Len(<<o>>) = 1
      BY BytesOfNone, BytesOfOne
    <3> QED
      BY <1>2, <1>6, <2>1, <2>4, <2>5, <2>6, <3>1, <3>2
  <2>7. CASE z = 2
    <3>1. PICK w \in Int : OperandOf(statement[h]) = <<w>>
      <4>1. (v - (a + 2)) \in Int
        OBVIOUS
      <4>2. (v - (a + 2)) % Radix \in Int
        BY <4>1, ByteArithmetic
      <4> QED
        BY <2>3, <2>5, <2>7, <4>2, OperandIs
    <3>2. <<o>> \o <<w>> = <<o, w>> /\ <<o, w>> \in Seq(Int) /\ Len(<<o, w>>) = 2
      BY BytesOfOne
    <3> QED
      BY <1>2, <1>6, <2>1, <2>4, <2>5, <2>7, <3>1, <3>2
  <2>8. CASE z = 3
    <3>1. OperandOf(statement[h]) = Asm!Word(v)
      BY <2>3, <2>5, <2>8, OperandIs
    <3>2. PICK x \in Int, y \in Int : Asm!Word(v) = <<x, y>>
      BY WordBytes
    <3>3. <<o>> \o <<x, y>> \in Seq(Int) /\ Len(<<o>> \o <<x, y>>) = 3
      BY BytesOfOne
    <3> QED
      BY <1>2, <1>6, <2>1, <2>4, <2>5, <2>8, <3>1, <3>2, <3>3
  <2> QED
    BY <2>6, <2>7, <2>8
<1> QED
  BY <1>1, <1>2, <1>4, <1>5, <1>6

(* Labels are worth what their elements are.                                *)
ValuesOf(V) == \A l \in labels : l.name \in DOMAIN V /\ V[l.name] = l.home

(* Code is assembled to what was decoded.                                   *)
LEMMA InstructionAssembled ==
    ASSUME Marked, NoException, NEW V, ValuesOf(V), NEW h \in list, Kind(h) = "instruction",
           NEW s, s = Asm!Instruction(statement[h].code, IF h \in Accesses THEN form[h] ELSE "direct",
                                      statement[h].value, statement[h].label, h),
           ~Asm!IsShort(s), ~Asm!IsJmpIndirect(s)
    PROVE  Asm!InstructionBytes(s, h, V) = <<OpByteAt(h)>> \o OperandOf(statement[h])
<1>1. /\ h \in Homes /\ StatementsTyped /\ banks \in 1 .. 2
      /\ statement[h].addr = h /\ OperandFits(h)
  BY MarkedIs DEF IsCode, Kind
<1>2. statement[h] \in Instruction
  BY <1>1, KindIs
<1>3. PICK i, c, v, n, g :
         /\ c \in DOMAIN Shape /\ i = statement[h] /\ c = i.code /\ v = i.value /\ n = i.label
         /\ g = IF h \in Accesses THEN form[h] ELSE "direct"
  <2>1. statement[h].code \in DOMAIN Shape
    BY <1>2 DEF Instruction
  <2> QED
    BY <2>1
<1>4. v \in Int /\ n \in Int /\ i.addr = h /\ h \in Int
  <2>1. i.value \in Int /\ i.label \in Int /\ i.addr \in Int
    BY <1>2, <1>3 DEF Instruction
  <2> QED
    BY <1>1, <1>3, <2>1
<1>5. /\ s.kind = "instruction" /\ s.code = c /\ s.form = g /\ s.value = v /\ s.label = n
  BY <1>3 DEF Asm!Instruction
<1>6. PICK o \in Int : o = OpByte[c] /\ o = OpByteAt(h)
  <2>1. ~(h \in Accesses /\ form[h] = "indexedY")
    BY DEF NoException, OperandLost, Kind
  <2>2. OpByteAt(h) = OpByte[c]
    BY <1>3, <2>1 DEF OpByteAt
  <2> QED
    BY <1>3, <2>2, ByteArithmetic
<1>7. PICK z \in 1 .. 3 : z = Shape[c].size
  BY <1>3, ShapeFacts
<1>8. [x \in DOMAIN Shape |-> Shape[x].size][c] = z
  BY <1>3, <1>7
<1>9. /\ Shape[c].label = "must" => z = 2
      /\ Shape[c].label = "may" => z = 3
      /\ Shape[c].label \in {"none", "may", "must"}
      /\ Asm!None = None
  BY <1>3, <1>7, ShapeFacts, ShapeLabels
<1>10. /\ Shape[c].label = "none" => n = None
       /\ Shape[c].label = "must" => n # None /\ v - (h + 2) \in Reach
  BY <1>1, <1>3 DEF OperandFits
<1>11. CASE n = None
  <2>1. Asm!InstructionBytes(s, h, V) = Asm!NumberedBytes(s)
    BY <1>5, <1>9, <1>11 DEF Asm!InstructionBytes
  <2>2. Asm!NumberedBytes(s) = CASE z = 3 -> <<o>> \o Asm!Word(v)
                                 [] z = 2 -> <<o, v>>
                                 [] z = 1 -> <<o>>
    BY <1>5, <1>6, <1>8 DEF Asm!NumberedBytes
  <2>3. Shape[c].label # "must"
    BY <1>10, <1>11
  <2>4. CASE z = 1
    <3>1. OperandOf(i) = << >>
      BY <1>3, <1>7, <2>4, OperandIs
    <3>2. Asm!NumberedBytes(s) = <<o>>
      BY <2>2, <2>4
    <3>3. <<o>> \o << >> = <<o>>
      BY BytesOfNone
    <3> QED
      BY <1>3, <1>6, <2>1, <3>1, <3>2, <3>3
  <2>5. CASE z = 2
    <3>1. OperandOf(i) = <<v>>
      BY <1>3, <1>7, <2>3, <2>5, OperandIs
    <3>2. Asm!NumberedBytes(s) = <<o, v>>
      BY <2>2, <2>5
    <3>3. <<o>> \o <<v>> = <<o, v>>
      BY <1>4, BytesOfOne
    <3> QED
      BY <1>3, <1>6, <2>1, <3>1, <3>2, <3>3
  <2>6. CASE z = 3
    <3>1. OperandOf(i) = Asm!Word(v)
      BY <1>3, <1>7, <2>6, OperandIs
    <3>2. Asm!NumberedBytes(s) = <<o>> \o Asm!Word(v)
      BY <2>2, <2>6
    <3> QED
      BY <1>3, <1>6, <2>1, <3>1, <3>2
  <2> QED
    BY <2>4, <2>5, <2>6
<1>12. CASE n # None
  <2>1. h \in Labelled
    BY <1>3, <1>12 DEF Labelled, Kind
  <2>2. PICK l \in labels : l.name = n /\ l.home = v
    BY <1>3, <2>1 DEF NoException, LabelMoved
  <2>3. n \in DOMAIN V /\ V[n] = v
    BY <2>2 DEF ValuesOf
  <2>4. Asm!InstructionBytes(s, h, V) = Asm!LabelledBytes(s, h, V)
    BY <1>5, <1>9, <1>12 DEF Asm!InstructionBytes
  <2>5. Asm!LabelledBytes(s, h, V) =
           IF z # 2 THEN <<o>> \o Asm!Word(v)
           ELSE IF Asm!InReach(v - (h + 2)) THEN <<o, (v - (h + 2)) % Radix>>
           ELSE << >>
    BY <1>5, <1>6, <1>8, <2>3 DEF Asm!LabelledBytes
  <2>6. CASE Shape[c].label = "must"
    <3>1. z = 2 /\ v - (h + 2) \in Reach
      BY <1>9, <1>10, <2>6
    <3>2. Asm!InReach(v - (h + 2))
      BY <3>1, PackageAssumption DEF Asm!InReach
    <3>3. PICK w \in Int : w = (v - (h + 2)) % Radix
      <4>1. v - (h + 2) \in Int
        BY <1>4
      <4> QED
        BY <4>1, ByteArithmetic
    <3>4. OperandOf(i) = <<w>>
      BY <1>3, <1>4, <1>7, <2>6, <3>1, <3>3, OperandIs
    <3>5. Asm!LabelledBytes(s, h, V) = <<o, w>>
      BY <2>5, <3>1, <3>2, <3>3
    <3>6. <<o>> \o <<w>> = <<o, w>>
      BY BytesOfOne
    <3> QED
      BY <1>3, <1>6, <2>4, <3>4, <3>5, <3>6
  <2>7. CASE Shape[c].label = "may"
    <3>1. z = 3
      BY <1>9, <2>7
    <3>2. OperandOf(i) = Asm!Word(v)
      BY <1>3, <1>7, <3>1, OperandIs
    <3>3. Asm!LabelledBytes(s, h, V) = <<o>> \o Asm!Word(v)
      BY <2>5, <3>1
    <3> QED
      BY <1>3, <1>6, <2>4, <3>2, <3>3
  <2> QED
    BY <1>9, <1>10, <1>12, <2>6, <2>7
<1> QED
  BY <1>11, <1>12

(* An element of the text is assembled to its bytes of the ROM. *)
LEMMA ElementAssembled ==
    ASSUME NEW P, NEW L, Text(P, L, form, data), NoException, NEW V, ValuesOf(V),
           NEW k \in 1 .. Len(L), NEW h, IsElement(P, L, form, data, k, h)
    PROVE  /\ LoneBytes(L[k], h, V) = RomBytes(h)
           /\ L[k].kind = "data" /\ L[k].items[1].kind = "call" => L[k].items[1].value \in DOMAIN V
<1>1. /\ h \in list /\ Marked /\ Chosen(form, data)
      /\ Kind(h) \in {"byte", "number", "reference", "instruction"}
  <2>1. h \in list /\ Marked /\ Chosen(form, data)
    BY DEF IsElement, ElementHere, Text
  <2> QED
    BY <2>1, MarkedIs
<1>2. PICK s : s = L[k] /\ ReadsAs(s, form, data, h)
  BY DEF IsElement
<1>3. CASE Kind(h) = "instruction"
  <2>1. s = Asm!Instruction(statement[h].code, IF h \in Accesses THEN form[h] ELSE "direct",
                            statement[h].value, statement[h].label, h)
    BY <1>2, <1>3 DEF ReadsAs
  <2>2. s.kind = "instruction"
    BY <2>1 DEF Asm!Instruction
  <2>3. ~Asm!IsShort(s) /\ ~Asm!IsJmpIndirect(s)
    BY <1>2, <2>2, CodeIsPlain DEF NoException
  <2>4. Asm!InstructionBytes(s, h, V) = <<OpByteAt(h)>> \o OperandOf(statement[h])
    BY <1>1, <1>3, <2>1, <2>3, InstructionAssembled
  <2>5. RomBytes(h) = <<OpByteAt(h)>> \o OperandOf(statement[h])
    BY <1>1, <1>3, RomBytesAre
  <2> QED
    BY <1>2, <2>2, <2>4, <2>5 DEF LoneBytes
<1>4. CASE Kind(h) = "byte"
  <2>1. PICK v : v = data[h] /\ s = Asm!Data(1, <<Asm!Number(v)>>, h)
    BY <1>2, <1>4 DEF ReadsAs
  <2>2. PICK item : item = Asm!Number(v) /\ item.kind = "number" /\ item.value = v
    <3>1. Asm!Number(v).kind = "number" /\ Asm!Number(v).value = v
      BY DEF Asm!Number
    <3> QED
      BY <3>1
  <2>3. s.kind = "data" /\ s.items[1] = item /\ s.width = 1
    BY <2>1, <2>2 DEF Asm!Data
  <2>4. Asm!ItemBytes(s, item, V) = <<v>>
    BY <2>2, <2>3 DEF Asm!ItemBytes
  <2>5. RomBytes(h) = <<v>>
    BY <1>1, <1>4, <2>1, RomBytesAre
  <2> QED
    BY <1>2, <2>2, <2>3, <2>4, <2>5 DEF LoneBytes
<1>5. CASE Kind(h) = "number"
  <2>1. PICK v : v = statement[h].value /\ s = Asm!Data(2, <<Asm!Number(v)>>, h)
    BY <1>2, <1>5 DEF ReadsAs
  <2>2. PICK item : item = Asm!Number(v) /\ item.kind = "number" /\ item.value = v
    <3>1. Asm!Number(v).kind = "number" /\ Asm!Number(v).value = v
      BY DEF Asm!Number
    <3> QED
      BY <3>1
  <2>3. s.kind = "data" /\ s.items[1] = item /\ s.width = 2
    BY <2>1, <2>2 DEF Asm!Data
  <2>4. Asm!ItemBytes(s, item, V) = Asm!Word(v)
    BY <2>2, <2>3 DEF Asm!ItemBytes
  <2>5. RomBytes(h) = Asm!Word(v)
    BY <1>1, <1>5, <2>1, RomBytesAre
  <2> QED
    BY <1>2, <2>2, <2>3, <2>4, <2>5 DEF LoneBytes
<1>6. CASE Kind(h) = "reference"
  <2>1. PICK n, v : n = statement[h].label /\ v = statement[h].value
                    /\ s = Asm!Data(2, <<Asm!LabelCall(n)>>, h)
    BY <1>2, <1>6 DEF ReadsAs
  <2>2. PICK item : item = Asm!LabelCall(n) /\ item.kind = "call" /\ item.value = n
    <3>1. Asm!LabelCall(n).kind = "call" /\ Asm!LabelCall(n).value = n
      BY DEF Asm!LabelCall
    <3> QED
      BY <3>1
  <2>3. s.kind = "data" /\ s.items[1] = item /\ s.width = 2
    BY <2>1, <2>2 DEF Asm!Data
  <2>4. Asm!ItemBytes(s, item, V) = Asm!Word(V[n])
    BY <2>2, <2>3 DEF Asm!ItemBytes
  <2>5. RomBytes(h) = Asm!Word(v)
    BY <1>1, <1>6, <2>1, RomBytesAre
  <2>6. n # None
    BY <1>1, <1>6, <2>1, MarkedIs DEF ReferencesLabelled, Typed
  <2>7. h \in Labelled
    BY <1>1, <1>6, <2>1, <2>6 DEF Labelled, Kind
  <2>8. PICK l \in labels : l.name = n /\ l.home = v
    BY <2>1, <2>7 DEF NoException, LabelMoved
  <2>9. n \in DOMAIN V /\ V[n] = v
    BY <2>8 DEF ValuesOf
  <2> QED
    BY <1>2, <2>2, <2>3, <2>4, <2>5, <2>9 DEF LoneBytes
<1> QED
  BY <1>1, <1>3, <1>4, <1>5, <1>6

(* Resolve has made the values of the labels.                               *)
LEMMA LabelsResolved ==
    ASSUME NEW P, NEW L, NEW x, NEW at, Written(P, L, x, at), ~ByteLost,
           NEW T, Measures(L, T), T[0] = Start, NEW p, ResHolds(L, T, x, at, Len(x), p)
    PROVE  ValuesOf(p.labels)
<1>1. /\ Text(P, L, form, data) /\ Len(L) \in Nat /\ Marked /\ Len(x) \in Nat
      /\ PlacesTo(P, 2 * End) /\ Len(L) = Len(P) /\ at[Len(x) + 1] = Len(L) + 1
  BY WrittenIs DEF Text, Chain
<1>2. SUFFICES ASSUME NEW l \in labels
               PROVE  l.name \in DOMAIN p.labels /\ p.labels[l.name] = l.home
  BY DEF ValuesOf
<1>3. PICK h \in list : h = l.home
  BY <1>1, MarkedIs
<1>4. list \subseteq Homes /\ banks \in 1 .. 2
  BY <1>1, MarkedIs
<1>5. PICK s \in Nat, e \in Nat : s = Start /\ e = End /\ Homes = s .. e - 1
  BY <1>4, Layout
<1>6. h \in Int /\ s <= h /\ h < e
  <2>1. h \in s .. e - 1
    BY <1>4, <1>5
  <2> QED
    BY <1>5, <2>1
<1>7. PICK q \in Int : q = 2 * h
  BY <1>6
<1>8. ~(q % 2 = 1)
  BY <1>6, <1>7
<1>9. Placed(q)
  BY <1>3, <1>7, <1>8 DEF Placed
<1>10. 2 * Start <= q /\ q < 2 * End
  BY <1>5, <1>6, <1>7
<1>11. PICK k \in 1 .. Len(P) : P[k] = q
  BY <1>1, <1>9, <1>10 DEF PlacesTo
<1>12. k \in 1 .. Len(L)
  BY <1>1
<1>13. PICK g \in list : ElementHere(P, L, form, data, k, g) \/ LabelHere(P, L, k, g)
  BY <1>1, <1>12 DEF Text
<1>14. g \in Int
  BY <1>1, <1>13, MarkedIs
<1>15. g = h /\ LabelHere(P, L, k, h)
  BY <1>6, <1>7, <1>11, <1>13, <1>14 DEF ElementHere, LabelHere
<1>16. PICK m \in labels : m.home = h /\ L[k] = Asm!Label(m.name, h)
  BY <1>15 DEF LabelHere
<1>17. m = l
  BY <1>1, <1>3, <1>16, MarkedIs DEF LabelsApart
<1>18. L[k].kind = "label" /\ L[k].name = l.name
  BY <1>16, <1>17 DEF Asm!Label
<1>19. k \in 1 .. at[Len(x) + 1] - 1
  BY <1>1, <1>12
<1>20. l.name \in DOMAIN p.labels /\ p.labels[l.name] = T[k - 1]
  BY <1>18, <1>19 DEF ResHolds
<1>21. T[k - 1] = h
  <2>1. T[k - 1] = HomeAt(P, k)
    BY <1>1, <1>12, TextInPlace
  <2>2. HomeAt(P, k) = h
    BY <1>1, <1>12, <1>15, HomeAtIs
  <2> QED
    BY <2>1, <2>2
<1> QED
  BY <1>3, <1>20, <1>21

(* Y is the ROM, by addresses. *)
IsRom(Y) == \A h \in list : Spells(Y, RomBytes(h), h, h + Size(h))

(* So are all the statements of the listing.                                *)
LEMMA TextSpelled ==
    ASSUME NEW P, NEW L, NEW x, NEW at, Written(P, L, x, at), NoException,
           NEW T, Measures(L, T), T[0] = Start, NEW V, ValuesOf(V), NEW Y, IsRom(Y)
    PROVE  Spelled(L, T, Y, V)
<1>1. /\ Text(P, L, form, data) /\ Listing(L) /\ Len(L) \in Nat
  BY WrittenIs
<1>2. SUFFICES ASSUME NEW k \in 1 .. Len(L), L[k].kind # "label"
               PROVE  /\ Spells(Y, LoneBytes(L[k], T[k - 1], V), T[k - 1], T[k])
                      /\ L[k].kind = "data" /\ L[k].items[1].kind = "call" =>
                            L[k].items[1].value \in DOMAIN V
  BY DEF Spelled
<1>3. PICK h \in list : IsElement(P, L, form, data, k, h) /\ HomeAt(P, k) = h
  BY <1>1, <1>2, PlaceHolds
<1>4. /\ LoneBytes(L[k], h, V) = RomBytes(h)
      /\ L[k].kind = "data" /\ L[k].items[1].kind = "call" => L[k].items[1].value \in DOMAIN V
  BY <1>1, <1>3, ElementAssembled
<1>5. T[k - 1] = h
  BY <1>1, <1>3, TextInPlace DEF NoException
<1>6. T[k] = h + Size(h)
  <2>1. T[k] = T[k - 1] + TrueSize(L[k])
    BY DEF Measures
  <2>2. TrueSize(L[k]) = Size(h)
    BY <1>3 DEF IsElement, IsListed
  <2> QED
    BY <1>5, <2>1, <2>2
<1>7. Spells(Y, RomBytes(h), h, h + Size(h))
  BY DEF IsRom
<1> QED
  BY <1>4, <1>5, <1>6, <1>7

-----------------------------------------------------------------------------
(* The bytes of the ROM, by addresses and in a row.                         *)

(* A byte is held by one element.                                           *)
LEMMA HolderIsOne ==
    ASSUME Marked, NEW h \in list, NEW g \in list, NEW b \in Int,
           h <= b, b < h + Size(h), g <= b, b < g + Size(g)
    PROVE  h = g
<1>1. NoOverlap /\ list \subseteq Homes /\ list \subseteq Int /\ StatementsTyped
  BY MarkedIs
<1>2. PICK z \in 1 .. 3, y \in 1 .. 3 : z = Size(h) /\ y = Size(g)
  BY <1>1, SizeIs
<1>3. h \in Int /\ g \in Int
  BY <1>1
<1>4. ASSUME h < g PROVE FALSE
  <2>1. PICK i \in 1 .. 2 : i = g - h /\ i < z /\ h + i = g
    BY <1>2, <1>3, <1>4
  <2>2. ~(i < Size(h) /\ h + i \in list)
    BY <1>1 DEF NoOverlap
  <2> QED
    BY <1>2, <2>1, <2>2
<1>5. ASSUME g < h PROVE FALSE
  <2>1. PICK i \in 1 .. 2 : i = h - g /\ i < y /\ g + i = h
    BY <1>2, <1>3, <1>5
  <2>2. ~(i < Size(g) /\ g + i \in list)
    BY <1>1 DEF NoOverlap
  <2> QED
    BY <1>2, <2>1, <2>2
<1> QED
  BY <1>3, <1>4, <1>5

(* Therefore the bytes of all of them are those of one ROM.                 *)
LEMMA RomExists ==
    ASSUME Marked, Chosen(form, data)
    PROVE  \E Y : IsRom(Y)
<1> DEFINE Byte_(b) == LET h == CHOOSE n \in list : n <= b /\ b < n + Size(n)
                       IN  RomBytes(h)[b - h + 1]
<1>1. PICK Y : Y = [b \in Homes |-> Byte_(b)]
  OBVIOUS
<1>2. SUFFICES ASSUME NEW h \in list PROVE Spells(Y, RomBytes(h), h, h + Size(h))
  BY DEF IsRom
<1>3. banks \in 1 .. 2 /\ list \subseteq Homes /\ list \subseteq Int /\ StatementsTyped /\ StatementsInRom
  BY MarkedIs
<1>4. PICK s \in Nat, e \in Nat : s = Start /\ e = End /\ Homes = s .. e - 1
  BY <1>3, Layout
<1>5. PICK z \in 1 .. 3 : z = Size(h)
  BY <1>3, SizeIs
<1>6. h \in s .. e - 1 /\ h + z - 1 \in s .. e - 1
  BY <1>3, <1>4, <1>5 DEF StatementsInRom
<1>7. PICK r \in Seq(Int) : r = RomBytes(h) /\ Len(r) = z
  BY <1>5, RomBytesAre
<1>8. ASSUME NEW t \in 1 .. z PROVE r[t] = Y[h + t - 1]
  <2>1. PICK b \in Int : b = h + t - 1 /\ h <= b /\ b < h + z
    BY <1>4, <1>5, <1>6
  <2>2. b \in Homes
    BY <1>4, <1>5, <1>6, <2>1
  <2>3. h <= b /\ b < h + Size(h)
    BY <1>5, <2>1
  <2>4. PICK g \in list : g = CHOOSE n \in list : n <= b /\ b < n + Size(n)
    BY <2>3
  <2>5. g <= b /\ b < g + Size(g)
    BY <2>3, <2>4
  <2>6. g = h
    BY <2>1, <2>3, <2>5, HolderIsOne
  <2>7. Y[b] = RomBytes(h)[b - h + 1]
    BY <1>1, <2>2, <2>4, <2>6
  <2>8. b - h + 1 = t
    BY <1>5, <1>6, <2>1
  <2> QED
    BY <1>7, <2>1, <2>7, <2>8
<1>9. h \in Int /\ h + Size(h) = h + Len(r)
  BY <1>3, <1>5, <1>7
<1> QED
  BY <1>7, <1>8, <1>9 DEF Spells

(* What comes behind an element, whose bytes are all held: the next one, or *)
(* the end.                                                                 *)
LEMMA NextBegins ==
    ASSUME Marked, ~ByteLost, NEW h \in list, NEW g \in Int, g = h + Size(h)
    PROVE  /\ g \in list \/ g = End
           /\ \A n \in list : ~(h < n /\ n < g)
           /\ h < g /\ g <= End
<1>1. /\ banks \in 1 .. 2 /\ list \subseteq Homes /\ list \subseteq Int /\ StatementsTyped /\ StatementsInRom
      /\ NoOverlap
  BY MarkedIs
<1>2. PICK s \in Nat, e \in Nat : s = Start /\ e = End /\ Homes = s .. e - 1
  BY <1>1, Layout
<1>3. PICK z \in 1 .. 3 : z = Size(h)
  BY <1>1, SizeIs
<1>4. h \in s .. e - 1 /\ h + z - 1 \in s .. e - 1 /\ g = h + z
  BY <1>1, <1>2, <1>3 DEF StatementsInRom
<1>5. h < g /\ g <= e /\ s <= g
  BY <1>2, <1>3, <1>4
<1>6. ASSUME NEW n \in list, h < n, n < g PROVE FALSE
  <2>1. n \in Int
    BY <1>1
  <2>2. PICK i \in 1 .. 2 : i = n - h /\ i < z /\ h + i = n
    BY <1>3, <1>4, <1>6, <2>1
  <2>3. ~(i < Size(h) /\ h + i \in list)
    BY <1>1 DEF NoOverlap
  <2> QED
    BY <1>3, <2>2, <2>3
<1>7. ASSUME g # End PROVE g \in list
  <2>1. g \in Homes
    BY <1>2, <1>4, <1>5, <1>7
  <2>2. PICK n \in list : n <= g /\ g < n + Size(n)
    BY <2>1 DEF ByteLost, Holders
  <2>3. PICK y \in 1 .. 3 : y = Size(n)
    BY <1>1, SizeIs
  <2>4. SUFFICES ASSUME n # g PROVE FALSE
    BY <2>2
  <2>5. n \in Int /\ n < g
    BY <1>1, <2>2, <2>4
  <2>6. n <= h
    BY <1>4, <1>6, <2>5
  <2>7. n # h
    BY <1>3, <1>4, <2>2
  <2>8. h < n + Size(n) /\ n <= h /\ h \in Int /\ h < h + Size(h) /\ h <= h
    BY <1>3, <1>4, <1>5, <2>2, <2>3, <2>5, <2>6
  <2>9. n = h
    BY <2>8, HolderIsOne
  <2> QED
    BY <2>7, <2>9
<1> QED
  BY <1>2, <1>5, <1>6, <1>7

RomInv(c, seq, k, bytes) ==
    \E e \in Int :
       /\ Spells(c, bytes, Start, e)
       /\ Start + k <= e /\ e <= End
       /\ e \in list \/ e = End
       /\ \A n \in list : ~(Start + k <= n /\ n < e)
RomStep(c, bytes, b) == bytes \o BytesFrom(b)
Reading == INSTANCE FoldRule WITH Op <- RomStep, Holds <- RomInv

(* One address more.                                                        *)
LEMMA ByteRead ==
    ASSUME Marked, Chosen(form, data), ~ByteLost, NEW Y, IsRom(Y), NEW seq,
           NEW k \in Int, NEW bytes, RomInv(Y, seq, k - 1, bytes),
           NEW b \in Homes, b = Start + k - 1
    PROVE  RomInv(Y, seq, k, bytes \o BytesFrom(b))
<1>1. /\ banks \in 1 .. 2 /\ list \subseteq Homes /\ list \subseteq Int /\ StatementsTyped
  BY MarkedIs
<1>2. PICK s \in Nat, z \in Nat : s = Start /\ z = End /\ Homes = s .. z - 1
  BY <1>1, Layout
<1>3. PICK e \in Int : /\ Spells(Y, bytes, Start, e) /\ Start + (k - 1) <= e /\ e <= End
                       /\ e \in list \/ e = End
                       /\ \A n \in list : ~(Start + (k - 1) <= n /\ n < e)
  BY DEF RomInv
<1>4. b \in Int /\ b < z /\ b <= e /\ Start + (k - 1) = b /\ Start + k = b + 1
  <2>1. b \in s .. z - 1
    BY <1>2
  <2>2. b \in Int /\ b < z
    BY <1>2, <2>1
  <2>3. Start + (k - 1) = b /\ Start + k = b + 1
    BY <1>2, <2>2
  <2> QED
    BY <1>3, <2>2, <2>3
<1>5. CASE b \in list
  <2>1. e = b
    BY <1>3, <1>4, <1>5
  <2>2. BytesFrom(b) = RomBytes(b)
    BY <1>5 DEF BytesFrom
  <2>3. PICK y \in 1 .. 3 : y = Size(b)
    BY <1>1, <1>5, SizeIs
  <2>4. PICK g \in Int : g = b + Size(b)
    BY <1>4, <2>3
  <2>5. /\ g \in list \/ g = End
        /\ \A n \in list : ~(b < n /\ n < g)
        /\ b < g /\ g <= End
    BY <1>5, <2>4, NextBegins
  <2>6. Spells(Y, RomBytes(b), b, g)
    BY <1>5, <2>4 DEF IsRom
  <2>7. Spells(Y, bytes \o RomBytes(b), Start, g)
    BY <1>3, <2>1, <2>6, SpellsBoth
  <2>8. Start + k <= g
    BY <1>4, <2>5
  <2>9. \A n \in list : ~(Start + k <= n /\ n < g)
    <3>1. \A n \in list : n \in Int
      BY <1>1
    <3> QED
      BY <1>4, <2>5, <3>1
  <2> QED
    BY <2>2, <2>5, <2>7, <2>8, <2>9 DEF RomInv
<1>6. CASE b \notin list
  <2>1. Holders(b) # {}
    BY DEF ByteLost
  <2>2. BytesFrom(b) = << >>
    BY <1>6, <2>1 DEF BytesFrom
  <2>3. bytes \o << >> = bytes
    <3>1. bytes \in Seq(Int)
      BY <1>3 DEF Spells
    <3> QED
      BY <3>1, ConcatEmptySeq
  <2>4. e # b
    BY <1>2, <1>3, <1>4, <1>6
  <2>5. Start + k <= e
    BY <1>4, <2>4
  <2>6. \A n \in list : ~(Start + k <= n /\ n < e)
    <3>1. \A n \in list : n \in Int
      BY <1>1
    <3> QED
      BY <1>3, <1>4, <3>1
  <2> QED
    BY <1>3, <2>2, <2>3, <2>5, <2>6 DEF RomInv
<1> QED
  BY <1>5, <1>6

(* Rom is that ROM, from its first byte to its last.                        *)
LEMMA RomIsSpelled ==
    ASSUME Marked, Chosen(form, data), ~ByteLost, NEW Y, IsRom(Y)
    PROVE  Spells(Y, Rom, Start, End)
<1>1. /\ banks \in 1 .. 2 /\ list \subseteq Homes /\ Start \in list
  BY MarkedIs
<1>2. PICK s \in Nat, z \in Nat : s = Start /\ z = End /\ Homes = s .. z - 1
  BY <1>1, Layout
<1>3. s < z
  <2>1. s \in s .. z - 1
    BY <1>1, <1>2
  <2> QED
    BY <1>2, <2>1
<1>4. PICK n \in Nat : n = Cardinality(Homes) /\ n = z - s
  <2>1. Cardinality(s .. z - 1) = IF s > z - 1 THEN 0 ELSE z - 1 - s + 1
    BY FS_Interval
  <2>2. Cardinality(s .. z - 1) = z - s /\ z - s \in Nat
    BY <1>3, <2>1
  <2> QED
    BY <1>2, <2>2
<1>5. PICK seq : seq = [i \in 1 .. n |-> Start + i - 1]
  OBVIOUS
<1>6. DOMAIN seq = 1 .. n
  BY <1>5
<1>7. RomInv(Y, seq, 0, << >>)
  <2>1. << >> \in Seq(Int) /\ Len(<< >>) = 0 /\ s = s + 0
    BY <1>2
  <2>2. Spells(Y, << >>, Start, s)
    BY <1>2, <2>1 DEF Spells
  <2>3. Start + 0 <= s /\ s <= End
    BY <1>2, <1>3
  <2>4. \A m \in list : ~(Start + 0 <= m /\ m < s)
    <3>1. \A m \in list : m \in Int
      BY <1>1, MarkedIs
    <3> QED
      BY <1>2, <3>1
  <2>5. s \in Int /\ s \in list
    BY <1>1, <1>2
  <2> QED
    BY <2>2, <2>3, <2>4, <2>5 DEF RomInv
<1>8. ASSUME NEW k \in 1 .. n, NEW x, RomInv(Y, seq, k - 1, x)
      PROVE  RomInv(Y, seq, k, RomStep(Y, x, seq[k]))
  <2>1. PICK b \in Homes : b = Start + k - 1
    <3>1. s + k - 1 \in s .. z - 1
      BY <1>2, <1>4
    <3> QED
      BY <1>2, <3>1
  <2>2. seq[k] = b
    BY <1>5, <2>1
  <2>3. k \in Int
    OBVIOUS
  <2> QED
    BY <1>8, <2>1, <2>2, <2>3, ByteRead DEF RomStep
<1>9. RomInv(Y, seq, n, Reading!Fold(Y, << >>, seq))
  BY <1>6, <1>7, <1>8, Reading!Rule
<1>10. Rom = Reading!Fold(Y, << >>, seq)
  BY <1>4, <1>5 DEF Rom, Reading!Fold, RomStep, FoldLeft, MapThenFoldSet,
                    Reading!MapThenFoldSet, Reading!Largest, Max
<1>11. PICK e \in Int : Spells(Y, Rom, Start, e) /\ Start + n <= e /\ e <= End
                        /\ (e \in list \/ e = End)
  BY <1>9, <1>10 DEF RomInv
<1>12. e = End
  BY <1>2, <1>4, <1>11
<1> QED
  BY <1>11, <1>12

(* What is assembled is the ROM. *)
LEMMA TextComesBack ==
    ASSUME NEW P, NEW L, NEW x, NEW at, Written(P, L, x, at), NoException
    PROVE  LET p == Asm!Resolve(source)
               w == Asm!Assemble(source, p)
           IN  p.failed = FALSE /\ w.failed = FALSE /\ w.bytes = Rom
<1>1. /\ Listing(L) /\ Chain(L, x, at, Len(L) + 1) /\ Len(L) \in Nat
      /\ Text(P, L, form, data) /\ Marked /\ banks \in 1 .. 2 /\ Chosen(form, data)
      /\ Len(x) > 0 /\ source = Program(x) /\ x[Len(x)].kind = L[Len(L)].kind
  BY WrittenIs, MarkedIs DEF Written
<1>2. Start \in Int
  BY <1>1, Layout
<1>3. PICK T : Measures(L, T) /\ T[0] = Start
  BY <1>1, <1>2, Measured
<1>4. Fits(L, T, x, at) /\ RunsApart(x)
  BY <1>1, <1>3, TextFits
<1>5. PICK p : p = Asm!Resolve(source)
  OBVIOUS
<1>6. ResHolds(L, T, x, at, Len(x), p)
  BY <1>1, <1>3, <1>4, <1>5, ResolveKeeps
<1>7. ValuesOf(p.labels)
  BY <1>3, <1>6, LabelsResolved DEF NoException
<1>8. PICK Y : IsRom(Y)
  BY <1>1, RomExists
<1>9. Spelled(L, T, Y, p.labels)
  BY <1>3, <1>7, <1>8, TextSpelled
<1>10. x[Len(x)].kind \in {"data", "instruction"}
  BY <1>1, TextEndsInBytes
<1>11. PICK w : w = Asm!Assemble(source, p)
  OBVIOUS
<1>12. w.failed = FALSE /\ Spells(Y, w.bytes, Start, T[Len(L)])
  BY <1>1, <1>3, <1>4, <1>6, <1>9, <1>10, <1>11, BytesComeBack
<1>13. T[Len(L)] = End
  BY <1>1, <1>3, TextInPlace DEF NoException
<1>14. Spells(Y, Rom, Start, End)
  BY <1>1, <1>8, RomIsSpelled DEF NoException
<1>15. w.bytes = Rom
  BY <1>12, <1>13, <1>14, SpellsSame
<1>16. p.failed = FALSE
  <2>1. PICK a, b, c : p = [offset |-> a, offsets |-> b, labels |-> c, failed |-> FALSE]
    BY <1>6 DEF ResHolds
  <2> QED
    BY <2>1
<1> QED
  BY <1>5, <1>11, <1>12, <1>15, <1>16

-----------------------------------------------------------------------------
(* From the listing to the text, and from the text to the bytes.            *)
OrgsOf(L) == Asm!IdentifyOrgs(L)
StringsOf(L) == Asm!GroupAsciiStrings(OrgsOf(L))
ListsOf(L) == Asm!CollapseDataStatements(StringsOf(L))

ListingNow == Listed(form, data)
Stages == {"marking", "listed", "orgs", "strings", "lists", "source", "assembled", "packed", "refused"}
Ends == {"assembled", "packed", "refused"}

(* At every stage source is what the passes made of the listing,            *)
PassesAre ==
    /\ stage = "listed" => source = ListingNow
    /\ stage = "orgs" => source = OrgsOf(ListingNow)
    /\ stage = "strings" => source = StringsOf(ListingNow)
    /\ stage = "lists" => source = ListsOf(ListingNow)
    /\ stage \in {"source"} \cup Ends => source = Program(ListsOf(ListingNow))

(* and output what the assembler made of source.                            *)
BytesAre ==
    stage \in Ends =>
       LET p == Asm!Resolve(source)
           w == Asm!Assemble(source, p)
       IN  IF p.failed THEN stage = "refused" /\ output = << >>
           ELSE output = w.bytes /\ (w.failed => stage = "refused")

PackInv ==
    /\ stage \in Stages
    /\ stage # "marking" => phase = "done" /\ Chosen(form, data)
    /\ stage \notin Ends => output = << >>
    /\ stage = "packed" => IsBank(output)
    /\ PassesAre
    /\ BytesAre

(* Bytes that were read as op codes are those op codes.                     *)
LEMMA ChoicesAreMade ==
    ASSUME Typed, NEW f \in [Accesses -> Forms], NEW c \in [DataHomes \ Tried -> DataBytes],
           NEW d, d = [h \in DataHomes |-> IF h \in Tried THEN OpByte[opcode[h]] ELSE c[h]]
    PROVE  Chosen(f, d)
<1>1. /\ DataBytes \subseteq 0 .. Radix - 1
      /\ OpByte \in [DOMAIN Shape \cup {"bad", "short", "indexedY"} -> 0 .. Radix - 1]
      /\ OpCodes \subseteq DOMAIN Shape \cup {"bad"}
  BY PackageAssumption, DisassemblerAssumption
<1>2. ASSUME NEW h \in DataHomes PROVE d[h] \in 0 .. Radix - 1
  <2>1. CASE h \in Tried
    <3>1. opcode[h] \in OpCodes
      BY <2>1 DEF Typed, OpCodesTyped, Tried
    <3> QED
      BY <1>1, <2>1, <3>1
  <2>2. CASE h \notin Tried
    BY <1>1, <2>2
  <2> QED
    BY <2>1, <2>2
<1> QED
  BY <1>2 DEF Chosen

(* Nothing that a stage rests on changes with the stage.                    *)
LEMMA SameListing ==
    ASSUME UNCHANGED <<vars, form, data>>
    PROVE  /\ ListingNow' = ListingNow /\ (Chosen(form, data) => Chosen(form, data)')
           /\ phase' = phase /\ (\A b : IsBank(b) => IsBank(b)')
<1>1. UNCHANGED <<banks, statement, list, labels, phase, form, data>>
  BY DEF vars
<1>2. End' = End /\ Start' = Start /\ Homes' = Homes /\ Accesses' = Accesses /\ DataHomes' = DataHomes
  BY <1>1 DEF End, Start, Homes, Accesses, DataHomes
<1>3. Places' = Places
  BY <1>1, <1>2 DEF Places, WithPlace, Placed, FoldLeft, MapThenFoldSet
<1>4. (\A h, f, d : StatementAt(h, f, d)' = StatementAt(h, f, d)) /\ (\A h : LabelPut(h)' = LabelPut(h))
  BY <1>1, <1>2 DEF StatementAt, LabelPut
<1>5. ListingNow' = ListingNow
  BY <1>1, <1>3, <1>4 DEF ListingNow, Listed
<1> QED
  BY <1>1, <1>2, <1>5 DEF Chosen, IsBank

LEMMA SamePasses ==
    ASSUME UNCHANGED vars
    PROVE  /\ \A L : OrgsOf(L)' = OrgsOf(L)
           /\ \A L : Asm!GroupAsciiStrings(L)' = Asm!GroupAsciiStrings(L)
           /\ \A L : Asm!CollapseDataStatements(L)' = Asm!CollapseDataStatements(L)
           /\ \A L : Program(L)' = Program(L)
           /\ \A L : Asm!Resolve(L)' = Asm!Resolve(L)
           /\ \A L, p : Asm!Assemble(L, p)' = Asm!Assemble(L, p)
<1>1. banks' = banks /\ End' = End /\ Start' = Start
  BY DEF vars, End, Start
<1>2. \A L : OrgsOf(L)' = OrgsOf(L)
  BY DEF OrgsOf
<1>3. \A L : Asm!GroupAsciiStrings(L)' = Asm!GroupAsciiStrings(L)
  OBVIOUS
<1>4. \A L : Asm!CollapseDataStatements(L)' = Asm!CollapseDataStatements(L)
  OBVIOUS
<1>5. \A L : Program(L)' = Program(L)
  BY <1>1 DEF Program
<1>6. \A L : Asm!Resolve(L)' = Asm!Resolve(L)
  BY <1>1 DEF Asm!Resolve, Asm!ResolveStatement, Asm!ResolveLabel, Asm!ResolvePlaced, Asm!FoldLeft, Asm!MapThenFoldSet
<1>7. \A L, p : Asm!Assemble(L, p)' = Asm!Assemble(L, p)
  OBVIOUS
<1> QED
  BY <1>2, <1>3, <1>4, <1>5, <1>6, <1>7

(* It holds at first,                                                       *)
LEMMA InitPackage ==
    ASSUME PackageInit
    PROVE  PackInv /\ MarkingInv /\ TextKept
<1>1. Init /\ stage = "marking" /\ output = << >>
  BY DEF PackageInit
<1>2. MarkingInv /\ TextKept
  BY <1>1, InitMarking, InitText
<1>3. PackInv
  BY <1>1 DEF PackInv, Stages, Ends, PassesAre, BytesAre
<1> QED
  BY <1>2, <1>3

(* A pass.                                                                  *)
PassNow ==
    IdentifyOrgs \/ GroupAsciiStrings \/ CollapseDataStatements \/ ToProgram

(* The steps of the whole.                                                  *)
LEMMA PackageSteps ==
    [PackageNext]_allVars =>
       \/ Next /\ UNCHANGED packageVars
       \/ MarkingDone \/ PassNow \/ Assemble \/ Pack
       \/ UNCHANGED <<vars, packageVars>>
BY DEF PackageNext, allVars, MarkStep, PassNow

(* To marking they are steps of marking, or none.                           *)
LEMMA PackageKeepsMarking ==
    ASSUME [PackageNext]_allVars
    PROVE  [Next]_vars
BY PackageSteps DEF MarkingDone, PassNow, IdentifyOrgs, GroupAsciiStrings, CollapseDataStatements,
                    ToProgram, Pass, Assemble, Pack

(* Every step keeps PackInv.                                                *)
LEMMA DoneIsListed ==
    ASSUME PackInv, Typed, MarkingDone
    PROVE  PackInv'
<1>1. /\ stage' = "listed" /\ phase = "done" /\ UNCHANGED vars /\ output' = output /\ stage = "marking"
      /\ source' = Listed(form', data')
  BY DEF MarkingDone
<1>2. phase' = "done" /\ output' = << >>
  BY <1>1 DEF vars, PackInv, Ends
<1>3. Chosen(form', data')
  BY ChoicesAreMade DEF MarkingDone
<1>4. Accesses' = Accesses /\ DataHomes' = DataHomes
  BY <1>1 DEF vars, Accesses, DataHomes
<1>5. Chosen(form, data)'
  BY <1>3, <1>4 DEF Chosen
<1>6. UNCHANGED <<banks, statement, list, labels>>
  BY <1>1 DEF vars
<1>7. End' = End /\ Start' = Start /\ Homes' = Homes
  BY <1>6 DEF End, Start, Homes
<1>8. Places' = Places
  BY <1>6, <1>7 DEF Places, WithPlace, Placed, FoldLeft, MapThenFoldSet
<1>9. (\A h : StatementAt(h, form, data)' = StatementAt(h, form', data'))
      /\ (\A h : LabelPut(h)' = LabelPut(h))
  BY <1>4, <1>6 DEF StatementAt, LabelPut
<1>10. ListingNow' = Listed(form', data')
  BY <1>8, <1>9 DEF ListingNow, Listed
<1> QED
  BY <1>1, <1>2, <1>5, <1>10 DEF PackInv, PassesAre, BytesAre, Stages, Ends

LEMMA PassKeeps ==
    ASSUME PackInv, PassNow
    PROVE  PackInv'
<1>1. PICK b \in {"listed", "orgs", "strings", "lists"}, a \in {"orgs", "strings", "lists", "source"} :
         stage = b /\ stage' = a
  BY DEF PassNow, IdentifyOrgs, GroupAsciiStrings, CollapseDataStatements, ToProgram, Pass
<1>2. UNCHANGED <<vars, form, data>> /\ output' = output
  BY DEF PassNow, IdentifyOrgs, GroupAsciiStrings, CollapseDataStatements, ToProgram, Pass
<1>3. output' = << >> /\ phase' = "done" /\ Chosen(form, data)'
  BY <1>1, <1>2, SameListing DEF PackInv, Ends
<1>4. ListingNow' = ListingNow /\ UNCHANGED vars
  BY <1>2, SameListing
<1>5. PassesAre'
  <2>1. CASE IdentifyOrgs
    BY <1>4, <2>1, SamePasses DEF IdentifyOrgs, Pass, PackInv, PassesAre, Ends, OrgsOf
  <2>2. CASE GroupAsciiStrings
    BY <1>4, <2>2, SamePasses DEF GroupAsciiStrings, Pass, PackInv, PassesAre, Ends, StringsOf, OrgsOf
  <2>3. CASE CollapseDataStatements
    BY <1>4, <2>3, SamePasses DEF CollapseDataStatements, Pass, PackInv, PassesAre, Ends, ListsOf, StringsOf, OrgsOf
  <2>4. CASE ToProgram
    <3>1. source' = Program(source) /\ stage = "lists" /\ stage' = "source"
      BY <2>4 DEF ToProgram, Pass, Program
    <3>2. source = ListsOf(ListingNow)
      BY <3>1 DEF PackInv, PassesAre
    <3>3. PICK L, M : L = ListingNow /\ M = ListsOf(L)
      OBVIOUS
    <3>4. Program(M)' = Program(M) /\ ListsOf(L)' = ListsOf(L)
      BY <1>4, SamePasses DEF ListsOf, StringsOf, OrgsOf
    <3> QED
      BY <1>4, <3>1, <3>2, <3>3, <3>4 DEF PassesAre, Ends
  <2> QED
    BY <2>1, <2>2, <2>3, <2>4 DEF PassNow
<1> QED
  BY <1>1, <1>3, <1>5 DEF PackInv, BytesAre, Stages, Ends

LEMMA AssembleKeepsPack ==
    ASSUME PackInv, Assemble
    PROVE  PackInv'
<1>1. stage = "source" /\ UNCHANGED <<vars, form, data>> /\ source' = source /\ output = << >>
  BY DEF Assemble, PackInv, Ends
<1>2. ListingNow' = ListingNow /\ UNCHANGED vars /\ phase' = "done" /\ Chosen(form, data)'
  BY <1>1, SameListing DEF PackInv
<1>3. PICK p : p = Asm!Resolve(source) /\ p = Asm!Resolve(source')
  BY <1>1
<1>4. PICK w : w = Asm!Assemble(source, p)
  OBVIOUS
<1>5. IF p.failed THEN stage' = "refused" /\ output' = << >>
      ELSE stage' = (IF w.failed THEN "refused" ELSE "assembled") /\ output' = w.bytes
  BY <1>1, <1>3, <1>4 DEF Assemble
<1>6. stage' \in {"assembled", "refused"}
  BY <1>5
<1>7. PassesAre'
  <2>1. source = Program(ListsOf(ListingNow))
    BY <1>1 DEF PackInv, PassesAre
  <2>2. PICK L, M : L = ListingNow /\ M = ListsOf(L)
    OBVIOUS
  <2>3. Program(M)' = Program(M) /\ ListsOf(L)' = ListsOf(L)
    BY <1>2, SamePasses DEF ListsOf, StringsOf, OrgsOf
  <2> QED
    BY <1>1, <1>2, <1>6, <2>1, <2>2, <2>3 DEF PassesAre
<1>8. BytesAre'
  <2>1. PICK S : S = source
    OBVIOUS
  <2>2. Asm!Resolve(S)' = Asm!Resolve(S) /\ Asm!Assemble(S, p)' = Asm!Assemble(S, p)
    BY <1>2, SamePasses
  <2>3. Asm!Resolve(source)' = p /\ source' = S
    BY <1>1, <1>3, <2>1, <2>2
  <2>4. Asm!Assemble(source, Asm!Resolve(source))' = w
    BY <1>4, <2>1, <2>2, <2>3
  <2> QED
    BY <1>5, <2>3, <2>4 DEF BytesAre
<1> QED
  BY <1>2, <1>6, <1>7, <1>8 DEF PackInv, Stages, Ends

LEMMA SameBytes ==
    ASSUME UNCHANGED vars, source' = source, output' = output, stage \in Ends, stage' \in Ends,
           BytesAre, stage = "refused" => stage' = "refused",
           stage' # "refused" => stage # "refused"
    PROVE  BytesAre'
<1>1. PICK S, p, w : S = source /\ p = Asm!Resolve(S) /\ w = Asm!Assemble(S, p)
  OBVIOUS
<1>2. Asm!Resolve(S)' = p /\ Asm!Assemble(S, p)' = w
  BY <1>1, SamePasses
<1>3. Asm!Resolve(source)' = p /\ Asm!Assemble(source, Asm!Resolve(source))' = w
  BY <1>1, <1>2
<1>4. IF p.failed THEN stage = "refused" /\ output = << >>
      ELSE output = w.bytes /\ (w.failed => stage = "refused")
  BY <1>1 DEF BytesAre
<1> QED
  BY <1>3, <1>4 DEF BytesAre

LEMMA SameText ==
    ASSUME UNCHANGED <<vars, form, data>>, source' = source, PackInv,
           stage \in {"source"} \cup Ends => stage' \in {"source"} \cup Ends,
           stage \notin {"source"} \cup Ends => stage' = stage
    PROVE  PassesAre'
<1>1. ListingNow' = ListingNow /\ UNCHANGED vars
  BY SameListing
<1>2. PICK L : L = ListingNow /\ L = ListingNow'
  BY <1>1
<1>3. /\ OrgsOf(L)' = OrgsOf(L) /\ StringsOf(L)' = StringsOf(L) /\ ListsOf(L)' = ListsOf(L)
      /\ Program(ListsOf(L))' = Program(ListsOf(L))
  BY <1>1, SamePasses DEF OrgsOf, StringsOf, ListsOf
<1> QED
  BY <1>2, <1>3 DEF PassesAre, PackInv, Ends

LEMMA PackKeeps ==
    ASSUME PackInv, Pack
    PROVE  PackInv'
<1>1. /\ stage = "assembled" /\ stage' = IF IsBank(output) THEN "packed" ELSE "refused"
      /\ UNCHANGED <<vars, form, data>> /\ source' = source /\ output' = output
  BY DEF Pack
<1>2. UNCHANGED vars /\ phase' = "done" /\ Chosen(form, data)'
      /\ \A b : IsBank(b) => IsBank(b)'
  BY <1>1, SameListing DEF PackInv
<1>3. stage' \in {"packed", "refused"}
  BY <1>1
<1>4. PassesAre' /\ BytesAre'
  BY <1>1, <1>2, <1>3, SameText, SameBytes DEF PackInv, Ends
<1>5. stage' = "packed" => IsBank(output)'
  <2>1. PICK b : b = output /\ b = output'
    BY <1>1
  <2>2. stage' = "packed" => IsBank(b)
    BY <1>1, <2>1
  <2>3. UNCHANGED banks
    BY <1>2 DEF vars
  <2> QED
    BY <2>1, <2>2, <2>3 DEF IsBank
<1> QED
  BY <1>2, <1>3, <1>4, <1>5 DEF PackInv, Stages, Ends

LEMMA PackStands ==
    ASSUME PackInv, UNCHANGED <<vars, packageVars>>
    PROVE  PackInv'
<1>1. UNCHANGED <<vars, form, data>> /\ source' = source /\ output' = output /\ stage' = stage
  BY DEF packageVars
<1>2. UNCHANGED vars /\ phase' = phase /\ UNCHANGED banks /\ (Chosen(form, data) => Chosen(form, data)')
  BY <1>1, SameListing DEF vars
<1>3. PassesAre'
  BY <1>1, SameText
<1>4. BytesAre'
  <2>1. CASE stage \in Ends
    BY <1>1, <1>2, <2>1, SameBytes DEF PackInv
  <2>2. CASE stage \notin Ends
    BY <1>1, <2>2 DEF BytesAre, Ends
  <2> QED
    BY <2>1, <2>2
<1>5. stage' = "packed" => IsBank(output)'
  BY <1>1, <1>2 DEF PackInv, IsBank
<1> QED
  BY <1>1, <1>2, <1>3, <1>4, <1>5 DEF PackInv, Stages, Ends

LEMMA MarkStepKeeps ==
    ASSUME PackInv, Next, UNCHANGED packageVars
    PROVE  PackInv'
<1>1. stage = "marking"
  BY NothingMarkedAfterwards DEF PackInv
<1>2. stage' = "marking" /\ output' = << >>
  BY <1>1 DEF packageVars, PackInv, Ends
<1> QED
  BY <1>2 DEF PackInv, Stages, Ends, PassesAre, BytesAre

LEMMA PackageKeeps ==
    ASSUME PackInv, Typed, [PackageNext]_allVars
    PROVE  PackInv'
BY PackageSteps, MarkStepKeeps, DoneIsListed, PassKeeps, AssembleKeepsPack, PackKeeps, PackStands

(* What marking keeps and what the passes keep, together.                   *)
LEMMA AlwaysPacked == PackageSpec => [](Inv /\ Located /\ MarkingInv /\ TextKept /\ PackInv)
<1>1. PackageInit => Inv /\ MarkingInv /\ TextKept /\ PackInv
  BY InitPackage DEF MarkingInv
<1>2. ASSUME Inv, [PackageNext]_allVars PROVE Inv'
  BY <1>2, PackageKeepsMarking, NextKeeps, InvUnchanged
<1>3. PackageSpec => []Inv
  BY <1>1, <1>2, PTL DEF PackageSpec
<1>4. Inv => Located
  BY AllLocated DEF Inv
<1>5. ASSUME MarkingInv, TextKept, PackInv, Located, Located', [PackageNext]_allVars
      PROVE  MarkingInv' /\ TextKept' /\ PackInv'
  <2>1. [Next]_vars
    BY <1>5, PackageKeepsMarking
  <2>2. MarkingInv'
    BY <1>5, <2>1, MarkingStays
  <2>3. TextKept'
    BY <1>5, <2>1, TextStays
  <2>4. Typed
    BY <1>5 DEF MarkingInv, Inv
  <2>5. PackInv'
    BY <1>5, <2>4, PackageKeeps
  <2> QED
    BY <2>2, <2>3, <2>5
<1> QED
  BY <1>1, <1>3, <1>4, <1>5, PTL DEF PackageSpec

(* A label that has moved is one of the exceptions. *)
LEMMA MovedIsNamed == Moved => LabelMoved
BY DEF Moved, LabelMoved, Labelled

(* The three passes, one after the other. *)
LEMMA PassesKeepListing ==
    ASSUME NEW L, Listing(L), Len(L) > 0
    PROVE  LET x == ListsOf(L)
           IN  \E at : Chain(L, x, at, Len(L) + 1) /\ Len(x) > 0 /\ x[Len(x)].kind = L[Len(L)].kind
<1>1. PICK x : x = OrgsOf(L)
  OBVIOUS
<1>2. PICK at : /\ Chain(L, x, at, Len(L) + 1) /\ DataAsListed(L, x, at)
                /\ Last(x) = L[Len(L)]
  BY <1>1, IdentifyOrgsKeeps DEF OrgsOf
<1>3. Len(x) \in Nat /\ Len(L) \in Nat /\ at[1] = 1 /\ at[Len(x) + 1] = Len(L) + 1
  BY <1>2 DEF Chain, Listing
<1>4. Len(x) > 0
  <2>1. Len(x) # 0
    <3>1. Len(x) = 0 => Len(x) + 1 = 1
      OBVIOUS
    <3>2. Len(L) + 1 # 1
      BY <1>3
    <3> QED
      BY <1>3, <3>1, <3>2
  <2> QED
    BY <1>3, <2>1
<1>5. x[Len(x)] = L[Len(L)]
  BY <1>2 DEF Last
<1>6. PICK y : y = StringsOf(L) /\ y = Asm!GroupAsciiStrings(x)
  BY <1>1 DEF StringsOf
<1>7. PICK bt : Chain(L, y, bt, Len(L) + 1) /\ Len(y) > 0 /\ y[Len(y)] = x[Len(x)]
  BY <1>2, <1>4, <1>6, GroupAsciiStringsKeeps
<1>8. PICK z : z = ListsOf(L) /\ z = Asm!CollapseDataStatements(y)
  BY <1>6 DEF ListsOf
<1>9. PICK ct : Chain(L, z, ct, Len(L) + 1) /\ Len(z) > 0 /\ z[Len(z)].kind = y[Len(y)].kind
  BY <1>7, <1>8, CollapseKeeps
<1> QED
  BY <1>5, <1>7, <1>8, <1>9

(* In the end there is a text that stands for the listing.                  *)
LEMMA TextIsWritten ==
    ASSUME MarkingInv, TextKept, Located, PackInv, ~Moved, stage \in Ends
    PROVE  \E P, L, x, at : Written(P, L, x, at)
<1>1. Marked /\ Chosen(form, data) /\ source = Program(ListsOf(ListingNow))
  BY DEF Marked, PackInv, PassesAre, Ends
<1>2. PICK P, L : P = Places /\ L = ListingNow
  OBVIOUS
<1>3. Text(P, L, form, data)
  BY <1>1, <1>2, ListedIsText DEF ListingNow
<1>4. Listing(L) /\ Len(L) > 0
  BY <1>3 DEF Text
<1>5. PICK x, at : /\ x = ListsOf(L) /\ Chain(L, x, at, Len(L) + 1) /\ Len(x) > 0
                   /\ x[Len(x)].kind = L[Len(L)].kind
  BY <1>4, PassesKeepListing
<1>6. Written(P, L, x, at)
  BY <1>1, <1>2, <1>3, <1>5 DEF Written
<1> QED
  BY <1>6

(* With none of the exceptions the ROM is what is put out. *)
LEMMA OutputIsRom ==
    ASSUME MarkingInv, TextKept, Located, PackInv, stage \in Ends, NoException
    PROVE  output = Rom
<1>1. ~Moved
  BY MovedIsNamed DEF NoException
<1>2. PICK P, L, x, at : Written(P, L, x, at)
  BY <1>1, TextIsWritten
<1>3. PICK p, w : p = Asm!Resolve(source) /\ w = Asm!Assemble(source, p)
  OBVIOUS
<1>4. p.failed = FALSE /\ w.bytes = Rom
  BY <1>2, <1>3, TextComesBack
<1> QED
  BY <1>3, <1>4 DEF PackInv, BytesAre

(* A ROM taken apart and put together again is byte for byte the same, for  *)
(* every ROM without one of the exceptions: the passes of Rom.Disassemble   *)
(* keep every byte where it is, and Resolve and Assemble put it there.      *)
THEOREM RomAlwaysComesBack == PackageSpec => []ComesBack
<1>1. MarkingInv /\ TextKept /\ Located /\ PackInv => ComesBack
  BY OutputIsRom DEF ComesBack, NoException, Ends
<1> QED
  BY <1>1, AlwaysPacked, PTL

-----------------------------------------------------------------------------
(* A statement is assembled to nothing or to as many bytes as Resolve       *)
(* counted for it.                                                          *)
IntegersOnly(V) == \A a \in DOMAIN V : V[a] \in Int
Weighty(b, size) == b = << >> \/ (b \in Seq(Int) /\ Len(b) = size)

LEMMA LengthsOfFew ==
    \A a, b, c \in Int : /\ Weighty(<<a>>, 1) /\ Weighty(<<a, b>>, 2)
                         /\ Weighty(<<a>> \o <<b, c>>, 3)
  BY BytesOfOne DEF Weighty

(* The bytes of an instruction.                                             *)
LEMMA CodeBytes ==
    ASSUME Marked, NEW V, IntegersOnly(V), NEW h \in list, Kind(h) = "instruction", NEW y,
           NEW s, s = Asm!Instruction(statement[h].code, y, statement[h].value, statement[h].label, h),
           NEW a \in Int
    PROVE  Weighty(Asm!InstructionBytes(s, a, V), Asm!SizeOf(s))
<1>1. /\ h \in Homes /\ StatementsTyped /\ OperandFits(h)
  BY MarkedIs DEF IsCode, Kind
<1>2. statement[h] \in Instruction
  BY <1>1, KindIs
<1>3. PICK i, c, v, n : c \in DOMAIN Shape /\ i = statement[h] /\ c = i.code /\ v = i.value /\ n = i.label
  <2>1. statement[h].code \in DOMAIN Shape
    BY <1>2 DEF Instruction
  <2> QED
    BY <2>1
<1>4. v \in Int /\ n \in Int
  BY <1>2, <1>3 DEF Instruction
<1>5. /\ s.kind = "instruction" /\ s.code = c /\ s.value = v /\ s.label = n
  BY <1>3 DEF Asm!Instruction
<1>6. PICK o \in Int, short \in Int, jmp \in Int :
         o = OpByte[c] /\ short = OpByte["short"] /\ jmp = OpByte["jmpInd"]
  <2>1. OpByte["short"] \in Int
    BY PackageAssumption
  <2>2. OpByte["jmpInd"] \in Int /\ OpByte[c] \in Int
    BY <1>3, ShapeLabels, ByteArithmetic
  <2> QED
    BY <2>1, <2>2
<1>7. PICK z \in 1 .. 3 : z = Shape[c].size
  BY <1>3, ShapeFacts
<1>8. [x \in DOMAIN Shape |-> Shape[x].size][c] = z
  BY <1>3, <1>7
<1>9. /\ Shape[c].label = "must" => z = 2
      /\ Shape[c].label = "may" => z = 3
      /\ Shape[c].label \in {"none", "may", "must"}
      /\ Asm!None = None
  BY <1>3, <1>7, ShapeFacts, ShapeLabels
<1>10. Shape[c].label = "none" => n = None
  BY <1>1, <1>3 DEF OperandFits
<1>11. Asm!SizeOf(s) = IF Asm!IsShort(s) \/ Asm!IsJmpIndirect(s) THEN 2 ELSE z
  <2>1. s.kind # "data" /\ s.code \in DOMAIN Shape /\ Shape[s.code].size = z
    BY <1>3, <1>5, <1>7
  <2> QED
    BY <2>1 DEF Asm!SizeOf
<1>12. PICK q : q = Asm!InstructionBytes(s, a, V)
  OBVIOUS
<1>13. CASE n = None
  <2>1. q = Asm!NumberedBytes(s)
    BY <1>5, <1>9, <1>12, <1>13 DEF Asm!InstructionBytes
  <2>2. CASE Asm!IsShort(s)
    <3>1. q = <<short, v>> /\ Asm!SizeOf(s) = 2
      BY <1>5, <1>6, <1>11, <2>1, <2>2 DEF Asm!NumberedBytes
    <3> QED
      BY <1>4, <1>12, <3>1, LengthsOfFew
  <2>3. CASE ~Asm!IsShort(s) /\ Asm!IsJmpIndirect(s)
    <3>1. q = <<jmp, v>> /\ Asm!SizeOf(s) = 2
      BY <1>5, <1>6, <1>11, <2>1, <2>3 DEF Asm!NumberedBytes
    <3> QED
      BY <1>4, <1>12, <3>1, LengthsOfFew
  <2>4. CASE ~Asm!IsShort(s) /\ ~Asm!IsJmpIndirect(s)
    <3>1. q = CASE z = 3 -> <<o>> \o Asm!Word(v)
                [] z = 2 -> <<o, v>>
                [] z = 1 -> <<o>>
      BY <1>5, <1>6, <1>8, <2>1, <2>4 DEF Asm!NumberedBytes
    <3>2. PICK w1 \in Int, w2 \in Int : Asm!Word(v) = <<w1, w2>>
      BY <1>4, WordBytes
    <3>3. Asm!SizeOf(s) = z
      BY <1>11, <2>4
    <3>4. z = 1 => q = <<o>>
      BY <3>1
    <3>5. z = 2 => q = <<o, v>>
      BY <3>1
    <3>6. z = 3 => q = <<o>> \o <<w1, w2>>
      BY <3>1, <3>2
    <3>7. z = 1 \/ z = 2 \/ z = 3
      OBVIOUS
    <3> QED
      BY <1>4, <1>12, <3>3, <3>4, <3>5, <3>6, <3>7, LengthsOfFew
  <2> QED
    BY <2>2, <2>3, <2>4
<1>14. CASE n # None
  <2>1. q = Asm!LabelledBytes(s, a, V)
    BY <1>5, <1>9, <1>12, <1>14 DEF Asm!InstructionBytes
  <2>2. Asm!SizeOf(s) = z
    BY <1>5, <1>9, <1>11, <1>14 DEF Asm!IsShort, Asm!IsJmpIndirect
  <2>3. z = 2 \/ z = 3
    BY <1>9, <1>10, <1>14
  <2>4. CASE n \notin DOMAIN V
    BY <1>5, <1>12, <2>1, <2>4 DEF Asm!LabelledBytes, Weighty
  <2>5. CASE n \in DOMAIN V
    <3>1. PICK t \in Int : t = V[n]
      BY <2>5 DEF IntegersOnly
    <3>2. q = IF z # 2 THEN <<o>> \o Asm!Word(t)
              ELSE IF Asm!InReach(t - (a + 2)) THEN <<o, (t - (a + 2)) % Radix>>
              ELSE << >>
      BY <1>5, <1>6, <1>8, <2>1, <2>5, <3>1 DEF Asm!LabelledBytes
    <3>3. PICK w1 \in Int, w2 \in Int : Asm!Word(t) = <<w1, w2>>
      BY WordBytes
    <3>4. PICK w \in Int : w = (t - (a + 2)) % Radix
      <4>1. t - (a + 2) \in Int
        OBVIOUS
      <4> QED
        BY <4>1, ByteArithmetic
    <3>5. z = 3 => q = <<o>> \o <<w1, w2>>
      BY <3>2, <3>3
    <3>6. z = 2 => q = << >> \/ q = <<o, w>>
      BY <3>2, <3>4
    <3>7. CASE z = 3
      <4>1. Weighty(q, 3)
        BY <1>6, <3>3, <3>5, <3>7, LengthsOfFew
      <4> QED
        BY <1>12, <2>2, <3>7, <4>1
    <3>8. CASE z = 2
      <4>1. Weighty(<<o, w>>, 2) /\ Weighty(<< >>, 2)
        BY <1>6, <3>4, LengthsOfFew DEF Weighty
      <4> QED
        BY <1>12, <2>2, <3>6, <3>8, <4>1
    <3> QED
      BY <2>3, <3>7, <3>8
  <2> QED
    BY <2>4, <2>5
<1> QED
  BY <1>13, <1>14

WeightInv(c, seq, m, b) == b \in Seq(Int) /\ Len(b) = c[1][m]
ByteStep(c, b, item) == b \o Asm!ItemBytes(c[2], item, c[3])
Filling == INSTANCE FoldRule WITH Op <- ByteStep, Holds <- WeightInv

(* The bytes of one item. *)
OfSize(b, size) == b \in Seq(Int) /\ Len(b) = size

LEMMA ItemWeighs ==
    ASSUME NEW L, Listing(L), NEW T, Measures(L, T), NEW V, IntegersOnly(V), NEW s,
           ~Asm!IsUndefined(s, V), NEW i \in 1 .. Len(L),
           NEW j \in i .. Len(L) + 1, DataCovers(L, s, i, j), NEW pos,
           ItemsCover(L, s.items, pos, i, j), NEW m \in 1 .. Len(s.items)
    PROVE  OfSize(Asm!ItemBytes(s, s.items[m], V), Asm!ItemSize(s, s.items[m]))
<1>1. PICK item, b, p, q : /\ item = s.items[m] /\ b = Asm!ItemBytes(s, item, V)
                           /\ p = pos[m] /\ q = pos[m + 1]
  OBVIOUS
<1>2. s \in DataStatement /\ s.width \in {1, 2} /\ s.width = L[i].width
  BY DEF DataCovers, DataStatement
<1>3. p \in 1 .. Len(L)
  <2>1. p \in i .. j - 1
    BY <1>1, ItemIs
  <2>2. Len(L) \in Nat
    BY DEF Listing
  <2> QED
    BY <2>1, <2>2
<1>4. LoneItem(L, T, s, item, i, p, q) \/ TextOfBytes(L, T, item, p, q)
  BY <1>1, ItemIs
<1>5. CASE TextOfBytes(L, T, item, p, q)
  <2>1. item.kind = "string" /\ item.value \in Seq(Int)
    BY <1>5 DEF TextOfBytes, TextItem
  <2>2. b = item.value /\ Asm!ItemSize(s, item) = Len(item.value)
    BY <1>1, <2>1 DEF Asm!ItemBytes, Asm!ItemSize
  <2> QED
    BY <1>1, <2>1, <2>2 DEF OfSize
<1>6. CASE LoneItem(L, T, s, item, i, p, q)
  <2>1. /\ item \in NumberItem \cup CallItem
        /\ p = i => L[p].width = s.width
        /\ p # i => L[p].width = 1
        /\ L[p].width = 1 => item \in NumberItem
    BY <1>6 DEF LoneItem
  <2>2. item.value \in Int /\ item.kind \in {"number", "call"}
        /\ (item \in NumberItem => item.kind = "number")
    BY <2>1 DEF NumberItem, CallItem
  <2>3. Asm!ItemSize(s, item) = s.width
    BY <2>2 DEF Asm!ItemSize
  <2>4. CASE item.kind = "number"
    <3>1. b = IF s.width = 2 THEN Asm!Word(item.value) ELSE <<item.value>>
      BY <1>1, <2>4 DEF Asm!ItemBytes
    <3>2. PICK w1 \in Int, w2 \in Int : Asm!Word(item.value) = <<w1, w2>>
      BY <2>2, WordBytes
    <3>3. s.width = 2 => b = <<w1, w2>>
      BY <3>1, <3>2
    <3>4. s.width = 1 => b = <<item.value>>
      BY <3>1
    <3> QED
      BY <1>1, <1>2, <2>2, <2>3, <3>3, <3>4, BytesOfOne DEF OfSize
  <2>5. CASE item.kind = "call"
    <3>1. s.width = 2
      <4>1. L[p].width # 1
        BY <2>1, <2>2, <2>5
      <4> QED
        BY <1>2, <2>1, <4>1
    <3>2. item.value \in DOMAIN V
      <4>1. m \in DOMAIN s.items
        BY <1>2 DEF DataStatement
      <4> QED
        BY <1>1, <2>5, <4>1 DEF Asm!IsUndefined
    <3>3. PICK t \in Int : t = V[item.value]
      BY <3>2 DEF IntegersOnly
    <3>4. PICK w1 \in Int, w2 \in Int : Asm!Word(t) = <<w1, w2>>
      BY WordBytes
    <3>5. b = <<w1, w2>>
      BY <1>1, <2>5, <3>3, <3>4 DEF Asm!ItemBytes
    <3> QED
      BY <1>1, <2>3, <3>1, <3>5, BytesOfOne DEF OfSize
  <2> QED
    BY <2>2, <2>4, <2>5
<1> QED
  BY <1>4, <1>5, <1>6

-----------------------------------------------------------------------------
(* Assemble, of statements without runs: with every statement that is       *)
(* assembled the bytes are those that Resolve counted.                      *)

(* The bytes of a statement of data, and of any statement.                  *)
LEMMA DataBytesFit ==
    ASSUME NEW L, Listing(L), NEW T, Measures(L, T), NEW V, IntegersOnly(V), NEW s,
           ~Asm!IsUndefined(s, V), NEW i \in 1 .. Len(L),
           NEW j \in i .. Len(L) + 1, DataCovers(L, s, i, j), NEW a
    PROVE  Weighty(Asm!StatementBytes(s, a, V), Asm!SizeOf(s))
<1>1. PICK pos : ItemsCover(L, s.items, pos, i, j)
  BY DEF DataCovers
<1>2. PICK n \in Nat : n = Len(s.items) /\ DOMAIN s.items = 1 .. n /\ s.kind = "data"
  BY DEF DataCovers, DataStatement
<1>3. PICK e : e = <<s>>
  OBVIOUS
<1>4. PICK F : Sums!AreValues(F, e, 0, s.items, n)
  BY <1>2, Sums!Values
<1>5. e[1] = s
  BY <1>3
<1>6. /\ F[0] = 0 /\ F[n] = Sums!Fold(e, 0, s.items)
      /\ \A k \in 1 .. n : F[k] = F[k - 1] + Asm!ItemSize(s, s.items[k])
  BY <1>4, <1>5 DEF Sums!AreValues, SizeStep
<1>7. Asm!SizeOf(s) = F[n]
  BY <1>2, <1>5, <1>6 DEF Asm!SizeOf, Sums!Fold, SizeStep, FoldLeft, MapThenFoldSet,
                Sums!MapThenFoldSet, Sums!Largest, Max,
                Asm!FoldLeft, Asm!MapThenFoldSet, Asm!Max
<1>8. PICK c : c = <<F, s, V>>
  OBVIOUS
<1>9. c[1] = F /\ c[2] = s /\ c[3] = V
  BY <1>8
<1>10. WeightInv(c, s.items, 0, << >>)
  BY <1>6, <1>9 DEF WeightInv
<1>11. ASSUME NEW m \in 1 .. n, NEW b, WeightInv(c, s.items, m - 1, b)
       PROVE  WeightInv(c, s.items, m, ByteStep(c, b, s.items[m]))
  <2>1. b \in Seq(Int) /\ Len(b) = F[m - 1]
    BY <1>9, <1>11 DEF WeightInv
  <2>2. PICK q : q = Asm!ItemBytes(s, s.items[m], V) /\ q \in Seq(Int)
                 /\ Len(q) = Asm!ItemSize(s, s.items[m])
    <3>1. m \in 1 .. Len(s.items)
      BY <1>2
    <3>2. OfSize(Asm!ItemBytes(s, s.items[m], V), Asm!ItemSize(s, s.items[m]))
      BY <1>1, <3>1, ItemWeighs
    <3> QED
      BY <3>2 DEF OfSize
  <2>3. b \o q \in Seq(Int) /\ Len(b \o q) = Len(b) + Len(q)
    BY <2>1, <2>2, ConcatProperties
  <2>4. F[m] = F[m - 1] + Asm!ItemSize(s, s.items[m])
    BY <1>6
  <2>5. Len(b \o q) = F[m]
    BY <2>1, <2>2, <2>3, <2>4
  <2>6. ByteStep(c, b, s.items[m]) = b \o q
    BY <1>9, <2>2 DEF ByteStep
  <2> QED
    BY <1>9, <2>3, <2>5, <2>6 DEF WeightInv
<1>12. PICK b : b = Filling!Fold(c, << >>, s.items)
  OBVIOUS
<1>13. WeightInv(c, s.items, n, b)
  BY <1>2, <1>10, <1>11, <1>12, Filling!Rule
<1>14. Asm!StatementBytes(s, a, V) = b
  BY <1>2, <1>9, <1>12 DEF Asm!StatementBytes, Filling!Fold, ByteStep, FoldLeft, MapThenFoldSet,
                Filling!MapThenFoldSet, Filling!Largest, Max,
                Asm!FoldLeft, Asm!MapThenFoldSet, Asm!Max
<1> QED
  BY <1>7, <1>9, <1>13, <1>14 DEF WeightInv, Weighty

LEMMA StatementWeighs ==
    ASSUME NEW P, NEW L, NEW x, NEW at, Written(P, L, x, at), NEW m \in 1 .. Len(x),
           x[m].kind \in {"data", "instruction"}, NEW V, IntegersOnly(V), NEW a \in Int
    PROVE  Weighty(Asm!StatementBytes(x[m], a, V), Weight(x[m]))
<1>1. /\ Listing(L) /\ Chain(L, x, at, Len(L) + 1) /\ Text(P, L, form, data) /\ Marked /\ Len(L) \in Nat
  BY WrittenIs
<1>2. PICK s, i, j : s = x[m] /\ i = at[m] /\ j = at[m + 1]
  OBVIOUS
<1>3. i \in 1 .. Len(L) /\ j \in i + 1 .. Len(L) + 1
  BY <1>1, <1>2, CoveredIs
<1>4. Weight(s) = Asm!SizeOf(s)
  BY <1>2 DEF Weight
<1>5. CASE s.kind = "data"
  <2>1. DataCovers(L, s, i, j) /\ j \in i .. Len(L) + 1
    BY <1>1, <1>2, <1>3, <1>5, CoveredIs
  <2>2. PICK T : Measures(L, T)
    <3>1. 0 \in Int
      OBVIOUS
    <3>2. \E T : Measures(L, T) /\ T[0] = 0
      BY <1>1, <3>1, Measured
    <3> QED
      BY <3>2
  <2>3. CASE Asm!IsUndefined(s, V)
    BY <1>2, <1>5, <2>3 DEF Asm!StatementBytes, Weighty
  <2>4. CASE ~Asm!IsUndefined(s, V)
    BY <1>1, <1>2, <1>3, <1>4, <2>1, <2>2, <2>4, DataBytesFit
  <2> QED
    BY <2>3, <2>4
<1>6. CASE s.kind = "instruction"
  <2>1. s = L[i] /\ L[i].kind # "label"
    BY <1>1, <1>2, <1>6, CoveredIs
  <2>2. PICK h \in list : IsElement(P, L, form, data, i, h)
    BY <1>1, <1>3, <2>1, PlaceHolds
  <2>3. Kind(h) = "instruction"
    <3>1. Kind(h) \in {"byte", "number", "reference", "instruction"}
      BY <1>1, MarkedIs
    <3> QED
      BY <1>6, <2>1, <2>2, <3>1 DEF IsElement, ReadsAs, Asm!Data
  <2>4. PICK y : s = Asm!Instruction(statement[h].code, y, statement[h].value, statement[h].label, h)
    BY <2>1, <2>2, <2>3 DEF IsElement, ReadsAs
  <2>5. Weighty(Asm!InstructionBytes(s, a, V), Asm!SizeOf(s))
    BY <1>1, <2>3, <2>4, CodeBytes
  <2>6. Asm!StatementBytes(s, a, V) = Asm!InstructionBytes(s, a, V)
    BY <1>6 DEF Asm!StatementBytes
  <2> QED
    BY <1>2, <1>4, <2>5, <2>6
<1> QED
  BY <1>2, <1>5, <1>6

(* What Assemble has made of the first n statements of x.                   *)
AsmSumIs(U, V, n, w, u, b, g) ==
    /\ u = U[n] /\ u \in Int
    /\ w = [offset |-> u, expected |-> u, firstOrg |-> FALSE, fill |-> g, bytes |-> b,
            labels |-> V, failed |-> FALSE]
    /\ b \in Seq(Int) /\ Len(b) = u - Start
AsmSum(U, V, n, w) == \E u, b, g : AsmSumIs(U, V, n, w, u, b, g)

(* One statement: Assemble fails, or goes on as counted.                    *)
LEMMA AssembleWeighs ==
    ASSUME NEW P, NEW L, NEW x, NEW at, Written(P, L, x, at), NoRuns(x), NEW U, Weighs(x, U),
           NEW V, IntegersOnly(V), NEW n \in 1 .. Len(x), NEW w, AsmSum(U, V, n - 1, w), NEW o,
           x[n].kind \in {"data", "instruction"} => o = U[n - 1]
    PROVE  LET r == Asm!AssembleStatement(w, <<x[n], o>>) IN r.failed = TRUE \/ AsmSum(U, V, n, r)
<1>1. PICK u, b, g : AsmSumIs(U, V, n - 1, w, u, b, g)
  BY DEF AsmSum
<1>2. /\ u = U[n - 1] /\ u \in Int
      /\ w = [offset |-> u, expected |-> u, firstOrg |-> FALSE, fill |-> g, bytes |-> b,
              labels |-> V, failed |-> FALSE]
      /\ b \in Seq(Int) /\ Len(b) = u - Start
  BY <1>1 DEF AsmSumIs
<1>3. PICK s, r, v : s = x[n] /\ r = Asm!AssembleStatement(w, <<x[n], o>>) /\ v = U[n]
  OBVIOUS
<1>4. /\ v = u + Weight(s) /\ Weight(s) \in Int /\ s.kind \in {"label", "instruction", "data"}
  BY <1>2, <1>3 DEF Weighs, NoRuns
<1>5. <<x[n], o>>[1] = s /\ <<x[n], o>>[2] = o
  BY <1>3
<1>6. CASE s.kind = "label"
  <2>1. r = w
    BY <1>3, <1>5, <1>6 DEF Asm!AssembleStatement
  <2>2. v = u
    BY <1>2, <1>4, <1>6 DEF Weight
  <2>3. AsmSumIs(U, V, n, r, u, b, g)
    BY <1>2, <1>3, <2>1, <2>2 DEF AsmSumIs
  <2> QED
    BY <1>3, <2>3 DEF AsmSum
<1>7. CASE s.kind # "label"
  <2>1. s.kind \in {"data", "instruction"} /\ s.kind # "org" /\ s.kind # "label" /\ o = u
    BY <1>2, <1>3, <1>4, <1>7
  <2>2. PICK d : d = Asm!StatementBytes(s, o, V)
    OBVIOUS
  <2>3. Weighty(d, Weight(s))
    BY <1>2, <1>3, <2>1, <2>2, StatementWeighs
  <2>4. w.failed = FALSE /\ w.labels = V /\ w.offset = u /\ w.bytes = b /\ w.expected = u
    BY <1>2
  <2>5. CASE d = << >>
    <3>1. r = [w EXCEPT !.failed = TRUE]
      BY <1>3, <1>5, <2>1, <2>2, <2>4, <2>5 DEF Asm!AssembleStatement
    <3>2. r.failed = TRUE
      BY <1>2, <3>1
    <3> QED
      BY <1>3, <3>2
  <2>6. CASE d # << >>
    <3>1. d \in Seq(Int) /\ Len(d) = Weight(s)
      BY <2>3, <2>6 DEF Weighty
    <3>2. PICK all : all = b \o Asm!OrgFill(w, o) \o d
      OBVIOUS
    <3>3. Asm!OrgFill(w, o) = << >>
      <4>1. ~(o > w.expected)
        BY <1>2, <2>1, <2>4
      <4> QED
        BY <4>1 DEF Asm!OrgFill
    <3>4. all = b \o d
      <4>1. b \o << >> = b
        BY <1>2, ConcatEmptySeq
      <4> QED
        BY <3>2, <3>3, <4>1
    <3>5. all \in Seq(Int) /\ Len(all) = Len(b) + Len(d)
      BY <1>2, <3>1, <3>4
    <3>6. Len(all) = v - Start
      <4>1. PICK start \in Int : start = Start
        BY DEF Weighs
      <4>2. PICK c \in Int : c = Weight(s)
        BY <1>4
      <4>3. u \in Int /\ v = u + c /\ Len(d) = c /\ Len(b) = u - start
        BY <1>2, <1>4, <3>1, <4>1, <4>2
      <4>4. Len(all) = (u - start) + c
        BY <3>5, <4>3
      <4> QED
        BY <4>1, <4>2, <4>3, <4>4
    <3>7. r = [w EXCEPT !.bytes = w.bytes \o Asm!OrgFill(w, o) \o d,
                        !.offset = w.offset + Len(d),
                        !.expected = w.offset + Len(d)]
      BY <1>3, <1>5, <2>1, <2>2, <2>4, <2>6 DEF Asm!AssembleStatement
    <3>8. w.bytes \o Asm!OrgFill(w, o) \o d = all /\ w.offset + Len(d) = v
      BY <1>4, <2>4, <3>1, <3>2
    <3>9. r = [w EXCEPT !.bytes = all, !.offset = v, !.expected = v]
      BY <3>7, <3>8
    <3>10. r = [offset |-> v, expected |-> v, firstOrg |-> FALSE, fill |-> g, bytes |-> all,
                labels |-> V, failed |-> FALSE]
      BY <1>2, <3>9
    <3>11. v \in Int /\ v = U[n]
      BY <1>2, <1>3, <1>4
    <3>12. AsmSumIs(U, V, n, r, v, all, g)
      BY <3>5, <3>6, <3>10, <3>11 DEF AsmSumIs
    <3> QED
      BY <1>3, <3>12 DEF AsmSum
  <2> QED
    BY <2>5, <2>6
<1> QED
  BY <1>6, <1>7

AsmSumInv(c, seq, k, w) ==
    IF k = 0 THEN w = AsmBase(c[2]) ELSE w.failed = TRUE \/ AsmSum(c[1], c[2], k - 1, w)
Weighing == INSTANCE FoldRule WITH Op <- AsmStep, Holds <- AsmSumInv

(* What is assembled is as long as Resolve took it to be. *)
LEMMA AssembleSums ==
    ASSUME NEW P, NEW L, NEW x, NEW at, Written(P, L, x, at), NoRuns(x), NEW U, Weighs(x, U),
           NEW p, ResSum(U, x, Len(x), p)
    PROVE  LET w == Asm!Assemble(Program(x), p)
           IN  \/ w.failed = TRUE
               \/ w.bytes \in Seq(Int) /\ Len(w.bytes) = U[Len(x)] - Start
<1>1. PICK V, z, o : V = p.labels /\ o = p.offsets /\ z = Asm!Zip(Program(x), o)
  OBVIOUS
<1>2. PICK c : c = <<U, V>>
  OBVIOUS
<1>3. c[1] = U /\ c[2] = V
  BY <1>2
<1>4. x \in Seq(Statement) /\ Len(x) \in Nat /\ Start \in Int
  BY WrittenIs DEF Weighs
<1>5. PICK n : n = Len(x) + 1
  OBVIOUS
<1>6. n \in Nat /\ n > 0 /\ n - 1 = Len(x) /\ Len(Program(x)) = n
  BY <1>4, <1>5, ProgramIs
<1>7. /\ Len(o) = n /\ IntegersOnly(V)
      /\ \A m \in 1 .. Len(x) : x[m].kind \in {"data", "instruction"} => o[m + 1] = U[m - 1]
  <2>1. PICK f, q, labs : ResSumIs(U, x, Len(x), p, f, q, labs)
    BY DEF ResSum
  <2>2. p.offsets = q /\ p.labels = labs
    BY <2>1 DEF ResSumIs
  <2> QED
    BY <1>1, <1>5, <2>1, <2>2 DEF ResSumIs, IntegersOnly
<1>8. z = [k \in 1 .. n |-> <<Program(x)[k], o[k]>>]
  BY <1>1, <1>6, <1>7 DEF Asm!Zip
<1>9. AsmSumInv(c, z, 0, AsmBase(V))
  BY <1>3 DEF AsmSumInv
<1>10. ASSUME NEW k \in 1 .. n, NEW w, AsmSumInv(c, z, k - 1, w)
       PROVE  AsmSumInv(c, z, k, AsmStep(c, w, z[k]))
  <2>1. CASE k = 1
    <3>1. w = AsmBase(V)
      BY <1>3, <1>10, <2>1 DEF AsmSumInv
    <3>2. PICK q : q = o[1] /\ z[k] = <<Asm!Org(Start, Radix - 1), q>>
      BY <1>4, <1>8, <2>1, ProgramIs
    <3>3. PICK v, g, s, r : /\ v = Start /\ g = Radix - 1 /\ s = Asm!Org(Start, Radix - 1)
                            /\ r = Asm!AssembleStatement(w, <<s, q>>)
      OBVIOUS
    <3>4. w = [offset |-> 0, expected |-> 0, firstOrg |-> TRUE, fill |-> 0,
               bytes |-> << >>, labels |-> V, failed |-> FALSE]
          /\ s.kind = "org" /\ s.value = v /\ s.fill = g
      BY <3>1, <3>3 DEF AsmBase, Asm!Org
    <3>5. <<s, q>>[1] = s /\ w.firstOrg = TRUE /\ w.failed = FALSE
      BY <3>4
    <3>6. r = [w EXCEPT !.fill = g, !.firstOrg = FALSE, !.offset = v, !.expected = v]
      BY <3>3, <3>4, <3>5 DEF Asm!AssembleStatement
    <3>7. r = [offset |-> v, expected |-> v, firstOrg |-> FALSE, fill |-> g,
               bytes |-> << >>, labels |-> V, failed |-> FALSE]
      BY <3>4, <3>6
    <3>8. v = U[0] /\ v \in Int /\ << >> \in Seq(Int) /\ Len(<< >>) = v - Start
      BY <1>4, <3>3 DEF Weighs
    <3>9. AsmSumIs(U, V, 0, r, v, << >>, g)
      BY <3>7, <3>8 DEF AsmSumIs
    <3>10. AsmStep(c, w, z[k]) = r /\ AsmSum(U, V, 0, r)
      BY <3>2, <3>3, <3>9 DEF AsmStep, AsmSum
    <3> QED
      BY <1>3, <2>1, <3>10 DEF AsmSumInv
  <2>2. CASE k # 1
    <3>1. PICK m, q : m = k - 1 /\ q = o[m + 1]
      OBVIOUS
    <3>2. m \in 1 .. Len(x) /\ k = m + 1 /\ m # 0
      BY <1>5, <1>6, <2>2, <3>1
    <3>3. w.failed = TRUE \/ AsmSum(U, V, m - 1, w)
      BY <1>3, <1>10, <3>1, <3>2 DEF AsmSumInv
    <3>4. z[k] = <<x[m], q>>
      BY <1>4, <1>8, <3>1, <3>2, ProgramIs
    <3>5. x[m].kind \in {"data", "instruction"} => q = U[m - 1]
      BY <1>7, <3>1, <3>2
    <3>6. PICK r : r = Asm!AssembleStatement(w, <<x[m], q>>)
      OBVIOUS
    <3>7. r.failed = TRUE \/ AsmSum(U, V, m, r)
      <4>1. CASE w.failed = TRUE
        BY <3>6, <4>1 DEF Asm!AssembleStatement
      <4>2. CASE AsmSum(U, V, m - 1, w)
        BY <1>7, <3>2, <3>5, <3>6, <4>2, AssembleWeighs
      <4> QED
        BY <3>3, <4>1, <4>2
    <3>8. AsmStep(c, w, z[k]) = r /\ k # 0 /\ k - 1 = m
      BY <3>1, <3>2, <3>4, <3>6 DEF AsmStep
    <3> QED
      BY <1>3, <3>7, <3>8 DEF AsmSumInv
  <2> QED
    BY <2>1, <2>2
<1>11. DOMAIN z = 1 .. n
  BY <1>8
<1>12. AsmSumInv(c, z, n, Weighing!Fold(c, AsmBase(V), z))
  BY <1>6, <1>9, <1>10, <1>11, Weighing!Rule
<1>13. PICK w : w = Asm!Assemble(Program(x), p)
  OBVIOUS
<1>14. w = Weighing!Fold(c, AsmBase(V), z)
  BY <1>1, <1>13 DEF Asm!Assemble, Weighing!Fold, AsmStep, AsmBase, FoldLeft, MapThenFoldSet,
         Weighing!MapThenFoldSet, Weighing!Largest, Max,
         Asm!FoldLeft, Asm!MapThenFoldSet, Asm!Max
<1>15. w.failed = TRUE \/ AsmSum(U, V, Len(x), w)
  BY <1>3, <1>6, <1>12, <1>14 DEF AsmSumInv
<1>16. ASSUME AsmSum(U, V, Len(x), w) PROVE w.bytes \in Seq(Int) /\ Len(w.bytes) = U[Len(x)] - Start
  <2>1. PICK u, b, g : AsmSumIs(U, V, Len(x), w, u, b, g)
    BY <1>16 DEF AsmSum
  <2>2. w.bytes = b
    BY <2>1 DEF AsmSumIs
  <2> QED
    BY <2>1, <2>2 DEF AsmSumIs
<1> QED
  BY <1>13, <1>15, <1>16

-----------------------------------------------------------------------------
(* What a text without runs loses, it loses in its size.                    *)

(* Every element of the list has a statement in the listing.                *)
LEMMA ElementPlaced ==
    ASSUME NEW P, NEW L, Text(P, L, form, data), NEW h \in list
    PROVE  \E k \in 1 .. Len(L) : L[k].kind # "label" /\ IsElement(P, L, form, data, k, h)
<1>1. /\ PlacesTo(P, 2 * End) /\ Len(L) = Len(P) /\ Marked
  BY DEF Text
<1>2. PICK s \in Int, e \in Int : s = Start /\ e = End /\ Homes = s .. e - 1
  BY <1>1, MarkedIs, Layout
<1>3. h \in s .. e - 1
  BY <1>1, <1>2, MarkedIs
<1>4. PICK p \in Int : p = 2 * h + 1
  BY <1>3
<1>5. 2 * s <= p /\ p < 2 * e
  BY <1>3, <1>4
<1>6. p % 2 = 1 /\ p \div 2 = h
  <2>1. \A g \in Int : (2 * g + 1) \div 2 = g /\ (2 * g + 1) % 2 = 1
    OBVIOUS
  <2> QED
    BY <1>3, <1>4, <2>1
<1>7. Placed(p)
  BY <1>6 DEF Placed
<1>8. PICK k \in 1 .. Len(P) : P[k] = p
  BY <1>1, <1>2, <1>5, <1>7 DEF PlacesTo
<1>9. k \in 1 .. Len(L)
  BY <1>1, <1>8
<1>10. PICK g \in list : /\ g \in Int
                         /\ \/ L[k].kind = "label" /\ LabelHere(P, L, k, g)
                            \/ L[k].kind # "label" /\ IsElement(P, L, form, data, k, g)
  BY <1>9, PlaceHolds
<1>11. P[k] = 2 * g \/ P[k] = 2 * g + 1
  BY <1>10 DEF LabelHere, IsElement, ElementHere
<1>12. P[k] # 2 * g
  <2>1. 2 * h + 1 # 2 * g
    BY <1>3, <1>10
  <2> QED
    BY <1>4, <1>8, <2>1
<1>13. g = h
  BY <1>3, <1>4, <1>8, <1>10, <1>11, <1>12
<1>14. ~LabelHere(P, L, k, g)
  BY <1>12 DEF LabelHere
<1> QED
  BY <1>9, <1>10, <1>13, <1>14

(* Every statement of the listing has one of the text that stands for it.   *)
LEMMA CoveredByOne ==
    ASSUME NEW L, Listing(L), NEW x, NEW at, Chain(L, x, at, Len(L) + 1), NEW k \in 1 .. Len(L)
    PROVE  \E m \in 1 .. Len(x) : k \in at[m] .. at[m + 1] - 1
<1>1. PICK n \in Nat, q \in Nat : n = Len(L) /\ q = Len(x)
  BY DEF Listing, Chain
<1>2. PICK a \in [1 .. q + 1 -> 1 .. n + 1] : a = at /\ a[1] = 1 /\ a[q + 1] = n + 1
  BY <1>1 DEF Chain
<1>3. k \in 1 .. n
  BY <1>1
<1> DEFINE Q == {m \in 1 .. q : k < a[m + 1]}
<1>4. q # 0
  BY <1>2, <1>3
<1>5. q \in Q
  BY <1>2, <1>3, <1>4
<1>6. Q # {} /\ Q \in SUBSET Nat
  <2>1. Q \in SUBSET Nat
    OBVIOUS
  <2>2. Q # {}
    <3> HIDE DEF Q
    <3> QED
      BY <1>5
  <2> QED
    BY <2>1, <2>2
<1>7. PICK m \in Q : \A y \in Q : m <= y
  <2> HIDE DEF Q
  <2> QED
    BY <1>6, Sizes!LeastOf
<1>8. m \in 1 .. q /\ k < a[m + 1]
  OBVIOUS
<1>9. a[m] \in Int /\ a[m + 1] \in Int
  <2>1. m \in 1 .. q + 1 /\ m + 1 \in 1 .. q + 1
    BY <1>8
  <2>2. \A y \in 1 .. q + 1 : a[y] \in Int
    BY <1>2
  <2> QED
    BY <2>1, <2>2
<1>10. a[m] <= k
  <2>1. CASE m = 1
    BY <1>2, <1>3, <2>1
  <2>2. CASE m # 1
    <3>1. m - 1 \in 1 .. q /\ m - 1 + 1 = m /\ ~(m <= m - 1)
      BY <1>8, <2>2
    <3>2. m - 1 \notin Q
      <4> HIDE DEF Q
      <4> QED
        BY <1>7, <3>1
    <3> QED
      BY <1>3, <1>9, <3>1, <3>2
  <2> QED
    BY <2>1, <2>2
<1> QED
  BY <1>1, <1>2, <1>3, <1>8, <1>9, <1>10

(* The statement that covers an element of a text without runs. *)
LEMMA HolderOf ==
    ASSUME NEW P, NEW L, NEW x, NEW at, Written(P, L, x, at), NoRuns(x),
           NEW k \in 1 .. Len(L), L[k].kind # "label"
    PROVE  \E m \in 1 .. Len(x) :
              /\ L[k].kind = "instruction" => x[m] = L[k]
              /\ L[k].kind = "data" => /\ x[m].kind = "data" /\ DataCovers(L, x[m], at[m], at[m + 1])
                                       /\ k \in at[m] .. at[m + 1] - 1
<1>1. Listing(L) /\ Chain(L, x, at, Len(L) + 1) /\ Len(L) \in Nat
  BY WrittenIs
<1>2. PICK m \in 1 .. Len(x) : k \in at[m] .. at[m + 1] - 1
  BY <1>1, CoveredByOne
<1>3. PICK s, i, j : s = x[m] /\ i = at[m] /\ j = at[m + 1]
  OBVIOUS
<1>4. /\ s.kind \in {"label", "instruction", "data"} /\ i \in Int /\ j \in Int /\ k \in i .. j - 1
      /\ s.kind \in {"label", "instruction"} => j = i + 1 /\ s = L[i]
      /\ s.kind = "data" => DataCovers(L, s, i, j)
  <2>1. i \in Int /\ j \in Int
    BY <1>1, <1>3, CoveredIs
  <2>2. /\ s.kind \in {"label", "instruction"} => j = i + 1 /\ s = L[i]
        /\ s.kind = "data" => DataCovers(L, s, i, j)
    BY <1>1, <1>3, CoveredIs
  <2>3. s.kind \in {"label", "instruction", "data"}
    BY <1>3 DEF NoRuns
  <2> QED
    BY <1>2, <1>3, <2>1, <2>2, <2>3
<1>5. CASE s.kind = "data"
  <2>1. L[k].kind = "data"
    BY <1>4, <1>5 DEF DataCovers
  <2> QED
    BY <1>3, <1>4, <1>5, <2>1
<1>6. CASE s.kind # "data"
  <2>1. j = i + 1 /\ s = L[i]
    BY <1>4, <1>6
  <2>2. k = i
    BY <1>4, <2>1
  <2> QED
    BY <1>3, <1>6, <2>1, <2>2
<1> QED
  BY <1>5, <1>6

(* Without runs no word is taken for a byte of one. *)
LEMMA WordsAreWritten ==
    ASSUME NEW P, NEW L, NEW x, NEW at, Written(P, L, x, at), NoRuns(x)
    PROVE  ~WordInRun
<1>1. SUFFICES ASSUME NEW h \in list, IsWord(h), StatementsOf(h) = {} PROVE FALSE
  BY DEF WordInRun
<1>2. Text(P, L, form, data) /\ Marked /\ Listing(L) /\ Chain(L, x, at, Len(L) + 1) /\ Len(L) \in Nat
  BY WrittenIs
<1>3. PICK k \in 1 .. Len(L) : L[k].kind # "label" /\ IsElement(P, L, form, data, k, h)
  BY <1>2, ElementPlaced
<1>4. L[k].kind = "data"
  BY <1>1, <1>3 DEF IsElement, ReadsAs, IsWord, Kind, Asm!Data
<1>5. L[k].width = 2 /\ L[k].home = h
  BY <1>1, <1>2, <1>3, <1>4, WordIs
<1>6. PICK m \in 1 .. Len(x) : /\ x[m].kind = "data" /\ DataCovers(L, x[m], at[m], at[m + 1])
                               /\ k \in at[m] .. at[m + 1] - 1
  BY <1>3, <1>4, HolderOf
<1>7. at[m] \in Int /\ at[m + 1] \in Int
  BY <1>2, <1>6, CoveredIs
<1>8. k = at[m]
  <2>1. ~(k \in at[m] + 1 .. at[m + 1] - 1)
    BY <1>5, <1>6 DEF DataCovers
  <2> QED
    BY <1>6, <1>7, <2>1
<1>9. x[m].home = h
  BY <1>5, <1>6, <1>8 DEF DataCovers
<1>10. m + 1 \in DOMAIN source /\ source[m + 1] = x[m]
  BY WrittenIs
<1>11. m + 1 \in StatementsOf(h)
  BY <1>6, <1>9, <1>10 DEF StatementsOf
<1> QED
  BY <1>1, <1>11

(* Where words were joined a statement takes more than its bytes. *)
LEMMA JoinedIsStretched ==
    ASSUME NEW P, NEW L, NEW x, NEW at, Written(P, L, x, at), WordsJoined
    PROVE  \E m \in 1 .. Len(x) : Stretched(x[m])
<1>1. Text(P, L, form, data) /\ Marked /\ Listing(L) /\ Chain(L, x, at, Len(L) + 1) /\ Len(x) \in Nat
      /\ Len(L) \in Nat /\ x \in Seq(Statement)
  BY WrittenIs
<1>2. PICK h \in list : IsWord(h) /\ \E i \in StatementsOf(h) : \E k \in 2 .. Len(source[i].items) :
                                        source[i].items[k].kind # "string"
  BY DEF WordsJoined
<1>3. PICK y \in StatementsOf(h) : \E k \in 2 .. Len(source[y].items) :
                                      source[y].items[k].kind # "string"
  BY <1>2
<1>4. y \in 1 .. Len(x) + 1 /\ source = Program(x) /\ source[y].kind = "data" /\ source[y].home = h
  BY <1>3, WrittenIs DEF Written, StatementsOf
<1>5. y # 1
  <2>1. source[1] = Asm!Org(Start, Radix - 1)
    BY <1>1, <1>4, ProgramIs
  <2> QED
    BY <1>4, <2>1 DEF Asm!Org
<1>6. PICK m \in 1 .. Len(x) : m = y - 1 /\ y = m + 1
  BY <1>1, <1>4, <1>5
<1>7. source[y] = x[m]
  BY <1>6, WrittenIs
<1>8. PICK z : z = at[m] /\ z \in 1 .. Len(L) /\ DataCovers(L, x[m], z, at[m + 1])
               /\ at[m + 1] \in z + 1 .. Len(L) + 1
  BY <1>1, <1>4, <1>7, CoveredIs
<1>9. L[z].kind = "data" /\ L[z].home = h /\ x[m].width = L[z].width
  <2>1. z \in z .. at[m + 1] - 1
    BY <1>1, <1>8
  <2> QED
    BY <1>4, <1>7, <1>8, <2>1 DEF DataCovers
<1>10. PICK g \in list : IsElement(P, L, form, data, z, g)
  BY <1>1, <1>8, <1>9, PlaceHolds
<1>11. g = h /\ (L[z].width = 2 <=> IsWord(g))
  BY <1>1, <1>8, <1>9, <1>10, WordIs
<1>12. Joined(x[m])
  BY <1>2, <1>3, <1>7, <1>9, <1>11 DEF Joined
<1> QED
  BY <1>4, <1>7, <1>12 DEF Stretched

(* Where they were not, none does;                                          *)
LEMMA NothingStretched ==
    ASSUME NEW P, NEW L, NEW x, NEW at, Written(P, L, x, at), ~WordsJoined, NEW m \in 1 .. Len(x)
    PROVE  ~Stretched(x[m])
  BY JoinsAreNamed DEF Stretched

(* and where no operand is lost, none takes less.                           *)
LEMMA NothingShrunk ==
    ASSUME NEW P, NEW L, NEW x, NEW at, Written(P, L, x, at), ~OperandLost, NEW m \in 1 .. Len(x)
    PROVE  ~Shrunk(x[m])
<1>1. SUFFICES ASSUME x[m].kind = "instruction" PROVE ~Asm!IsShort(x[m]) /\ ~Asm!IsJmpIndirect(x[m])
  BY DEF Shrunk
<1>2. Text(P, L, form, data) /\ Listing(L) /\ Chain(L, x, at, Len(L) + 1)
  BY WrittenIs
<1>3. at[m] \in 1 .. Len(L) /\ x[m] = L[at[m]]
  BY <1>1, <1>2, CoveredIs
<1> QED
  BY <1>1, <1>2, <1>3, CodeIsPlain

(* Code that the assembler takes, and takes as long as it was. *)
LEMMA CodeIsKept ==
    ASSUME NEW P, NEW L, NEW x, NEW at, Written(P, L, x, at), NoRuns(x),
           \A m \in 1 .. Len(x) : ~Shrunk(x[m]),
           \A m \in 1 .. Len(x) : x[m].kind = "instruction" => ~Asm!IsRefused(x[m])
    PROVE  ~OperandLost
<1>1. SUFFICES ASSUME NEW h \in list, Kind(h) = "instruction",
                      \/ h \in Accesses /\ form[h] = "indexedY"
                      \/ h \in Accesses /\ statement[h].label = None /\ statement[h].value < Radix
                      \/ statement[h].code = "jmp" /\ statement[h].label = None
               PROVE  FALSE
  BY DEF OperandLost, Kind
<1>2. Text(P, L, form, data)
  BY WrittenIs
<1>3. PICK k \in 1 .. Len(L) : L[k].kind # "label" /\ IsElement(P, L, form, data, k, h)
  BY <1>2, ElementPlaced
<1>4. PICK c, v, n, g : /\ c = statement[h].code /\ v = statement[h].value /\ n = statement[h].label
                        /\ g = IF h \in Accesses THEN form[h] ELSE "direct"
  OBVIOUS
<1>5. PICK s : s = L[k]
               /\ s = [kind |-> "instruction", code |-> c, form |-> g, value |-> v, label |-> n, home |-> h]
  BY <1>1, <1>3, <1>4 DEF IsElement, ReadsAs, Asm!Instruction
<1>6. PICK m \in 1 .. Len(x) : x[m] = s
  <2>1. L[k].kind = "instruction"
    BY <1>5
  <2>2. PICK m \in 1 .. Len(x) : L[k].kind = "instruction" => x[m] = L[k]
    BY <1>3, HolderOf
  <2> QED
    BY <1>5, <2>1, <2>2
<1>7. ~Asm!IsRefused(s) /\ ~Asm!IsShort(s) /\ ~Asm!IsJmpIndirect(s)
  BY <1>5, <1>6 DEF Shrunk
<1>8. h \in Accesses => c = "access"
  BY <1>4 DEF Accesses
<1>9. Asm!None = None
  BY DEF Asm!None, None
<1> QED
  BY <1>1, <1>4, <1>5, <1>7, <1>8, <1>9 DEF Asm!IsRefused, Asm!IsShort, Asm!IsJmpIndirect

-----------------------------------------------------------------------------
(* A bank that is packed has its size.                                      *)
(* By how much U and V grow with every statement. *)
Compared(x, U, V) ==
    \A m \in 1 .. Len(x) :
        /\ Stretched(x[m]) => U[m] - U[m - 1] > V[m] - V[m - 1]
        /\ Shrunk(x[m]) => U[m] - U[m - 1] < V[m] - V[m - 1]
        /\ ~Stretched(x[m]) /\ ~Shrunk(x[m]) => U[m] - U[m - 1] = V[m] - V[m - 1]

(* A text without runs, measured and weighed.                               *)
LEMMA TextWeighed ==
    ASSUME NEW P, NEW L, NEW x, NEW at, Written(P, L, x, at),
           \A m \in 1 .. Len(x) : x[m].kind # "org"
    PROVE  \E T, U, V : /\ Measures(L, T) /\ T[0] = Start /\ NoRuns(x) /\ Weighs(x, U)
                        /\ V \in [0 .. Len(x) -> Int] /\ V[0] = Start /\ V[Len(x)] = T[Len(L)]
                        /\ Compared(x, U, V)
<1>1. /\ Listing(L) /\ x \in Seq(Statement) /\ Chain(L, x, at, Len(L) + 1) /\ Len(L) \in Nat
      /\ Text(P, L, form, data) /\ Len(x) \in Nat /\ Marked
  BY WrittenIs
<1>2. Start \in Int
  BY <1>1, MarkedIs, Layout
<1>3. PICK T : Measures(L, T) /\ T[0] = Start
  BY <1>1, <1>2, Measured
<1>4. PICK n \in Nat, q \in Nat : n = Len(L) /\ q = Len(x)
  BY <1>1
<1>5. PICK a \in [1 .. q + 1 -> 1 .. n + 1] : a = at /\ a[1] = 1 /\ a[q + 1] = n + 1
  BY <1>1, <1>4 DEF Chain
<1>6. PICK V : V = [m \in 0 .. q |-> T[a[m + 1] - 1]]
  OBVIOUS
<1>7. ASSUME NEW m \in 0 .. q PROVE V[m] = T[at[m + 1] - 1] /\ V[m] \in Int
  <2>1. m + 1 \in 1 .. q + 1
    OBVIOUS
  <2>2. a[m + 1] - 1 \in 0 .. n
    BY <1>5, <2>1
  <2>3. T[a[m + 1] - 1] \in Int
    BY <1>3, <1>4, <2>2 DEF Measures
  <2> QED
    BY <1>5, <1>6, <2>3
<1>8. V \in [0 .. Len(x) -> Int]
  BY <1>4, <1>6, <1>7
<1>9. V[0] = Start /\ V[Len(x)] = T[Len(L)]
  <2>1. 0 \in 0 .. q /\ q \in 0 .. q /\ 0 + 1 = 1 /\ 1 - 1 = 0 /\ n + 1 - 1 = n
    OBVIOUS
  <2>2. V[0] = T[0]
    BY <1>5, <1>6, <2>1
  <2>3. V[q] = T[n]
    BY <1>5, <1>6, <2>1
  <2> QED
    BY <1>3, <1>4, <2>2, <2>3
<1>10. ASSUME NEW m \in 1 .. Len(x)
       PROVE  /\ Weight(x[m]) \in Int /\ V[m] - V[m - 1] \in Int
              /\ Stretched(x[m]) => Weight(x[m]) > V[m] - V[m - 1]
              /\ Shrunk(x[m]) => Weight(x[m]) < V[m] - V[m - 1]
              /\ ~Stretched(x[m]) /\ ~Shrunk(x[m]) => Weight(x[m]) = V[m] - V[m - 1]
  <2>1. m \in 0 .. q /\ m - 1 \in 0 .. q /\ m - 1 + 1 = m
    BY <1>4
  <2>2. PICK d : d = V[m] - V[m - 1]
    OBVIOUS
  <2>3. d = T[at[m + 1] - 1] - T[at[m] - 1]
    BY <1>7, <2>1, <2>2
  <2> QED
    BY <1>1, <1>3, <2>2, <2>3, WeightIs
<1>11. NoRuns(x)
  <2>1. ASSUME NEW m \in 1 .. Len(x) PROVE x[m].kind \in {"label", "instruction", "data"}
    <3>1. x[m].kind \in {"label", "org", "instruction", "data"}
      BY <1>1, CoveredIs
    <3> QED
      BY <3>1
  <2> QED
    BY <1>10, <2>1 DEF NoRuns
<1>12. PICK U : Weighs(x, U)
  BY <1>1, <1>2, <1>10, Weighed
<1>13. ASSUME NEW m \in 1 .. Len(x) PROVE U[m] - U[m - 1] = Weight(x[m])
  <2>1. m \in 0 .. Len(x) /\ m - 1 \in 0 .. Len(x)
    BY <1>1
  <2>2. U[m - 1] \in Int /\ U[m] = U[m - 1] + Weight(x[m])
    BY <1>12, <2>1 DEF Weighs
  <2> QED
    BY <1>10, <2>2
<1>14. ASSUME NEW m \in 1 .. Len(x)
       PROVE  /\ Stretched(x[m]) => U[m] - U[m - 1] > V[m] - V[m - 1]
              /\ Shrunk(x[m]) => U[m] - U[m - 1] < V[m] - V[m - 1]
              /\ ~Stretched(x[m]) /\ ~Shrunk(x[m]) => U[m] - U[m - 1] = V[m] - V[m - 1]
  BY <1>10, <1>13
<1>15. Compared(x, U, V)
  BY <1>14 DEF Compared
<1> QED
  BY <1>3, <1>8, <1>9, <1>11, <1>12, <1>15

(* The weights of a text that becomes a bank. *)
LEMMA BankWeighs ==
    ASSUME MarkingInv, TextKept, Located, PackInv, stage = "packed", banks = 1,
           NEW P, NEW L, NEW x, NEW at, Written(P, L, x, at), NoRuns(x), NEW U, Weighs(x, U)
    PROVE  /\ U[Len(x)] = End
           /\ \A m \in 1 .. Len(x) : x[m].kind = "instruction" => ~Asm!IsRefused(x[m])
<1>1. PICK p, w : p = Asm!Resolve(source) /\ w = Asm!Assemble(source, p)
  OBVIOUS
<1>2. p.failed # TRUE /\ w.failed # TRUE /\ output = w.bytes /\ Len(output) = BankSize[banks]
  BY <1>1 DEF PackInv, BytesAre, Ends, IsBank
<1>3. source = Program(x) /\ x \in Seq(Statement) /\ Len(x) \in Nat /\ Marked
  BY WrittenIs DEF Written
<1>4. ResSum(U, x, Len(x), p)
  <2>1. Start \in Int
    BY DEF Weighs
  <2> QED
    BY <1>1, <1>2, <1>3, <2>1, ResolveSums
<1>5. Len(w.bytes) = U[Len(x)] - Start
  BY <1>1, <1>2, <1>3, <1>4, AssembleSums
<1>6. U[Len(x)] \in Int /\ Start \in Int
  <2>1. Len(x) \in 0 .. Len(x)
    BY <1>3
  <2> QED
    BY <2>1 DEF Weighs
<1>7. /\ Bank \in Nat /\ End = 4 * Bank /\ Start = 3 * Bank
  BY <1>3, MarkedIs, Layout
<1>8. Len(output) = Bank
  BY <1>2 DEF Bank
<1>9. U[Len(x)] = End
  BY <1>2, <1>5, <1>6, <1>7, <1>8
<1>10. \A m \in 1 .. Len(x) : x[m].kind = "instruction" => ~Asm!IsRefused(x[m])
  BY <1>4 DEF ResSum, ResSumIs
<1> QED
  BY <1>9, <1>10

(* Where no words were joined a text of the right size has lost nothing. *)
LEMMA SizeIsKept ==
    ASSUME MarkingInv, TextKept, Located, PackInv, stage = "packed", banks = 1,
           NEW P, NEW L, NEW x, NEW at, Written(P, L, x, at),
           \A m \in 1 .. Len(x) : x[m].kind # "org", ~WordsJoined
    PROVE  ~OperandLost /\ ~ByteLost
<1>1. PICK T, U, V : /\ Measures(L, T) /\ T[0] = Start /\ NoRuns(x) /\ Weighs(x, U)
                     /\ V \in [0 .. Len(x) -> Int] /\ V[0] = Start /\ V[Len(x)] = T[Len(L)]
                     /\ Compared(x, U, V)
  BY TextWeighed
<1>2. Text(P, L, form, data) /\ Len(x) \in Nat /\ Marked
  BY WrittenIs
<1>3. PICK n \in Nat : n = Len(x)
  BY <1>2
<1>4. U \in [0 .. n -> Int] /\ V \in [0 .. n -> Int] /\ U[0] = V[0]
  BY <1>1, <1>3 DEF Weighs
<1>5. ASSUME NEW m \in 1 .. n
      PROVE  /\ U[m] - U[m - 1] <= V[m] - V[m - 1]
             /\ Shrunk(x[m]) => U[m] - U[m - 1] # V[m] - V[m - 1]
  <2>1. m \in 1 .. Len(x) /\ ~Stretched(x[m])
    BY <1>3, NothingStretched
  <2>2. m \in 0 .. n /\ m - 1 \in 0 .. n
    OBVIOUS
  <2>3. PICK u \in Int, v \in Int : u = U[m] - U[m - 1] /\ v = V[m] - V[m - 1]
    BY <1>4, <2>2
  <2>4. /\ Shrunk(x[m]) => u < v
        /\ ~Shrunk(x[m]) => u = v
    BY <1>1, <2>1, <2>3 DEF Compared
  <2> QED
    BY <2>3, <2>4
<1>6. U[n] = End /\ \A m \in 1 .. Len(x) : x[m].kind = "instruction" => ~Asm!IsRefused(x[m])
  BY <1>1, <1>3, BankWeighs
<1>7. /\ V[n] \in Int /\ V[n] <= End /\ (ByteLost => V[n] < End)
  BY <1>1, <1>2, <1>3, TextInPlace
<1>8. /\ U[n] <= V[n]
      /\ U[n] = V[n] => \A m \in 1 .. n : U[m] - U[m - 1] = V[m] - V[m - 1]
  BY <1>4, <1>5, GrowTogether
<1>9. End \in Int
  BY <1>2, MarkedIs, Layout
<1>10. U[n] = V[n] /\ ~ByteLost
  BY <1>6, <1>7, <1>8, <1>9
<1>11. \A m \in 1 .. Len(x) : ~Shrunk(x[m])
  BY <1>3, <1>5, <1>8, <1>10
<1>12. ~OperandLost
  BY <1>1, <1>6, <1>11, CodeIsKept
<1> QED
  BY <1>10, <1>12

(* Where words were joined a text that lost nothing is too long. *)
LEMMA JoinedIsTooLong ==
    ASSUME MarkingInv, TextKept, Located, PackInv, stage = "packed", banks = 1,
           NEW P, NEW L, NEW x, NEW at, Written(P, L, x, at),
           \A m \in 1 .. Len(x) : x[m].kind # "org", WordsJoined
    PROVE  OperandLost \/ ByteLost
<1>1. SUFFICES ASSUME ~OperandLost, ~ByteLost PROVE FALSE
  OBVIOUS
<1>2. PICK T, U, V : /\ Measures(L, T) /\ T[0] = Start /\ NoRuns(x) /\ Weighs(x, U)
                     /\ V \in [0 .. Len(x) -> Int] /\ V[0] = Start /\ V[Len(x)] = T[Len(L)]
                     /\ Compared(x, U, V)
  BY TextWeighed
<1>3. Text(P, L, form, data) /\ Len(x) \in Nat /\ Marked
  BY WrittenIs
<1>4. PICK n \in Nat : n = Len(x)
  BY <1>3
<1>5. U \in [0 .. n -> Int] /\ V \in [0 .. n -> Int] /\ U[0] = V[0]
  BY <1>2, <1>4 DEF Weighs
<1>6. ASSUME NEW m \in 1 .. n
      PROVE  /\ V[m] - V[m - 1] <= U[m] - U[m - 1]
             /\ Stretched(x[m]) => V[m] - V[m - 1] # U[m] - U[m - 1]
  <2>1. m \in 1 .. Len(x) /\ ~Shrunk(x[m])
    BY <1>1, <1>4, NothingShrunk
  <2>2. m \in 0 .. n /\ m - 1 \in 0 .. n
    OBVIOUS
  <2>3. PICK u \in Int, v \in Int : u = U[m] - U[m - 1] /\ v = V[m] - V[m - 1]
    BY <1>5, <2>2
  <2>4. /\ Stretched(x[m]) => u > v
        /\ ~Stretched(x[m]) => u = v
    BY <1>2, <2>1, <2>3 DEF Compared
  <2> QED
    BY <2>3, <2>4
<1>7. U[n] = End
  BY <1>2, <1>4, BankWeighs
<1>8. V[n] = End
  BY <1>1, <1>2, <1>3, <1>4, TextInPlace
<1>9. \A m \in 1 .. n : V[m] - V[m - 1] = U[m] - U[m - 1]
  BY <1>5, <1>6, <1>7, <1>8, GrowTogether
<1>10. PICK m \in 1 .. n : Stretched(x[m])
  BY <1>4, JoinedIsStretched
<1> QED
  BY <1>6, <1>9, <1>10

(* So nothing is lost unnoticed.                                            *)
LEMMA PackedIsWhole ==
    ASSUME MarkingInv, TextKept, Located, PackInv
    PROVE  LossIsNoticed
<1>1. SUFFICES ASSUME stage = "packed", banks = 1, ~LabelMoved,
                      ~ \E i \in 2 .. Len(source) : source[i].kind = "org",
                      ~(WordsJoined /\ (OperandLost \/ ByteLost))
               PROVE  output = Rom
  BY DEF LossIsNoticed
<1>2. PICK P, L, x, at : Written(P, L, x, at)
  BY <1>1, MovedIsNamed, TextIsWritten DEF Ends
<1>3. ASSUME NEW m \in 1 .. Len(x) PROVE x[m].kind # "org"
  <2>1. Len(source) = Len(x) + 1 /\ Len(x) \in Nat /\ source[m + 1] = x[m]
    BY <1>2, WrittenIs
  <2>2. m + 1 \in 2 .. Len(source)
    BY <2>1
  <2> QED
    BY <1>1, <2>1, <2>2
<1>4. ~WordsJoined
  BY <1>1, <1>2, <1>3, JoinedIsTooLong
<1>5. ~OperandLost /\ ~ByteLost
  BY <1>1, <1>2, <1>3, <1>4, SizeIsKept
<1>6. ~WordInRun
  <2>1. PICK T, U, V : NoRuns(x)
    BY <1>2, <1>3, TextWeighed
  <2> QED
    BY <1>2, <2>1, WordsAreWritten
<1>7. ~RunsAdjacent
  BY <1>1 DEF RunsAdjacent
<1>8. NoException
  BY <1>1, <1>4, <1>5, <1>6, <1>7 DEF NoException
<1> QED
  BY <1>1, <1>8, OutputIsRom DEF Ends

(* What is lost is noticed, because the bank has the wrong size, unless an  *)
(* .org behind the loss fills the gap, a label was moved, or a word that    *)
(* swallowed its neighbours pays for what is missing: for every ROM of one  *)
(* bank, Program.Assemble and the length check of the package together.     *)
THEOREM LossIsAlwaysNoticed == PackageSpec => []LossIsNoticed
<1>1. MarkingInv /\ TextKept /\ Located /\ PackInv => LossIsNoticed
  BY PackedIsWhole
<1> QED
  BY <1>1, AlwaysPacked, PTL
=============================================================================
