------------------------------ MODULE TextProofs ------------------------------
(***************************************************************************)
(* Proofs about texts, for every listing of statements: what the passes     *)
(* make of one, and what the assembler makes of that.  PackageProofs takes  *)
(* from here what is true of the listing of a ROM.                          *)
(*                                                                          *)
(* The passes and the assembler are folds over statements, and each is      *)
(* followed by an instance of FoldRule.  A text stands for a listing        *)
(* (Chain): every statement of it for some neighbouring statements of the   *)
(* listing, and the three passes keep that.  Resolve and Assemble therefore *)
(* place and spell the statements of the listing (ResHolds, AsmHolds), if   *)
(* the text has no exceptions (Fits).  The last part is without that: what  *)
(* Resolve counts for a statement (Weight) is compared with what the        *)
(* statements take that it stands for.                                      *)
(***************************************************************************)
EXTENDS Package, SequenceTheorems, TLAPS

-----------------------------------------------------------------------------
(* The statements of a listing.                                             *)

LabelStatement == [kind : {"label"}, name : Int, home : Int]
OrgStatement == [kind : {"org"}, value : Int, fill : Int]
CodeStatement ==
    [kind : {"instruction"}, code : DOMAIN Shape, form : Forms \cup {"direct"},
     value : Int, label : Int, home : Int]
NumberItem == [kind : {"number"}, value : Int]
CallItem == [kind : {"call"}, value : Int]
TextItem == [kind : {"string"}, value : Seq(Int)]
Item == NumberItem \cup CallItem \cup TextItem
DataStatement == [kind : {"data"}, width : {1, 2}, items : Seq(Item), home : Int]
Statement == LabelStatement \cup OrgStatement \cup CodeStatement \cup DataStatement

(* The listing as marking leaves it: one item in every statement of data,   *)
(* and in a byte a number.                                                  *)
Lone(s) ==
    \/ s \in LabelStatement \cup CodeStatement
    \/ /\ s \in DataStatement /\ Len(s.items) = 1
       /\ s.items[1] \in NumberItem \cup CallItem
       /\ s.width = 1 => s.items[1] \in NumberItem

Listing(L) == L \in Seq(Statement) /\ \A i \in 1 .. Len(L) : Lone(L[i])

(* An item, and a statement, that stand for the statements i to j - 1 of    *)
(* the listing L.                                                           *)
ItemCovers(L, item, p, q) ==
    \/ q = p + 1 /\ item = L[p].items[1]
    \/ /\ item \in TextItem /\ q = p + Len(item.value) /\ p < q
       /\ \A t \in 1 .. Len(item.value) :
             L[p + t - 1].width = 1 /\ item.value[t] = L[p + t - 1].items[1].value

ItemsCover(L, items, pos, i, j) ==
    /\ pos \in [1 .. Len(items) + 1 -> i .. j]
    /\ pos[1] = i /\ pos[Len(items) + 1] = j
    /\ \A m \in 1 .. Len(items) : ItemCovers(L, items[m], pos[m], pos[m + 1])

OrgCovers(L, s, i, j) ==
    /\ s \in OrgStatement /\ s.value = L[i].home + (j - i)
    /\ \A k \in i .. j - 1 : Asm!IsRepeatable(L[k]) /\ Asm!LowByte(L[k]) = s.fill

DataCovers(L, s, i, j) ==
    /\ s \in DataStatement /\ s.home = L[i].home /\ s.width = L[i].width
    /\ \A k \in i .. j - 1 : L[k].kind = "data"
    /\ \A k \in i + 1 .. j - 1 : L[k].width = 1
    /\ \E pos : ItemsCover(L, s.items, pos, i, j)

Covers(L, s, i, j) ==
    \/ j = i + 1 /\ s = L[i]
    \/ OrgCovers(L, s, i, j)
    \/ DataCovers(L, s, i, j)

(* The statements x stand for those of L in front of the end-th.            *)
Chain(L, x, at, end) ==
    /\ x \in Seq(Statement)
    /\ at \in [1 .. Len(x) + 1 -> 1 .. end]
    /\ at[1] = 1 /\ at[Len(x) + 1] = end
    /\ \A m, n \in 1 .. Len(x) + 1 : m < n => at[m] < at[n]
    /\ \A m \in 1 .. Len(x) : Covers(L, x[m], at[m], at[m + 1])

(* One more statement, that stands for those from e to f.                   *)
LEMMA ChainAppends ==
    ASSUME NEW L, NEW x, NEW at, NEW e \in Nat, NEW f \in Nat, NEW s \in Statement,
           Chain(L, x, at, e), e < f, Covers(L, s, e, f)
    PROVE  Chain(L, Append(x, s), [m \in 1 .. Len(x) + 2 |-> IF m = Len(x) + 2 THEN f ELSE at[m]], f)
<1> DEFINE y == Append(x, s)
           bt == [m \in 1 .. Len(x) + 2 |-> IF m = Len(x) + 2 THEN f ELSE at[m]]
<1>1. x \in Seq(Statement) /\ Len(x) \in Nat /\ at \in [1 .. Len(x) + 1 -> 1 .. e]
      /\ at[1] = 1 /\ at[Len(x) + 1] = e
  BY DEF Chain
<1>2. y \in Seq(Statement) /\ Len(y) = Len(x) + 1 /\ y[Len(x) + 1] = s
      /\ \A m \in 1 .. Len(x) : y[m] = x[m]
  BY <1>1
<1>3. \A m \in 1 .. Len(x) + 1 : bt[m] = at[m] /\ at[m] \in 1 .. f
  BY <1>1
<1>4. bt[Len(x) + 2] = f /\ f \in 1 .. f
  BY <1>1
<1>5. bt \in [1 .. Len(y) + 1 -> 1 .. f]
  BY <1>1, <1>2, <1>3, <1>4
<1>6. ASSUME NEW m \in 1 .. Len(y) PROVE Covers(L, y[m], bt[m], bt[m + 1])
  <2>1. CASE m \in 1 .. Len(x)
    <3>1. Covers(L, x[m], at[m], at[m + 1])
      BY <2>1 DEF Chain
    <3>2. bt[m] = at[m] /\ bt[m + 1] = at[m + 1] /\ y[m] = x[m]
      BY <1>1, <1>2, <1>3, <2>1
    <3> QED
      BY <3>1, <3>2
  <2>2. CASE m = Len(x) + 1
    <3>1. bt[m] = e /\ bt[m + 1] = f /\ y[m] = s
      BY <1>1, <1>2, <1>3, <1>4, <2>2
    <3> QED
      BY <3>1
  <2> QED
    BY <1>1, <1>2, <2>1, <2>2
<1>10. ASSUME NEW m \in 1 .. Len(y) + 1, NEW n \in 1 .. Len(y) + 1, m < n PROVE bt[m] < bt[n]
  <2>1. m \in 1 .. Len(x) + 1 /\ bt[m] = at[m] /\ at[m] \in 1 .. e
    BY <1>1, <1>2, <1>3, <1>10
  <2>2. CASE n = Len(x) + 2
    BY <1>4, <2>1, <2>2
  <2>3. CASE n # Len(x) + 2
    <3>1. n \in 1 .. Len(x) + 1 /\ bt[n] = at[n]
      BY <1>1, <1>2, <1>3, <2>3
    <3>2. at[m] < at[n]
      BY <1>10, <2>1, <3>1 DEF Chain
    <3> QED
      BY <2>1, <3>1, <3>2
  <2> QED
    BY <2>2, <2>3
<1>7. bt[1] = 1 /\ bt[Len(y) + 1] = f
  BY <1>1, <1>2, <1>3, <1>4
<1> HIDE DEF bt, y
<1>8. Chain(L, y, bt, f)
  BY <1>2, <1>5, <1>6, <1>7, <1>10 DEF Chain
<1> QED
  BY <1>8 DEF bt, y

(* Without its last n statements a text stands for less of the listing.     *)
LEMMA ChainCut ==
    ASSUME NEW L, NEW x, NEW at, NEW e \in Nat, Chain(L, x, at, e), NEW n \in 0 .. Len(x)
    PROVE  /\ Asm!Without(n, x) \in Seq(Statement) /\ Len(Asm!Without(n, x)) = Len(x) - n
           /\ \A m \in 1 .. Len(x) - n : Asm!Without(n, x)[m] = x[m]
           /\ at[Len(x) - n + 1] \in 1 .. e
           /\ Chain(L, Asm!Without(n, x), [m \in 1 .. Len(x) - n + 1 |-> at[m]],
                    at[Len(x) - n + 1])
<1> DEFINE y == Asm!Without(n, x)
           bt == [m \in 1 .. Len(x) - n + 1 |-> at[m]]
           f == at[Len(x) - n + 1]
<1>1. x \in Seq(Statement) /\ Len(x) \in Nat /\ at \in [1 .. Len(x) + 1 -> 1 .. e]
      /\ at[1] = 1 /\ at[Len(x) + 1] = e
  BY DEF Chain
<1>2. y \in Seq(Statement) /\ Len(y) = Len(x) - n /\ \A m \in 1 .. Len(x) - n : y[m] = x[m]
  BY <1>1 DEF Asm!Without
<1>3. Len(x) - n + 1 \in 1 .. Len(x) + 1 /\ f \in 1 .. e
  BY <1>1
<1>4. /\ \A m \in 1 .. Len(x) : Covers(L, x[m], at[m], at[m + 1])
      /\ \A m, k \in 1 .. Len(x) + 1 : m < k => at[m] < at[k]
  BY DEF Chain
<1>5. \A m \in 1 .. Len(x) - n + 1 : at[m] \in 1 .. f
  <2> TAKE m \in 1 .. Len(x) - n + 1
  <2>1. m \in 1 .. Len(x) + 1 /\ (m = Len(x) - n + 1 \/ m < Len(x) - n + 1) /\ at[m] \in 1 .. e
    BY <1>1
  <2>2. m < Len(x) - n + 1 => at[m] < f
    BY <1>3, <1>4, <2>1
  <2> QED
    BY <1>3, <2>1, <2>2
<1>6. bt \in [1 .. Len(y) + 1 -> 1 .. f]
  BY <1>1, <1>2, <1>3, <1>5
<1>7. /\ \A m \in 1 .. Len(y) : Covers(L, y[m], bt[m], bt[m + 1])
      /\ \A m, k \in 1 .. Len(y) + 1 : m < k => bt[m] < bt[k]
  BY <1>1, <1>2, <1>4
<1>8. bt[1] = 1 /\ bt[Len(y) + 1] = f
  BY <1>1, <1>2, <1>3
<1> HIDE DEF bt, y, f
<1>9. Chain(L, y, bt, f)
  BY <1>2, <1>6, <1>7, <1>8 DEF Chain
<1> QED
  BY <1>2, <1>3, <1>9 DEF bt, y, f

(* Another statement at the end, and one instead of the last n.             *)
LEMMA Appended ==
    ASSUME NEW L, NEW x, NEW at, NEW e \in Nat, NEW f \in Nat, NEW s \in Statement,
           Chain(L, x, at, e), e < f, Covers(L, s, e, f)
    PROVE  \E bt : /\ Chain(L, Append(x, s), bt, f)
                   /\ \A m \in 1 .. Len(x) + 1 : bt[m] = at[m]
                   /\ bt[Len(x) + 2] = f
<1> DEFINE bt == [m \in 1 .. Len(x) + 2 |-> IF m = Len(x) + 2 THEN f ELSE at[m]]
<1>1. Chain(L, Append(x, s), bt, f)
  BY ChainAppends
<1>2. Len(x) \in Nat
  BY DEF Chain
<1>3. bt[Len(x) + 2] = f /\ \A m \in 1 .. Len(x) + 1 : bt[m] = at[m]
  BY <1>2
<1> QED
  BY <1>1, <1>3

LEMMA Replaced ==
    ASSUME NEW L, NEW x, NEW at, NEW e \in Nat, NEW n \in 1 .. Len(x), NEW s \in Statement,
           Chain(L, x, at, e), Covers(L, s, at[Len(x) - n + 1], e)
    PROVE  \E bt : /\ Chain(L, Append(Asm!Without(n, x), s), bt, e)
                   /\ \A m \in 1 .. Len(x) - n + 1 : bt[m] = at[m]
                   /\ bt[Len(x) - n + 2] = e
<1> DEFINE y == Asm!Without(n, x)
           ct == [m \in 1 .. Len(x) - n + 1 |-> at[m]]
           f == at[Len(x) - n + 1]
<1>1. Len(x) \in Nat /\ at[Len(x) + 1] = e /\ n \in 0 .. Len(x)
  BY DEF Chain
<1>2. Len(y) = Len(x) - n /\ f \in 1 .. e /\ Chain(L, y, ct, f)
  BY <1>1, ChainCut
<1>3. f < e
  <2>1. Len(x) - n + 1 \in 1 .. Len(x) + 1 /\ Len(x) + 1 \in 1 .. Len(x) + 1
        /\ Len(x) - n + 1 < Len(x) + 1
    BY <1>1
  <2> QED
    BY <1>1, <2>1 DEF Chain
<1>4. \A m \in 1 .. Len(x) - n + 1 : ct[m] = at[m]
  OBVIOUS
<1>5. Covers(L, s, f, e)
  OBVIOUS
<1> HIDE DEF y, ct, f
<1>6. PICK bt : /\ Chain(L, Append(y, s), bt, e)
                /\ \A m \in 1 .. Len(y) + 1 : bt[m] = ct[m]
                /\ bt[Len(y) + 2] = e
  <2>1. f \in Nat
    BY <1>2
  <2> QED
    BY <1>2, <1>3, <1>5, <2>1, Appended
<1>7. \A m \in 1 .. Len(x) - n + 1 : bt[m] = at[m]
  BY <1>2, <1>4, <1>6
<1>8. bt[Len(x) - n + 2] = e
  BY <1>1, <1>2, <1>6
<1> QED
  BY <1>6, <1>7, <1>8 DEF y

-----------------------------------------------------------------------------
(* identifyOrgs.                                                            *)

(* Data that is still as it was listed.                                     *)
DataAsListed(L, x, at) ==
    \A m \in 1 .. Len(x) :
        x[m].kind = "data" => x[m] = L[at[m]] /\ at[m + 1] = at[m] + 1

OrgState == [list : Seq(Statement), repeatCount : Nat, byte : Int]

(* The last statements of the list are those of L, and repeat the byte.     *)
RunEnds(L, oi, at, e) ==
    /\ \A t \in 0 .. oi.repeatCount : at[Len(oi.list) + 1 - t] = e - t
    /\ \A t \in 1 .. oi.repeatCount :
          /\ oi.list[Len(oi.list) + 1 - t] = L[e - t]
          /\ Asm!IsRepeatable(L[e - t]) /\ Asm!LowByte(L[e - t]) = oi.byte

(* What the first pass holds: a run that is counted and not yet an .org.    *)
OrgsFound(L, oi, at, e) ==
    /\ oi \in OrgState /\ oi.repeatCount < Len(oi.list)
    /\ Chain(L, oi.list, at, e) /\ DataAsListed(L, oi.list, at) /\ RunEnds(L, oi, at, e)

OrgInv(L, seq, k, oi) ==
    /\ oi.list[Len(oi.list)] = L[k + 1]
    /\ \E at : OrgsFound(L, oi, at, k + 2)

OrgStep(L, oi, s) == Asm!GotStatement(oi, s)

Orgs == INSTANCE FoldRule WITH Op <- OrgStep, Holds <- OrgInv

(* A stopped run is an .org, or stays.                                      *)
LEMMA StopRunKeeps ==
    ASSUME NEW L, Listing(L), NEW oi, NEW at, NEW e \in 1 .. Len(L) + 1, OrgsFound(L, oi, at, e)
    PROVE  \E bt : Chain(L, Asm!StopRun(oi), bt, e) /\ DataAsListed(L, Asm!StopRun(oi), bt)
<1> DEFINE x == oi.list
           n == oi.repeatCount
           first == x[Len(x) - n + 1]
           org == Asm!Org(first.home + n, oi.byte)
<1>1. CASE ~ (n > OrgMinRepeatAmt)
  <2>1. Asm!StopRun(oi) = x
    BY <1>1 DEF Asm!StopRun
  <2> QED
    BY <2>1 DEF OrgsFound
<1>2. CASE n > OrgMinRepeatAmt
  <2>1. Asm!StopRun(oi) = Append(Asm!Without(n, x), org)
    BY <1>2 DEF Asm!StopRun
  <2>2. x \in Seq(Statement) /\ n \in 1 .. Len(x) /\ Len(x) \in Nat /\ e \in Nat /\ oi.byte \in Int
    BY <1>2, PackageAssumption DEF OrgsFound, OrgState
  <2>3. at[Len(x) - n + 1] = e - n /\ first = L[e - n]
    <3>1. n \in 0 .. n /\ n \in 1 .. n /\ Len(x) + 1 - n = Len(x) - n + 1
      BY <2>2
    <3> QED
      BY <3>1 DEF OrgsFound, RunEnds
  <2>4. e - n \in 1 .. Len(L)
    <3>1. Len(x) - n + 1 \in 1 .. Len(x) + 1 /\ Len(L) \in Nat
      BY <2>2 DEF Listing
    <3>2. at[Len(x) - n + 1] \in 1 .. e
      BY <3>1 DEF OrgsFound, Chain
    <3> QED
      BY <2>2, <2>3, <3>1, <3>2
  <2>5. \A t \in 1 .. n : Asm!IsRepeatable(L[e - t]) /\ Asm!LowByte(L[e - t]) = oi.byte
    BY DEF OrgsFound, RunEnds
  <2>6. first.home \in Int
    <3>1. Lone(L[e - n]) /\ Asm!IsRepeatable(L[e - n])
      BY <2>2, <2>4, <2>5 DEF Listing
    <3> QED
      BY <2>3, <3>1 DEF Lone, LabelStatement, CodeStatement, DataStatement
  <2>7. org \in OrgStatement /\ org.value = first.home + n /\ org.fill = oi.byte
    BY <2>2, <2>6 DEF Asm!Org, OrgStatement
  <2>8. OrgCovers(L, org, e - n, e)
    <3>1. \A k \in e - n .. e - 1 : Asm!IsRepeatable(L[k]) /\ Asm!LowByte(L[k]) = oi.byte
      <4> TAKE k \in e - n .. e - 1
      <4>1. e - k \in 1 .. n /\ e - (e - k) = k
        BY <2>2
      <4> QED
        BY <2>5, <4>1
    <3>2. e - (e - n) = n
      BY <2>2
    <3> QED
      BY <2>3, <2>7, <3>1, <3>2 DEF OrgCovers
  <2> HIDE DEF org
  <2>9. PICK bt : /\ Chain(L, Append(Asm!Without(n, x), org), bt, e)
                  /\ \A m \in 1 .. Len(x) - n + 1 : bt[m] = at[m]
                  /\ bt[Len(x) - n + 2] = e
    <3>1. Covers(L, org, at[Len(x) - n + 1], e) /\ org \in Statement /\ Chain(L, x, at, e)
      BY <2>3, <2>7, <2>8 DEF Covers, Statement, OrgsFound
    <3> HIDE DEF x, n
    <3> QED
      BY <2>2, <3>1, Replaced
  <2>10. DataAsListed(L, Append(Asm!Without(n, x), org), bt)
    <3> DEFINE y == Asm!Without(n, x)
    <3>1. Len(y) = Len(x) - n /\ (\A m \in 1 .. Len(x) - n : y[m] = x[m]) /\ y \in Seq(Statement)
      <4>1. n \in 0 .. Len(x) /\ Chain(L, x, at, e)
        BY <2>2 DEF OrgsFound
      <4> HIDE DEF x, n
      <4> QED
        BY <2>2, <4>1, ChainCut
    <3>2. DataAsListed(L, x, at)
      BY DEF OrgsFound
    <3>3. org.kind # "data"
      BY <2>7 DEF OrgStatement
    <3> HIDE DEF y, x, n
    <3>4. ASSUME NEW m \in 1 .. Len(Append(y, org)), Append(y, org)[m].kind = "data"
          PROVE  Append(y, org)[m] = L[bt[m]] /\ bt[m + 1] = bt[m] + 1
      <4>1. m \in 1 .. Len(x) - n /\ m \in 1 .. Len(x)
        BY <2>2, <3>1, <3>3, <3>4
      <4>2. Append(y, org)[m] = x[m]
        BY <3>1, <4>1
      <4>3. bt[m] = at[m] /\ bt[m + 1] = at[m + 1]
        BY <2>2, <2>9, <4>1
      <4> QED
        BY <3>2, <3>4, <4>1, <4>2, <4>3 DEF DataAsListed
    <3> QED
      BY <3>4 DEF DataAsListed, y
  <2> QED
    BY <2>1, <2>9, <2>10
<1> QED
  BY <1>1, <1>2

(* The next statement of L is put behind a list that is no run.             *)
LEMMA ListedAppended ==
    ASSUME NEW L, Listing(L), NEW x, NEW at, NEW e \in 1 .. Len(L), Chain(L, x, at, e),
           DataAsListed(L, x, at)
    PROVE  \E bt : /\ Chain(L, Append(x, L[e]), bt, e + 1)
                   /\ DataAsListed(L, Append(x, L[e]), bt)
                   /\ \A m \in 1 .. Len(x) + 1 : bt[m] = at[m]
                   /\ bt[Len(x) + 2] = e + 1
<1>1. L[e] \in Statement /\ e \in Nat /\ e + 1 \in Nat /\ Covers(L, L[e], e, e + 1)
  BY DEF Listing, Covers
<1>2. PICK bt : /\ Chain(L, Append(x, L[e]), bt, e + 1)
                /\ \A m \in 1 .. Len(x) + 1 : bt[m] = at[m]
                /\ bt[Len(x) + 2] = e + 1
  <2>1. e < e + 1
    BY <1>1
  <2> QED
    BY <1>1, <2>1, Appended
<1>3. x \in Seq(Statement) /\ at[Len(x) + 1] = e
  BY DEF Chain
<1> DEFINE y == Append(x, L[e])
<1>4. Len(y) = Len(x) + 1 /\ y[Len(x) + 1] = L[e] /\ \A m \in 1 .. Len(x) : y[m] = x[m]
  BY <1>1, <1>3
<1> HIDE DEF y
<1>5. ASSUME NEW m \in 1 .. Len(y), y[m].kind = "data" PROVE y[m] = L[bt[m]] /\ bt[m + 1] = bt[m] + 1
  <2>1. CASE m = Len(x) + 1
    <3>1. bt[m] = e /\ bt[m + 1] = e + 1
      BY <1>2, <1>3, <2>1
    <3> QED
      BY <1>4, <2>1, <3>1
  <2>2. CASE m \in 1 .. Len(x)
    <3>1. bt[m] = at[m] /\ bt[m + 1] = at[m + 1]
      BY <1>2, <1>3, <2>2
    <3> QED
      BY <1>4, <1>5, <2>2, <3>1 DEF DataAsListed
  <2> QED
    BY <1>3, <1>4, <2>1, <2>2
<1> QED
  BY <1>2, <1>5 DEF DataAsListed, y

(* One statement of the pass.                                               *)
LEMMA GotStatementKeeps ==
    ASSUME NEW L, Listing(L), NEW k \in 1 .. Len(L) - 1, NEW oi, OrgInv(L, Tail(L), k - 1, oi)
    PROVE  OrgInv(L, Tail(L), k, Asm!GotStatement(oi, L[k + 1]))
<1>1. PICK at : OrgsFound(L, oi, at, k + 1)
  <2>1. (k - 1) + 2 = k + 1
    OBVIOUS
  <2> QED
    BY <2>1 DEF OrgInv
<1> DEFINE e == k + 1
           s == L[e]
<1>2. L \in Seq(Statement) /\ Len(L) \in Nat /\ e \in 1 .. Len(L) /\ s \in Statement /\ e + 1 = k + 2
      /\ e \in Nat
  BY DEF Listing
<1>3. oi \in OrgState /\ oi.list \in Seq(Statement) /\ oi.repeatCount \in Nat /\ oi.byte \in Int
      /\ oi.repeatCount < Len(oi.list) /\ Len(oi.list) \in Nat
  BY <1>1 DEF OrgsFound, OrgState
<1>4. PICK ct : Chain(L, Asm!StopRun(oi), ct, e) /\ DataAsListed(L, Asm!StopRun(oi), ct)
  <2>1. e \in 1 .. Len(L) + 1 /\ OrgsFound(L, oi, at, e)
    BY <1>1, <1>2
  <2> HIDE DEF e
  <2> QED
    BY <2>1, StopRunKeeps
<1> DEFINE y == Append(Asm!StopRun(oi), s)
<1>5. PICK bt : /\ Chain(L, y, bt, e + 1) /\ DataAsListed(L, y, bt)
                /\ bt[Len(y)] = e /\ bt[Len(y) + 1] = e + 1
                /\ y \in Seq(Statement) /\ Len(y) \in Nat \ {0} /\ y[Len(y)] = s
  <2>1. PICK bt : /\ Chain(L, Append(Asm!StopRun(oi), L[e]), bt, e + 1)
                  /\ DataAsListed(L, Append(Asm!StopRun(oi), L[e]), bt)
                  /\ \A m \in 1 .. Len(Asm!StopRun(oi)) + 1 : bt[m] = ct[m]
                  /\ bt[Len(Asm!StopRun(oi)) + 2] = e + 1
    <3> HIDE DEF e
    <3> QED
      BY <1>2, <1>4, ListedAppended
  <2>2. Asm!StopRun(oi) \in Seq(Statement) /\ ct[Len(Asm!StopRun(oi)) + 1] = e
    BY <1>4 DEF Chain
  <2>3. Len(y) = Len(Asm!StopRun(oi)) + 1 /\ y[Len(y)] = s /\ y \in Seq(Statement)
    BY <1>2, <2>2
  <2>4. bt[Len(y)] = e
    BY <2>1, <2>2, <2>3
  <2>5. bt[Len(y) + 1] = e + 1 /\ Len(y) \in Nat \ {0}
    BY <2>1, <2>2, <2>3
  <2> QED
    BY <2>1, <2>3, <2>4, <2>5
<1>6. CASE ~Asm!IsRepeatable(s)
  <2> DEFINE o == [oi EXCEPT !.list = y, !.repeatCount = 0]
  <2>1. Asm!GotStatement(oi, s) = o
    BY <1>6 DEF Asm!GotStatement
  <2> HIDE DEF y
  <2>2. o \in OrgState /\ o.list = y /\ o.repeatCount = 0
    BY <1>3, <1>5 DEF OrgState
  <2> HIDE DEF o
  <2>3. RunEnds(L, o, bt, e + 1)
    <3>1. \A t \in 0 .. 0 : bt[Len(y) + 1 - t] = e + 1 - t
      BY <1>5
    <3> QED
      BY <2>2, <3>1 DEF RunEnds
  <2>4. OrgsFound(L, o, bt, e + 1)
    BY <1>5, <2>2, <2>3 DEF OrgsFound
  <2> QED
    BY <1>2, <1>5, <2>1, <2>2, <2>4 DEF OrgInv
<1>7. CASE Asm!IsRepeatable(s) /\ oi.repeatCount > 0 /\ Asm!LowByte(s) = oi.byte
  <2>1. PICK x, n, b : oi = [list |-> x, repeatCount |-> n, byte |-> b]
    BY <1>3 DEF OrgState
  <2>2. x = oi.list /\ n = oi.repeatCount /\ b = oi.byte
    BY <2>1
  <2>3. x \in Seq(Statement) /\ n \in Nat /\ n < Len(x) /\ Len(x) \in Nat /\ b \in Int
    BY <1>3, <2>2
  <2>4. PICK z : z = Append(x, s)
    OBVIOUS
  <2>5. z \in Seq(Statement) /\ Len(z) = Len(x) + 1 /\ z[Len(x) + 1] = s
        /\ \A m \in 1 .. Len(x) : z[m] = x[m]
    BY <1>2, <2>3, <2>4
  <2>6. PICK o : o = [list |-> z, repeatCount |-> n + 1, byte |-> b]
    OBVIOUS
  <2>7. Asm!GotStatement(oi, s) = o
    <3>1. Asm!GotStatement(oi, s) = [oi EXCEPT !.list = Append(@, s), !.repeatCount = @ + 1]
      BY <1>7 DEF Asm!GotStatement
    <3> QED
      BY <2>1, <2>4, <2>6, <3>1
  <2>8. o \in OrgState /\ o.list = z /\ o.repeatCount = n + 1 /\ o.byte = b
    <3>1. n + 1 \in Nat
      BY <2>3
    <3> QED
      BY <2>3, <2>5, <2>6, <3>1 DEF OrgState
  <2>9. PICK dt : /\ Chain(L, z, dt, e + 1) /\ DataAsListed(L, z, dt)
                  /\ \A m \in 1 .. Len(x) + 1 : dt[m] = at[m]
                  /\ dt[Len(x) + 2] = e + 1
    <3>1. Chain(L, x, at, e) /\ DataAsListed(L, x, at) /\ z = Append(x, L[e])
      BY <1>1, <2>2, <2>4 DEF OrgsFound
    <3> HIDE DEF e
    <3> QED
      BY <1>2, <3>1, ListedAppended
  <2>10. /\ \A t \in 0 .. n : at[Len(x) + 1 - t] = e - t
         /\ \A t \in 1 .. n :
               /\ x[Len(x) + 1 - t] = L[e - t]
               /\ Asm!IsRepeatable(L[e - t]) /\ Asm!LowByte(L[e - t]) = b
    BY <1>1, <2>2 DEF OrgsFound, RunEnds
  <2>11. ASSUME NEW t \in 0 .. n + 1 PROVE dt[Len(z) + 1 - t] = e + 1 - t
    <3>1. CASE t = 0
      <4>1. Len(z) + 1 - t = Len(x) + 2
        BY <2>3, <2>5, <3>1
      <4> QED
        BY <1>2, <2>9, <3>1, <4>1
    <3>2. CASE t # 0
      <4>1. t - 1 \in 0 .. n /\ Len(x) + 1 - (t - 1) \in 1 .. Len(x) + 1
        BY <2>3, <3>2
      <4>2. Len(z) + 1 - t = Len(x) + 1 - (t - 1) /\ e - (t - 1) = e + 1 - t
        BY <1>2, <2>3, <2>5
      <4> QED
        BY <2>9, <2>10, <4>1, <4>2
    <3> QED
      BY <3>1, <3>2
  <2>12. ASSUME NEW t \in 1 .. n + 1
         PROVE  /\ z[Len(z) + 1 - t] = L[e + 1 - t]
                /\ Asm!IsRepeatable(L[e + 1 - t]) /\ Asm!LowByte(L[e + 1 - t]) = b
    <3>1. CASE t = 1
      <4>1. Len(z) + 1 - t = Len(x) + 1 /\ e + 1 - t = e
        BY <1>2, <2>3, <2>5, <3>1
      <4> QED
        BY <1>7, <2>2, <2>5, <4>1
    <3>2. CASE t # 1
      <4>1. t - 1 \in 1 .. n /\ Len(x) + 1 - (t - 1) \in 1 .. Len(x)
        BY <2>3, <3>2
      <4>2. Len(z) + 1 - t = Len(x) + 1 - (t - 1) /\ e - (t - 1) = e + 1 - t
        BY <1>2, <2>3, <2>5
      <4> QED
        BY <2>5, <2>10, <4>1, <4>2
    <3> QED
      BY <3>1, <3>2
  <2> HIDE DEF e, s
  <2>13. RunEnds(L, o, dt, e + 1)
    <3>1. \A t \in 0 .. o.repeatCount : dt[Len(o.list) + 1 - t] = (e + 1) - t
      BY <1>2, <2>8, <2>11
    <3>2. \A t \in 1 .. o.repeatCount : e + 1 - t = (e + 1) - t
      BY <1>2, <2>8
    <3>3. \A t \in 1 .. o.repeatCount :
             /\ o.list[Len(o.list) + 1 - t] = L[(e + 1) - t]
             /\ Asm!IsRepeatable(L[(e + 1) - t]) /\ Asm!LowByte(L[(e + 1) - t]) = o.byte
      BY <2>8, <2>12, <3>2
    <3> QED
      BY <3>1, <3>3, Zenon DEF RunEnds
  <2>14. OrgsFound(L, o, dt, e + 1)
    <3>1. o.repeatCount < Len(o.list)
      BY <2>3, <2>5, <2>8
    <3> QED
      BY <2>8, <2>9, <2>13, <3>1 DEF OrgsFound
  <2>15. o.list[Len(o.list)] = L[k + 1]
    BY <2>5, <2>8 DEF e, s
  <2> QED
    BY <1>2, <2>7, <2>14, <2>15 DEF OrgInv, e, s
<1>8. CASE Asm!IsRepeatable(s) /\ ~(oi.repeatCount > 0 /\ Asm!LowByte(s) = oi.byte)
  <2> DEFINE o == [list |-> y, repeatCount |-> 1, byte |-> Asm!LowByte(s)]
  <2>1. Asm!GotStatement(oi, s) = o
    BY <1>8 DEF Asm!GotStatement
  <2>2. Asm!LowByte(s) \in Int
    <3>1. s.items[1].value \in Int
      <4>1. Lone(s) /\ s.kind = "data"
        BY <1>2, <1>8 DEF Listing, Asm!IsRepeatable
      <4> QED
        BY <4>1 DEF Lone, LabelStatement, CodeStatement, DataStatement, NumberItem, CallItem
    <3> QED
      BY <3>1, PackageAssumption DEF Asm!LowByte
  <2>3. 1 < Len(y)
    <3>1. Len(Asm!StopRun(oi)) # 0
      <4>1. 1 \in 1 .. 1 /\ e # 1
        BY <1>2
      <4>2. Len(Asm!StopRun(oi)) = 0 => ct[1] = e
        BY <1>4 DEF Chain
      <4> QED
        BY <1>4, <4>1, <4>2 DEF Chain
    <3>2. Asm!StopRun(oi) \in Seq(Statement)
      BY <1>4 DEF Chain
    <3> QED
      BY <1>2, <3>1, <3>2
  <2> HIDE DEF y
  <2>4. o \in OrgState /\ o.list = y /\ o.repeatCount = 1 /\ o.byte = Asm!LowByte(s)
    BY <1>5, <2>2 DEF OrgState
  <2> HIDE DEF o
  <2>5. RunEnds(L, o, bt, e + 1)
    <3>1. ASSUME NEW t \in 0 .. 1 PROVE bt[Len(y) + 1 - t] = e + 1 - t
      <4>1. t = 0 \/ t = 1
        OBVIOUS
      <4> QED
        BY <1>2, <1>5, <4>1
    <3>2. ASSUME NEW t \in 1 .. 1
          PROVE  y[Len(y) + 1 - t] = L[e + 1 - t] /\ L[e + 1 - t] = s
      <4>1. t = 1 /\ Len(y) + 1 - t = Len(y) /\ e + 1 - t = e
        BY <1>2, <1>5
      <4> QED
        BY <1>5, <4>1
    <3> QED
      BY <1>8, <2>4, <3>1, <3>2 DEF RunEnds
  <2>6. OrgsFound(L, o, bt, e + 1)
    BY <1>5, <2>3, <2>4, <2>5 DEF OrgsFound
  <2> QED
    BY <1>2, <1>5, <2>1, <2>4, <2>6 DEF OrgInv
<1> QED
  BY <1>6, <1>7, <1>8

(* The first pass writes a text that stands for the whole listing.          *)
LEMMA IdentifyOrgsKeeps ==
    ASSUME NEW L, Listing(L), Len(L) > 0
    PROVE  \E at : /\ Chain(L, Asm!IdentifyOrgs(L), at, Len(L) + 1)
                   /\ DataAsListed(L, Asm!IdentifyOrgs(L), at)
                   /\ Last(Asm!IdentifyOrgs(L)) = L[Len(L)]
<1>1. L \in Seq(Statement) /\ Len(L) \in Nat \ {0} /\ \A i \in 1 .. Len(L) : L[i] \in Statement
  BY DEF Listing
<1>2. CASE Len(L) < OrgMinRepeatAmt
  <2>1. Asm!IdentifyOrgs(L) = L
    BY <1>2 DEF Asm!IdentifyOrgs
  <2> DEFINE at == [m \in 1 .. Len(L) + 1 |-> m]
  <2>2. Chain(L, L, at, Len(L) + 1)
    <3>1. \A m \in 1 .. Len(L) : at[m] = m /\ at[m + 1] = m + 1 /\ Covers(L, L[m], m, m + 1)
      BY <1>1 DEF Covers
    <3>2. at \in [1 .. Len(L) + 1 -> 1 .. Len(L) + 1] /\ at[1] = 1 /\ at[Len(L) + 1] = Len(L) + 1
      BY <1>1
    <3>3. \A m, n \in 1 .. Len(L) + 1 : m < n => at[m] < at[n]
      OBVIOUS
    <3> HIDE DEF at
    <3> QED
      BY <1>1, <3>1, <3>2, <3>3 DEF Chain
  <2>3. DataAsListed(L, L, at)
    BY <1>1 DEF DataAsListed
  <2>4. Last(L) = L[Len(L)]
    BY DEF Last
  <2> QED
    BY <2>1, <2>2, <2>3, <2>4
<1>3. CASE ~ (Len(L) < OrgMinRepeatAmt)
  <2> DEFINE base == [list |-> <<Head(L)>>, repeatCount |-> 0, byte |-> 0]
             n == Len(L) - 1
  <2>1. n \in Nat /\ DOMAIN Tail(L) = 1 .. n /\ \A k \in 1 .. n : Tail(L)[k] = L[k + 1]
    BY <1>1
  <2>2. OrgInv(L, Tail(L), 0, base)
    <3> DEFINE x == <<L[1]>>
               at == [m \in 1 .. 2 |-> m]
    <3>1. Head(L) = L[1] /\ L[1] \in Statement /\ Covers(L, L[1], 1, 2)
      BY <1>1 DEF Covers
    <3>2. x \in Seq(Statement) /\ Len(x) = 1 /\ x[1] = L[1]
      BY <3>1
    <3> HIDE DEF x
    <3>3. Chain(L, x, at, 2)
      <4>1. \A m \in 1 .. Len(x) : Covers(L, x[m], at[m], at[m + 1])
        BY <3>1, <3>2
      <4> QED
        BY <3>2, <4>1 DEF Chain
    <3>4. DataAsListed(L, x, at)
      BY <3>2 DEF DataAsListed
    <3>5. base.list = x /\ base.repeatCount = 0
      BY <3>1 DEF x
    <3>10. base \in OrgState
      BY <3>1, <3>2 DEF OrgState, x
    <3> HIDE DEF base
    <3>6. RunEnds(L, base, at, 2)
      <4>1. \A t \in 0 .. 0 : at[Len(x) + 1 - t] = 2 - t
        BY <3>2
      <4> QED
        BY <3>5, <4>1 DEF RunEnds
    <3> HIDE DEF at
    <3>7. OrgsFound(L, base, at, 2)
      <4>1. base.repeatCount < Len(base.list)
        <5>1. 0 < Len(x)
          BY <3>2
        <5> QED
          BY <3>5, <5>1
      <4> QED
        BY <3>3, <3>4, <3>5, <3>6, <3>10, <4>1 DEF OrgsFound
    <3>8. base.list[Len(base.list)] = L[1]
      BY <3>2, <3>5
    <3>9. 0 + 1 = 1 /\ 0 + 2 = 2
      OBVIOUS
    <3> QED
      BY <3>7, <3>8 DEF OrgInv
  <2>3. ASSUME NEW k \in 1 .. n, NEW oi, OrgInv(L, Tail(L), k - 1, oi)
        PROVE  OrgInv(L, Tail(L), k, OrgStep(L, oi, Tail(L)[k]))
    BY <2>1, <2>3, GotStatementKeeps DEF OrgStep
  <2> HIDE DEF base
  <2>4. OrgInv(L, Tail(L), n, Orgs!Fold(L, base, Tail(L)))
    <3> HIDE DEF n
    <3> QED
      BY <2>1, <2>2, <2>3, Orgs!Rule
  <2>5. Asm!IdentifyOrgs(L) = Orgs!Fold(L, base, Tail(L)).list
    BY <1>3 DEF Asm!IdentifyOrgs, Orgs!Fold, OrgStep, base, FoldLeft, MapThenFoldSet,
                Orgs!MapThenFoldSet, Orgs!Largest, Max,
                Asm!FoldLeft, Asm!MapThenFoldSet, Asm!Max
  <2> DEFINE oi == Orgs!Fold(L, base, Tail(L))
  <2>6. n + 1 = Len(L) /\ n + 2 = Len(L) + 1
    BY <1>1
  <2> HIDE DEF oi, n
  <2>7. PICK at : OrgsFound(L, oi, at, Len(L) + 1)
    BY <2>4, <2>6 DEF OrgInv, oi
  <2>8. oi.list[Len(oi.list)] = L[Len(L)]
    BY <2>4, <2>6 DEF OrgInv, oi
  <2> QED
    BY <2>5, <2>7, <2>8 DEF OrgsFound, Last, oi
<1> QED
  BY <1>2, <1>3

-----------------------------------------------------------------------------
(* groupAsciiStrings.                                                       *)

(* The last statements of the list are those of L, and their bytes text.    *)
TextEnds(L, found, chars, at, e) ==
    /\ \A t \in 0 .. Len(chars) : at[Len(found) + 1 - t] = e - t
    /\ \A t \in 1 .. Len(chars) :
          /\ found[Len(found) + 1 - t] = L[e - t]
          /\ L[e - t] \in DataStatement /\ L[e - t].width = 1
          /\ chars[Len(chars) + 1 - t] = L[e - t].items[1].value

(* What the second pass holds: characters that are not yet a string.        *)
TextFound(L, g, at, e) ==
    /\ g.chars \in Seq(Int) /\ Len(g.chars) <= Len(g.list)
    /\ Chain(L, g.list, at, e) /\ TextEnds(L, g.list, g.chars, at, e)

TextInv(c, seq, k, g) ==
    /\ k > 0 => Len(g.list) > 0 /\ g.list[Len(g.list)] = seq[k]
    /\ \E at : TextFound(c[1], g, at, c[2][k + 1])

TextStep(c, g, s) == Asm!ReadText(g, s)

Texts == INSTANCE FoldRule WITH Op <- TextStep, Holds <- TextInv

(* The characters become a string, or stay.                                 *)
LEMMA FlushTextKeeps ==
    ASSUME NEW L, Listing(L), NEW g, NEW at, NEW e \in 1 .. Len(L) + 1, TextFound(L, g, at, e)
    PROVE  \E bt : Chain(L, Asm!FlushText(g), bt, e)
<1>1. PICK x, chars : x = g.list /\ chars = g.chars
  OBVIOUS
<1>2. PICK n : n = Len(chars)
  OBVIOUS
<1>3. /\ chars \in Seq(Int) /\ n \in Nat /\ n <= Len(x) /\ Chain(L, x, at, e)
      /\ TextEnds(L, x, chars, at, e)
  BY <1>1, <1>2 DEF TextFound
<1>4. CASE n >= Threshold
  <2>1. PICK first : first = x[Len(x) - n + 1]
    OBVIOUS
  <2>2. PICK text : text = Asm!Data(1, <<Asm!Text(chars)>>, first.home)
    OBVIOUS
  <2>3. Asm!FlushText(g) = Append(Asm!Without(n, x), text)
    BY <1>1, <1>2, <1>4, <2>1, <2>2 DEF Asm!FlushText
  <2>4. x \in Seq(Statement) /\ n \in 1 .. Len(x) /\ Len(x) \in Nat /\ e \in Nat
    BY <1>3, <1>4, PackageAssumption DEF Chain
  <2>5. at[Len(x) - n + 1] = e - n /\ first = L[e - n]
    <3>1. n \in 0 .. n /\ n \in 1 .. n /\ Len(x) + 1 - n = Len(x) - n + 1
      BY <2>4
    <3> QED
      BY <1>2, <1>3, <2>1, <3>1 DEF TextEnds
  <2>6. e - n \in 1 .. Len(L)
    <3>1. Len(x) - n + 1 \in 1 .. Len(x) + 1 /\ Len(L) \in Nat
      BY <2>4 DEF Listing
    <3>2. at[Len(x) - n + 1] \in 1 .. e
      BY <1>3, <3>1 DEF Chain
    <3> QED
      BY <2>4, <2>5, <3>1, <3>2
  <2>7. ASSUME NEW k \in e - n .. e - 1
        PROVE  /\ L[k] \in DataStatement /\ L[k].width = 1
               /\ chars[k - (e - n) + 1] = L[k].items[1].value
    <3>1. e - k \in 1 .. n /\ e - (e - k) = k /\ n + 1 - (e - k) = k - (e - n) + 1
      BY <2>4
    <3> QED
      BY <1>2, <1>3, <3>1 DEF TextEnds
  <2>8. first \in DataStatement /\ first.width = 1
    <3>1. e - n \in e - n .. e - 1
      BY <2>4
    <3> QED
      BY <2>5, <2>7, <3>1
  <2>9. PICK item : item = Asm!Text(chars)
    OBVIOUS
  <2>10. /\ item \in TextItem /\ item.value = chars /\ item.kind = "string"
         /\ text \in DataStatement /\ text.items = <<item>> /\ text.width = 1
         /\ text.home = first.home
    <3>1. item \in TextItem /\ item.value = chars /\ item.kind = "string"
      BY <1>3, <2>9 DEF Asm!Text, TextItem
    <3>2. first.home \in Int
      BY <2>8 DEF DataStatement
    <3>3. <<item>> \in Seq(Item)
      BY <3>1 DEF Item
    <3>4. text = [kind |-> "data", width |-> 1, items |-> <<item>>, home |-> first.home]
      BY <2>2, <2>9 DEF Asm!Data
    <3>5. text \in DataStatement
      BY <3>2, <3>3, <3>4 DEF DataStatement
    <3> QED
      BY <3>1, <3>4, <3>5
  <2>11. ItemCovers(L, item, e - n, e)
    <3>1. e = (e - n) + n /\ e - n < e
      BY <2>4
    <3>2. ASSUME NEW t \in 1 .. n
          PROVE  L[(e - n) + t - 1].width = 1 /\ chars[t] = L[(e - n) + t - 1].items[1].value
      <4>1. (e - n) + t - 1 \in e - n .. e - 1 /\ ((e - n) + t - 1) - (e - n) + 1 = t
        BY <2>4
      <4> QED
        BY <2>7, <4>1
    <3> QED
      BY <1>2, <2>10, <3>1, <3>2 DEF ItemCovers
  <2>12. DataCovers(L, text, e - n, e)
    <3>1. PICK items : items = <<item>>
      OBVIOUS
    <3>2. Len(items) = 1 /\ items[1] = item
      BY <3>1
    <3>3. PICK pos : pos = [m \in 1 .. 2 |-> IF m = 1 THEN e - n ELSE e]
      OBVIOUS
    <3>4. pos[1] = e - n /\ pos[2] = e /\ e - n \in e - n .. e /\ e \in e - n .. e
      BY <2>4, <3>3
    <3>5. pos \in [1 .. Len(items) + 1 -> e - n .. e]
      BY <3>2, <3>3, <3>4
    <3>6. ItemsCover(L, items, pos, e - n, e)
      <4>1. \A m \in 1 .. Len(items) : m = 1 /\ m + 1 = 2
        BY <3>2
      <4>2. Len(items) + 1 = 2
        BY <3>2
      <4> QED
        BY <2>11, <3>2, <3>4, <3>5, <4>1, <4>2 DEF ItemsCover
    <3>7. \A k \in e - n .. e - 1 : L[k].kind = "data" /\ L[k].width = 1
      BY <2>7 DEF DataStatement
    <3>8. \A k \in (e - n) + 1 .. e - 1 : k \in e - n .. e - 1
      BY <2>4
    <3>9. text.home = L[e - n].home /\ text.width = L[e - n].width
      BY <2>5, <2>8, <2>10
    <3> QED
      BY <2>10, <3>1, <3>6, <3>7, <3>8, <3>9 DEF DataCovers
  <2>13. PICK bt : Chain(L, Append(Asm!Without(n, x), text), bt, e)
    <3>1. Covers(L, text, at[Len(x) - n + 1], e) /\ text \in Statement
      BY <2>5, <2>10, <2>12 DEF Covers, Statement
    <3> QED
      BY <1>3, <2>4, <3>1, Replaced
  <2> QED
    BY <2>3, <2>13
<1>5. CASE ~ (n >= Threshold)
  BY <1>1, <1>2, <1>3, <1>5 DEF Asm!FlushText
<1> QED
  BY <1>4, <1>5

(* One statement of the pass.                                               *)
LEMMA ReadTextKeeps ==
    ASSUME NEW L, Listing(L), NEW x, NEW at, Chain(L, x, at, Len(L) + 1),
           DataAsListed(L, x, at), NEW k \in 1 .. Len(x), NEW g,
           TextInv(<<L, at>>, x, k - 1, g)
    PROVE  TextInv(<<L, at>>, x, k, Asm!ReadText(g, x[k]))
<1>1. PICK e, f, s : e = at[k] /\ f = at[k + 1] /\ s = x[k]
  OBVIOUS
<1>2. PICK l, chars : l = g.list /\ chars = g.chars
  OBVIOUS
<1>3. PICK dt : TextFound(L, g, dt, e)
  <2>1. (k - 1) + 1 = k
    OBVIOUS
  <2> QED
    BY <1>1, <2>1 DEF TextInv
<1>4. /\ chars \in Seq(Int) /\ Len(chars) <= Len(l) /\ Chain(L, l, dt, e)
      /\ TextEnds(L, l, chars, dt, e)
  BY <1>2, <1>3 DEF TextFound
<1>5. /\ e \in 1 .. Len(L) + 1 /\ f \in 1 .. Len(L) + 1 /\ e < f
      /\ s \in Statement /\ Covers(L, s, e, f) /\ Len(L) \in Nat
  <2>1. x \in Seq(Statement) /\ Len(x) \in Nat /\ k \in 1 .. Len(x) + 1 /\ k + 1 \in 1 .. Len(x) + 1
        /\ k < k + 1
    BY DEF Chain
  <2>2. e < f
    BY <1>1, <2>1 DEF Chain
  <2>3. Len(L) \in Nat
    BY DEF Listing
  <2>4. e \in 1 .. Len(L) + 1 /\ f \in 1 .. Len(L) + 1 /\ Covers(L, s, e, f)
    BY <1>1, <2>1 DEF Chain
  <2>5. s \in Statement
    BY <1>1, <2>1
  <2> QED
    BY <2>2, <2>3, <2>4, <2>5
<1>6. l \in Seq(Statement) /\ Len(l) \in Nat /\ e \in Nat /\ f \in Nat /\ dt[Len(l) + 1] = e
  BY <1>4, <1>5 DEF Chain
<1>7. ASSUME NEW h, NEW bt, h.list[Len(h.list)] = s, Len(h.list) > 0, TextFound(L, h, bt, f)
      PROVE  TextInv(<<L, at>>, x, k, h)
  <2>1. <<L, at>>[1] = L /\ <<L, at>>[2] = at
    OBVIOUS
  <2> QED
    BY <1>1, <1>7, <2>1 DEF TextInv
<1>8. CASE Asm!IsAscii(s)
  <2>1. s = L[e] /\ f = e + 1 /\ s.kind = "data" /\ s.width = 1
    BY <1>1, <1>8 DEF Asm!IsAscii, DataAsListed
  <2>2. s \in DataStatement /\ s.items[1].value \in Int
    <3>1. e \in 1 .. Len(L)
      BY <1>5, <2>1
    <3>2. Lone(s)
      BY <2>1, <3>1 DEF Listing
    <3>3. s \in DataStatement
      BY <2>1, <3>2 DEF Lone, LabelStatement, CodeStatement
    <3> QED
      BY <2>1, <3>2, <3>3 DEF Lone, LabelStatement, CodeStatement, NumberItem
  <2>3. PICK z : z = Append(l, s)
    OBVIOUS
  <2>4. PICK w : w = Append(chars, s.items[1].value)
    OBVIOUS
  <2>5. PICK h : h = [list |-> z, chars |-> w]
    OBVIOUS
  <2>6. Asm!ReadText(g, s) = h
    BY <1>2, <1>8, <2>3, <2>4, <2>5 DEF Asm!ReadText
  <2>7. PICK bt : /\ Chain(L, z, bt, f)
                  /\ \A m \in 1 .. Len(l) + 1 : bt[m] = dt[m]
                  /\ bt[Len(l) + 2] = f
    BY <1>4, <1>5, <1>6, <2>3, Appended
  <2>8. /\ Len(z) = Len(l) + 1 /\ z[Len(l) + 1] = s /\ \A m \in 1 .. Len(l) : z[m] = l[m]
    BY <1>5, <1>6, <2>3
  <2>9. /\ w \in Seq(Int) /\ Len(w) = Len(chars) + 1 /\ w[Len(chars) + 1] = s.items[1].value
        /\ \A m \in 1 .. Len(chars) : w[m] = chars[m]
    BY <1>4, <2>2, <2>4
  <2>10. Len(chars) \in Nat /\ Len(w) = Len(chars) + 1 /\ Len(chars) <= Len(l) /\ Len(l) \in Nat
    BY <1>4, <1>6, <2>9
  <2>11. ASSUME NEW t \in 0 .. Len(w) PROVE bt[Len(z) + 1 - t] = f - t
    <3>1. CASE t = 0
      BY <1>6, <2>7, <2>8, <3>1
    <3>2. CASE t # 0
      <4>1. t - 1 \in 0 .. Len(chars) /\ Len(l) + 1 - (t - 1) \in 1 .. Len(l) + 1
        BY <1>4, <1>6, <2>9, <2>10, <3>2
      <4>2. Len(z) + 1 - t = Len(l) + 1 - (t - 1) /\ f - t = e - (t - 1)
        BY <1>6, <2>1, <2>8
      <4>3. dt[Len(l) + 1 - (t - 1)] = e - (t - 1)
        BY <1>4, <4>1 DEF TextEnds
      <4> QED
        BY <2>7, <4>1, <4>2, <4>3
    <3> QED
      BY <3>1, <3>2
  <2>12. ASSUME NEW t \in 1 .. Len(w)
         PROVE  /\ z[Len(z) + 1 - t] = L[f - t]
                /\ L[f - t] \in DataStatement /\ L[f - t].width = 1
                /\ w[Len(w) + 1 - t] = L[f - t].items[1].value
    <3>1. CASE t = 1
      <4>1. Len(z) + 1 - t = Len(l) + 1 /\ f - t = e /\ Len(w) + 1 - t = Len(chars) + 1
        BY <1>6, <2>1, <2>8, <2>9, <2>10, <3>1
      <4> QED
        BY <2>1, <2>2, <2>8, <2>9, <4>1
    <3>2. CASE t # 1
      <4>1. /\ t - 1 \in 1 .. Len(chars) /\ Len(l) + 1 - (t - 1) \in 1 .. Len(l)
            /\ Len(chars) + 1 - (t - 1) \in 1 .. Len(chars)
        BY <2>10, <3>2
      <4>2. /\ Len(z) + 1 - t = Len(l) + 1 - (t - 1) /\ f - t = e - (t - 1)
            /\ Len(w) + 1 - t = Len(chars) + 1 - (t - 1)
        BY <1>6, <2>1, <2>8, <2>9, <2>10
      <4>3. /\ l[Len(l) + 1 - (t - 1)] = L[e - (t - 1)]
            /\ L[e - (t - 1)] \in DataStatement /\ L[e - (t - 1)].width = 1
            /\ chars[Len(chars) + 1 - (t - 1)] = L[e - (t - 1)].items[1].value
        BY <1>4, <4>1 DEF TextEnds
      <4> QED
        BY <2>8, <2>9, <4>1, <4>2, <4>3
    <3> QED
      BY <3>1, <3>2
  <2>13. TextEnds(L, z, w, bt, f)
    BY <2>11, <2>12 DEF TextEnds
  <2>14. TextFound(L, h, bt, f)
    <3>1. Len(w) <= Len(z)
      BY <1>4, <1>6, <2>8, <2>9, <2>10
    <3> QED
      BY <2>5, <2>7, <2>9, <2>13, <3>1 DEF TextFound
  <2>15. h.list[Len(h.list)] = s /\ Len(h.list) > 0
    <3>1. z[Len(z)] = s /\ Len(z) > 0
      BY <1>6, <2>8
    <3> QED
      BY <2>5, <3>1
  <2> QED
    BY <1>1, <1>7, <2>6, <2>14, <2>15
<1>9. CASE ~Asm!IsAscii(s)
  <2>1. PICK y : y = Asm!FlushText(g)
    OBVIOUS
  <2>2. PICK ct : Chain(L, y, ct, e)
    BY <1>3, <1>5, <2>1, FlushTextKeeps
  <2>3. PICK z : z = Append(y, s)
    OBVIOUS
  <2>4. PICK h : h = [list |-> z, chars |-> << >>]
    OBVIOUS
  <2>5. Asm!ReadText(g, s) = h
    BY <1>9, <2>1, <2>3, <2>4 DEF Asm!ReadText
  <2>6. PICK bt : Chain(L, z, bt, f)
    BY <1>5, <1>6, <2>2, <2>3, Appended
  <2>7. y \in Seq(Statement)
    BY <2>2 DEF Chain
  <2>8. z \in Seq(Statement) /\ Len(z) = Len(y) + 1 /\ z[Len(z)] = s /\ Len(z) > 0
    BY <1>5, <2>3, <2>7
  <2>9. TextEnds(L, z, << >>, bt, f)
    <3>1. bt[Len(z) + 1] = f
      BY <2>6 DEF Chain
    <3>2. Len(z) + 1 - 0 = Len(z) + 1 /\ f - 0 = f
      BY <1>6, <2>8
    <3>3. Len(<< >>) = 0 /\ \A t \in 0 .. 0 : t = 0
      OBVIOUS
    <3> QED
      BY <3>1, <3>2, <3>3 DEF TextEnds
  <2>10. TextFound(L, h, bt, f)
    <3>1. << >> \in Seq(Int) /\ Len(<< >>) <= Len(z)
      BY <2>8
    <3> QED
      BY <2>4, <2>6, <2>9, <3>1 DEF TextFound
  <2>11. h.list[Len(h.list)] = s /\ Len(h.list) > 0
    BY <2>4, <2>8
  <2> QED
    BY <1>1, <1>7, <2>5, <2>10, <2>11
<1> QED
  BY <1>8, <1>9

(* The second pass keeps a text that stands for the listing.                *)
LEMMA GroupAsciiStringsKeeps ==
    ASSUME NEW L, Listing(L), NEW x, NEW at, Chain(L, x, at, Len(L) + 1),
           DataAsListed(L, x, at), Len(x) > 0
    PROVE  LET y == Asm!GroupAsciiStrings(x)
           IN  \E bt : Chain(L, y, bt, Len(L) + 1) /\ Len(y) > 0 /\ y[Len(y)] = x[Len(x)]
<1>1. CASE Len(x) < Threshold
  BY <1>1 DEF Asm!GroupAsciiStrings
<1>2. CASE ~ (Len(x) < Threshold)
  <2>1. PICK c : c = <<L, at>>
    OBVIOUS
  <2>2. PICK base : base = [list |-> << >>, chars |-> << >>]
    OBVIOUS
  <2>3. x \in Seq(Statement) /\ Len(x) \in Nat /\ DOMAIN x = 1 .. Len(x) /\ at[1] = 1
        /\ at[Len(x) + 1] = Len(L) + 1
    BY DEF Chain
  <2>4. TextInv(c, x, 0, base)
    <3>1. PICK dt : dt = [m \in 1 .. 1 |-> 1]
      OBVIOUS
    <3>2. PICK none : none = << >>
      OBVIOUS
    <3>3. none \in Seq(Statement) /\ none \in Seq(Int) /\ Len(none) = 0
      BY <3>2
    <3>4. Chain(L, none, dt, 1)
      BY <3>1, <3>3 DEF Chain
    <3>5. TextEnds(L, none, none, dt, 1)
      <4>1. \A t \in 0 .. 0 : dt[Len(none) + 1 - t] = 1 - t
        BY <3>1, <3>3
      <4> QED
        BY <3>3, <4>1 DEF TextEnds
    <3>6. base.list = none /\ base.chars = none
      BY <2>2, <3>2
    <3>7. TextFound(L, base, dt, 1)
      BY <3>3, <3>4, <3>5, <3>6 DEF TextFound
    <3>8. c[1] = L /\ c[2][0 + 1] = 1
      BY <2>1, <2>3
    <3> QED
      BY <3>7, <3>8 DEF TextInv
  <2>5. ASSUME NEW k \in 1 .. Len(x), NEW g, TextInv(c, x, k - 1, g)
        PROVE  TextInv(c, x, k, TextStep(c, g, x[k]))
    BY <2>1, <2>5, ReadTextKeeps DEF TextStep
  <2>6. PICK g : g = Texts!Fold(c, base, x)
    OBVIOUS
  <2>7. TextInv(c, x, Len(x), g)
    BY <2>3, <2>4, <2>5, <2>6, Texts!Rule
  <2>8. Asm!GroupAsciiStrings(x) = g.list
    BY <1>2, <2>2, <2>6 DEF Asm!GroupAsciiStrings, Texts!Fold, TextStep, FoldLeft, MapThenFoldSet,
                Texts!MapThenFoldSet, Texts!Largest, Max,
                Asm!FoldLeft, Asm!MapThenFoldSet, Asm!Max
  <2>9. PICK bt : TextFound(L, g, bt, Len(L) + 1)
    BY <2>1, <2>3, <2>7 DEF TextInv
  <2>10. Len(g.list) > 0 /\ g.list[Len(g.list)] = x[Len(x)]
    BY <2>7 DEF TextInv
  <2> QED
    BY <2>8, <2>9, <2>10 DEF TextFound
<1> QED
  BY <1>1, <1>2

-----------------------------------------------------------------------------
(* collapseDataStatements.                                                  *)

JoinInv(c, seq, k, l) ==
    /\ Len(l) > 0 /\ l[Len(l)].kind = c[2][k + 1].kind
    /\ \E at : Chain(c[1], l, at, c[3][k + 2])

JoinStep(c, l, s) == Asm!Join(l, s)

Joins == INSTANCE FoldRule WITH Op <- JoinStep, Holds <- JoinInv

(* A statement of data stands for statements of data.                       *)
LEMMA DataIsCovered ==
    ASSUME NEW L, Listing(L), NEW s \in Statement, s.kind = "data",
           NEW i \in 1 .. Len(L), NEW j \in Nat, Covers(L, s, i, j)
    PROVE  s \in DataStatement /\ DataCovers(L, s, i, j)
<1>1. s \in DataStatement
  BY DEF Statement, LabelStatement, OrgStatement, CodeStatement
<1>2. CASE j = i + 1 /\ s = L[i]
  <2>1. Lone(s)
    BY <1>2 DEF Listing
  <2>2. Len(s.items) = 1 /\ Len(L) \in Nat
    BY <2>1 DEF Lone, LabelStatement, CodeStatement, Listing
  <2>3. PICK pos : pos = [m \in 1 .. 2 |-> IF m = 1 THEN i ELSE j]
    OBVIOUS
  <2>4. pos[1] = i /\ pos[2] = j /\ i \in i .. j /\ j \in i .. j
    BY <1>2, <2>2, <2>3
  <2>5. ItemsCover(L, s.items, pos, i, j)
    <3>1. pos \in [1 .. Len(s.items) + 1 -> i .. j]
      BY <2>2, <2>3, <2>4
    <3>2. \A m \in 1 .. Len(s.items) : m = 1 /\ m + 1 = 2
      BY <2>2
    <3>3. ItemCovers(L, s.items[1], i, j)
      BY <1>2 DEF ItemCovers
    <3> QED
      BY <2>2, <2>4, <3>1, <3>2, <3>3 DEF ItemsCover
  <2>6. (\A k \in i .. j - 1 : k = i) /\ (\A k \in i + 1 .. j - 1 : FALSE)
    BY <1>2, <2>2
  <2> QED
    BY <1>1, <1>2, <2>5, <2>6 DEF DataCovers
<1>3. CASE OrgCovers(L, s, i, j)
  BY <1>3 DEF OrgCovers, OrgStatement
<1> QED
  BY <1>1, <1>2, <1>3 DEF Covers

(* Items that stand for one part of the listing, and for the next.          *)
LEMMA ItemsCoverBoth ==
    ASSUME NEW L, NEW a \in Seq(Item), NEW b \in Seq(Item), NEW p, NEW q,
           NEW i \in Nat, NEW e \in Nat, NEW f \in Nat, i <= e, e <= f,
           ItemsCover(L, a, p, i, e), ItemsCover(L, b, q, e, f)
    PROVE  \E pos : ItemsCover(L, a \o b, pos, i, f)
<1>1. PICK n, m : n = Len(a) /\ m = Len(b)
  OBVIOUS
<1>2. n \in Nat /\ m \in Nat
  BY <1>1
<1>3. PICK c : c = a \o b
  OBVIOUS
<1>4. /\ c \in Seq(Item) /\ Len(c) = n + m
      /\ (\A r \in 1 .. n : c[r] = a[r]) /\ (\A r \in 1 .. m : c[n + r] = b[r])
  BY <1>1, <1>3
<1>5. PICK pos : pos = [r \in 1 .. n + m + 1 |-> IF r <= n + 1 THEN p[r] ELSE q[r - n]]
  OBVIOUS
<1>6. /\ p \in [1 .. n + 1 -> i .. e] /\ p[1] = i /\ p[n + 1] = e
      /\ q \in [1 .. m + 1 -> e .. f] /\ q[1] = e /\ q[m + 1] = f
      /\ \A r \in 1 .. n : ItemCovers(L, a[r], p[r], p[r + 1])
      /\ \A r \in 1 .. m : ItemCovers(L, b[r], q[r], q[r + 1])
  BY <1>1 DEF ItemsCover
<1>7. \A r \in 1 .. n + 1 : pos[r] = p[r]
  BY <1>2, <1>5
<1>8. \A r \in 1 .. m + 1 : pos[n + r] = q[r]
  <2> TAKE r \in 1 .. m + 1
  <2>1. n + r \in 1 .. n + m + 1 /\ (n + r) - n = r /\ (r = 1 => n + r = n + 1)
        /\ (r # 1 => ~ (n + r <= n + 1))
    BY <1>2
  <2> QED
    BY <1>5, <1>6, <2>1
<1>9. pos \in [1 .. n + m + 1 -> i .. f]
  <2>1. ASSUME NEW r \in 1 .. n + m + 1 PROVE pos[r] \in i .. f
    <3>1. CASE r \in 1 .. n + 1
      <4>1. p[r] \in i .. e
        BY <1>6, <3>1
      <4> QED
        BY <1>7, <3>1, <4>1
    <3>2. CASE r \notin 1 .. n + 1
      <4>1. r - n \in 1 .. m + 1 /\ n + (r - n) = r
        BY <1>2, <3>2
      <4>2. q[r - n] \in e .. f
        BY <1>6, <4>1
      <4>3. pos[r] = q[r - n]
        BY <1>8, <4>1
      <4> QED
        BY <4>2, <4>3
    <3> QED
      BY <3>1, <3>2
  <2>2. pos = [r \in 1 .. n + m + 1 |-> pos[r]]
    BY <1>5
  <2> QED
    BY <2>1, <2>2
<1>10. ASSUME NEW r \in 1 .. n + m PROVE ItemCovers(L, c[r], pos[r], pos[r + 1])
  <2>1. CASE r \in 1 .. n
    <3>1. r \in 1 .. n + 1 /\ r + 1 \in 1 .. n + 1
      BY <1>2, <2>1
    <3> QED
      BY <1>4, <1>6, <1>7, <2>1, <3>1
  <2>2. CASE r \notin 1 .. n
    <3>1. /\ r - n \in 1 .. m /\ n + (r - n) = r /\ r - n \in 1 .. m + 1
          /\ (r - n) + 1 \in 1 .. m + 1 /\ n + ((r - n) + 1) = r + 1
      BY <1>2, <2>2
    <3>2. c[r] = b[r - n] /\ pos[r] = q[r - n] /\ pos[r + 1] = q[(r - n) + 1]
      BY <1>4, <1>8, <3>1
    <3> QED
      BY <1>6, <3>1, <3>2
  <2> QED
    BY <2>1, <2>2
<1>11. pos[1] = i /\ pos[n + m + 1] = f
  <2>1. 1 \in 1 .. n + 1 /\ m + 1 \in 1 .. m + 1 /\ n + (m + 1) = n + m + 1
    BY <1>2
  <2> QED
    BY <1>6, <1>7, <1>8, <2>1
<1> QED
  BY <1>3, <1>4, <1>9, <1>10, <1>11 DEF ItemsCover

(* A list of bytes put behind the data in front of it.                      *)
LEMMA JoinedCovers ==
    ASSUME NEW L, Listing(L), NEW prev, NEW s, NEW i \in 1 .. Len(L), NEW e \in 1 .. Len(L),
           NEW f \in 1 .. Len(L) + 1, i < e, e < f, s.width = 1,
           DataCovers(L, prev, i, e), DataCovers(L, s, e, f)
    PROVE  LET joined == [kind |-> "data", width |-> prev.width,
                          items |-> prev.items \o s.items, home |-> prev.home]
           IN  joined \in DataStatement /\ DataCovers(L, joined, i, f)
<1>1. PICK joined : joined = [kind |-> "data", width |-> prev.width,
                              items |-> prev.items \o s.items, home |-> prev.home]
  OBVIOUS
<1>2. Len(L) \in Nat
  BY DEF Listing
<1>3. /\ prev \in DataStatement /\ prev.home = L[i].home /\ prev.width = L[i].width
      /\ s \in DataStatement /\ L[e].width = 1
      /\ prev.items \in Seq(Item) /\ s.items \in Seq(Item)
  BY DEF DataCovers, DataStatement
<1>4. joined \in DataStatement
  <2>1. prev.items \o s.items \in Seq(Item)
    BY <1>3
  <2>2. prev.width \in {1, 2} /\ prev.home \in Int
    BY <1>3 DEF DataStatement
  <2> QED
    BY <1>1, <2>1, <2>2 DEF DataStatement
<1>5. PICK p : ItemsCover(L, prev.items, p, i, e)
  BY DEF DataCovers
<1>6. PICK q : ItemsCover(L, s.items, q, e, f)
  BY DEF DataCovers
<1>7. \E pos : ItemsCover(L, prev.items \o s.items, pos, i, f)
  <2>1. i \in Nat /\ e \in Nat /\ f \in Nat /\ i <= e /\ e <= f
    BY <1>2
  <2> QED
    BY <1>3, <1>5, <1>6, <2>1, ItemsCoverBoth
<1>8. \A k \in i .. f - 1 : L[k].kind = "data"
  <2> TAKE k \in i .. f - 1
  <2>1. k \in i .. e - 1 \/ k \in e .. f - 1
    BY <1>2
  <2> QED
    BY <2>1 DEF DataCovers
<1>9. \A k \in i + 1 .. f - 1 : L[k].width = 1
  <2> TAKE k \in i + 1 .. f - 1
  <2>1. k \in i + 1 .. e - 1 \/ k = e \/ k \in e + 1 .. f - 1
    BY <1>2
  <2> QED
    BY <1>3, <2>1 DEF DataCovers
<1> QED
  BY <1>1, <1>3, <1>4, <1>7, <1>8, <1>9 DEF DataCovers

(* One statement of the pass.                                               *)
LEMMA JoinKeeps ==
    ASSUME NEW L, Listing(L), NEW x, NEW at, Chain(L, x, at, Len(L) + 1),
           NEW k \in 1 .. Len(x) - 1, NEW l, JoinInv(<<L, x, at>>, Tail(x), k - 1, l)
    PROVE  JoinInv(<<L, x, at>>, Tail(x), k, Asm!Join(l, x[k + 1]))
<1>1. PICK e, f, s, c : e = at[k + 1] /\ f = at[k + 2] /\ s = x[k + 1] /\ c = <<L, x, at>>
  OBVIOUS
<1>2. c[1] = L /\ c[2] = x /\ c[3] = at
  BY <1>1
<1>3. PICK dt : Chain(L, l, dt, e)
  <2>1. (k - 1) + 2 = k + 1
    OBVIOUS
  <2> QED
    BY <1>1, <1>2, <2>1 DEF JoinInv
<1>4. Len(l) > 0
  BY <1>1 DEF JoinInv
<1>5. /\ e \in 1 .. Len(L) /\ f \in 1 .. Len(L) + 1 /\ e < f
      /\ s \in Statement /\ Covers(L, s, e, f) /\ Len(L) \in Nat
  <2>1. /\ x \in Seq(Statement) /\ Len(x) \in Nat /\ k + 1 \in 1 .. Len(x)
        /\ k + 1 \in 1 .. Len(x) + 1 /\ k + 2 \in 1 .. Len(x) + 1
        /\ k + 1 < k + 2 /\ (k + 1) + 1 = k + 2
    BY DEF Chain
  <2>2. e < f /\ e \in 1 .. Len(L) + 1 /\ f \in 1 .. Len(L) + 1
    BY <1>1, <2>1 DEF Chain
  <2>3. Len(L) \in Nat
    BY DEF Listing
  <2>4. s \in Statement /\ Covers(L, s, e, f)
    BY <1>1, <2>1 DEF Chain
  <2> QED
    BY <2>2, <2>3, <2>4
<1>6. l \in Seq(Statement) /\ Len(l) \in Nat /\ e \in Nat /\ f \in Nat /\ dt[Len(l) + 1] = e
      /\ Asm!Last(l) = l[Len(l)]
  BY <1>3, <1>5 DEF Chain, Asm!Last
<1>7. ASSUME NEW z, NEW bt, z[Len(z)].kind = s.kind, Len(z) > 0, Chain(L, z, bt, f)
      PROVE  JoinInv(c, Tail(x), k, z)
  BY <1>1, <1>2, <1>7 DEF JoinInv
<1>8. CASE ~Asm!CanJoin(Asm!Last(l), s)
  <2>1. PICK z : z = Append(l, s)
    OBVIOUS
  <2>2. Asm!Join(l, s) = z
    BY <1>8, <2>1 DEF Asm!Join
  <2>3. PICK bt : Chain(L, z, bt, f)
    BY <1>3, <1>5, <1>6, <2>1, Appended
  <2>4. z[Len(z)] = s /\ Len(z) > 0
    BY <1>5, <1>6, <2>1
  <2> QED
    BY <1>1, <1>7, <2>2, <2>3, <2>4
<1>9. CASE Asm!CanJoin(Asm!Last(l), s)
  <2>1. PICK prev, n, i : prev = l[Len(l)] /\ n = Len(l) /\ i = dt[Len(l)]
    OBVIOUS
  <2>2. n \in Nat \ {0} /\ n \in 1 .. Len(l) /\ n = Len(l)
    BY <1>4, <1>6, <2>1
  <2>3. prev.kind = "data" /\ s.kind = "data" /\ s.width = 1 /\ prev \in Statement
    BY <1>6, <1>9, <2>1, <2>2 DEF Asm!CanJoin
  <2>4. i \in 1 .. Len(L) /\ i < e /\ Covers(L, prev, i, e)
    <3>1. n \in 1 .. Len(l) + 1 /\ n + 1 \in 1 .. Len(l) + 1 /\ n < n + 1
      BY <2>2
    <3>2. dt[n] < dt[n + 1] /\ dt[n] \in 1 .. e /\ Covers(L, l[n], dt[n], dt[n + 1])
      BY <1>3, <2>2, <3>1 DEF Chain
    <3> QED
      BY <1>5, <1>6, <2>1, <2>2, <3>2
  <2>5. prev \in DataStatement /\ DataCovers(L, prev, i, e)
    BY <1>6, <2>3, <2>4, DataIsCovered
  <2>6. s \in DataStatement /\ DataCovers(L, s, e, f)
    BY <1>5, <1>6, <2>3, DataIsCovered
  <2>7. PICK joined : joined = [kind |-> "data", width |-> prev.width,
                                items |-> prev.items \o s.items, home |-> prev.home]
    OBVIOUS
  <2>8. joined \in DataStatement /\ DataCovers(L, joined, i, f)
    BY <1>5, <2>3, <2>4, <2>5, <2>6, <2>7, JoinedCovers
  <2>9. PICK z : z = [l EXCEPT ![Len(l)].items = @ \o s.items]
    OBVIOUS
  <2>10. Asm!Join(l, s) = z
    BY <1>9, <2>9 DEF Asm!Join
  <2>11. [prev EXCEPT !.items = @ \o s.items] = joined
    <3>1. PICK w, its, h : prev = [kind |-> "data", width |-> w, items |-> its, home |-> h]
      BY <2>5 DEF DataStatement
    <3>2. prev.width = w /\ prev.items = its /\ prev.home = h
      BY <3>1
    <3>3. joined = [kind |-> "data", width |-> w, items |-> its \o s.items, home |-> h]
      BY <2>7, <3>2
    <3>4. PICK v : v = its \o s.items
      OBVIOUS
    <3>5. [prev EXCEPT !.items = @ \o s.items] = [prev EXCEPT !.items = v]
      BY <3>2, <3>4
    <3>6. [prev EXCEPT !.items = v] = [kind |-> "data", width |-> w, items |-> v, home |-> h]
      BY <3>1
    <3> QED
      BY <3>3, <3>4, <3>5, <3>6
  <2>12. /\ z \in Seq(Statement) /\ Len(z) = n
         /\ \A m \in 1 .. n : z[m] = IF m = n THEN joined ELSE l[m]
    <3>1. z = [l EXCEPT ![n] = joined]
      <4>1. z = [l EXCEPT ![n] = [prev EXCEPT !.items = @ \o s.items]]
        BY <2>1, <2>2, <2>9
      <4> QED
        BY <2>11, <4>1
    <3>2. joined \in Statement
      BY <2>8 DEF Statement
    <3> QED
      BY <1>6, <2>2, <3>1, <3>2, ExceptSeq
  <2>13. PICK y : y = Asm!Without(1, l)
    OBVIOUS
  <2>14. /\ y \in Seq(Statement) /\ Len(y) = n - 1 /\ (\A m \in 1 .. n - 1 : y[m] = l[m])
         /\ Chain(L, y, [m \in 1 .. n |-> dt[m]], i)
    <3>1. 1 \in 0 .. Len(l) /\ Len(l) - 1 + 1 = n
      BY <2>2
    <3> QED
      BY <1>3, <1>6, <2>1, <2>13, <3>1, ChainCut
  <2>15. Append(y, joined) = z
    <3>1. PICK v : v = Append(y, joined)
      OBVIOUS
    <3>2. joined \in Statement /\ (n - 1) + 1 = n
      BY <2>2, <2>8 DEF Statement
    <3>3. v \in Seq(Statement) /\ Len(v) = n /\ v[n] = joined /\ \A m \in 1 .. n - 1 : v[m] = l[m]
      BY <2>14, <3>1, <3>2
    <3>4. \A m \in 1 .. n : m = n \/ m \in 1 .. n - 1
      BY <2>2
    <3>5. \A m \in 1 .. n : v[m] = z[m]
      BY <2>12, <3>3, <3>4
    <3> QED
      BY <2>12, <3>1, <3>3, <3>5, SeqEqual
  <2>16. PICK bt : Chain(L, Append(y, joined), bt, f)
    <3>1. i \in Nat /\ i < f /\ joined \in Statement /\ Covers(L, joined, i, f)
      BY <1>5, <2>4, <2>8 DEF Statement, Covers
    <3> QED
      BY <1>6, <2>14, <3>1, Appended
  <2>17. z[Len(z)].kind = s.kind /\ Len(z) > 0
    <3>1. Len(z) = n
      BY <2>2, <2>12
    <3> QED
      BY <2>2, <2>3, <2>7, <2>12, <3>1
  <2> QED
    BY <1>1, <1>7, <2>10, <2>15, <2>16, <2>17
<1> QED
  BY <1>8, <1>9

(* The third pass keeps a text that stands for the listing.                 *)
LEMMA CollapseKeeps ==
    ASSUME NEW L, Listing(L), NEW x, NEW at, Chain(L, x, at, Len(L) + 1), Len(x) > 0
    PROVE  LET y == Asm!CollapseDataStatements(x)
           IN  \E bt : Chain(L, y, bt, Len(L) + 1) /\ Len(y) > 0
                       /\ y[Len(y)].kind = x[Len(x)].kind
<1>1. CASE Len(x) < 2
  BY <1>1 DEF Asm!CollapseDataStatements
<1>2. CASE ~ (Len(x) < 2)
  <2>1. PICK c : c = <<L, x, at>>
    OBVIOUS
  <2>2. PICK n : n = Len(x) - 1
    OBVIOUS
  <2>3. x \in Seq(Statement) /\ Len(x) \in Nat /\ n \in Nat /\ n + 1 = Len(x) /\ n + 2 = Len(x) + 1
    BY <2>2 DEF Chain
  <2>4. DOMAIN Tail(x) = 1 .. n /\ \A k \in 1 .. n : Tail(x)[k] = x[k + 1]
    BY <2>2, <2>3
  <2>5. PICK base : base = <<Head(x)>>
    OBVIOUS
  <2>6. JoinInv(c, Tail(x), 0, base)
    <3>1. 1 \in 0 .. Len(x) /\ n \in 0 .. Len(x) /\ Len(x) - n = 1 /\ Len(x) - n + 1 = 2
      BY <1>2, <2>2, <2>3
    <3>7. PICK dt, e : dt = [m \in 1 .. Len(x) - n + 1 |-> at[m]] /\ e = at[Len(x) - n + 1]
      OBVIOUS
    <3>2. /\ Asm!Without(n, x) \in Seq(Statement) /\ Len(Asm!Without(n, x)) = 1
          /\ Asm!Without(n, x)[1] = x[1]
          /\ Chain(L, Asm!Without(n, x), dt, at[2])
      <4>1. Len(L) + 1 \in Nat /\ 1 \in 1 .. 1
        BY DEF Listing
      <4>2. /\ Asm!Without(n, x) \in Seq(Statement) /\ Len(Asm!Without(n, x)) = Len(x) - n
            /\ \A m \in 1 .. Len(x) - n : Asm!Without(n, x)[m] = x[m]
            /\ Chain(L, Asm!Without(n, x), dt, e)
        BY <3>1, <3>7, <4>1, ChainCut
      <4> QED
        BY <3>1, <3>7, <4>1, <4>2
    <3>3. base = Asm!Without(n, x)
      <4>1. Head(x) = x[1] /\ base = <<x[1]>>
        BY <2>5
      <4> QED
        BY <3>2, <4>1
    <3>4. c[1] = L /\ c[2] = x /\ c[3] = at /\ 0 + 1 = 1 /\ 0 + 2 = 2
      BY <2>1
    <3>5. Len(base) > 0 /\ base[Len(base)].kind = x[1].kind
      <4>1. Len(base) = 1 /\ base[1] = x[1]
        BY <3>2, <3>3
      <4> QED
        BY <4>1
    <3>6. Len(base) > 0 /\ base[Len(base)].kind = c[2][0 + 1].kind
      BY <3>4, <3>5
    <3>8. Chain(c[1], base, dt, c[3][0 + 2])
      BY <3>2, <3>3, <3>4
    <3> QED
      BY <3>6, <3>8 DEF JoinInv
  <2>7. ASSUME NEW k \in 1 .. n, NEW l, JoinInv(c, Tail(x), k - 1, l)
        PROVE  JoinInv(c, Tail(x), k, JoinStep(c, l, Tail(x)[k]))
    BY <2>1, <2>2, <2>4, <2>7, JoinKeeps DEF JoinStep
  <2>8. PICK y : y = Joins!Fold(c, base, Tail(x))
    OBVIOUS
  <2>9. JoinInv(c, Tail(x), n, y)
    BY <2>3, <2>4, <2>6, <2>7, <2>8, Joins!Rule
  <2>10. Asm!CollapseDataStatements(x) = y
    BY <1>2, <2>5, <2>8 DEF Asm!CollapseDataStatements, Joins!Fold, JoinStep, FoldLeft, MapThenFoldSet,
                Joins!MapThenFoldSet, Joins!Largest, Max,
                Asm!FoldLeft, Asm!MapThenFoldSet, Asm!Max
  <2>11. c[1] = L /\ c[2] = x /\ c[3] = at /\ at[Len(x) + 1] = Len(L) + 1
    BY <2>1 DEF Chain
  <2> QED
    BY <2>3, <2>9, <2>10, <2>11 DEF JoinInv
<1> QED
  BY <1>1, <1>2

-----------------------------------------------------------------------------
(* The bytes that the statements of a listing take.                         *)

TrueSize(s) ==
    CASE s.kind = "label" -> 0
      [] s.kind = "data" -> s.width
      [] s.kind = "instruction" -> Shape[s.code].size

(* T[k] is the address behind the k-th of them. *)
Measures(L, T) ==
    /\ T \in [0 .. Len(L) -> Int]
    /\ \A k \in 1 .. Len(L) : T[k] = T[k - 1] + TrueSize(L[k])

Growth(c, x, e) == x + TrueSize(e)

Anything(c, seq, k, x) == TRUE

Sizes == INSTANCE FoldRule WITH Op <- Growth, Holds <- Anything

(* The kinds of statements of a listing.                                    *)
LEMMA LoneIs ==
    ASSUME NEW L, Listing(L), NEW k \in 1 .. Len(L)
    PROVE  /\ L[k].kind \in {"label", "instruction", "data"}
           /\ L[k].kind = "label" => L[k] \in LabelStatement
           /\ L[k].kind = "instruction" => L[k] \in CodeStatement
           /\ L[k].kind = "data" =>
                 /\ L[k] \in DataStatement /\ Len(L[k].items) = 1
                 /\ L[k].items[1] \in NumberItem \cup CallItem
                 /\ L[k].width = 1 => L[k].items[1] \in NumberItem
<1>1. Lone(L[k])
  BY DEF Listing
<1>2. CASE L[k] \in LabelStatement
  BY <1>2 DEF LabelStatement
<1>3. CASE L[k] \in CodeStatement
  BY <1>3 DEF CodeStatement
<1>4. CASE L[k] \in DataStatement /\ L[k] \notin LabelStatement /\ L[k] \notin CodeStatement
  <2>1. L[k].kind = "data"
    BY <1>4 DEF DataStatement
  <2> QED
    BY <1>1, <1>4, <2>1 DEF Lone
<1> QED
  BY <1>1, <1>2, <1>3, <1>4 DEF Lone

(* Code takes one byte to three.                                            *)
LEMMA SizesOfCode ==
    ASSUME NEW c \in DOMAIN Shape
    PROVE  Shape[c].size \in 1 .. 3
BY DEF Shape

(* How long they are.                                                       *)
LEMMA TrueSizes ==
    ASSUME NEW L, Listing(L), NEW k \in 1 .. Len(L)
    PROVE  /\ TrueSize(L[k]) \in Nat
           /\ L[k].kind = "label" => TrueSize(L[k]) = 0
           /\ L[k].kind = "data" => TrueSize(L[k]) = L[k].width /\ L[k].width \in {1, 2}
           /\ L[k].kind = "instruction" => TrueSize(L[k]) = Shape[L[k].code].size
                                           /\ L[k].code \in DOMAIN Shape
           /\ L[k].kind # "label" => TrueSize(L[k]) > 0
<1>1. CASE L[k].kind = "label"
  BY <1>1, LoneIs DEF TrueSize
<1>2. CASE L[k].kind = "instruction"
  <2>1. L[k].code \in DOMAIN Shape
    BY <1>2, LoneIs DEF CodeStatement
  <2>2. Shape[L[k].code].size \in 1 .. 3
    BY <2>1, SizesOfCode
  <2> QED
    BY <1>2, <2>1, <2>2 DEF TrueSize
<1>3. CASE L[k].kind = "data"
  <2>1. L[k].width \in {1, 2}
    BY <1>3, LoneIs DEF DataStatement
  <2> QED
    BY <1>3, <2>1 DEF TrueSize
<1> QED
  BY <1>1, <1>2, <1>3, LoneIs

(* Every listing can be measured.                                           *)
LEMMA Measured ==
    ASSUME NEW L, Listing(L), NEW a \in Int
    PROVE  \E T : Measures(L, T) /\ T[0] = a
<1>1. L \in Seq(Statement) /\ Len(L) \in Nat /\ DOMAIN L = 1 .. Len(L)
  BY DEF Listing
<1>2. PICK T : Sizes!AreValues(T, L, a, L, Len(L))
  BY <1>1, Sizes!Values
<1>3. /\ T = [k \in 0 .. Len(L) |-> T[k]] /\ T[0] = a
      /\ \A k \in 1 .. Len(L) : T[k] = T[k - 1] + TrueSize(L[k])
  BY <1>2 DEF Sizes!AreValues, Growth
<1>4. ASSUME NEW k \in 0 .. Len(L) PROVE T[k] \in Int
  <2> DEFINE Q == {j \in 0 .. Len(L) : T[j] \notin Int}
  <2>1. SUFFICES ASSUME Q # {} PROVE FALSE
    OBVIOUS
  <2>2. PICK j \in Q : \A i \in Q : j <= i
    <3>1. Q \in SUBSET Nat
      OBVIOUS
    <3> HIDE DEF Q
    <3> QED
      BY <2>1, <3>1, Sizes!LeastOf
  <2>3. j \in 1 .. Len(L) /\ T[j] \notin Int
    BY <1>3, <2>2
  <2>4. j - 1 \in 0 .. Len(L) /\ j - 1 \notin Q
    BY <2>2, <2>3
  <2>5. TrueSize(L[j]) \in Int
    BY <2>3, TrueSizes
  <2>6. T[j - 1] \in Int
    BY <2>4
  <2>7. T[j] = T[j - 1] + TrueSize(L[j])
    BY <1>3, <2>3
  <2> QED
    BY <2>3, <2>5, <2>6, <2>7
<1> QED
  BY <1>3, <1>4 DEF Measures

(* No statement takes less than nothing.                                    *)
LEMMA MeasuresGrow ==
    ASSUME NEW L, Listing(L), NEW T, Measures(L, T), NEW i \in 0 .. Len(L)
    PROVE  \A j \in i .. Len(L) : T[i] <= T[j]
<1>1. Len(L) \in Nat
  BY DEF Listing
<1>2. /\ T \in [0 .. Len(L) -> Int] /\ \A k \in 1 .. Len(L) : T[k] = T[k - 1] + TrueSize(L[k])
  BY DEF Measures
<1> DEFINE Q == {j \in i .. Len(L) : ~ (T[i] <= T[j])}
<1>3. SUFFICES ASSUME Q # {} PROVE FALSE
  OBVIOUS
<1>4. PICK j \in Q : \A k \in Q : j <= k
  <2>1. Q \in SUBSET Nat
    BY <1>1
  <2> HIDE DEF Q
  <2> QED
    BY <1>3, <2>1, Sizes!LeastOf
<1>5. j \in i .. Len(L) /\ j # i
  BY <1>2, <1>4
<1>6. j \in 1 .. Len(L) /\ j - 1 \in i .. Len(L) /\ j - 1 \notin Q /\ j - 1 \in 0 .. Len(L)
  BY <1>1, <1>4, <1>5
<1>7. T[i] <= T[j - 1] /\ T[j - 1] \in Int /\ T[i] \in Int
  BY <1>2, <1>6
<1>8. TrueSize(L[j]) \in Nat
  BY <1>6, TrueSizes
<1>9. T[j] = T[j - 1] + TrueSize(L[j])
  BY <1>2, <1>6
<1>10. T[i] <= T[j]
  BY <1>7, <1>8, <1>9
<1> QED
  BY <1>4, <1>10

(* Statements of one byte. *)
LEMMA RunOfBytes ==
    ASSUME NEW L, Listing(L), NEW T, Measures(L, T), NEW i \in 1 .. Len(L) + 1,
           NEW j \in i .. Len(L) + 1,
           \A k \in i .. j - 1 : L[k].kind = "data" /\ L[k].width = 1
    PROVE  \A k \in i .. j : T[k - 1] = T[i - 1] + (k - i)
<1>1. Len(L) \in Nat
  BY DEF Listing
<1>2. /\ T \in [0 .. Len(L) -> Int] /\ \A k \in 1 .. Len(L) : T[k] = T[k - 1] + TrueSize(L[k])
  BY DEF Measures
<1> DEFINE Q == {k \in i .. j : T[k - 1] # T[i - 1] + (k - i)}
<1>3. SUFFICES ASSUME Q # {} PROVE FALSE
  OBVIOUS
<1>4. PICK n \in Q : \A k \in Q : n <= k
  <2>1. Q \in SUBSET Nat
    BY <1>1
  <2> HIDE DEF Q
  <2> QED
    BY <1>3, <2>1, Sizes!LeastOf
<1>5. n \in i .. j /\ T[n - 1] # T[i - 1] + (n - i)
  BY <1>4
<1>6. T[i - 1] \in Int
  BY <1>1, <1>2
<1>7. n # i
  BY <1>5, <1>6
<1>8. n - 1 \in i .. j /\ n - 1 \in i .. j - 1 /\ n - 1 \in 1 .. Len(L) /\ n - 1 \notin Q
  <2>1. n - 1 \in i .. j /\ n - 1 \in i .. j - 1 /\ n - 1 \in 1 .. Len(L) /\ ~ (n <= n - 1)
    BY <1>1, <1>5, <1>7
  <2> QED
    BY <1>4, <2>1
<1>9. T[(n - 1) - 1] = T[i - 1] + ((n - 1) - i)
  BY <1>8
<1>10. TrueSize(L[n - 1]) = 1
  BY <1>8, TrueSizes
<1>11. T[n - 1] = T[(n - 1) - 1] + 1
  BY <1>2, <1>8, <1>10
<1>12. T[n - 1] = T[i - 1] + (n - i)
  BY <1>1, <1>5, <1>6, <1>9, <1>11
<1> QED
  BY <1>5, <1>12

-----------------------------------------------------------------------------
(* The items of a data statement that covers statements of a listing.       *)

LoneItem(L, T, s, item, i, p, q) ==
    /\ q = p + 1 /\ item = L[p].items[1] /\ item \in NumberItem \cup CallItem
    /\ T[q - 1] = T[p - 1] + L[p].width
    /\ p = i => L[p].width = s.width
    /\ p # i => L[p].width = 1
    /\ L[p].width = 1 => item \in NumberItem

TextOfBytes(L, T, item, p, q) ==
    /\ item \in TextItem /\ T[q - 1] = T[p - 1] + Len(item.value)
    /\ \A t \in 1 .. Len(item.value) :
          /\ p + t - 1 \in p .. q - 1
          /\ L[p + t - 1].kind = "data" /\ L[p + t - 1].width = 1
          /\ item.value[t] = L[p + t - 1].items[1].value
          /\ T[p + t - 2] = T[p - 1] + (t - 1)

(* An item is one statement of the listing, or bytes that are text.         *)
LEMMA ItemIs ==
    ASSUME NEW L, Listing(L), NEW T, Measures(L, T), NEW s, NEW i \in 1 .. Len(L),
           NEW j \in i .. Len(L) + 1, DataCovers(L, s, i, j), NEW pos,
           ItemsCover(L, s.items, pos, i, j), NEW m \in 1 .. Len(s.items)
    PROVE  /\ pos[m] \in i .. j - 1 /\ pos[m + 1] \in pos[m] + 1 .. j
           /\ m # 1 => pos[m] # i
           /\ \/ LoneItem(L, T, s, s.items[m], i, pos[m], pos[m + 1])
              \/ TextOfBytes(L, T, s.items[m], pos[m], pos[m + 1])
<1>1. PICK p, q, item : p = pos[m] /\ q = pos[m + 1] /\ item = s.items[m]
  OBVIOUS
<1>2. Len(L) \in Nat /\ i \in Nat /\ j \in Nat
  BY DEF Listing
<1>3. s.items \in Seq(Item) /\ Len(s.items) \in Nat /\ s.width = L[i].width
  BY DEF DataCovers, DataStatement
<1>4. m \in 1 .. Len(s.items) + 1 /\ m + 1 \in 1 .. Len(s.items) + 1
  BY <1>3
<1>5. p \in i .. j /\ q \in i .. j /\ ItemCovers(L, item, p, q)
  BY <1>1, <1>4 DEF ItemsCover
<1>6. p < q
  BY <1>2, <1>5 DEF ItemCovers
<1>7. p \in i .. j - 1 /\ q \in p + 1 .. j /\ p \in 1 .. Len(L)
  BY <1>2, <1>5, <1>6
<1>8. ASSUME m # 1 PROVE p # i
  <2>1. m - 1 \in 1 .. Len(s.items) /\ m - 1 \in 1 .. Len(s.items) + 1 /\ (m - 1) + 1 = m
    BY <1>3, <1>8
  <2>2. pos[m - 1] \in i .. j /\ ItemCovers(L, s.items[m - 1], pos[m - 1], p)
    BY <1>1, <2>1 DEF ItemsCover
  <2>3. pos[m - 1] < p
    BY <1>2, <1>5, <2>2 DEF ItemCovers
  <2> QED
    BY <1>2, <2>2, <2>3
<1>9. L[p].kind = "data" /\ (p # i => L[p].width = 1)
  <2>1. p # i => p \in i + 1 .. j - 1
    BY <1>2, <1>7
  <2> QED
    BY <1>7, <2>1 DEF DataCovers
<1>10. CASE q = p + 1 /\ item = L[p].items[1]
  <2>1. item \in NumberItem \cup CallItem /\ (L[p].width = 1 => item \in NumberItem)
    BY <1>7, <1>9, <1>10, LoneIs
  <2>2. T[q - 1] = T[p - 1] + L[p].width
    <3>1. q - 1 = p /\ TrueSize(L[p]) = L[p].width
      BY <1>2, <1>7, <1>9, <1>10, TrueSizes
    <3> QED
      BY <1>7, <3>1 DEF Measures
  <2>3. LoneItem(L, T, s, item, i, p, q)
    BY <1>3, <1>9, <1>10, <2>1, <2>2 DEF LoneItem
  <2> QED
    BY <1>1, <1>7, <1>8, <2>3
<1>11. CASE ~ (q = p + 1 /\ item = L[p].items[1])
  <2>1. /\ item \in TextItem /\ q = p + Len(item.value)
        /\ \A t \in 1 .. Len(item.value) :
              L[p + t - 1].width = 1 /\ item.value[t] = L[p + t - 1].items[1].value
    BY <1>5, <1>11 DEF ItemCovers
  <2>2. PICK n : n = Len(item.value)
    OBVIOUS
  <2>3. n \in Nat /\ q = p + n
    BY <2>1, <2>2 DEF TextItem
  <2>4. \A k \in p .. q - 1 : L[k].kind = "data" /\ L[k].width = 1
    <3> TAKE k \in p .. q - 1
    <3>1. k \in i .. j - 1
      BY <1>2, <1>7
    <3>2. k - p + 1 \in 1 .. n /\ p + (k - p + 1) - 1 = k
      BY <1>2, <1>7, <2>3
    <3>3. L[k].width = 1
      BY <2>1, <2>2, <3>2
    <3> QED
      BY <3>1, <3>3 DEF DataCovers
  <2>5. \A k \in p .. q : T[k - 1] = T[p - 1] + (k - p)
    <3>1. p \in 1 .. Len(L) + 1 /\ q \in p .. Len(L) + 1
      BY <1>2, <1>7
    <3> QED
      BY <2>4, <3>1, RunOfBytes
  <2>6. T[q - 1] = T[p - 1] + n
    <3>1. q \in p .. q /\ q - p = n
      BY <1>2, <1>7, <2>3
    <3> QED
      BY <2>5, <3>1
  <2>7. ASSUME NEW t \in 1 .. n
        PROVE  /\ p + t - 1 \in p .. q - 1
               /\ L[p + t - 1].kind = "data" /\ L[p + t - 1].width = 1
               /\ item.value[t] = L[p + t - 1].items[1].value
               /\ T[p + t - 2] = T[p - 1] + (t - 1)
    <3>1. p + t - 1 \in p .. q - 1 /\ p + t - 1 \in p .. q /\ (p + t - 1) - 1 = p + t - 2
          /\ (p + t - 1) - p = t - 1
      BY <1>2, <1>7, <2>3
    <3>2. T[p + t - 2] = T[p - 1] + (t - 1)
      BY <2>5, <3>1
    <3> QED
      BY <2>1, <2>2, <2>4, <3>1, <3>2
  <2>8. TextOfBytes(L, T, item, p, q)
    BY <2>1, <2>2, <2>6, <2>7 DEF TextOfBytes
  <2> QED
    BY <1>1, <1>7, <1>8, <2>8
<1> QED
  BY <1>10, <1>11

-----------------------------------------------------------------------------
(* SizeOf.                                                                  *)

(* A word that other words, or bytes as words, were joined to.              *)
Joined(s) == s.width = 2 /\ \E k \in 2 .. Len(s.items) : s.items[k].kind # "string"

SizeHolds(s, T, pos, i, m, x) ==
    LET size == T[pos[m + 1] - 1] - T[i - 1]
    IN  /\ x \in Int /\ size \in Int /\ size <= x
        /\ s.width = 1 \/ (\A k \in 2 .. m : s.items[k].kind = "string") => x = size
        /\ s.width = 2 /\ (\E k \in 2 .. m : s.items[k].kind # "string") => x > size

SizeInv(c, seq, m, x) == SizeHolds(c[1], c[2], c[3], c[4], m, x)

SizeStep(c, x, item) == x + Asm!ItemSize(c[1], item)

Sums == INSTANCE FoldRule WITH Op <- SizeStep, Holds <- SizeInv

(* One item more in the sum.                                                *)
LEMMA ItemSizes ==
    ASSUME NEW L, Listing(L), NEW T, Measures(L, T), NEW s, NEW i \in 1 .. Len(L),
           NEW j \in i .. Len(L) + 1, DataCovers(L, s, i, j), NEW pos,
           ItemsCover(L, s.items, pos, i, j), NEW m \in 1 .. Len(s.items),
           NEW x, SizeHolds(s, T, pos, i, m - 1, x)
    PROVE  SizeHolds(s, T, pos, i, m, x + Asm!ItemSize(s, s.items[m]))
<1>1. PICK p, q, item : p = pos[m] /\ q = pos[m + 1] /\ item = s.items[m]
  OBVIOUS
<1>2. Len(L) \in Nat /\ T \in [0 .. Len(L) -> Int]
  BY DEF Listing, Measures
<1>3. s.width \in {1, 2}
  BY DEF DataCovers, DataStatement
<1>4. p \in i .. j - 1 /\ q \in p + 1 .. j /\ (m # 1 => p # i) /\ m \in Nat
  <2>1. m \in Nat
    OBVIOUS
  <2> QED
    BY <1>1, <2>1, ItemIs
<1>5. T[p - 1] \in Int /\ T[q - 1] \in Int /\ T[i - 1] \in Int
  <2>1. p - 1 \in 0 .. Len(L) /\ q - 1 \in 0 .. Len(L) /\ i - 1 \in 0 .. Len(L)
    BY <1>2, <1>4
  <2> QED
    BY <1>2, <2>1
<1>6. PICK old, new, n : old = T[p - 1] - T[i - 1] /\ new = T[q - 1] - T[i - 1]
                         /\ n = Asm!ItemSize(s, item)
  OBVIOUS
<1>7. /\ x \in Int /\ old \in Int /\ old <= x
      /\ s.width = 1 \/ (\A k \in 2 .. m - 1 : s.items[k].kind = "string") => x = old
      /\ s.width = 2 /\ (\E k \in 2 .. m - 1 : s.items[k].kind # "string") => x > old
  <2>1. (m - 1) + 1 = m
    BY <1>4
  <2> QED
    BY <1>1, <1>6, <2>1 DEF SizeHolds
<1>8. ASSUME NEW y \in Int, y = x + n, new \in Int, new <= y,
             s.width = 1 \/ (\A k \in 2 .. m : s.items[k].kind = "string") => y = new,
             s.width = 2 /\ (\E k \in 2 .. m : s.items[k].kind # "string") => y > new
      PROVE  SizeHolds(s, T, pos, i, m, x + Asm!ItemSize(s, s.items[m]))
  BY <1>1, <1>6, <1>8 DEF SizeHolds
<1>9. CASE LoneItem(L, T, s, item, i, p, q)
  <2>1. item.kind # "string" /\ n = s.width
    <3>1. item.kind # "string"
      BY <1>9 DEF LoneItem, NumberItem, CallItem
    <3> QED
      BY <1>6, <3>1 DEF Asm!ItemSize
  <2>2. new = old + L[p].width /\ L[p].width \in {1, 2} /\ new \in Int
    <3>1. T[q - 1] = T[p - 1] + L[p].width /\ L[p].width \in {1, 2}
      BY <1>3, <1>9 DEF LoneItem
    <3>2. PICK a, b, w \in Int : a = T[p - 1] /\ b = T[i - 1] /\ w = L[p].width
      BY <1>5, <3>1
    <3>3. old = a - b /\ new = (a + w) - b
      BY <1>6, <3>1, <3>2
    <3>4. new = old + w /\ new \in Int
      BY <3>3
    <3> QED
      BY <3>1, <3>2, <3>4
  <2>3. CASE p = i
    <3>1. m = 1 /\ L[p].width = s.width
      BY <1>4, <1>9, <2>3 DEF LoneItem
    <3>2. x = old
      BY <1>7, <3>1
    <3>3. x + n = new /\ x + n \in Int /\ ~ (\E k \in 2 .. m : TRUE)
      BY <1>3, <1>7, <2>1, <2>2, <3>1, <3>2
    <3> QED
      BY <1>8, <2>2, <3>3
  <2>4. CASE p # i
    <3>1. L[p].width = 1
      BY <1>9, <2>4 DEF LoneItem
    <3>2. CASE m = 1
      <4>1. p = i
        BY <1>1, <3>2 DEF ItemsCover
      <4> QED
        BY <2>4, <4>1
    <3>3. CASE m # 1
      <4>1. m \in 2 .. m /\ s.items[m].kind # "string"
        BY <1>1, <1>4, <2>1, <3>3
      <4>2. x + n \in Int /\ new <= x + n
        BY <1>3, <1>7, <2>1, <2>2, <3>1
      <4>3. s.width = 1 => x + n = new
        BY <1>7, <2>1, <2>2, <3>1
      <4>4. s.width = 2 => x + n > new
        BY <1>7, <2>1, <2>2, <3>1
      <4> QED
        BY <1>8, <2>2, <4>1, <4>2, <4>3, <4>4
    <3> QED
      BY <3>2, <3>3
  <2> QED
    BY <2>3, <2>4
<1>10. CASE TextOfBytes(L, T, item, p, q)
  <2>1. item.kind = "string" /\ n = Len(item.value) /\ n \in Nat
    <3>1. item.kind = "string" /\ Len(item.value) \in Nat
      BY <1>10 DEF TextOfBytes, TextItem
    <3> QED
      BY <1>6, <3>1 DEF Asm!ItemSize
  <2>2. new = old + n /\ new \in Int
    <3>1. T[q - 1] = T[p - 1] + n
      BY <1>10, <2>1 DEF TextOfBytes
    <3>2. PICK a, b \in Int : a = T[p - 1] /\ b = T[i - 1]
      BY <1>5
    <3>3. old = a - b /\ new = (a + n) - b
      BY <1>6, <3>1, <3>2
    <3> QED
      BY <2>1, <3>3
  <2>3. x + n \in Int /\ new <= x + n /\ (x = old => x + n = new) /\ (x > old => x + n > new)
    BY <1>7, <2>1, <2>2
  <2>4. \A k \in 2 .. m : k = m \/ k \in 2 .. m - 1
    BY <1>4
  <2>5. \A k \in 2 .. m - 1 : k \in 2 .. m
    BY <1>4
  <2> QED
    BY <1>1, <1>7, <1>8, <2>1, <2>2, <2>3, <2>4, <2>5
<1> QED
  BY <1>1, <1>9, <1>10, ItemIs

(* SizeOf is what the covered statements take, and more of joined words.    *)
LEMMA DataSize ==
    ASSUME NEW L, Listing(L), NEW T, Measures(L, T), NEW s, NEW i \in 1 .. Len(L),
           NEW j \in i .. Len(L) + 1, DataCovers(L, s, i, j)
    PROVE  /\ Asm!SizeOf(s) \in Int /\ T[j - 1] - T[i - 1] <= Asm!SizeOf(s)
           /\ ~Joined(s) => Asm!SizeOf(s) = T[j - 1] - T[i - 1]
           /\ Joined(s) => Asm!SizeOf(s) > T[j - 1] - T[i - 1]
<1>1. PICK pos : ItemsCover(L, s.items, pos, i, j)
  BY DEF DataCovers
<1>2. PICK c, n : c = <<s, T, pos, i>> /\ n = Len(s.items)
  OBVIOUS
<1>3. c[1] = s /\ c[2] = T /\ c[3] = pos /\ c[4] = i
  BY <1>2
<1>4. n \in Nat /\ DOMAIN s.items = 1 .. n /\ s.kind = "data" /\ s.width \in {1, 2}
  BY <1>2 DEF DataCovers, DataStatement
<1>5. pos[1] = i /\ pos[n + 1] = j
  BY <1>1, <1>2 DEF ItemsCover
<1>6. T[i - 1] \in Int
  <2>1. i - 1 \in 0 .. Len(L)
    BY DEF Listing
  <2> QED
    BY <2>1 DEF Measures
<1>7. SizeInv(c, s.items, 0, 0)
  <2>1. T[pos[0 + 1] - 1] - T[i - 1] = 0
    BY <1>5, <1>6
  <2>2. \A k \in 2 .. 0 : FALSE
    OBVIOUS
  <2>3. SizeHolds(s, T, pos, i, 0, 0)
    BY <2>1, <2>2 DEF SizeHolds
  <2> QED
    BY <1>3, <2>3 DEF SizeInv
<1>8. ASSUME NEW m \in 1 .. n, NEW x, SizeInv(c, s.items, m - 1, x)
      PROVE  SizeInv(c, s.items, m, SizeStep(c, x, s.items[m]))
  <2>1. SizeHolds(s, T, pos, i, m - 1, x)
    BY <1>3, <1>8 DEF SizeInv
  <2>2. SizeHolds(s, T, pos, i, m, x + Asm!ItemSize(s, s.items[m]))
    BY <1>1, <1>2, <2>1, ItemSizes
  <2> QED
    BY <1>3, <2>2 DEF SizeInv, SizeStep
<1>9. PICK x : x = Sums!Fold(c, 0, s.items)
  OBVIOUS
<1>10. SizeInv(c, s.items, n, x)
  BY <1>4, <1>7, <1>8, <1>9, Sums!Rule
<1>11. Asm!SizeOf(s) = x
  BY <1>3, <1>4, <1>9 DEF Asm!SizeOf, Sums!Fold, SizeStep, FoldLeft, MapThenFoldSet,
                Sums!MapThenFoldSet, Sums!Largest, Max,
                Asm!FoldLeft, Asm!MapThenFoldSet, Asm!Max
<1>12. SizeHolds(s, T, pos, i, n, x)
  BY <1>3, <1>10 DEF SizeInv
<1> QED
  BY <1>2, <1>4, <1>5, <1>11, <1>12 DEF SizeHolds, Joined

-----------------------------------------------------------------------------
(* Bytes that are those of the ROM Y from an address to another.            *)

Spells(Y, b, u, v) ==
    /\ b \in Seq(Int) /\ u \in Int /\ v = u + Len(b)
    /\ \A t \in 1 .. Len(b) : b[t] = Y[u + t - 1]

(* The bytes of two neighbouring parts of the ROM.                          *)
LEMMA SpellsBoth ==
    ASSUME NEW Y, NEW a, NEW b, NEW u, NEW v, NEW w, Spells(Y, a, u, v), Spells(Y, b, v, w)
    PROVE  Spells(Y, a \o b, u, w)
<1>1. PICK c : c = a \o b
  OBVIOUS
<1>2. PICK n, m : n = Len(a) /\ m = Len(b)
  OBVIOUS
<1>3. /\ a \in Seq(Int) /\ b \in Seq(Int) /\ u \in Int /\ v = u + n /\ w = v + m
      /\ (\A t \in 1 .. n : a[t] = Y[u + t - 1]) /\ (\A t \in 1 .. m : b[t] = Y[v + t - 1])
  BY <1>2 DEF Spells
<1>4. n \in Nat /\ m \in Nat
  BY <1>2, <1>3
<1>5. /\ c \in Seq(Int) /\ Len(c) = n + m
      /\ (\A t \in 1 .. n : c[t] = a[t]) /\ (\A t \in 1 .. m : c[n + t] = b[t])
  <2>1. c \in Seq(Int) /\ Len(c) = n + m
    BY <1>1, <1>2, <1>3
  <2>2. ASSUME NEW t \in 1 .. n PROVE c[t] = a[t]
    BY <1>1, <1>2, <1>3
  <2>3. ASSUME NEW t \in 1 .. m PROVE c[n + t] = b[t]
    BY <1>1, <1>2, <1>3
  <2> QED
    BY <2>1, <2>2, <2>3
<1>6. w = u + Len(c)
  BY <1>3, <1>4, <1>5
<1>7. ASSUME NEW t \in 1 .. n + m PROVE c[t] = Y[u + t - 1]
  <2>1. CASE t \in 1 .. n
    BY <1>3, <1>5, <2>1
  <2>2. CASE t \notin 1 .. n
    <3>1. t - n \in 1 .. m /\ n + (t - n) = t /\ v + (t - n) - 1 = u + t - 1
      BY <1>3, <1>4, <2>2
    <3>2. c[t] = b[t - n] /\ b[t - n] = Y[v + (t - n) - 1]
      BY <1>3, <1>5, <3>1
    <3> QED
      BY <3>1, <3>2
  <2> QED
    BY <2>1, <2>2
<1> QED
  BY <1>1, <1>3, <1>5, <1>6, <1>7 DEF Spells

(* No part of the ROM is spelled in two ways.                               *)
LEMMA SpellsSame ==
    ASSUME NEW Y, NEW a, NEW b, NEW u, NEW v, Spells(Y, a, u, v), Spells(Y, b, u, v)
    PROVE  a = b
<1>1. a \in Seq(Int) /\ b \in Seq(Int) /\ u \in Int /\ v = u + Len(a) /\ v = u + Len(b)
  BY DEF Spells
<1>2. PICK n, m \in Nat : n = Len(a) /\ m = Len(b)
  BY <1>1
<1>3. n = m
  BY <1>1, <1>2
<1>4. \A t \in 1 .. Len(a) : a[t] = b[t]
  BY <1>2, <1>3 DEF Spells
<1> QED
  BY <1>1, <1>2, <1>3, <1>4, SeqEqual

(* What a statement of a listing is assembled to, at address a.             *)
LoneBytes(s, a, V) ==
    IF s.kind = "instruction" THEN Asm!InstructionBytes(s, a, V)
    ELSE Asm!ItemBytes(s, s.items[1], V)

(* Every statement of the listing is assembled to its bytes of Y.           *)
Spelled(L, T, Y, V) ==
    \A k \in 1 .. Len(L) : L[k].kind # "label" =>
       /\ Spells(Y, LoneBytes(L[k], T[k - 1], V), T[k - 1], T[k])
       /\ L[k].kind = "data" /\ L[k].items[1].kind = "call" =>
             L[k].items[1].value \in DOMAIN V

(* So is every item that stands for some of them,                           *)
LEMMA ItemSpelled ==
    ASSUME NEW L, Listing(L), NEW T, Measures(L, T), NEW Y, NEW V, Spelled(L, T, Y, V),
           NEW s, NEW i \in 1 .. Len(L), ~Joined(s),
           NEW j \in i .. Len(L) + 1, DataCovers(L, s, i, j), NEW pos,
           ItemsCover(L, s.items, pos, i, j), NEW m \in 1 .. Len(s.items)
    PROVE  /\ Spells(Y, Asm!ItemBytes(s, s.items[m], V), T[pos[m] - 1], T[pos[m + 1] - 1])
           /\ s.items[m].kind = "call" => s.items[m].value \in DOMAIN V
<1>1. PICK p, q, item : p = pos[m] /\ q = pos[m + 1] /\ item = s.items[m]
  OBVIOUS
<1>2. Len(L) \in Nat /\ T \in [0 .. Len(L) -> Int]
  BY DEF Listing, Measures
<1>3. s.width \in {1, 2} /\ Len(s.items) \in Nat
  BY DEF DataCovers, DataStatement
<1>4. p \in i .. j - 1 /\ q \in p + 1 .. j /\ (m # 1 => p # i)
  BY <1>1, ItemIs
<1>5. p \in 1 .. Len(L) /\ L[p].kind = "data" /\ p - 1 \in 0 .. Len(L)
  <2>1. p \in i .. j - 1 /\ p \in 1 .. Len(L) /\ p - 1 \in 0 .. Len(L)
    BY <1>2, <1>4
  <2> QED
    BY <2>1 DEF DataCovers
<1>6. CASE LoneItem(L, T, s, item, i, p, q)
  <2>1. q - 1 = p /\ item = L[p].items[1] /\ item.kind # "string"
    <3>1. q = p + 1 /\ item = L[p].items[1] /\ item.kind # "string"
      BY <1>6 DEF LoneItem, NumberItem, CallItem
    <3> QED
      BY <1>5, <3>1
  <2>2. s.width = L[p].width
    <3>1. CASE p = i
      BY <1>6, <3>1 DEF LoneItem
    <3>2. CASE p # i
      <4>1. m # 1
        BY <1>1, <3>2 DEF ItemsCover
      <4>2. m \in 2 .. Len(s.items)
        BY <1>3, <4>1
      <4>3. s.width # 2
        BY <1>1, <2>1, <4>2 DEF Joined
      <4>4. L[p].width = 1
        BY <1>6, <3>2 DEF LoneItem
      <4> QED
        BY <1>3, <4>3, <4>4
    <3> QED
      BY <3>1, <3>2
  <2>3. Asm!ItemBytes(s, item, V) = LoneBytes(L[p], T[p - 1], V)
    BY <1>5, <2>1, <2>2 DEF LoneBytes, Asm!ItemBytes
  <2>4. Spells(Y, LoneBytes(L[p], T[p - 1], V), T[p - 1], T[p])
    BY <1>5 DEF Spelled
  <2>5. item.kind = "call" => item.value \in DOMAIN V
    BY <1>5, <2>1 DEF Spelled
  <2> QED
    BY <1>1, <2>1, <2>3, <2>4, <2>5
<1>7. CASE TextOfBytes(L, T, item, p, q)
  <2>1. item.kind = "string" /\ item.value \in Seq(Int)
    BY <1>7 DEF TextOfBytes, TextItem
  <2>2. Asm!ItemBytes(s, item, V) = item.value
    BY <2>1 DEF Asm!ItemBytes
  <2>3. T[p - 1] \in Int /\ T[q - 1] = T[p - 1] + Len(item.value)
    BY <1>2, <1>5, <1>7 DEF TextOfBytes
  <2>4. ASSUME NEW t \in 1 .. Len(item.value) PROVE item.value[t] = Y[T[p - 1] + t - 1]
    <3>1. PICK r : r = p + t - 1
      OBVIOUS
    <3>2. t \in Int /\ Len(item.value) \in Nat
      BY <2>1
    <3>3. r \in p .. q - 1 /\ L[r].kind = "data" /\ L[r].width = 1
          /\ item.value[t] = L[r].items[1].value /\ T[p + t - 2] = T[p - 1] + (t - 1)
      BY <1>7, <3>1 DEF TextOfBytes
    <3>4. r \in 1 .. Len(L) /\ r - 1 = p + t - 2 /\ T[p - 1] + (t - 1) = T[p - 1] + t - 1
      BY <1>2, <1>4, <1>5, <2>3, <3>1, <3>2, <3>3
    <3>5. L[r].items[1] \in NumberItem
      BY <3>3, <3>4, LoneIs
    <3>6. LoneBytes(L[r], T[r - 1], V) = <<L[r].items[1].value>>
      BY <3>3, <3>5 DEF LoneBytes, Asm!ItemBytes, NumberItem
    <3>7. Spells(Y, <<L[r].items[1].value>>, T[r - 1], T[r])
      BY <3>3, <3>4, <3>6 DEF Spelled
    <3>8. L[r].items[1].value = Y[T[r - 1] + 1 - 1]
      <4>1. PICK b : b = <<L[r].items[1].value>>
        OBVIOUS
      <4>2. 1 \in 1 .. Len(b) /\ b[1] = L[r].items[1].value
        BY <4>1
      <4>3. b[1] = Y[T[r - 1] + 1 - 1]
        BY <3>7, <4>1, <4>2 DEF Spells
      <4> QED
        BY <4>2, <4>3
    <3>9. T[r - 1] + 1 - 1 = T[r - 1] /\ T[r - 1] = T[p - 1] + t - 1
      BY <2>3, <3>2, <3>3, <3>4
    <3> QED
      BY <3>3, <3>8, <3>9
  <2>5. Spells(Y, item.value, T[p - 1], T[q - 1])
    BY <2>1, <2>3, <2>4 DEF Spells
  <2> QED
    BY <1>1, <2>1, <2>2, <2>5
<1> QED
  BY <1>1, <1>6, <1>7, ItemIs

SpellInv(c, seq, m, b) == Spells(c[1], b, c[2][c[3] - 1], c[2][c[4][m + 1] - 1])

SpellStep(c, b, item) == b \o Asm!ItemBytes(c[5], item, c[6])

Spelling == INSTANCE FoldRule WITH Op <- SpellStep, Holds <- SpellInv

(* and every statement of data.                                             *)
LEMMA DataSpelled ==
    ASSUME NEW L, Listing(L), NEW T, Measures(L, T), NEW Y, NEW V, Spelled(L, T, Y, V),
           NEW s, NEW i \in 1 .. Len(L), ~Joined(s),
           NEW j \in i .. Len(L) + 1, DataCovers(L, s, i, j), NEW a
    PROVE  Spells(Y, Asm!StatementBytes(s, a, V), T[i - 1], T[j - 1])
<1>1. PICK pos : ItemsCover(L, s.items, pos, i, j)
  BY DEF DataCovers
<1>2. PICK c : c = <<Y, T, i, pos, s, V>>
  OBVIOUS
<1>3. PICK n : n = Len(s.items)
  OBVIOUS
<1>4. c[1] = Y /\ c[2] = T /\ c[3] = i /\ c[4] = pos /\ c[5] = s /\ c[6] = V
  BY <1>2
<1>5. n \in Nat /\ DOMAIN s.items = 1 .. n /\ s.kind = "data"
  BY <1>3 DEF DataCovers, DataStatement
<1>6. pos[1] = i /\ pos[n + 1] = j
  BY <1>1, <1>3 DEF ItemsCover
<1>7. T[i - 1] \in Int
  <2>1. i - 1 \in 0 .. Len(L)
    BY DEF Listing
  <2> QED
    BY <2>1 DEF Measures
<1>8. SpellInv(c, s.items, 0, << >>)
  <2>1. PICK none : none = << >>
    OBVIOUS
  <2>2. none \in Seq(Int) /\ Len(none) = 0
    BY <2>1
  <2>3. T[i - 1] = T[i - 1] + Len(none)
    BY <1>7, <2>2
  <2>4. Spells(Y, none, T[i - 1], T[i - 1])
    BY <1>7, <2>2, <2>3 DEF Spells
  <2>5. pos[0 + 1] = i
    BY <1>6
  <2> QED
    BY <1>4, <2>1, <2>4, <2>5 DEF SpellInv
<1>9. ASSUME NEW m \in 1 .. n, NEW b, SpellInv(c, s.items, m - 1, b)
      PROVE  SpellInv(c, s.items, m, SpellStep(c, b, s.items[m]))
  <2>1. Spells(Y, b, T[i - 1], T[pos[m] - 1])
    <3>1. (m - 1) + 1 = m
      OBVIOUS
    <3> QED
      BY <1>4, <1>9, <3>1 DEF SpellInv
  <2>2. Spells(Y, Asm!ItemBytes(s, s.items[m], V), T[pos[m] - 1], T[pos[m + 1] - 1])
    BY <1>1, <1>3, ItemSpelled
  <2>3. Spells(Y, b \o Asm!ItemBytes(s, s.items[m], V), T[i - 1], T[pos[m + 1] - 1])
    BY <2>1, <2>2, SpellsBoth
  <2> QED
    BY <1>4, <2>3 DEF SpellInv, SpellStep
<1>10. PICK b : b = Spelling!Fold(c, << >>, s.items)
  OBVIOUS
<1>11. SpellInv(c, s.items, n, b)
  BY <1>5, <1>8, <1>9, <1>10, Spelling!Rule
<1>12. ~Asm!IsUndefined(s, V)
  BY <1>1, <1>3, <1>5, ItemSpelled DEF Asm!IsUndefined
<1>13. Asm!StatementBytes(s, a, V) = b
  BY <1>4, <1>5, <1>10, <1>12 DEF Asm!StatementBytes, Spelling!Fold, SpellStep, FoldLeft, MapThenFoldSet,
                Spelling!MapThenFoldSet, Spelling!Largest, Max,
                Asm!FoldLeft, Asm!MapThenFoldSet, Asm!Max
<1> QED
  BY <1>4, <1>6, <1>11, <1>13 DEF SpellInv

-----------------------------------------------------------------------------
(* Resolve, of statements that stand for a listing without exceptions.      *)

(* There are none: the text is as long as the listing, nothing is refused.  *)
Fits(L, T, x, at) ==
    /\ End \in Int
    /\ \A k \in 1 .. Len(L) : T[k - 1] < End - 1
    /\ \A i, j \in 1 .. Len(L) :
          L[i].kind = "label" /\ L[j].kind = "label" /\ L[i].name = L[j].name => i = j
    /\ \A k \in 1 .. Len(L) : L[k].kind = "data" =>
          L[k].home = T[k - 1] /\ (L[k].width = 1 => L[k].items[1].value \in 0 .. Radix - 1)
    /\ \A k \in 1 .. Len(L) : L[k].kind = "instruction" =>
          ~Asm!IsRefused(L[k]) /\ ~Asm!IsShort(L[k]) /\ ~Asm!IsJmpIndirect(L[k])
    /\ \A m \in 1 .. Len(x) : x[m].kind = "data" => ~Joined(x[m])
    /\ \A m \in 1 .. Len(x) : x[m].kind = "org" =>
          \A k \in at[m] .. at[m + 1] - 1 : L[k].width = 1

(* What a statement of the text stands for, by its kind.                    *)
LEMMA CoveredIs ==
    ASSUME NEW L, Listing(L), NEW x, NEW at, Chain(L, x, at, Len(L) + 1), NEW m \in 1 .. Len(x)
    PROVE  /\ x[m] \in Statement /\ x[m].kind \in {"label", "org", "instruction", "data"}
           /\ at[m] \in 1 .. Len(L) /\ at[m + 1] \in at[m] + 1 .. Len(L) + 1
           /\ x[m].kind \in {"label", "instruction"} =>
                 at[m + 1] = at[m] + 1 /\ x[m] = L[at[m]]
           /\ x[m].kind = "org" => OrgCovers(L, x[m], at[m], at[m + 1])
           /\ x[m].kind = "data" => DataCovers(L, x[m], at[m], at[m + 1])
           /\ x[m].kind # "label" => \A k \in at[m] .. at[m + 1] - 1 : L[k].kind # "label"
<1>1. PICK s, i, j : s = x[m] /\ i = at[m] /\ j = at[m + 1]
  OBVIOUS
<1>2. /\ x \in Seq(Statement) /\ Len(x) \in Nat /\ Len(L) \in Nat
      /\ s \in Statement /\ Covers(L, s, i, j)
  BY <1>1 DEF Chain, Listing
<1>3. m \in 1 .. Len(x) + 1 /\ m + 1 \in 1 .. Len(x) + 1 /\ m < m + 1
  BY <1>2
<1>4. i \in 1 .. Len(L) + 1 /\ j \in 1 .. Len(L) + 1 /\ i < j
  BY <1>1, <1>3 DEF Chain
<1>5. i \in 1 .. Len(L) /\ j \in i + 1 .. Len(L) + 1 /\ j \in Nat
  BY <1>2, <1>4
<1>6. s.kind \in {"label", "org", "instruction", "data"}
  BY <1>2 DEF Statement, LabelStatement, OrgStatement, CodeStatement, DataStatement
<1>7. L[i].kind # "org"
  BY <1>5, LoneIs
<1>8. s.kind \in {"label", "instruction"} => j = i + 1 /\ s = L[i]
  BY <1>2 DEF Covers, OrgCovers, DataCovers, OrgStatement, DataStatement
<1>9. s.kind = "org" => OrgCovers(L, s, i, j)
  BY <1>2, <1>7 DEF Covers, DataCovers, DataStatement
<1>10. s.kind = "data" => DataCovers(L, s, i, j)
  BY <1>2, <1>5, DataIsCovered
<1>11. ASSUME s.kind # "label", NEW k \in i .. j - 1 PROVE L[k].kind # "label"
  <2>1. CASE s.kind = "org"
    <3>1. Asm!IsRepeatable(L[k])
      BY <1>9, <2>1 DEF OrgCovers
    <3> QED
      BY <3>1 DEF Asm!IsRepeatable
  <2>2. CASE s.kind = "data"
    BY <1>10, <2>2 DEF DataCovers
  <2>3. CASE s.kind = "instruction"
    <3>1. k = i
      BY <1>5, <1>8, <2>3
    <3> QED
      BY <1>8, <2>3, <3>1
  <2> QED
    BY <1>6, <1>11, <2>1, <2>2, <2>3
<1> QED
  BY <1>1, <1>2, <1>5, <1>6, <1>8, <1>9, <1>10, <1>11

(* An .org is at the address its run ends at.                               *)
LEMMA OrgIsPlaced ==
    ASSUME NEW L, Listing(L), NEW T, Measures(L, T), NEW x, NEW at,
           Chain(L, x, at, Len(L) + 1), Fits(L, T, x, at),
           NEW m \in 1 .. Len(x), x[m].kind = "org"
    PROVE  /\ x[m].value = T[at[m + 1] - 1]
           /\ \A k \in at[m] .. at[m + 1] : T[k - 1] = T[at[m] - 1] + (k - at[m])
           /\ \A k \in at[m] .. at[m + 1] - 1 :
                 /\ L[k].kind = "data" /\ L[k].width = 1
                 /\ L[k].items[1].kind = "number" /\ L[k].items[1].value = x[m].fill
<1>1. PICK s, i, j : s = x[m] /\ i = at[m] /\ j = at[m + 1]
  OBVIOUS
<1>2. /\ i \in 1 .. Len(L) /\ j \in i + 1 .. Len(L) + 1 /\ OrgCovers(L, s, i, j) /\ Len(L) \in Nat
  BY <1>1, CoveredIs DEF Listing
<1>3. ASSUME NEW k \in i .. j - 1
      PROVE  /\ L[k].kind = "data" /\ L[k].width = 1 /\ k \in 1 .. Len(L)
             /\ L[k].items[1].kind = "number" /\ L[k].items[1].value % Radix = s.fill
  <2>1. Asm!IsRepeatable(L[k]) /\ Asm!LowByte(L[k]) = s.fill
    BY <1>2 DEF OrgCovers
  <2>2. L[k].width = 1
    BY <1>1 DEF Fits
  <2>3. k \in 1 .. Len(L)
    BY <1>2
  <2> QED
    BY <2>1, <2>2, <2>3 DEF Asm!IsRepeatable, Asm!LowByte
<1>4. \A k \in i .. j : T[k - 1] = T[i - 1] + (k - i)
  <2>1. i \in 1 .. Len(L) + 1 /\ j \in i .. Len(L) + 1
    BY <1>2
  <2> QED
    BY <1>3, <2>1, RunOfBytes
<1>5. s.value = T[j - 1]
  <2>1. i \in i .. j - 1 /\ j \in i .. j
    BY <1>2
  <2>2. L[i].home = T[i - 1]
    BY <1>2, <1>3, <2>1 DEF Fits
  <2> QED
    BY <1>2, <1>4, <2>1, <2>2 DEF OrgCovers
<1>6. ASSUME NEW k \in i .. j - 1 PROVE L[k].items[1].value = s.fill
  <2>1. L[k].items[1].value \in 0 .. Radix - 1
    BY <1>3 DEF Fits
  <2>2. L[k].items[1].value % Radix = s.fill
    BY <1>3
  <2>3. PICK v : v = L[k].items[1].value
    OBVIOUS
  <2>4. Radix \in Nat \ {0}
    BY PackageAssumption
  <2>5. v % Radix = v
    <3>1. PICK n : n = Radix
      OBVIOUS
    <3>2. n \in Nat /\ n > 0 /\ v \in Nat /\ v < n
      BY <2>1, <2>3, <2>4, <3>1
    <3>3. v % n = v
      BY ONLY <3>2
    <3> QED
      BY <3>1, <3>3
  <2> QED
    BY <2>2, <2>3, <2>5
<1> QED
  BY <1>1, <1>3, <1>4, <1>5, <1>6

(* Every statement takes what those it stands for take.                     *)
LEMMA SizeFits ==
    ASSUME NEW L, Listing(L), NEW T, Measures(L, T), NEW x, NEW at,
           Chain(L, x, at, Len(L) + 1), Fits(L, T, x, at), NEW m \in 1 .. Len(x)
    PROVE  /\ x[m].kind \in {"data", "instruction"} =>
                 Asm!SizeOf(x[m]) = T[at[m + 1] - 1] - T[at[m] - 1]
           /\ x[m].kind = "label" => T[at[m + 1] - 1] = T[at[m] - 1]
           /\ T[at[m] - 1] \in Int /\ T[at[m + 1] - 1] \in Int /\ T[at[m] - 1] < End - 1
<1>1. PICK s, i, j : s = x[m] /\ i = at[m] /\ j = at[m + 1]
  OBVIOUS
<1>2. /\ i \in 1 .. Len(L) /\ j \in i + 1 .. Len(L) + 1 /\ Len(L) \in Nat
      /\ s.kind \in {"label", "instruction"} => j = i + 1 /\ s = L[i]
      /\ s.kind = "data" => DataCovers(L, s, i, j)
  BY <1>1, CoveredIs DEF Listing
<1>3. T[i - 1] \in Int /\ T[j - 1] \in Int /\ T[i - 1] < End - 1
  <2>1. i - 1 \in 0 .. Len(L) /\ j - 1 \in 0 .. Len(L)
    BY <1>2
  <2> QED
    BY <1>2, <2>1 DEF Measures, Fits
<1>4. s.kind = "data" => Asm!SizeOf(s) = T[j - 1] - T[i - 1]
  <2>1. j \in i .. Len(L) + 1
    BY <1>2
  <2>2. s.kind = "data" => ~Joined(s)
    BY <1>1 DEF Fits
  <2> QED
    BY <1>2, <2>1, <2>2, DataSize
<1>5. s.kind \in {"label", "instruction"} => T[j - 1] = T[i - 1] + TrueSize(L[i])
  <2>1. j = i + 1 => j - 1 = i
    BY <1>2
  <2> QED
    BY <1>2, <2>1 DEF Measures
<1>6. s.kind = "label" => T[j - 1] = T[i - 1]
  BY <1>2, <1>3, <1>5, TrueSizes
<1>7. ASSUME s.kind = "instruction" PROVE Asm!SizeOf(s) = T[j - 1] - T[i - 1]
  <2>1. ~Asm!IsShort(s) /\ ~Asm!IsJmpIndirect(s) /\ s = L[i]
    BY <1>2, <1>7 DEF Fits
  <2>2. s.code \in DOMAIN Shape /\ TrueSize(L[i]) = Shape[s.code].size /\ TrueSize(L[i]) \in Nat
    BY <1>2, <1>7, <2>1, TrueSizes
  <2>3. Asm!SizeOf(s) = Shape[s.code].size
    BY <1>7, <2>1, <2>2 DEF Asm!SizeOf
  <2>4. PICK a, b \in Int : a = T[i - 1] /\ b = TrueSize(L[i])
    BY <1>3, <2>2
  <2>5. T[j - 1] = a + b
    BY <1>5, <1>7, <2>4
  <2> QED
    BY <2>2, <2>3, <2>4, <2>5
<1> QED
  BY <1>1, <1>3, <1>4, <1>6, <1>7

-----------------------------------------------------------------------------
(* What Resolve knows behind the first n statements of x. *)
ResHolds(L, T, x, at, n, p) ==
    /\ p = [offset |-> T[at[n + 1] - 1], offsets |-> p.offsets, labels |-> p.labels,
            failed |-> FALSE]
    /\ p.offsets \in Seq(Int) /\ Len(p.offsets) = n + 1
    /\ \A m \in 1 .. n : x[m].kind \in {"data", "instruction"} => p.offsets[m + 1] = T[at[m] - 1]
    /\ p.labels = [a \in DOMAIN p.labels |-> p.labels[a]]
    /\ \A a : a \in DOMAIN p.labels <=>
                 \E i \in 1 .. at[n + 1] - 1 : L[i].kind = "label" /\ L[i].name = a
    /\ \A i \in 1 .. at[n + 1] - 1 : L[i].kind = "label" => p.labels[L[i].name] = T[i - 1]

(* The same, with the parts of p by names.                                  *)
ResIs(L, T, x, at, n, p, j, f, o, labs) ==
    /\ n \in Nat /\ j = at[n + 1] /\ f = T[j - 1]
    /\ o \in Seq(Int) /\ Len(o) = n + 1
    /\ p = [offset |-> f, offsets |-> o, labels |-> labs, failed |-> FALSE]
    /\ \A m \in 1 .. n : x[m].kind \in {"data", "instruction"} => o[m + 1] = T[at[m] - 1]
    /\ labs = [a \in DOMAIN labs |-> labs[a]]
    /\ \A a : a \in DOMAIN labs <=>
                 \E i \in 1 .. j - 1 : L[i].kind = "label" /\ L[i].name = a
    /\ \A i \in 1 .. j - 1 : L[i].kind = "label" => labs[L[i].name] = T[i - 1]

LEMMA IsResHolds ==
    ASSUME NEW L, NEW T, NEW x, NEW at, NEW n, NEW f, NEW o, NEW labs, NEW p, NEW j,
           ResIs(L, T, x, at, n, p, j, f, o, labs)
    PROVE  ResHolds(L, T, x, at, n, p)
<1>1. p.offsets = o /\ p.labels = labs
  BY DEF ResIs
<1> QED
  BY <1>1 DEF ResIs, ResHolds

(* One statement of each kind.                                              *)
LEMMA ResolveOrg ==
    ASSUME NEW L, Listing(L), NEW T, Measures(L, T), NEW x, NEW at,
           Chain(L, x, at, Len(L) + 1), Fits(L, T, x, at), NEW n \in 1 .. Len(x),
           NEW p, ResHolds(L, T, x, at, n - 1, p), x[n].kind = "org"
    PROVE  ResHolds(L, T, x, at, n, Asm!ResolveStatement(p, x[n]))
<1>0. n \in Nat /\ n > 0
  BY DEF Chain
<1>1. PICK s, i, j : s = x[n] /\ i = at[n] /\ j = at[n + 1]
  OBVIOUS
<1>2. /\ i \in 1 .. Len(L) /\ j \in i + 1 .. Len(L) + 1 /\ Len(L) \in Nat
      /\ \A k \in i .. j - 1 : L[k].kind # "label"
  <2>1. s.kind # "label"
    BY <1>1
  <2> QED
    BY <1>1, <2>1, CoveredIs DEF Listing
<1>3. s.value = T[j - 1] /\ T[j - 1] \in Int
  <2>1. j - 1 \in 0 .. Len(L)
    BY <1>2
  <2>2. x[n].value = T[at[n + 1] - 1]
    BY OrgIsPlaced
  <2>3. T[j - 1] \in Int
    BY <2>1 DEF Measures
  <2> QED
    BY <1>1, <2>2, <2>3
<1>4. PICK o, labs, e : o = p.offsets /\ labs = p.labels /\ e = p.offset
  OBVIOUS
<1>5. n - 1 + 1 = n
  OBVIOUS
<1>6. /\ p = [offset |-> e, offsets |-> o, labels |-> labs, failed |-> FALSE]
      /\ o \in Seq(Int) /\ Len(o) = n
      /\ \A m \in 1 .. n - 1 : x[m].kind \in {"data", "instruction"} => o[m + 1] = T[at[m] - 1]
      /\ labs = [a \in DOMAIN labs |-> labs[a]]
      /\ \A a : a \in DOMAIN labs <=> \E k \in 1 .. i - 1 : L[k].kind = "label" /\ L[k].name = a
      /\ \A k \in 1 .. i - 1 : L[k].kind = "label" => labs[L[k].name] = T[k - 1]
  BY <1>1, <1>4, <1>5 DEF ResHolds
<1>7. Asm!ResolveStatement(p, x[n]) =
         [offset |-> s.value, offsets |-> Append(o, s.value), labels |-> labs, failed |-> FALSE]
  BY <1>1, <1>6 DEF Asm!ResolveStatement
<1>8. Append(o, s.value) \in Seq(Int) /\ Len(Append(o, s.value)) = n + 1
      /\ \A m \in 1 .. n - 1 : Append(o, s.value)[m + 1] = o[m + 1]
  <2>1. o \in Seq(Int) /\ s.value \in Int /\ Len(o) = n
    BY <1>3, <1>6
  <2>2. /\ Append(o, s.value) \in Seq(Int) /\ Len(Append(o, s.value)) = Len(o) + 1
        /\ \A m \in 1 .. Len(o) : Append(o, s.value)[m] = o[m]
    BY <2>1, AppendProperties
  <2>3. \A m \in 1 .. n - 1 : m + 1 \in 1 .. n
    BY <1>0
  <2> QED
    BY <2>1, <2>2, <2>3
<1>9. \A m \in 1 .. n : x[m].kind \in {"data", "instruction"} =>
                           Append(o, s.value)[m + 1] = T[at[m] - 1]
  <2> SUFFICES ASSUME NEW m \in 1 .. n, x[m].kind \in {"data", "instruction"}
               PROVE  Append(o, s.value)[m + 1] = T[at[m] - 1]
    OBVIOUS
  <2>1. m # n
    BY <1>1
  <2>2. m \in 1 .. n - 1
    BY <2>1
  <2> QED
    BY <1>6, <1>8, <2>2
<1>10. \A k \in 1 .. j - 1 : L[k].kind = "label" => k \in 1 .. i - 1
  BY <1>2
<1>11. 1 .. i - 1 \subseteq 1 .. j - 1
  BY <1>2
<1>12. /\ \A a : a \in DOMAIN labs <=> \E k \in 1 .. j - 1 : L[k].kind = "label" /\ L[k].name = a
       /\ \A k \in 1 .. j - 1 : L[k].kind = "label" => labs[L[k].name] = T[k - 1]
  BY <1>6, <1>10, <1>11
<1>13. s.value = T[at[n + 1] - 1]
  BY <1>1, <1>3
<1> QED
  <2>1. PICK off, r : off = Append(o, s.value) /\ r = Asm!ResolveStatement(p, x[n])
    OBVIOUS
  <2>2. off \in Seq(Int) /\ Len(off) = n + 1 /\ s.value = T[j - 1] /\ j = at[n + 1]
        /\ r = [offset |-> s.value, offsets |-> off, labels |-> labs, failed |-> FALSE]
    BY <1>1, <1>3, <1>7, <1>8, <2>1
  <2>3. \A m \in 1 .. n : x[m].kind \in {"data", "instruction"} => off[m + 1] = T[at[m] - 1]
    BY <1>9, <2>1
  <2>4. labs = [a \in DOMAIN labs |-> labs[a]]
    BY <1>6, <1>12
  <2>5. \A a : a \in DOMAIN labs <=> \E k \in 1 .. j - 1 : L[k].kind = "label" /\ L[k].name = a
    BY <1>6, <1>12
  <2>6. \A k \in 1 .. j - 1 : L[k].kind = "label" => labs[L[k].name] = T[k - 1]
    BY <1>6, <1>12
  <2>7. ResIs(L, T, x, at, n, r, j, s.value, off, labs)
    BY <1>0, <2>2, <2>3, <2>4, <2>5, <2>6 DEF ResIs
  <2>8. ResHolds(L, T, x, at, n, r)
    BY <2>7, IsResHolds
  <2> QED
    BY <2>1, <2>8

LEMMA ResolveALabel ==
    ASSUME NEW L, Listing(L), NEW T, Measures(L, T), NEW x, NEW at,
           Chain(L, x, at, Len(L) + 1), Fits(L, T, x, at), NEW n \in 1 .. Len(x),
           NEW p, ResHolds(L, T, x, at, n - 1, p), x[n].kind = "label"
    PROVE  ResHolds(L, T, x, at, n, Asm!ResolveStatement(p, x[n]))
<1>0. n \in Nat /\ n > 0
  BY DEF Chain
<1>1. PICK s, i, j : s = x[n] /\ i = at[n] /\ j = at[n + 1]
  OBVIOUS
<1>2. /\ i \in 1 .. Len(L) /\ j = i + 1 /\ Len(L) \in Nat
      /\ s = L[i]
  BY <1>1, CoveredIs DEF Listing
<1>3. /\ T[j - 1] = T[i - 1] /\ T[i - 1] \in Int /\ T[i - 1] < End - 1
  BY <1>1, SizeFits
<1>4. PICK o, labs, e : o = p.offsets /\ labs = p.labels /\ e = p.offset
  OBVIOUS
<1>5. n - 1 + 1 = n
  OBVIOUS
<1>6. /\ p = [offset |-> e, offsets |-> o, labels |-> labs, failed |-> FALSE]
      /\ e = T[i - 1]
      /\ o \in Seq(Int) /\ Len(o) = n
      /\ \A m \in 1 .. n - 1 : x[m].kind \in {"data", "instruction"} => o[m + 1] = T[at[m] - 1]
      /\ labs = [a \in DOMAIN labs |-> labs[a]]
      /\ \A a : a \in DOMAIN labs <=> \E k \in 1 .. i - 1 : L[k].kind = "label" /\ L[k].name = a
      /\ \A k \in 1 .. i - 1 : L[k].kind = "label" => labs[L[k].name] = T[k - 1]
  BY <1>1, <1>4, <1>5 DEF ResHolds
<1>7. s.name \notin DOMAIN labs
  <2>1. ASSUME NEW k \in 1 .. i - 1, L[k].kind = "label", L[k].name = s.name PROVE FALSE
    <3>1. k \in 1 .. Len(L) /\ k # i
      BY <1>2
    <3>2. L[i].kind = "label" /\ L[i].name = L[k].name
      BY <1>1, <1>2, <2>1
    <3> QED
      BY <1>2, <2>1, <3>1, <3>2 DEF Fits
  <2> QED
    BY <1>6, <2>1
<1>8. PICK more : more = [a \in DOMAIN labs \cup {s.name} |-> IF a = s.name THEN e ELSE labs[a]]
  OBVIOUS
<1>9. Asm!ResolveStatement(p, x[n]) =
         [offset |-> e, offsets |-> Append(o, e), labels |-> more, failed |-> FALSE]
  <2>1. s.kind = "label" /\ ~ (e >= End - 1) /\ x[n] = s
    BY <1>1, <1>3, <1>6 DEF Fits
  <2>2. Asm!ResolveLabel(p, s) = [offset |-> e, offsets |-> o, labels |-> more, failed |-> FALSE]
    <3>1. /\ p.offset = e /\ p.labels = labs /\ s.name \notin DOMAIN p.labels
          /\ ~ (p.offset >= End - 1)
      BY <1>4, <1>7, <2>1
    <3>2. Asm!ResolveLabel(p, s) = [p EXCEPT !.labels = more]
      BY <1>8, <3>1 DEF Asm!ResolveLabel
    <3> QED
      BY <1>6, <3>2
  <2> QED
    <3>1. PICK r : r = Asm!ResolveLabel(p, s)
      OBVIOUS
    <3>2. r = [offset |-> e, offsets |-> o, labels |-> more, failed |-> FALSE]
      BY <2>2, <3>1
    <3>3. Asm!ResolveStatement(p, x[n]) = [r EXCEPT !.offsets = Append(r.offsets, p.offset)]
      BY <1>6, <2>1, <3>1, <3>2 DEF Asm!ResolveStatement
    <3> QED
      BY <1>6, <3>2, <3>3
<1>10. Append(o, e) \in Seq(Int) /\ Len(Append(o, e)) = n + 1
      /\ \A m \in 1 .. n - 1 : Append(o, e)[m + 1] = o[m + 1]
  <2>1. o \in Seq(Int) /\ e \in Int /\ Len(o) = n
    BY <1>3, <1>6
  <2>2. /\ Append(o, e) \in Seq(Int) /\ Len(Append(o, e)) = Len(o) + 1
        /\ \A m \in 1 .. Len(o) : Append(o, e)[m] = o[m]
    BY <2>1, AppendProperties
  <2>3. \A m \in 1 .. n - 1 : m + 1 \in 1 .. n
    BY <1>0
  <2> QED
    BY <2>1, <2>2, <2>3
<1>11. \A m \in 1 .. n : x[m].kind \in {"data", "instruction"} =>
                           Append(o, e)[m + 1] = T[at[m] - 1]
  <2> SUFFICES ASSUME NEW m \in 1 .. n, x[m].kind \in {"data", "instruction"}
               PROVE  Append(o, e)[m + 1] = T[at[m] - 1]
    OBVIOUS
  <2>1. CASE m \in 1 .. n - 1
    BY <1>6, <1>10, <2>1
  <2>2. CASE m = n
    BY <1>1, <1>6, <1>10, <2>2
  <2>3. m \in 1 .. n - 1 \/ m = n
    BY <1>0
  <2> QED
    BY <2>1, <2>2, <2>3
<1>12. \A k : k \in 1 .. j - 1 <=> k \in 1 .. i - 1 \/ k = i
  BY <1>2
<1>13. \A k \in 1 .. i - 1 : L[k].kind = "label" => L[k].name \in DOMAIN labs
  BY <1>6
<1>14. /\ more = [a \in DOMAIN more |-> more[a]]
       /\ DOMAIN more = DOMAIN labs \cup {s.name} /\ more[s.name] = e
       /\ \A a \in DOMAIN labs : more[a] = labs[a]
  BY <1>7, <1>8
<1>15. /\ \A a : a \in DOMAIN more <=> \E k \in 1 .. j - 1 : L[k].kind = "label" /\ L[k].name = a
       /\ \A k \in 1 .. j - 1 : L[k].kind = "label" => more[L[k].name] = T[k - 1]
  <2>1. L[i].kind = "label" /\ L[i].name = s.name
    BY <1>1, <1>2
  <2>2. \A a : a \in DOMAIN more <=> a \in DOMAIN labs \/ a = L[i].name
    BY <1>14, <2>1
  <2>3. \A a : a \in DOMAIN more <=> \E k \in 1 .. j - 1 : L[k].kind = "label" /\ L[k].name = a
    BY <1>6, <1>12, <2>1, <2>2, Zenon
  <2>4. ASSUME NEW k \in 1 .. j - 1, L[k].kind = "label" PROVE more[L[k].name] = T[k - 1]
    <3>1. CASE k = i
      BY <1>6, <1>14, <2>1, <3>1
    <3>2. CASE k \in 1 .. i - 1
      BY <1>6, <1>13, <1>14, <2>4, <3>2
    <3> QED
      BY <1>12, <3>1, <3>2
  <2> QED
    BY <2>3, <2>4
<1>16. e = T[at[n + 1] - 1]
  BY <1>1, <1>3, <1>6
<1> QED
  <2>1. PICK off, r : off = Append(o, e) /\ r = Asm!ResolveStatement(p, x[n])
    OBVIOUS
  <2>2. off \in Seq(Int) /\ Len(off) = n + 1 /\ e = T[j - 1] /\ j = at[n + 1]
        /\ r = [offset |-> e, offsets |-> off, labels |-> more, failed |-> FALSE]
    BY <1>1, <1>9, <1>10, <1>16, <2>1
  <2>3. \A m \in 1 .. n : x[m].kind \in {"data", "instruction"} => off[m + 1] = T[at[m] - 1]
    BY <1>11, <2>1
  <2>4. more = [a \in DOMAIN more |-> more[a]]
    BY <1>14, <1>15
  <2>5. \A a : a \in DOMAIN more <=> \E k \in 1 .. j - 1 : L[k].kind = "label" /\ L[k].name = a
    BY <1>14, <1>15
  <2>6. \A k \in 1 .. j - 1 : L[k].kind = "label" => more[L[k].name] = T[k - 1]
    BY <1>14, <1>15
  <2>7. ResIs(L, T, x, at, n, r, j, e, off, more)
    BY <1>0, <2>2, <2>3, <2>4, <2>5, <2>6 DEF ResIs
  <2>8. ResHolds(L, T, x, at, n, r)
    BY <2>7, IsResHolds
  <2> QED
    BY <2>1, <2>8

LEMMA ResolveBytes ==
    ASSUME NEW L, Listing(L), NEW T, Measures(L, T), NEW x, NEW at,
           Chain(L, x, at, Len(L) + 1), Fits(L, T, x, at), NEW n \in 1 .. Len(x),
           NEW p, ResHolds(L, T, x, at, n - 1, p), x[n].kind \in {"data", "instruction"}
    PROVE  ResHolds(L, T, x, at, n, Asm!ResolveStatement(p, x[n]))
<1>0. n \in Nat /\ n > 0
  BY DEF Chain
<1>1. PICK s, i, j : s = x[n] /\ i = at[n] /\ j = at[n + 1]
  OBVIOUS
<1>2. /\ i \in 1 .. Len(L) /\ j \in i + 1 .. Len(L) + 1 /\ Len(L) \in Nat
      /\ \A k \in i .. j - 1 : L[k].kind # "label"
      /\ s.kind = "instruction" => s = L[i]
  BY <1>1, CoveredIs DEF Listing
<1>3. /\ Asm!SizeOf(s) = T[j - 1] - T[i - 1]
      /\ T[i - 1] \in Int /\ T[j - 1] \in Int /\ T[i - 1] < End - 1
  BY <1>1, SizeFits
<1>4. PICK o, labs, e : o = p.offsets /\ labs = p.labels /\ e = p.offset
  OBVIOUS
<1>5. n - 1 + 1 = n
  OBVIOUS
<1>6. /\ p = [offset |-> e, offsets |-> o, labels |-> labs, failed |-> FALSE]
      /\ e = T[i - 1]
      /\ o \in Seq(Int) /\ Len(o) = n
      /\ \A m \in 1 .. n - 1 : x[m].kind \in {"data", "instruction"} => o[m + 1] = T[at[m] - 1]
      /\ labs = [a \in DOMAIN labs |-> labs[a]]
      /\ \A a : a \in DOMAIN labs <=> \E k \in 1 .. i - 1 : L[k].kind = "label" /\ L[k].name = a
      /\ \A k \in 1 .. i - 1 : L[k].kind = "label" => labs[L[k].name] = T[k - 1]
  BY <1>1, <1>4, <1>5 DEF ResHolds
<1>7. ~ (s.kind = "instruction" /\ Asm!IsRefused(s))
  BY <1>2 DEF Fits
<1>8. PICK f : f = T[j - 1]
  OBVIOUS
<1>9. Asm!ResolveStatement(p, x[n]) =
         [offset |-> f, offsets |-> Append(o, e), labels |-> labs, failed |-> FALSE]
  <2>1. s.kind # "org" /\ s.kind # "label" /\ ~ (e >= End - 1) /\ x[n] = s
    BY <1>1, <1>3, <1>6 DEF Fits
  <2>2. e + Asm!SizeOf(s) = f
    BY <1>3, <1>6, <1>8
  <2>3. Asm!ResolvePlaced(p, s) =
           [offset |-> f, offsets |-> Append(o, e), labels |-> labs, failed |-> FALSE]
    BY <1>6, <1>7, <2>1, <2>2 DEF Asm!ResolvePlaced
  <2> QED
    BY <1>6, <2>1, <2>3 DEF Asm!ResolveStatement
<1>10. Append(o, e) \in Seq(Int) /\ Len(Append(o, e)) = n + 1
      /\ \A m \in 1 .. n - 1 : Append(o, e)[m + 1] = o[m + 1]
      /\ Append(o, e)[n + 1] = e
  <2>1. e \in Int
    BY <1>3, <1>6
  <2>2. Append(o, e)[Len(o) + 1] = e
    BY <1>6
  <2> QED
    BY <1>0, <1>6, <2>1, <2>2
<1>11. \A m \in 1 .. n : x[m].kind \in {"data", "instruction"} =>
                           Append(o, e)[m + 1] = T[at[m] - 1]
  <2> SUFFICES ASSUME NEW m \in 1 .. n, x[m].kind \in {"data", "instruction"}
               PROVE  Append(o, e)[m + 1] = T[at[m] - 1]
    OBVIOUS
  <2>1. CASE m \in 1 .. n - 1
    BY <1>6, <1>10, <2>1
  <2>2. CASE m = n
    BY <1>1, <1>6, <1>10, <2>2
  <2>3. m \in 1 .. n - 1 \/ m = n
    BY <1>0
  <2> QED
    BY <2>1, <2>2, <2>3
<1>12. \A k \in 1 .. j - 1 : L[k].kind = "label" => k \in 1 .. i - 1
  BY <1>2
<1>13. 1 .. i - 1 \subseteq 1 .. j - 1
  BY <1>2
<1>14. /\ \A a : a \in DOMAIN labs <=> \E k \in 1 .. j - 1 : L[k].kind = "label" /\ L[k].name = a
       /\ \A k \in 1 .. j - 1 : L[k].kind = "label" => labs[L[k].name] = T[k - 1]
  BY <1>6, <1>12, <1>13
<1>15. f = T[at[n + 1] - 1]
  BY <1>1, <1>8
<1> QED
  <2>1. PICK off, r : off = Append(o, e) /\ r = Asm!ResolveStatement(p, x[n])
    OBVIOUS
  <2>2. off \in Seq(Int) /\ Len(off) = n + 1 /\ f = T[j - 1] /\ j = at[n + 1]
        /\ r = [offset |-> f, offsets |-> off, labels |-> labs, failed |-> FALSE]
    BY <1>1, <1>9, <1>10, <1>15, <2>1
  <2>3. \A m \in 1 .. n : x[m].kind \in {"data", "instruction"} => off[m + 1] = T[at[m] - 1]
    BY <1>11, <2>1
  <2>4. labs = [a \in DOMAIN labs |-> labs[a]]
    BY <1>6, <1>14
  <2>5. \A a : a \in DOMAIN labs <=> \E k \in 1 .. j - 1 : L[k].kind = "label" /\ L[k].name = a
    BY <1>6, <1>14
  <2>6. \A k \in 1 .. j - 1 : L[k].kind = "label" => labs[L[k].name] = T[k - 1]
    BY <1>6, <1>14
  <2>7. ResIs(L, T, x, at, n, r, j, f, off, labs)
    BY <1>0, <2>2, <2>3, <2>4, <2>5, <2>6 DEF ResIs
  <2>8. ResHolds(L, T, x, at, n, r)
    BY <2>7, IsResHolds
  <2> QED
    BY <2>1, <2>8

(* The text of a disassembly begins with the address of the bank.           *)
Program(x) == <<Asm!Org(Start, Radix - 1)>> \o x

ResBase == [offset |-> 0, offsets |-> << >>, labels |-> << >>, failed |-> FALSE]
ResInv(c, seq, k, p) == IF k = 0 THEN p = ResBase ELSE ResHolds(c[1], c[2], c[3], c[4], k - 1, p)
ResStep(c, p, s) == Asm!ResolveStatement(p, s)
Resolving == INSTANCE FoldRule WITH Op <- ResStep, Holds <- ResInv

(* It has one statement more.                                               *)
LEMMA ProgramIs ==
    ASSUME NEW x \in Seq(Statement)
    PROVE  /\ DOMAIN Program(x) = 1 .. Len(x) + 1 /\ Len(Program(x)) = Len(x) + 1
           /\ Program(x)[1] = Asm!Org(Start, Radix - 1)
           /\ \A m \in 1 .. Len(x) : Program(x)[m + 1] = x[m]
<1>1. PICK o : o = Asm!Org(Start, Radix - 1)
  OBVIOUS
<1>2. x \in Seq(Statement \cup {o}) /\ <<o>> \in Seq(Statement \cup {o}) /\ Len(<<o>>) = 1
  OBVIOUS
<1> QED
  BY <1>1, <1>2 DEF Program

(* The address of the bank is where the text begins.                        *)
LEMMA ResolveFirst ==
    ASSUME NEW L, NEW T, T[0] = Start, Start \in Int, NEW x, NEW at, at[1] = 1
    PROVE  ResHolds(L, T, x, at, 0, Asm!ResolveStatement(ResBase, Asm!Org(Start, Radix - 1)))
<1>1. PICK v, p : v = Start /\ p = Asm!ResolveStatement(ResBase, Asm!Org(Start, Radix - 1))
  OBVIOUS
<1>2. p = [offset |-> v, offsets |-> <<v>>, labels |-> << >>, failed |-> FALSE]
  <2>1. PICK b, s : b = ResBase /\ s = Asm!Org(Start, Radix - 1)
    OBVIOUS
  <2>2. /\ b.offsets = << >> /\ b.labels = << >> /\ b.failed = FALSE
        /\ b = [offset |-> 0, offsets |-> << >>, labels |-> << >>, failed |-> FALSE]
    BY <2>1 DEF ResBase
  <2>3. s.kind = "org" /\ s.value = v
    BY <1>1, <2>1 DEF Asm!Org
  <2>4. p = [b EXCEPT !.offset = v, !.offsets = Append(b.offsets, v)]
    BY <1>1, <2>1, <2>2, <2>3 DEF Asm!ResolveStatement
  <2>5. Append(<< >>, v) = <<v>>
    OBVIOUS
  <2>6. p = [offset |-> v, offsets |-> Append(<< >>, v), labels |-> << >>, failed |-> FALSE]
    BY <2>2, <2>4
  <2> QED
    BY <2>5, <2>6
<1>3. DOMAIN << >> = {} /\ 1 .. 1 - 1 = {}
  OBVIOUS
<1>4. <<v>> \in Seq(Int) /\ Len(<<v>>) = 1
  BY <1>1
<1>5. ResIs(L, T, x, at, 0, p, 1, v, <<v>>, << >>)
  <2>1. 1 = at[0 + 1] /\ v = T[1 - 1] /\ 1 .. 0 = {}
    BY <1>1
  <2>2. << >> = [a \in DOMAIN << >> |-> << >>[a]]
    OBVIOUS
  <2> HIDE <1>1
  <2> QED
    BY <1>2, <1>3, <1>4, <2>1, <2>2 DEF ResIs
<1> QED
  BY <1>1, <1>5, IsResHolds

(* Resolve takes the text, and finds the addresses of the listing.          *)
LEMMA ResolveKeeps ==
    ASSUME NEW L, Listing(L), NEW T, Measures(L, T), NEW x, NEW at,
           Chain(L, x, at, Len(L) + 1), Fits(L, T, x, at), T[0] = Start
    PROVE  ResHolds(L, T, x, at, Len(x), Asm!Resolve(Program(x)))
<1>1. PICK c : c = <<L, T, x, at>>
  OBVIOUS
<1>2. c[1] = L /\ c[2] = T /\ c[3] = x /\ c[4] = at
  BY <1>1
<1>3. x \in Seq(Statement) /\ at[1] = 1 /\ Len(x) \in Nat /\ Start \in Int
  <2>1. 0 \in 0 .. Len(L)
    BY DEF Listing
  <2>2. T[0] \in Int
    BY <2>1 DEF Measures
  <2>3. x \in Seq(Statement) /\ at[1] = 1
    BY DEF Chain
  <2>4. Len(x) \in Nat
    BY <2>3
  <2> QED
    BY <2>2, <2>3, <2>4
<1>4. PICK n : n = Len(x) + 1
  OBVIOUS
<1>5. n \in Nat /\ n > 0 /\ n - 1 = Len(x) /\ DOMAIN Program(x) = 1 .. n
  BY <1>3, <1>4, ProgramIs
<1>6. ResInv(c, Program(x), 0, ResBase)
  BY DEF ResInv
<1>7. ASSUME NEW k \in 1 .. n, NEW p, ResInv(c, Program(x), k - 1, p)
      PROVE  ResInv(c, Program(x), k, ResStep(c, p, Program(x)[k]))
  <2>1. CASE k = 1
    <3>1. p = ResBase /\ Program(x)[k] = Asm!Org(Start, Radix - 1)
      BY <1>3, <1>7, <2>1, ProgramIs DEF ResInv
    <3>2. ResHolds(L, T, x, at, 0, ResStep(c, p, Program(x)[k]))
      BY <1>3, <3>1, ResolveFirst DEF ResStep
    <3> QED
      BY <1>2, <2>1, <3>2 DEF ResInv
  <2>2. CASE k # 1
    <3>1. PICK m : m = k - 1
      OBVIOUS
    <3>2. m \in 1 .. Len(x) /\ k = m + 1 /\ m # 0
      BY <1>4, <1>5, <2>2, <3>1
    <3>3. ResHolds(L, T, x, at, m - 1, p)
      BY <1>2, <1>7, <3>1, <3>2 DEF ResInv
    <3>4. Program(x)[k] = x[m]
      BY <1>3, <3>2, ProgramIs
    <3>5. x[m].kind \in {"label", "org", "instruction", "data"}
      BY <3>2, CoveredIs
    <3>6. ResHolds(L, T, x, at, m, Asm!ResolveStatement(p, x[m]))
      BY <3>2, <3>3, <3>5, ResolveOrg, ResolveALabel, ResolveBytes
    <3> QED
      BY <1>2, <2>2, <3>1, <3>4, <3>6 DEF ResInv, ResStep
  <2> QED
    BY <2>1, <2>2
<1>8. ResInv(c, Program(x), n, Resolving!Fold(c, ResBase, Program(x)))
  BY <1>5, <1>6, <1>7, Resolving!Rule
<1>9. Asm!Resolve(Program(x)) = Resolving!Fold(c, ResBase, Program(x))
  BY DEF Asm!Resolve, Resolving!Fold, ResStep, ResBase, FoldLeft, MapThenFoldSet,
         Resolving!MapThenFoldSet, Resolving!Largest, Max,
         Asm!FoldLeft, Asm!MapThenFoldSet, Asm!Max
<1> QED
  BY <1>2, <1>5, <1>8, <1>9 DEF ResInv

-----------------------------------------------------------------------------
(* Assemble, of statements that stand for a listing without exceptions.     *)

(* Of two runs there are always bytes between. *)
RunsApart(x) ==
    \A m, n \in 1 .. Len(x) :
        m < n /\ x[m].kind = "org" /\ x[n].kind = "org" =>
            \E k \in m + 1 .. n - 1 : x[k].kind # "label"

(* Behind n statements that end at u, the bytes b reach to e; what is       *)
(* missing is the fill f of an .org that only labels have followed.         *)
BytesBehind(x, Y, n, u, b, e, f) ==
    /\ u \in Int /\ e \in Int /\ e <= u
    /\ Spells(Y, b, Start, e)
    /\ \A a \in e .. u - 1 : Y[a] = f
    /\ e < u => \E m \in 1 .. n : x[m].kind = "org" /\ \A k \in m + 1 .. n : x[k].kind = "label"

(* A label has no bytes.                                                    *)
LEMMA BehindLabel ==
    ASSUME NEW x \in Seq(Statement), NEW Y, NEW n \in 1 .. Len(x), NEW u, NEW b, NEW e, NEW f,
           BytesBehind(x, Y, n - 1, u, b, e, f), x[n].kind = "label"
    PROVE  BytesBehind(x, Y, n, u, b, e, f)
<1>1. ASSUME e < u
      PROVE  \E m \in 1 .. n : x[m].kind = "org" /\ \A k \in m + 1 .. n : x[k].kind = "label"
  <2>1. PICK m \in 1 .. n - 1 : x[m].kind = "org" /\ \A k \in m + 1 .. n - 1 : x[k].kind = "label"
    BY <1>1 DEF BytesBehind
  <2>2. \A k \in m + 1 .. n : k \in m + 1 .. n - 1 \/ k = n
    OBVIOUS
  <2>3. m \in 1 .. n
    OBVIOUS
  <2> QED
    BY <2>1, <2>2, <2>3
<1> QED
  BY <1>1 DEF BytesBehind

(* What an .org gives the bytes behind it. *)
LEMMA BehindOrg ==
    ASSUME NEW x \in Seq(Statement), RunsApart(x), NEW Y, NEW n \in 1 .. Len(x), NEW u, NEW b,
           NEW e, NEW f, NEW v \in Int, NEW g, BytesBehind(x, Y, n - 1, u, b, e, f),
           x[n].kind = "org", u <= v, \A a \in u .. v - 1 : Y[a] = g
    PROVE  BytesBehind(x, Y, n, v, b, e, g)
<1>1. e = u
  <2>1. SUFFICES ASSUME e # u PROVE FALSE
    OBVIOUS
  <2>2. e < u
    BY <2>1 DEF BytesBehind
  <2>3. PICK m \in 1 .. n - 1 : x[m].kind = "org" /\ \A k \in m + 1 .. n - 1 : x[k].kind = "label"
    BY <2>2 DEF BytesBehind
  <2>4. m \in 1 .. Len(x) /\ m < n
    OBVIOUS
  <2> QED
    BY <2>3, <2>4 DEF RunsApart
<1>2. \E m \in 1 .. n : x[m].kind = "org" /\ \A k \in m + 1 .. n : x[k].kind = "label"
  <2>1. n \in 1 .. n /\ n + 1 .. n = {}
    OBVIOUS
  <2> QED
    BY <2>1
<1> QED
  BY <1>1, <1>2 DEF BytesBehind

(* A statement that has bytes is preceded by the fill. *)
LEMMA FillSpells ==
    ASSUME NEW Y, NEW e \in Int, NEW u \in Int, e <= u, NEW f \in Int,
           \A a \in e .. u - 1 : Y[a] = f, NEW w, w.expected = e, w.fill = f
    PROVE  Spells(Y, Asm!OrgFill(w, u), e, u)
<1>1. CASE u > e
  <2>1. PICK d : d = u - e
    OBVIOUS
  <2>2. d \in Nat /\ d > 0 /\ u = e + d
    BY <1>1, <2>1
  <2>3. PICK q : q = [i \in 1 .. d |-> f]
    OBVIOUS
  <2>4. q \in Seq(Int) /\ Len(q) = d /\ \A t \in 1 .. d : q[t] = f
    BY <2>2, <2>3
  <2>5. \A t \in 1 .. d : e + t - 1 \in e .. u - 1
    BY <2>2
  <2>6. Spells(Y, q, e, u)
    BY <2>2, <2>4, <2>5 DEF Spells
  <2> QED
    BY <1>1, <2>1, <2>3, <2>6 DEF Asm!OrgFill
<1>2. CASE u = e
  <2>1. Asm!OrgFill(w, u) = << >>
    BY <1>2 DEF Asm!OrgFill
  <2>2. << >> \in Seq(Int) /\ Len(<< >>) = 0 /\ 1 .. 0 = {}
    OBVIOUS
  <2> QED
    BY <1>2, <2>1, <2>2 DEF Spells
<1> QED
  BY <1>1, <1>2

LEMMA BehindBytes ==
    ASSUME NEW x \in Seq(Statement), NEW Y, NEW n \in 1 .. Len(x), NEW u, NEW b, NEW e,
           NEW f \in Int, BytesBehind(x, Y, n - 1, u, b, e, f), NEW v, NEW d, Spells(Y, d, u, v),
           NEW w, w.expected = e, w.fill = f
    PROVE  BytesBehind(x, Y, n, v, b \o Asm!OrgFill(w, u) \o d, v, f) /\ v = u + Len(d)
<1>1. Spells(Y, Asm!OrgFill(w, u), e, u)
  BY FillSpells DEF BytesBehind
<1>2. Spells(Y, b \o Asm!OrgFill(w, u), Start, u)
  BY <1>1, SpellsBoth DEF BytesBehind
<1>3. Spells(Y, (b \o Asm!OrgFill(w, u)) \o d, Start, v)
  BY <1>2, SpellsBoth
<1>4. v \in Int /\ v = u + Len(d)
  <2>1. Len(d) \in Nat
    BY DEF Spells
  <2> QED
    BY <2>1 DEF Spells
<1>5. v .. v - 1 = {} /\ ~ (v < v)
  BY <1>4
<1> QED
  BY <1>3, <1>4, <1>5 DEF BytesBehind

(* What Assemble has made of the first n statements of x.                   *)
AsmIs(T, x, at, Y, V, n, w, u, b, e, f) ==
    /\ u = T[at[n + 1] - 1] /\ f \in Int
    /\ w = [offset |-> u, expected |-> e, firstOrg |-> FALSE, fill |-> f, bytes |-> b,
            labels |-> V, failed |-> FALSE]
    /\ BytesBehind(x, Y, n, u, b, e, f)

AsmHolds(T, x, at, Y, V, n, w) ==
    \E u, b, e, f : AsmIs(T, x, at, Y, V, n, w, u, b, e, f)

(* One statement of each kind.                                              *)
LEMMA AssembleLabel ==
    ASSUME NEW L, Listing(L), NEW T, Measures(L, T), NEW x, NEW at,
           Chain(L, x, at, Len(L) + 1), Fits(L, T, x, at), NEW n \in 1 .. Len(x),
           NEW Y, NEW V, NEW w, AsmHolds(T, x, at, Y, V, n - 1, w), x[n].kind = "label", NEW o
    PROVE  AsmHolds(T, x, at, Y, V, n, Asm!AssembleStatement(w, <<x[n], o>>))
<1>1. PICK u, b, e, f : AsmIs(T, x, at, Y, V, n - 1, w, u, b, e, f)
  BY DEF AsmHolds
<1>2. Asm!AssembleStatement(w, <<x[n], o>>) = w
  BY DEF Asm!AssembleStatement
<1>3. x \in Seq(Statement) /\ n - 1 + 1 = n
  BY DEF Chain
<1>4. T[at[n + 1] - 1] = T[at[n] - 1]
  BY SizeFits
<1>5. BytesBehind(x, Y, n, u, b, e, f)
  BY <1>1, <1>3, BehindLabel DEF AsmIs
<1>6. AsmIs(T, x, at, Y, V, n, w, u, b, e, f)
  BY <1>1, <1>3, <1>4, <1>5 DEF AsmIs
<1> QED
  BY <1>2, <1>6 DEF AsmHolds

LEMMA AssembleOrg ==
    ASSUME NEW L, Listing(L), NEW T, Measures(L, T), NEW x, NEW at,
           Chain(L, x, at, Len(L) + 1), Fits(L, T, x, at), RunsApart(x), NEW n \in 1 .. Len(x),
           NEW Y, NEW V, Spelled(L, T, Y, V), NEW w, AsmHolds(T, x, at, Y, V, n - 1, w),
           x[n].kind = "org", NEW o
    PROVE  AsmHolds(T, x, at, Y, V, n, Asm!AssembleStatement(w, <<x[n], o>>))
<1>1. PICK u, b, e, f : AsmIs(T, x, at, Y, V, n - 1, w, u, b, e, f)
  BY DEF AsmHolds
<1>2. PICK s, i, j, v : s = x[n] /\ i = at[n] /\ j = at[n + 1] /\ v = T[j - 1]
  OBVIOUS
<1>3. x \in Seq(Statement) /\ n - 1 + 1 = n
  BY DEF Chain
<1>4. /\ s.kind = "org" /\ s.value = v /\ s.fill \in Int
      /\ \A k \in i .. j : T[k - 1] = T[i - 1] + (k - i)
      /\ \A k \in i .. j - 1 :
            /\ L[k].kind = "data" /\ L[k].width = 1
            /\ L[k].items[1].kind = "number" /\ L[k].items[1].value = s.fill
  <2>1. s.kind = "org" /\ s.fill \in Int
    BY <1>2, CoveredIs DEF OrgCovers, OrgStatement
  <2>2. /\ x[n].value = T[at[n + 1] - 1]
        /\ \A k \in at[n] .. at[n + 1] : T[k - 1] = T[at[n] - 1] + (k - at[n])
        /\ \A k \in at[n] .. at[n + 1] - 1 :
              /\ L[k].kind = "data" /\ L[k].width = 1
              /\ L[k].items[1].kind = "number" /\ L[k].items[1].value = x[n].fill
    BY OrgIsPlaced
  <2> QED
    BY <1>2, <2>1, <2>2
<1>5. /\ i \in 1 .. Len(L) /\ j \in i + 1 .. Len(L) + 1 /\ Len(L) \in Nat
      /\ v \in Int /\ T[i - 1] \in Int /\ u = T[i - 1]
  BY <1>1, <1>2, <1>3, CoveredIs, SizeFits DEF Listing, AsmIs
<1>6. v = u + (j - i)
  <2>1. j \in i .. j
    BY <1>5
  <2>2. T[j - 1] = T[i - 1] + (j - i)
    BY <1>4, <2>1
  <2> QED
    BY <1>2, <1>5, <2>2
<1>7. ASSUME NEW a \in u .. v - 1 PROVE Y[a] = s.fill
  <2>1. PICK k : k = i + (a - u)
    OBVIOUS
  <2>2. k \in i .. j - 1 /\ k \in i .. j /\ k \in 1 .. Len(L) /\ a = u + (k - i)
    <3>1. u \in Int /\ v \in Int /\ i \in Int /\ j \in Int /\ 1 <= i /\ j <= Len(L) + 1
          /\ Len(L) \in Int /\ a \in Int /\ u <= a /\ a <= v - 1
      BY <1>5
    <3> QED
      BY <1>6, <2>1, <3>1
  <2>3. T[k - 1] = a
    BY <1>4, <1>5, <2>2
  <2>4. Spells(Y, LoneBytes(L[k], T[k - 1], V), T[k - 1], T[k])
    BY <1>4, <2>2 DEF Spelled
  <2>5. LoneBytes(L[k], T[k - 1], V) = <<s.fill>>
    BY <1>4, <2>2 DEF LoneBytes, Asm!ItemBytes
  <2>6. \A q, z, t : Spells(Y, <<q>>, z, t) => z \in Int /\ q = Y[z + 1 - 1]
    BY DEF Spells
  <2>7. s.fill = Y[a + 1 - 1] /\ a + 1 - 1 = a
    BY <2>3, <2>4, <2>5, <2>6
  <2> QED
    BY <2>7
<1>8. BytesBehind(x, Y, n, v, b, e, s.fill)
  <2>1. BytesBehind(x, Y, n - 1, u, b, e, f) /\ u <= v
    BY <1>1, <1>5, <1>6 DEF AsmIs
  <2> QED
    BY <1>2, <1>3, <1>4, <1>5, <1>7, <2>1, BehindOrg
<1>9. PICK r, g : r = Asm!AssembleStatement(w, <<x[n], o>>) /\ g = s.fill
  OBVIOUS
<1>10. r = [offset |-> v, expected |-> e, firstOrg |-> FALSE, fill |-> g, bytes |-> b,
            labels |-> V, failed |-> FALSE]
  <2>1. <<x[n], o>>[1] = s
    BY <1>2
  <2>2. w = [offset |-> u, expected |-> e, firstOrg |-> FALSE, fill |-> f, bytes |-> b,
            labels |-> V, failed |-> FALSE]
    BY <1>1 DEF AsmIs
  <2> QED
    BY <1>4, <1>9, <2>1, <2>2 DEF Asm!AssembleStatement
<1>11. AsmIs(T, x, at, Y, V, n, r, v, b, e, g)
  BY <1>2, <1>4, <1>8, <1>9, <1>10 DEF AsmIs
<1> QED
  BY <1>9, <1>11 DEF AsmHolds

LEMMA AssembleBytes ==
    ASSUME NEW L, Listing(L), NEW T, Measures(L, T), NEW x, NEW at,
           Chain(L, x, at, Len(L) + 1), Fits(L, T, x, at), NEW n \in 1 .. Len(x),
           NEW Y, NEW V, Spelled(L, T, Y, V), NEW w, AsmHolds(T, x, at, Y, V, n - 1, w),
           x[n].kind \in {"data", "instruction"}, NEW o, o = T[at[n] - 1]
    PROVE  AsmHolds(T, x, at, Y, V, n, Asm!AssembleStatement(w, <<x[n], o>>))
<1>1. PICK u, b, e, f : AsmIs(T, x, at, Y, V, n - 1, w, u, b, e, f)
  BY DEF AsmHolds
<1>2. PICK s, i, j, v : s = x[n] /\ i = at[n] /\ j = at[n + 1] /\ v = T[j - 1]
  OBVIOUS
<1>3. x \in Seq(Statement) /\ n - 1 + 1 = n
  BY DEF Chain
<1>4. /\ i \in 1 .. Len(L) /\ j \in i + 1 .. Len(L) + 1 /\ Len(L) \in Nat
      /\ v \in Int /\ T[i - 1] \in Int /\ u = T[i - 1] /\ o = u
  <2>1. u = T[i - 1] /\ o = T[i - 1]
    BY <1>1, <1>2, <1>3 DEF AsmIs
  <2>2. /\ i \in 1 .. Len(L) /\ j \in i + 1 .. Len(L) + 1 /\ Len(L) \in Nat
    <3>1. Len(L) \in Nat
      BY DEF Listing
    <3>2. at[n] \in 1 .. Len(L) /\ at[n + 1] \in at[n] + 1 .. Len(L) + 1
      BY CoveredIs
    <3> QED
      BY <1>2, <3>1, <3>2
  <2>3. v \in Int /\ T[i - 1] \in Int
    BY <1>2, SizeFits
  <2> QED
    BY <2>1, <2>2, <2>3
<1>5. u < v
  <2>1. L[i].kind # "label" /\ TrueSize(L[i]) > 0 /\ TrueSize(L[i]) \in Nat
    <3>1. s.kind # "label"
      BY <1>2
    <3>2. L[i].kind # "label"
      <4>1. i \in i .. j - 1
        BY <1>4
      <4>2. x[n].kind # "label" => \A k \in at[n] .. at[n + 1] - 1 : L[k].kind # "label"
        BY CoveredIs
      <4> QED
        BY <1>2, <3>1, <4>1, <4>2
    <3> QED
      BY <1>4, <3>2, TrueSizes
  <2>2. T[i] = T[i - 1] + TrueSize(L[i])
    BY <1>4 DEF Measures
  <2>3. T[i] <= T[j - 1]
    <3>1. i \in 0 .. Len(L) /\ j - 1 \in i .. Len(L)
      BY <1>4
    <3> QED
      BY <3>1, MeasuresGrow
  <2>4. PICK t \in Int, z \in Nat : t = T[i] /\ z = TrueSize(L[i]) /\ t = u + z /\ z > 0
    BY <1>4, <2>1, <2>2
  <2>5. t <= v
    BY <1>2, <2>3, <2>4
  <2> QED
    BY <1>4, <2>4, <2>5
<1>6. PICK d : d = Asm!StatementBytes(s, o, V)
  OBVIOUS
<1>7. Spells(Y, d, u, v)
  <2>1. CASE s.kind = "data"
    <3>1. ~Joined(s) /\ DataCovers(L, s, i, j)
      <4>1. x[n].kind = "data" => DataCovers(L, x[n], at[n], at[n + 1])
        BY CoveredIs
      <4> QED
        BY <1>2, <2>1, <4>1 DEF Fits
    <3>2. j \in i .. Len(L) + 1
      BY <1>4
    <3> QED
      BY <1>2, <1>4, <1>6, <3>1, <3>2, DataSpelled
  <2>2. CASE s.kind = "instruction"
    <3>1. j = i + 1 /\ s = L[i]
      <4>1. x[n].kind \in {"label", "instruction"} => at[n + 1] = at[n] + 1 /\ x[n] = L[at[n]]
        BY CoveredIs
      <4> QED
        BY <1>2, <2>2, <4>1
    <3>2. Spells(Y, LoneBytes(s, u, V), u, v)
      BY <1>2, <1>4, <2>2, <3>1 DEF Spelled
    <3>3. LoneBytes(s, u, V) = d
      BY <1>4, <1>6, <2>2 DEF LoneBytes, Asm!StatementBytes
    <3> QED
      BY <3>2, <3>3
  <2> QED
    BY <1>2, <2>1, <2>2
<1>8. w = [offset |-> u, expected |-> e, firstOrg |-> FALSE, fill |-> f, bytes |-> b,
            labels |-> V, failed |-> FALSE]
      /\ f \in Int /\ BytesBehind(x, Y, n - 1, u, b, e, f)
  BY <1>1 DEF AsmIs
<1>9. w.expected = e /\ w.fill = f /\ w.labels = V /\ w.offset = u /\ ~w.failed
  BY <1>8
<1>10. PICK all : all = b \o Asm!OrgFill(w, u) \o d
  OBVIOUS
<1>11. BytesBehind(x, Y, n, v, all, v, f) /\ v = u + Len(d)
  <2>1. x \in Seq(Statement) /\ f \in Int /\ w.expected = e /\ w.fill = f
    BY <1>3, <1>8
  <2>2. BytesBehind(x, Y, n, v, b \o Asm!OrgFill(w, u) \o d, v, f) /\ v = u + Len(d)
    BY <1>7, <1>8, <2>1, BehindBytes
  <2> QED
    BY <1>10, <2>2
<1>12. d # << >>
  <2>1. Len(<< >>) = 0
    OBVIOUS
  <2> QED
    BY <1>4, <1>5, <1>11, <2>1
<1>13. PICK r : r = Asm!AssembleStatement(w, <<x[n], o>>)
  OBVIOUS
<1>14. r = [offset |-> v, expected |-> v, firstOrg |-> FALSE, fill |-> f, bytes |-> all,
            labels |-> V, failed |-> FALSE]
  <2>1. <<x[n], o>>[1] = s /\ <<x[n], o>>[2] = o /\ s.kind # "label" /\ s.kind # "org"
    BY <1>2
  <2>2. r = [w EXCEPT !.bytes = w.bytes \o Asm!OrgFill(w, o) \o d,
                      !.offset = w.offset + Len(d),
                      !.expected = w.offset + Len(d)]
    BY <1>6, <1>9, <1>12, <1>13, <2>1 DEF Asm!AssembleStatement
  <2>3. w.bytes \o Asm!OrgFill(w, o) \o d = all /\ w.offset + Len(d) = v
    BY <1>4, <1>8, <1>9, <1>10, <1>11
  <2>4. r = [w EXCEPT !.bytes = all, !.offset = v, !.expected = v]
    BY <2>2, <2>3
  <2> QED
    BY <1>8, <2>4
<1>15. AsmIs(T, x, at, Y, V, n, r, v, all, v, f)
  BY <1>2, <1>8, <1>11, <1>14 DEF AsmIs
<1> QED
  BY <1>13, <1>15 DEF AsmHolds

AsmBase(V) == [offset |-> 0, expected |-> 0, firstOrg |-> TRUE, fill |-> 0,
               bytes |-> << >>, labels |-> V, failed |-> FALSE]
AsmInv(c, seq, k, w) ==
    IF k = 0 THEN w = AsmBase(c[5]) ELSE AsmHolds(c[1], c[2], c[3], c[4], c[5], k - 1, w)
AsmStep(c, w, pair) == Asm!AssembleStatement(w, pair)
Assembling == INSTANCE FoldRule WITH Op <- AsmStep, Holds <- AsmInv

(* The first .org only tells where the bank is.                             *)
LEMMA AssembleFirst ==
    ASSUME NEW T, T[0] = Start, Start \in Int, NEW x, NEW at, at[1] = 1, NEW Y, NEW V, NEW o
    PROVE  AsmHolds(T, x, at, Y, V, 0,
                    Asm!AssembleStatement(AsmBase(V), <<Asm!Org(Start, Radix - 1), o>>))
<1>1. PICK v, g, r, s, w : /\ v = Start /\ g = Radix - 1 /\ w = AsmBase(V)
                           /\ s = Asm!Org(Start, Radix - 1)
                           /\ r = Asm!AssembleStatement(w, <<s, o>>)
  OBVIOUS
<1>2. w = [offset |-> 0, expected |-> 0, firstOrg |-> TRUE, fill |-> 0,
           bytes |-> << >>, labels |-> V, failed |-> FALSE]
      /\ s.kind = "org" /\ s.value = v /\ s.fill = g
  BY <1>1 DEF AsmBase, Asm!Org
<1>3. r = [offset |-> v, expected |-> v, firstOrg |-> FALSE, fill |-> g,
           bytes |-> << >>, labels |-> V, failed |-> FALSE]
  <2>1. <<s, o>>[1] = s
    OBVIOUS
  <2>2. w.firstOrg = TRUE /\ w.failed = FALSE
    BY <1>2
  <2>3. r = [w EXCEPT !.fill = g, !.firstOrg = FALSE, !.offset = v, !.expected = v]
    BY <1>1, <1>2, <2>1, <2>2 DEF Asm!AssembleStatement
  <2> QED
    BY <1>2, <2>3
<1>4. v \in Int /\ g \in Int /\ v = T[at[0 + 1] - 1]
  <2>1. 0 + 1 = 1 /\ 1 - 1 = 0
    OBVIOUS
  <2> QED
    BY <1>1, <2>1, PackageAssumption
<1>5. Spells(Y, << >>, v, v)
  <2>1. << >> \in Seq(Int) /\ Len(<< >>) = 0 /\ 1 .. 0 = {}
    OBVIOUS
  <2> QED
    BY <1>4, <2>1 DEF Spells
<1>6. BytesBehind(x, Y, 0, v, << >>, v, g)
  <2>1. v .. v - 1 = {} /\ ~ (v < v) /\ v <= v
    BY <1>4
  <2> QED
    BY <1>1, <1>4, <1>5, <2>1 DEF BytesBehind
<1>7. AsmIs(T, x, at, Y, V, 0, r, v, << >>, v, g)
  BY <1>3, <1>4, <1>6 DEF AsmIs
<1> QED
  BY <1>1, <1>7 DEF AsmHolds

(* The bytes assembled are those of the ROM. *)
LEMMA AssembleKeeps ==
    ASSUME NEW L, Listing(L), NEW T, Measures(L, T), NEW x, NEW at,
           Chain(L, x, at, Len(L) + 1), Fits(L, T, x, at), RunsApart(x), T[0] = Start,
           NEW p, ResHolds(L, T, x, at, Len(x), p), NEW Y, Spelled(L, T, Y, p.labels)
    PROVE  AsmHolds(T, x, at, Y, p.labels, Len(x), Asm!Assemble(Program(x), p))
<1>1. PICK V, z, o : V = p.labels /\ o = p.offsets /\ z = Asm!Zip(Program(x), o)
  OBVIOUS
<1>2. PICK c : c = <<T, x, at, Y, V>>
  OBVIOUS
<1>3. c[1] = T /\ c[2] = x /\ c[3] = at /\ c[4] = Y /\ c[5] = V
  BY <1>2
<1>4. x \in Seq(Statement) /\ at[1] = 1 /\ Len(x) \in Nat /\ Start \in Int
  <2>1. 0 \in 0 .. Len(L)
    BY DEF Listing
  <2>2. T[0] \in Int
    BY <2>1 DEF Measures
  <2>3. x \in Seq(Statement) /\ at[1] = 1
    BY DEF Chain
  <2>4. Len(x) \in Nat
    BY <2>3
  <2> QED
    BY <2>2, <2>3, <2>4
<1>5. PICK n : n = Len(x) + 1
  OBVIOUS
<1>6. n \in Nat /\ n > 0 /\ n - 1 = Len(x) /\ Len(Program(x)) = n
  BY <1>4, <1>5, ProgramIs
<1>7. Len(o) = n /\ \A m \in 1 .. Len(x) : x[m].kind \in {"data", "instruction"} =>
                                              o[m + 1] = T[at[m] - 1]
  BY <1>1, <1>5 DEF ResHolds
<1>8. z = [k \in 1 .. n |-> <<Program(x)[k], o[k]>>]
  BY <1>1, <1>6, <1>7 DEF Asm!Zip
<1>9. AsmInv(c, z, 0, AsmBase(V))
  BY <1>3 DEF AsmInv
<1>10. ASSUME NEW k \in 1 .. n, NEW w, AsmInv(c, z, k - 1, w)
       PROVE  AsmInv(c, z, k, AsmStep(c, w, z[k]))
  <2>1. CASE k = 1
    <3>1. w = AsmBase(V)
      BY <1>3, <1>10, <2>1 DEF AsmInv
    <3>2. z[k] = <<Asm!Org(Start, Radix - 1), o[1]>>
      BY <1>4, <1>8, <2>1, ProgramIs
    <3>3. AsmHolds(T, x, at, Y, V, 0, AsmStep(c, w, z[k]))
      BY <1>4, <3>1, <3>2, AssembleFirst DEF AsmStep
    <3> QED
      BY <1>3, <2>1, <3>3 DEF AsmInv
  <2>2. CASE k # 1
    <3>1. PICK m, q : m = k - 1 /\ q = o[m + 1]
      OBVIOUS
    <3>2. m \in 1 .. Len(x) /\ k = m + 1 /\ m # 0
      BY <1>5, <1>6, <2>2, <3>1
    <3>3. AsmHolds(T, x, at, Y, V, m - 1, w)
      BY <1>3, <1>10, <3>1, <3>2 DEF AsmInv
    <3>4. z[k] = <<x[m], q>>
      BY <1>4, <1>8, <3>1, <3>2, ProgramIs
    <3>5. x[m].kind \in {"label", "org", "instruction", "data"}
      BY <3>2, CoveredIs
    <3>6. x[m].kind \in {"data", "instruction"} => q = T[at[m] - 1]
      BY <1>7, <3>1, <3>2
    <3>7. AsmHolds(T, x, at, Y, V, m, Asm!AssembleStatement(w, <<x[m], q>>))
      BY <1>1, <3>2, <3>3, <3>5, <3>6, AssembleOrg, AssembleLabel, AssembleBytes
    <3> QED
      BY <1>3, <2>2, <3>1, <3>4, <3>7 DEF AsmInv, AsmStep
  <2> QED
    BY <2>1, <2>2
<1>11. DOMAIN z = 1 .. n
  BY <1>8
<1>12. AsmInv(c, z, n, Assembling!Fold(c, AsmBase(V), z))
  BY <1>6, <1>9, <1>10, <1>11, Assembling!Rule
<1>13. Asm!Assemble(Program(x), p) = Assembling!Fold(c, AsmBase(V), z)
  BY <1>1 DEF Asm!Assemble, Assembling!Fold, AsmStep, AsmBase, FoldLeft, MapThenFoldSet,
         Assembling!MapThenFoldSet, Assembling!Largest, Max,
         Asm!FoldLeft, Asm!MapThenFoldSet, Asm!Max
<1> QED
  BY <1>1, <1>3, <1>6, <1>12, <1>13 DEF AsmInv

(* A text that ends in bytes has no fill left over: all bytes are there.    *)
LEMMA BytesComeBack ==
    ASSUME NEW L, Listing(L), NEW T, Measures(L, T), NEW x, NEW at,
           Chain(L, x, at, Len(L) + 1), Fits(L, T, x, at), RunsApart(x), T[0] = Start,
           NEW p, ResHolds(L, T, x, at, Len(x), p), NEW Y, Spelled(L, T, Y, p.labels),
           Len(x) > 0, x[Len(x)].kind \in {"data", "instruction"}
    PROVE  LET w == Asm!Assemble(Program(x), p)
           IN  w.failed = FALSE /\ Spells(Y, w.bytes, Start, T[Len(L)])
<1>1. PICK n, w : n = Len(x) /\ w = Asm!Assemble(Program(x), p)
  OBVIOUS
<1>2. AsmHolds(T, x, at, Y, p.labels, n, w)
  BY <1>1, AssembleKeeps
<1>3. PICK u, b, e, f : AsmIs(T, x, at, Y, p.labels, n, w, u, b, e, f)
  BY <1>2 DEF AsmHolds
<1>4. n \in Nat /\ at[n + 1] - 1 = Len(L)
  BY <1>1 DEF Chain, Listing
<1>5. w.failed = FALSE /\ w.bytes = b /\ u = T[Len(L)] /\ BytesBehind(x, Y, n, u, b, e, f)
  BY <1>3, <1>4 DEF AsmIs
<1>6. ~ \E m \in 1 .. n : x[m].kind = "org" /\ \A k \in m + 1 .. n : x[k].kind = "label"
  <2>1. SUFFICES ASSUME NEW m \in 1 .. n, x[m].kind = "org",
                        \A k \in m + 1 .. n : x[k].kind = "label"
                 PROVE  FALSE
    OBVIOUS
  <2>2. m # n
    BY <1>1, <2>1
  <2>3. n \in m + 1 .. n
    BY <1>4, <2>2
  <2> QED
    BY <1>1, <2>1, <2>3
<1>7. e = u /\ Spells(Y, b, Start, e)
  BY <1>5, <1>6 DEF BytesBehind
<1> QED
  BY <1>1, <1>5, <1>7

-----------------------------------------------------------------------------
(* The size of what is assembled, when no run was found.                    *)

(* What Resolve counts; when that is too much, and when too little.         *)
Weight(s) == IF s.kind = "label" THEN 0 ELSE Asm!SizeOf(s)
Stretched(s) == s.kind = "data" /\ Joined(s)
Shrunk(s) == s.kind = "instruction" /\ (Asm!IsShort(s) \/ Asm!IsJmpIndirect(s))

(* Compared with what the statements it stands for take.                    *)
LEMMA WeightIs ==
    ASSUME NEW L, Listing(L), NEW T, Measures(L, T), NEW x, NEW at,
           Chain(L, x, at, Len(L) + 1), NEW m \in 1 .. Len(x), x[m].kind # "org",
           NEW d, d = T[at[m + 1] - 1] - T[at[m] - 1]
    PROVE  /\ d \in Int /\ Weight(x[m]) \in Int
           /\ Stretched(x[m]) => Weight(x[m]) > d
           /\ Shrunk(x[m]) => Weight(x[m]) < d
           /\ ~Stretched(x[m]) /\ ~Shrunk(x[m]) => Weight(x[m]) = d
<1>1. /\ x[m] \in Statement /\ x[m].kind \in {"label", "instruction", "data"}
      /\ at[m] \in 1 .. Len(L) /\ at[m + 1] \in at[m] + 1 .. Len(L) + 1
      /\ x[m].kind \in {"label", "instruction"} => at[m + 1] = at[m] + 1 /\ x[m] = L[at[m]]
      /\ x[m].kind = "data" => DataCovers(L, x[m], at[m], at[m + 1])
  BY CoveredIs
<1>2. PICK n \in Nat : n = Len(L)
  BY DEF Listing
<1>3. PICK s, i, j : s = x[m] /\ i = at[m] /\ j = at[m + 1]
  OBVIOUS
<1>4. i \in 1 .. n /\ j \in i + 1 .. n + 1 /\ i - 1 \in 0 .. n /\ j - 1 \in 0 .. n
  BY <1>1, <1>2, <1>3
<1>5. PICK t \in Int, u \in Int : t = T[i - 1] /\ u = T[j - 1] /\ d = u - t
  BY <1>2, <1>3, <1>4 DEF Measures
<1>6. ASSUME s.kind \in {"label", "instruction"} PROVE u = t + TrueSize(s)
  <2>1. j = i + 1 /\ s = L[i] /\ j - 1 = i /\ i \in 1 .. Len(L)
    BY <1>1, <1>2, <1>3, <1>4, <1>6
  <2>2. T[i] = T[i - 1] + TrueSize(L[i])
    BY <2>1 DEF Measures
  <2> QED
    BY <1>5, <2>1, <2>2
<1>7. CASE s.kind = "label"
  <2>1. TrueSize(s) = 0 /\ Weight(s) = 0
    BY <1>7 DEF TrueSize, Weight
  <2> QED
    BY <1>3, <1>5, <1>6, <1>7, <2>1 DEF Stretched, Shrunk
<1>8. CASE s.kind = "data"
  <2>1. j \in i .. Len(L) + 1 /\ i \in 1 .. Len(L)
    BY <1>2, <1>4
  <2>2. DataCovers(L, s, i, j)
    BY <1>1, <1>3, <1>8
  <2>3. /\ Asm!SizeOf(s) \in Int
        /\ ~Joined(s) => Asm!SizeOf(s) = T[j - 1] - T[i - 1]
        /\ Joined(s) => Asm!SizeOf(s) > T[j - 1] - T[i - 1]
    BY <2>1, <2>2, DataSize
  <2>4. Weight(s) = Asm!SizeOf(s)
    BY <1>8 DEF Weight
  <2> QED
    BY <1>3, <1>5, <1>8, <2>3, <2>4 DEF Stretched, Shrunk
<1>9. CASE s.kind = "instruction"
  <2>1. i \in 1 .. Len(L) /\ s = L[i]
    BY <1>1, <1>2, <1>3, <1>4, <1>9
  <2>2. PICK c \in DOMAIN Shape : c = s.code /\ TrueSize(s) = Shape[c].size
    BY <1>9, <2>1, TrueSizes
  <2>3. PICK z \in 1 .. 3 : z = Shape[c].size
    BY SizesOfCode
  <2>4. [y \in DOMAIN Shape |-> Shape[y].size][c] = z
    BY <2>3
  <2>5. Weight(s) = IF Asm!IsShort(s) \/ Asm!IsJmpIndirect(s) THEN 2 ELSE z
    BY <1>9, <2>2, <2>4 DEF Weight, Asm!SizeOf
  <2>6. Asm!IsShort(s) \/ Asm!IsJmpIndirect(s) => z = 3
    <3>1. Shape["access"].size = 3 /\ Shape["jmp"].size = 3
      BY DEF Shape
    <3> QED
      BY <2>2, <2>3, <3>1 DEF Asm!IsShort, Asm!IsJmpIndirect
  <2>7. u = t + z
    BY <1>6, <1>9, <2>2, <2>3
  <2>8. ~Stretched(s)
    BY <1>9 DEF Stretched
  <2>9. Shrunk(s) <=> Asm!IsShort(s) \/ Asm!IsJmpIndirect(s)
    BY <1>9 DEF Shrunk
  <2>10. PICK w \in Int : w = Weight(s) /\ (Shrunk(s) => w = 2) /\ (~Shrunk(s) => w = z)
    BY <2>5, <2>9
  <2>11. Shrunk(s) => z = 3
    BY <2>6, <2>9
  <2>12. d = z
    BY <1>5, <2>7
  <2>13. w \in Int /\ (Shrunk(s) => w < d) /\ (~Shrunk(s) => w = d) /\ d \in Int
    BY <2>10, <2>11, <2>12
  <2> QED
    BY <1>3, <2>8, <2>10, <2>13
<1> QED
  BY <1>1, <1>3, <1>7, <1>8, <1>9

(* Two sums, of which one never grows by more than the other.               *)
LEMMA GrowApart ==
    ASSUME NEW n \in Nat, NEW U \in [0 .. n -> Int], NEW V \in [0 .. n -> Int],
           \A m \in 1 .. n : U[m] - U[m - 1] <= V[m] - V[m - 1], NEW j \in 0 .. n
    PROVE  \A k \in j .. n : V[j] - U[j] <= V[k] - U[k]
<1> DEFINE Q == {k \in j .. n : ~(V[j] - U[j] <= V[k] - U[k])}
<1>1. SUFFICES ASSUME Q # {} PROVE FALSE
  OBVIOUS
<1>2. Q \in SUBSET Nat
  OBVIOUS
<1>3. PICK k \in Q : \A y \in Q : k <= y
  <2> HIDE DEF Q
  <2> QED
    BY <1>1, <1>2, Sizes!LeastOf
<1>4. k \in j .. n /\ ~(V[j] - U[j] <= V[k] - U[k])
  OBVIOUS
<1>5. U[j] \in Int /\ V[j] \in Int /\ U[k] \in Int /\ V[k] \in Int
  BY <1>4
<1>6. k # j
  BY <1>4, <1>5
<1>7. PICK i \in Int : i = k - 1 /\ i \in j .. n /\ k \in 1 .. n
  BY <1>4, <1>6
<1>8. i \notin Q
  <2>1. ~(k <= i)
    BY <1>4, <1>7
  <2> HIDE DEF Q
  <2> QED
    BY <1>3, <2>1
<1>9. V[j] - U[j] <= V[i] - U[i]
  BY <1>7, <1>8
<1>10. U[k] - U[i] <= V[k] - V[i]
  BY <1>7
<1>11. U[i] \in Int /\ V[i] \in Int
  BY <1>7
<1>12. PICK a \in Int, b \in Int, c \in Int, d \in Int, e \in Int, f \in Int :
          /\ a = U[j] /\ b = V[j] /\ c = U[k] /\ d = V[k] /\ e = U[i] /\ f = V[i]
  BY <1>5, <1>11
<1>13. b - a <= f - e /\ c - e <= d - f
  BY <1>9, <1>10, <1>12
<1>14. b - a <= d - c
  BY <1>13
<1> QED
  BY <1>4, <1>12, <1>14

LEMMA GrowTogether ==
    ASSUME NEW n \in Nat, NEW U \in [0 .. n -> Int], NEW V \in [0 .. n -> Int], U[0] = V[0],
           \A m \in 1 .. n : U[m] - U[m - 1] <= V[m] - V[m - 1]
    PROVE  /\ U[n] <= V[n]
           /\ U[n] = V[n] => \A m \in 1 .. n : U[m] - U[m - 1] = V[m] - V[m - 1]
<1>1. 0 \in 0 .. n /\ n \in 0 .. n /\ n \in 0 .. n
  OBVIOUS
<1>2. \A j \in 0 .. n : \A k \in j .. n : V[j] - U[j] <= V[k] - U[k]
  BY GrowApart
<1>3. U[0] \in Int /\ V[0] \in Int /\ U[n] \in Int /\ V[n] \in Int
  BY <1>1
<1>4. V[0] - U[0] <= V[n] - U[n]
  BY <1>1, <1>2
<1>5. U[n] <= V[n]
  BY <1>3, <1>4
<1>6. ASSUME U[n] = V[n], NEW m \in 1 .. n PROVE U[m] - U[m - 1] = V[m] - V[m - 1]
  <2>1. PICK l \in 0 .. n : l = m - 1
    OBVIOUS
  <2>2. m \in 0 .. n /\ m \in 0 .. n /\ n \in m .. n /\ n \in l .. n /\ l \in 0 .. n /\ m \in l .. n
    BY <2>1
  <2>3. V[l] - U[l] <= V[m] - U[m] /\ V[m] - U[m] <= V[n] - U[n] /\ V[0] - U[0] <= V[l] - U[l]
    BY <1>1, <1>2, <2>2
  <2>4. U[l] \in Int /\ V[l] \in Int /\ U[m] \in Int /\ V[m] \in Int
    BY <2>2
  <2>5. PICK a \in Int, b \in Int, c \in Int, d \in Int :
           a = U[l] /\ b = V[l] /\ c = U[m] /\ d = V[m]
    BY <2>4
  <2>6. V[0] - U[0] = 0 /\ V[n] - U[n] = 0
    BY <1>3, <1>6
  <2>7. b - a <= d - c /\ d - c <= 0 /\ 0 <= b - a
    BY <2>3, <2>5, <2>6
  <2>8. b - a = 0 /\ d - c = 0
    BY <2>7
  <2>9. c - a = d - b
    BY <2>8
  <2> QED
    BY <2>1, <2>5, <2>9
<1> QED
  BY <1>5, <1>6

(* U[m] is the address Resolve counts behind the m-th statement.            *)
Weighs(x, U) ==
    /\ Start \in Int /\ U \in [0 .. Len(x) -> Int] /\ U[0] = Start
    /\ \A m \in 1 .. Len(x) : U[m] = U[m - 1] + Weight(x[m])
Loading(c, u, s) == u + Weight(s)
Loads == INSTANCE FoldRule WITH Op <- Loading, Holds <- Anything

LEMMA Weighed ==
    ASSUME NEW x \in Seq(Statement), \A m \in 1 .. Len(x) : Weight(x[m]) \in Int, Start \in Int
    PROVE  \E U : Weighs(x, U)
<1>1. Len(x) \in Nat /\ DOMAIN x = 1 .. Len(x)
  OBVIOUS
<1>2. PICK U : Loads!AreValues(U, x, Start, x, Len(x))
  BY <1>1, Loads!Values
<1>3. /\ U = [k \in 0 .. Len(x) |-> U[k]] /\ U[0] = Start
      /\ \A k \in 1 .. Len(x) : U[k] = U[k - 1] + Weight(x[k])
  BY <1>2 DEF Loads!AreValues, Loading
<1>4. ASSUME NEW k \in 0 .. Len(x) PROVE U[k] \in Int
  <2> DEFINE Q == {j \in 0 .. Len(x) : U[j] \notin Int}
  <2>1. SUFFICES ASSUME Q # {} PROVE FALSE
    OBVIOUS
  <2>2. PICK j \in Q : \A i \in Q : j <= i
    <3>1. Q \in SUBSET Nat
      OBVIOUS
    <3> HIDE DEF Q
    <3> QED
      BY <2>1, <3>1, Loads!LeastOf
  <2>3. j \in 1 .. Len(x) /\ U[j] \notin Int
    BY <1>3, <2>2
  <2>4. j - 1 \in 0 .. Len(x) /\ j - 1 \notin Q
    BY <2>2, <2>3
  <2>5. Weight(x[j]) \in Int /\ U[j - 1] \in Int
    BY <2>3, <2>4
  <2>6. U[j] = U[j - 1] + Weight(x[j])
    BY <1>3, <2>3
  <2> QED
    BY <2>3, <2>5, <2>6
<1> QED
  BY <1>3, <1>4 DEF Weighs

-----------------------------------------------------------------------------
(* Resolve, of statements without runs: offsets are sums of sizes, until    *)
(* one of them fails.                                                       *)

(* What Resolve knows behind the first n statements of x.                   *)
ResSumIs(U, x, n, p, f, o, labs) ==
    /\ f = U[n] /\ f \in Int
    /\ p = [offset |-> f, offsets |-> o, labels |-> labs, failed |-> FALSE]
    /\ o \in Seq(Int) /\ Len(o) = n + 1
    /\ \A m \in 1 .. n : x[m].kind \in {"data", "instruction"} => o[m + 1] = U[m - 1]
    /\ \A a \in DOMAIN labs : labs[a] \in Int
    /\ \A m \in 1 .. n : x[m].kind = "instruction" => ~Asm!IsRefused(x[m])

ResSum(U, x, n, p) == \E f, o, labs : ResSumIs(U, x, n, p, f, o, labs)

(* No statement is a run. *)
NoRuns(x) ==
    \A m \in 1 .. Len(x) : x[m].kind \in {"label", "instruction", "data"} /\ Weight(x[m]) \in Int

(* One statement of each kind.                                              *)
LEMMA SumOfLabel ==
    ASSUME NEW x \in Seq(Statement), NoRuns(x), NEW U, Weighs(x, U), NEW n \in 1 .. Len(x),
           NEW p, ResSum(U, x, n - 1, p), x[n].kind = "label"
    PROVE  LET r == Asm!ResolveStatement(p, x[n]) IN r.failed = TRUE \/ ResSum(U, x, n, r)
<1>0. n \in Nat /\ n > 0 /\ n - 1 + 1 = n
  OBVIOUS
<1>1. PICK f, o, labs : ResSumIs(U, x, n - 1, p, f, o, labs)
  BY DEF ResSum
<1>2. /\ f = U[n - 1] /\ f \in Int
      /\ p = [offset |-> f, offsets |-> o, labels |-> labs, failed |-> FALSE]
      /\ o \in Seq(Int) /\ Len(o) = n
      /\ \A m \in 1 .. n - 1 : x[m].kind \in {"data", "instruction"} => o[m + 1] = U[m - 1]
      /\ \A a \in DOMAIN labs : labs[a] \in Int
      /\ \A m \in 1 .. n - 1 : x[m].kind = "instruction" => ~Asm!IsRefused(x[m])
  BY <1>0, <1>1 DEF ResSumIs
<1>3. PICK s, q, r : s = x[n] /\ q = Asm!ResolveLabel(p, s) /\ r = Asm!ResolveStatement(p, s)
  OBVIOUS
<1>4. p.failed = FALSE /\ s.kind = "label"
  BY <1>2, <1>3
<1>5. r = [q EXCEPT !.offsets = Append(q.offsets, p.offset)]
  BY <1>3, <1>4 DEF Asm!ResolveStatement
<1>6. CASE f >= End - 1 \/ s.name \in DOMAIN labs
  <2>1. q = [offset |-> f, offsets |-> o, labels |-> labs, failed |-> TRUE]
    <3>1. q = [p EXCEPT !.failed = TRUE]
      BY <1>2, <1>3, <1>6 DEF Asm!ResolveLabel
    <3> QED
      BY <1>2, <3>1
  <2>2. r.failed = TRUE
    BY <1>5, <2>1
  <2> QED
    BY <1>3, <2>2
<1>7. CASE ~(f >= End - 1 \/ s.name \in DOMAIN labs)
  <2>1. PICK more : more = [a \in DOMAIN labs \cup {s.name} |-> IF a = s.name THEN f ELSE labs[a]]
    OBVIOUS
  <2>2. q = [offset |-> f, offsets |-> o, labels |-> more, failed |-> FALSE]
    BY <1>2, <1>3, <1>7, <2>1 DEF Asm!ResolveLabel
  <2>3. PICK off : off = Append(o, f)
    OBVIOUS
  <2>4. r = [offset |-> f, offsets |-> off, labels |-> more, failed |-> FALSE]
    <3>1. q.offsets = o /\ p.offset = f
      BY <1>2, <2>2
    <3>2. r = [q EXCEPT !.offsets = off]
      BY <1>5, <2>3, <3>1
    <3> QED
      BY <2>2, <3>2
  <2>5. off \in Seq(Int) /\ Len(off) = n + 1 /\ \A m \in 1 .. n - 1 : off[m + 1] = o[m + 1]
    BY <1>2, <2>3
  <2>6. \A m \in 1 .. n : m \in 1 .. n - 1 \/ m = n
    OBVIOUS
  <2>7. \A m \in 1 .. n : x[m].kind \in {"data", "instruction"} => m \in 1 .. n - 1
    BY <1>3, <1>4, <2>6
  <2>8. f = U[n]
    <3>1. U[n] = U[n - 1] + Weight(x[n])
      BY DEF Weighs
    <3>2. Weight(x[n]) = 0
      BY <1>3, <1>4 DEF Weight
    <3> QED
      BY <1>2, <3>1, <3>2
  <2>9. \A a \in DOMAIN more : more[a] \in Int
    BY <1>2, <2>1
  <2>10. \A m \in 1 .. n : x[m].kind \in {"data", "instruction"} => off[m + 1] = U[m - 1]
    BY <1>2, <2>5, <2>7
  <2>11. \A m \in 1 .. n : x[m].kind = "instruction" => ~Asm!IsRefused(x[m])
    BY <1>2, <2>7
  <2>12. ResSumIs(U, x, n, r, f, off, more)
    BY <1>2, <2>4, <2>5, <2>8, <2>9, <2>10, <2>11 DEF ResSumIs
  <2> QED
    BY <1>3, <2>12 DEF ResSum
<1> QED
  BY <1>6, <1>7

LEMMA SumOfBytes ==
    ASSUME NEW x \in Seq(Statement), NoRuns(x), NEW U, Weighs(x, U), NEW n \in 1 .. Len(x),
           NEW p, ResSum(U, x, n - 1, p), x[n].kind \in {"data", "instruction"}
    PROVE  LET r == Asm!ResolveStatement(p, x[n]) IN r.failed = TRUE \/ ResSum(U, x, n, r)
<1>0. n \in Nat /\ n > 0 /\ n - 1 + 1 = n
  OBVIOUS
<1>1. PICK f, o, labs : ResSumIs(U, x, n - 1, p, f, o, labs)
  BY DEF ResSum
<1>2. /\ f = U[n - 1] /\ f \in Int
      /\ p = [offset |-> f, offsets |-> o, labels |-> labs, failed |-> FALSE]
      /\ o \in Seq(Int) /\ Len(o) = n
      /\ \A m \in 1 .. n - 1 : x[m].kind \in {"data", "instruction"} => o[m + 1] = U[m - 1]
      /\ \A a \in DOMAIN labs : labs[a] \in Int
      /\ \A m \in 1 .. n - 1 : x[m].kind = "instruction" => ~Asm!IsRefused(x[m])
  BY <1>0, <1>1 DEF ResSumIs
<1>3. PICK s, r : s = x[n] /\ r = Asm!ResolvePlaced(p, s)
  OBVIOUS
<1>4. Asm!ResolveStatement(p, s) = r
  <2>1. p.failed = FALSE /\ s.kind # "label" /\ s.kind # "org"
    BY <1>2, <1>3
  <2> QED
    BY <1>3, <2>1 DEF Asm!ResolveStatement
<1>5. CASE f >= End - 1 \/ (s.kind = "instruction" /\ Asm!IsRefused(s))
  <2>1. r = [p EXCEPT !.failed = TRUE]
    BY <1>2, <1>3, <1>5 DEF Asm!ResolvePlaced
  <2>2. r.failed = TRUE
    BY <1>2, <2>1
  <2> QED
    BY <1>3, <1>4, <2>2
<1>6. CASE ~(f >= End - 1 \/ (s.kind = "instruction" /\ Asm!IsRefused(s)))
  <2>1. PICK w \in Int : w = Asm!SizeOf(s) /\ w = Weight(s)
    <3>1. Weight(x[n]) \in Int /\ x[n].kind # "label"
      BY DEF NoRuns
    <3> QED
      BY <1>3, <3>1 DEF Weight
  <2>2. PICK off, g : off = Append(o, f) /\ g = f + w
    OBVIOUS
  <2>3. r = [offset |-> g, offsets |-> off, labels |-> labs, failed |-> FALSE]
    BY <1>2, <1>3, <1>6, <2>1, <2>2 DEF Asm!ResolvePlaced
  <2>4. off \in Seq(Int) /\ Len(off) = n + 1 /\ off[n + 1] = f
        /\ \A m \in 1 .. n - 1 : off[m + 1] = o[m + 1]
    BY <1>2, <2>2
  <2>5. \A m \in 1 .. n : m \in 1 .. n - 1 \/ m = n
    OBVIOUS
  <2>6. g = U[n] /\ g \in Int
    <3>1. U[n] = U[n - 1] + Weight(x[n])
      BY DEF Weighs
    <3> QED
      BY <1>2, <1>3, <2>1, <2>2, <3>1
  <2>7. \A m \in 1 .. n : x[m].kind \in {"data", "instruction"} => off[m + 1] = U[m - 1]
    BY <1>2, <2>4, <2>5
  <2>8. \A m \in 1 .. n : x[m].kind = "instruction" => ~Asm!IsRefused(x[m])
    BY <1>2, <1>3, <1>6, <2>5
  <2>9. ResSumIs(U, x, n, r, g, off, labs)
    BY <1>2, <2>3, <2>4, <2>6, <2>7, <2>8 DEF ResSumIs
  <2> QED
    BY <1>3, <1>4, <2>9 DEF ResSum
<1> QED
  BY <1>5, <1>6

ResSumInv(c, seq, k, p) ==
    IF k = 0 THEN p = ResBase ELSE p.failed = TRUE \/ ResSum(c[1], c[2], k - 1, p)
Summing == INSTANCE FoldRule WITH Op <- ResStep, Holds <- ResSumInv

(* Resolve fails, or its offsets are those sums.                            *)
LEMMA ResolveSums ==
    ASSUME NEW x \in Seq(Statement), NoRuns(x), NEW U, Weighs(x, U), Start \in Int
    PROVE  LET p == Asm!Resolve(Program(x)) IN p.failed = TRUE \/ ResSum(U, x, Len(x), p)
<1>1. PICK c : c = <<U, x>>
  OBVIOUS
<1>2. c[1] = U /\ c[2] = x /\ Len(x) \in Nat
  BY <1>1
<1>3. PICK n : n = Len(x) + 1
  OBVIOUS
<1>4. n \in Nat /\ n > 0 /\ n - 1 = Len(x) /\ DOMAIN Program(x) = 1 .. n
  BY <1>2, <1>3, ProgramIs
<1>5. ResSumInv(c, Program(x), 0, ResBase)
  BY DEF ResSumInv
<1>6. ASSUME NEW k \in 1 .. n, NEW p, ResSumInv(c, Program(x), k - 1, p)
      PROVE  ResSumInv(c, Program(x), k, ResStep(c, p, Program(x)[k]))
  <2>1. CASE k = 1
    <3>1. p = ResBase /\ Program(x)[k] = Asm!Org(Start, Radix - 1)
      BY <1>6, <2>1, ProgramIs DEF ResSumInv
    <3>2. PICK b, s, v, r : b = ResBase /\ s = Asm!Org(Start, Radix - 1) /\ v = Start
                            /\ r = Asm!ResolveStatement(b, s)
      OBVIOUS
    <3>3. /\ b.offsets = << >> /\ b.labels = << >> /\ b.failed = FALSE
          /\ b = [offset |-> 0, offsets |-> << >>, labels |-> << >>, failed |-> FALSE]
      BY <3>2 DEF ResBase
    <3>4. s.kind = "org" /\ s.value = v
      BY <3>2 DEF Asm!Org
    <3>5. r = [b EXCEPT !.offset = v, !.offsets = Append(b.offsets, v)]
      BY <3>2, <3>3, <3>4 DEF Asm!ResolveStatement
    <3>6. Append(<< >>, v) = <<v>>
      OBVIOUS
    <3>7. r = [offset |-> v, offsets |-> <<v>>, labels |-> << >>, failed |-> FALSE]
      BY <3>3, <3>5, <3>6
    <3>8. v = U[0] /\ v \in Int
      BY <3>2 DEF Weighs
    <3>9. <<v>> \in Seq(Int) /\ Len(<<v>>) = 0 + 1 /\ 1 .. 0 = {} /\ DOMAIN << >> = {}
      BY <3>8
    <3>10. ResSumIs(U, x, 0, r, v, <<v>>, << >>)
      BY <3>7, <3>8, <3>9 DEF ResSumIs
    <3>11. ResSum(U, x, 0, r) /\ r = ResStep(c, p, Program(x)[k])
      BY <3>1, <3>2, <3>10 DEF ResSum, ResStep
    <3> QED
      BY <1>2, <2>1, <3>11 DEF ResSumInv
  <2>2. CASE k # 1
    <3>1. PICK m : m = k - 1
      OBVIOUS
    <3>2. m \in 1 .. Len(x) /\ k = m + 1 /\ m # 0
      BY <1>3, <1>4, <2>2, <3>1
    <3>3. p.failed = TRUE \/ ResSum(U, x, m - 1, p)
      BY <1>2, <1>6, <3>1, <3>2 DEF ResSumInv
    <3>4. Program(x)[k] = x[m]
      BY <3>2, ProgramIs
    <3>5. x[m].kind = "label" \/ x[m].kind \in {"instruction", "data"}
      BY <3>2 DEF NoRuns
    <3>6. PICK r : r = Asm!ResolveStatement(p, x[m])
      OBVIOUS
    <3>7. r.failed = TRUE \/ ResSum(U, x, m, r)
      <4>1. CASE p.failed = TRUE
        BY <3>6, <4>1 DEF Asm!ResolveStatement
      <4>2. CASE ResSum(U, x, m - 1, p)
        BY <3>2, <3>5, <3>6, <4>2, SumOfLabel, SumOfBytes
      <4> QED
        BY <3>3, <4>1, <4>2
    <3>8. ResStep(c, p, Program(x)[k]) = r /\ k # 0 /\ k - 1 = m
      BY <3>1, <3>2, <3>4, <3>6 DEF ResStep
    <3> QED
      BY <1>2, <3>7, <3>8 DEF ResSumInv
  <2> QED
    BY <2>1, <2>2
<1>7. ResSumInv(c, Program(x), n, Summing!Fold(c, ResBase, Program(x)))
  BY <1>4, <1>5, <1>6, Summing!Rule
<1>8. Asm!Resolve(Program(x)) = Summing!Fold(c, ResBase, Program(x))
  BY DEF Asm!Resolve, Summing!Fold, ResStep, ResBase, FoldLeft, MapThenFoldSet,
         Summing!MapThenFoldSet, Summing!Largest, Max,
         Asm!FoldLeft, Asm!MapThenFoldSet, Asm!Max
<1> QED
  BY <1>2, <1>4, <1>7, <1>8 DEF ResSumInv
=============================================================================
