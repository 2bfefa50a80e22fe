---------------------------- MODULE Disassembler ----------------------------
(***************************************************************************)
(* Rom.Disassemble up to its last jump table: which bytes of the program    *)
(* ROM become instructions, words and labels.                               *)
(*                                                                          *)
(* The program is a linked list of statements, at first one DataStatement   *)
(* per byte, and a map Offsets from addresses to its elements.  Marking an  *)
(* instruction overwrites its element, takes the elements of its operand    *)
(* out of list and map, and marks whatever runs next.                       *)
(*                                                                          *)
(* An element is named by the address of its byte, its home, and stays      *)
(* itself when it is taken off the list.  A label is a statement of the     *)
(* list too: it is kept apart, with the home it was put in front of.        *)
(*                                                                          *)
(* The ROM is every ROM: the kind of a byte read as an op code is chosen    *)
(* when it is first read and remembered, an operand when it is consumed.    *)
(***************************************************************************)
EXTENDS Integers, FiniteSetsExt, SequencesExt

CONSTANTS
    BankSize,     \* per number of banks, bytes of a bank; 16384 on the console
    VectorCount,  \* 3: NMI, reset, IRQ
    OpCodes,      \* the kinds of op code the ROM may hold
    Targets,      \* addresses its operands may name, per number of banks
    Reach         \* distances its branches may jump

(* The kinds of op code: the bytes they take, whether the operand becomes a *)
(* label, and what is marked afterwards, in order.  "head" and "tail" stand *)
(* for a routine that detectJumpTable recognises: thirteen instructions in  *)
(* the code, the last an indirect jump, are two of one byte.                *)
Shape ==
    [plain1  |-> [size |-> 1, label |-> "none", next |-> <<"after">>],
     stop    |-> [size |-> 1, label |-> "none", next |-> <<>>],
     head    |-> [size |-> 1, label |-> "none", next |-> <<"after">>],
     tail    |-> [size |-> 1, label |-> "none", next |-> <<>>],
     plain2  |-> [size |-> 2, label |-> "none", next |-> <<"after">>],
     branch  |-> [size |-> 2, label |-> "must", next |-> <<"after", "target">>],
     access  |-> [size |-> 3, label |-> "may",  next |-> <<"after">>],
     jmp     |-> [size |-> 3, label |-> "may",  next |-> <<"target">>],
     jmpInd  |-> [size |-> 3, label |-> "none", next |-> <<>>],
     jsr     |-> [size |-> 3, label |-> "may",  next |-> <<"target", "return">>]]

ASSUME DisassemblerAssumption ==
    /\ BankSize \in [1 .. 2 -> Nat \ {0}]
    /\ VectorCount \in Nat \ {0} /\ \A b \in 1 .. 2 : 2 * VectorCount <= BankSize[b]
    /\ OpCodes \subseteq DOMAIN Shape \cup {"bad"}
    /\ Targets \in [1 .. 2 -> SUBSET Nat]
    /\ Reach \subseteq Int

VARIABLES
    banks,       \* len(PrgRom)
    opcode,      \* what is known of the ROM: the kinds of the bytes read
    statement,   \* elem.Value, per home
    list,        \* the homes of the elements that are in the list
    offsets,     \* the keys of Offsets
    labels,      \* the label statements of the list
    work,        \* the calls to come, innermost first
    dynJumps,    \* addresses that follow a call of a jump table
    jumpTables,  \* what isJumpTable remembers
    phase        \* "running", "done", "panicked"

vars == <<banks, opcode, statement, list, offsets, labels, work, dynJumps,
          jumpTables, phase>>

None == -1

(* A map f that says y of x, whether it said anything of x before or not.   *)
Noted(f, x, y) == [z \in DOMAIN f \cup {x} |-> IF z = x THEN y ELSE f[z]]

-----------------------------------------------------------------------------
(* Addresses.  One bank ends where two do and is mirrored below itself.     *)

End == 4 * BankSize[banks]
PrgStart == 2 * BankSize[banks]
Homes == End - banks * BankSize[banks] .. End - 1
Vectors == [i \in 1 .. VectorCount |-> End - 2 * (VectorCount - i + 1)]

(* elemAtAddr *)
ElemAtAddr(offs, a) ==
    IF a \in offs THEN a
    ELSE IF banks = 1 /\ a < End - BankSize[1] /\ a + BankSize[1] \in offs
         THEN a + BankSize[1]
         ELSE None

Elem(a) == ElemAtAddr(offsets, a)

(* Element.Next and Element.Prev among the elements with a home; those off  *)
(* the list have neither.                                                   *)
NextHome(h) ==
    IF h \notin list \/ \A n \in list : n <= h
    THEN None ELSE Min({n \in list : n > h})

PrevHome(h) ==
    IF \A p \in list : p >= h THEN None ELSE Max({p \in list : p < h})

(* elemLabelStmt: the label right in front of an element.                   *)
LabelsBefore(h) ==
    IF h \notin list THEN {}
    ELSE {l \in labels : PrevHome(h) < l.home /\ l.home <= h}

LabelAt(h) == CHOOSE l \in LabelsBefore(h) :
                  \A other \in LabelsBefore(h) : other.home <= l.home

(* The list in order: the place of an element is twice its home, and one,   *)
(* and of a label the place in front of its element.                        *)
Start == End - banks * BankSize[banks]

Placed(p) ==
    IF p % 2 = 1 THEN p \div 2 \in list ELSE \E l \in labels : 2 * l.home = p

WithPlace(places, p) == IF Placed(p) THEN Append(places, p) ELSE places

Places == FoldLeft(WithPlace, << >>,
                   [i \in 1 .. 2 * Cardinality(Homes) |-> 2 * Start + i - 1])

(* elemAsByte succeeds on a byte and on a word that is a plain number, and  *)
(* not on an instruction, a word being marked or a word that has a label.   *)
ByteLike(h) == h # None /\ statement[h].kind \in {"byte", "number"}

(* Wrong variant, for mutation testing. *)
NextByteUnderLabel(h) ==
    IF NextHome(h) # None /\ ByteLike(NextHome(h)) THEN NextHome(h) ELSE None

(* The element after h, where it has to be a byte and not a label.          *)
NextByte(h) ==
    IF \E n \in list : n = NextHome(h) /\ LabelsBefore(n) = {} /\ ByteLike(n)
    THEN NextHome(h) ELSE None

HasOperand(h, size) ==
    /\ size > 1 => NextByte(h) # None
    /\ size > 2 => \E n \in list : n = NextByte(h) /\ NextByte(n) # None

-----------------------------------------------------------------------------
(* The helpers that change the list.                                        *)

(* getLabelAt: the name of the label at a, a new one unless there is one.   *)
(* No label can be put inside an instruction, and one put in front of an    *)
(* element that is off the list goes nowhere.                               *)
LabelName(a, name) ==
    IF Elem(a) = None THEN None
    ELSE IF LabelsBefore(Elem(a)) # {} THEN LabelAt(Elem(a)).name ELSE name

LabelsWith(a, name) ==
    IF Elem(a) \in list /\ LabelsBefore(Elem(a)) = {}
    THEN labels \cup {[name |-> name, home |-> Elem(a)]} ELSE labels

(* Wrong variants, for mutation testing. *)
UnmapElemAt(s, a) ==
    LET h == ElemAtAddr(s.offsets, a)
    IN  [s EXCEPT !.offsets = @ \ {a}, !.ok = @ /\ h # None]

(* removeElemAt.  Only the address asked for leaves Offsets: an element     *)
(* found through the mirror stays in the map.                               *)
RemoveElemAt(s, a) ==
    LET h == ElemAtAddr(s.offsets, a)
    IN  [list |-> s.list \ {h}, offsets |-> s.offsets \ {a},
         ok |-> s.ok /\ h # None]

OneByteRemoved(a, size) ==
    LET whole == [list |-> list, offsets |-> offsets, ok |-> TRUE]
    IN  IF size = 1 THEN whole ELSE RemoveElemAt(whole, a + 1)

OperandRemoved(a, size) ==
    LET whole == [list |-> list, offsets |-> offsets, ok |-> TRUE]
        first == RemoveElemAt(whole, a + 1)
    IN  CASE size = 1 -> whole
          [] size = 2 -> first
          [] size = 3 -> RemoveElemAt(first, a + 2)

(* detectJumpTable *)
IsDispatch(a) ==
    LET Holds(h, c) == /\ h # None
                       /\ statement[h].kind = "instruction"
                       /\ statement[h].code = c
        h == Elem(a)
    IN  /\ Holds(h, "head")
        /\ LabelsBefore(NextHome(h)) = {}
        /\ Holds(NextHome(h), "tail")

-----------------------------------------------------------------------------
(* The calls to come.                                                       *)

(* A mark whose error the caller looks at carries the word it is made for.  *)
Mark(a, word) == [op |-> "mark", addr |-> a, arg |-> word]
Word(a) == [op |-> "word", addr |-> a, arg |-> None]
LabelWord(target, word) == [op |-> "label", addr |-> target, arg |-> word]
Return(a, target) == [op |-> "return", addr |-> a, arg |-> target]

Top == Head(work)
Rest == Tail(work)

Init ==
    /\ banks \in 1 .. 2
    /\ opcode = << >>
    /\ statement = [h \in Homes |-> [kind |-> "byte"]]
    /\ list = Homes
    /\ offsets = Homes
    /\ labels = {}
    /\ work = [i \in 1 .. VectorCount |-> Word(Vectors[i])]
    /\ dynJumps = << >>
    /\ jumpTables = << >>
    /\ phase = "running"

Panic ==
    /\ phase' = "panicked"
    /\ UNCHANGED <<banks, opcode, statement, list, offsets, labels, work,
                   dynJumps, jumpTables>>

(* The kinds the op code at home h may have, and what its operand may be.   *)
OpCodeAt(h) == IF h \in DOMAIN opcode THEN {opcode[h]} ELSE OpCodes

Operands(c, a) ==
    IF Shape[c].label = "must" THEN {a + 2 + d : d \in Reach}
    ELSE IF Shape[c].size = 3 THEN Targets[banks] ELSE {0}

Calls(c, a, v) ==
    LET after == a + Shape[c].size
        Call(n) == CASE n = "after" -> Mark(after, None)
                     [] n = "target" -> Mark(v, None)
                     [] n = "return" -> Return(after, v)
    IN  [i \in DOMAIN Shape[c].next |-> Call(Shape[c].next[i])]

-----------------------------------------------------------------------------
(* markAsInstruction, by its outcomes.                                      *)

Marking == phase = "running" /\ work # << >> /\ Top.op = "mark"

(* Wrong variant, for mutation testing. *)
DecodablePastStart(a) == a > PrgStart /\ ByteLike(Elem(a))

(* Its two early returns: not in the ROM, or no byte any more.              *)
Decodable(a) == a >= PrgStart /\ ByteLike(Elem(a))

Decodes(c, h) == c # "bad" /\ HasOperand(h, Shape[c].size)

MarkNothing ==
    /\ Marking
    /\ ~Decodable(Top.addr)
    /\ work' = Rest
    /\ UNCHANGED <<banks, opcode, statement, list, offsets, labels, dynJumps,
                   jumpTables, phase>>

(* An error, which only markAsDataWordLabel looks at: its word stays a      *)
(* number.  The byte stays a byte.                                          *)
MarkFails ==
    /\ Marking
    /\ Decodable(Top.addr)
    /\ \E h \in offsets : /\ h = Elem(Top.addr)
                          /\ \E c \in OpCodeAt(h) : /\ ~Decodes(c, h)
                                                    /\ opcode' = Noted(opcode, h, c)
    /\ IF Top.arg = None
       THEN work' = Rest /\ UNCHANGED statement
       ELSE /\ work' = Tail(Rest)
            /\ statement' = [statement EXCEPT ![Top.arg].kind = "number"]
    /\ UNCHANGED <<banks, list, offsets, labels, dynJumps, jumpTables, phase>>

(* The label of the operand is made before the operand leaves the list.     *)
MarkInstruction ==
    /\ Marking
    /\ Decodable(Top.addr)
    /\ \E h \in offsets, c \in OpCodes :
          /\ h = Elem(Top.addr)
          /\ c \in OpCodeAt(h) /\ Decodes(c, h)
          /\ \E v \in Operands(c, Top.addr) :
                LET shape == Shape[c]
                    s == OperandRemoved(Top.addr, shape.size)
                    name == IF shape.label = "none" THEN None
                            ELSE LabelName(v, v)
                IN  IF ~s.ok \/ (shape.label = "must" /\ name = None)
                    THEN Panic
                    ELSE /\ opcode' = Noted(opcode, h, c)
                         /\ statement' = [statement EXCEPT ![h] =
                               [kind |-> "instruction", code |-> c,
                                addr |-> Top.addr, value |-> v, label |-> name]]
                         /\ labels' = IF shape.label = "none" THEN labels
                                      ELSE LabelsWith(v, v)
                         /\ list' = s.list
                         /\ offsets' = s.offsets
                         /\ work' = Calls(c, Top.addr, v) \o Rest
                         /\ UNCHANGED <<banks, dynJumps, jumpTables, phase>>

(* A jsr, after its target is marked: is there code after it, or a table?   *)
ReturnFromMark ==
    /\ phase = "running" /\ work # << >> /\ Top.op = "return"
    /\ LET isTable == IF Top.arg \in DOMAIN jumpTables
                      THEN jumpTables[Top.arg] ELSE IsDispatch(Top.arg)
       IN  /\ jumpTables' = Noted(jumpTables, Top.arg, isTable)
           /\ IF isTable
              THEN dynJumps' = Append(dynJumps, Top.addr) /\ work' = Rest
              ELSE work' = <<Mark(Top.addr, None)>> \o Rest /\ UNCHANGED dynJumps
    /\ UNCHANGED <<banks, opcode, statement, list, offsets, labels, phase>>

-----------------------------------------------------------------------------
(* markAsDataWordLabel: a vector, or an entry of a jump table.              *)

MarkWord ==
    /\ phase = "running" /\ work # << >> /\ Top.op = "word"
    /\ LET h == Elem(Top.addr)
           s == OperandRemoved(Top.addr, 2)
       IN  IF ~ByteLike(h) \/ NextByte(h) = None \/ ~s.ok
           THEN Panic
           ELSE \E v \in Targets[banks] :
                   /\ statement' = [statement EXCEPT ![h] =
                         [kind |-> IF v < PrgStart THEN "number" ELSE "open",
                          value |-> v, label |-> None]]
                   /\ list' = s.list
                   /\ offsets' = s.offsets
                   /\ work' = IF v < PrgStart THEN Rest
                              ELSE <<Mark(v, h), LabelWord(v, h)>> \o Rest
                   /\ UNCHANGED <<banks, opcode, labels, dynJumps, jumpTables,
                                  phase>>

(* The name suggested for a vector stands apart from every address.         *)
SuggestedName(word, target) ==
    IF \E i \in DOMAIN Vectors : Vectors[i] = word THEN End + word ELSE target

LabelTheWord ==
    /\ phase = "running" /\ work # << >> /\ Top.op = "label"
    /\ LET name == SuggestedName(Top.arg, Top.addr)
           found == LabelName(Top.addr, name)
       IN  /\ statement' = [statement EXCEPT
                 ![Top.arg].kind = IF found = None THEN "number" ELSE "reference",
                 ![Top.arg].label = found]
           /\ labels' = LabelsWith(Top.addr, name)
    /\ work' = Rest
    /\ UNCHANGED <<banks, opcode, list, offsets, dynJumps, jumpTables, phase>>

(* Wrong variants, for mutation testing. *)
ResolveDynJumpKeeping ==
    /\ phase = "running" /\ work = << >> /\ dynJumps # << >>
    /\ LET h == Elem(Last(dynJumps))
       IN  IF ByteLike(h) /\ LabelsBefore(h) = {} /\ NextByte(h) # None
           THEN /\ dynJumps' = Append(Front(dynJumps), Last(dynJumps) + 2)
                /\ work' = <<Word(h)>>
           ELSE UNCHANGED <<dynJumps, work>>
    /\ UNCHANGED <<banks, opcode, statement, list, offsets, labels, jumpTables,
                   phase>>

FinishWithoutTables ==
    /\ phase = "running" /\ work = << >>
    /\ phase' = "done"
    /\ UNCHANGED <<banks, opcode, statement, list, offsets, labels, work,
                   dynJumps, jumpTables>>

(* resolveDynJumpCases: the table called last goes on until a label or      *)
(* anything that is not two bytes.                                          *)
ResolveDynJump ==
    /\ phase = "running" /\ work = << >> /\ dynJumps # << >>
    /\ LET a == Last(dynJumps)
           h == Elem(a)
       IN  IF ByteLike(h) /\ LabelsBefore(h) = {} /\ NextByte(h) # None
           THEN /\ dynJumps' = Append(Front(dynJumps), a + 2)
                /\ work' = <<Word(h)>>
           ELSE dynJumps' = Front(dynJumps) /\ UNCHANGED work
    /\ UNCHANGED <<banks, opcode, statement, list, offsets, labels, jumpTables,
                   phase>>

Finish ==
    /\ phase = "running" /\ work = << >> /\ dynJumps = << >>
    /\ phase' = "done"
    /\ UNCHANGED <<banks, opcode, statement, list, offsets, labels, work,
                   dynJumps, jumpTables>>

Next ==
    \/ MarkNothing
    \/ MarkFails
    \/ MarkInstruction
    \/ ReturnFromMark
    \/ MarkWord
    \/ LabelTheWord
    \/ ResolveDynJump
    \/ Finish

Spec == Init /\ [][Next]_vars /\ WF_vars(Next)

-----------------------------------------------------------------------------
(* What the disassembly promises.                                           *)

Kinds == {"byte", "instruction", "open", "number", "reference"}

(* Type invariant: the map names elements that exist, the list holds only   *)
(* mapped ones, and one word at most is being marked.                       *)
TypeOK ==
    /\ banks \in 1 .. 2
    /\ DOMAIN opcode \subseteq Homes /\ \A h \in DOMAIN opcode : opcode[h] \in OpCodes
    /\ DOMAIN statement = Homes /\ \A h \in Homes : statement[h].kind \in Kinds
    /\ list \subseteq offsets /\ offsets \subseteq Homes
    /\ \A l \in labels : l.home \in Homes
    /\ \A i \in DOMAIN work : work[i].op \in {"mark", "word", "label", "return"}
    /\ Cardinality({h \in Homes : statement[h].kind = "open"}) <= 1
    /\ phase \in {"running", "done", "panicked"}

Size(h) ==
    CASE statement[h].kind = "byte" -> 1
      [] statement[h].kind = "instruction" -> Shape[statement[h].code].size
      [] OTHER -> 2

(* The statements of the list that hold byte b.                             *)
Holders(b) == {h \in list : h <= b /\ b < h + Size(h)}

(* A byte that nothing holds, the second one of a word. *)
ByteLost == \E b \in Homes : Holders(b) = {}

(* A plain number is overwritten by an instruction or taken as an operand.  *)
NumberLost(h) ==
    /\ statement[h].kind = "number"
    /\ h \in list
    /\ h \notin list' \/ statement'[h].kind = "instruction"

(* Every byte of the ROM stays in exactly one statement, whatever order     *)
(* overlapping code, words and tables are found in, so that the list can be *)
(* assembled again.  The only bytes ever dropped are second bytes of words  *)
(* that were left as numbers: those pass for a single byte (elemAsByte).    *)
TilesRom ==
    [][\A b \in Homes :
          Cardinality(Holders(b)) = 1 =>
              \/ Cardinality(Holders(b)') = 1
              \/ b - 1 \in Homes /\ NumberLost(b - 1)]_vars

(* The labelled statements of the list.                                     *)
Labelled ==
    {h \in list : statement[h].kind \in {"instruction", "reference"}
                     /\ statement[h].label # None}

IntoItself(h) ==
    /\ statement[h].kind = "instruction"
    /\ statement[h].addr < statement[h].value
    /\ statement[h].value < statement[h].addr + Size(h)

(* A label still stands for the address it was made for when the rest of    *)
(* the ROM has been taken apart around it: the element in front of which it *)
(* was put is in the list and no operand was removed from between.  With    *)
(* one bank this is promised for statements only: the element of an operand *)
(* byte is found again through the mirror, and its label goes nowhere.      *)
(* Either way an instruction that names its own operand is left out: it is  *)
(* given a label that moves behind it.                                      *)
LabelsResolve ==
    \A h \in Labelled :
        LET target == Elem(statement[h].value)
        IN  (IF banks = 1 THEN target \in list ELSE ~IntoItself(h)) =>
               \E l \in LabelsBefore(target) : l.name = statement[h].label

(* The addresses execution goes to after instruction h, as far as the code  *)
(* takes them for instructions.                                             *)
Successors(h) ==
    LET i == statement[h]
        after == i.addr + Size(h)
        table == i.value \in DOMAIN jumpTables /\ jumpTables[i.value]
    IN  {IF n = "target" THEN i.value ELSE after :
            n \in Range(Shape[i.code].next)
                     \ (IF table THEN {"return"} ELSE {})}

(* Nothing that instructions lead to is left unexamined: at the end, every  *)
(* byte after an instruction or at a target it names was read as an op code *)
(* and refused, or is no byte any more.                                     *)
CodeClosed ==
    phase = "done" =>
        \A h \in Homes : statement[h].kind = "instruction" =>
            \A a \in Successors(h) :
                a < PrgStart \/ Elem(a) = None \/ statement[Elem(a)].kind # "byte"
                    \/ Elem(a) \in DOMAIN opcode

(* A table goes on, in steps of a word from the call, up to a label or      *)
(* anything that is not two bytes: at the end no call of a table has words  *)
(* behind it and then two bytes that were never tried as an entry, although *)
(* tables are found while the entries of other tables are read.  A table    *)
(* ends with the ROM, also the table of a call that was reached through the *)
(* mirror: its words are those behind the home of the call.                 *)
TablesExhausted ==
    LET IsTableCall(h) ==
            /\ statement[h].kind = "instruction" /\ statement[h].code = "jsr"
            /\ statement[h].value \in DOMAIN jumpTables
            /\ jumpTables[statement[h].value]
        Entry(h, k) == Elem(h + 3 + 2 * k)
        IsWord(e) == e # None /\ statement[e].kind \in {"number", "reference"}
        IsPair(e) == ByteLike(e) /\ LabelsBefore(e) = {} /\ NextByte(e) # None
    IN  phase = "done" =>
            \A h \in list, k \in 0 .. Cardinality(Homes) :
                IsTableCall(h) /\ (\A j \in 0 .. k - 1 : IsWord(Entry(h, j))) =>
                    IsWord(Entry(h, k)) \/ ~IsPair(Entry(h, k))

(* The marking ends, whatever loops the code of the ROM has.                *)
Terminates == <>(phase # "running")
=============================================================================
