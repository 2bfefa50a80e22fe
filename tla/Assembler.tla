----------------------------- MODULE Assembler ------------------------------
(***************************************************************************)
(* Program.Resolve and Program.Assemble, on the statements that come back   *)
(* from the text of a disassembly.  Resolve gives statements their          *)
(* addresses and labels their values and decides how wide an operand is;    *)
(* Assemble writes bytes.  Mnemonics are the kinds of op code that          *)
(* Disassembler knows; the form "indexedY" is abs,Y, and "direct" any other *)
(* operand.                                                                 *)
(***************************************************************************)
EXTENDS Listing, FiniteSetsExt

CONSTANTS
    Width,        \* per kind of op code, the bytes of its instruction
    OpByte,       \* the op code of a kind, of "short", the zero-page access
                  \* of a direct one, and of "indexedY"
    LastAddress   \* $ffff

-----------------------------------------------------------------------------
(* Bytes of a word, the low one first. *)
Word(v) == <<v % Radix, v \div Radix>>

(* Instruction.Resolve, by its outcomes.  An operand that is a number is as *)
(* narrow as its value allows, whatever its op code was.                    *)
IsShort(i) == i.code = "access" /\ i.label = None /\ i.value < Radix

(* "try indirect": jmp of a number is taken for jmp (zp). *)
IsJmpIndirect(i) == i.code = "jmp" /\ i.label = None

(* The op code of abs,Y is refused exactly when it exists.  *)
IsRefused(i) ==
    \/ i.form = "indexedY"
    \/ IsJmpIndirect(i) /\ i.value >= Radix

ItemSize(s, item) ==
    CASE item.kind = "string" -> Len(item.value)
      [] OTHER -> s.width

SizeOf(s) ==
    IF s.kind = "data"
    THEN FoldLeft(LAMBDA size, item : size + ItemSize(s, item), 0, s.items)
    ELSE IF IsShort(s) \/ IsJmpIndirect(s) THEN 2 ELSE Width[s.code]

(* Program.Resolve: each statement gets its address, until one fails. *)
ResolveLabel(p, s) ==
    IF p.offset >= LastAddress \/ s.name \in DOMAIN p.labels
    THEN [p EXCEPT !.failed = TRUE]
    ELSE [p EXCEPT !.labels = [n \in DOMAIN p.labels \cup {s.name} |->
                                  IF n = s.name THEN p.offset ELSE p.labels[n]]]

ResolvePlaced(p, s) ==
    IF p.offset >= LastAddress \/ (s.kind = "instruction" /\ IsRefused(s))
    THEN [p EXCEPT !.failed = TRUE]
    ELSE [p EXCEPT !.offsets = Append(@, p.offset), !.offset = @ + SizeOf(s)]

(* offsets holds the address of every statement, of labels and .orgs too.  *)
ResolveStatement(p, s) ==
    IF p.failed THEN p
    ELSE CASE s.kind = "org" -> [p EXCEPT !.offset = s.value, !.offsets = Append(@, s.value)]
           [] s.kind = "label" -> [ResolveLabel(p, s) EXCEPT !.offsets = Append(@, p.offset)]
           [] OTHER -> ResolvePlaced(p, s)

Resolve(statements) ==
    FoldLeft(ResolveStatement,
             [offset |-> 0, offsets |-> << >>, labels |-> << >>, failed |-> FALSE],
             statements)

-----------------------------------------------------------------------------
(* Assemble of one statement; << >> where it is an error. *)

InReach(delta) == -(Radix \div 2) <= delta /\ delta < Radix \div 2

LabelledBytes(i, offset, labels) ==
    LET delta == labels[i.label] - (offset + 2)
    IN  IF i.label \notin DOMAIN labels THEN << >>
        ELSE IF Width[i.code] # 2 THEN <<OpByte[i.code]>> \o Word(labels[i.label])
        ELSE IF InReach(delta) THEN <<OpByte[i.code], delta % Radix>>
        ELSE << >>

NumberedBytes(i) ==
    IF IsShort(i) THEN <<OpByte["short"], i.value>>
    ELSE IF IsJmpIndirect(i) THEN <<OpByte["jmpInd"], i.value>>
    ELSE CASE Width[i.code] = 3 -> <<OpByte[i.code]>> \o Word(i.value)
           [] Width[i.code] = 2 -> <<OpByte[i.code], i.value>>
           [] Width[i.code] = 1 -> <<OpByte[i.code]>>

InstructionBytes(i, offset, labels) ==
    IF i.label = None THEN NumberedBytes(i) ELSE LabelledBytes(i, offset, labels)

ItemBytes(s, item, labels) ==
    CASE item.kind = "string" -> item.value
      [] item.kind = "call" -> Word(labels[item.value])
      [] item.kind = "number" -> IF s.width = 2 THEN Word(item.value) ELSE <<item.value>>

IsUndefined(s, labels) ==
    \E i \in DOMAIN s.items :
        s.items[i].kind = "call" /\ s.items[i].value \notin DOMAIN labels

StatementBytes(s, offset, labels) ==
    IF s.kind = "instruction" THEN InstructionBytes(s, offset, labels)
    ELSE IF IsUndefined(s, labels) THEN << >>
    ELSE FoldLeft(LAMBDA bytes, item : bytes \o ItemBytes(s, item, labels), << >>, s.items)

(* The fill of the last .org, up to the next statement. *)
OrgFill(w, offset) ==
    IF offset > w.expected THEN [i \in 1 .. offset - w.expected |-> w.fill] ELSE << >>

AssembleStatement(w, pair) ==
    LET s == pair[1]
        offset == pair[2]
        bytes == StatementBytes(s, offset, w.labels)
    IN  IF w.failed \/ s.kind = "label" THEN w
        ELSE IF s.kind = "org"
        THEN [w EXCEPT !.fill = s.fill, !.firstOrg = FALSE, !.offset = s.value,
                       !.expected = IF w.firstOrg THEN s.value ELSE @]
        ELSE IF bytes = << >> THEN [w EXCEPT !.failed = TRUE]
        ELSE [w EXCEPT !.bytes = @ \o OrgFill(w, offset) \o bytes,
                       !.offset = @ + Len(bytes),
                       !.expected = w.offset + Len(bytes)]

(* Program.Assemble, of statements that Resolve gave offsets and labels. *)
Assemble(statements, p) ==
    FoldLeft(AssembleStatement,
             [offset |-> 0, expected |-> 0, firstOrg |-> TRUE, fill |-> 0,
              bytes |-> << >>, labels |-> p.labels, failed |-> FALSE],
             Zip(statements, p.offsets))
=============================================================================
