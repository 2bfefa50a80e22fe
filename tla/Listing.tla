------------------------------ MODULE Listing -------------------------------
(***************************************************************************)
(* The statements of a program as the writer finds them, and the three      *)
(* passes Rom.Disassemble makes over its data when marking is over: long    *)
(* runs of a byte become .org statements, printable bytes strings, and      *)
(* neighbouring data statements lists.                                      *)
(***************************************************************************)
EXTENDS Integers, SequencesExt

CONSTANTS
    Radix,            \* a byte is below it; 256
    OrgMinRepeatAmt,  \* 64
    Threshold,        \* the shortest string: 5
    MaxDataListLen,   \* 8
    Printable         \* bytes a string may hold

None == -1   \* no label

(* Data items, and statements.  The home of a statement is the address of   *)
(* its first byte (Offset); the text does not have it.                      *)
Number(v)       == [kind |-> "number", value |-> v]
Text(chars)     == [kind |-> "string", value |-> chars]
LabelCall(name) == [kind |-> "call", value |-> name]

Label(name, home)        == [kind |-> "label", name |-> name, home |-> home]
Org(value, fill)         == [kind |-> "org", value |-> value, fill |-> fill]
Data(width, items, home) == [kind |-> "data", width |-> width, items |-> items, home |-> home]

Instruction(code, form, value, label, home) ==
    [kind |-> "instruction", code |-> code, form |-> form, value |-> value,
     label |-> label, home |-> home]

(* The list without its last n statements. *)
Without(n, statements) == SubSeq(statements, 1, Len(statements) - n)

-----------------------------------------------------------------------------
(* identifyOrgs.  The state of an orgIdentifier is the list so far and how  *)
(* many of its last statements repeat one byte.                             *)

(* What passes for a byte: any lone number, of a word the low byte. *)
IsRepeatable(s) ==
    s.kind = "data" /\ Len(s.items) = 1 /\ s.items[1].kind = "number"

LowByte(s) == s.items[1].value % Radix

(* Wrong variant, for mutation testing. *)
StopAtFirst(oi) ==
    IF oi.repeatCount > OrgMinRepeatAmt
    THEN Append(Without(oi.repeatCount, oi.list),
                Org(oi.list[Len(oi.list) - oi.repeatCount + 1].home, oi.byte))
    ELSE oi.list

(* orgIdentifier.stop: the run gives way to an .org behind it. *)
StopRun(oi) ==
    IF oi.repeatCount > OrgMinRepeatAmt
    THEN LET first == oi.list[Len(oi.list) - oi.repeatCount + 1]
         IN  Append(Without(oi.repeatCount, oi.list),
                    Org(first.home + oi.repeatCount, oi.byte))
    ELSE oi.list

(* orgIdentifier.gotByte *)
GotStatement(oi, s) ==
    IF ~IsRepeatable(s)
    THEN [oi EXCEPT !.list = Append(StopRun(oi), s), !.repeatCount = 0]
    ELSE IF oi.repeatCount > 0 /\ LowByte(s) = oi.byte
         THEN [oi EXCEPT !.list = Append(@, s), !.repeatCount = @ + 1]
         ELSE [list |-> Append(StopRun(oi), s), repeatCount |-> 1, byte |-> LowByte(s)]

(* The first statement is never part of a run, and the last run stays. *)
IdentifyOrgs(statements) ==
    IF Len(statements) < OrgMinRepeatAmt THEN statements
    ELSE FoldLeft(GotStatement,
                  [list |-> <<Head(statements)>>, repeatCount |-> 0, byte |-> 0],
                  Tail(statements)).list

-----------------------------------------------------------------------------
(* groupAsciiStrings, with the characters read since the last statement     *)
(* that is no text.                                                         *)

IsAscii(s) ==
    /\ s.kind = "data" /\ s.width = 1
    /\ \A i \in DOMAIN s.items : s.items[i].value \in Printable

FlushText(g) ==
    IF Len(g.chars) >= Threshold
    THEN LET first == g.list[Len(g.list) - Len(g.chars) + 1]
         IN  Append(Without(Len(g.chars), g.list), Data(1, <<Text(g.chars)>>, first.home))
    ELSE g.list

ReadText(g, s) ==
    IF IsAscii(s)
    THEN [list |-> Append(g.list, s), chars |-> Append(g.chars, s.items[1].value)]
    ELSE [list |-> Append(FlushText(g), s), chars |-> << >>]

GroupAsciiStrings(statements) ==
    IF Len(statements) < Threshold THEN statements
    ELSE FoldLeft(ReadText, [list |-> << >>, chars |-> << >>], statements).list

-----------------------------------------------------------------------------
(* collapseDataStatements: bytes are appended to whatever data is in front  *)
(* of them, words too.                                                      *)

CanJoin(prev, s) ==
    /\ s.kind = "data" /\ s.width = 1
    /\ prev.kind = "data"
    /\ Len(prev.items) + Len(s.items) <= MaxDataListLen

Join(list, s) ==
    IF CanJoin(Last(list), s)
    THEN [list EXCEPT ![Len(list)].items = @ \o s.items]
    ELSE Append(list, s)

CollapseDataStatements(statements) ==
    IF Len(statements) < 2 THEN statements
    ELSE FoldLeft(Join, <<Head(statements)>>, Tail(statements))
=============================================================================
