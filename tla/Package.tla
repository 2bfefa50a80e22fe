------------------------------ MODULE Package -------------------------------
(***************************************************************************)
(* A ROM taken apart and put together again: Rom.Disassemble to the end,    *)
(* the text it writes, the parser's reading of that text, and AssembleRom.  *)
(* The ROM is again every ROM; the bytes the disassembler left as data are  *)
(* chosen when it is done with them.                                        *)
(***************************************************************************)
EXTENDS Disassembler

CONSTANTS
    Radix, OrgMinRepeatAmt, Threshold, MaxDataListLen, Printable,
    OpByte,       \* the op code of every kind, see Assembler
    DataBytes,    \* the bytes the ROM's data may hold
    Forms         \* of accesses: "direct", "indexedY"

ASSUME PackageAssumption ==
    /\ Radix \in Nat \ {0} /\ Printable \subseteq 0 .. Radix - 1
    /\ OrgMinRepeatAmt \in Nat /\ Threshold \in Nat \ {0} /\ MaxDataListLen \in Nat
    /\ DataBytes \subseteq 0 .. Radix - 1
    /\ OpByte \in [DOMAIN Shape \cup {"bad", "short", "indexedY"} -> 0 .. Radix - 1]
    /\ \A d \in Reach : -(Radix \div 2) <= d /\ d < Radix \div 2

VARIABLES
    form,    \* per access, how it names its operand
    data,    \* per byte that is still data, its value
    source,  \* the statements, from pass to pass
    stage,   \* what was done with them last
    output   \* the bytes assembled

packageVars == <<form, data, source, stage, output>>
allVars == <<vars, packageVars>>

Asm == INSTANCE Assembler WITH
    Width <- [c \in DOMAIN Shape |-> Shape[c].size],
    LastAddress <- End - 1

PackageInit ==
    /\ Init
    /\ form = << >> /\ data = << >>
    /\ source = << >> /\ output = << >>
    /\ stage = "marking"

-----------------------------------------------------------------------------
(* Rom.Disassemble, from the list that marking leaves.                      *)

MarkStep ==
    /\ Next
    /\ UNCHANGED packageVars

DataHomes == {h \in list : statement[h].kind = "byte"}
Accesses == {h \in list : statement[h].kind = "instruction" /\ statement[h].code = "access"}

(* A byte that was read as an op code is that op code. *)
Tried == DataHomes \cap DOMAIN opcode

StatementAt(h, f, d) ==
    LET s == statement[h]
    IN  CASE s.kind = "byte" -> Asm!Data(1, <<Asm!Number(d[h])>>, h)
          [] s.kind = "number" -> Asm!Data(2, <<Asm!Number(s.value)>>, h)
          [] s.kind = "reference" -> Asm!Data(2, <<Asm!LabelCall(s.label)>>, h)
          [] OTHER -> Asm!Instruction(s.code, IF h \in Accesses THEN f[h] ELSE "direct",
                                      s.value, s.label, h)

LabelPut(h) == LET l == CHOOSE l \in labels : l.home = h IN Asm!Label(l.name, h)

Listed(f, d) ==
    LET places == Places
    IN  [i \in DOMAIN places |->
            IF places[i] % 2 = 1 THEN StatementAt(places[i] \div 2, f, d)
            ELSE LabelPut(places[i] \div 2)]

(* Marking is over. *)
MarkingDone ==
    /\ stage = "marking" /\ phase = "done"
    /\ form' \in [Accesses -> Forms]
    /\ \E d \in [DataHomes \ Tried -> DataBytes] :
          data' = [h \in DataHomes |-> IF h \in Tried THEN OpByte[opcode[h]] ELSE d[h]]
    /\ source' = Listed(form', data')
    /\ stage' = "listed"
    /\ UNCHANGED <<vars, output>>

Pass(before, after, result) ==
    /\ stage = before /\ stage' = after
    /\ source' = result
    /\ UNCHANGED <<vars, form, data, output>>

IdentifyOrgs == Pass("listed", "orgs", Asm!IdentifyOrgs(source))
GroupAsciiStrings == Pass("orgs", "strings", Asm!GroupAsciiStrings(source))
CollapseDataStatements == Pass("strings", "lists", Asm!CollapseDataStatements(source))

(* The fill $ff is left off the text and is what the parser supplies.       *)
ToProgram ==
    Pass("lists", "source",
         <<Asm!Org(Start, Radix - 1)>> \o source)

-----------------------------------------------------------------------------
(* AssembleRom: the one prg line of the package stands for all its banks.   *)

Assemble ==
    /\ stage = "source"
    /\ \E p \in {Asm!Resolve(source)} :
          IF p.failed
          THEN stage' = "refused" /\ UNCHANGED output
          ELSE \E w \in {Asm!Assemble(source, p)} :
                  /\ stage' = IF w.failed THEN "refused" ELSE "assembled"
                  /\ output' = w.bytes
    /\ UNCHANGED <<vars, form, data, source>>

(* Wrong variant, for mutation testing. *)
IsBankUnchecked(bytes) == Len(bytes) > 0

IsBank(bytes) == Len(bytes) = BankSize[banks]

Pack ==
    /\ stage = "assembled"
    /\ stage' = IF IsBank(output) THEN "packed" ELSE "refused"
    /\ UNCHANGED <<vars, form, data, source, output>>

PackageNext ==
    \/ MarkStep
    \/ MarkingDone
    \/ IdentifyOrgs
    \/ GroupAsciiStrings
    \/ CollapseDataStatements
    \/ ToProgram
    \/ Assemble
    \/ Pack

PackageSpec == PackageInit /\ [][PackageNext]_allVars
-----------------------------------------------------------------------------
(* What taking apart and putting together promises.                         *)

(* The bytes of the ROM, statement by statement of the list. *)
OperandOf(i) ==
    CASE Shape[i.code].size = 1 -> << >>
      [] Shape[i.code].size = 3 -> Asm!Word(i.value)
      [] Shape[i.code].label = "must" -> <<(i.value - (i.addr + 2)) % Radix>>
      [] OTHER -> <<i.value>>

OpByteAt(h) ==
    OpByte[IF h \in Accesses /\ form[h] = "indexedY" THEN "indexedY" ELSE statement[h].code]

RomBytes(h) ==
    CASE statement[h].kind = "byte" -> <<data[h]>>
      [] statement[h].kind = "instruction" ->
            <<OpByteAt(h)>> \o OperandOf(statement[h])
      [] OTHER -> Asm!Word(statement[h].value)

(* None stands for a byte that no statement holds any more. *)
BytesFrom(b) ==
    IF b \in list THEN RomBytes(b)
    ELSE IF Holders(b) = {} THEN <<None>> ELSE << >>

Rom == FoldLeft(LAMBDA bytes, b : bytes \o BytesFrom(b), << >>,
                [i \in 1 .. Cardinality(Homes) |-> Start + i - 1])

(* The ways a ROM is known not to come back, each by its cause.  Three      *)
(* decisions about operands: abs,Y, an address of the zero page in three    *)
(* bytes, a jump out of the ROM.                                            *)
OperandLost ==
    \E h \in list :
        /\ statement[h].kind = "instruction"
        /\ \/ h \in Accesses /\ form[h] = "indexedY"
           \/ h \in Accesses /\ statement[h].label = None /\ statement[h].value < Radix
           \/ statement[h].code = "jmp" /\ statement[h].label = None

IsWord(h) == statement[h].kind \in {"number", "reference"}

StatementsOf(h) == {i \in DOMAIN source : source[i].kind = "data" /\ source[i].home = h}

(* A word takes the bytes behind it into its list, where they become words. *)
WordsJoined ==
    \E h \in list :
        /\ IsWord(h) /\ NextHome(h) \in DataHomes /\ LabelsBefore(NextHome(h)) = {}
        /\ \E i \in StatementsOf(h) : \E k \in 2 .. Len(source[i].items) :
              source[i].items[k].kind # "string"

(* A word that is a number is taken for one byte of a run. *)
WordInRun == \E h \in list : IsWord(h) /\ StatementsOf(h) = {}

(* Of two runs with nothing but labels between them the first is not        *)
(* filled in.                                                               *)
RunsAdjacent ==
    \E i, j \in 2 .. Len(source) :
        /\ i < j /\ source[i].kind = "org" /\ source[j].kind = "org"
        /\ \A k \in i + 1 .. j - 1 : source[k].kind = "label"

(* A label that is not where its address is. *)
LabelMoved ==
    \E h \in Labelled :
        \/ statement[h].value \notin list
        \/ ~\E l \in labels : l.name = statement[h].label /\ l.home = statement[h].value

(* Taken apart and put together again a ROM is byte for byte the same,      *)
(* unless it has one of these: no other combination of code, labels, words, *)
(* runs, strings and lists, in whatever order the passes meet them, moves a *)
(* statement or changes a byte.                                             *)
ComesBack ==
    stage \in {"assembled", "packed", "refused"} =>
        \/ output = Rom
        \/ OperandLost \/ WordsJoined \/ WordInRun \/ RunsAdjacent
        \/ LabelMoved \/ ByteLost

(* What a single bank loses is noticed, because it has the wrong size,      *)
(* unless an .org behind the loss fills the gap, a label was moved, or a    *)
(* word that took its neighbours into its list pays for the bytes of a      *)
(* short operand or of none.                                                *)
LossIsNoticed ==
    stage = "packed" /\ banks = 1 =>
        \/ output = Rom
        \/ LabelMoved
        \/ \E i \in 2 .. Len(source) : source[i].kind = "org"
        \/ WordsJoined /\ (OperandLost \/ ByteLost)
=============================================================================
