------------------------------ MODULE Dispatch ------------------------------
(***************************************************************************)
(* A disassembled ROM compiled and run: CompileToFile and the code it       *)
(* emits, as far as it decides what is executed next.  Every label of code  *)
(* is a basic block; a jump to it goes there, a jump that is computed goes  *)
(* through the table of all blocks, and what is not in the table is         *)
(* interpreted, one instruction at a time, until it is.                     *)
(*                                                                          *)
(* Of the instructions the data are left out, and BRK, which goes to the    *)
(* reset block, and RTI, which ends rom_start (Runtime has both).           *)
(***************************************************************************)
EXTENDS Disassembler

CONSTANTS
    Required,    \* the vectors without which there is no program: NMI and reset
    ResetVector, \* where a program starts; the second of three on the console
    RamCode,     \* bound: the addresses of RAM that code is run at
    MinRepeat,   \* orgMinRepeatAmt: a longer run of one byte is an .org; 64
    MaxDepth     \* bound on the calls inside each other

ASSUME DispatchAssumption ==
    /\ ResetVector \in Required /\ Required \subseteq 1 .. VectorCount
    /\ RamCode \subseteq Nat
    /\ \A a \in RamCode, b \in 1 .. 2 : a + 3 < 2 * BankSize[b]
    /\ MinRepeat \in Nat
    /\ MaxDepth \in Nat

VARIABLES
    mode,     \* "disassembling", "compiling", "labelled", "static", "dynJump",
              \* "interpret", and the ends "refused", "crashed", "panicked"
    fills,    \* the elements of the list that became part of an .org
    here,     \* the instruction that compiled code is at
    pc,       \* rPC
    stack,    \* the words jsr pushed
    blocks,   \* the labels in labeledBlocks
    marked    \* history: execution only followed what marking followed

runVars == <<mode, fills, here, pc, stack, blocks, marked>>
markVars == <<banks, opcode, statement, list, offsets, work, dynJumps, jumpTables, phase>>

DispatchInit ==
    /\ Init
    /\ mode = "disassembling" /\ fills = {} /\ here = None /\ pc = 0
    /\ stack = << >> /\ blocks = {} /\ marked = TRUE

Marks == Next /\ UNCHANGED runVars

IsCode(h) == statement[h].kind = "instruction"
Code == {h \in list : IsCode(h)}

-----------------------------------------------------------------------------
(* identifyOrgs: a long run of one byte gives way to an .org.  Which bytes  *)
(* repeat the one in front of them is the ROM's choice, as far as they were *)
(* not read as different op codes.                                          *)

(* The first statement of the list is not looked at.                        *)
LookedAt(h) == ByteLike(h) /\ (PrevHome(h) # None \/ LabelsBefore(h) # {})

MayRepeat(h) == LookedAt(h) /\ LabelsBefore(h) = {} /\ LookedAt(PrevHome(h))

(* The run h is in, where the bytes of repeating are as the one before.     *)
RunOf(repeating, h) ==
    {g \in list : \A x \in list :
        (g < x /\ x <= h) \/ (h < x /\ x <= g) => x \in repeating}

OneByte(run) == \A g, h \in run \cap DOMAIN opcode : opcode[g] = opcode[h]

(* A run that nothing follows stays data.                                   *)
MakeOrgs ==
    /\ phase = "done" /\ mode = "disassembling"
    /\ \E repeating \in SUBSET {h \in list : MayRepeat(h)} :
          /\ \A h \in list : OneByte(RunOf(repeating, h))
          /\ fills' = {h \in list : /\ LookedAt(h)
                                    /\ Cardinality(RunOf(repeating, h)) > MinRepeat
                                    /\ Max(list) \notin RunOf(repeating, h)}
    /\ mode' = "compiling"
    /\ UNCHANGED <<vars, here, pc, stack, blocks, marked>>

-----------------------------------------------------------------------------
(* CompileToFile.  An .org is skipped by all of its visits: to them the     *)
(* list is what is kept, and a label in front of an .org one of what is     *)
(* behind it.                                                               *)

Kept == list \ fills

PrevKept(h) ==
    IF \A p \in Kept : p >= h THEN None ELSE Max({p \in Kept : p < h})

LabelsAhead(h) == {l \in labels : PrevKept(h) < l.home /\ l.home <= h}

LastAhead(h) == CHOOSE l \in LabelsAhead(h) :
                    \A other \in LabelsAhead(h) : other.home <= l.home

(* Where compiled code is that leads to element h. *)
PastOrgs(h) == Min({n \in Kept : n >= h})

(* Wrong variant, for mutation testing. *)
NoLabels == {}

(* addLabelsAfterJsrs.  The bytes of an .org have left the list by now, and *)
(* a label of theirs goes nowhere.  So have those of strings and lists: to  *)
(* what is executed it makes no difference whether such data are not in the *)
(* table or have no label.                                                  *)
Behind(h) == statement[h].addr + Size(h)

Callers == {h \in Code : statement[h].code = "jsr"}

ReturnLabels ==
    UNION {LabelsWith(Behind(h), Behind(h)) : h \in {c \in Callers : Elem(Behind(c)) \notin fills}}

AddLabelsAfterJsrs ==
    /\ phase = "done" /\ mode = "compiling"
    /\ labels' = labels \cup ReturnLabels
    /\ mode' = "labelled"
    /\ UNCHANGED <<markVars, fills, here, pc, stack, blocks, marked>>

(* visitForControlFlow ends at the first instruction right behind data.     *)
VisitEnd ==
    LET Ends == {h \in Code : /\ LabelsAhead(h) = {}
                              /\ PrevKept(h) # None /\ ~IsCode(PrevKept(h))}
    IN  IF Ends = {} THEN End ELSE Min(Ends)

(* The last label in front of data that it visits. *)
LabeledData ==
    {l \in labels : \E h \in Kept \ Code :
        h < VisitEnd /\ LabelsAhead(h) # {} /\ l = LastAhead(h)}

(* program.Labels; a vector's label is named for the vector. *)
LabelAddress(l) == IF l.name >= End THEN statement[l.name - End].value ELSE l.name

BlocksNamed(name) == {l \in blocks : l.name = name}

(* Where a label in front of home h leads.                                  *)
Follower(h) == Min({n \in list : n >= h})

(* visitForCompile: data end a block, and are interpreted; an .org does not *)
(* end it, and what is behind the .org is run.                              *)
GoTo(h) ==
    IF IsCode(PastOrgs(h)) THEN mode' = "static" /\ here' = PastOrgs(h)
    ELSE mode' = "interpret" /\ here' = None

(* compileLabels: a label that is two vectors' is the first one's.          *)
Entry(i) == statement[Vectors[i]]
IsEntry(i, l) ==
    /\ Entry(i).kind = "reference" /\ Entry(i).label = l.name
    /\ \A j \in 1 .. i - 1 : Entry(j).kind # "reference" \/ Entry(j).label # l.name

(* A branch to a label without a block is a branch to nil; jumps and calls  *)
(* are interpreted then.                                                    *)
BranchesToNil(bs) ==
    \E h \in Code : /\ statement[h].code = "branch"
                    /\ \A l \in bs : l.name # statement[h].label

Falls(h) == IsCode(h) /\ statement[h].code \notin {"jmp", "jmpInd", "jsr", "stop", "tail"}

(* Every instruction is in a block: behind its label, or behind one that    *)
(* does not end it.                                                         *)
Whole(bs) ==
    \A h \in Code :
        \/ bs \cap LabelsAhead(h) # {}
        \/ PrevKept(h) # None /\ Falls(PrevKept(h))

(* A block that nothing ends. *)
RunsOut == \E h \in Code : Falls(h) /\ NextHome(h) = None

(* What is behind the end of a block has none to be put into, or LLVM       *)
(* refuses it, and so it does a block without an end.                       *)
Compile ==
    /\ mode = "labelled"
    /\ blocks' = labels \ LabeledData
    /\ IF BranchesToNil(blocks') \/ ~Whole(blocks')
       THEN mode' \in {"crashed", "refused"} /\ UNCHANGED here
       ELSE IF RunsOut \/ \E i \in Required : ~ \E l \in blocks' : IsEntry(i, l)
            THEN mode' = "refused" /\ UNCHANGED here
            ELSE \E l \in blocks' : IsEntry(ResetVector, l) /\ GoTo(Follower(l.home))
    /\ UNCHANGED <<vars, fills, pc, stack, marked>>

-----------------------------------------------------------------------------
(* Instruction.Compile: the emitted code keeps rPC one instruction ahead.   *)

At(codes) == mode = "static" /\ statement[here].code \in codes

This == statement[here]

AddrNext == Behind(here)

FallThrough == GoTo(NextHome(here))

(* The block of a label, or the interpreter where pc is. *)
JumpTo(name) ==
    IF BlocksNamed(name) = {}
    THEN mode' = "interpret" /\ here' = None
    ELSE \E l \in BlocksNamed(name) : GoTo(Follower(l.home))

RunPlain ==
    /\ At({"plain1", "plain2", "access"})
    /\ pc' = AddrNext
    /\ FallThrough
    /\ UNCHANGED <<vars, fills, stack, blocks, marked>>

(* A routine that reads a jump table pulls the address of the table: two of *)
(* its instructions are pla.                                                *)
RunTableHead ==
    /\ At({"head"})
    /\ stack' = IF stack = << >> THEN << >> ELSE Tail(stack)
    /\ pc' = AddrNext
    /\ FallThrough
    /\ UNCHANGED <<vars, fills, blocks, marked>>

(* Wrong variant, for mutation testing. *)
RunBranchAhead ==
    /\ At({"branch"})
    /\ pc' = AddrNext
    /\ \/ FallThrough
       \/ \E l \in BlocksNamed(This.label) : GoTo(Follower(l.home))
    /\ UNCHANGED <<vars, fills, stack, blocks, marked>>

(* createBranch *)
RunBranch ==
    /\ At({"branch"})
    /\ \/ pc' = AddrNext /\ FallThrough
       \/ \E l \in BlocksNamed(This.label) :
             pc' = LabelAddress(l) /\ GoTo(Follower(l.home))
    /\ UNCHANGED <<vars, fills, stack, blocks, marked>>

(* The address of no label is 0. *)
LabelAddr(name) ==
    IF name = None THEN 0
    ELSE LabelAddress(CHOOSE l \in labels \cup {[name |-> name, home |-> None]} : l.name = name)

RunJump ==
    /\ At({"jmp"})
    /\ pc' = LabelAddr(This.label)
    /\ JumpTo(This.label)
    /\ UNCHANGED <<vars, fills, stack, blocks, marked>>

RunCall ==
    /\ At({"jsr"})
    /\ Len(stack) < MaxDepth
    /\ stack' = <<This.addr + 2>> \o stack
    /\ pc' = This.value
    /\ JumpTo(This.label)
    /\ UNCHANGED <<vars, fills, blocks, marked>>

(* rts; a program may have pushed the address itself. *)
Pulled(word) == word + 1

RunReturn ==
    /\ At({"stop"})
    /\ IF stack = << >>
       THEN pc' \in Targets[banks] /\ marked' = FALSE /\ UNCHANGED stack
       ELSE pc' = Pulled(Head(stack)) /\ stack' = Tail(stack) /\ UNCHANGED marked
    /\ mode' = "dynJump" /\ here' = None
    /\ UNCHANGED <<vars, fills, blocks>>

RunJumpIndirect ==
    /\ At({"jmpInd", "tail"})
    /\ pc' \in Targets[banks]
    /\ mode' = "dynJump" /\ here' = None /\ marked' = FALSE
    /\ UNCHANGED <<vars, fills, stack, blocks>>

-----------------------------------------------------------------------------
(* Wrong variant, for mutation testing. *)
NoBlocks == {}

(* addDynJumpTable *)
BlocksAtPc == {l \in blocks : LabelAddress(l) = pc}

DynJump ==
    /\ mode = "dynJump"
    /\ IF BlocksAtPc = {}
       THEN mode' = "interpret" /\ UNCHANGED here
       ELSE \E l \in BlocksAtPc : GoTo(Follower(l.home))
    /\ UNCHANGED <<vars, fills, pc, stack, blocks, marked>>

(* The byte an address means: one bank is seen twice. *)
Mirrored(a) == IF banks = 1 /\ PrgStart <= a /\ a < Start THEN a + BankSize[1] ELSE a

InCode(a) == Mirrored(a) \in Homes /\ Mirrored(a) \in Code

(* What may be at an address: bytes that are no instruction are the ROM's   *)
(* choice, and those of RAM the program's.  Addresses have 16 bits.         *)
Instructions(a) ==
    IF InCode(a)
    THEN {[code |-> statement[Mirrored(a)].code, value |-> statement[Mirrored(a)].value]}
    ELSE UNION {[code : {c}, value : {v % End : v \in Operands(c, a)}] :
                   c \in (IF Mirrored(a) \in DOMAIN opcode THEN {opcode[Mirrored(a)]}
                          ELSE OpCodes) \ {"bad"}}

(* Bound: code is not run into the last byte of the ROM. *)
Fetched ==
    IF pc \in RamCode \/ pc >= PrgStart
    THEN {i \in Instructions(pc) : Mirrored(pc) + Shape[i.code].size < End}
    ELSE {}

Interprets(codes, Effect(_)) ==
    /\ mode = "interpret"
    /\ \E i \in Fetched : i.code \in codes /\ Effect(i)
    /\ mode' = "dynJump"
    /\ marked' = (marked /\ InCode(pc))
    /\ UNCHANGED <<vars, fills, here, blocks>>

(* asl, pha; lda and ldx immediate, sta zpg; bit and sta abs.               *)
InterpretPlain ==
    Interprets({"plain1", "plain2", "access"},
               LAMBDA i : pc' = pc + Shape[i.code].size /\ UNCHANGED stack)

(* ldy zpg,x: interpZpgIndexAddr leaves the operand to be executed.         *)
InterpretLdyZpgX ==
    Interprets({"plain2"}, LAMBDA i : pc' = pc + 1 /\ UNCHANGED stack)

(* bne *)
InterpretBranch ==
    Interprets({"branch"}, LAMBDA i : pc' \in {pc + 2, i.value} /\ UNCHANGED stack)

(* Wrong variant, for mutation testing. *)
ReturnAddressPastEnd(newPc) == newPc

(* pc is behind the operand when jsr is executed. *)
ReturnAddress(newPc) == newPc - 1

InterpretCall ==
    /\ Len(stack) < MaxDepth
    /\ Interprets({"jsr"},
                  LAMBDA i : pc' = i.value /\ stack' = <<ReturnAddress(pc + 3)>> \o stack)

(* BadOpCode: ten of the op codes are known, jsr among them.                *)
InterpretPanics ==
    /\ mode = "interpret"
    /\ \/ Fetched = {}
       \/ \E i \in Fetched : i.code # "jsr"
       \/ Mirrored(pc) \in DOMAIN opcode /\ opcode[Mirrored(pc)] = "bad"
    /\ mode' = "panicked"
    /\ UNCHANGED <<vars, fills, here, pc, stack, blocks, marked>>

Runs ==
    \/ RunPlain \/ RunTableHead \/ RunBranch \/ RunJump \/ RunCall \/ RunReturn \/ RunJumpIndirect
    \/ DynJump
    \/ InterpretPlain \/ InterpretLdyZpgX \/ InterpretBranch \/ InterpretCall
    \/ InterpretPanics

DispatchNext ==
    \/ Marks
    \/ MakeOrgs
    \/ AddLabelsAfterJsrs
    \/ Compile
    \/ Runs

DispatchSpec == DispatchInit /\ [][DispatchNext]_<<vars, runVars>>

-----------------------------------------------------------------------------
(* What compilation promises.                                               *)

(* Code that jumps into an instruction: the byte its label was put in front *)
(* of is an operand now.                                                    *)
Overlaps == \E l \in labels : l.home \notin list

(* An operand that is code as well: taken off the list and decoded through  *)
(* the mirror, where what it leads to can be in the list again.             *)
DecodedTwice == \E h \in Homes \ list : IsCode(h)

(* With one bank, a call that returns to code labelled by its other name.   *)
ReturnsElsewhere ==
    \E h \in Callers, l \in labels :
        l.home = Mirrored(Behind(h)) /\ LabelAddress(l) # Behind(h)

(* Every instruction is in a basic block, and none stands behind the jump   *)
(* that ends one.                                                           *)
BlocksAreWhole ==
    mode \notin {"disassembling", "compiling"} =>
        Whole(labels \ LabeledData) \/ DecodedTwice \/ RunsOut

(* The register names the instruction that compiled code is at, through all *)
(* jumps, calls, fall-throughs and spells of interpretation: it is what an  *)
(* interrupt pushes and where the interpreter begins.  Only the first       *)
(* instruction after a reset finds it unset.  A byte that the disassembler  *)
(* lost is left out by whoever falls through to it; and where compiled code *)
(* was led to an .org and ran on behind it, the register names the .org.    *)
SkippedOrg == Mirrored(pc) \in fills /\ here = PastOrgs(Mirrored(pc))

PcNamesInstruction ==
    mode = "static" => Mirrored(pc) = here \/ SkippedOrg \/ pc = 0 \/ Overlaps \/ ByteLost

(* Instructions that marking found are never left to the interpreter, which *)
(* does not know most of them, as long as nothing computed an address and   *)
(* every return goes to an address under the name its label has.            *)
NeverInterpreted ==
    mode = "interpret" /\ marked /\ InCode(pc) => Overlaps \/ ReturnsElsewhere

Aliases(a) == {b \in {a, a - BankSize[1]} : Mirrored(b) = a}

(* What is executed is what the processor would execute.                    *)
Processor == INSTANCE Cpu WITH
    Width <- [c \in DOMAIN Shape |-> Shape[c].size],
    pc <- IF mode = "static" THEN here ELSE Mirrored(pc),
    stack <- [k \in DOMAIN stack |-> Mirrored(stack[k])],
    holds <- [a \in 0 .. End - 1 |->
                 {[i EXCEPT !.value = Mirrored(@)] :
                    i \in UNION {Instructions(b) : b \in Aliases(a)}}],
    words <- {Mirrored(w) : w \in Targets[banks]}

(* A jump without a label to go to. *)
JumpOutOfRom == RunJump /\ This.label = None

(* Compiled code that is led to an .org runs on behind it; a processor      *)
(* would execute the bytes.                                                 *)
SkipsOrg == mode' = "static" /\ Mirrored(pc') \in fills

ImplementsCpu ==
    [][Processor!Next \/ Overlaps \/ ByteLost
          \/ Compile \/ JumpOutOfRom \/ SkipsOrg \/ InterpretLdyZpgX]_(Processor!cpuVars)

(* The comment on a jump that leads to no block: "we'll have to interpret   *)
(* the next instruction", which is the one the jump leads to.               *)
InterpretedWhereItLeads ==
    [][RunJump /\ mode' = "interpret" => Mirrored(pc') = Mirrored(This.value)]_<<vars, runVars>>

(* The comment on data in the way of compiled code: "we expected an         *)
(* instruction but we got data.  interpreter to the rescue!"                *)
DataIsInterpreted ==
    [][RunPlain /\ ~IsCode(NextHome(here)) => mode' = "interpret"]_<<vars, runVars>>
=============================================================================
