# A verification project for jamulator

jamulator turns an NES ROM into a native program. It disassembles the ROM's
program banks, compiles the resulting 6502 assembly to LLVM bitcode and links
it with a C runtime that plays the rest of the console: picture unit, pads,
interrupts. The same package also assembles source text back into a ROM.

This directory holds TLA+ modules that model parts of that program, TLC
configurations that check small instances of them, and proofs that TLAPS checks
for every value of the constants. Every definition is translated from the
source; `PROJECT.json` names the lines.

## 1. Inventory

| part | source | state | operations | interacts with |
|---|---|---|---|---|
| controller framework | `compile.go` `setupControllerFramework` ff. (generated code) | actual buttons, reported buttons, index per pad, strobe | `rom_set_button_state`, `padWrite`, `padRead` | event loop and movie (writers), program (reader) |
| picture unit, timing | `ppu.c` `Ppu_step`, `Ppu_readStatus` | scanline, cycle, status bits, suppress flags | step one dot, status read, control and mask writes | `vblankInterrupt` callback, program |
| picture unit, ports and memory | `ppu.c` register functions, `nametable.c` | latch, address, buffer, vram, palettes, nametables, OAM | writes and reads of $2000 .. $2007, $4014 | program, renderer |
| rendering | `ppu.c` | palette buffer, frame buffer, shift registers | one row of tiles, sprites of a row | status register, address register |
| runtime loop | `main.c` `rom_cycle`, `step` | requested interrupt, cycle counter | poll, step, deliver interrupt by a nested `rom_start` | generated code (both directions) |
| movie and events | `main.c` | movie entries, frame index | load, replay, SDL events, quit | pads, runtime loop |
| generated program | `compile.go`, `codegen.go` | A X Y SP PC, flags, RAM | one block per label, dispatch by PC, vector prologues | `rom_cycle`, memory-mapped registers |
| interpreter block | `interpret.go` | the same registers | a few opcodes fetched from RAM | generated program |
| disassembler | `disassembly.go` | statement list, offsets, labels, dynamic jumps | mark as instruction, words, jump tables, data passes | ROM loader, writer |
| assembler | `assembly.go`, `addressmodes.go` | statement list, label values, variables | resolve, assemble, expand | parser, ROM packer |
| ROM file | `rom.go` | header fields, banks | load, save | disassembler, packer |
| jam package | `nes.go` | a directory and its description | unpack, pack | ROM file, assembler |
| lexer, grammar | `asm6502.nex`, `asm6502.y` | | parse | assembler |
| drivers | `recompile.go`, `main.go` | command line | | all |

The hard behaviours: register reads that race with the dot that starts the
vertical blank; interrupts that nest on the C stack while their frames live on
the 6502 stack; a picture unit that is stepped without polling during DMA; button
events that arrive in the middle of a scan; exact-dot conditions around an early
return; a disassembler that rewrites the list it walks, recursively.

What makes each part correct:

- controller framework: a scan reports each pad's buttons in order, as they
  were when the strobe ended, whatever button events arrive meanwhile;
- picture unit, timing: every dot of a frame is counted once, the blank's flag
  and interrupt come at their dots, and no flag outlives its window;
- picture unit, ports: the shared latch holds the scroll position asked for, a
  picture starts where it asks, and the arrays behind $2006 and $2007 are one
  memory;
- runtime loop: no interrupt is lost or late, and the C stack, the 6502 stack,
  the PC register and the compiled resume points stay in step;
- movie: a replay depends on the cycle counter alone, and ends;
- generated program: both copies of the memory map agree, no array is indexed
  outside (`lda (zp,x)` breaks this one), arithmetic chained through the carry
  is exact;
- disassembler, assembler, ROM file, jam package: taken apart and put together
  again, a ROM is byte for byte the same; the disassembler terminates and
  keeps its list, its offsets and its labels in step.

## 2. Plan

Modelled first are the parts that run while a game does, because there several
actors meet; the tools that rewrite ROMs come after.

| step | modules | state |
|---|---|---|
| 1 | `ShiftRegister`, `Pads`, `DeviceProofs` | done |
| 2 | `FrameClock`, `PpuTiming`, `PpuProofs` | done |
| 3 | `Runtime` (composes the machine with `FrameClock`), `RuntimeProofs` | done |
| 4 | `Movie`, `DeviceProofs` | done |
| 5 | `Bus`, `RuntimeProofs` | done |
| 6 | `Scroll`, `DeviceProofs`; `DataPort`, `VideoMemory`, `Oam`, `PpuProofs` | done |
| 7 | `Alu`, `RuntimeProofs` | done |
| 8 | `RomFile`: `Load` and `Save` as conversions of the header, with the jam description between them; `DeviceProofs` | done |
| 9 | `Disassembler`: marking, labels, jump tables over one list that the recursion rewrites, `DisassemblerProofs`; `Listing`: the passes over its data | done |
| 10 | `Assembler`: labels, operand width, `.org`; `Package` composes it with steps 8 and 9: the round trip of a program; `FoldRule`, `TextProofs`, `PackageProofs` | done |
| 11 | `Cpu`, `Dispatch`: a disassembled ROM compiled and run, the interpreter block with it, composed with step 9; `DispatchProofs` on top of `DisassemblerProofs` | done |
| 12 | the status byte that plp, BRK and interrupts move; cycle counts at page borders | not done |

Abstract specifications: `ShiftRegister` (what a pad promises), `FrameClock`
(what the unit's timing promises, and what `Runtime` is composed with),
`DataPort` (what $2006 and $2007 promise), `Cpu` (where a 6502 goes next, which
compiled and interpreted code together promise).

Every safety property that a run checks is also a theorem; liveness stays with
TLC.

## 3. Modules and the code

**`Pads`** is the code `setupControllerFramework` emits. `actual`, `reported`
and `index` are the two LLVM globals of buttons and the index bytes;
`SetButtonState` is `rom_set_button_state`, `PadWrite` and `PadRead` are the
functions emitted for $4016 and $4017. It implements **`ShiftRegister`**, the
console's pad, with a refinement mapping that lets a strobed pad be latched.

**`PpuTiming`** is `Ppu_step` dot by dot, with the reads of $2002 and writes of
$2000 and $2001 that may come between any two dots. What a row of pixels does to
the sprite flags is a choice; everything else about pixels is left out. The
early return at the end of a frame, and the cycle it sets, are in `FrameEnd`. It
implements **`FrameClock`**, one counter of dots with the flag and the interrupt
at fixed counts.

**`Runtime`** is one sequential machine: the generated `rom_start`, whose
instructions end in `rom_cycle`, and `rom_cycle`, which polls, steps the unit
(an instance of `FrameClock`) and calls `rom_start` again for an interrupt.
`calls` is the C stack, one entry per active `rom_start`; `stack` is the 6502's.
The program is any sequence of instructions over a small set of addresses.
What unusual things a program does is
chosen at the start: executing BRK, branching to a vector label, discarding an
interrupt's frame.

**`Movie`** is the poll in detail: events, then the entries that are due by the
cycle counter, then the step. DMA advances the counter without a poll.

**`Bus`** evaluates every access of the program twice, with the decision the
compiler takes for a literal (`load`, `store`) and with the code it emits for a
computed address (`dynLoad`, `dynStore`), for each addressing mode. Addresses
keep their sixteen bits and zero-page addresses their eight.

**`Scroll`** holds `vramLatch`, `vramAddress`, `fineX` and the write toggle.
Program accesses interleave with the raster's four events that touch them: the
copy before the first line, the tiles of a row, the end of a line, the blank.
Its history variables say what the program asked for.

**`VideoMemory`** is the memory behind $2007: `vram`, the two nametable arrays
selected by `Nametable_setMirroring`, the palettes and the read buffer. It
implements **`DataPort`**, a memory of cells with several addresses each.

**`Oam`** keeps `spriteRam` and the renderer's `spriteData`, with the stray
write that the compiled store to $4014 makes before the fill.

**`Alu`** is the arithmetic the generator emits for the accumulator. A history
variable follows a number that a chain of instructions computes; nothing the
actions do depends on it.

**`Disassembler`** is `Rom.Disassemble` up to `resolveDynJumpCases`. An element
of the linked list is named by the address of its byte: `statement` is what the
element holds, `list` says which elements are still linked, `offsets` which
addresses the map finds. With one bank the two differ: an operand removed through
the mirror leaves the list and stays in the map, and the code meets such
elements again. The Go call stack is `work`, so that every call of
`markAsInstruction` is one step. The ROM is every ROM: a byte's op code is chosen
when the code first reads it and remembered in `opcode`, an operand when it is
consumed. The 256 op codes are ten kinds, by length, label and what runs next.

**`Listing`** is what follows in `Rom.Disassemble`: `identifyOrgs`,
`groupAsciiStrings` and `collapseDataStatements`, each an operator from a list of
statements to a list of statements. **`Assembler`** is `Program.Resolve` and
`Program.Assemble` on such a list; an error is a flag in the state of its fold.

**`Package`** extends `Disassembler` with one action per pass, with the text
(which loses the fill of an `.org` that is $ff, and the homes of statements) and
with `AssembleRom`. The bytes that marking left as data are chosen when marking
ends; `Rom` says what the bytes were, byte by byte of the list that marking
leaves and without the passes or the text, and `output` is compared with it.
`MarkStep` is a step of `Disassembler`, which leaves the text alone.

**`RomFile`** is the header: `Load`, `Save`, the jam description that
`disassembleToDirWithJam` writes and the one that `AssembleRom` reads, as actions
that take a cartridge round through its three forms.

**`Dispatch`** extends `Disassembler` with `identifyOrgs`, `CompileToFile` and
the code it emits. `MakeOrgs` chooses which bytes repeat the one in front of them
and puts the elements of long runs into `fills`: they are part of an `.org` then,
which the visits of `CompileToFile` skip, so that compiled code that is led to
one goes on behind it (`Kept`, `PastOrgs`). Strings and lists stay data, and the
passes that make them change nothing here. The three visits
decide which labels become basic blocks;
then compiled code (`mode` "static"), the table of all blocks ("dynJump") and the
interpreter ("interpret") hand control to each other. It implements **`Cpu`**,
in which nothing is compiled.

Modules named `MC...` give the constants of an instance. Some of them put
components that share no state into one run: a behaviour is about one of
them, so that the sizes of their state spaces add. Where two such modules, or
two whose proofs share one, would have the same names, those of one carry its name
(`OamInit`, `MovieNext`, `BusSpec`). In most modules a few definitions under the
heading "Wrong variants" stand beside the actions: they are what a plausible
mistake would have made of one of them, and `PROJECT.json` says which property
notices.

## 4. The runs

| run | checks | bounds, and why they are enough |
|---|---|---|
| `input` | pads: `StrobeCoherent`, `ImplementsShiftRegister`; movies: `ReplayFollowsClock`, `ReplayIsPrompt`, `MovieEndsProgram` | two pads, three buttons: one pad's strobe must not disturb the other, and a first, a middle and a last button exist; store bytes 0, 1, 254, 255 differ in bit 0 only. All movies of up to three entries, sorted or not, over three cycles and two buttons, one of them under a player's key |
| `ppu_timing` | windows of the flags, `VblankSeenOnce`, `ImplementsFrameClock`, `VblankRecurs` | a frame of seven lines of six cycles that has one line of every kind |
| `ppu_nmi_lost` | `NmiAtStartOfVblank` is violated | the same frame |
| `runtime` | `ResumeAgrees`, `CallsMatchStack`, `NoLostNmi`, `PromptNmi` | a well-behaved program and one that does everything unusual; three nested calls and two stack entries: an interrupt in a handler, and a subroutine of a handler; a frame of seven dots and instructions of one cycle with a stall of one, the tightest case the assumption allows. The two ordinary addresses are symmetric |
| `scroll` | `LatchHoldsCamera`, `RowsFollowCamera` | two visible lines that start at row 239, the border of the nametables, or 255, in the attribute rows; so every arm of the row counter is taken. All write orders of two scroll bytes, two control bytes and an address byte |
| `scroll_sprites` | `LineEndCopiesX` is violated | the same frame |
| `data` | `MapsAgree`, no array indexed outside but by `lda (zp,x)`; `WideArithmetic`, `FlagsOrder`; `ImplementsDataPort`; `OamCoherent` | addresses around every boundary of the map, with indexes 0, 1, 2, 127, 128, 254, 255; bytes of two bits, numbers of two bytes. The proofs cover the rest of both. For video memory nine addresses that include cells with two addresses under each mirroring, a palette's shared entry, its mirror, and the cell below a palette; four mirrorings; both steps. Two sprites, two values, all pages: every field, and the wrap of the address |
| `disassembler` | `TilesRom`, `LabelsResolve`, `CodeClosed`, `TablesExhausted`, `Terminates` | ROMs of two banks of six bytes or one of eight with its mirror, two vectors: a call, the routine it calls and one entry of its table fit before the vectors, a table can run into the vectors, code can run into its own operands, into a word and into the bytes of the next vector, which is where the code panics |
| `package` | `ComesBack`, `LossIsNoticed`; `CartridgeKept`, `ReadOnceReadAgain` | one bank of eleven bytes with its mirror, or two of five, with one vector; bytes below 16, a run of two, a string of two, lists of two, two bytes of data, one printable: a run, a string, a word and code fit into the ROM beside each other in every order. Banks, flag bits and television systems in every combination the code tells apart |
| `dispatch` | `BlocksAreWhole`, `PcNamesInstruction`, `NeverInterpreted`, `ImplementsCpu` | one bank of nine bytes with its mirror, or two of five, with the one vector a program needs; one call at a time (`MaxDepth` = 1; the proof covers any depth); runs of two bytes make an `.org` (`MinRepeat` = 1, where the code has 64); code in RAM; computed jumps that lead into RAM, into code and into data; a jump table. Nine bytes are what a jump through the mirror to code behind a jump needs, and a return to code that has only the mirror's name |
| `jump_out` | `InterpretedWhereItLeads` is violated | the same ROMs |
| `org_run` | `DataIsInterpreted` is violated | the same ROMs |

Where arrays and counters could leave their range (`Pads`, `PpuTiming`, `Bus`,
`Alu`, `VideoMemory`, `Disassembler`) the run checks the type invariant too. `CHECK_DEADLOCK FALSE` is given for `runtime`
and `input`, where the program really ends (the movie's) and where bounds stop
it, and for `disassembler`, `package`, `dispatch`, `jump_out` and `org_run`, where the
code returns, refuses or panics.

`ComesBack` says that a package gives its ROM back unless one of six things is
in it, each an operator beside the property with the reason:

- `OperandLost`: an operand that the text does not say: one written as a number
  comes back as narrow as its value allows (`assembly.go:115`), a jump to a number
  becomes one through the zero page (`assembly.go:107`), and abs,Y is refused just
  when it exists;
- `WordsJoined`: bytes behind a word join it and become words
  (`disassembly.go:584`);
- `WordInRun`: a word is taken for one byte of a run, its low one;
- `RunsAdjacent`: of two runs with only labels between them the first is not
  filled in;
- `LabelMoved`: a label that is not where its address says, with one bank;
- `ByteLost`: the second byte of a word that nothing holds.

`LossIsNoticed` says that one bank that does not come back has the wrong size, which
`nes.go:200` notices; a program of two banks never has the size of one, and is
always refused. What may hide a loss is a label that was moved, an `.org` behind
it, which fills the gap, and `WordsJoined` together with a short operand or a lost
byte: a list of words writes a byte that joined it as two, and that pays for the
one that is missing. The last exception is out of reach of the run's eleven bytes;
an attempt to prove the property without it ended in this case, and one bank of
thirteen bytes showed it to TLC.

What `Dispatch` promises has exceptions, in the properties themselves and each
an operator with the reason. Larger instances than the run's found the last four:

- `SkippedOrg`, `SkipsOrg`: compiled code that is led to an `.org` runs on behind
  it, while rPC names the `.org` (`PcNamesInstruction`, `ImplementsCpu`); that is a
  finding, see below;
- `Overlaps`: code that overlaps itself, so that a label stands before an operand;
- `DecodedTwice`: an operand that is code too is decoded off the list, through
  the mirror; what it leads to may be in the list again, behind a jump and without
  a label (`BlocksAreWhole`);
- `ReturnsElsewhere`: a call returns to code whose label is named at the other
  mirror; the table of blocks does not have the address, and code that marking
  found is interpreted (`NeverInterpreted`);
- `ByteLost`: whoever falls through to a byte nothing holds leaves it out
  (`PcNamesInstruction`, `ImplementsCpu`);
- `RunsOut`: the last instruction of the ROM falls through; LLVM refuses a block
  that nothing ends.

The last two need a vector that is no label, which the run's only one must be.
`ImplementsCpu` also leaves out the step from compiling to running, a jump out of
the ROM, which is a finding, and `ldy zpg,x` in the interpreter, see below.

The violated properties are sentences of the repository's own comments. They
are listed with their lines in `PROJECT.json` under `findings`:

- `ppu.c:324` one race with $2002 silences the interrupts of later frames;
- `ppu.c:207` the end of a line copies nothing when only sprites are shown;
- `codegen.go:368` a jump out of the ROM, as code that is run in RAM needs it,
  is interpreted at address 0;
- `compile.go:180` code that comes to a long run of one byte, an `.org` by then,
  runs on behind it, where any other data would be interpreted.

More disagreements were met that one line of code decides, and no run
searches for them; the models contain them as they are:

- `codegen.go:95` BRK branches to the reset block, which empties the stack,
  where the comment at `compile.go:1730` sends it to the dynamic jump table;
- `codegen.go:570` "lda indirect x" loads the zero-page byte where the pointer is
  and never what it points to, and takes its address for a signed byte,
  which is outside RAM from $80 on;
- `interpret.go:427` the interpreter's `ldy` zpg,x leaves its operand to be
  executed as an op code;
- `compile.go:145` the search for labels of data ends at the first instruction
  behind data, and a branch to a label that does lead to data is a branch to a
  block that does not exist (`compile.go:1298`);
- `compile.go:1492` a label that two vectors name, as a ROM without a handler of
  its own for IRQ has, is the block of the first of them only: NMI and reset at one
  address are a missing reset entry point, and IRQ gets the dummy;
- `compile.go:1904` with one bank, the label behind a call is looked up by the
  address the call has; code there that is already labelled by its address in the
  other mirror keeps that name, and returns to it are interpreted;
- `disassembly.go:80` with one bank, a jump to $8003 is given a label that is
  defined at $c003, so that the ROM is not put back together byte for byte
  (`README.md:14`, `asm6502_test.go:62`); an instruction that names its own operand
  gets a label behind itself; and a branch to an operand panics (line 430);
- `nes.go:200` a package of two banks is one program, and never has the size of
  one bank: no ROM of two banks goes back together (`README.md:14`);
- `rom.go:189` a PAL ROM is saved with the bit that `Load` refuses (line 103), and
  one for both systems becomes a PAL one;
- `rom.go:118` the mirrorings of Go and of the C runtime have different numbers:
  four screens become one;
- `compile.go:445` the homebrew ports $2008 and $2009 exist for literal
  addresses (`compile.go:717`) and not for computed ones;
- `ppu.c:412` the mirror of the nametables is taken to start above $3000, so
  that a write to $3000 itself misses the nametable.

## 5. Fairness

The compiled program and the runtime are one thread that never waits.
`PpuTiming` assumes weak fairness of the dot: the program makes a finite number of
accesses between two calls of `Ppu_step`, because every instruction ends in
`rom_cycle`. `Movie` assumes it of the program, of the end of the event loop,
which `SDL_PollEvent` reaches unless events arrive faster than it takes them,
and of the poll that follows; `MCInput` repeats it for the behaviours that
replay. `Disassembler` is one goroutine that calls itself,
so its next step is always taken. All other properties are safety properties and are
checked without fairness.

## 6. Proofs

All are checked by TLAPS to the last leaf and hold for every value of the
constants that satisfies the modules' assumptions.

- `DeviceProofs`, pads: any number of pads and buttons. The inductive invariant
  adds to the type invariant that while the strobe is on the reported copy equals
  the buttons and no scan has begun; without it a read under strobe could not be
  matched with the register's. The refinement maps every step to a step of
  `ShiftRegister` or to a stutter.
- `DeviceProofs`, movies: of any length, sorted or not, any instruction lengths and
  any stall. The inductive invariant says that the next entry, or one before it
  in the file, was not due at the last poll, and bounds how far the counter may
  run ahead of that poll; an entry is then taken by the first poll at which it
  and all before it are due (`ReplayIsPrompt`). `ReplayFollowsClock` needs that
  what the file asks for at a poll, a definition by the clock alone, is what the
  entries taken so far have left in the buttons (`FollowInv`).
- `PpuProofs`, timing: a frame of any size with the order of its lines given by
  the assumptions. The inductive invariant relates the flags to the line: the
  suppress flags agree, each flag is off outside its window, and the history
  of what was seen follows the flag. The refinement needs that no dot is
  skipped at the early return, which is arithmetic on line and cycle.
- `PpuProofs`, sprites: any number of them. An address is a sprite and one
  of four offsets in one way only, so the byte and the field are written together;
  the invariant is coherence said field by field. That the two copies are equal
  is what is proved; that both have the right byte is not stated.
- `PpuProofs`, video memory: any addresses below $4000, any mirroring,
  both steps. `MemoryInv` says that every array has a value for every index and
  that the buffer is one of them; each address below $4000 then falls into one
  array and within it. The refinement of `DataPort` takes the element of an array
  for the console's cell: reads and writes meet the same cell, two addresses meet
  it in the model just when they do in the abstract memory, and changing the
  mirroring moves the view and no cell. It is stated for programs that keep to
  pattern tables, nametables and palettes (`KeepsToMemory`, the hypothesis of
  the theorem and what `data` runs with): between $3000 and $3f00 the code's
  mirror begins one address late (`ppu.c:412`).
- `DeviceProofs`, scroll registers: pictures of any height, every byte a program may write. An
  address below 32768 is five fields, in one way only (`Unpacking`); each write
  and each movement of the raster is a change of fields. `LatchInv` follows
  the latch and fine x through the write toggle. `RasterInv` says, in every phase
  of a line, how many rows below the scroll position of the frame's start the
  address is; one move of the row counter is one row down the torus of
  nametables, through the border at 240 and through the attribute rows. The
  addresses of a line's tiles are a recursive function, whose existence for a
  line of any length is shown first (`WalkExists`).
- `RuntimeProofs`, memory map: every literal, pointer and index. The state is
  the last access, so the invariant is the claim about one access; the proof
  follows the ranges of `dynLoad` and `dynStore` and shows that each shortcut
  excludes the ranges it skips. `BusTypeCorrect` excepts `lda (zp,x)`, which does
  leave RAM.
- `RuntimeProofs`, arithmetic: bytes of any even size and numbers of any length.
  One lemma per instruction says that operand, carry in, result and carry out
  balance; multiplied by the weight of the byte, the balance extends the chain. The
  inductive invariant is the type invariant, the parts of the chain are
  numbers, and `WideArithmetic`. `FlagsOrder` follows from one step, by the
  balance again.
- `RuntimeProofs`, loop and interrupts: frames, instructions and stalls of any length, as long as an
  instruction with a stall is shorter than a frame; any program; calls and a
  stack of any depth. Three inductive invariants. `ClockInv`, for any program: a
  request's age and the dots the instruction still has to step stay together
  below the length of an instruction, so that the request is delivered before
  the next blank (`PromptNmi`, `NoLostNmi`). `CodeInv`: the PC, the calls and
  the stack hold places code may be at. `StackInv`, for well-behaved programs: an
  increasing function takes every nested call that has not executed its RTI to
  its interrupt's entry, onto all of them, and the entry holds the place at which
  the call below goes on. That the two stacks have the same depth follows
  (`CallsMatchStack`: the function is a bijection), and, because calls that have
  returned leave the innermost place that is left to the PC, so does
  `ResumeAgrees`. A count alone would not be inductive: an RTI has to take the
  entry of its own call.
- `DeviceProofs`, cartridges: any headers and descriptions. `RomInv` says that what was made
  from a ROM says what it said; one lemma shows that `Load` reads back what `Save`
  wrote, the mapper through its two nibbles, and refuses it just for PAL.
- `DisassemblerProofs`: ROMs of any size, one bank with its mirror or two, any
  vectors that fit, any op codes, operands and branch distances.
  - *What every step keeps.* `Inv` has the shapes of statements, labels and calls;
    that an instruction stands at the home of its address; and that the calls to
    come are in order: what is to be marked stands in front of the one word that
    waits for its label, and that in front of the words nobody has looked at, so
    that at most one word is open (`DisassemblyTypeCorrect`). Under `Inv` every step
    makes `Progress`: list and map only shrink, an element leaves the list only as
    an unlabelled byte or plain number, what has become an instruction stays that
    instruction, and labels stay where they were put. The other proofs use
    this instead of the eight actions wherever they can.
  - `RomAlwaysTiled`: the statements of the list do not overlap (`NoOverlap`), so
    that a byte that leaves one statement is taken by the one in front of it.
  - `LabelsAlwaysResolve`: the property is inductive together with `Inv`. A label
    in front of an element keeps that element from being taken as an operand, and an
    element is looked up by an address until it leaves the list, with the mirror of
    one bank as the exception that the property names.
  - `CodeAlwaysClosed`: an address that code leads to is examined, or a call to
    mark it is still to come (`CodeFollowed`); examined addresses stay examined.
    A `jsr` owes its return address as well, until its target is found to be a
    jump table.
  - `TablesAlwaysExhausted`: the place behind every word, behind every word still
    to be read and behind every call of a table that has returned is no pair of
    bytes, or a word to be read, or on the stack of dynamic jumps
    (`TablesFollowed`); at the end nothing is left on that stack. A place is ended
    for good once it is (`Ended`), and tables found meanwhile are pushed on top
    with addresses of their own. That a table of any length is then read to its
    end needs only the last word in front of the place in question.
- `DispatchProofs`: the same ROMs, compiled; any code in RAM, any computed
  addresses, calls nested to any depth.
  - *What marking keeps for compilation* (`MarkingInv`): besides `Inv` and
    `NoOverlap`, that a label's name says where it is (`LabelsNamed`) and an
    operand's name is that of a label, as long as its target is in the list
    (`OperandsNamed`); that every instruction has a label in front of it, or is
    about to get one, or stands behind one that goes on to it, of which calls are
    some until `addLabelsAfterJsrs` (`AllReached`); and that code stays inside the
    ROM (`CodeInRom`, `LastByteKept`). Together with the labels behind calls this
    is `Compilable`, from which `BlocksAlwaysWhole` follows: a label in front of
    code is never among those of data that `visitForControlFlow` takes away, wherever
    its walk ends. The `.org`s hold data only and never the last of the list
    (`FillsFit`), so that no code is skipped and there is a place to go on at.
  - *What a running program keeps* (`RunInv`): the blocks are the labels of code;
    compiled code is at an instruction of the list and rPC has its address, or that
    of an `.org` that ends in front of it (`InStep`);
    every word on the stack is one to which a return adds one as the processor
    does, across neither the border of the mirror nor that of the ROM (`ReturnWords`).
    This gives `PcAlwaysNamesInstruction`. While nothing was computed the words are
    those of calls, and a pending dispatch has a block to go to when it is to code that
    marking found (`Follows`), which gives `MarkedNeverInterpreted`.
  - `CompiledRunsAsCpu`: a step of compiled code is the fetch of the instruction
    that `here` is at, a step of the interpreter that of one at rPC; falling
    through goes to the end of the instruction because nothing lies between two
    neighbours of the list unless a byte was lost, and a branch, jump or call arrives
    at the place its operand names by `OperandsNamed`. The processor's stack is the
    stack with every word taken to the byte it means, so the two pushes, one from an
    address and one from the counter, push one word. Making the program, and going
    through the table of blocks, are stutters. The steps that run into an `.org`, and
    the other exceptions that `ImplementsCpu` names, are left out of the claim.
  - *What is left for the text* (`TextKept`): a branch has a label within its reach, and
    what has no target has no label (`OperandsFit`); a label stands in front of an
    element, unless one was moved (`LabelsStand`), and no two in front of one
    (`LabelsApart`); a word that is a reference has a label (`ReferencesLabelled`); one
    that still waits for its label is in the list (`OpenListed`); code is decoded at
    an address of the mirror only if a label was moved for it, or is about to be
    (`MirrorNamed`); words end inside the ROM (`StatementsInRom`), and the list begins
    where the ROM does. `PackageProofs` builds on it.
- `FoldRule`: induction along a fold. `Rule` says that what holds in front of the
  first element and is kept by every step holds of the fold. Step and invariant are
  constants of the module, so that `INSTANCE` gives them operators, which a theorem
  with an operator for a parameter would need and the provers cannot instantiate.
  That a fold has a value at all is shown there from the definition of the
  community module, by the least number for which it had none.
- `TextProofs`: any listing of statements, any thresholds of the three passes. It
  knows nothing of marking.
  - *The passes.* A text stands for a listing (`Chain`) if its statements stand, in
    order and without gaps, for neighbouring statements of it: a run for its bytes,
    a string for its characters, a list for its items. A listing stands for
    itself; for each of the three passes an invariant of its fold says that what it
    has written, and what it still holds back as a run or a string, stands for what it
    has read. So the text of a ROM stands for the listing, whatever the passes met in
    which order.
  - *Resolve and Assemble.* Two invariants of folds, for a text without exceptions
    that stands for a listing: the address that `Resolve` counts is that of the next
    statement of the listing, and a label's value the place it stands at (`ResHolds`);
    the bytes that `Assemble` has written are those of the ROM up to there, but for
    the fill of an `.org` that is still due (`AsmHolds`). That the text has no
    exceptions is a hypothesis there (`Fits`, `RunsApart`): no width that is not the
    one read, no word in a run, no second fill behind the first.
  - *The size.* What `Resolve` counts for a statement (`Weight`) is compared with what
    the statements it stands for take: it is less for a short operand, more for
    joined bytes, and otherwise the same (`WeightIs`). Without `.org`s behind the
    first, the count at the end is the sum of the weights (`ResolveSums`).
- `PackageProofs`: the ROMs of `DisassemblerProofs`, whatever their data.
  - *The places.* The statements of the listing, one after the other, have the
    addresses of their elements (`TextInPlace`), because nothing lies between two
    neighbours of the list unless a byte was lost, and a label stands in front of its
    element unless it was moved.
  - *The spelling.* A statement of the listing is assembled to the bytes that its
    element was decoded from (`TextSpelled`): an operand that is not lost is written
    with the width it was read with, and a label's value is the operand by
    `TextKept`. The bytes of all elements together are the ROM (`RomIsSpelled`).
  - `RomAlwaysComesBack` puts these together along the stages of a package
    (`PackInv`).
  - `LossIsAlwaysNoticed` cannot use that nothing is lost. `Assemble` writes as many
    bytes as `Resolve` has counted (`AssembleSums`), so the sum of the weights is the
    bank's size (`BankWeighs`). If no bytes were joined, no weight is too large,
    so none is too small, and no byte is missing (`SizeIsKept`); if some were and
    nothing else is wrong, the program is too long (`JoinedIsTooLong`). Of two sums
    of which one never grows by more than the other, both are equal only if they
    were all the way (`GrowTogether`).

Induction over a number (the tiles of a line, the runs of a row) is done with the
least element of a set of naturals, which well-foundedness gives (`LeastNatural`):
the library's own induction rules take an operator as a parameter and cannot be
instantiated. Induction along the folds of `Listing` and `Assembler` is an
instance of `FoldRule` each.

The assumptions: what the constants stand for (`ProgramAssumption`,
`DispatchAssumption`, `RomFileAssumption`, `MovieAssumption`,
`DisassemblerAssumption`); that there is a vector and the vectors fit into the ROM;
that the two vectors lead to two different places, and that the
marks the model puts among the addresses are none (`AddrAssumption`); that an
instruction with its stall is shorter than a frame (`ClockAssumption`: 1557 dots
against 89342); that op codes and data are bytes, branch distances signed ones, and
a string needs at least one character (`PackageAssumption`).

Only model-checked: the liveness properties `VblankRecurs`, `MovieEndsProgram` and
`Terminates`, since TLAPS proves none under fairness.

## 7. What is not modelled

Pixels (`renderTileRow` beyond its effect on the address, sprite drawing beyond
its effect on the status), the video output and the empty sound stubs; the lexer
and the grammar, which are input to generators; the syntax tree printer; the
command line and the driver, which call the parts in sequence.

Of the parts that are modelled, left out are: in `Assembler`, what only source
text written by hand uses (assignments, the symbol `.`, labels on the line of a
statement); in `Dispatch`, BRK and RTI, which `Runtime` has, and the data
that interpreted instructions move; in `Alu`, decimal mode, which the code
ignores, and the status byte that plp, BRK and interrupts move; the cycle counts
of single instructions and the extra one at page borders, of which `Runtime` and
`Movie` take any; file-system errors around ROMs and packages.

Known limits of the models: `vramAddress` is never masked by the code, and
`Scroll` and `VideoMemory` stop at the addresses of their instances instead of
running off the array; `VideoMemory` has all four mirrorings of the runtime,
and that four-screen cartridges reach it under the number of another is said
in section 4; reads between $3001 and $3eff are modelled and no property is
stated about them, because the repository does not say what they should return.
