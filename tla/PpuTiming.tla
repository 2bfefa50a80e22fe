----------------------------- MODULE PpuTiming ------------------------------
(***************************************************************************)
(* The timing of the picture unit in ppu.c: Ppu_step, which advances one    *)
(* dot, and the registers that race with it, the status read of $2002 and   *)
(* the writes of $2000 and $2001.  The CPU side calls all of them between   *)
(* two dots.  Pixels are abstracted away; what a row of sprites does to the *)
(* status register is a nondeterministic choice.  The vertical-blank        *)
(* callback is main.c's vblankInterrupt, so interruptRequested is here too. *)
(***************************************************************************)
EXTENDS Integers

CONSTANTS VblankLine,   \* 240, the line that starts the vertical blank
          LastLine,     \* 260, the last line of a frame
          LastDot,      \* 341, the last cycle of a line
          RowDot,       \* 254, the cycle that draws a row and its sprites
          PhantomLines  \* 1 .. 8, see DrawRow

ASSUME TimingAssumption ==
    /\ VblankLine \in Nat \ {0}
    /\ LastLine \in Nat /\ LastLine > VblankLine + 1
    /\ LastDot \in Nat /\ LastDot > 2
    /\ RowDot \in 2 .. LastDot - 1
    /\ PhantomLines \subseteq 1 .. VblankLine - 1

VARIABLES scanline,            \* -1 is the pre-render line
          cycle,               \* 1 .. LastDot; 0 only before the first dot
          vblank,              \* status bit 7, STATUS_VBLANK_STARTED
          sprite0hit,          \* status bit 6
          overflow,            \* status bit 5
          suppressNmi,
          suppressVbl,
          nmiOnVblank,         \* control bit 7
          showSprites,         \* mask bit 4
          interruptRequested,  \* ROM_INTERRUPT_NMI is requested
          statusRead,          \* history: $2002 was read since the last dot
          vblankSeen           \* history: reads that returned bit 7 since the
                               \* last start of the vertical blank, up to 2

position == <<scanline, cycle>>
status   == <<vblank, sprite0hit, overflow>>
suppress == <<suppressNmi, suppressVbl>>
written  == <<nmiOnVblank, showSprites>>
vars == <<position, status, suppress, written, interruptRequested,
          statusRead, vblankSeen>>

(* Ppu_new: the clock starts behind the line that starts the blank. *)
Init ==
    /\ scanline = VblankLine + 1 /\ cycle = 0
    /\ vblank = FALSE /\ sprite0hit = FALSE /\ overflow = FALSE
    /\ suppressNmi = FALSE /\ suppressVbl = FALSE
    /\ nmiOnVblank = FALSE /\ showSprites = FALSE
    /\ interruptRequested = FALSE
    /\ statusRead = FALSE /\ vblankSeen = 0

-----------------------------------------------------------------------------
(* Wrong variants, for mutation testing; more of them below. *)

AdvanceFromZero ==
    /\ cycle' = IF cycle = LastDot THEN 0 ELSE cycle + 1
    /\ scanline' = IF cycle = LastDot THEN scanline + 1 ELSE scanline

AtVblankEndLate == scanline = LastLine /\ cycle = 2

-----------------------------------------------------------------------------
(* The dots at which Ppu_step does something. *)

AtVblankStart == scanline = VblankLine /\ cycle = 1
AtVblankEnd   == scanline = LastLine /\ cycle = 1
AtFrameEnd    == scanline = LastLine /\ cycle = LastDot
AtRow         == scanline \in 0 .. VblankLine - 1 /\ cycle = RowDot
AtPreRender   == scanline = -1 /\ cycle = 1

(* The end of Ppu_step: the next cycle, or the first one of the next line. *)
Advance ==
    /\ cycle' = IF cycle = LastDot THEN 1 ELSE cycle + 1
    /\ scanline' = IF cycle = LastDot THEN scanline + 1 ELSE scanline

-----------------------------------------------------------------------------
(* Wrong variants, for mutation testing. *)

PreRenderKeepsHit ==
    /\ AtPreRender
    /\ Advance
    /\ overflow' = FALSE
    /\ statusRead' = FALSE
    /\ UNCHANGED <<vblank, sprite0hit, suppress, written, interruptRequested,
                   vblankSeen>>

FrameEndTooFar ==
    /\ AtFrameEnd
    /\ scanline' = VblankLine + 1 /\ cycle' = 1
    /\ statusRead' = FALSE
    /\ UNCHANGED <<status, suppress, written, interruptRequested, vblankSeen>>

ReadHidesFlagOnly ==
    /\ suppressNmi' = FALSE /\ suppressVbl' = TRUE
    /\ UNCHANGED <<vblank, vblankSeen>>

ReadKeepsFlag ==
    /\ suppressNmi' = FALSE /\ suppressVbl' = FALSE
    /\ vblank' = vblank
    /\ vblankSeen' = IF vblank /\ vblankSeen < 2 THEN vblankSeen + 1 ELSE vblankSeen

-----------------------------------------------------------------------------
(* Ppu_step, one disjunct for each place where it does something. *)

(* Line 240, cycle 1: the flag, the interrupt and the frame's picture. *)
VblankStart ==
    /\ AtVblankStart
    /\ Advance
    /\ vblank' = (vblank \/ ~suppressVbl)
    /\ interruptRequested' = (interruptRequested \/ (nmiOnVblank /\ ~suppressNmi))
    /\ statusRead' = FALSE /\ vblankSeen' = 0
    /\ UNCHANGED <<sprite0hit, overflow, suppress, written>>

(* Line 260, cycle 1. *)
VblankEnd ==
    /\ AtVblankEnd
    /\ Advance
    /\ vblank' = FALSE
    /\ statusRead' = FALSE
    /\ UNCHANGED <<sprite0hit, overflow, suppress, written,
                   interruptRequested, vblankSeen>>

(* Line 260, cycle 341: the early return. *)
FrameEnd ==
    /\ AtFrameEnd
    /\ scanline' = -1 /\ cycle' = 1
    /\ statusRead' = FALSE
    /\ UNCHANGED <<status, suppress, written, interruptRequested, vblankSeen>>

(* A visible line, cycle 254: the sprites of the row are evaluated.  The    *)
(* loop runs over 256 sprites of which the program can fill 64; the others  *)
(* stay at y = 0 and count as sprites of PhantomLines, so there the         *)
(* overflow is certain.                                                     *)
DrawRow ==
    /\ AtRow
    /\ Advance
    /\ \E hit, many \in BOOLEAN :
          /\ sprite0hit' = (sprite0hit \/ (showSprites /\ hit))
          /\ overflow' = (overflow \/ (showSprites /\ (many \/ scanline \in PhantomLines)))
    /\ statusRead' = FALSE
    /\ UNCHANGED <<vblank, suppress, written, interruptRequested, vblankSeen>>

(* The pre-render line, cycle 1. *)
PreRender ==
    /\ AtPreRender
    /\ Advance
    /\ sprite0hit' = FALSE /\ overflow' = FALSE
    /\ statusRead' = FALSE
    /\ UNCHANGED <<vblank, suppress, written, interruptRequested, vblankSeen>>

(* Every other dot. *)
PlainDot ==
    /\ ~(AtVblankStart \/ AtVblankEnd \/ AtFrameEnd \/ AtRow \/ AtPreRender)
    /\ Advance
    /\ statusRead' = FALSE
    /\ UNCHANGED <<status, suppress, written, interruptRequested, vblankSeen>>

Step == VblankStart \/ VblankEnd \/ FrameEnd \/ DrawRow \/ PreRender \/ PlainDot

-----------------------------------------------------------------------------
(* Ppu_readStatus: on the very dot that starts the blank the read hides the *)
(* flag and holds back flag and interrupt; anywhere else it takes the flag  *)
(* down and lets them through again.                                        *)
ReadHides ==
    /\ suppressNmi' = TRUE /\ suppressVbl' = TRUE
    /\ UNCHANGED <<vblank, vblankSeen>>

ReadClears ==
    /\ suppressNmi' = FALSE /\ suppressVbl' = FALSE
    /\ vblank' = FALSE
    /\ vblankSeen' = IF vblank /\ vblankSeen < 2 THEN vblankSeen + 1 ELSE vblankSeen

ReadStatus ==
    /\ \/ AtVblankStart /\ ReadHides
       \/ ~AtVblankStart /\ ReadClears
    /\ statusRead' = TRUE
    /\ UNCHANGED <<position, sprite0hit, overflow, written, interruptRequested>>

(* Ppu_writeControl, as far as the timing depends on it. *)
WriteControl(nmi) ==
    /\ nmiOnVblank' = nmi
    /\ UNCHANGED <<position, status, suppress, showSprites, interruptRequested,
                   statusRead, vblankSeen>>

(* Ppu_writeMask, as far as the timing depends on it. *)
WriteMask(sprites) ==
    /\ showSprites' = sprites
    /\ UNCHANGED <<position, status, suppress, nmiOnVblank, interruptRequested,
                   statusRead, vblankSeen>>

(* rom_cycle takes the requested interrupt. *)
TakeInterrupt ==
    /\ interruptRequested
    /\ interruptRequested' = FALSE
    /\ UNCHANGED <<position, status, suppress, written, statusRead, vblankSeen>>

Next ==
    \/ Step
    \/ ReadStatus
    \/ \E on \in BOOLEAN : WriteControl(on) \/ WriteMask(on)
    \/ TakeInterrupt

Spec == Init /\ [][Next]_vars

(* Every generated instruction calls rom_cycle, which steps the unit, so    *)
(* the dots never stop while the program runs.                              *)
FairSpec == Spec /\ WF_vars(Step)

-----------------------------------------------------------------------------
(* Cycle 0 is the state Ppu_new leaves behind. *)
PositionOK ==
    \/ scanline \in -1 .. LastLine /\ cycle \in 1 .. LastDot
    \/ scanline = VblankLine + 1 /\ cycle = 0

FlagsOK ==
    /\ vblank \in BOOLEAN /\ sprite0hit \in BOOLEAN /\ overflow \in BOOLEAN
    /\ suppressNmi \in BOOLEAN /\ suppressVbl = suppressNmi
    /\ nmiOnVblank \in BOOLEAN /\ showSprites \in BOOLEAN
    /\ interruptRequested \in BOOLEAN /\ statusRead \in BOOLEAN

(* The type invariant: Ppu_step's early return and its resets keep the      *)
(* position inside the frame, and the two suppress flags never differ.      *)
TypeOK == PositionOK /\ FlagsOK /\ vblankSeen \in 0 .. 2

(* The vertical-blank flag is never on outside the blank: a flag that       *)
(* survived into a frame being drawn would let a program that polls $2002   *)
(* write video memory during rendering.                                     *)
VblankWindow ==
    vblank => \/ scanline = VblankLine /\ cycle > 1
              \/ scanline \in VblankLine + 1 .. LastLine - 1
              \/ AtVblankEnd

(* The sprite flags of a frame are gone before its successor draws: from    *)
(* the start of the pre-render line to the first row neither is on, so a    *)
(* program that waits for sprite 0 never sees the hit of an older frame.    *)
SpriteFlagsWindow ==
    sprite0hit \/ overflow => ~ \/ scanline = -1 /\ cycle > 1
                                \/ scanline = 0 /\ cycle <= RowDot

(* However reads of $2002 fall, among them the one that races with the      *)
(* start of the blank, a program sees each vertical blank at most once.     *)
VblankSeenOnce ==
    /\ vblankSeen < 2
    /\ vblankSeen = 1 => ~vblank

(* Lines and cycles seen as one clock: FrameClock's constants and dot. *)
Dot == (scanline + 1) * LastDot + cycle - 1

Clock == INSTANCE FrameClock
           WITH FrameDots <- (LastLine + 2) * LastDot,
                FirstDot  <- (VblankLine + 2) * LastDot - 1,
                VblankDot <- (VblankLine + 1) * LastDot,
                ClearDot  <- (LastLine + 1) * LastDot,
                dot <- Dot, suppressed <- suppressNmi,
                requested <- interruptRequested

(* Ppu_step with its early return and its resets of the cycle counter is a  *)
(* clock that counts every dot of the frame once, and the flag and the      *)
(* interrupt belong to fixed dots of that clock.                            *)
ImplementsFrameClock == Clock!Spec

(* Vertical blanks never stop coming. *)
VblankRecurs == []<>AtVblankStart

(* ppu.c says of control bit 7 "Generate an NMI at the start of the         *)
(* vertical blanking interval": a blank that no read of $2002 races with    *)
(* requests the interrupt when the bit is set.                              *)
NmiAtStartOfVblank ==
    [][VblankStart /\ nmiOnVblank /\ ~statusRead => interruptRequested']_vars
=============================================================================
