------------------------------ MODULE PpuProofs ------------------------------
(***************************************************************************)
(* Proofs about the picture unit.                                           *)
(*                                                                          *)
(* Its clock, for a frame of any size: where every step leaves it, and with *)
(* that where the flags of $2002 may be set.                                *)
(*                                                                          *)
(* Sprite memory, for any number of sprites: an address is a sprite and one *)
(* of four offsets, in one way only, so that a byte and the field it        *)
(* belongs to are written together.                                         *)
(*                                                                          *)
(* Video memory, for any addresses and mirroring: the element of an array   *)
(* that the program reaches is the console's cell, so that the port it sees *)
(* is the console's.                                                        *)
(***************************************************************************)
EXTENDS PpuTiming, VideoMemory, Oam, TLAPS

-----------------------------------------------------------------------------
(* The clock and the status flags.                                          *)

(* Where a step leaves the clock. *)
LEMMA ClockMoves ==
  ASSUME [Next]_vars
  PROVE  \/ Advance /\ ~AtFrameEnd
         \/ AtFrameEnd /\ scanline' = -1 /\ cycle' = 1
         \/ UNCHANGED position
  BY TimingAssumption
  DEF Next, Step, VblankStart, VblankEnd, FrameEnd, DrawRow, PreRender,
      PlainDot, ReadStatus, WriteControl, WriteMask, TakeInterrupt, vars,
      position, AtVblankStart, AtVblankEnd, AtFrameEnd, AtRow, AtPreRender

(* The type invariant. *)
THEOREM TypeCorrect == Spec => []TypeOK
<1>1. Init => TypeOK
  <2>1. Init => PositionOK /\ vblankSeen \in 0 .. 2
    BY DEF Init, PositionOK
  <2>2. Init => FlagsOK
    BY DEF Init, FlagsOK
  <2> QED
    BY <2>1, <2>2 DEF TypeOK
<1>2. ASSUME TypeOK, [Next]_vars PROVE PositionOK'
  <2>1. CASE Advance /\ ~AtFrameEnd
    BY <1>2, <2>1, TimingAssumption
    DEF TypeOK, PositionOK, Advance, AtFrameEnd
  <2>2. CASE scanline' = -1 /\ cycle' = 1
    BY <2>2, TimingAssumption DEF PositionOK
  <2>3. CASE UNCHANGED position
    BY <1>2, <2>3 DEF TypeOK, PositionOK, position
  <2> QED
    BY <1>2, <2>1, <2>2, <2>3, ClockMoves
<1>3. ASSUME TypeOK, [Next]_vars PROVE FlagsOK'
  <2> USE <1>3 DEF TypeOK, FlagsOK
  <2>1. ASSUME Step PROVE FlagsOK'
    BY <2>1, Zenon
    DEF Step, VblankStart, VblankEnd, FrameEnd, DrawRow, PreRender, PlainDot,
        status, suppress, written
  <2>2. ASSUME ReadStatus PROVE FlagsOK'
    BY <2>2, Zenon DEF ReadStatus, ReadHides, ReadClears, written
  <2>3. ASSUME NEW on \in BOOLEAN, WriteControl(on) \/ WriteMask(on)
        PROVE  FlagsOK'
    BY <2>3, Zenon DEF WriteControl, WriteMask, status, suppress
  <2>4. ASSUME TakeInterrupt PROVE FlagsOK'
    BY <2>4, Zenon DEF TakeInterrupt, status, suppress, written
  <2>5. ASSUME UNCHANGED vars PROVE FlagsOK'
    BY <2>5, Zenon DEF vars, status, suppress, written
  <2> QED
    BY <2>1, <2>2, <2>3, <2>4, <2>5 DEF Next
<1>4. ASSUME TypeOK, [Next]_vars PROVE (vblankSeen \in 0 .. 2)'
  BY <1>4 DEF TypeOK, Next, Step, VblankStart, VblankEnd, FrameEnd, DrawRow,
              PreRender, PlainDot, ReadStatus, ReadHides, ReadClears,
              WriteControl, WriteMask, TakeInterrupt, vars
<1> QED
  BY <1>1, <1>2, <1>3, <1>4, PTL DEF Spec, TypeOK

-----------------------------------------------------------------------------
(* What the steps of a frame and the registers leave alone: only the start  *)
(* of the blank can raise the flag, only a drawn row the sprite flags.      *)
LEMMA OnlyVblankStartRaises ==
  ASSUME TypeOK, [Next]_vars, ~vblank, vblank'
  PROVE  VblankStart
  BY DEF TypeOK, Next, Step, VblankStart, VblankEnd, FrameEnd, DrawRow, PreRender,
         PlainDot, ReadStatus, ReadHides, ReadClears, WriteControl, WriteMask,
         TakeInterrupt, vars, status

LEMMA OnlyDrawRowRaises ==
  ASSUME TypeOK, [Next]_vars, ~(sprite0hit \/ overflow), (sprite0hit \/ overflow)'
  PROVE  DrawRow
  BY DEF TypeOK, Next, Step, VblankStart, VblankEnd, FrameEnd, DrawRow, PreRender,
         PlainDot, ReadStatus, ReadHides, ReadClears, WriteControl, WriteMask,
         TakeInterrupt, vars, status

(* The dots that lower a flag are passed by no other step. *)
LEMMA StepAtVblankEnd ==
  ASSUME [Next]_vars, AtVblankEnd
  PROVE  VblankEnd \/ UNCHANGED position
<1>1. ~(AtVblankStart \/ AtFrameEnd \/ AtRow \/ AtPreRender)
  BY TimingAssumption
  DEF AtVblankEnd, AtVblankStart, AtFrameEnd, AtRow, AtPreRender
<1> QED
  BY <1>1
  DEF Next, Step, VblankStart, FrameEnd, DrawRow, PreRender, PlainDot,
      ReadStatus, WriteControl, WriteMask, TakeInterrupt, vars, position

LEMMA StepAtPreRender ==
  ASSUME [Next]_vars, AtPreRender
  PROVE  PreRender \/ UNCHANGED position
<1>1. ~(AtVblankStart \/ AtVblankEnd \/ AtFrameEnd \/ AtRow)
  BY TimingAssumption
  DEF AtVblankEnd, AtVblankStart, AtFrameEnd, AtRow, AtPreRender
<1> QED
  BY <1>1
  DEF Next, Step, VblankStart, VblankEnd, FrameEnd, DrawRow, PlainDot,
      ReadStatus, WriteControl, WriteMask, TakeInterrupt, vars, position

(* The flag of the vertical blank is never on outside the blank. *)
THEOREM VblankOnlyInWindow == Spec => []VblankWindow
<1>1. Init => VblankWindow
  BY DEF Init, VblankWindow
<1>2. TypeOK /\ VblankWindow /\ [Next]_vars => VblankWindow'
  <2> SUFFICES ASSUME TypeOK, VblankWindow, [Next]_vars, vblank'
               PROVE  VblankWindow'
    BY DEF VblankWindow
  <2>1. CASE ~vblank
    <3>1. VblankStart
      BY <2>1, OnlyVblankStartRaises
    <3> QED
      BY <3>1, TimingAssumption
      DEF VblankStart, AtVblankStart, Advance, VblankWindow
  <2>2. CASE vblank
    <3>1. ~VblankEnd
      BY Zenon DEF VblankEnd
    <3>2. AtVblankEnd => UNCHANGED position
      BY <3>1, StepAtVblankEnd
    <3>3. CASE UNCHANGED position
      BY <2>2, <3>3 DEF VblankWindow, position, AtVblankEnd
    <3>4. CASE Advance /\ ~AtVblankEnd
      BY <2>2, <3>4, TimingAssumption
      DEF VblankWindow, TypeOK, PositionOK, Advance, AtVblankEnd
    <3>5. CASE AtFrameEnd
      BY <2>2, <3>5, TimingAssumption DEF VblankWindow, AtFrameEnd, AtVblankEnd
    <3> QED
      BY <3>2, <3>3, <3>4, <3>5, ClockMoves
  <2> QED
    BY <2>1, <2>2
<1> QED
  BY <1>1, <1>2, TypeCorrect, PTL DEF Spec

(* No sprite flag of an older frame is on while the next frame begins. *)
THEOREM SpriteFlagsOnlyInWindow == Spec => []SpriteFlagsWindow
<1>1. Init => SpriteFlagsWindow
  BY DEF Init, SpriteFlagsWindow
<1>2. TypeOK /\ SpriteFlagsWindow /\ [Next]_vars => SpriteFlagsWindow'
  <2> SUFFICES ASSUME TypeOK, SpriteFlagsWindow, [Next]_vars,
                      (sprite0hit \/ overflow)'
               PROVE  SpriteFlagsWindow'
    BY DEF SpriteFlagsWindow
  <2>1. CASE ~(sprite0hit \/ overflow)
    <3>1. DrawRow
      BY <2>1, OnlyDrawRowRaises
    <3> QED
      BY <3>1, TimingAssumption DEF DrawRow, AtRow, Advance, SpriteFlagsWindow
  <2>2. CASE sprite0hit \/ overflow
    <3>1. ~PreRender
      BY DEF PreRender
    <3>2. AtPreRender => UNCHANGED position
      BY <3>1, StepAtPreRender
    <3>3. CASE UNCHANGED position
      BY <2>2, <3>3 DEF SpriteFlagsWindow, position
    <3>4. CASE Advance /\ ~AtPreRender
      BY <2>2, <3>4, TimingAssumption
      DEF SpriteFlagsWindow, TypeOK, PositionOK, Advance, AtPreRender
    <3>5. CASE scanline' = -1 /\ cycle' = 1
      BY <3>5 DEF SpriteFlagsWindow
    <3> QED
      BY <3>2, <3>3, <3>4, <3>5, ClockMoves
  <2> QED
    BY <2>1, <2>2
<1> QED
  BY <1>1, <1>2, TypeCorrect, PTL DEF Spec

(* A program sees each vertical blank at most once. *)
THEOREM VblankIsSeenOnce == Spec => []VblankSeenOnce
<1>1. Init => VblankSeenOnce
  BY DEF Init, VblankSeenOnce
<1>2. TypeOK /\ VblankSeenOnce /\ [Next]_vars => VblankSeenOnce'
  <2> SUFFICES ASSUME TypeOK, VblankSeenOnce, [Next]_vars
               PROVE  VblankSeenOnce'
    OBVIOUS
  <2>1. CASE VblankStart
    BY <2>1 DEF VblankStart, VblankSeenOnce
  <2>2. CASE ReadStatus
    BY <2>2 DEF ReadStatus, ReadHides, ReadClears, VblankSeenOnce, TypeOK
  <2>3. CASE vblankSeen' = vblankSeen /\ (vblank' => vblank)
    BY <2>3 DEF VblankSeenOnce
  <2> QED
    BY <2>1, <2>2, <2>3
    DEF Next, Step, VblankEnd, FrameEnd, DrawRow, PreRender, PlainDot,
        WriteControl, WriteMask, TakeInterrupt, vars, status, TypeOK
<1> QED
  BY <1>1, <1>2, TypeCorrect, PTL DEF Spec

-----------------------------------------------------------------------------
(* The clock of lines and cycles.  Two lines apart are at least LastDot     *)
(* dots apart.                                                              *)
LEMMA LineOrder ==
  ASSUME NEW a \in Int, NEW b \in Int, a < b
  PROVE  a * LastDot + LastDot <= b * LastDot
<1>1. b - a - 1 \in Nat
  OBVIOUS
<1>2. (b - a - 1) * LastDot >= 0
  BY <1>1, TimingAssumption
<1>3. b * LastDot = a * LastDot + LastDot + (b - a - 1) * LastDot
  BY TimingAssumption
<1> QED
  BY <1>2, <1>3, TimingAssumption

FrameDots == (LastLine + 2) * LastDot

(* Every position is a dot of the frame. *)
LEMMA DotInFrame ==
  ASSUME PositionOK
  PROVE  /\ Dot \in 0 .. FrameDots - 1
         /\ FrameDots \in Nat
         /\ AtFrameEnd => Dot = FrameDots - 1
<1>0. scanline \in Int /\ cycle \in Int
  BY TimingAssumption DEF PositionOK
<1>1. CASE scanline \in -1 .. LastLine /\ cycle \in 1 .. LastDot
  <2>1. (scanline + 1) * LastDot >= 0
    BY <1>1, TimingAssumption
  <2>2. (scanline + 1) * LastDot + LastDot <= (LastLine + 2) * LastDot
    BY <1>1, LineOrder, TimingAssumption
  <2> QED
    BY <1>1, <2>1, <2>2, TimingAssumption DEF Dot, FrameDots, AtFrameEnd
<1>2. CASE scanline = VblankLine + 1 /\ cycle = 0
  <2>1. (VblankLine + 2) * LastDot >= LastDot
    BY TimingAssumption
  <2>2. (VblankLine + 2) * LastDot + LastDot <= (LastLine + 2) * LastDot
    BY LineOrder, TimingAssumption
  <2> QED
    BY <1>2, <2>1, <2>2, TimingAssumption DEF Dot, FrameDots, AtFrameEnd
<1> QED
  BY <1>1, <1>2 DEF PositionOK

LEMMA DotBeforeEnd ==
  ASSUME PositionOK, ~AtFrameEnd
  PROVE  Dot + 1 \in 0 .. FrameDots - 1
<1>0. scanline \in Int /\ cycle \in 0 .. LastDot /\ scanline <= LastLine
  BY TimingAssumption DEF PositionOK
<1>1. CASE scanline < LastLine
  <2>1. (scanline + 1) * LastDot + LastDot <= (LastLine + 1) * LastDot
    BY <1>0, <1>1, LineOrder, TimingAssumption
  <2>2. (LastLine + 1) * LastDot + LastDot = FrameDots
    BY TimingAssumption DEF FrameDots
  <2> QED
    BY <1>0, <2>1, <2>2, DotInFrame, TimingAssumption DEF Dot
<1>2. CASE scanline = LastLine
  <2>1. cycle <= LastDot - 1
    BY <1>0, <1>2, TimingAssumption DEF AtFrameEnd
  <2>2. (LastLine + 1) * LastDot + LastDot = FrameDots
    BY TimingAssumption DEF FrameDots
  <2> QED
    BY <1>0, <1>2, <2>1, <2>2, DotInFrame, TimingAssumption DEF Dot
<1> QED
  BY <1>0, <1>1, <1>2, TimingAssumption

(* The first cycle of a line is the only position with its dot. *)
LEMMA DotOfLine ==
  ASSUME PositionOK, NEW line \in 0 .. LastLine
  PROVE  Dot = (line + 1) * LastDot <=> scanline = line /\ cycle = 1
<1>0. scanline \in Int /\ cycle \in 0 .. LastDot
  BY TimingAssumption DEF PositionOK
<1>1. CASE scanline = line
  BY <1>0, <1>1, TimingAssumption DEF Dot
<1>2. CASE scanline < line
  <2>1. (scanline + 1) * LastDot + LastDot <= (line + 1) * LastDot
    BY <1>0, <1>2, LineOrder
  <2> QED
    BY <1>0, <1>2, <2>1, TimingAssumption DEF Dot
<1>3. CASE scanline > line
  <2>1. (line + 1) * LastDot + LastDot <= (scanline + 1) * LastDot
    BY <1>0, <1>3, LineOrder
  <2> QED
    BY <1>0, <1>3, <2>1, TimingAssumption DEF Dot
<1> QED
  BY <1>0, <1>1, <1>2, <1>3

(* One step of the unit is one dot of the clock. *)
LEMMA StepIsOneDot ==
  ASSUME PositionOK, PositionOK',
         \/ Advance /\ ~AtFrameEnd
         \/ AtFrameEnd /\ scanline' = -1 /\ cycle' = 1
  PROVE  Dot' = (Dot + 1) % FrameDots
<1>0. scanline \in Int /\ cycle \in Int
  BY TimingAssumption DEF PositionOK
<1>1. CASE Advance /\ ~AtFrameEnd
  <2>1. Dot' = Dot + 1
    <3>1. CASE cycle = LastDot
      <4>1. (scanline + 2) * LastDot = (scanline + 1) * LastDot + LastDot
        BY <1>0, TimingAssumption
      <4>2. scanline' + 1 = scanline + 2 /\ cycle' = 1
        BY <1>0, <1>1, <3>1 DEF Advance
      <4> QED
        BY <1>0, <3>1, <4>1, <4>2, TimingAssumption DEF Dot
    <3>2. CASE cycle # LastDot
      BY <1>0, <1>1, <3>2, TimingAssumption DEF Dot, Advance
    <3> QED
      BY <3>1, <3>2
  <2>2. Dot + 1 \in 0 .. FrameDots - 1 /\ FrameDots \in Nat
    BY <1>1, DotBeforeEnd, DotInFrame
  <2> QED
    BY <2>1, <2>2
<1>2. CASE AtFrameEnd /\ scanline' = -1 /\ cycle' = 1
  <2>1. Dot = FrameDots - 1 /\ FrameDots \in Nat /\ FrameDots > 0
    BY <1>2, DotInFrame
  <2>2. Dot' = 0
    BY <1>2, TimingAssumption DEF Dot
  <2> QED
    BY <2>1, <2>2
<1> QED
  BY <1>1, <1>2

-----------------------------------------------------------------------------
(* Ppu_step, with its early return and its resets of the cycle counter,     *)
(* implements the frame clock: no dot is skipped or repeated, and the flag  *)
(* and the interrupt change at their own dots.                              *)
THEOREM PpuRefinesFrameClock == Spec => ImplementsFrameClock
<1>1. Init => Clock!Init
  <2>1. Init => Dot = (VblankLine + 2) * LastDot - 1
    BY TimingAssumption DEF Init, Dot
  <2>2. Init => /\ vblank = FALSE /\ suppressNmi = FALSE
                /\ nmiOnVblank = FALSE /\ interruptRequested = FALSE
    BY DEF Init
  <2> QED
    BY <2>1, <2>2 DEF Clock!Init
<1>2. TypeOK /\ TypeOK' /\ [Next]_vars => [Clock!Next]_(Clock!vars)
  <2> SUFFICES ASSUME TypeOK, TypeOK', [Next]_vars
               PROVE  [Clock!Next]_(Clock!vars)
    OBVIOUS
  <2>1. /\ AtVblankStart <=> Dot = (VblankLine + 1) * LastDot
        /\ AtVblankEnd <=> Dot = (LastLine + 1) * LastDot
    <3>1. VblankLine \in 0 .. LastLine /\ LastLine \in 0 .. LastLine
      BY TimingAssumption
    <3> QED
      BY <3>1, DotOfLine DEF AtVblankStart, AtVblankEnd, TypeOK
  <2>2. ~(AtVblankStart /\ AtVblankEnd)
    BY TimingAssumption DEF AtVblankStart, AtVblankEnd
  <2>3. CASE Step
    <3>1. Dot' = (Dot + 1) % FrameDots
      <4>1. \/ Advance /\ ~AtFrameEnd
            \/ AtFrameEnd /\ scanline' = -1 /\ cycle' = 1
        BY <2>3, TimingAssumption
        DEF Step, VblankStart, VblankEnd, FrameEnd, DrawRow, PreRender, PlainDot,
            AtVblankStart, AtVblankEnd, AtFrameEnd, AtRow, AtPreRender
      <4> QED
        BY <4>1, StepIsOneDot DEF TypeOK
    <3>2. UNCHANGED <<suppressNmi, nmiOnVblank>>
      BY <2>3 DEF Step, VblankStart, VblankEnd, FrameEnd, DrawRow, PreRender,
                  PlainDot, suppress, written
    <3>3. CASE VblankStart
      <4>1. AtVblankStart /\ ~AtVblankEnd
        BY <2>2, <3>3 DEF VblankStart
      <4>2. vblank' = (vblank \/ ~suppressNmi)
        BY <3>3 DEF VblankStart, TypeOK, FlagsOK
      <4>3. interruptRequested' =
               (interruptRequested \/ (nmiOnVblank /\ ~suppressNmi))
        BY <3>3 DEF VblankStart
      <4> QED
        BY <2>1, <3>1, <3>2, <4>1, <4>2, <4>3, Zenon
        DEF Clock!Next, Clock!Tick, FrameDots
    <3>4. CASE VblankEnd
      <4>1. AtVblankEnd /\ ~AtVblankStart
        BY <2>2, <3>4 DEF VblankEnd
      <4>2. vblank' = FALSE /\ interruptRequested' = interruptRequested
        BY <3>4 DEF VblankEnd
      <4>3. interruptRequested \in BOOLEAN
        BY DEF TypeOK, FlagsOK
      <4> QED
        BY <2>1, <3>1, <3>2, <4>1, <4>2, <4>3, Zenon
        DEF Clock!Next, Clock!Tick, FrameDots
    <3>5. CASE FrameEnd \/ DrawRow \/ PreRender \/ PlainDot
      <4>1. ~AtVblankEnd /\ ~AtVblankStart
        BY <3>5, TimingAssumption
        DEF FrameEnd, DrawRow, PreRender, PlainDot, AtVblankStart, AtVblankEnd,
            AtFrameEnd, AtRow, AtPreRender
      <4>2. vblank' = vblank /\ interruptRequested' = interruptRequested
        BY <3>5 DEF FrameEnd, DrawRow, PreRender, PlainDot, status
      <4>3. interruptRequested \in BOOLEAN
        BY DEF TypeOK, FlagsOK
      <4> QED
        BY <2>1, <3>1, <3>2, <4>1, <4>2, <4>3, Zenon
        DEF Clock!Next, Clock!Tick, FrameDots
    <3> QED
      BY <2>3, <3>3, <3>4, <3>5 DEF Step
  <2>4. CASE ReadStatus
    <3>1. Dot' = Dot /\ UNCHANGED <<nmiOnVblank, interruptRequested>>
      BY <2>4 DEF ReadStatus, position, written, Dot
    <3>2. vblank \in BOOLEAN
      BY DEF TypeOK, FlagsOK
    <3>3. CASE AtVblankStart
      <4>1. suppressNmi' = TRUE /\ vblank' = vblank
        BY <2>4, <3>3 DEF ReadStatus, ReadHides
      <4> QED
        BY <2>1, <3>1, <3>2, <3>3, <4>1, Zenon DEF Clock!Next, Clock!ReadStatus
    <3>4. CASE ~AtVblankStart
      <4>1. suppressNmi' = FALSE /\ vblank' = FALSE
        BY <2>4, <3>4 DEF ReadStatus, ReadClears
      <4> QED
        BY <2>1, <3>1, <3>2, <3>4, <4>1, Zenon DEF Clock!Next, Clock!ReadStatus
    <3> QED
      BY <3>3, <3>4
  <2>5. ASSUME NEW on \in BOOLEAN, WriteControl(on) PROVE Clock!Next
    BY <2>5 DEF WriteControl, Clock!Next, Clock!WriteControl, Dot, position,
                status, suppress
  <2>6. ASSUME NEW on \in BOOLEAN, WriteMask(on) PROVE UNCHANGED Clock!vars
    BY <2>6 DEF WriteMask, Clock!vars, Dot, position, status, suppress
  <2>7. CASE TakeInterrupt
    BY <2>7 DEF TakeInterrupt, Clock!Next, Clock!TakeInterrupt, Dot, position,
                status, suppress, written
  <2>8. CASE UNCHANGED vars
    BY <2>8 DEF vars, Clock!vars, Dot, position, status, suppress, written
  <2> QED
    BY <2>3, <2>4, <2>5, <2>6, <2>7, <2>8 DEF Next
<1> QED
  BY <1>1, <1>2, TypeCorrect, PTL
  DEF Spec, ImplementsFrameClock, Clock!Spec

-----------------------------------------------------------------------------
(* Sprite memory, and video memory.                                         *)

(* An address is the sprite a \div 4 and the offset a % 4, and no other.    *)
LEMMA AddressSplits ==
    ASSUME NEW a \in 0 .. OamSize - 1
    PROVE  /\ a \div 4 \in 0 .. Sprites - 1
           /\ (a % 4) \in 0 .. 3
           /\ \A i \in 0 .. Sprites - 1, o \in 0 .. 3 :
                 (4 * i + o = a) <=> (i = a \div 4 /\ o = (a % 4))
BY OamAssumption DEF OamSize

LEMMA AddressJoins ==
    ASSUME NEW i \in 0 .. Sprites - 1, NEW o \in 0 .. 3
    PROVE  4 * i + o \in 0 .. OamSize - 1
BY OamAssumption DEF OamSize

LEMMA AfterInRange ==
    ASSUME NEW a \in 0 .. OamSize - 1
    PROVE  After(a) \in 0 .. OamSize - 1
BY OamAssumption DEF OamSize, After

LEMMA FieldOfOffset ==
    ASSUME NEW a \in 0 .. OamSize - 1
    PROVE  /\ FieldOf(a) \in Fields
           /\ \A f \in Fields : (f = FieldOf(a)) <=> (Offset(f) = (a % 4))
<1>1. (a % 4) \in 0 .. 3
  BY AddressSplits
<1> DEFINE r == a % 4
<1>2. r = 0 \/ r = 1 \/ r = 2 \/ r = 3
  BY <1>1
<1> QED
  BY <1>2 DEF FieldOf, Fields, Offset

LEMMA Offsets == \A f \in Fields : Offset(f) \in 0 .. 3
BY DEF Fields, Offset

-----------------------------------------------------------------------------
(* Coherence, said of a field. *)
FieldsCoherent ==
    \A f \in Fields : \A i \in 0 .. Sprites - 1 :
        spriteData[f][i] = spriteRam[4 * i + Offset(f)]

LEMMA CoherentByField ==
    ASSUME OamTypeOK
    PROVE  FieldsCoherent <=> OamCoherent
<1>1. Offset("yCoordinates") = 0 /\ Offset("tiles") = 1
      /\ Offset("attributes") = 2 /\ Offset("xCoordinates") = 3
  BY DEF Offset
<1>2. \A i \in 0 .. Sprites - 1 : 4 * i + 0 = 4 * i
  BY OamAssumption
<1> QED
  BY <1>1, <1>2 DEF FieldsCoherent, OamCoherent, Fields

OamInv == OamTypeOK /\ FieldsCoherent

LEMMA InitEstablishes == OamInit => OamInv
<1> SUFFICES ASSUME OamInit PROVE OamInv
  OBVIOUS
<1>1. PICK zero \in OamByte :
         /\ spriteRam = [a \in 0 .. OamSize - 1 |-> zero]
         /\ spriteData = [f \in Fields |-> [i \in 0 .. Sprites - 1 |-> zero]]
         /\ spriteRamAddress = 0
  BY DEF OamInit
<1>2. OamTypeOK
  BY <1>1, OamAssumption DEF OamTypeOK, OamSize
<1>3. FieldsCoherent
  BY <1>1, AddressJoins, Offsets DEF FieldsCoherent
<1> QED
  BY <1>2, <1>3 DEF OamInv

(* One byte and its field. *)
LEMMA DataPreserves ==
    ASSUME OamInv, NEW v \in OamByte, WriteOamData(v)
    PROVE  OamInv'
<1> DEFINE a == spriteRamAddress
<1>1. a \in 0 .. OamSize - 1 /\ After(a) \in 0 .. OamSize - 1
  BY AfterInRange DEF OamInv, OamTypeOK
<1>2. FieldOf(a) \in Fields /\ a \div 4 \in 0 .. Sprites - 1
  BY <1>1, FieldOfOffset, AddressSplits
<1>3. spriteRam' = [spriteRam EXCEPT ![a] = v]
  BY DEF WriteOamData
<1>4. spriteData' = [spriteData EXCEPT ![FieldOf(a)][a \div 4] = v]
  BY DEF WriteOamData, Updated
<1>5. OamTypeOK'
  <2>1. spriteRam' \in [0 .. OamSize - 1 -> OamByte]
    BY <1>1, <1>3 DEF OamInv, OamTypeOK
  <2>2. spriteData' \in [Fields -> [0 .. Sprites - 1 -> OamByte]]
    BY <1>2, <1>4 DEF OamInv, OamTypeOK
  <2>3. spriteRamAddress' \in 0 .. OamSize - 1
    BY <1>1 DEF WriteOamData
  <2> QED
    BY <2>1, <2>2, <2>3 DEF OamTypeOK
<1>6. FieldsCoherent'
  <2> SUFFICES ASSUME NEW f \in Fields, NEW i \in 0 .. Sprites - 1
               PROVE  spriteData'[f][i] = spriteRam'[4 * i + Offset(f)]
    BY DEF FieldsCoherent
  <2> DEFINE b == 4 * i + Offset(f)
  <2>1. b \in 0 .. OamSize - 1
    BY Offsets, AddressJoins
  <2>2. (b = a) <=> (i = a \div 4 /\ f = FieldOf(a))
    BY <1>1, Offsets, AddressSplits, FieldOfOffset
  <2>3. spriteData[f][i] = spriteRam[b]
    BY DEF OamInv, FieldsCoherent
  <2>4. spriteRam'[b] = IF b = a THEN v ELSE spriteRam[b]
    BY <1>3, <2>1 DEF OamInv, OamTypeOK
  <2> HIDE DEF b, a
  <2>5. spriteData'[f][i] = IF f = FieldOf(a) /\ i = a \div 4 THEN v ELSE spriteData[f][i]
    BY <1>2, <1>4 DEF OamInv, OamTypeOK
  <2>6. spriteData'[f][i] = spriteRam'[b]
    BY <2>2, <2>3, <2>4, <2>5
  <2> QED
    BY <2>6 DEF b
<1> QED
  BY <1>5, <1>6 DEF OamInv

(* A page. *)
LEMMA DmaPreserves ==
    ASSUME OamInv, NEW page \in [0 .. OamSize - 1 -> OamByte], WriteDma(page)
    PROVE  OamInv'
<1>1. \A f \in Fields : \A i \in 0 .. Sprites - 1 : 4 * i + Offset(f) \in 0 .. OamSize - 1
  BY Offsets, AddressJoins
<1>2. spriteData' \in [Fields -> [0 .. Sprites - 1 -> OamByte]]
  BY <1>1 DEF WriteDma
<1>3. spriteRamAddress' \in 0 .. OamSize - 1
  BY AfterInRange DEF WriteDma, OamInv, OamTypeOK
<1>4. OamTypeOK'
  BY <1>2, <1>3 DEF OamTypeOK, WriteDma
<1>5. FieldsCoherent'
  BY DEF FieldsCoherent, WriteDma
<1> QED
  BY <1>4, <1>5 DEF OamInv

LEMMA NextPreserves == OamInv /\ [OamNext]_oamVars => OamInv'
<1> SUFFICES ASSUME OamInv, [OamNext]_oamVars PROVE OamInv'
  OBVIOUS
<1>1. CASE \E a \in 0 .. OamSize - 1 : WriteOamAddress(a)
  BY <1>1 DEF WriteOamAddress, OamInv, OamTypeOK, FieldsCoherent
<1>2. CASE \E v \in OamByte : WriteOamData(v)
  BY <1>2, DataPreserves
<1>3. CASE \E page \in [0 .. OamSize - 1 -> OamByte] : WriteDma(page)
  BY <1>3, DmaPreserves
<1>4. CASE UNCHANGED oamVars
  BY <1>4 DEF oamVars, OamInv, OamTypeOK, FieldsCoherent
<1> QED
  BY <1>1, <1>2, <1>3, <1>4 DEF OamNext

(* No write leaves the array: the address wraps at the last sprite.         *)
THEOREM OamTypeCorrect == OamSpec => []OamTypeOK
<1>1. OamInv => OamTypeOK
  BY DEF OamInv
<1> QED
  BY InitEstablishes, NextPreserves, <1>1, PTL DEF OamSpec

(* The renderer's copy is the program's, for any number of sprites.         *)
THEOREM OamIsCoherent == OamSpec => []OamCoherent
<1>1. OamInv => OamCoherent
  BY CoherentByField DEF OamInv
<1> QED
  BY InitEstablishes, NextPreserves, <1>1, PTL DEF OamSpec

-----------------------------------------------------------------------------
(* Which quarter and which half of the nametables an address lies in. *)
LEMMA WhichPage ==
    ASSUME NEW a \in Int, InNametables(a)
    PROVE  \/ (a \div 1024) = 8  /\ (a \div 2048) = 4
           \/ (a \div 1024) = 9  /\ (a \div 2048) = 4
           \/ (a \div 1024) = 10 /\ (a \div 2048) = 5
           \/ (a \div 1024) = 11 /\ (a \div 2048) = 5
<1>1. (a \div 1024) \in 8 .. 11
  BY DEF InNametables
<1>2. (a \div 2048) = (a \div 1024) \div 2
  BY DEF InNametables
<1>3. \A t \in 8 .. 11 : t = 8 \/ t = 9 \/ t = 10 \/ t = 11
  OBVIOUS
<1>4. 8 \div 2 = 4 /\ 9 \div 2 = 4 /\ 10 \div 2 = 5 /\ 11 \div 2 = 5
  OBVIOUS
<1> QED
  BY <1>1, <1>2, <1>3, <1>4

(* Behind an address of a nametable stands the console's cell. *)
LEMMA NametableIsCell ==
    ASSUME mirroring \in 0 .. 3, logicalTables = SetMirroring(mirroring),
           NEW a \in Int, InNametables(a)
    PROVE  Nametable(a) = CellOf(a)
<1>1. CellOf(a) = <<"nametable", TableOf(a), a % 1024>>
  BY DEF CellOf, InNametables
<1>2. logicalTables[((a \div 1024) % 4) + 1] = TableOf(a)
  <2>1. 8 % 4 = 0 /\ 9 % 4 = 1 /\ 10 % 4 = 2 /\ 11 % 4 = 3
    OBVIOUS
  <2>2. /\ 8 % 2 = 0 /\ 9 % 2 = 1 /\ 10 % 2 = 0 /\ 11 % 2 = 1
        /\ 4 % 2 = 0 /\ 5 % 2 = 1
    OBVIOUS
  <2>3. \E q \in 1 .. 4, c \in {0, 1}, r \in {0, 1} :
           /\ ((a \div 1024) % 4) + 1 = q
           /\ (a \div 1024) % 2 = c
           /\ (a \div 2048) % 2 = r
           /\ \/ q = 1 /\ c = 0 /\ r = 0
              \/ q = 2 /\ c = 1 /\ r = 0
              \/ q = 3 /\ c = 0 /\ r = 1
              \/ q = 4 /\ c = 1 /\ r = 1
    <3>1. CASE (a \div 1024) = 8 /\ (a \div 2048) = 4
      BY <2>1, <2>2, <3>1
    <3>2. CASE (a \div 1024) = 9 /\ (a \div 2048) = 4
      BY <2>1, <2>2, <3>2
    <3>3. CASE (a \div 1024) = 10 /\ (a \div 2048) = 5
      BY <2>1, <2>2, <3>3
    <3>4. CASE (a \div 1024) = 11 /\ (a \div 2048) = 5
      BY <2>1, <2>2, <3>4
    <3> QED
      BY <3>1, <3>2, <3>3, <3>4, WhichPage
  <2>4. PICK q \in 1 .. 4, c \in {0, 1}, r \in {0, 1} :
           /\ ((a \div 1024) % 4) + 1 = q
           /\ (a \div 1024) % 2 = c
           /\ (a \div 2048) % 2 = r
           /\ \/ q = 1 /\ c = 0 /\ r = 0
              \/ q = 2 /\ c = 1 /\ r = 0
              \/ q = 3 /\ c = 0 /\ r = 1
              \/ q = 4 /\ c = 1 /\ r = 1
    BY <2>3
  <2>5. SetMirroring(mirroring)[q] =
           (CASE mirroring = Vertical -> c
              [] mirroring = Horizontal -> r
              [] mirroring = SingleUpper -> 0
              [] OTHER -> 1)
    BY <2>4 DEF SetMirroring, Vertical, Horizontal, SingleUpper
  <2> QED
    BY <2>4, <2>5 DEF TableOf
<1> QED
  BY <1>1, <1>2 DEF Nametable

(* The program keeps to pattern tables, nametables and palettes. *)
KeepsToMemory == \A a \in Address : a < 12288 \/ a >= 16128

MemoryInv ==
    /\ MemoryTypeOK
    /\ logicalTables = SetMirroring(mirroring)
    /\ DOMAIN memory = {WritePlace(a) : a \in Address}

LEMMA TablesTyped == \A m \in 0 .. 3 : SetMirroring(m) \in [1 .. 4 -> {0, 1}]
BY DEF SetMirroring, Vertical, Horizontal, SingleUpper

LEMMA WriteInArray ==
    ASSUME logicalTables \in [1 .. 4 -> {0, 1}], NEW a \in Nat, a <= TopAddress
    PROVE  InArray(WritePlace(a))
<1>1. ASSUME NEW b \in Nat PROVE InArray(Nametable(b))
  <2>1. ((b \div 1024) % 4) + 1 \in 1 .. 4 /\ (b % 1024) \in 0 .. NametableSize - 1
    BY DEF NametableSize
  <2> QED
    BY <2>1 DEF InArray, Nametable
<1>2. InArray(PaletteEntry(a))
  <2>1. PICK e \in 0 .. 31 : PaletteEntry(a) = <<"palette", e>>
    BY DEF PaletteEntry
  <2> QED
    BY <2>1 DEF InArray
<1>3. InArray(Vram(a))
  <2>1. VramSize \in Nat /\ a <= VramSize - 1
    BY DEF VramSize, TopAddress
  <2>2. a \in 0 .. VramSize - 1
    BY <2>1
  <2> QED
    BY <2>2 DEF InArray, Vram
<1> QED
  BY <1>1, <1>2, <1>3 DEF WritePlace, MirroredWrite

LEMMA Constants ==
    /\ \A a \in Address : a \in Nat /\ a <= TopAddress
    /\ \A m \in Mirroring : m \in 0 .. 3
    /\ 0 \in Value
BY VideoMemoryAssumption

LEMMA InitMemory == MemoryInit => MemoryInv
<1> SUFFICES ASSUME MemoryInit PROVE MemoryInv
  OBVIOUS
<1>1. mirroring \in 0 .. 3
  BY Constants DEF MemoryInit
<1>2. logicalTables \in [1 .. 4 -> {0, 1}]
  BY <1>1, TablesTyped DEF MemoryInit
<1>3. \A a \in Address : InArray(WritePlace(a))
  BY <1>2, WriteInArray, Constants
<1>4. \A place \in DOMAIN memory : memory[place] \in Value /\ InArray(place)
  BY <1>3, Constants DEF MemoryInit
<1>5. MemoryTypeOK
  BY <1>2, <1>4, Constants DEF MemoryInit, MemoryTypeOK, InArray
<1> QED
  BY <1>5 DEF MemoryInit, MemoryInv

(* What no step changes, and what each leaves typed. *)
StepKeeps ==
    /\ mirroring' = mirroring /\ logicalTables' = logicalTables
    /\ DOMAIN memory' = DOMAIN memory
    /\ \A place \in DOMAIN memory : memory'[place] \in Value
    /\ vramAddress' \in Nat /\ vramAddressInc' \in {0, 1}
    /\ vramDataBuffer' \in Value /\ returned' \in Value

LEMMA StepsKeep == MemoryTypeOK /\ [MemoryNext]_memoryVars => StepKeeps
<1> SUFFICES ASSUME MemoryTypeOK, [MemoryNext]_memoryVars PROVE StepKeeps
  OBVIOUS
<1>1. /\ \A place \in DOMAIN memory : memory[place] \in Value
      /\ vramAddress \in Nat /\ vramAddressInc \in {0, 1}
      /\ vramDataBuffer \in Value /\ returned \in Value
  BY DEF MemoryTypeOK
<1>2. \A place : At(place) \in Value
  BY <1>1, Constants DEF At
<1>3. ASSUME NEW inc \in {0, 1}, WriteControlIncrement(inc) PROVE StepKeeps
  BY <1>1, <1>3 DEF WriteControlIncrement, StepKeeps, nametables
<1>4. ASSUME NEW a \in Address, WriteAddress(a) PROVE StepKeeps
  BY <1>1, <1>4, Constants DEF WriteAddress, StepKeeps, nametables
<1>5. IncrementedAddress \in Nat
  BY <1>1 DEF IncrementedAddress
<1>6. ASSUME NEW v \in Value, WriteData(v) PROVE StepKeeps
  BY <1>1, <1>5, <1>6 DEF WriteData, StepKeeps, nametables
<1>7. CASE ReadData
  BY <1>1, <1>2, <1>5, <1>7 DEF ReadData, StepKeeps, nametables
<1>8. CASE UNCHANGED memoryVars
  BY <1>1, <1>8 DEF memoryVars, StepKeeps, nametables
<1> QED
  BY <1>3, <1>4, <1>6, <1>7, <1>8 DEF MemoryNext

LEMMA NextMemory == MemoryInv /\ [MemoryNext]_memoryVars => MemoryInv'
<1> SUFFICES ASSUME MemoryInv, [MemoryNext]_memoryVars PROVE MemoryInv'
  OBVIOUS
<1>1. MemoryTypeOK /\ logicalTables = SetMirroring(mirroring)
      /\ DOMAIN memory = {WritePlace(a) : a \in Address}
  BY DEF MemoryInv
<1>2. StepKeeps
  BY <1>1, StepsKeep
<1>3. MemoryTypeOK'
  BY <1>1, <1>2 DEF MemoryTypeOK, StepKeeps
<1>4. \A a \in Address : WritePlace(a)' = WritePlace(a)
  BY <1>2 DEF WritePlace, MirroredWrite, Nametable, PaletteEntry, Vram, StepKeeps
<1>5. (DOMAIN memory = {WritePlace(a) : a \in Address})'
  BY <1>1, <1>2, <1>4 DEF StepKeeps
<1>6. (logicalTables = SetMirroring(mirroring))'
  BY <1>1, <1>2 DEF StepKeeps
<1> QED
  BY <1>3, <1>5, <1>6 DEF MemoryInv

(* Every access of video memory stays inside its array: type correctness of *)
(* the memory behind $2006 and $2007, for any addresses below $4000.        *)
THEOREM MemoryTypeCorrect == MemorySpec => []MemoryTypeOK
BY InitMemory, NextMemory, PTL DEF MemorySpec, MemoryInv

-----------------------------------------------------------------------------
LEMMA PaletteIsCell ==
    ASSUME NEW a \in Int, a >= 16128
    PROVE  PaletteEntry(a) = CellOf(a)
BY DEF PaletteEntry, CellOf, InNametables

LEMMA VramIsCell ==
    ASSUME NEW a \in Int, a < 8192
    PROVE  Vram(a) = CellOf(a)
BY DEF Vram, CellOf, InNametables

LEMMA KeptAddress ==
    ASSUME KeepsToMemory, NEW a \in Address
    PROVE  /\ a \in Nat
           /\ a < 8192 \/ InNametables(a) \/ a >= 16128
           /\ a >= 16128 => InNametables(a - 4096)
BY Constants DEF KeepsToMemory, InNametables, TopAddress

(* Every access of such a program reaches the console's cell. *)
LEMMA AccessesReachCells ==
    ASSUME MemoryInv, KeepsToMemory, NEW a \in Address
    PROVE  /\ WritePlace(a) = CellOf(a)
           /\ a < 16128 => BufferPlace(a) = CellOf(a)
           /\ a >= 16128 => /\ PaletteEntry(a) = CellOf(a)
                            /\ BufferPlace(a - 4096) = CellOf(a - 4096)
<1>1. mirroring \in 0 .. 3 /\ logicalTables = SetMirroring(mirroring)
  BY Constants DEF MemoryInv, MemoryTypeOK
<1>2. CASE a < 8192
  BY <1>2, KeptAddress, VramIsCell DEF WritePlace, BufferPlace, InNametables
<1>3. CASE InNametables(a)
  BY <1>1, <1>3, KeptAddress, NametableIsCell DEF WritePlace, BufferPlace, InNametables
<1>4. CASE a >= 16128
  <2>1. a \in Int /\ a - 4096 \in Int /\ InNametables(a - 4096)
    BY <1>4, KeptAddress
  <2>0. a > 12288 /\ ~(a < 16128) /\ ~InNametables(a)
    BY <1>4, <2>1 DEF InNametables
  <2>2. Nametable(a - 4096) = CellOf(a - 4096)
    BY <1>1, <2>1, NametableIsCell
  <2> QED
    BY <1>4, <2>1, <2>0, <2>2, PaletteIsCell DEF WritePlace, MirroredWrite, BufferPlace
<1> QED
  BY <1>2, <1>3, <1>4, KeptAddress

LEMMA ShownAddresses ==
    /\ \A a \in Address : a \in Shown
    /\ \A a \in Address : (a \in Palette) <=> (a >= 16128)
    /\ \A a \in Palette : a - 4096 \in Shown
BY DEF Shown, Palette

(* The port's view of a write: one cell of its memory, and no other. *)
LEMMA WriteIsCellWrite ==
    ASSUME MemoryInv, MemoryInv', mirroring' = mirroring, NEW a \in Address, NEW v,
           WritePlace(a) = CellOf(a),
           memory' = [memory EXCEPT ![WritePlace(a)] = v]
    PROVE  [c \in {CellOf(b) : b \in Shown} |-> At(c)]'
              = [[c \in {CellOf(b) : b \in Shown} |-> At(c)] EXCEPT ![CellOf(a)] = v]
<1>1. \A b : CellOf(b)' = CellOf(b)
  BY DEF CellOf, TableOf
<1>2. WritePlace(a) \in DOMAIN memory
  BY DEF MemoryInv
<1>3. \A c : At(c)' = IF c = CellOf(a) THEN v ELSE At(c)
  BY <1>2 DEF At
<1>4. CellOf(a) \in {CellOf(b) : b \in Shown}
  BY ShownAddresses
<1> QED
  BY <1>1, <1>3, <1>4

(* A program that keeps to pattern tables, nametables and palettes sees the *)
(* console's memory through $2006 and $2007, whatever the mirroring.        *)
THEOREM VideoMemoryRefinesDataPort == KeepsToMemory => (MemorySpec => ImplementsDataPort)
<1> SUFFICES ASSUME KeepsToMemory PROVE MemorySpec => ImplementsDataPort
  OBVIOUS
<1>1. MemoryInit => Port!Init
  <2> SUFFICES ASSUME MemoryInit PROVE Port!Init
    OBVIOUS
  <2>1. \A c : At(c) = 0
    BY DEF MemoryInit, At
  <2> QED
    BY <2>1 DEF MemoryInit, Port!Init
<1>2. MemoryInv /\ MemoryInv' /\ [MemoryNext]_memoryVars => [Port!Next]_(Port!vars)
  <2> SUFFICES ASSUME MemoryInv, MemoryInv', [MemoryNext]_memoryVars
               PROVE  [Port!Next]_(Port!vars)
    OBVIOUS
  <2>1. ASSUME nametables' = nametables
        PROVE  /\ mirroring' = mirroring
               /\ \A b : CellOf(b)' = CellOf(b)
               /\ [b \in Shown |-> CellOf(b)]' = [b \in Shown |-> CellOf(b)]
               /\ {CellOf(b) : b \in Shown}' = {CellOf(b) : b \in Shown}
    BY <2>1 DEF nametables, CellOf, TableOf
  <2>2. ASSUME nametables' = nametables, memory' = memory
        PROVE  [c \in {CellOf(b) : b \in Shown} |-> At(c)]'
                  = [c \in {CellOf(b) : b \in Shown} |-> At(c)]
    BY <2>1, <2>2 DEF At
  <2>3. ASSUME NEW inc \in {0, 1}, WriteControlIncrement(inc)
        PROVE  Port!SetStep(IF inc = 1 THEN 32 ELSE 1)
    BY <2>3, <2>1, <2>2 DEF WriteControlIncrement, Port!SetStep
  <2>4. ASSUME NEW a \in Address, WriteAddress(a)
        PROVE  Port!SetAddress(a)
    BY <2>4, <2>1, <2>2 DEF WriteAddress, Port!SetAddress
  <2>5. ASSUME NEW v \in Value, WriteData(v)
        PROVE  Port!Write(v)
    <3>1. vramAddress \in Address /\ nametables' = nametables
          /\ memory' = [memory EXCEPT ![WritePlace(vramAddress)] = v]
      BY <2>5 DEF WriteData, InUse
    <3>2. [b \in Shown |-> CellOf(b)][vramAddress] = CellOf(vramAddress)
      BY <3>1, ShownAddresses
    <3>3. WritePlace(vramAddress) = CellOf(vramAddress)
      BY <3>1, AccessesReachCells
    <3>4. [c \in {CellOf(b) : b \in Shown} |-> At(c)]'
             = [[c \in {CellOf(b) : b \in Shown} |-> At(c)]
                   EXCEPT ![[b \in Shown |-> CellOf(b)][vramAddress]] = v]
      BY <2>1, <3>1, <3>2, <3>3, WriteIsCellWrite
    <3> QED
      BY <2>5, <2>1, <3>1, <3>4 DEF WriteData, Port!Write, IncrementedAddress
  <2>6. ASSUME ReadData PROVE Port!Read
    <3>1. vramAddress \in Address /\ nametables' = nametables /\ memory' = memory
      BY <2>6 DEF ReadData, InUse
    <3>2. \A b \in Shown : [c \in {CellOf(d) : d \in Shown} |-> At(c)]
                              [[d \in Shown |-> CellOf(d)][b]] = At(CellOf(b))
      OBVIOUS
    <3>3. CASE vramAddress < 16128
      <4>1. returned' = vramDataBuffer /\ vramDataBuffer' = At(CellOf(vramAddress))
        BY <2>6, <3>1, <3>3, AccessesReachCells DEF ReadData
      <4>2. vramAddress \in Shown /\ vramAddress \notin Palette
        BY <3>1, <3>3, ShownAddresses, Constants
      <4> QED
        BY <2>6, <2>1, <2>2, <3>1, <3>2, <4>1, <4>2
        DEF ReadData, Port!Read, IncrementedAddress
    <3>4. CASE vramAddress >= 16128
      <4>1. ~(vramAddress < 16128)
        BY <3>1, <3>4, Constants
      <4>2. /\ returned' = At(CellOf(vramAddress))
            /\ vramDataBuffer' = At(CellOf(vramAddress - 4096))
        BY <2>6, <3>1, <3>4, <4>1, AccessesReachCells DEF ReadData
      <4>3. vramAddress \in Shown /\ vramAddress \in Palette
            /\ vramAddress - 4096 \in Shown
        BY <3>1, <3>4, ShownAddresses
      <4> QED
        BY <2>6, <2>1, <2>2, <3>1, <3>2, <4>2, <4>3
        DEF ReadData, Port!Read, Port!PaletteShadow, IncrementedAddress
    <3> QED
      BY <3>1, <3>3, <3>4, Constants
  <2>7. CASE UNCHANGED memoryVars
    <3>1. nametables' = nametables /\ memory' = memory
      BY <2>7 DEF memoryVars
    <3> QED
      BY <2>7, <2>1, <2>2, <3>1 DEF memoryVars, Port!vars
  <2>8. (\E a \in Address : WriteAddress(a)) => [Port!Next]_(Port!vars)
    BY <2>4 DEF Port!Next
  <2>9. (\E inc \in {0, 1} : WriteControlIncrement(inc)) => [Port!Next]_(Port!vars)
    BY <2>3 DEF Port!Next
  <2>10. (\E v \in Value : WriteData(v)) => [Port!Next]_(Port!vars)
    BY <2>5 DEF Port!Next, WriteData, InUse
  <2>11. ReadData => [Port!Next]_(Port!vars)
    BY <2>6 DEF Port!Next, ReadData, InUse
  <2> QED
    BY <2>7, <2>8, <2>9, <2>10, <2>11 DEF MemoryNext
<1> QED
  BY <1>1, <1>2, InitMemory, NextMemory, PTL DEF MemorySpec, ImplementsDataPort, Port!Spec
=============================================================================
