------------------------------- MODULE Scroll -------------------------------
(***************************************************************************)
(* The picture unit's address registers.  The program writes the latch     *)
(* through $2000, $2005 and $2006, whose two halves share one write toggle  *)
(* that a read of $2002 resets; the raster copies the latch into the        *)
(* address before the first line and moves the address through every line. *)
(* Every write may come between any two events of the raster.               *)
(***************************************************************************)
EXTENDS Integers

CONSTANTS Lines,         \* visible lines of a frame: 240
          ScrollByte,    \* what the program writes to $2005
          AddressByte,   \* what it writes to $2006
          ControlByte,   \* what it writes to $2000
          Mask           \* bits 3 and 4 of what it writes to $2001, as pairs

ASSUME ScrollAssumption ==
    /\ Lines \in Nat \ {0}
    /\ ScrollByte \subseteq 0 .. 255
    /\ AddressByte \subseteq 0 .. 255
    /\ ControlByte \subseteq 0 .. 255
    /\ Mask \subseteq BOOLEAN \X BOOLEAN

VARIABLES vramLatch, vramAddress, fineX, writeLatch,
          vramAddressInc,              \* control bit 2
          showBackground, showSprites, \* mask bits 3 and 4
          line, event,                 \* the raster's next event
          \* History: what the program asked for, and whether it still holds.
          camera,     \* the scroll position: x, y and base nametable
          latched,    \* the parts of it that no $2006 write has overwritten
          top,        \* the row it had when this frame began, and
          left        \* the column it had when this line began, as long as
                      \* the address still is the raster's alone

registers  == <<vramLatch, vramAddress, fineX, writeLatch>>
mask       == <<showBackground, showSprites>>
raster     == <<line, event>>
history    == <<camera, latched, top, left>>
scrollVars == <<registers, vramAddressInc, mask, raster, history>>

-----------------------------------------------------------------------------
(* The fields of an address: coarse x, coarse y, two nametable bits, fine y. *)
Field(a, shift, size) == (a \div shift) % size
Put(a, shift, size, v) == a - Field(a, shift, size) * shift + v * shift

CoarseX(a) == Field(a, 1, 32)
CoarseY(a) == Field(a, 32, 32)
TableX(a)  == Field(a, 1024, 2)
TableY(a)  == Field(a, 2048, 2)
FineY(a)   == Field(a, 4096, 8)

Lost == << >>
Row(c)    == <<c.base \div 2, c.y>>
Column(c) == <<c.base % 2, c.x \div 8>>

Rendering == showBackground \/ showSprites

ScrollInit ==
    /\ vramLatch = 0 /\ vramAddress = 0 /\ fineX = 0 /\ writeLatch = TRUE
    /\ vramAddressInc = 0
    /\ showBackground = FALSE /\ showSprites = FALSE
    /\ line = Lines /\ event = "blank"
    /\ camera = [x |-> 0, y |-> 0, base |-> 0]
    /\ latched = {"x", "y", "base"}
    /\ top = Lost /\ left = Lost

-----------------------------------------------------------------------------
(* Wrong variants, for mutation testing. *)
ScrolledLatchKeepsFineY(v) ==
    IF writeLatch
    THEN Put(vramLatch % 32768, 1, 32, v \div 8)
    ELSE Put(vramLatch, 32, 32, v \div 8)

VerticalStepAt30(a) ==
    IF FineY(a) = 7
    THEN LET b == a % 4096 IN
         CASE CoarseY(b) = 30 -> Put(Put(b, 2048, 2, 1 - TableY(b)), 32, 32, 0)
           [] CoarseY(b) = 31 -> Put(b, 32, 32, 0)
           [] OTHER -> b + 32
    ELSE a + 4096

-----------------------------------------------------------------------------
(* The program's accesses. *)

(* $2000: the base nametable goes into the latch, not into the address. *)
WriteControl(v) ==
    /\ vramLatch' = Put(vramLatch, 1024, 4, v % 4)
    /\ vramAddressInc' = Field(v, 4, 2)
    /\ camera' = [camera EXCEPT !.base = v % 4]
    /\ latched' = latched \cup {"base"}
    /\ UNCHANGED <<vramAddress, fineX, writeLatch, mask, raster,
                   top, left>>

(* $2001 *)
WriteMask(m) ==
    /\ showBackground' = m[1]
    /\ showSprites' = m[2]
    /\ UNCHANGED <<registers, vramAddressInc, raster, history>>

(* $2002: as far as this module goes, a read resets the toggle. *)
ReadStatus ==
    /\ writeLatch' = TRUE
    /\ UNCHANGED <<vramLatch, vramAddress, fineX, vramAddressInc, mask, raster, history>>

(* $2005: x first, then y. *)
ScrolledLatch(v) ==
    IF writeLatch
    THEN Put(vramLatch % 32768, 1, 32, v \div 8)
    ELSE CoarseX(vramLatch) + (v \div 8) * 32 + Field(vramLatch, 1024, 4) * 1024
             + (v % 8) * 4096

WriteScroll(v) ==
    /\ vramLatch' = ScrolledLatch(v)
    /\ fineX' = IF writeLatch THEN v % 8 ELSE fineX
    /\ writeLatch' = ~writeLatch
    /\ camera' = IF writeLatch THEN [camera EXCEPT !.x = v] ELSE [camera EXCEPT !.y = v]
    /\ latched' = latched \cup {IF writeLatch THEN "x" ELSE "y"}
    /\ UNCHANGED <<vramAddress, vramAddressInc, mask, raster,
                   top, left>>

(* $2006: the high byte first; the low byte also loads the address. *)
AddressedLatch(v) ==
    IF writeLatch
    THEN (vramLatch % 256) + (v % 64) * 256
    ELSE vramLatch - (vramLatch % 256) + v

WriteAddress(v) ==
    /\ vramLatch' = AddressedLatch(v)
    /\ vramAddress' = IF writeLatch THEN vramAddress ELSE vramLatch'
    /\ writeLatch' = ~writeLatch
    /\ latched' = {}
    /\ top' = IF writeLatch THEN top ELSE Lost
    /\ left' = IF writeLatch THEN left ELSE Lost
    /\ UNCHANGED <<fineX, vramAddressInc, mask, raster, camera>>

(* $2007, read or written: the address moves on.  Bound: one access takes    *)
(* the address off the raster's course, more make no difference to it.       *)
AccessData ==
    /\ top # Lost \/ left # Lost
    /\ vramAddress' = vramAddress + (IF vramAddressInc = 1 THEN 32 ELSE 1)
    /\ top' = Lost /\ left' = Lost
    /\ UNCHANGED <<vramLatch, fineX, writeLatch, vramAddressInc, mask, raster,
                   camera, latched>>

Accesses ==
    \/ \E v \in ControlByte : WriteControl(v)
    \/ \E m \in Mask : WriteMask(m)
    \/ ReadStatus
    \/ \E v \in ScrollByte : WriteScroll(v)
    \/ \E v \in AddressByte : WriteAddress(v)
    \/ AccessData

-----------------------------------------------------------------------------
(* The raster. *)

(* One tile to the right, into the neighbouring nametable at the end. *)
HorizontalStep(a) ==
    IF a % 32 = 31
    THEN Put(Put(a, 1024, 2, 1 - TableX(a)), 1, 32, 0)
    ELSE a + 1

TilesOn(a, n) ==
    LET on[i \in 0 .. n] == IF i = 0 THEN a ELSE HorizontalStep(on[i - 1]) IN on[n]

(* One pixel down: after row 29 into the nametable below; rows 30 and 31    *)
(* are attributes and wrap without leaving the nametable.                   *)
VerticalStep(a) ==
    IF FineY(a) = 7
    THEN LET b == a % 4096 IN
         CASE CoarseY(b) = 29 -> Put(Put(b, 2048, 2, 1 - TableY(b)), 32, 32, 0)
           [] CoarseY(b) = 31 -> Put(b, 32, 32, 0)
           [] OTHER -> b + 32
    ELSE a + 4096

(* Coarse x and its nametable bit come from the latch. *)
WithLatchedX(a) ==
    Put(Put(a % 32768, 1, 32, CoarseX(vramLatch)), 1024, 2, TableX(vramLatch))

(* The pre-render line, cycle 304. *)
CopyLatch ==
    /\ event = "copy"
    /\ vramAddress' = IF Rendering THEN vramLatch ELSE vramAddress
    /\ top' = IF Rendering /\ {"y", "base"} \subseteq latched THEN Row(camera) ELSE Lost
    /\ left' = IF Rendering /\ {"x", "base"} \subseteq latched THEN Column(camera) ELSE Lost
    /\ line' = 0 /\ event' = "row"
    /\ UNCHANGED <<vramLatch, fineX, writeLatch, vramAddressInc, mask, camera, latched>>

(* A visible line, cycle 254: 34 tiles are fetched. *)
RenderTileRow ==
    /\ event = "row"
    /\ vramAddress' = IF showBackground THEN TilesOn(vramAddress, 34) ELSE vramAddress
    /\ event' = "end"
    /\ UNCHANGED <<vramLatch, fineX, writeLatch, vramAddressInc, mask, line, history>>

(* The same line, cycle 256. *)
EndLine ==
    /\ event = "end"
    /\ vramAddress' = IF showBackground
                      THEN WithLatchedX(VerticalStep(TilesOn(vramAddress, 2)))
                      ELSE vramAddress
    /\ top' = IF showBackground THEN top ELSE Lost
    /\ left' = IF showBackground /\ {"x", "base"} \subseteq latched
               THEN Column(camera) ELSE Lost
    /\ line' = line + 1
    /\ event' = IF line + 1 = Lines THEN "blank" ELSE "row"
    /\ UNCHANGED <<vramLatch, fineX, writeLatch, vramAddressInc, mask, camera, latched>>

Blank ==
    /\ event = "blank"
    /\ line' = -1 /\ event' = "copy"
    /\ UNCHANGED <<registers, vramAddressInc, mask, history>>

Raster == CopyLatch \/ RenderTileRow \/ EndLine \/ Blank

ScrollNext == Accesses \/ Raster

ScrollSpec == ScrollInit /\ [][ScrollNext]_scrollVars

-----------------------------------------------------------------------------
(* Whatever order the program writes the scroll position, its base and      *)
(* addresses in, and wherever a status read resets the toggle, the latch    *)
(* and fine x hold the scroll position, but for what a $2006 write          *)
(* overwrote since.                                                         *)
LatchHoldsCamera ==
    /\ "x" \in latched => CoarseX(vramLatch) * 8 + fineX = camera.x
    /\ "y" \in latched => CoarseY(vramLatch) * 8 + FineY(vramLatch) = camera.y
    /\ "base" \in latched => TableX(vramLatch) + 2 * TableY(vramLatch) = camera.base

(* The row of the two stacked nametables that is n pixels below one. *)
RowBelow(table, y, n) ==
    IF y < 240
    THEN <<(table + (y + n) \div 240) % 2, (y + n) % 240>>
    ELSE IF y + n < 256
         THEN <<table, y + n>>
         ELSE <<(table + (y + n - 256) \div 240) % 2, (y + n - 256) % 240>>

(* Line n of a picture shows the row n pixels below the scroll position the *)
(* frame began with, across the border of the nametables, whatever the      *)
(* program writes to $2000 and $2005 meanwhile; and it begins at the column *)
(* the program had asked for when the line before it ended.                 *)
RowsFollowCamera ==
    event = "row" =>
        /\ top # Lost => <<TableY(vramAddress), CoarseY(vramAddress) * 8 + FineY(vramAddress)>>
                             = RowBelow(top[1], top[2], line)
        /\ left # Lost => <<TableX(vramAddress), CoarseX(vramAddress)>> = left

(* The comment in Ppu_updateEndScanlineRegisters: if rendering is enabled,  *)
(* at the end of a scanline bits 10 and 4-0 are copied from the latch.      *)
LineEndCopiesX ==
    [][EndLine /\ Rendering => /\ CoarseX(vramAddress') = CoarseX(vramLatch)
                               /\ TableX(vramAddress') = TableX(vramLatch)]_scrollVars
=============================================================================
