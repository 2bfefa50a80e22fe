-------------------------------- MODULE Oam ---------------------------------
(***************************************************************************)
(* Sprite memory.  It is kept twice: spriteRam, which the program reads,    *)
(* and spriteData, split by field, which the renderer reads.  The compiled  *)
(* store to $4014 writes one byte through $2004 before rom_ppu_write_dma    *)
(* fills the memory from a page.                                            *)
(***************************************************************************)
EXTENDS Integers

CONSTANTS Sprites,  \* 64 on the console
          OamByte

ASSUME OamAssumption == Sprites \in Nat \ {0}

OamSize == 4 * Sprites
Fields == {"yCoordinates", "tiles", "attributes", "xCoordinates"}

VARIABLES spriteRam, spriteRamAddress,
          spriteData   \* per field, per sprite

oamVars == <<spriteRam, spriteRamAddress, spriteData>>

OamInit ==
    \E zero \in OamByte :
        /\ spriteRam = [a \in 0 .. OamSize - 1 |-> zero]
        /\ spriteData = [f \in Fields |-> [i \in 0 .. Sprites - 1 |-> zero]]
        /\ spriteRamAddress = 0

(* The byte of a sprite that holds a field, and back. *)
Offset(f) ==
    CASE f = "yCoordinates" -> 0
      [] f = "tiles" -> 1
      [] f = "attributes" -> 2
      [] OTHER -> 3

FieldOf(a) ==
    CASE a % 4 = 0 -> "yCoordinates"
      [] a % 4 = 1 -> "tiles"
      [] a % 4 = 2 -> "attributes"
      [] OTHER -> "xCoordinates"

-----------------------------------------------------------------------------
(* Wrong variant, for mutation testing. *)
UpdatedShifted(data, a, v) ==
    [data EXCEPT ![FieldOf(a)][((a + 1) \div 4) % Sprites] = v]

-----------------------------------------------------------------------------
(* Ppu_updateBufferedSpriteMem *)
Updated(data, a, v) == [data EXCEPT ![FieldOf(a)][a \div 4] = v]

(* spriteRamAddress++ *)
After(a) == (a + 1) % OamSize

WriteOamAddress(a) ==
    /\ spriteRamAddress' = a
    /\ UNCHANGED <<spriteRam, spriteData>>

WriteOamData(v) ==
    /\ spriteRam' = [spriteRam EXCEPT ![spriteRamAddress] = v]
    /\ spriteData' = Updated(spriteData, spriteRamAddress, v)
    /\ spriteRamAddress' = After(spriteRamAddress)

(* $4014: rom_ppu_write_oamdata(b), then rom_ppu_write_dma(b), where b is    *)
(* the number of the page.  The fill overwrites every byte, the stray b     *)
(* too, but the address stays advanced.                                     *)
WriteDma(page) ==
    /\ spriteRam' = page
    /\ spriteData' = [f \in Fields |-> [i \in 0 .. Sprites - 1 |-> page[4 * i + Offset(f)]]]
    /\ spriteRamAddress' = After(spriteRamAddress)

OamNext ==
    \/ \E a \in 0 .. OamSize - 1 : WriteOamAddress(a)
    \/ \E v \in OamByte : WriteOamData(v)
    \/ \E page \in [0 .. OamSize - 1 -> OamByte] : WriteDma(page)

OamSpec == OamInit /\ [][OamNext]_oamVars

-----------------------------------------------------------------------------
(* The type invariant. *)
OamTypeOK ==
    /\ spriteRam \in [0 .. OamSize - 1 -> OamByte]
    /\ spriteRamAddress \in 0 .. OamSize - 1
    /\ spriteData \in [Fields -> [0 .. Sprites - 1 -> OamByte]]

(* What the renderer draws is what the program reads back, after any mix of *)
(* single bytes, address changes and pages.                                 *)
OamCoherent ==
    \A i \in 0 .. Sprites - 1 :
        /\ spriteData["yCoordinates"][i] = spriteRam[4 * i]
        /\ spriteData["tiles"][i] = spriteRam[4 * i + 1]
        /\ spriteData["attributes"][i] = spriteRam[4 * i + 2]
        /\ spriteData["xCoordinates"][i] = spriteRam[4 * i + 3]
=============================================================================
