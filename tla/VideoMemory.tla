---------------------------- MODULE VideoMemory -----------------------------
(***************************************************************************)
(* The picture unit's memory behind $2006 and $2007: one array for the      *)
(* address space, two nametables that the cartridge's mirroring spreads     *)
(* over four, palettes, and the read buffer.                                *)
(***************************************************************************)
EXTENDS Integers, FiniteSets

CONSTANTS Address,    \* the addresses a program loads with $2006
          Mirroring,  \* rom_mirroring
          Value       \* bytes, 0 among them

TopAddress == 16383   \* $3fff

ASSUME VideoMemoryAssumption ==
    Address \subseteq 0 .. TopAddress /\ Mirroring \subseteq 0 .. 3 /\ 0 \in Value

VARIABLES vramAddress,
          vramAddressInc,  \* control bit 2
          mirroring,
          logicalTables,   \* the array behind each of the four nametables
          memory,          \* the contents of the arrays
          vramDataBuffer,
          returned         \* what the last read returned

nametables == <<mirroring, logicalTables>>
memoryVars == <<vramAddress, vramAddressInc, nametables, memory, vramDataBuffer, returned>>

Vertical    == 0   \* ROM_MIRRORING_...
Horizontal  == 1
SingleUpper == 2

-----------------------------------------------------------------------------
(* Wrong variants, for mutation testing. *)
SetMirroringSwapped(m) ==
    CASE m = Horizontal -> <<0, 1, 0, 1>>
      [] m = Vertical -> <<0, 0, 1, 1>>
      [] m = SingleUpper -> <<0, 0, 0, 0>>
      [] OTHER -> <<1, 1, 1, 1>>

PaletteEntryPastEnd(a) == <<"palette", IF a % 16 = 0 THEN 0 ELSE a - 16128>>

-----------------------------------------------------------------------------
(* Nametable_setMirroring: nametable0 or nametable1 for each quarter. *)
SetMirroring(m) ==
    CASE m = Horizontal -> <<0, 0, 1, 1>>
      [] m = Vertical -> <<0, 1, 0, 1>>
      [] m = SingleUpper -> <<0, 0, 0, 0>>
      [] OTHER -> <<1, 1, 1, 1>>

(* The element of an array that an address reaches. *)
Vram(a)      == <<"vram", a>>
Nametable(a) == <<"nametable", logicalTables[((a \div 1024) % 4) + 1], a % 1024>>

(* Entry 0 of a sprite palette is entry 0 of the first palette. *)
PaletteEntry(a) == <<"palette", IF a % 16 = 0 THEN 0 ELSE a % 32>>

InNametables(a) == 8192 <= a /\ a < 12288   \* $2000 .. $2fff

(* Ppu_writeMirroredVram *)
MirroredWrite(a) == IF a >= 16128 THEN PaletteEntry(a) ELSE Nametable(a - 4096)

(* Where Ppu_writeData stores; $3000 itself is not taken for a mirror. *)
WritePlace(a) ==
    CASE a > 12288 -> MirroredWrite(a)
      [] InNametables(a) -> Nametable(a)
      [] OTHER -> Vram(a)

(* Where Ppu_readData fills the buffer from. *)
BufferPlace(a) == IF InNametables(a) THEN Nametable(a) ELSE Vram(a)

(* memory holds the elements a program writes; the others stay 0. *)
At(place) == IF place \in DOMAIN memory THEN memory[place] ELSE 0

IncrementedAddress == vramAddress + (IF vramAddressInc = 1 THEN 32 ELSE 1)

MemoryInit ==
    /\ mirroring \in Mirroring /\ logicalTables = SetMirroring(mirroring)
    /\ vramAddress = 0 /\ vramAddressInc = 0
    /\ memory = [place \in {WritePlace(a) : a \in Address} |-> 0]
    /\ vramDataBuffer = 0 /\ returned = 0

-----------------------------------------------------------------------------
WriteControlIncrement(inc) ==
    /\ vramAddressInc' = inc
    /\ UNCHANGED <<vramAddress, nametables, memory, vramDataBuffer, returned>>

(* Two writes of $2006. *)
WriteAddress(a) ==
    /\ vramAddress' = a
    /\ UNCHANGED <<vramAddressInc, nametables, memory, vramDataBuffer, returned>>

InUse == vramAddress \in Address   \* bound: the addresses of the instance

WriteData(v) ==
    /\ InUse
    /\ memory' = [memory EXCEPT ![WritePlace(vramAddress)] = v]
    /\ vramAddress' = IncrementedAddress
    /\ UNCHANGED <<vramAddressInc, nametables, vramDataBuffer, returned>>

(* A palette is read at once, and the buffer is filled from below it. *)
ReadData ==
    /\ InUse
    /\ IF vramAddress < 16128
       THEN /\ returned' = vramDataBuffer
            /\ vramDataBuffer' = At(BufferPlace(vramAddress))
       ELSE /\ returned' = At(PaletteEntry(vramAddress))
            /\ vramDataBuffer' = At(BufferPlace(vramAddress - 4096))
    /\ vramAddress' = IncrementedAddress
    /\ UNCHANGED <<vramAddressInc, nametables, memory>>

MemoryNext ==
    \/ \E inc \in {0, 1} : WriteControlIncrement(inc)
    \/ \E a \in Address : WriteAddress(a)
    \/ \E v \in Value : WriteData(v)
    \/ ReadData

MemorySpec == MemoryInit /\ [][MemoryNext]_memoryVars

-----------------------------------------------------------------------------
VramSize == 65535
NametableSize == 1024

InArray(place) ==
    /\ place[1] = "vram" => place[2] \in 0 .. VramSize - 1
    /\ place[1] = "nametable" => place[2] \in {0, 1} /\ place[3] \in 0 .. NametableSize - 1
    /\ place[1] = "palette" => place[2] \in 0 .. 31

(* The type invariant: every access stays inside its array. *)
MemoryTypeOK ==
    /\ mirroring \in Mirroring
    /\ vramAddress \in Nat /\ vramAddressInc \in {0, 1}
    /\ logicalTables \in [1 .. 4 -> {0, 1}]
    /\ \A place \in DOMAIN memory : memory[place] \in Value /\ InArray(place)
    /\ vramDataBuffer \in Value /\ returned \in Value

-----------------------------------------------------------------------------
(* The console's own account of which addresses are one cell: a vertical    *)
(* arrangement repeats the nametables downwards, a horizontal one           *)
(* sideways, and the palettes repeat every 32 bytes and share entry 0.      *)
TableOf(a) ==
    CASE mirroring = Vertical -> (a \div 1024) % 2
      [] mirroring = Horizontal -> (a \div 2048) % 2
      [] mirroring = SingleUpper -> 0
      [] OTHER -> 1

CellOf(a) ==
    CASE a < 8192 -> <<"vram", a>>
      [] InNametables(a) -> <<"nametable", TableOf(a), a % 1024>>
      [] OTHER -> <<"palette", IF a % 16 = 0 THEN 0 ELSE a % 32>>

Palette == {a \in Address : a >= 16128}
Shown   == Address \cup {a - 4096 : a \in Palette}

(* A program that keeps to pattern tables, nametables and palettes sees the *)
(* console's memory: whatever it wrote last through any address of a cell   *)
(* is what it reads through any other, one read late or, for a palette, at  *)
(* once, in any order of accesses, address changes and steps.               *)
Port == INSTANCE DataPort WITH
    address  <- vramAddress,
    step     <- IF vramAddressInc = 1 THEN 32 ELSE 1,
    cellOf   <- [a \in Shown |-> CellOf(a)],
    cells    <- [c \in {CellOf(a) : a \in Shown} |-> At(c)],
    buffer   <- vramDataBuffer,
    returned <- returned

ImplementsDataPort == Port!Spec
=============================================================================
