------------------------------ MODULE RomFile --------------------------------
(***************************************************************************)
(* What a ROM says of its cartridge, in its three forms: the header of a    *)
(* file (Load, Save), the fields of a Rom, and the lines of a jam           *)
(* description (disassembleToDirWithJam, AssembleRom).  A ROM may go round  *)
(* through all of them any number of times, and starts as any file or any   *)
(* description.  The banks' contents are Package's.                         *)
(*                                                                          *)
(* A flag byte is the set of the numbers of its bits that are 1.            *)
(***************************************************************************)
EXTENDS Integers, Sequences

CONSTANTS
    Headers,       \* headers a file may have
    Descriptions   \* jam descriptions somebody may write

ASSUME RomFileAssumption ==
    /\ Headers \subseteq
           [prg : Nat, chr : Nat, ram : Nat, short : BOOLEAN,
            flags6 : SUBSET (0 .. 7), flags7 : SUBSET (0 .. 7),
            flags9 : SUBSET (0 .. 7), flags10 : SUBSET (0 .. 7)]
    /\ Descriptions \subseteq
           [prg : Seq(Nat), chr : Nat, mapper : SUBSET (0 .. 7), mirroring : STRING,
            battery : BOOLEAN, tv : STRING, sram : BOOLEAN]

VARIABLES
    held,     \* which form there is: "file", "rom", "jam", or "refused"
    header,    \* of the file
    rom,       \* Rom
    jam,       \* the description; of each prg line, the banks it assembles to
    original   \* history: the first Rom that was read

romVars == <<held, header, rom, jam, original>>

Nothing == << >>

RomInit ==
    /\ rom = Nothing /\ original = Nothing
    /\ \/ held = "file" /\ header \in Headers /\ jam = Nothing
       \/ held = "jam" /\ jam \in Descriptions /\ header = Nothing

Refuse ==
    /\ held' = "refused"
    /\ UNCHANGED <<header, rom, jam, original>>

Gives(r) ==
    /\ held' = "rom" /\ rom' = r
    /\ original' = IF original = Nothing THEN r ELSE original
    /\ UNCHANGED <<header, jam>>

-----------------------------------------------------------------------------
(* Load.  short: the file ends before its banks do. *)

IsUnsupported(h) ==
    \/ h.ram \notin {0, 1}
    \/ 2 \in h.flags6
    \/ {0, 1, 3} \cap h.flags7 # {}
    \/ 0 \in h.flags9
    \/ 5 \in h.flags10

(* Four screens come before bit 0. *)
MirroringOf(h) ==
    IF 3 \in h.flags6 THEN "FourScreenVRAM"
    ELSE IF 0 \in h.flags6 THEN "Horizontal" ELSE "Vertical"

(* The mapper's low nibble is the high one of flags6. *)
RomOf(h) ==
    [prg |-> h.prg, chr |-> h.chr,
     mapper |-> {b - 4 : b \in h.flags6 \cap 4 .. 7} \cup (h.flags7 \cap 4 .. 7),
     mirroring |-> MirroringOf(h),
     battery |-> 1 \in h.flags6,
     tv |-> IF 1 \in h.flags10 THEN "PAL" ELSE "NTSC",
     sram |-> 4 \notin h.flags10]

Load ==
    /\ held = "file"
    /\ IF IsUnsupported(header) \/ header.short THEN Refuse ELSE Gives(RomOf(header))

-----------------------------------------------------------------------------
(* Save                                                                     *)

Bits(b, condition) == IF condition THEN {b} ELSE {}

(* Wrong variants, for mutation testing. *)
TvFlagsOfOneByte(r) ==
    CASE r.tv = "PAL" -> [nine |-> {0}, ten |-> {}]
      [] r.tv = "DualCompatible" -> [nine |-> {}, ten |-> {0}]
      [] OTHER -> [nine |-> {}, ten |-> {}]

SramFlagNextTo(r) == Bits(5, ~r.sram)

TvFlags(r) ==
    CASE r.tv = "PAL" -> [nine |-> {0}, ten |-> {1}]
      [] r.tv = "DualCompatible" -> [nine |-> {}, ten |-> {0, 1}]
      [] OTHER -> [nine |-> {}, ten |-> {}]

SramFlag(r) == Bits(4, ~r.sram)

HeaderOf(r) ==
    [prg |-> r.prg, chr |-> r.chr, ram |-> 0, short |-> FALSE,
     flags6 |-> {b + 4 : b \in r.mapper \cap 0 .. 3}
                   \cup Bits(0, r.mirroring = "Horizontal")
                   \cup Bits(3, r.mirroring = "FourScreenVRAM")
                   \cup Bits(1, r.battery),
     flags7 |-> r.mapper \cap 4 .. 7,
     flags9 |-> TvFlags(r).nine,
     flags10 |-> TvFlags(r).ten \cup SramFlag(r)]

Save ==
    /\ held = "rom"
    /\ held' = "file" /\ header' = HeaderOf(rom)
    /\ UNCHANGED <<rom, jam, original>>

-----------------------------------------------------------------------------
(* The jam description.                                                     *)

(* disassembleToDirWithJam: one prg line is all banks. *)
Describe ==
    /\ held = "rom"
    /\ IF rom.prg \notin 1 .. 2
       THEN Refuse
       ELSE /\ held' = "jam" /\ jam' = [rom EXCEPT !.prg = <<rom.prg>>]
            /\ UNCHANGED <<header, rom, original>>

Mirrorings == {"Horizontal", "Vertical", "FourScreenVRAM"}
TvSystems == {"NTSC", "PAL", "DualCompatible"}

(* AssembleRom: every prg line has to be one bank. *)
AssembleRom ==
    /\ held = "jam"
    /\ IF \/ jam.mirroring \notin Mirrorings \/ jam.tv \notin TvSystems
          \/ \E i \in DOMAIN jam.prg : jam.prg[i] # 1
       THEN Refuse
       ELSE Gives([jam EXCEPT !.prg = Len(jam.prg)])

RomNext ==
    \/ Load
    \/ Save
    \/ Describe
    \/ AssembleRom

RomSpec == RomInit /\ [][RomNext]_romVars

-----------------------------------------------------------------------------
(* A cartridge stays what it is: whatever way a ROM goes through files and  *)
(* descriptions, its mapper, mirroring, battery, RAM, banks and television  *)
(* system are those it was first read with, but for one: a file cannot say  *)
(* "DualCompatible", and that becomes PAL.                                  *)
CartridgeKept ==
    held = "rom" =>
        \/ rom = original
        \/ original.tv = "DualCompatible" /\ rom = [original EXCEPT !.tv = "PAL"]

(* What was read once can be read again, except that Save gives a PAL ROM   *)
(* the bit that Load refuses although Load knows PAL from another, and that *)
(* two banks do not fit one prg line.                                       *)
ReadOnceReadAgain ==
    held = "refused" /\ original # Nothing =>
        original.tv # "NTSC" \/ original.prg # 1
=============================================================================
