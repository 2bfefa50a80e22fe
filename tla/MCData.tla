------------------------------- MODULE MCData -------------------------------
(***************************************************************************)
(* What a program does to its data: accesses at the addresses around every  *)
(* boundary of the memory map, arithmetic, video memory at the edges of     *)
(* pattern tables, nametables and palettes, and sprite memory.  The four    *)
(* share no state: each behaviour is about one of them, so that the run     *)
(* adds their state spaces.  No access of the map depends on the one before *)
(* it, so that the run forgets each before the next.                        *)
(***************************************************************************)
EXTENDS Bus, Alu, VideoMemory, Oam

MCBase ==
    {0, 127, 128, 255, 256, 1792, 1793, 2047, 2048, 8191 - 255, 8191 - 254, 8191}
    \cup 8192 .. 8203 \cup {16383} \cup 16384 .. 16408
    \cup {32767, 32768, 65280, 65281, 65535}
MCIndex == {0, 1, 2, 127, 128, 254, 255}

MCAddress == {8191, 8192, 9216, 10240, 12032, 16128, 16129, 16144, 16161}
MCMirroring == 0 .. 3
MCValue == {0, 1}

VARIABLE subject

MCInit ==
    /\ BusInit /\ AluInit /\ MemoryInit /\ OamInit
    /\ subject \in {"map", "arithmetic", "video", "sprites"}
    /\ subject # "arithmetic" => a = 0
    /\ subject # "video" => mirroring = Horizontal
    /\ subject # "sprites" => spriteRam[0] = 0

MCNext ==
    /\ \/ subject = "map" /\ BusInit /\ BusNext /\ UNCHANGED <<aluVars, memoryVars, oamVars>>
       \/ subject = "map" /\ ~BusInit /\ Access("load", Rejected, RamEnd)
          /\ UNCHANGED <<aluVars, memoryVars, oamVars>>
       \/ subject = "arithmetic" /\ AluNext /\ UNCHANGED <<busVars, memoryVars, oamVars>>
       \/ subject = "video" /\ MemoryNext /\ UNCHANGED <<busVars, aluVars, oamVars>>
       \/ subject = "sprites" /\ OamNext /\ UNCHANGED <<busVars, aluVars, memoryVars>>
    /\ UNCHANGED subject

MCSpec == MCInit /\ [][MCNext]_<<busVars, aluVars, memoryVars, oamVars, subject>>
=============================================================================
