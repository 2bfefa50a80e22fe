----------------------------- MODULE MCPackage ------------------------------
(* The bytes of a package and its description: neither reads the other's    *)
(* state, so a behaviour is about one of them.                              *)
EXTENDS Package, RomFile

MCBankSize == <<11, 5>>
MCOpCodes == {"bad", "stop", "head", "tail", "jsr", "access", "jmp", "branch"}
MCTargets == <<{0, 18, 29, 33, 36, 40}, {0, 10, 16}>>
MCReach == {1}
MCOpByte ==
    [bad |-> 15, stop |-> 6, head |-> 10, tail |-> 12, jsr |-> 2, access |-> 13,
     plain1 |-> 14, plain2 |-> 9, branch |-> 1, jmp |-> 4, jmpInd |-> 11,
     short |-> 5, indexedY |-> 8]
MCDataBytes == {0, 7}
MCForms == {"direct", "indexedY"}

MCHeaders ==
    [prg : 1 .. 3, chr : {1}, ram : {1, 2}, short : BOOLEAN,
     flags6 : SUBSET {0, 1, 2, 3, 4}, flags7 : SUBSET {0, 3, 7},
     flags9 : SUBSET {0}, flags10 : SUBSET {1, 4, 5}]

MCDescriptions ==
    [prg : {<<>>, <<1>>, <<1, 1>>}, chr : {0}, mapper : {{}, {3, 4}},
     mirroring : Mirrorings \cup {"Unknown"}, battery : BOOLEAN,
     tv : TvSystems \cup {"Unknown"}, sram : BOOLEAN]

MCInit ==
    \/ PackageInit /\ header = Nothing /\ jam = Nothing
                   /\ rom = Nothing /\ original = Nothing /\ held = "none"
    \/ RomInit /\ PackageInit /\ banks = 1

MCNext ==
    \/ held = "none" /\ PackageNext /\ UNCHANGED romVars
    \/ RomNext /\ UNCHANGED allVars

MCSpec == MCInit /\ [][MCNext]_<<allVars, romVars>>
=============================================================================
