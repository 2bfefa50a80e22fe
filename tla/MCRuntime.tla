----------------------------- MODULE MCRuntime ------------------------------
(* A small instance of Runtime: a well-behaved program, and one that does   *)
(* everything unusual.                                                      *)
EXTENDS Runtime, TLC

CONSTANTS a, b

MCAddr == {"reset", "nmi", a, b}
MCCode == Permutations({a, b})
MCInstrCycles == {1}
MCPrograms == {{}, Quirk}
=============================================================================
