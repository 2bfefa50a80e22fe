--------------------------- MODULE MCDisassembler ---------------------------
(***************************************************************************)
(* Two banks of six bytes at 12 .. 23, or one of eight at 24 .. 31 that is  *)
(* mirrored at 16 .. 23; the last four bytes are two vectors.  Operands     *)
(* name an address outside the ROM, the first byte, and 15, which is behind *)
(* a dispatch routine at 12; with one bank, bytes through the mirror and    *)
(* directly.  Branches reach their own operand or one byte past the next    *)
(* instruction.                                                             *)
(***************************************************************************)
EXTENDS Disassembler

MCBankSize == <<8, 6>>
MCOpCodes == {"bad", "head", "tail", "branch", "access", "jmp", "jsr"}
MCTargets == <<{0, 16, 17, 25}, {0, 12, 15}>>
MCReach == {-1, 1}
=============================================================================
