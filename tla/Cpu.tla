-------------------------------- MODULE Cpu --------------------------------
(***************************************************************************)
(* The control flow of a 6502: an instruction is fetched where the program  *)
(* counter is, a call pushes the address of its last byte, and a return     *)
(* goes on behind it.  Instructions are of the kinds Disassembler knows; a  *)
(* branch, an indirect jump and a return to an address that the program     *)
(* pushed itself go where the data say.                                     *)
(***************************************************************************)
EXTENDS Integers, Sequences

CONSTANTS Width   \* per kind, the bytes of an instruction

VARIABLES pc, stack,
          holds,    \* per address, what may be fetched there
          words     \* the words a program computes

cpuVars == <<pc, stack>>

After(i) == pc + Width[i.code]

Fetch(i) ==
    CASE i.code \in {"plain1", "plain2", "access"} ->
            pc' = After(i) /\ UNCHANGED stack
      [] i.code = "head"   -> /\ pc' = After(i)
                              /\ stack' = IF stack = << >> THEN << >> ELSE Tail(stack)
      [] i.code = "branch" -> pc' \in {After(i), i.value} /\ UNCHANGED stack
      [] i.code = "jmp"    -> pc' = i.value /\ UNCHANGED stack
      [] i.code \in {"jmpInd", "tail"} -> pc' \in words /\ UNCHANGED stack
      [] i.code = "jsr"    -> pc' = i.value /\ stack' = <<After(i) - 1>> \o stack
      [] i.code = "stop"   -> IF stack = << >>
                              THEN pc' \in words /\ UNCHANGED stack
                              ELSE pc' = Head(stack) + 1 /\ stack' = Tail(stack)

Next == \E i \in holds[pc] : Fetch(i)
=============================================================================
