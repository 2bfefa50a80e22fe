------------------------------ MODULE DataPort ------------------------------
(***************************************************************************)
(* What $2006 and $2007 promise a program: a memory of cells, some of which *)
(* have several addresses, behind a port that moves its address on with     *)
(* every access and delays what it reads by one access, but for palettes.   *)
(***************************************************************************)
EXTENDS Integers

CONSTANTS Address,   \* the addresses a program uses
          Palette,   \* those of palette entries
          Value

VARIABLES address,   \* where the next access goes
          step,      \* by how much an access moves it: 1 or 32
          cellOf,    \* the cell an address means, fixed by the cartridge
          cells,     \* the memory
          buffer,    \* what the next delayed read returns
          returned   \* what the last read returned

vars == <<address, step, cellOf, cells, buffer, returned>>

PaletteShadow == 4096   \* a palette entry hides the cell $1000 below it

Init ==
    /\ address = 0 /\ step = 1
    /\ \A c \in DOMAIN cells : cells[c] = 0
    /\ buffer = 0 /\ returned = 0

SetStep(s) == step' = s /\ UNCHANGED <<address, cellOf, cells, buffer, returned>>

SetAddress(a) == address' = a /\ UNCHANGED <<step, cellOf, cells, buffer, returned>>

Write(v) ==
    /\ cells' = [cells EXCEPT ![cellOf[address]] = v]
    /\ address' = address + step
    /\ UNCHANGED <<step, cellOf, buffer, returned>>

Read ==
    /\ IF address \in Palette
       THEN /\ returned' = cells[cellOf[address]]
            /\ buffer' = cells[cellOf[address - PaletteShadow]]
       ELSE /\ returned' = buffer
            /\ buffer' = cells[cellOf[address]]
    /\ address' = address + step
    /\ UNCHANGED <<step, cellOf, cells>>

Next ==
    \/ \E s \in {1, 32} : SetStep(s)
    \/ \E a \in Address : SetAddress(a)
    \/ address \in Address /\ (Read \/ \E v \in Value : Write(v))

Spec == Init /\ [][Next]_vars
=============================================================================
