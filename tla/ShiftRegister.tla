--------------------------- MODULE ShiftRegister ---------------------------
(***************************************************************************)
(* What the controller ports promise to a program: each pad is a parallel-  *)
(* in, serial-out shift register.  While the latch line is high the         *)
(* register follows the buttons; once it is low every read shifts one       *)
(* button out, in order, and Exhausted fills in behind the last one.        *)
(* Pads.tla is shown to implement this specification.                       *)
(***************************************************************************)
EXTENDS Integers

CONSTANTS Pad,          \* the pads
          ButtonCount,  \* buttons per pad
          State,        \* what a button can report
          Off,          \* a released button
          Exhausted     \* what is read after the last button

Button == 0 .. ButtonCount - 1

VARIABLES buttons,  \* buttons[p][b]: the button as the player holds it
          latch,    \* the latch line is high
          shift,    \* shift[p]: the register, the next bit out at 0
          out       \* the value the last read returned

vars == <<buttons, latch, shift, out>>

Init ==
    /\ buttons = [p \in Pad |-> [b \in Button |-> Off]]
    /\ latch = FALSE
    /\ shift = buttons
    /\ out = Exhausted

(* The player presses or releases a button. *)
Press(p, b, v) ==
    /\ buttons' = [buttons EXCEPT ![p][b] = v]
    /\ shift' = IF latch THEN buttons' ELSE shift
    /\ UNCHANGED <<latch, out>>

(* The program drives the latch line. *)
Latch(on) ==
    /\ latch' = on
    /\ shift' = IF on THEN buttons ELSE shift
    /\ UNCHANGED <<buttons, out>>

ShiftedOut(register) ==
    [b \in Button |-> IF b + 1 \in Button THEN register[b + 1] ELSE Exhausted]

(* The program reads pad p, which also clocks its register. *)
Clock(p) ==
    /\ out' = shift[p][0]
    /\ shift' = IF latch THEN shift
                         ELSE [shift EXCEPT ![p] = ShiftedOut(shift[p])]
    /\ UNCHANGED <<buttons, latch>>

Next ==
    \/ \E p \in Pad, b \in Button, v \in State : Press(p, b, v)
    \/ \E on \in BOOLEAN : Latch(on)
    \/ \E p \in Pad : Clock(p)

Spec == Init /\ [][Next]_vars
=============================================================================
