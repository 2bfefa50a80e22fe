----------------------------- MODULE FrameClock -----------------------------
(***************************************************************************)
(* What the picture unit promises to the rest of the runtime: a clock of    *)
(* FrameDots dots that never skips or repeats one, a vertical-blank flag    *)
(* raised at one dot and lowered at another, an interrupt request at the    *)
(* same dot when the program asks for it, and a status read that takes the  *)
(* flag down.  PpuTiming.tla is shown to implement it with scanlines and    *)
(* cycles, and Runtime.tla is built on it.                                  *)
(***************************************************************************)
EXTENDS Integers

CONSTANTS FrameDots,   \* dots in a frame
          FirstDot,    \* the dot at which the program starts
          VblankDot,   \* the dot that raises the vertical-blank flag
          ClearDot     \* the dot that lowers it

VARIABLES dot,          \* the next dot of the frame to be drawn
          vblank,       \* the vertical-blank flag of the status register
          suppressed,   \* the last status read hit the very VblankDot
          nmiOnVblank,  \* the program asks for the interrupt
          requested     \* an interrupt is requested and not yet taken

vars == <<dot, vblank, suppressed, nmiOnVblank, requested>>

Init ==
    /\ dot = FirstDot
    /\ vblank = FALSE
    /\ suppressed = FALSE
    /\ nmiOnVblank = FALSE
    /\ requested = FALSE

Tick ==
    /\ dot' = (dot + 1) % FrameDots
    /\ vblank' = CASE dot = VblankDot -> vblank \/ ~suppressed
                   [] dot = ClearDot  -> FALSE
                   [] OTHER           -> vblank
    /\ requested' = (requested \/ (dot = VblankDot /\ nmiOnVblank /\ ~suppressed))
    /\ UNCHANGED <<suppressed, nmiOnVblank>>

ReadStatus ==
    /\ suppressed' = (dot = VblankDot)
    /\ vblank' = (vblank /\ suppressed')
    /\ UNCHANGED <<dot, nmiOnVblank, requested>>

WriteControl(on) ==
    /\ nmiOnVblank' = on
    /\ UNCHANGED <<dot, vblank, suppressed, requested>>

TakeInterrupt ==
    /\ requested
    /\ requested' = FALSE
    /\ UNCHANGED <<dot, vblank, suppressed, nmiOnVblank>>

Next ==
    \/ Tick
    \/ ReadStatus
    \/ \E on \in BOOLEAN : WriteControl(on)
    \/ TakeInterrupt

Spec == Init /\ [][Next]_vars
=============================================================================
