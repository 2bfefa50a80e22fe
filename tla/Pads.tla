-------------------------------- MODULE Pads --------------------------------
(***************************************************************************)
(* The controller framework that compile.go generates into every program:   *)
(* rom_set_button_state, called by the runtime's event loop and by a movie, *)
(* padWrite, the store to $4016, and padRead, the load of $4016 and $4017.  *)
(* The generated code keeps a copy of the buttons and an index where the    *)
(* console has a shift register.                                            *)
(***************************************************************************)
EXTENDS Integers

CONSTANTS Pad,          \* pad indexes: 0 .. 1 in the code
          ButtonCount,  \* buttons per pad: 8 in the code
          State,        \* button states: ROM_PAD_STATE_OFF and _ON
          Off,          \* ROM_PAD_STATE_OFF
          Exhausted,    \* the 1 returned when all buttons are reported
          StoreByte     \* the bytes a program stores to $4016

ASSUME PadsAssumption ==
    /\ ButtonCount \in Nat \ {0}
    /\ Off \in State
    /\ StoreByte \subseteq 0 .. 255

Button == 0 .. ButtonCount - 1

VARIABLES padsActual,      \* the buttons as last set by the runtime
          padsReport,      \* the buttons as a scan reports them
          btnReportIndex,  \* per pad, the next button to report
          strobeOn,        \* the last store to $4016 had bit 0 set
          returned         \* what the last padRead returned

vars == <<padsActual, padsReport, btnReportIndex, strobeOn, returned>>

Init ==
    /\ padsActual = [p \in Pad |-> [b \in Button |-> Off]]
    /\ padsReport = [p \in Pad |-> [b \in Button |-> Off]]
    /\ btnReportIndex = [p \in Pad |-> 0]
    /\ strobeOn = FALSE
    /\ returned = Exhausted

-----------------------------------------------------------------------------
(* Wrong variants of the handlers, for mutation testing. *)

SetButtonStateActualOnly(p, b, v) ==
    /\ padsActual' = [padsActual EXCEPT ![p][b] = v]
    /\ UNCHANGED <<padsReport, btnReportIndex, strobeOn, returned>>

PadWriteKeepsIndex(value) ==
    /\ strobeOn' = (value % 2 # 0)
    /\ padsReport' = IF strobeOn' THEN padsActual ELSE padsReport
    /\ UNCHANGED <<padsActual, btnReportIndex, returned>>

ReadButtonUnbounded(p) ==
    /\ returned' = padsReport[p][btnReportIndex[p] % ButtonCount]
    /\ btnReportIndex' =
          [btnReportIndex EXCEPT ![p] = IF strobeOn THEN 0 ELSE (@ + 1) % 256]
    /\ UNCHANGED <<padsActual, padsReport, strobeOn>>

-----------------------------------------------------------------------------
(* rom_set_button_state: while the strobe is on a scan sees the change. *)
SetButtonState(p, b, v) ==
    /\ padsActual' = [padsActual EXCEPT ![p][b] = v]
    /\ padsReport' = IF strobeOn THEN [padsReport EXCEPT ![p][b] = v]
                                 ELSE padsReport
    /\ UNCHANGED <<btnReportIndex, strobeOn, returned>>

(* padWrite: a store to $4016; turning the strobe on starts both scans. *)
PadWrite(value) ==
    /\ strobeOn' = (value % 2 # 0)
    /\ IF strobeOn'
       THEN /\ padsReport' = padsActual
            /\ btnReportIndex' = [p \in Pad |-> 0]
       ELSE UNCHANGED <<padsReport, btnReportIndex>>
    /\ UNCHANGED <<padsActual, returned>>

(* padRead: every button of pad p has been reported. *)
ReadPastEnd(p) ==
    /\ btnReportIndex[p] >= ButtonCount
    /\ returned' = Exhausted
    /\ UNCHANGED <<padsActual, padsReport, btnReportIndex, strobeOn>>

(* padRead: report one button; the index moves only with the strobe off. *)
ReadButton(p) ==
    /\ btnReportIndex[p] < ButtonCount
    /\ returned' = padsReport[p][btnReportIndex[p]]
    /\ btnReportIndex' = [btnReportIndex EXCEPT ![p] = IF strobeOn THEN 0 ELSE @ + 1]
    /\ UNCHANGED <<padsActual, padsReport, strobeOn>>

PadRead(p) == ReadPastEnd(p) \/ ReadButton(p)

Next ==
    \/ \E p \in Pad, b \in Button, v \in State : SetButtonState(p, b, v)
    \/ \E value \in StoreByte : PadWrite(value)
    \/ \E p \in Pad : PadRead(p)

Spec == Init /\ [][Next]_vars

-----------------------------------------------------------------------------
(* The type invariant: an index stops at ButtonCount, so the one-byte index *)
(* of the generated code never wraps and never reads outside padsReport.    *)
TypeOK ==
    /\ padsActual \in [Pad -> [Button -> State]]
    /\ padsReport \in [Pad -> [Button -> State]]
    /\ btnReportIndex \in [Pad -> 0 .. ButtonCount]
    /\ strobeOn \in BOOLEAN
    /\ returned \in State \cup {Exhausted}

(* While the strobe is on, what a scan would report is what the player      *)
(* holds and no scan has begun, however many reads, stores and button       *)
(* events interleaved: the three places that write padsReport and           *)
(* btnReportIndex agree.                                                    *)
StrobeCoherent ==
    strobeOn => /\ padsReport = padsActual
                /\ \A p \in Pad : btnReportIndex[p] = 0

(* The register the console would hold. *)
Register ==
    [p \in Pad |-> [b \in Button |->
        IF btnReportIndex[p] + b \in Button
        THEN padsReport[p][btnReportIndex[p] + b]
        ELSE Exhausted]]

Promise == INSTANCE ShiftRegister
             WITH buttons <- padsActual, latch <- strobeOn,
                  shift <- Register, out <- returned

(* The copies and the index behave as the console's shift register: a scan  *)
(* returns the buttons as they were when the strobe went off, in order, and *)
(* then ones, whatever the player does meanwhile, and the two pads do not   *)
(* disturb each other.                                                      *)
ImplementsShiftRegister == Promise!Spec
=============================================================================
