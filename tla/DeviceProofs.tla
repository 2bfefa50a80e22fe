---------------------------- MODULE DeviceProofs ----------------------------
(***************************************************************************)
(* Proofs about the devices of the console.  The controller framework, for  *)
(* any number of pads and buttons, is the console's shift register.  The    *)
(* replay of a movie keeps within its types, is prompt and is fixed by the  *)
(* cycle counter, for every movie, sorted or not, every set of instruction  *)
(* lengths and every stall.  A cartridge stays what it is through any       *)
(* number of files and descriptions, whatever its header or its first       *)
(* description says.                                                        *)
(*                                                                          *)
(* The picture unit's address registers, for pictures of any height and     *)
(* every byte the program may write: an address below 32768 is five fields  *)
(* in one way only, every write and every movement of the raster is a       *)
(* change of fields, and so the row the raster is on is the one the program *)
(* asked for, moved down once a line.                                       *)
(***************************************************************************)
EXTENDS Pads, Movie, RomFile, Scroll, WellFoundedInduction, TLAPS

(* The pads' type invariant, by induction on the steps of the specification. *)
THEOREM PadsTypeCorrect == Spec => []TypeOK
<1>1. Init => TypeOK
  <2>1. 0 \in 0 .. ButtonCount /\ Off \in State
    BY PadsAssumption
  <2>2. [b \in Button |-> Off] \in [Button -> State]
    BY <2>1
  <2> QED
    BY <2>1, <2>2 DEF Init, TypeOK
<1>2. TypeOK /\ [Next]_vars => TypeOK'
  <2> SUFFICES ASSUME TypeOK, [Next]_vars PROVE TypeOK'
    OBVIOUS
  <2>1. ASSUME NEW p \in Pad, NEW b \in Button, NEW v \in State,
               SetButtonState(p, b, v)
        PROVE  TypeOK'
    BY <2>1 DEF TypeOK, SetButtonState
  <2>2. ASSUME NEW value \in StoreByte, PadWrite(value)
        PROVE  TypeOK'
    BY <2>2, PadsAssumption DEF TypeOK, PadWrite
  <2>3. ASSUME NEW p \in Pad, ReadPastEnd(p) PROVE TypeOK'
    BY <2>3 DEF TypeOK, ReadPastEnd
  <2>4. ASSUME NEW p \in Pad, ReadButton(p) PROVE TypeOK'
    <3>1. btnReportIndex[p] \in Button
      BY <2>4, PadsAssumption DEF TypeOK, ReadButton, Button
    <3> QED
      BY <2>4, <3>1, PadsAssumption DEF TypeOK, ReadButton, Button
  <2>5. CASE UNCHANGED vars
    BY <2>5 DEF TypeOK, vars
  <2> QED
    BY <2>1, <2>2, <2>3, <2>4, <2>5 DEF Next, PadRead
<1> QED
  BY <1>1, <1>2, PTL DEF Spec

-----------------------------------------------------------------------------
(* While the strobe is on, both copies of the buttons agree and no scan has *)
(* begun, whatever padWrite, padRead and rom_set_button_state interleave.   *)
THEOREM StrobeIsCoherent == Spec => []StrobeCoherent
<1>1. Init => StrobeCoherent
  BY DEF Init, StrobeCoherent
<1>2. TypeOK /\ StrobeCoherent /\ [Next]_vars => StrobeCoherent'
  <2> SUFFICES ASSUME TypeOK, StrobeCoherent, [Next]_vars
               PROVE  StrobeCoherent'
    OBVIOUS
  <2>1. ASSUME NEW p \in Pad, NEW b \in Button, NEW v \in State,
               SetButtonState(p, b, v)
        PROVE  StrobeCoherent'
    BY <2>1 DEF StrobeCoherent, SetButtonState
  <2>2. ASSUME NEW value \in StoreByte, PadWrite(value)
        PROVE  StrobeCoherent'
    BY <2>2 DEF StrobeCoherent, PadWrite
  <2>3. ASSUME NEW p \in Pad, PadRead(p) PROVE StrobeCoherent'
    BY <2>3 DEF StrobeCoherent, PadRead, ReadPastEnd, ReadButton, TypeOK
  <2>4. CASE UNCHANGED vars
    BY <2>4 DEF StrobeCoherent, vars
  <2> QED
    BY <2>1, <2>2, <2>3, <2>4 DEF Next
<1> QED
  BY <1>1, <1>2, PadsTypeCorrect, PTL DEF Spec

-----------------------------------------------------------------------------
(* What the generated code would hold in the console's register when no     *)
(* scan has begun: the report itself.                                       *)
LEMMA RegisterAtStart ==
  ASSUME TypeOK, \A p \in Pad : btnReportIndex[p] = 0
  PROVE  Register = padsReport
  BY PadsAssumption DEF TypeOK, Register, Button

(* Reading a button moves the register one place, and only that pad's. *)
LEMMA ReadShiftsRegister ==
  ASSUME TypeOK, ~strobeOn, NEW p \in Pad, ReadButton(p)
  PROVE  Register' = [Register EXCEPT ![p] = Promise!ShiftedOut(Register[p])]
<1>1. ASSUME NEW q \in Pad, NEW b \in Button
      PROVE  Register'[q][b] =
                [Register EXCEPT ![p] = Promise!ShiftedOut(Register[p])][q][b]
  <2>1. CASE q # p
    BY <1>1, <2>1 DEF ReadButton, TypeOK, Register
  <2>2. CASE q = p
    <3>1. btnReportIndex'[p] = btnReportIndex[p] + 1 /\ padsReport' = padsReport
      BY DEF ReadButton, TypeOK
    <3>2. btnReportIndex[p] \in Nat
      BY PadsAssumption DEF TypeOK
    <3> QED
      BY <1>1, <2>2, <3>1, <3>2, PadsAssumption
      DEF Register, Promise!ShiftedOut, Promise!Button, Button
  <2> QED
    BY <2>1, <2>2
<1> QED
  BY <1>1 DEF Register, Promise!ShiftedOut, Promise!Button, Button

(* The buttons' copies and the report index implement the shift register of *)
(* the console, whatever the interleaving of reads, strobes and button      *)
(* events.                                                                  *)
THEOREM PadsRefineShiftRegister == Spec => ImplementsShiftRegister
<1>1. Init => Promise!Init
  BY PadsAssumption DEF Init, Promise!Init, Register, Button, Promise!Button
<1>2. TypeOK /\ StrobeCoherent /\ [Next]_vars => [Promise!Next]_(Promise!vars)
  <2> SUFFICES ASSUME TypeOK, StrobeCoherent, [Next]_vars
               PROVE  [Promise!Next]_(Promise!vars)
    OBVIOUS
  <2>1. ASSUME NEW p \in Pad, NEW b \in Button, NEW v \in State,
               SetButtonState(p, b, v)
        PROVE  Promise!Press(p, b, v)
    <3>1. CASE strobeOn
      <4>1. TypeOK' /\ \A q \in Pad : btnReportIndex'[q] = 0
        BY <2>1, <3>1 DEF SetButtonState, TypeOK, StrobeCoherent
      <4>2. padsReport' = padsActual'
        BY <2>1, <3>1 DEF SetButtonState, StrobeCoherent
      <4>3. Register' = padsReport'
        BY <4>1, PadsAssumption DEF TypeOK, Register, Button
      <4> QED
        BY <2>1, <3>1, <4>2, <4>3 DEF SetButtonState, Promise!Press
    <3>2. CASE ~strobeOn
      <4>1. Register' = Register
        BY <2>1, <3>2 DEF SetButtonState, Register
      <4> QED
        BY <2>1, <3>2, <4>1 DEF SetButtonState, Promise!Press
    <3> QED
      BY <3>1, <3>2
  <2>2. ASSUME NEW value \in StoreByte, PadWrite(value)
        PROVE  \E on \in BOOLEAN : Promise!Latch(on)
    <3>1. strobeOn' \in BOOLEAN
      BY <2>2 DEF PadWrite
    <3>2. CASE strobeOn'
      <4>1. Register' = padsActual
        BY <2>2, <3>2, PadsAssumption DEF PadWrite, TypeOK, Register, Button
      <4> QED
        BY <2>2, <3>1, <3>2, <4>1 DEF PadWrite, Promise!Latch
    <3>3. CASE ~strobeOn'
      <4>1. Register' = Register
        BY <2>2, <3>3 DEF PadWrite, Register
      <4> QED
        BY <2>2, <3>1, <3>3, <4>1 DEF PadWrite, Promise!Latch
    <3> QED
      BY <3>2, <3>3
  <2>3. ASSUME NEW p \in Pad, ReadPastEnd(p)
        PROVE  Promise!Clock(p)
    <3>1. ~strobeOn
      BY <2>3, PadsAssumption DEF ReadPastEnd, StrobeCoherent
    <3>2. \A b \in Button : btnReportIndex[p] + b \notin Button
      BY <2>3, PadsAssumption DEF ReadPastEnd, TypeOK, Button
    <3>3. Register[p] = [b \in Button |-> Exhausted]
      BY <3>2 DEF Register
    <3>4. Register[p][0] = Exhausted
      BY <3>3, PadsAssumption DEF Button
    <3>5. Promise!ShiftedOut(Register[p]) = Register[p]
      BY <3>3 DEF Promise!ShiftedOut, Promise!Button, Button
    <3>6. [Register EXCEPT ![p] = Register[p]] = Register
      BY DEF Register
    <3>7. Register' = Register
      BY <2>3 DEF ReadPastEnd, Register
    <3> QED
      BY <2>3, <3>1, <3>4, <3>5, <3>6, <3>7 DEF ReadPastEnd, Promise!Clock
  <2>4. ASSUME NEW p \in Pad, ReadButton(p)
        PROVE  Promise!Clock(p)
    <3>1. returned' = Register[p][0]
      BY <2>4, PadsAssumption DEF ReadButton, TypeOK, Register, Button
    <3>2. CASE strobeOn
      <4>1. btnReportIndex' = btnReportIndex
        BY <2>4, <3>2 DEF ReadButton, StrobeCoherent, TypeOK
      <4>2. Register' = Register
        BY <2>4, <4>1 DEF ReadButton, Register
      <4> QED
        BY <2>4, <3>1, <3>2, <4>2 DEF ReadButton, Promise!Clock
    <3>3. CASE ~strobeOn
      BY <2>4, <3>1, <3>3, ReadShiftsRegister DEF ReadButton, Promise!Clock
    <3> QED
      BY <3>2, <3>3
  <2>5. CASE UNCHANGED vars
    BY <2>5 DEF vars, Promise!vars, Register
  <2> QED
    BY <2>1, <2>2, <2>3, <2>4, <2>5
    DEF Next, PadRead, Promise!Next, Promise!Button, Button
<1> QED
  BY <1>1, <1>2, PadsTypeCorrect, StrobeIsCoherent, PTL
  DEF Spec, ImplementsShiftRegister, Promise!Spec

-----------------------------------------------------------------------------
(* The replay of a movie. *)
Replayable == [cycle : Nat, button : MovieButton, state : MovieState]

(* How far the cycle counter may be ahead of the last poll.                 *)
ClockInv ==
    /\ cycleIndex \in Nat /\ polledAt \in Int /\ polledAt <= cycleIndex
    /\ cycles \in Nat /\ cycleIndex <= MaxCycle
    /\ phase \in {"events", "movie", "step"} =>
           cycles \in InstrCycles /\ cycleIndex + cycles <= MaxCycle
    /\ phase = "program" => \E n \in InstrCycles : cycleIndex <= polledAt + n
    /\ phase \in {"events", "movie"} =>
           \E n \in InstrCycles : cycleIndex <= polledAt + n + DmaCycles
    /\ phase = "step" => cycleIndex = polledAt

(* The i-th entry was taken when it and all before it were due, by the      *)
(* first poll at which they were.                                           *)
TakenInTime(i) ==
    /\ \A k \in 1 .. i : movie[k].cycle <= replayedAt[i]
    /\ \E n \in InstrCycles, k \in 1 .. i : replayedAt[i] < movie[k].cycle + n + DmaCycles

(* The next entry, or one before it in the file, was not due at the last    *)
(* poll.                                                                    *)
NotYetDue ==
    frameIndex < Len(movie) => \E j \in 1 .. frameIndex + 1 : movie[j].cycle > polledAt

ReplayInv ==
    Loaded =>
        /\ movie \in Seq(Replayable)
        /\ frameIndex \in 0 .. Len(movie)
        /\ NotYetDue
        /\ \A i \in 1 .. frameIndex : replayedAt[i] <= cycleIndex /\ TakenInTime(i)

ShapeInv ==
    /\ movie \in MovieSet \cup {NoMovie}
    /\ frameIndex \in Nat
    /\ replayedAt \in Seq(Nat) /\ Len(replayedAt) = frameIndex
    /\ buttons \in [MovieButton -> MovieState]
    /\ phase \in {"program", "events", "movie", "step", "exited"}

MovieInv == ClockInv /\ ShapeInv /\ ReplayInv

-----------------------------------------------------------------------------
LEMMA Lengths ==
    /\ \A n \in InstrCycles : n \in Nat /\ n > 0
    /\ InstrCycles # {}
    /\ DmaCycles \in Nat /\ MaxCycle \in Nat
<1>1. InstrCycles \subseteq Nat \ {0}
  BY MovieAssumption
<1>2. \A n \in InstrCycles : n \in Nat /\ n > 0
  BY <1>1
<1> QED
  BY <1>2, MovieAssumption

LEMMA CycleIn ==
    ASSUME NEW m \in Seq(Replayable), NEW n \in 0 .. Len(m)
    PROVE  \A k \in 1 .. n : m[k] \in Replayable /\ m[k].cycle \in Nat
<1> SUFFICES ASSUME NEW k \in 1 .. n
             PROVE  m[k] \in Replayable /\ m[k].cycle \in Nat
  OBVIOUS
<1>1. k \in 1 .. Len(m)
  OBVIOUS
<1>2. m[k] \in Replayable
  BY <1>1
<1> QED
  BY <1>2 DEF Replayable

LEMMA InitMovie == MovieInit => MovieInv
<1> SUFFICES ASSUME MovieInit PROVE MovieInv
  OBVIOUS
<1>1. ClockInv
  <2>1. PICK n \in InstrCycles : n \in Nat /\ n > 0
    BY Lengths
  <2> QED
    BY <2>1, Lengths DEF MovieInit, ClockInv
<1>2. ShapeInv
  BY MovieAssumption DEF MovieInit, ShapeInv
<1>3. ReplayInv
  <2> SUFFICES ASSUME Loaded PROVE ReplayInv
    BY DEF ReplayInv
  <2>1. movie \in Seq(Replayable)
    BY MovieAssumption DEF MovieInit, Loaded, Replayable
  <2>2. ASSUME 0 < Len(movie) PROVE movie[1].cycle > -1
    <3>1. Len(movie) \in 0 .. Len(movie) /\ 1 \in 1 .. Len(movie)
      BY <2>1, <2>2
    <3>2. movie[1].cycle \in Nat
      BY <2>1, <3>1, CycleIn
    <3> QED
      BY <3>2
  <2> QED
    BY <2>1, <2>2 DEF MovieInit, ReplayInv, NotYetDue
<1> QED
  BY <1>1, <1>2, <1>3 DEF MovieInv

(* A step that replays nothing and polls nothing.                           *)
LEMMA KeepsReplay ==
    ASSUME ReplayInv, ClockInv, ShapeInv, cycleIndex' \in Nat, cycleIndex' >= cycleIndex,
           UNCHANGED <<movie, frameIndex, polledAt, replayedAt>>
    PROVE  ReplayInv'
<1> SUFFICES ASSUME Loaded PROVE ReplayInv'
  BY DEF ReplayInv, Loaded
<1>1. \A i \in 1 .. frameIndex : TakenInTime(i) => TakenInTime(i)'
  BY DEF TakenInTime
<1>2. NotYetDue'
  BY DEF NotYetDue, ReplayInv
<1>3. \A i \in 1 .. frameIndex : replayedAt[i] <= cycleIndex'
  BY DEF ReplayInv, ClockInv, ShapeInv
<1> QED
  BY <1>1, <1>2, <1>3 DEF ReplayInv

LEMMA ProgramStep ==
    ASSUME MovieInv, NEW n \in InstrCycles, CallCycle(n) \/ StoreDma(n)
    PROVE  MovieInv'
<1>1. n \in Nat /\ DmaCycles \in Nat /\ MaxCycle \in Nat
  BY MovieAssumption
<1>2. PICK m \in InstrCycles : m \in Nat /\ cycleIndex <= polledAt + m
  BY MovieAssumption DEF MovieInv, ClockInv, CallCycle, StoreDma
<1>3. /\ cycleIndex' \in {cycleIndex, cycleIndex + DmaCycles}
      /\ cycleIndex' + n <= MaxCycle /\ cycles' = n /\ phase' = "events"
      /\ UNCHANGED <<movie, frameIndex, buttons, polledAt, replayedAt>>
  BY DEF CallCycle, StoreDma, MovieInv, ClockInv
<1>4. ClockInv'
  <2>1. cycleIndex \in Nat /\ polledAt \in Int /\ polledAt <= cycleIndex
    BY DEF MovieInv, ClockInv
  <2>2. /\ cycleIndex' \in Nat /\ polledAt' \in Int /\ polledAt' <= cycleIndex'
        /\ cycles' \in Nat /\ cycleIndex' <= MaxCycle
        /\ cycles' \in InstrCycles /\ cycleIndex' + cycles' <= MaxCycle
    <3>1. cycleIndex' \in Nat /\ cycleIndex' >= cycleIndex
      BY <1>1, <1>3, <2>1
    <3>2. cycleIndex' + n <= MaxCycle
      BY <1>3
    <3>3. cycleIndex' <= MaxCycle
      <4>1. \A a, b, c \in Nat : a + b <= c => a <= c
        OBVIOUS
      <4> QED
        BY <3>1, <3>2, <1>1, <4>1
    <3>4. polledAt <= cycleIndex'
      BY <3>1, <2>1
    <3> QED
      BY <3>1, <3>2, <3>3, <3>4, <1>1, <1>3, <2>1
  <2>3. cycleIndex' <= polledAt' + m + DmaCycles
    BY <1>1, <1>2, <1>3, <2>1
  <2>4. phase' \notin {"program", "step"}
    BY <1>3
  <2> QED
    BY <1>2, <2>2, <2>3, <2>4 DEF ClockInv
<1>5. ShapeInv'
  BY <1>3 DEF MovieInv, ShapeInv
<1>6. ReplayInv'
  BY <1>1, <1>3, <1>4, KeepsReplay DEF MovieInv, ClockInv
<1> QED
  BY <1>4, <1>5, <1>6 DEF MovieInv

LEMMA EventStep ==
    ASSUME MovieInv,
           (\E b \in KeyButton, s \in MovieState : Key(b, s)) \/ QuitEvent \/ NoMoreEvents
    PROVE  MovieInv'
<1>1. /\ phase = "events" /\ phase' \in {"events", "exited", "movie"}
      /\ UNCHANGED <<movie, frameIndex, cycleIndex, cycles, polledAt, replayedAt>>
  BY DEF Key, QuitEvent, NoMoreEvents
<1>2. ClockInv'
  BY <1>1 DEF MovieInv, ClockInv
<1>3. buttons' \in [MovieButton -> MovieState]
  BY MovieAssumption DEF MovieInv, ShapeInv, Key, QuitEvent, NoMoreEvents
<1>4. ShapeInv'
  BY <1>1, <1>3 DEF MovieInv, ShapeInv
<1>5. ReplayInv'
  BY <1>1, KeepsReplay DEF MovieInv, ClockInv
<1> QED
  BY <1>2, <1>4, <1>5 DEF MovieInv

LEMMA StepStep ==
    ASSUME MovieInv, Step PROVE MovieInv'
<1>1. cycles \in Nat /\ cycleIndex \in Nat
  BY DEF MovieInv, ClockInv
<1>2. ClockInv'
  BY MovieAssumption DEF MovieInv, ClockInv, Step
<1>3. ShapeInv'
  BY DEF MovieInv, ShapeInv, Step
<1>4. ReplayInv'
  BY <1>1, KeepsReplay DEF MovieInv, Step
<1> QED
  BY <1>2, <1>3, <1>4 DEF MovieInv

(* The end of a poll leaves the next entry undue.                           *)
LEMMA DoneStep ==
    ASSUME MovieInv, MovieDone PROVE MovieInv'
<1>1. ClockInv'
  BY DEF MovieInv, ClockInv, MovieDone
<1>2. ShapeInv'
  BY DEF MovieInv, ShapeInv, MovieDone
<1>3. ReplayInv'
  <2> SUFFICES ASSUME Loaded PROVE ReplayInv'
    BY DEF ReplayInv, Loaded, MovieDone
  <2>1. UNCHANGED <<movie, frameIndex, cycleIndex, replayedAt>> /\ polledAt' = cycleIndex
    BY DEF MovieDone
  <2>2. \A i \in 1 .. frameIndex : TakenInTime(i) => TakenInTime(i)'
    BY <2>1 DEF TakenInTime
  <2>3. NotYetDue'
    <3> SUFFICES ASSUME frameIndex < Len(movie)
                 PROVE  \E j \in 1 .. frameIndex + 1 : movie[j].cycle > cycleIndex
      BY <2>1 DEF NotYetDue
    <3>1. movie[frameIndex + 1].cycle \in Nat
      <4>1. /\ movie \in Seq(Replayable) /\ frameIndex + 1 \in 1 .. frameIndex + 1
            /\ frameIndex + 1 \in 0 .. Len(movie)
        BY DEF MovieInv, ReplayInv, ShapeInv
      <4> QED
        BY <4>1, CycleIn
    <3>2. movie[frameIndex + 1].cycle > cycleIndex
      BY <3>1 DEF MovieDone, EntryDue, MovieInv, ClockInv
    <3>3. frameIndex + 1 \in 1 .. frameIndex + 1
      BY DEF MovieInv, ShapeInv
    <3> QED
      BY <3>2, <3>3
  <2> QED
    BY <2>1, <2>2, <2>3 DEF MovieInv, ReplayInv
<1> QED
  BY <1>1, <1>2, <1>3 DEF MovieInv

(* What is replayed now was not due at the last poll.                       *)
LEMMA ReplayStep ==
    ASSUME MovieInv, ReplayEntry PROVE MovieInv'
<1>0. PICK next : next = frameIndex + 1
  OBVIOUS
<1>1. /\ Loaded /\ frameIndex < Len(movie) /\ movie \in Seq(Replayable)
      /\ frameIndex \in Nat /\ next \in 1 .. Len(movie) /\ movie[next] \in Replayable
  <2>1. /\ Loaded /\ frameIndex < Len(movie) /\ movie \in Seq(Replayable)
        /\ frameIndex \in Nat
    BY DEF ReplayEntry, EntryDue, MovieInv, ShapeInv, ReplayInv
  <2>2. next \in 1 .. Len(movie) /\ next \in 1 .. next /\ next \in 0 .. Len(movie)
    BY <1>0, <2>1
  <2> QED
    BY <2>1, <2>2, CycleIn
<1>2. /\ frameIndex' = next /\ replayedAt' = Append(replayedAt, cycleIndex)
      /\ phase = "movie" /\ movie[next].cycle <= cycleIndex
      /\ UNCHANGED <<movie, cycleIndex, phase, cycles, polledAt>>
  <2>1. movie[next].cycle \in Nat
    BY <1>1 DEF Replayable
  <2> QED
    BY <1>0, <2>1 DEF ReplayEntry, EntryDue
<1>3. replayedAt \in Seq(Nat) /\ Len(replayedAt) = frameIndex /\ cycleIndex \in Nat
  BY DEF MovieInv, ShapeInv, ClockInv
<1>4. /\ \A k \in 1 .. next : movie[k].cycle \in Nat
      /\ \A k \in 1 .. frameIndex : movie[k].cycle \in Nat
  <2>1. next \in 0 .. Len(movie) /\ frameIndex \in 0 .. Len(movie)
    <3>1. Len(movie) \in Nat
      BY <1>1
    <3> QED
      BY <1>0, <1>1, <3>1
  <2> QED
    BY <1>1, <2>1, CycleIn
<1>5. ClockInv'
  BY <1>2 DEF MovieInv, ClockInv
<1>6. ShapeInv'
  <2>1. buttons' \in [MovieButton -> MovieState]
    <3>1. /\ buttons \in [MovieButton -> MovieState]
          /\ movie[next].button \in MovieButton /\ movie[next].state \in MovieState
      BY <1>1 DEF MovieInv, ShapeInv, Replayable
    <3>2. buttons' = [buttons EXCEPT ![movie[next].button] = movie[next].state]
      BY <1>0 DEF ReplayEntry
    <3> QED
      BY <3>1, <3>2
  <2>2. replayedAt' \in Seq(Nat) /\ Len(replayedAt') = next
    BY <1>0, <1>1, <1>2, <1>3
  <2>3. next \in Nat
    BY <1>0, <1>1
  <2> QED
    BY <1>2, <2>1, <2>2, <2>3 DEF MovieInv, ShapeInv
<1>7. ReplayInv'
  <2>1. /\ replayedAt'[next] = cycleIndex
        /\ \A i \in 1 .. frameIndex : replayedAt'[i] = replayedAt[i]
    BY <1>0, <1>2, <1>3
  <2>2. \A i \in 1 .. frameIndex : replayedAt'[i] <= cycleIndex /\ TakenInTime(i)'
    BY <1>0, <1>1, <1>2, <2>1 DEF MovieInv, ReplayInv, TakenInTime
  <2>3. \A k \in 1 .. next : movie[k].cycle \in Nat /\ movie[k].cycle <= cycleIndex
    <3>1. \A k \in 1 .. frameIndex : movie[k].cycle <= cycleIndex
      <4> SUFFICES ASSUME NEW k \in 1 .. frameIndex PROVE movie[k].cycle <= cycleIndex
        OBVIOUS
      <4>1. movie[k].cycle <= replayedAt[k] /\ replayedAt[k] <= cycleIndex
        BY <1>1 DEF MovieInv, ReplayInv, TakenInTime
      <4>2. movie[k].cycle \in Nat /\ replayedAt[k] \in Nat
        BY <1>0, <1>1, <1>3, <1>4
      <4> QED
        BY <4>1, <4>2, <1>3
    <3>2. \A k \in 1 .. next : movie[k].cycle \in Nat
      BY <1>4
    <3> QED
      BY <1>0, <1>1, <1>2, <3>1, <3>2
  <2>4. \E n \in InstrCycles, k \in 1 .. next : cycleIndex < movie[k].cycle + n + DmaCycles
    <3>1. PICK n \in InstrCycles : cycleIndex <= polledAt + n + DmaCycles
      BY <1>2 DEF MovieInv, ClockInv
    <3>2. PICK k \in 1 .. next : movie[k].cycle > polledAt
      BY <1>0, <1>1 DEF MovieInv, ReplayInv, NotYetDue
    <3>3. n \in Nat /\ DmaCycles \in Nat /\ polledAt \in Int
      BY MovieAssumption DEF MovieInv, ClockInv
    <3>4. movie[k].cycle \in Nat
      BY <2>3
    <3>5. cycleIndex < movie[k].cycle + n + DmaCycles
      BY <3>1, <3>2, <3>3, <3>4, <1>3
    <3> QED
      BY <3>5
  <2>6. TakenInTime(next)'
    BY <2>1, <2>3, <2>4, <1>2 DEF TakenInTime
  <2>7. NotYetDue'
    BY <1>0, <1>1, <1>2 DEF MovieInv, ReplayInv, NotYetDue
  <2> QED
    BY <1>0, <1>1, <1>2, <1>3, <2>1, <2>2, <2>6, <2>7 DEF ReplayInv
<1> QED
  BY <1>5, <1>6, <1>7 DEF MovieInv

LEMMA NextMovie == MovieInv /\ [MovieNext]_movieVars => MovieInv'
<1> SUFFICES ASSUME MovieInv, [MovieNext]_movieVars PROVE MovieInv'
  OBVIOUS
<1>1. CASE UNCHANGED movieVars
  BY <1>1 DEF movieVars, MovieInv, ClockInv, ShapeInv, ReplayInv, Loaded, NotYetDue,
              TakenInTime
<1>2. CASE Program
  BY <1>2, ProgramStep DEF Program
<1>3. CASE RomCycle
  BY <1>3, EventStep, ReplayStep, DoneStep, StepStep DEF RomCycle
<1> QED
  BY <1>1, <1>2, <1>3 DEF MovieNext

-----------------------------------------------------------------------------
(* The replay stays within the movie and within the pads.                   *)
THEOREM MovieTypeCorrect == MovieSpec => []MovieTypeOK
<1>1. MovieInv => MovieTypeOK
  <2> SUFFICES ASSUME MovieInv PROVE MovieTypeOK
    OBVIOUS
  <2>1. /\ movie \in MovieSet \cup {NoMovie} /\ buttons \in [MovieButton -> MovieState]
        /\ phase \in {"program", "events", "movie", "step", "exited"}
        /\ Len(replayedAt) = frameIndex
    BY DEF MovieInv, ShapeInv
  <2>2. Loaded => frameIndex \in 0 .. Len(movie)
    BY DEF MovieInv, ReplayInv
  <2>3. cycleIndex \in 0 .. MaxCycle /\ cycles \in Nat
    BY Lengths DEF MovieInv, ClockInv
  <2> QED
    BY <2>1, <2>2, <2>3 DEF MovieTypeOK
<1> QED
  BY InitMovie, NextMovie, <1>1, PTL DEF MovieSpec

(* Induction over the naturals, said of a set.                              *)
LEMMA LeastNatural ==
    ASSUME NEW T \in SUBSET Nat, T # {}
    PROVE  \E x \in T : \A y \in T : x <= y
<1> DEFINE R == OpToRel(<, Nat)
<1>1. PICK x \in T : \A y \in T : ~ (<<y, x>> \in R)
  <2>1. IsWellFoundedOn(R, Nat)
    BY NatLessThanWellFounded
  <2> HIDE DEF R
  <2> QED
    BY <2>1, WFMin
<1>2. \A y \in T : y < x => <<y, x>> \in R
  BY DEF OpToRel
<1>3. \A y \in T : ~ (y < x)
  BY <1>1, <1>2
<1> QED
  BY <1>3

LEMMA NaturalsFrom ==
    ASSUME NEW S, 0 \in S, \A n \in Nat : n \in S => n + 1 \in S
    PROVE  \A n \in Nat : n \in S
<1> SUFFICES ASSUME NEW k \in Nat, k \notin S PROVE FALSE
  OBVIOUS
<1>1. PICK x \in Nat \ S : \A y \in Nat \ S : x <= y
  <2>1. Nat \ S \in SUBSET Nat /\ Nat \ S # {}
    OBVIOUS
  <2> QED
    BY <2>1, LeastNatural
<1>2. x > 0 /\ x - 1 \in Nat
  BY <1>1
<1>3. x - 1 \in S
  BY <1>1, <1>2
<1> QED
  BY <1>1, <1>2, <1>3

(* The latest of the first entries remains one, or the next entry is.       *)
LEMMA LatestExtends ==
    ASSUME NEW m \in Seq(Replayable), NEW n \in Nat, NEW j \in 1 .. n, n + 1 \in 1 .. Len(m),
           \A k \in 1 .. n : m[k].cycle <= m[j].cycle
    PROVE  \E l \in 1 .. n + 1 : \A k \in 1 .. n + 1 : m[k].cycle <= m[l].cycle
<1>1. \A k \in 1 .. n + 1 : m[k].cycle \in Nat
  <2>1. n + 1 \in 0 .. Len(m)
    OBVIOUS
  <2> QED
    BY <2>1, CycleIn
<1> DEFINE next == n + 1
<1>2. /\ next \in 1 .. next /\ j \in 1 .. next
      /\ \A k \in 1 .. next : k \in 1 .. n \/ k = next
  OBVIOUS
<1> HIDE DEF next
<1>3. m[j].cycle \in Nat /\ m[next].cycle \in Nat
  BY <1>1, <1>2 DEF next
<1>4. CASE m[next].cycle <= m[j].cycle
  BY <1>2, <1>4 DEF next
<1>5. CASE m[j].cycle < m[next].cycle
  <2>1. \A k \in 1 .. next : m[k].cycle <= m[next].cycle
    <3> SUFFICES ASSUME NEW k \in 1 .. next PROVE m[k].cycle <= m[next].cycle
      OBVIOUS
    <3>1. m[k].cycle \in Nat
      BY <1>1 DEF next
    <3>2. CASE k = next
      BY <3>1, <3>2
    <3>3. CASE k \in 1 .. n
      BY <3>1, <3>3, <1>3, <1>5
    <3> QED
      BY <1>2, <3>2, <3>3
  <2> QED
    BY <1>2, <2>1 DEF next
<1>6. \A a, b \in Nat : a <= b \/ b < a
  OBVIOUS
<1>7. m[next].cycle <= m[j].cycle \/ m[j].cycle < m[next].cycle
  BY <1>3, <1>6
<1> QED
  BY <1>4, <1>5, <1>7

(* Any number of entries has a latest one: induction over that number.      *)
LEMMA EntriesHaveLatest ==
    ASSUME NEW m \in Seq(Replayable)
    PROVE  \A n \in 1 .. Len(m) :
               \E j \in 1 .. n : \A k \in 1 .. n : m[k].cycle <= m[j].cycle
<1> DEFINE Latest(n) == \E j \in 1 .. n : \A k \in 1 .. n : m[k].cycle <= m[j].cycle
           S == {n \in Nat : n \in 1 .. Len(m) => Latest(n)}
<1>1. 0 \in S
  OBVIOUS
<1>2. ASSUME NEW n \in Nat, n \in S PROVE n + 1 \in S
  <2> SUFFICES ASSUME n + 1 \in 1 .. Len(m) PROVE Latest(n + 1)
    OBVIOUS
  <2>1. CASE n = 0
    <3>1. 1 \in 0 .. Len(m)
      BY <2>1
    <3>2. m[1].cycle \in Nat
      BY <3>1, CycleIn
    <3> QED
      BY <2>1, <3>2
  <2>2. CASE n > 0
    <3>1. n \in 1 .. Len(m)
      BY <2>2
    <3>2. Latest(n)
      BY <1>2, <3>1
    <3>3. PICK j \in 1 .. n : \A k \in 1 .. n : m[k].cycle <= m[j].cycle
      BY <3>2
    <3> QED
      BY <3>3, LatestExtends
  <2> QED
    BY <1>2, <2>1, <2>2
<1>3. \A n \in Nat : n \in S
  <2> HIDE DEF S
  <2>1. \A n \in Nat : n \in S => n + 1 \in S
    BY <1>2
  <2> QED
    BY <1>1, <2>1, NaturalsFrom
<1>4. \A n \in 1 .. Len(m) : Latest(n)
  <2> SUFFICES ASSUME NEW n \in 1 .. Len(m) PROVE Latest(n)
    OBVIOUS
  <2>1. n \in Nat
    OBVIOUS
  <2>2. n \in S
    <3> HIDE DEF S
    <3> QED
      BY <1>3, <2>1
  <2> HIDE DEF Latest
  <2> QED
    BY <2>2
<1> QED
  BY <1>4

(* Due of any entry, replayed or not.                                       *)
LEMMA DueIsOfAnEntry ==
    ASSUME movie \in Seq(Replayable), NEW i \in 1 .. Len(movie)
    PROVE  /\ Due(i) \in Nat
           /\ \E k \in 1 .. i : Due(i) = movie[k].cycle
           /\ \A k \in 1 .. i : movie[k].cycle <= Due(i)
<1>1. PICK j \in 1 .. i : \A k \in 1 .. i : movie[k].cycle <= movie[j].cycle
  BY EntriesHaveLatest
<1>2. \A k \in 1 .. i : movie[k].cycle \in Nat
  <2>1. i \in 0 .. Len(movie)
    OBVIOUS
  <2> QED
    BY <2>1, CycleIn
<1> DEFINE S == {movie[k].cycle : k \in 1 .. i}
<1>3. \E x \in S : \A y \in S : x >= y
  BY <1>1, <1>2
<1>4. Max(S) \in S /\ \A y \in S : Max(S) >= y
  BY <1>3 DEF Max
<1> QED
  BY <1>2, <1>4 DEF Due

(* Every entry is replayed within an instruction and a stall of its cycle.  *)
THEOREM ReplayIsAlwaysPrompt == MovieSpec => []ReplayIsPrompt
<1>1. MovieInv => ReplayIsPrompt
  <2> SUFFICES ASSUME MovieInv, Loaded, NEW i \in 1 .. frameIndex
               PROVE  /\ replayedAt[i] >= Due(i)
                      /\ \E n \in InstrCycles : replayedAt[i] < Due(i) + n + DmaCycles
    BY DEF ReplayIsPrompt
  <2>0. movie \in Seq(Replayable) /\ i \in 1 .. Len(movie)
    BY DEF MovieInv, ShapeInv, ReplayInv
  <2>1. TakenInTime(i) /\ replayedAt[i] \in Nat
    BY DEF MovieInv, ReplayInv, ShapeInv
  <2>2. \A k \in 1 .. i : movie[k].cycle \in Nat
    <3>1. movie \in Seq(Replayable) /\ i \in 0 .. Len(movie)
      BY DEF MovieInv, ShapeInv, ReplayInv
    <3> QED
      BY <3>1, CycleIn
  <2>3. replayedAt[i] >= Due(i)
    BY <2>0, <2>1, <2>2, DueIsOfAnEntry DEF TakenInTime
  <2>4. PICK n \in InstrCycles, k \in 1 .. i :
            replayedAt[i] < movie[k].cycle + n + DmaCycles
    BY <2>1 DEF TakenInTime
  <2>5. movie[k].cycle <= Due(i) /\ Due(i) \in Nat /\ n \in Nat /\ DmaCycles \in Nat
    BY <2>0, DueIsOfAnEntry, MovieAssumption
  <2>6. replayedAt[i] < Due(i) + n + DmaCycles
    BY <2>1, <2>2, <2>4, <2>5
  <2> QED
    BY <2>3, <2>6
<1> QED
  BY InitMovie, NextMovie, <1>1, PTL DEF MovieSpec

-----------------------------------------------------------------------------
(* The i-th entry is the last of the first n for the button b.              *)
LastFor(m, n, b, i) ==
    /\ i \in 1 .. n /\ m[i].button = b
    /\ \A j \in 1 .. n : m[j].button = b => j <= i

(* A button no key moves is as the last entry taken for it left it, and     *)
(* what has been taken was taken by the last poll once the poll is over.    *)
ButtonsFollow(m, n, bs) ==
    \A b \in MovieButton \ KeyButton :
        \/ /\ bs[b] = MovieOff
           /\ \A i \in 1 .. n : m[i].button # b
        \/ \E i \in 1 .. n : LastFor(m, n, b, i) /\ bs[b] = m[i].state

FollowInv ==
    Loaded =>
        /\ ButtonsFollow(movie, frameIndex, buttons)
        /\ phase \in {"step", "program"} =>
              \A i \in 1 .. frameIndex : replayedAt[i] <= polledAt

LEMMA TakenExtends ==
    ASSUME NEW m \in Seq(Replayable), NEW n \in Nat, NEW next, next = n + 1,
           next \in 1 .. Len(m), NEW bs \in [MovieButton -> MovieState],
           ButtonsFollow(m, n, bs)
    PROVE  ButtonsFollow(m, next, [bs EXCEPT ![m[next].button] = m[next].state])
<1>1. m[next] \in Replayable /\ m[next].button \in MovieButton
  <2>1. m[next] \in Replayable
    OBVIOUS
  <2> QED
    BY <2>1 DEF Replayable
<1>2. \A k \in 1 .. next : k \in 1 .. n \/ k = next
  OBVIOUS
<1>3. next \in 1 .. next /\ \A k \in 1 .. n : k \in 1 .. next /\ k <= next /\ k # next
  OBVIOUS
<1>4. \A k \in 1 .. next : k <= next
  OBVIOUS
<1> SUFFICES ASSUME NEW b \in MovieButton \ KeyButton
             PROVE  LET now == [bs EXCEPT ![m[next].button] = m[next].state] IN
                    \/ /\ now[b] = MovieOff
                       /\ \A i \in 1 .. next : m[i].button # b
                    \/ \E i \in 1 .. next : LastFor(m, next, b, i) /\ now[b] = m[i].state
  BY DEF ButtonsFollow
<1>5. CASE m[next].button = b
  <2>1. LastFor(m, next, b, next)
    BY <1>3, <1>4, <1>5 DEF LastFor
  <2> QED
    BY <1>1, <1>3, <1>5, <2>1
<1>6. CASE m[next].button # b
  <2>1. [bs EXCEPT ![m[next].button] = m[next].state][b] = bs[b]
    BY <1>6
  <2>2. \/ bs[b] = MovieOff /\ \A i \in 1 .. n : m[i].button # b
        \/ \E i \in 1 .. n : LastFor(m, n, b, i) /\ bs[b] = m[i].state
    BY DEF ButtonsFollow
  <2>3. \A i : LastFor(m, n, b, i) => LastFor(m, next, b, i)
    BY <1>2, <1>3, <1>6 DEF LastFor
  <2> QED
    BY <1>2, <1>3, <1>6, <2>1, <2>2, <2>3
<1> QED
  BY <1>5, <1>6

LEMMA InitFollow == MovieInit => FollowInv
BY DEF MovieInit, FollowInv, ButtonsFollow

LEMMA KeyFollow ==
    ASSUME NEW m, NEW n, NEW bs \in [MovieButton -> MovieState], ButtonsFollow(m, n, bs),
           NEW b \in KeyButton, NEW s
    PROVE  ButtonsFollow(m, n, [bs EXCEPT ![b] = s])
BY DEF ButtonsFollow

LEMMA MovieStays == [MovieNext]_movieVars => movie' = movie
<1>1. ASSUME NEW n, CallCycle(n) \/ StoreDma(n) PROVE movie' = movie
  BY <1>1 DEF CallCycle, StoreDma
<1>2. ASSUME NEW b, NEW s, Key(b, s) PROVE movie' = movie
  BY <1>2 DEF Key
<1>3. QuitEvent \/ NoMoreEvents \/ ReplayEntry \/ MovieDone \/ Step => movie' = movie
  BY DEF QuitEvent, NoMoreEvents, ReplayEntry, MovieDone, Step
<1>4. UNCHANGED movieVars => movie' = movie
  BY DEF movieVars
<1> QED
  BY <1>1, <1>2, <1>3, <1>4 DEF MovieNext, Program, RomCycle

LEMMA NextFollow == MovieInv /\ FollowInv /\ [MovieNext]_movieVars => FollowInv'
<1> SUFFICES ASSUME MovieInv, FollowInv, [MovieNext]_movieVars, Loaded PROVE FollowInv'
  BY MovieStays DEF FollowInv, Loaded
<1>1. /\ ButtonsFollow(movie, frameIndex, buttons)
      /\ phase \in {"step", "program"} =>
              \A i \in 1 .. frameIndex : replayedAt[i] <= polledAt
      /\ buttons \in [MovieButton -> MovieState] /\ movie \in Seq(Replayable)
      /\ frameIndex \in Nat
      /\ \A i \in 1 .. frameIndex : replayedAt[i] <= cycleIndex
  BY DEF FollowInv, MovieInv, ShapeInv, ReplayInv
<1>2. ASSUME NEW n \in InstrCycles, CallCycle(n) \/ StoreDma(n) PROVE FollowInv'
  BY <1>1, <1>2 DEF CallCycle, StoreDma, FollowInv
<1>3. ASSUME NEW b \in KeyButton, NEW s \in MovieState, Key(b, s) PROVE FollowInv'
  BY <1>1, <1>3, KeyFollow DEF Key, FollowInv
<1>4. CASE QuitEvent \/ NoMoreEvents
  BY <1>1, <1>4 DEF QuitEvent, NoMoreEvents, FollowInv
<1>5. CASE ReplayEntry
  <2>0. PICK next : next = frameIndex + 1
    OBVIOUS
  <2>1. /\ movie' = movie /\ frameIndex' = next /\ phase' = "movie"
        /\ buttons' = [buttons EXCEPT ![movie[next].button] = movie[next].state]
        /\ frameIndex < Len(movie)
    BY <1>5, <2>0 DEF ReplayEntry, EntryDue
  <2>2. next \in 1 .. Len(movie)
    BY <1>1, <2>0, <2>1
  <2>3. ButtonsFollow(movie, next, [buttons EXCEPT ![movie[next].button] = movie[next].state])
    BY <1>1, <2>0, <2>2, TakenExtends
  <2>4. ButtonsFollow(movie, frameIndex, buttons)'
    BY <2>1, <2>3
  <2> QED
    BY <2>1, <2>4 DEF FollowInv
<1>6. CASE MovieDone
  BY <1>1, <1>6 DEF MovieDone, FollowInv
<1>7. CASE Step
  BY <1>1, <1>7 DEF Step, FollowInv
<1>8. CASE UNCHANGED movieVars
  BY <1>1, <1>8 DEF movieVars, FollowInv
<1> QED
  BY <1>2, <1>3, <1>4, <1>5, <1>6, <1>7, <1>8 DEF MovieNext, Program, RomCycle

(* Once a poll is over, the entries due at it are those taken.              *)
LEMMA DueAreTaken ==
    ASSUME MovieInv, FollowInv, Loaded, phase \in {"step", "program"},
           NEW i \in 1 .. Len(movie)
    PROVE  Due(i) <= polledAt <=> i <= frameIndex
<1>1. movie \in Seq(Replayable) /\ frameIndex \in 0 .. Len(movie) /\ polledAt \in Int
  BY DEF MovieInv, ReplayInv, ClockInv
<1>2. \A k \in 1 .. i : movie[k].cycle \in Nat
  <2>1. i \in 0 .. Len(movie)
    OBVIOUS
  <2> QED
    BY <1>1, <2>1, CycleIn
<1>3. PICK k \in 1 .. i : Due(i) = movie[k].cycle
  BY <1>1, DueIsOfAnEntry
<1>4. Due(i) \in Nat
  BY <1>2, <1>3
<1>5. CASE i <= frameIndex
  <2>1. i \in 1 .. frameIndex
    BY <1>1, <1>5
  <2>2. movie[k].cycle <= replayedAt[i]
    BY <1>3, <2>1 DEF MovieInv, ReplayInv, TakenInTime
  <2>3. replayedAt[i] <= polledAt
    BY <2>1 DEF FollowInv
  <2>4. replayedAt[i] \in Nat
    BY <2>1 DEF MovieInv, ShapeInv
  <2> QED
    BY <1>1, <1>3, <1>4, <1>5, <2>2, <2>3, <2>4
<1>6. CASE ~(i <= frameIndex)
  <2>1. frameIndex < Len(movie) /\ frameIndex + 1 <= i
    BY <1>1, <1>6
  <2>2. PICK j \in 1 .. frameIndex + 1 : movie[j].cycle > polledAt
    BY <2>1 DEF MovieInv, ReplayInv, NotYetDue
  <2>3. j \in 1 .. i
    BY <1>1, <2>1
  <2>4. movie[j].cycle <= Due(i) /\ movie[j].cycle \in Nat
    BY <1>1, <1>2, <2>3, DueIsOfAnEntry
  <2> QED
    BY <1>1, <1>4, <1>6, <2>2, <2>4
<1> QED
  BY <1>5, <1>6

(* At every instruction the pads are what the movie asks for at the last    *)
(* poll: a replay depends on the cycle counter alone.                       *)
THEOREM ReplayAlwaysFollowsClock == MovieSpec => []ReplayFollowsClock
<1>1. MovieInv /\ FollowInv => ReplayFollowsClock
  <2> SUFFICES ASSUME MovieInv, FollowInv, Loaded, phase \in {"step", "program"},
                      NEW b \in MovieButton \ KeyButton
               PROVE  buttons[b] = Asked(polledAt)[b]
    BY DEF ReplayFollowsClock
  <2> DEFINE due == {i \in DOMAIN movie : Due(i) <= polledAt}
             last == {i \in due : movie[i].button = b}
  <2>1. movie \in Seq(Replayable) /\ frameIndex \in 0 .. Len(movie)
    BY DEF MovieInv, ReplayInv
  <2>2. due = 1 .. frameIndex
    BY <2>1, DueAreTaken
  <2>3. last = {i \in 1 .. frameIndex : movie[i].button = b}
    BY <2>2
  <2>4. Asked(polledAt)[b] = IF last = {} THEN MovieOff ELSE movie[Max(last)].state
    BY DEF Asked
  <2> HIDE DEF due, last
  <2>5. \/ buttons[b] = MovieOff /\ \A i \in 1 .. frameIndex : movie[i].button # b
        \/ \E i \in 1 .. frameIndex : LastFor(movie, frameIndex, b, i)
                                      /\ buttons[b] = movie[i].state
    BY DEF FollowInv, ButtonsFollow
  <2>6. CASE buttons[b] = MovieOff /\ \A i \in 1 .. frameIndex : movie[i].button # b
    BY <2>3, <2>4, <2>6
  <2>7. ASSUME NEW i \in 1 .. frameIndex, LastFor(movie, frameIndex, b, i)
        PROVE  last # {} /\ Max(last) = i
    <3>1. i \in last /\ \A j \in last : i >= j /\ j \in Nat
      BY <2>1, <2>3, <2>7 DEF LastFor
    <3>2. Max(last) \in last /\ \A j \in last : Max(last) >= j
      BY <3>1 DEF Max
    <3>3. Max(last) >= i /\ i >= Max(last) /\ Max(last) \in Nat /\ i \in Nat
      BY <3>1, <3>2
    <3>4. \A x, y \in Nat : x >= y /\ y >= x => x = y
      OBVIOUS
    <3>5. Max(last) = i
      BY <3>3, <3>4
    <3> QED
      BY <3>1, <3>5
  <2> QED
    BY <2>4, <2>5, <2>6, <2>7
<1> QED
  BY InitMovie, NextMovie, InitFollow, NextFollow, <1>1, PTL DEF MovieSpec

-----------------------------------------------------------------------------
(* The cartridge.                                                           *)
Roms ==
    [prg : Nat, chr : Nat, mapper : SUBSET (0 .. 7), mirroring : Mirrorings,
     battery : BOOLEAN, tv : TvSystems, sram : BOOLEAN]

AsPal(r) == [r EXCEPT !.tv = "PAL"]

Kept(r) == r = original \/ (original.tv = "DualCompatible" /\ r = AsPal(original))

DescriptionOf(r) == [r EXCEPT !.prg = <<r.prg>>]

(* A form that was made from a Rom says what the Rom said.                  *)
RomInv ==
    \/ /\ original = Nothing
       /\ \/ held = "file" /\ header \in Headers
          \/ held = "jam" /\ jam \in Descriptions
          \/ held = "refused"
    \/ /\ original \in Roms
       /\ \/ held = "rom" /\ Kept(rom)
          \/ held = "file" /\ \E r \in Roms : Kept(r) /\ header = HeaderOf(r)
          \/ held = "jam" /\ \E r \in Roms : Kept(r) /\ jam = DescriptionOf(r)
          \/ held = "refused" /\ (original.tv # "NTSC" \/ original.prg # 1)

-----------------------------------------------------------------------------
(* The header.                                                              *)

LEMMA LoadedIsRom ==
    ASSUME NEW h \in Headers PROVE RomOf(h) \in Roms
<1>1. /\ h.prg \in Nat /\ h.chr \in Nat
      /\ h.flags6 \subseteq 0 .. 7 /\ h.flags7 \subseteq 0 .. 7
  BY RomFileAssumption
<1>2. {b - 4 : b \in h.flags6 \cap 4 .. 7} \cup (h.flags7 \cap 4 .. 7) \subseteq 0 .. 7
  BY <1>1
<1>3. MirroringOf(h) \in Mirrorings
  BY DEF MirroringOf, Mirrorings
<1> QED
  BY <1>1, <1>2, <1>3 DEF RomOf, Roms, TvSystems

(* The mapper goes through its two nibbles.                                 *)
LEMMA MapperNibbles ==
    ASSUME NEW m \in SUBSET (0 .. 7), NEW low \in SUBSET (0 .. 3)
    PROVE  {b - 4 : b \in ({b + 4 : b \in m \cap 0 .. 3} \cup low) \cap 4 .. 7}
               \cup ((m \cap 4 .. 7) \cap 4 .. 7) = m
<1> DEFINE high == {b + 4 : b \in m \cap 0 .. 3}
<1>1. \A b \in m : b \in Int /\ (b \in 0 .. 3 \/ b \in 4 .. 7)
  OBVIOUS
<1>2. \A b \in m \cap 0 .. 3 : b + 4 \in 4 .. 7 /\ (b + 4) - 4 = b
  OBVIOUS
<1>3. low \cap 4 .. 7 = {}
  OBVIOUS
<1>4. (high \cup low) \cap 4 .. 7 = high
  <2>1. \A b \in high : b \in 4 .. 7
    BY <1>2
  <2> HIDE DEF high
  <2> QED
    BY <1>3, <2>1
<1>5. {b - 4 : b \in high} = m \cap 0 .. 3
  <2>1. \A b \in high : b - 4 \in m \cap 0 .. 3
    BY <1>2
  <2>2. \A x \in m \cap 0 .. 3 : \E b \in high : x = b - 4
    BY <1>2
  <2> HIDE DEF high
  <2> QED
    BY <2>1, <2>2
<1> QED
  BY <1>1, <1>4, <1>5

LEMMA SavedHeader ==
    ASSUME NEW r \in Roms
    PROVE  /\ IsUnsupported(HeaderOf(r)) <=> r.tv = "PAL"
           /\ HeaderOf(r).short = FALSE
           /\ RomOf(HeaderOf(r)) = IF r.tv = "NTSC" THEN r ELSE AsPal(r)
<1> DEFINE h == HeaderOf(r)
<1>1. /\ r.mapper \in SUBSET (0 .. 7) /\ r.mirroring \in Mirrorings
      /\ r.battery \in BOOLEAN /\ r.sram \in BOOLEAN /\ r.tv \in TvSystems
  BY DEF Roms
<1> DEFINE low == Bits(0, r.mirroring = "Horizontal")
                     \cup Bits(3, r.mirroring = "FourScreenVRAM") \cup Bits(1, r.battery)
<1>2. /\ h.prg = r.prg /\ h.chr = r.chr /\ h.ram = 0 /\ h.short = FALSE
      /\ h.flags6 = {b + 4 : b \in r.mapper \cap 0 .. 3} \cup low
      /\ h.flags7 = r.mapper \cap 4 .. 7
      /\ h.flags9 = TvFlags(r).nine
      /\ h.flags10 = TvFlags(r).ten \cup SramFlag(r)
  BY DEF HeaderOf
<1> HIDE DEF h
<1>3. low \in SUBSET (0 .. 3) /\ 2 \notin low
  BY DEF Bits
<1>4. \A b \in {b + 4 : b \in r.mapper \cap 0 .. 3} : b \in 4 .. 7
  BY <1>1
<1>5. /\ 0 \in h.flags6 <=> r.mirroring = "Horizontal"
      /\ 3 \in h.flags6 <=> r.mirroring = "FourScreenVRAM"
      /\ 1 \in h.flags6 <=> r.battery
      /\ 2 \notin h.flags6
  BY <1>2, <1>4 DEF Bits
<1>6. MirroringOf(h) = r.mirroring
  BY <1>1, <1>5 DEF MirroringOf, Mirrorings
<1>7. /\ 4 \in h.flags10 <=> ~r.sram
      /\ 5 \notin h.flags10
      /\ 1 \in h.flags10 <=> r.tv # "NTSC"
      /\ 0 \in h.flags9 <=> r.tv = "PAL"
  BY <1>1, <1>2 DEF TvFlags, SramFlag, Bits, TvSystems
<1>8. {0, 1, 3} \cap h.flags7 = {}
  BY <1>2
<1>9. IsUnsupported(h) <=> r.tv = "PAL"
  BY <1>2, <1>5, <1>7, <1>8 DEF IsUnsupported
<1>10. {b - 4 : b \in h.flags6 \cap 4 .. 7} \cup (h.flags7 \cap 4 .. 7) = r.mapper
  <2> HIDE DEF low
  <2> QED
    BY <1>1, <1>2, <1>3, MapperNibbles
<1>11. /\ (1 \in h.flags6) = r.battery
       /\ (4 \notin h.flags10) = r.sram
       /\ (IF 1 \in h.flags10 THEN "PAL" ELSE "NTSC")
              = IF r.tv = "NTSC" THEN "NTSC" ELSE "PAL"
  BY <1>1, <1>5, <1>7
<1>12. RomOf(h) = [prg |-> r.prg, chr |-> r.chr, mapper |-> r.mapper,
                   mirroring |-> r.mirroring, battery |-> r.battery,
                   tv |-> IF r.tv = "NTSC" THEN "NTSC" ELSE "PAL", sram |-> r.sram]
  BY <1>2, <1>6, <1>10, <1>11 DEF RomOf
<1>13. CASE r.tv = "NTSC"
  <2>1. r = [prg |-> r.prg, chr |-> r.chr, mapper |-> r.mapper,
             mirroring |-> r.mirroring, battery |-> r.battery,
             tv |-> "NTSC", sram |-> r.sram]
    BY <1>13 DEF Roms
  <2> QED
    BY <1>2, <1>9, <1>12, <1>13, <2>1 DEF h
<1>14. CASE r.tv # "NTSC"
  <2>1. AsPal(r) = [prg |-> r.prg, chr |-> r.chr, mapper |-> r.mapper,
                    mirroring |-> r.mirroring, battery |-> r.battery,
                    tv |-> "PAL", sram |-> r.sram]
    BY DEF Roms, AsPal
  <2> QED
    BY <1>2, <1>9, <1>12, <1>14, <2>1 DEF h
<1> QED
  BY <1>13, <1>14

-----------------------------------------------------------------------------
LEMMA NothingIsNoRom == Nothing \notin Roms
<1> SUFFICES ASSUME NEW r \in Roms PROVE r # << >>
  BY DEF Nothing
<1>1. "prg" \in DOMAIN r
  BY DEF Roms
<1>2. DOMAIN << >> = {}
  OBVIOUS
<1> QED
  BY <1>1, <1>2

LEMMA KeptIsRom ==
    ASSUME original \in Roms, NEW r, Kept(r) PROVE r \in Roms
BY DEF Kept, AsPal, Roms, TvSystems

LEMMA LoadStep ==
    ASSUME RomInv, Load PROVE RomInv'
<1>1. CASE original = Nothing
  <2>1. header \in Headers
    BY <1>1, NothingIsNoRom DEF RomInv, Load
  <2>2. RomOf(header) \in Roms
    BY <2>1, LoadedIsRom
  <2>3. \/ held' = "refused" /\ original' = original
        \/ held' = "rom" /\ rom' = RomOf(header) /\ original' = rom'
    BY <1>1 DEF Load, Refuse, Gives
  <2> QED
    BY <1>1, <2>2, <2>3 DEF RomInv, Kept
<1>2. CASE original # Nothing
  <2>1. original \in Roms /\ held = "file"
    BY <1>2 DEF RomInv, Load
  <2>2. PICK r \in Roms : Kept(r) /\ header = HeaderOf(r)
    BY <1>2, <2>1 DEF RomInv
  <2>3. /\ IsUnsupported(header) <=> r.tv = "PAL"
        /\ ~header.short
        /\ RomOf(header) = IF r.tv = "NTSC" THEN r ELSE AsPal(r)
    BY <2>2, SavedHeader
  <2>4. RomOf(header) = IF r.tv = "NTSC" THEN r ELSE AsPal(r)
    BY <2>3
  <2>5. CASE r.tv = "PAL"
    <3>1. held' = "refused" /\ original' = original
      BY <2>3, <2>5 DEF Load, Refuse
    <3>2. original.tv # "NTSC"
      BY <2>1, <2>2, <2>5 DEF Kept
    <3> QED
      BY <2>1, <3>1, <3>2 DEF RomInv
  <2>6. CASE r.tv # "PAL"
    <3>1. held' = "rom" /\ rom' = RomOf(header) /\ original' = original
      BY <1>2, <2>3, <2>6 DEF Load, Gives
    <3>2. r = original
      <4>1. AsPal(original).tv = "PAL"
        BY <2>1 DEF AsPal, Roms
      <4> QED
        BY <2>2, <2>6, <4>1 DEF Kept
    <3>3. original.tv \in {"NTSC", "DualCompatible"}
      BY <2>1, <2>6, <3>2 DEF Roms, TvSystems
    <3>4. \/ RomOf(header) = original
          \/ original.tv = "DualCompatible" /\ RomOf(header) = AsPal(original)
      <4>1. CASE original.tv = "NTSC"
        <5>1. r.tv = "NTSC"
          BY <3>2, <4>1
        <5>2. RomOf(header) = original
          BY <2>4, <3>2, <5>1
        <5> QED
          BY <5>2
      <4>2. CASE original.tv = "DualCompatible"
        <5>1. r.tv # "NTSC"
          BY <3>2, <4>2
        <5>2. RomOf(header) = AsPal(original)
          BY <2>4, <3>2, <5>1
        <5> QED
          BY <4>2, <5>2
      <4> QED
        BY <3>3, <4>1, <4>2
    <3> QED
      BY <2>1, <3>1, <3>4 DEF RomInv, Kept
  <2> QED
    BY <2>5, <2>6
<1> QED
  BY <1>1, <1>2

LEMMA SaveStep ==
    ASSUME RomInv, Save PROVE RomInv'
<1>1. original \in Roms /\ Kept(rom)
  BY DEF RomInv, Save
<1>2. rom \in Roms
  BY <1>1, KeptIsRom
<1> QED
  BY <1>1, <1>2 DEF RomInv, Save, Kept

LEMMA DescribeStep ==
    ASSUME RomInv, Describe PROVE RomInv'
<1>1. original \in Roms /\ Kept(rom)
  BY DEF RomInv, Describe
<1>2. rom \in Roms /\ rom.prg = original.prg
  BY <1>1, KeptIsRom DEF Kept, AsPal, Roms
<1>3. CASE rom.prg \notin 1 .. 2
  BY <1>1, <1>2, <1>3 DEF RomInv, Describe, Refuse
<1>4. CASE rom.prg \in 1 .. 2
  <2>1. held' = "jam" /\ jam' = DescriptionOf(rom) /\ original' = original
    BY <1>4 DEF Describe, DescriptionOf
  <2> QED
    BY <1>1, <1>2, <2>1 DEF RomInv, Kept
<1> QED
  BY <1>3, <1>4

LEMMA AssembleStep ==
    ASSUME RomInv, AssembleRom PROVE RomInv'
<1> DEFINE read == [jam EXCEPT !.prg = Len(jam.prg)]
           bad == \/ jam.mirroring \notin Mirrorings \/ jam.tv \notin TvSystems
                  \/ \E i \in DOMAIN jam.prg : jam.prg[i] # 1
<1>1. IF bad THEN Refuse ELSE Gives(read)
  BY DEF AssembleRom
<1>2. CASE original = Nothing
  <2>1. jam \in Descriptions
    BY <1>2, NothingIsNoRom DEF RomInv, AssembleRom
  <2>2. CASE bad
    BY <1>1, <1>2, <2>2 DEF RomInv, Refuse
  <2>3. CASE ~bad
    <3>1. read \in Roms
      <4>1. jam \in [prg : Seq(Nat), chr : Nat, mapper : SUBSET (0 .. 7), mirroring : STRING,
                      battery : BOOLEAN, tv : STRING, sram : BOOLEAN]
        BY <2>1, RomFileAssumption
      <4>2. Len(jam.prg) \in Nat /\ jam.mirroring \in Mirrorings /\ jam.tv \in TvSystems
        BY <2>3, <4>1
      <4> QED
        BY <4>1, <4>2 DEF Roms
    <3>2. held' = "rom" /\ rom' = read /\ original' = rom'
      BY <1>1, <1>2, <2>3 DEF Gives
    <3> QED
      BY <3>1, <3>2 DEF RomInv, Kept
  <2> QED
    BY <2>2, <2>3
<1>3. CASE original # Nothing
  <2>1. original \in Roms /\ held = "jam"
    BY <1>3 DEF RomInv, AssembleRom
  <2>2. PICK r \in Roms : Kept(r) /\ jam = DescriptionOf(r)
    BY <1>3, <2>1 DEF RomInv
  <2>3. /\ jam.prg = <<r.prg>> /\ jam.mirroring = r.mirroring /\ jam.tv = r.tv
        /\ r.mirroring \in Mirrorings /\ r.tv \in TvSystems
    BY <2>2 DEF DescriptionOf, Roms
  <2>4. bad <=> r.prg # 1
    BY <2>3
  <2>5. r.prg = original.prg
    BY <2>1, <2>2 DEF Kept, AsPal, Roms
  <2>6. CASE bad
    BY <1>1, <2>1, <2>4, <2>5, <2>6 DEF RomInv, Refuse
  <2>7. CASE ~bad
    <3>1. r.prg = 1 /\ Len(jam.prg) = 1
      BY <2>3, <2>4, <2>7
    <3>2. read = r
      BY <2>2, <3>1 DEF DescriptionOf, Roms
    <3>3. held' = "rom" /\ rom' = r /\ original' = original
      BY <1>1, <1>3, <2>7, <3>2 DEF Gives
    <3> QED
      BY <2>1, <2>2, <3>3 DEF RomInv, Kept
  <2> QED
    BY <2>6, <2>7
<1> QED
  BY <1>2, <1>3

LEMMA RomInvInit == RomInit => RomInv
BY DEF RomInit, RomInv

LEMMA RomInvNext == RomInv /\ [RomNext]_romVars => RomInv'
<1>1. ASSUME RomInv, UNCHANGED romVars PROVE RomInv'
  BY <1>1 DEF RomInv, Kept, romVars
<1> QED
  BY <1>1, LoadStep, SaveStep, DescribeStep, AssembleStep DEF RomNext

(* A cartridge stays what it is, but for a television system.               *)
THEOREM CartridgeAlwaysKept == RomSpec => []CartridgeKept
<1>1. RomInv => CartridgeKept
  BY DEF RomInv, CartridgeKept, Kept, AsPal
<1> QED
  BY RomInvInit, RomInvNext, <1>1, PTL DEF RomSpec

(* What was read once is refused later for two reasons only.                *)
THEOREM OnceReadAlwaysReadable == RomSpec => []ReadOnceReadAgain
<1>1. RomInv => ReadOnceReadAgain
  BY DEF RomInv, ReadOnceReadAgain
<1> QED
  BY RomInvInit, RomInvNext, <1>1, PTL DEF RomSpec

-----------------------------------------------------------------------------
(* The picture unit's address registers.                                    *)

(* An address is five fields, in one way only. *)
Packed(x, y, tx, ty, f) == x + 32 * y + 1024 * tx + 2048 * ty + 4096 * f

Small(n, bound) == n \in Nat /\ n < bound

Fields(x, y, tx, ty, f) ==
    Small(x, 32) /\ Small(y, 32) /\ Small(tx, 2) /\ Small(ty, 2) /\ Small(f, 8)

LEMMA Unpacking ==
    ASSUME NEW a, Small(a, 32768)
    PROVE  /\ Fields(CoarseX(a), CoarseY(a), TableX(a), TableY(a), FineY(a))
           /\ a = Packed(CoarseX(a), CoarseY(a), TableX(a), TableY(a), FineY(a))
BY DEF Small, Fields, Packed, CoarseX, CoarseY, TableX, TableY, FineY, Field

LEMMA Packing ==
    ASSUME NEW x, NEW y, NEW tx, NEW ty, NEW f, Fields(x, y, tx, ty, f),
           NEW a, a = Packed(x, y, tx, ty, f)
    PROVE  /\ Small(a, 32768)
           /\ CoarseX(a) = x /\ CoarseY(a) = y
           /\ TableX(a) = tx /\ TableY(a) = ty /\ FineY(a) = f
BY DEF Small, Fields, Packed, CoarseX, CoarseY, TableX, TableY, FineY, Field

-----------------------------------------------------------------------------
(* What the program's writes do to the fields of the latch. *)
LEMMA ControlWritten ==
    ASSUME Small(vramLatch, 32768), NEW v, Small(v, 256),
           NEW l, l = Put(vramLatch, 1024, 4, v % 4)
    PROVE  /\ Small(l, 32768)
           /\ CoarseX(l) = CoarseX(vramLatch) /\ CoarseY(l) = CoarseY(vramLatch)
           /\ FineY(l) = FineY(vramLatch)
           /\ TableX(l) + 2 * TableY(l) = (v % 4)
BY DEF Small, Put, CoarseX, CoarseY, TableX, TableY, FineY, Field

LEMMA ScrollXWritten ==
    ASSUME Small(vramLatch, 32768), NEW v, Small(v, 256), writeLatch,
           NEW l, l = ScrolledLatch(v)
    PROVE  /\ Small(l, 32768)
           /\ CoarseX(l) = v \div 8 /\ CoarseY(l) = CoarseY(vramLatch)
           /\ FineY(l) = FineY(vramLatch)
           /\ TableX(l) = TableX(vramLatch) /\ TableY(l) = TableY(vramLatch)
BY DEF Small, ScrolledLatch, Put, CoarseX, CoarseY, TableX, TableY, FineY, Field

LEMMA ScrollYWritten ==
    ASSUME Small(vramLatch, 32768), NEW v, Small(v, 256), ~writeLatch,
           NEW l, l = ScrolledLatch(v)
    PROVE  /\ Small(l, 32768)
           /\ CoarseX(l) = CoarseX(vramLatch) /\ CoarseY(l) = v \div 8
           /\ FineY(l) = (v % 8)
           /\ TableX(l) = TableX(vramLatch) /\ TableY(l) = TableY(vramLatch)
BY DEF Small, ScrolledLatch, Put, CoarseX, CoarseY, TableX, TableY, FineY, Field

LEMMA AddressWritten ==
    ASSUME Small(vramLatch, 32768), NEW v, Small(v, 256)
    PROVE  Small(AddressedLatch(v), 32768)
BY DEF Small, AddressedLatch

-----------------------------------------------------------------------------
(* What the raster does to the fields of the address. *)
LEMMA HorizontalStepMoves ==
    ASSUME NEW a, Small(a, 32768)
    PROVE  /\ Small(HorizontalStep(a), 32768)
           /\ CoarseY(HorizontalStep(a)) = CoarseY(a)
           /\ TableY(HorizontalStep(a)) = TableY(a)
           /\ FineY(HorizontalStep(a)) = FineY(a)
BY DEF Small, HorizontalStep, Put, CoarseY, TableX, TableY, FineY, Field

LEMMA HorizontalStepNat ==
    ASSUME NEW a \in Nat PROVE HorizontalStep(a) \in Nat
BY DEF HorizontalStep, Put, TableX, Field

(* The row an address is on, and the one the raster moves it to. *)
RowOf(a) == <<TableY(a), CoarseY(a) * 8 + FineY(a)>>

RowAfter(t, y) ==
    IF y = 239 THEN <<1 - t, 0>> ELSE IF y = 255 THEN <<t, 0>> ELSE <<t, y + 1>>

LEMMA VerticalStepMoves ==
    ASSUME NEW a, Small(a, 32768)
    PROVE  /\ Small(VerticalStep(a), 32768)
           /\ RowOf(VerticalStep(a)) = RowAfter(TableY(a), CoarseY(a) * 8 + FineY(a))
<1>1. PICK x, y, tx, ty, f :
          /\ Fields(x, y, tx, ty, f) /\ a = Packed(x, y, tx, ty, f)
          /\ y = CoarseY(a) /\ ty = TableY(a) /\ f = FineY(a)
  BY Unpacking
<1>2. ASSUME NEW y2, NEW ty2, NEW f2, Fields(x, y2, tx, ty2, f2),
             VerticalStep(a) = Packed(x, y2, tx, ty2, f2)
      PROVE  /\ Small(VerticalStep(a), 32768)
             /\ RowOf(VerticalStep(a)) = <<ty2, y2 * 8 + f2>>
  BY <1>2, Packing DEF RowOf
<1>3. CASE f # 7
  <2>1. VerticalStep(a) = Packed(x, y, tx, ty, f + 1) /\ Fields(x, y, tx, ty, f + 1)
    <3>1. VerticalStep(a) = a + 4096
      BY <1>1, <1>3 DEF VerticalStep
    <3> QED
      BY <1>1, <1>3, <3>1 DEF Packed, Fields, Small
  <2>2. RowAfter(ty, y * 8 + f) = <<ty, y * 8 + (f + 1)>>
    BY <1>1, <1>3 DEF RowAfter, Fields, Small
  <2> QED
    BY <1>1, <1>2, <2>1, <2>2
<1>4. CASE f = 7
  <2> DEFINE b == Packed(x, y, tx, ty, 0)
  <2>1. a % 4096 = b
    BY <1>1, <1>4 DEF Packed, Fields, Small
  <2>2. Fields(x, y, tx, ty, 0)
    BY <1>1 DEF Fields, Small
  <2>3. CoarseY(b) = y /\ TableY(b) = ty /\ FineY(b) = 0
    BY <2>2, Packing
  <2>4. VerticalStep(a) =
           CASE y = 29 -> Put(Put(b, 2048, 2, 1 - ty), 32, 32, 0)
             [] y = 31 -> Put(b, 32, 32, 0)
             [] OTHER -> b + 32
    BY <1>1, <1>4, <2>1, <2>3 DEF VerticalStep
  <2>5. CASE y = 29
    <3>1. Put(b, 2048, 2, 1 - ty) = Packed(x, y, tx, 1 - ty, 0)
      BY <2>3, <1>1 DEF Put, TableY, Packed, Fields, Small
    <3>2. Fields(x, y, tx, 1 - ty, 0) /\ Fields(x, 0, tx, 1 - ty, 0)
      BY <1>1 DEF Fields, Small
    <3>3. Put(Packed(x, y, tx, 1 - ty, 0), 32, 32, 0) = Packed(x, 0, tx, 1 - ty, 0)
      <4>1. CoarseY(Packed(x, y, tx, 1 - ty, 0)) = y
        BY <3>2, Packing
      <4> QED
        BY <4>1, <1>1 DEF Put, CoarseY, Packed, Fields, Small
    <3>4. RowAfter(ty, y * 8 + f) = <<1 - ty, 0 * 8 + 0>>
      BY <1>4, <2>5 DEF RowAfter
    <3>5. VerticalStep(a) = Packed(x, 0, tx, 1 - ty, 0)
      BY <2>4, <2>5, <3>1, <3>3
    <3> HIDE DEF b
    <3> QED
      BY <1>1, <1>2, <3>2, <3>4, <3>5
  <2>6. CASE y = 31
    <3>1. Put(b, 32, 32, 0) = Packed(x, 0, tx, ty, 0)
      BY <2>3, <1>1 DEF Put, CoarseY, Packed, Fields, Small
    <3>2. Fields(x, 0, tx, ty, 0)
      BY <1>1 DEF Fields, Small
    <3>3. RowAfter(ty, y * 8 + f) = <<ty, 0 * 8 + 0>>
      BY <1>4, <2>6 DEF RowAfter
    <3>4. VerticalStep(a) = Packed(x, 0, tx, ty, 0)
      BY <2>4, <2>6, <3>1
    <3> HIDE DEF b
    <3> QED
      BY <1>1, <1>2, <3>2, <3>3, <3>4
  <2>7. CASE y # 29 /\ y # 31
    <3>1. VerticalStep(a) = Packed(x, y + 1, tx, ty, 0) /\ Fields(x, y + 1, tx, ty, 0)
      <4>1. VerticalStep(a) = b + 32
        BY <2>4, <2>7
      <4> QED
        BY <4>1, <2>7, <1>1 DEF Packed, Fields, Small
    <3>2. RowAfter(ty, y * 8 + f) = <<ty, (y + 1) * 8 + 0>>
      BY <1>1, <1>4, <2>7 DEF RowAfter, Fields, Small
    <3> QED
      BY <1>1, <1>2, <3>1, <3>2
  <2> QED
    BY <2>5, <2>6, <2>7
<1> QED
  BY <1>3, <1>4

LEMMA PutNat ==
    ASSUME NEW a \in Nat, NEW v \in Nat
    PROVE  /\ Put(a, 2048, 2, v) \in Nat /\ Put(a, 32, 32, v) \in Nat
           /\ Put(a, 1024, 2, v) \in Nat /\ Put(a, 1, 32, v) \in Nat
BY DEF Put, Field

LEMMA VerticalStepNat ==
    ASSUME NEW a \in Nat PROVE VerticalStep(a) \in Nat
<1> DEFINE b == a % 4096
<1>1. b \in Nat /\ a + 4096 \in Nat
  OBVIOUS
<1>2. TableY(b) \in {0, 1}
  BY <1>1 DEF TableY, Field
<1> HIDE DEF b
<1>3. 1 - TableY(b) \in Nat /\ 0 \in Nat
  BY <1>2
<1>4. Put(Put(b, 2048, 2, 1 - TableY(b)), 32, 32, 0) \in Nat
  <2>1. Put(b, 2048, 2, 1 - TableY(b)) \in Nat
    BY <1>1, <1>3, PutNat
  <2> QED
    BY <2>1, PutNat
<1>5. Put(b, 32, 32, 0) \in Nat /\ b + 32 \in Nat
  BY <1>1, <1>3, PutNat
<1> QED
  BY <1>1, <1>4, <1>5 DEF VerticalStep, b

LEMMA LatchedXMoves ==
    ASSUME NEW a \in Nat, Small(vramLatch, 32768)
    PROVE  /\ Small(WithLatchedX(a), 32768)
           /\ Small(a, 32768) => RowOf(WithLatchedX(a)) = RowOf(a)
           /\ CoarseX(WithLatchedX(a)) = CoarseX(vramLatch)
           /\ TableX(WithLatchedX(a)) = TableX(vramLatch)
<1>1. PICK b : b = a % 32768
  OBVIOUS
<1>2. Small(b, 32768) /\ (Small(a, 32768) => b = a)
  BY <1>1 DEF Small
<1>3. PICK x, y, tx, ty, f :
          /\ Fields(x, y, tx, ty, f) /\ b = Packed(x, y, tx, ty, f)
          /\ y = CoarseY(b) /\ ty = TableY(b) /\ f = FineY(b)
          /\ x = CoarseX(b) /\ tx = TableX(b)
  BY <1>2, Unpacking
<1>4. PICK lx, ltx : lx = CoarseX(vramLatch) /\ ltx = TableX(vramLatch)
                    /\ Small(lx, 32) /\ Small(ltx, 2)
  BY Unpacking DEF Fields
<1>5. Put(b, 1, 32, lx) = Packed(lx, y, tx, ty, f) /\ Fields(lx, y, tx, ty, f)
  <2>1. Field(b, 1, 32) = x
    BY <1>3 DEF CoarseX
  <2> QED
    BY <2>1, <1>3, <1>4 DEF Put, Packed, Fields, Small
<1>6. Put(Packed(lx, y, tx, ty, f), 1024, 2, ltx) = Packed(lx, y, ltx, ty, f)
      /\ Fields(lx, y, ltx, ty, f)
  <2>1. Field(Packed(lx, y, tx, ty, f), 1024, 2) = tx
    BY <1>5, Packing DEF TableX
  <2> QED
    BY <2>1, <1>4, <1>5 DEF Put, Packed, Fields, Small
<1>7. WithLatchedX(a) = Packed(lx, y, ltx, ty, f)
  BY <1>1, <1>4, <1>5, <1>6 DEF WithLatchedX
<1>8. RowOf(b) = <<ty, y * 8 + f>>
  BY <1>3 DEF RowOf
<1> QED
  BY <1>2, <1>4, <1>6, <1>7, <1>8, Packing DEF RowOf

(* The row below the n-th below a row is the next one below it. *)
LEMMA RowBelowStarts ==
    ASSUME NEW t, Small(t, 2), NEW y, Small(y, 256)
    PROVE  RowBelow(t, y, 0) = <<t, y>>
BY DEF Small, RowBelow

LEMMA RowBelowMovesOn ==
    ASSUME NEW t, Small(t, 2), NEW y, Small(y, 256), NEW n \in Nat,
           NEW u, NEW z, <<u, z>> = RowBelow(t, y, n)
    PROVE  RowAfter(u, z) = RowBelow(t, y, n + 1)
BY DEF Small, RowBelow, RowAfter

-----------------------------------------------------------------------------
(* Induction over the naturals, said of a set.                              *)
(* The addresses of n tiles: the recursive definition has a solution.       *)
Walks(a, n, f) ==
    f = [i \in 0 .. n |-> IF i = 0 THEN a ELSE HorizontalStep(f[i - 1])]

LEMMA WalkExists ==
    ASSUME NEW a, NEW n \in Nat PROVE \E f : Walks(a, n, f)
<1> DEFINE S == {k \in Nat : \E f : Walks(a, k, f)}
<1>1. 0 \in S
  <2>1. Walks(a, 0, [i \in 0 .. 0 |-> a])
    BY DEF Walks
  <2> QED
    BY <2>1
<1>2. ASSUME NEW k \in Nat, k \in S PROVE k + 1 \in S
  <2>1. PICK f : Walks(a, k, f)
    BY <1>2
  <2>2. PICK next : next = k + 1
    OBVIOUS
  <2> DEFINE g == [i \in 0 .. next |-> IF i = next THEN HorizontalStep(f[k]) ELSE f[i]]
  <2>3. \A i \in 0 .. next : g[i] = IF i = 0 THEN a ELSE HorizontalStep(g[i - 1])
    <3> SUFFICES ASSUME NEW i \in 0 .. next
                 PROVE  g[i] = IF i = 0 THEN a ELSE HorizontalStep(g[i - 1])
      OBVIOUS
    <3>1. CASE i = next
      <4>1. i # 0 /\ i - 1 = k /\ k \in 0 .. next /\ k # next
        BY <2>2, <3>1
      <4> QED
        BY <3>1, <4>1
    <3>2. CASE i # next
      <4>1. i \in 0 .. k
        BY <2>2, <3>2
      <4>2. f[i] = IF i = 0 THEN a ELSE HorizontalStep(f[i - 1])
        BY <2>1, <4>1 DEF Walks
      <4>3. i # 0 => i - 1 \in 0 .. next /\ i - 1 # next
        BY <2>2, <4>1
      <4> QED
        BY <3>2, <4>2, <4>3
    <3> QED
      BY <3>1, <3>2
  <2>4. g = [i \in 0 .. next |-> g[i]]
    OBVIOUS
  <2> HIDE DEF g
  <2>5. Walks(a, next, g)
    BY <2>3, <2>4 DEF Walks
  <2> QED
    BY <2>2, <2>5
<1>3. \A k \in Nat : k \in S => k + 1 \in S
  BY <1>2
<1> HIDE DEF S
<1>4. n \in S
  BY <1>1, <1>3, NaturalsFrom
<1> QED
  BY <1>4 DEF S

LEMMA TilesOnWalks ==
    ASSUME NEW a, NEW n \in Nat
    PROVE  \E f : Walks(a, n, f) /\ TilesOn(a, n) = f[n]
<1> DEFINE on == CHOOSE f : Walks(a, n, f)
<1>1. Walks(a, n, on)
  BY WalkExists
<1>2. TilesOn(a, n) = on[n]
  BY DEF TilesOn, Walks
<1> QED
  BY <1>1, <1>2

(* Any number of tiles to the right leaves the row. *)
LEMMA TilesOnMoves ==
    ASSUME NEW a \in Nat, NEW n \in Nat
    PROVE  /\ TilesOn(a, n) \in Nat
           /\ Small(a, 32768) => /\ Small(TilesOn(a, n), 32768)
                                 /\ RowOf(TilesOn(a, n)) = RowOf(a)
<1>1. PICK f : Walks(a, n, f) /\ TilesOn(a, n) = f[n]
  BY TilesOnWalks
<1>2. \A i \in 0 .. n : f[i] = IF i = 0 THEN a ELSE HorizontalStep(f[i - 1])
  BY <1>1 DEF Walks
<1> DEFINE OnRow(b) ==
              /\ b \in Nat
              /\ Small(a, 32768) => Small(b, 32768) /\ RowOf(b) = RowOf(a)
           S == {i \in Nat : i \in 0 .. n => OnRow(f[i])}
<1>3. ASSUME NEW b, OnRow(b) PROVE OnRow(HorizontalStep(b))
  BY <1>3, HorizontalStepMoves, HorizontalStepNat DEF RowOf
<1>4. OnRow(a)
  OBVIOUS
<1> HIDE DEF OnRow
<1>5. 0 \in S
  BY <1>2, <1>4
<1>6. ASSUME NEW i \in Nat, i \in S PROVE i + 1 \in S
  <2> SUFFICES ASSUME i + 1 \in 0 .. n PROVE OnRow(f[i + 1])
    OBVIOUS
  <2>1. i \in 0 .. n /\ i + 1 # 0 /\ (i + 1) - 1 = i
    OBVIOUS
  <2>2. OnRow(f[i])
    BY <1>6, <2>1
  <2>3. f[i + 1] = HorizontalStep(f[i])
    BY <1>2, <2>1
  <2> QED
    BY <1>3, <2>2, <2>3
<1>7. \A i \in Nat : i \in S => i + 1 \in S
  BY <1>6
<1>8. n \in S
  <2> HIDE DEF S
  <2> QED
    BY <1>5, <1>7, NaturalsFrom
<1>9. OnRow(f[n])
  BY <1>8
<1> QED
  BY <1>1, <1>9 DEF OnRow

-----------------------------------------------------------------------------
(* What the program asked for, and the latch that holds it. *)
LatchInv ==
    /\ Small(vramLatch, 32768) /\ Small(fineX, 8) /\ writeLatch \in BOOLEAN
    /\ camera = [x |-> camera.x, y |-> camera.y, base |-> camera.base]
    /\ Small(camera.x, 256) /\ Small(camera.y, 256) /\ Small(camera.base, 4)
    /\ LatchHoldsCamera

LEMMA Bytes ==
    /\ \A v \in ScrollByte : Small(v, 256)
    /\ \A v \in AddressByte : Small(v, 256)
    /\ \A v \in ControlByte : Small(v, 256)
BY ScrollAssumption DEF Small

LEMMA InitLatch == ScrollInit => LatchInv
BY DEF ScrollInit, LatchInv, LatchHoldsCamera, Small, CoarseX, CoarseY, TableX, TableY, FineY, Field

LEMMA ControlLatch ==
    ASSUME LatchInv, NEW v, Small(v, 256), WriteControl(v) PROVE LatchInv'
<1>1. PICK l : l = Put(vramLatch, 1024, 4, v % 4)
  OBVIOUS
<1>2. /\ Small(l, 32768)
      /\ CoarseX(l) = CoarseX(vramLatch) /\ CoarseY(l) = CoarseY(vramLatch)
      /\ FineY(l) = FineY(vramLatch)
      /\ TableX(l) + 2 * TableY(l) = (v % 4)
  BY <1>1, ControlWritten DEF LatchInv
<1>3. PICK w : w = (v % 4) /\ Small(w, 4)
  BY DEF Small
<1>4. /\ vramLatch' = l /\ fineX' = fineX /\ writeLatch' = writeLatch
      /\ latched' = latched \cup {"base"}
      /\ camera' = [camera EXCEPT !.base = w]
  BY <1>1, <1>3 DEF WriteControl
<1>5. camera' = [x |-> camera.x, y |-> camera.y, base |-> w]
  BY <1>4 DEF LatchInv
<1>6. camera'.x = camera.x /\ camera'.y = camera.y /\ camera'.base = w
  BY <1>5
<1>7. LatchHoldsCamera'
  BY <1>2, <1>3, <1>4, <1>6 DEF LatchInv, LatchHoldsCamera
<1> QED
  BY <1>2, <1>3, <1>4, <1>5, <1>6, <1>7 DEF LatchInv

LEMMA ScrollXLatch ==
    ASSUME LatchInv, NEW v, Small(v, 256), WriteScroll(v), writeLatch PROVE LatchInv'
<1>1. PICK l : l = ScrolledLatch(v)
  OBVIOUS
<1>2. /\ Small(l, 32768)
      /\ CoarseX(l) = v \div 8 /\ CoarseY(l) = CoarseY(vramLatch)
      /\ FineY(l) = FineY(vramLatch)
      /\ TableX(l) = TableX(vramLatch) /\ TableY(l) = TableY(vramLatch)
  BY <1>1, ScrollXWritten DEF LatchInv
<1>3. PICK f : f = (v % 8) /\ Small(f, 8) /\ (v \div 8) * 8 + f = v
  BY DEF Small
<1>4. /\ vramLatch' = l /\ fineX' = f /\ writeLatch' = FALSE
      /\ latched' = latched \cup {"x"}
      /\ camera' = [camera EXCEPT !.x = v]
  BY <1>1, <1>3 DEF WriteScroll
<1>5. camera' = [x |-> v, y |-> camera.y, base |-> camera.base]
  BY <1>4 DEF LatchInv
<1>6. camera'.x = v /\ camera'.y = camera.y /\ camera'.base = camera.base
  BY <1>5
<1>7. LatchHoldsCamera'
  BY <1>2, <1>3, <1>4, <1>6 DEF LatchInv, LatchHoldsCamera
<1>8. Small(vramLatch', 32768) /\ Small(fineX', 8) /\ writeLatch' \in BOOLEAN
  <2>1. Small(vramLatch', 32768)
    BY <1>2, <1>4
  <2>2. Small(fineX', 8)
    BY <1>3, <1>4
  <2>3. writeLatch' \in BOOLEAN
    BY <1>4
  <2> QED
    BY <2>1, <2>2, <2>3
<1>9. /\ camera' = [x |-> camera'.x, y |-> camera'.y, base |-> camera'.base]
      /\ Small(camera'.x, 256) /\ Small(camera'.y, 256) /\ Small(camera'.base, 4)
  BY <1>5, <1>6 DEF LatchInv
<1> QED
  BY <1>7, <1>8, <1>9 DEF LatchInv

LEMMA ScrollYLatch ==
    ASSUME LatchInv, NEW v, Small(v, 256), WriteScroll(v), ~writeLatch PROVE LatchInv'
<1>1. PICK l : l = ScrolledLatch(v)
  OBVIOUS
<1>2. /\ Small(l, 32768)
      /\ CoarseX(l) = CoarseX(vramLatch) /\ CoarseY(l) = v \div 8
      /\ FineY(l) = (v % 8)
      /\ TableX(l) = TableX(vramLatch) /\ TableY(l) = TableY(vramLatch)
  BY <1>1, ScrollYWritten DEF LatchInv
<1>3. /\ vramLatch' = l /\ fineX' = fineX /\ writeLatch' = TRUE
      /\ latched' = latched \cup {"y"}
      /\ camera' = [camera EXCEPT !.y = v]
  BY <1>1 DEF WriteScroll
<1>4. camera' = [x |-> camera.x, y |-> v, base |-> camera.base]
  BY <1>3 DEF LatchInv
<1>5. camera'.x = camera.x /\ camera'.y = v /\ camera'.base = camera.base
  BY <1>4
<1>6. (v \div 8) * 8 + (v % 8) = v
  BY DEF Small
<1>7. LatchHoldsCamera'
  BY <1>2, <1>3, <1>5, <1>6 DEF LatchInv, LatchHoldsCamera
<1> QED
  BY <1>2, <1>3, <1>4, <1>5, <1>7 DEF LatchInv

LEMMA NextLatch == LatchInv /\ [ScrollNext]_scrollVars => LatchInv'
<1> SUFFICES ASSUME LatchInv, [ScrollNext]_scrollVars PROVE LatchInv'
  OBVIOUS
<1>1. ASSUME NEW v \in ControlByte, WriteControl(v) PROVE LatchInv'
  BY <1>1, Bytes, ControlLatch
<1>2. ASSUME NEW v \in ScrollByte, WriteScroll(v) PROVE LatchInv'
  BY <1>2, Bytes, ScrollXLatch, ScrollYLatch
<1>3. ASSUME NEW v \in AddressByte, WriteAddress(v) PROVE LatchInv'
  <2>1. /\ vramLatch' = AddressedLatch(v) /\ Small(AddressedLatch(v), 32768)
        /\ writeLatch' = ~writeLatch /\ latched' = {}
        /\ fineX' = fineX /\ camera' = camera
    BY <1>3, Bytes, AddressWritten DEF WriteAddress, LatchInv
  <2>2. LatchHoldsCamera'
    BY <2>1 DEF LatchHoldsCamera
  <2> QED
    BY <2>1, <2>2 DEF LatchInv
<1>4. ASSUME UNCHANGED <<vramLatch, fineX, camera, latched>>, writeLatch' \in BOOLEAN
      PROVE  LatchInv'
  BY <1>4 DEF LatchInv, LatchHoldsCamera
<1>5. ASSUME NEW m, WriteMask(m) PROVE LatchInv'
  BY <1>4, <1>5 DEF WriteMask, registers, history, LatchInv
<1>6. CASE ReadStatus
  BY <1>4, <1>6 DEF ReadStatus, history
<1>7. CASE AccessData
  BY <1>4, <1>7 DEF AccessData, LatchInv
<1>8. CASE CopyLatch
  BY <1>4, <1>8 DEF CopyLatch, LatchInv
<1>9. CASE RenderTileRow
  BY <1>4, <1>9 DEF RenderTileRow, history, LatchInv
<1>10. CASE EndLine
  BY <1>4, <1>10 DEF EndLine, LatchInv
<1>11. CASE Blank
  BY <1>4, <1>11 DEF Blank, registers, history, LatchInv
<1>12. CASE UNCHANGED scrollVars
  BY <1>4, <1>12 DEF scrollVars, registers, history, LatchInv
<1> QED
  BY <1>1, <1>2, <1>3, <1>5, <1>6, <1>7, <1>8, <1>9, <1>10, <1>11, <1>12
  DEF ScrollNext, Accesses, Raster

(* The latch and fine x hold the scroll position the program asked for. *)
THEOREM LatchAlwaysHoldsCamera == ScrollSpec => []LatchHoldsCamera
<1>1. LatchInv => LatchHoldsCamera
  BY DEF LatchInv
<1> QED
  BY InitLatch, NextLatch, <1>1, PTL DEF ScrollSpec

-----------------------------------------------------------------------------
(* A row below the one a frame began with, as long as it is known.          *)
OnRowBelow(a, start, n) ==
    start # Lost =>
        \E t, y : /\ Small(t, 2) /\ Small(y, 256) /\ start = <<t, y>>
                  /\ Small(a, 32768) /\ RowOf(a) = RowBelow(t, y, n)

AtColumn(a, column) == column # Lost => <<TableX(a), CoarseX(a)>> = column

RasterInv ==
    /\ vramAddress \in Nat
    /\ vramAddressInc \in {0, 1}
    /\ event \in {"row", "end"} => line \in Nat /\ OnRowBelow(vramAddress, top, line)
    /\ event = "row" => AtColumn(vramAddress, left)

LEMMA ColumnLatched ==
    ASSUME LatchInv, {"x", "base"} \subseteq latched
    PROVE  Column(camera) = <<TableX(vramLatch), CoarseX(vramLatch)>>
<1>1. /\ CoarseX(vramLatch) * 8 + fineX = camera.x
      /\ TableX(vramLatch) + 2 * TableY(vramLatch) = camera.base
  BY DEF LatchInv, LatchHoldsCamera
<1>2. /\ Small(CoarseX(vramLatch), 32) /\ Small(TableX(vramLatch), 2)
      /\ Small(TableY(vramLatch), 2)
  BY Unpacking DEF LatchInv, Fields
<1>3. \A x, f : Small(x, 32) /\ Small(f, 8) => (x * 8 + f) \div 8 = x
  BY DEF Small
<1>4. \A x, y : Small(x, 2) /\ Small(y, 2) => (x + 2 * y) % 2 = x
  BY DEF Small
<1> QED
  BY <1>1, <1>2, <1>3, <1>4 DEF Column, LatchInv

LEMMA RowLatched ==
    ASSUME LatchInv, {"y", "base"} \subseteq latched
    PROVE  /\ Row(camera) = RowOf(vramLatch)
           /\ \E t, y : Small(t, 2) /\ Small(y, 256) /\ Row(camera) = <<t, y>>
<1>1. /\ CoarseY(vramLatch) * 8 + FineY(vramLatch) = camera.y
      /\ TableX(vramLatch) + 2 * TableY(vramLatch) = camera.base
  BY DEF LatchInv, LatchHoldsCamera
<1>2. Small(TableX(vramLatch), 2) /\ Small(TableY(vramLatch), 2)
  BY Unpacking DEF LatchInv, Fields
<1>3. \A x, y : Small(x, 2) /\ Small(y, 2) => (x + 2 * y) \div 2 = y
  BY DEF Small
<1>4. camera.base \div 2 = TableY(vramLatch)
  BY <1>1, <1>2, <1>3
<1> QED
  BY <1>1, <1>2, <1>4 DEF Row, RowOf, LatchInv

LEMMA InitRaster == ScrollInit => RasterInv
BY DEF ScrollInit, RasterInv

LEMMA CopyRaster ==
    ASSUME LatchInv, RasterInv, CopyLatch PROVE RasterInv'
<1>1. /\ vramAddress' \in {vramLatch, vramAddress} /\ line' = 0 /\ event' = "row"
      /\ vramAddressInc' = vramAddressInc
  BY DEF CopyLatch
<1>2. vramAddress' \in Nat
  BY <1>1 DEF LatchInv, RasterInv, Small
<1>3. OnRowBelow(vramAddress', top', 0)
  <2>1. CASE top' = Lost
    BY <2>1 DEF OnRowBelow
  <2>2. CASE top' # Lost
    <3>1. /\ Rendering /\ {"y", "base"} \subseteq latched
          /\ top' = Row(camera) /\ vramAddress' = vramLatch
      BY <2>2 DEF CopyLatch
    <3>2. PICK t, y : Small(t, 2) /\ Small(y, 256) /\ Row(camera) = <<t, y>>
      BY <3>1, RowLatched
    <3>3. RowOf(vramLatch) = RowBelow(t, y, 0)
      BY <3>1, <3>2, RowLatched, RowBelowStarts
    <3> QED
      BY <3>1, <3>2, <3>3 DEF OnRowBelow, LatchInv
  <2> QED
    BY <2>1, <2>2
<1>4. AtColumn(vramAddress', left')
  <2>1. CASE left' = Lost
    BY <2>1 DEF AtColumn
  <2>2. CASE left' # Lost
    <3>1. /\ Rendering /\ {"x", "base"} \subseteq latched
          /\ left' = Column(camera) /\ vramAddress' = vramLatch
      BY <2>2 DEF CopyLatch
    <3> QED
      BY <3>1, ColumnLatched DEF AtColumn
  <2> QED
    BY <2>1, <2>2
<1> QED
  BY <1>1, <1>2, <1>3, <1>4 DEF RasterInv

LEMMA RowRaster ==
    ASSUME RasterInv, RenderTileRow PROVE RasterInv'
<1>1. PICK a : a = TilesOn(vramAddress, 34)
  OBVIOUS
<1>2. /\ a \in Nat
      /\ Small(vramAddress, 32768) => Small(a, 32768) /\ RowOf(a) = RowOf(vramAddress)
  BY <1>1, TilesOnMoves DEF RasterInv
<1>3. /\ event = "row" /\ event' = "end" /\ line' = line /\ top' = top
      /\ vramAddressInc' = vramAddressInc
      /\ vramAddress' \in {a, vramAddress}
  BY <1>1 DEF RenderTileRow, history
<1>4. line \in Nat /\ OnRowBelow(vramAddress, top, line) /\ vramAddress \in Nat
  BY <1>3 DEF RasterInv
<1>5. OnRowBelow(vramAddress', top, line)
  BY <1>2, <1>3, <1>4 DEF OnRowBelow
<1> QED
  BY <1>2, <1>3, <1>4, <1>5 DEF RasterInv

LEMMA EndRaster ==
    ASSUME LatchInv, RasterInv, EndLine PROVE RasterInv'
<1>1. PICK a : a = TilesOn(vramAddress, 2)
  OBVIOUS
<1>2. /\ a \in Nat
      /\ Small(vramAddress, 32768) => Small(a, 32768) /\ RowOf(a) = RowOf(vramAddress)
  BY <1>1, TilesOnMoves DEF RasterInv
<1>3. PICK b : b = VerticalStep(a)
  OBVIOUS
<1>4. /\ b \in Nat
      /\ Small(a, 32768) => /\ Small(b, 32768)
                            /\ RowOf(b) = RowAfter(TableY(a), CoarseY(a) * 8 + FineY(a))
  BY <1>2, <1>3, VerticalStepNat, VerticalStepMoves
<1>5. PICK c : c = WithLatchedX(b)
  OBVIOUS
<1>6. /\ Small(c, 32768)
      /\ Small(b, 32768) => RowOf(c) = RowOf(b)
      /\ CoarseX(c) = CoarseX(vramLatch) /\ TableX(c) = TableX(vramLatch)
  BY <1>4, <1>5, LatchedXMoves DEF LatchInv
<1>7. /\ event = "end" /\ event' \in {"row", "blank"} /\ line' = line + 1
      /\ vramAddressInc' = vramAddressInc
      /\ vramAddress' = IF showBackground THEN c ELSE vramAddress
      /\ top' = IF showBackground THEN top ELSE Lost
      /\ left' = IF showBackground /\ {"x", "base"} \subseteq latched
                 THEN Column(camera) ELSE Lost
  BY <1>1, <1>3, <1>5 DEF EndLine
<1>8. line \in Nat /\ OnRowBelow(vramAddress, top, line) /\ vramAddress \in Nat
  BY <1>7 DEF RasterInv
<1>9. vramAddress' \in Nat
  BY <1>6, <1>7, <1>8 DEF Small
<1>10. OnRowBelow(vramAddress', top', line + 1)
  <2>1. CASE top' = Lost
    BY <2>1 DEF OnRowBelow
  <2>2. CASE top' # Lost
    <3>1. showBackground /\ top' = top /\ top # Lost /\ vramAddress' = c
      BY <1>7, <2>2
    <3>2. PICK t, y : /\ Small(t, 2) /\ Small(y, 256) /\ top = <<t, y>>
                      /\ Small(vramAddress, 32768)
                      /\ RowOf(vramAddress) = RowBelow(t, y, line)
      BY <1>8, <3>1 DEF OnRowBelow
    <3>3. RowOf(c) = RowAfter(TableY(a), CoarseY(a) * 8 + FineY(a))
      BY <1>2, <1>4, <1>6, <3>2
    <3>4. <<TableY(a), CoarseY(a) * 8 + FineY(a)>> = RowBelow(t, y, line)
      BY <1>2, <3>2 DEF RowOf
    <3>5. RowOf(c) = RowBelow(t, y, line + 1)
      BY <1>8, <3>2, <3>3, <3>4, RowBelowMovesOn
    <3> QED
      BY <1>6, <3>1, <3>2, <3>5 DEF OnRowBelow
  <2> QED
    BY <2>1, <2>2
<1>11. AtColumn(vramAddress', left')
  BY <1>6, <1>7, ColumnLatched DEF AtColumn
<1> QED
  BY <1>7, <1>8, <1>9, <1>10, <1>11 DEF RasterInv

LEMMA ProgramRaster ==
    ASSUME LatchInv, LatchInv', RasterInv, Accesses PROVE RasterInv'
<1>1. ASSUME UNCHANGED <<vramAddress, raster, top, left>>, vramAddressInc' \in {0, 1}
      PROVE  RasterInv'
  BY <1>1 DEF RasterInv, OnRowBelow, AtColumn, raster
<1>2. ASSUME NEW v \in ControlByte, WriteControl(v) PROVE RasterInv'
  <2>1. Field(v, 4, 2) \in {0, 1}
    BY Bytes DEF Small, Field
  <2> QED
    BY <1>1, <1>2, <2>1 DEF WriteControl
<1>3. ASSUME NEW m, WriteMask(m) PROVE RasterInv'
  BY <1>1, <1>3 DEF WriteMask, registers, history, RasterInv
<1>4. CASE ReadStatus
  BY <1>1, <1>4 DEF ReadStatus, history, RasterInv
<1>5. ASSUME NEW v \in ScrollByte, WriteScroll(v) PROVE RasterInv'
  BY <1>1, <1>5 DEF WriteScroll, RasterInv
<1>6. ASSUME NEW v \in AddressByte, WriteAddress(v) PROVE RasterInv'
  <2>1. CASE writeLatch
    BY <1>1, <1>6, <2>1 DEF WriteAddress, RasterInv
  <2>2. CASE ~writeLatch
    <3>1. /\ top' = Lost /\ left' = Lost /\ vramAddress' = vramLatch'
          /\ line' = line /\ event' = event /\ vramAddressInc' = vramAddressInc
      BY <1>6, <2>2 DEF WriteAddress, raster
    <3>2. vramAddress' \in Nat
      BY <3>1 DEF LatchInv, Small
    <3> QED
      BY <3>1, <3>2 DEF RasterInv, OnRowBelow, AtColumn
  <2> QED
    BY <2>1, <2>2
<1>7. CASE AccessData
  <2>1. /\ top' = Lost /\ left' = Lost /\ vramAddress' \in Nat
        /\ line' = line /\ event' = event /\ vramAddressInc' = vramAddressInc
    BY <1>7 DEF AccessData, raster, RasterInv
  <2> QED
    BY <2>1 DEF RasterInv, OnRowBelow, AtColumn
<1> QED
  BY <1>2, <1>3, <1>4, <1>5, <1>6, <1>7 DEF Accesses

LEMMA NextRaster == LatchInv /\ LatchInv' /\ RasterInv /\ [ScrollNext]_scrollVars => RasterInv'
<1> SUFFICES ASSUME LatchInv, LatchInv', RasterInv, [ScrollNext]_scrollVars PROVE RasterInv'
  OBVIOUS
<1>1. CASE Blank
  BY <1>1 DEF Blank, registers, RasterInv
<1>2. CASE UNCHANGED scrollVars
  BY <1>2 DEF scrollVars, registers, raster, history, RasterInv, OnRowBelow, AtColumn
<1> QED
  BY <1>1, <1>2, CopyRaster, RowRaster, EndRaster, ProgramRaster DEF ScrollNext, Raster

(* Every line shows the row that many pixels below the scroll position the  *)
(* frame began with, and begins at the column last asked for, for pictures  *)
(* of any height and whatever the program writes in between.                *)
THEOREM RowsAlwaysFollowCamera == ScrollSpec => []RowsFollowCamera
<1>1. RasterInv => RowsFollowCamera
  <2> SUFFICES ASSUME RasterInv, event = "row" PROVE RowsFollowCamera
    BY DEF RowsFollowCamera
  <2>1. ASSUME top # Lost
        PROVE  <<TableY(vramAddress), CoarseY(vramAddress) * 8 + FineY(vramAddress)>>
                  = RowBelow(top[1], top[2], line)
    BY <2>1 DEF RasterInv, OnRowBelow, RowOf
  <2> QED
    BY <2>1 DEF RowsFollowCamera, RasterInv, AtColumn
<1> QED
  BY InitLatch, NextLatch, InitRaster, NextRaster, <1>1, PTL DEF ScrollSpec
=============================================================================
