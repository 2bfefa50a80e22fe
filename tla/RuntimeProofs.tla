---------------------------- MODULE RuntimeProofs ----------------------------
(***************************************************************************)
(* Proofs about compiled code and the runtime around it.                    *)
(*                                                                          *)
(* The runtime, for instructions, DMA stalls and frames of any length, any  *)
(* program, and any depth of calls and of the stack.  The argument for      *)
(* interrupts: a request grows older by one dot for every dot that the      *)
(* instruction still has to step, so that their sum stays below what an     *)
(* instruction takes, which is less than a frame.                           *)
(*                                                                          *)
(* The memory map, for every literal address, every pointer and every       *)
(* index: a run-time shortcut is taken only where the range it was given    *)
(* lies inside one device, and that range really holds the computed         *)
(* address, unless the sum passed $ffff, when no shortcut is taken.         *)
(*                                                                          *)
(* The arithmetic, for bytes of any even size and numbers of any length:    *)
(* every instruction is right for one byte, in the sense that operand,      *)
(* carry in, result and carry out balance, and multiplying that balance by  *)
(* the weight of the byte extends the chain.                                *)
(***************************************************************************)
EXTENDS Runtime, Bus, Alu, FiniteSetTheorems, TLAPS

-----------------------------------------------------------------------------
(* The runtime.                                                             *)

Frame == 0 .. FrameDots - 1

-----------------------------------------------------------------------------
(* Dots since the start of the blank.                                       *)

Since(d) == (d - VblankDot - 1) % FrameDots

LEMMA SinceIs ==
    ASSUME NEW d \in Frame
    PROVE  /\ Since(d) \in Nat
           /\ d = VblankDot => Since(d) = FrameDots - 1
           /\ d > VblankDot => Since(d) = d - VblankDot - 1
           /\ d < VblankDot => Since(d) = d - VblankDot - 1 + FrameDots
<1>1. /\ FrameDots \in Int /\ FrameDots > 0
      /\ VblankDot \in Int /\ VblankDot >= 0 /\ VblankDot < FrameDots
      /\ d \in Int /\ d >= 0 /\ d < FrameDots
  BY ClockAssumption DEF Frame
<1> DEFINE x == d - VblankDot - 1
<1>2. x \in Int /\ -FrameDots <= x /\ x < FrameDots
  BY <1>1
<1>3. CASE x >= 0
  <2>1. (x % FrameDots) = x
    BY <1>1, <1>2, <1>3
  <2> QED
    BY <1>1, <1>3, <2>1 DEF Since
<1>4. CASE x < 0
  <2>1. (x % FrameDots) = x + FrameDots
    BY <1>1, <1>2, <1>4
  <2> QED
    BY <1>1, <1>4, <2>1 DEF Since
<1> QED
  BY <1>2, <1>3, <1>4

LEMMA TickMoves ==
    ASSUME NEW d \in Frame, NEW e, e = (d + 1) % FrameDots
    PROVE  /\ e \in Frame
           /\ d + 1 < FrameDots => e = d + 1
           /\ d + 1 = FrameDots => e = 0
BY ClockAssumption DEF Frame

LEMMA TickAges ==
    ASSUME NEW d \in Frame, NEW e, e = (d + 1) % FrameDots
    PROVE  /\ e \in Frame
           /\ Since(d) \in Nat /\ Since(e) \in Nat
           /\ d = VblankDot => Since(e) = 0
           /\ Since(d) + 1 < FrameDots => Since(e) = Since(d) + 1
<1>1. /\ FrameDots \in Int /\ FrameDots > 0
      /\ VblankDot \in Int /\ VblankDot >= 0 /\ VblankDot < FrameDots
      /\ d \in Int /\ d >= 0 /\ d < FrameDots
  BY ClockAssumption DEF Frame
<1>2. /\ e \in Frame
      /\ d + 1 < FrameDots => e = d + 1
      /\ d + 1 = FrameDots => e = 0
  BY TickMoves
<1>3. e \in Int
  BY <1>2, <1>1 DEF Frame
<1> QED
  BY <1>1, <1>2, <1>3, SinceIs

-----------------------------------------------------------------------------
(* The clock and what is left of an instruction.                            *)

Budget == \E n \in InstrCycles : ToStep <= 3 * (n + DmaCycles)

ClockInv ==
    /\ dot \in Frame
    /\ vblank \in BOOLEAN /\ suppressed \in BOOLEAN
    /\ nmiOnVblank \in BOOLEAN /\ requested \in BOOLEAN
    /\ phase \in {"run", "dma", "poll", "cycle", "exited"}
    /\ left \in Nat /\ pending \in InstrCycles \cup {0}
    /\ phase # "dma" => pending = 0
    /\ phase # "run" => Budget
    /\ PromptNmi

LEMMA InitClock == Init => ClockInv
<1> SUFFICES ASSUME Init PROVE ClockInv
  OBVIOUS
<1>1. dot \in Frame
  BY ClockAssumption DEF Init, Clock!Init, Frame
<1>2. requested = FALSE /\ phase = "run" /\ left = 0 /\ pending = 0
  BY DEF Init, Clock!Init
<1>3. vblank \in BOOLEAN /\ suppressed \in BOOLEAN /\ nmiOnVblank \in BOOLEAN
  BY DEF Init, Clock!Init
<1> QED
  BY <1>1, <1>2, <1>3 DEF ClockInv, PromptNmi

(* An instruction begins when nothing is requested, and gets its dots.      *)
LEMMA CallClock ==
    ASSUME ClockInv, Running, NEW n \in InstrCycles, NEW next, CallCycle(n, next),
           UNCHANGED <<dot, requested>>,
           vblank' \in BOOLEAN, suppressed' \in BOOLEAN, nmiOnVblank' \in BOOLEAN
    PROVE  ClockInv'
<1>1. n \in Nat /\ DmaCycles \in Nat
  BY ClockAssumption
<1>2. ~requested /\ pending = 0
  BY DEF ClockInv, PromptNmi, Running
<1>3. left' = 3 * n /\ pending' = 0 /\ phase' = "poll"
  BY <1>2 DEF CallCycle
<1>4. ToStep' <= 3 * (n + DmaCycles)
  BY <1>1, <1>3 DEF ToStep
<1>5. Budget'
  BY <1>4 DEF Budget
<1> QED
  BY <1>1, <1>2, <1>3, <1>5 DEF ClockInv, PromptNmi

LEMMA DmaClock ==
    ASSUME ClockInv, NEW n \in InstrCycles, NEW next, StoreDma(n, next)
    PROVE  ClockInv'
<1>1. n \in Nat /\ DmaCycles \in Nat
  BY ClockAssumption
<1>2. ~requested
  BY DEF ClockInv, PromptNmi, StoreDma, Running
<1>3. /\ UNCHANGED <<dot, requested>>
      /\ vblank' \in BOOLEAN /\ suppressed' \in BOOLEAN /\ nmiOnVblank' \in BOOLEAN
  <2>1. CASE Clock!ReadStatus
    BY <2>1 DEF Clock!ReadStatus, ClockInv
  <2>2. CASE UNCHANGED clock
    BY <2>2 DEF clock, ClockInv
  <2> QED
    BY <2>1, <2>2 DEF StoreDma
<1>4. left' = 3 * DmaCycles /\ pending' = n /\ phase' = "dma"
  BY DEF StoreDma
<1>5. ToStep' <= 3 * (n + DmaCycles)
  BY <1>1, <1>4 DEF ToStep
<1>6. Budget'
  BY <1>5 DEF Budget
<1> QED
  BY <1>1, <1>2, <1>3, <1>4, <1>6 DEF ClockInv, PromptNmi

LEMMA InstructionClock ==
    ASSUME ClockInv, Instruction
    PROVE  ClockInv'
<1> PICK n \in InstrCycles :
        \/ \E next \in Target :
              \/ Plain(n, next) \/ LoadStatus(n, next) \/ StoreDma(n, next)
              \/ DropFrame(n, next)
              \/ \E on \in BOOLEAN : StoreControl(on, n, next)
              \/ \E back \in Target : Jsr(n, next, back)
        \/ Rts(n) \/ Rti(n) \/ Brk(n)
  BY DEF Instruction
<1>1. ASSUME NEW next \in Target, Plain(n, next) PROVE ClockInv'
  BY <1>1, CallClock DEF Plain, clock, ClockInv
<1>2. ASSUME NEW next \in Target, LoadStatus(n, next) PROVE ClockInv'
  BY <1>2, CallClock DEF LoadStatus, Clock!ReadStatus, ClockInv
<1>3. ASSUME NEW next \in Target, StoreDma(n, next) PROVE ClockInv'
  BY <1>3, DmaClock
<1>4. ASSUME NEW next \in Target, DropFrame(n, next) PROVE ClockInv'
  BY <1>4, CallClock DEF DropFrame, clock, ClockInv
<1>5. ASSUME NEW next \in Target, NEW on \in BOOLEAN, StoreControl(on, n, next)
      PROVE  ClockInv'
  BY <1>5, CallClock DEF StoreControl, Clock!WriteControl, ClockInv
<1>6. ASSUME NEW next \in Target, NEW back \in Target, Jsr(n, next, back)
      PROVE  ClockInv'
  BY <1>6, CallClock DEF Jsr, clock, ClockInv
<1>7. ASSUME Rts(n) PROVE ClockInv'
  BY <1>7, CallClock DEF Rts, clock, ClockInv
<1>8. ASSUME Rti(n) PROVE ClockInv'
  BY <1>8, CallClock DEF Rti, clock, ClockInv
<1>9. ASSUME Brk(n) PROVE ClockInv'
  BY <1>9, CallClock DEF Brk, clock, ClockInv
<1> QED
  BY <1>1, <1>2, <1>3, <1>4, <1>5, <1>6, <1>7, <1>8, <1>9

(* The dot of a step: one dot older, one dot fewer to go.                   *)
LEMMA DotClock ==
    ASSUME ClockInv, StepDot
    PROVE  ClockInv'
<1>1. dot' = (dot + 1) % FrameDots
  BY DEF StepDot, Clock!Tick
<1>2. /\ dot \in Frame /\ dot' \in Frame
      /\ Since(dot) \in Nat /\ Since(dot') \in Nat
      /\ dot = VblankDot => Since(dot') = 0
      /\ Since(dot) + 1 < FrameDots => Since(dot') = Since(dot) + 1
  BY <1>1, TickAges DEF ClockInv
<1>3. /\ left' = left - 1 /\ left > 0 /\ UNCHANGED <<phase, pending>>
      /\ phase # "run"
  BY DEF StepDot
<1>4. /\ left \in Nat /\ left' \in Nat /\ pending \in Nat
      /\ ToStep \in Nat /\ ToStep' \in Nat /\ ToStep' = ToStep - 1
  BY <1>3, ClockAssumption DEF ClockInv, ToStep
<1>5. PICK n \in InstrCycles : ToStep <= 3 * (n + DmaCycles)
  BY <1>3 DEF ClockInv, Budget
<1>6. n \in Nat /\ DmaCycles \in Nat /\ FrameDots \in Nat
      /\ 3 * (n + DmaCycles) < FrameDots
  BY ClockAssumption
<1>7. ToStep' <= 3 * (n + DmaCycles)
  BY <1>4, <1>5, <1>6
<1>8. Budget'
  BY <1>7 DEF Budget
<1>9. PromptNmi'
  <2> SUFFICES ASSUME requested'
               PROVE  \E k \in InstrCycles :
                         Since(dot') + ToStep' < 3 * (k + DmaCycles)
    BY <1>3 DEF PromptNmi, Since, SinceVblank, ToStep
  <2>1. CASE dot = VblankDot
    BY <2>1, <1>2, <1>4, <1>5, <1>6
  <2>2. CASE dot # VblankDot
    <3>1. requested
      BY <2>2 DEF StepDot, Clock!Tick
    <3>2. PICK k \in InstrCycles : Since(dot) + ToStep < 3 * (k + DmaCycles)
      BY <3>1 DEF ClockInv, PromptNmi, Since, SinceVblank
    <3>3. k \in Nat /\ 3 * (k + DmaCycles) < FrameDots
      BY ClockAssumption
    <3>4. 3 * (k + DmaCycles) \in Nat
      BY <3>3, <1>6
    <3>5. Since(dot) + 1 < FrameDots
      BY <3>2, <3>3, <3>4, <1>2, <1>3, <1>4, <1>6
    <3> QED
      BY <3>2, <3>4, <3>5, <1>2, <1>4
  <2> QED
    BY <2>1, <2>2
<1>10. /\ vblank' \in BOOLEAN /\ suppressed' \in BOOLEAN
       /\ nmiOnVblank' \in BOOLEAN /\ requested' \in BOOLEAN
  BY DEF StepDot, Clock!Tick, ClockInv
<1> QED
  BY <1>2, <1>3, <1>4, <1>8, <1>9, <1>10 DEF ClockInv

LEMMA MachineClock ==
    ASSUME ClockInv, Machine
    PROVE  ClockInv'
<1>1. CASE DmaDone
  <2>1. /\ left = 0 /\ left' = 3 * pending /\ pending' = 0
        /\ phase = "dma" /\ phase' = "poll"
    BY <1>1 DEF DmaDone
  <2>2. pending \in Nat
    BY ClockAssumption DEF ClockInv
  <2>3. ToStep' = ToStep /\ left' \in Nat
    BY <2>1, <2>2 DEF ToStep
  <2> QED
    BY <1>1, <2>1, <2>3 DEF DmaDone, clock, ClockInv, PromptNmi, Budget, SinceVblank
<1>2. CASE StartStep \/ Quit
  BY <1>2 DEF StartStep, Quit, clock, ClockInv, PromptNmi, Budget, SinceVblank, ToStep
<1>3. CASE StepDot
  BY <1>3, DotClock
<1>4. CASE DeliverNmi
  BY <1>4 DEF DeliverNmi, Stepped, Reach, Clock!TakeInterrupt, ClockInv, PromptNmi
<1>5. CASE GoOn
  BY <1>5 DEF GoOn, Stepped, Reach, clock, ClockInv, PromptNmi
<1>6. CASE ReturnNested \/ ReturnToMain
  BY <1>6 DEF ReturnNested, ReturnToMain, clock, ClockInv, PromptNmi, Budget, Stepped, ToStep
<1> QED
  BY <1>1, <1>2, <1>3, <1>4, <1>5, <1>6 DEF Machine

LEMMA NextClock == ClockInv /\ [Next]_vars => ClockInv'
<1> SUFFICES ASSUME ClockInv, [Next]_vars PROVE ClockInv'
  OBVIOUS
<1>1. CASE UNCHANGED vars
  BY <1>1 DEF vars, clock, ClockInv, PromptNmi, Budget, SinceVblank, ToStep
<1> QED
  BY <1>1, InstructionClock, MachineClock DEF Next

(* Interrupts are prompt, for a frame and instructions of any length.       *)
THEOREM NmiIsPrompt == Spec => []PromptNmi
<1>1. ClockInv => PromptNmi
  BY DEF ClockInv
<1> QED
  BY InitClock, NextClock, <1>1, PTL DEF Spec

(* A waiting request would be almost a frame old when the next is made.     *)
LEMMA NoneLost == ClockInv => NoLostNmi
<1> SUFFICES ASSUME ClockInv, requested, phase \in {"dma", "cycle"}, left > 0,
                    dot = VblankDot
             PROVE  FALSE
  BY DEF NoLostNmi
<1>1. SinceVblank = FrameDots - 1
  BY SinceIs DEF ClockInv, Since, SinceVblank
<1>2. PICK k \in InstrCycles : SinceVblank + ToStep < 3 * (k + DmaCycles)
  BY DEF ClockInv, PromptNmi
<1>3. /\ k \in Nat /\ DmaCycles \in Nat /\ FrameDots \in Nat
      /\ 3 * (k + DmaCycles) < FrameDots
  BY ClockAssumption
<1>4. ToStep \in Nat /\ ToStep > 0
  BY ClockAssumption DEF ClockInv, ToStep
<1> QED
  BY <1>1, <1>2, <1>3, <1>4

(* The one slot for a request never loses one.                              *)
THEOREM NmiNeverLost == Spec => []NoLostNmi
BY InitClock, NextClock, NoneLost, PTL DEF Spec

-----------------------------------------------------------------------------
(* Sequences used as stacks.                                                *)

LEMMA TopIn ==
    ASSUME NEW T, NEW s \in Seq(T), s # << >>
    PROVE  Top(s) \in T /\ Len(s) \in Nat /\ Len(s) > 0
BY DEF Top

LEMMA PopIn ==
    ASSUME NEW T, NEW s \in Seq(T), s # << >>
    PROVE  Pop(s) \in Seq(T) /\ Len(Pop(s)) = Len(s) - 1
BY DEF Pop

LEMMA PopKeeps ==
    ASSUME NEW T, NEW s \in Seq(T), s # << >>
    PROVE  /\ Len(s) \in Nat /\ Len(s) > 0
           /\ Len(Pop(s)) = Len(s) - 1
           /\ \A i \in 1 .. Len(s) - 1 : Pop(s)[i] = s[i]
<1>1. Len(s) \in Nat /\ Len(s) > 0
  OBVIOUS
<1>2. Len(Pop(s)) = Len(s) - 1
  BY PopIn
<1>3. \A i \in 1 .. Len(s) - 1 : Pop(s)[i] = s[i]
  BY <1>1 DEF Pop
<1> QED
  BY <1>1, <1>2, <1>3

LEMMA PushIn ==
    ASSUME NEW T, NEW s \in Seq(T), NEW e \in T
    PROVE  Append(s, e) \in Seq(T) /\ Append(s, e) # << >> /\ Top(Append(s, e)) = e
BY DEF Top

LEMMA ReplaceIn ==
    ASSUME NEW T, NEW s \in Seq(T), s # << >>, NEW e \in T,
           NEW r, r = [s EXCEPT ![Len(s)] = e]
    PROVE  r \in Seq(T) /\ r # << >> /\ Top(r) = e
<1>1. Len(s) \in Nat /\ Len(s) > 0
  OBVIOUS
<1>2. r \in Seq(T) /\ Len(r) = Len(s)
  BY <1>1
<1>3. r[Len(s)] = e
  BY <1>1
<1> QED
  BY <1>1, <1>2, <1>3 DEF Top

-----------------------------------------------------------------------------
(* Where the code is.                                                       *)

CallPlace == Place \cup {Dispatch, Return, Restart}
StackEntry == [kind : {"ret", "int"}, pc : Place]

CodeInv ==
    /\ program \subseteq Quirk
    /\ calls \in Seq(CallPlace) /\ calls # << >>
    /\ rPC \in Place
    /\ stack \in Seq(StackEntry)
    /\ phase \in {"run", "dma"} => Top(calls) \in Place

LEMMA EntryIn ==
    ASSUME NEW k \in {"ret", "int"}, NEW pc \in Place
    PROVE  Entry(k, pc) \in StackEntry
BY DEF Entry, StackEntry

LEMMA TargetsArePlaces == \A t \in Target : t \in Place
BY DEF Target, Place

LEMMA InitCode == Init => CodeInv
<1> SUFFICES ASSUME Init PROVE CodeInv
  OBVIOUS
<1>1. calls = <<ResetAddr>> /\ ResetAddr \in Place
  BY AddrAssumption DEF Init, Place
<1>2. calls \in Seq(CallPlace) /\ calls # << >> /\ Top(calls) = ResetAddr
  BY <1>1 DEF CallPlace, Top
<1> QED
  BY <1>1, <1>2, ProgramAssumption DEF Init, CodeInv, Place

LEMMA CallCode ==
    ASSUME CodeInv, NEW n, NEW next \in CallPlace, CallCycle(n, next),
           rPC' \in Place, stack' \in Seq(StackEntry)
    PROVE  CodeInv'
BY ReplaceIn DEF CallCycle, CodeInv

LEMMA PlacesCall == \A p \in Place : p \in CallPlace
BY DEF CallPlace

LEMMA DmaCode ==
    ASSUME CodeInv, NEW n, NEW next \in Place, StoreDma(n, next)
    PROVE  CodeInv'
<1>1. next \in CallPlace
  BY PlacesCall
<1>3. calls \in Seq(CallPlace) /\ calls # << >>
  BY DEF CodeInv
<1>4. calls' = [calls EXCEPT ![Len(calls)] = next]
  BY DEF StoreDma
<1>2. calls' \in Seq(CallPlace) /\ calls' # << >> /\ Top(calls') = next
  BY <1>1, <1>3, <1>4, ReplaceIn DEF Top
<1> QED
  BY <1>2 DEF StoreDma, CodeInv

LEMMA Pulled ==
    ASSUME CodeInv, stack # << >>
    PROVE  Top(stack).pc \in Place /\ Pop(stack) \in Seq(StackEntry)
<1>1. Top(stack) \in StackEntry
  BY TopIn DEF CodeInv
<1>2. Pop(stack) \in Seq(StackEntry)
  BY PopIn DEF CodeInv
<1> QED
  BY <1>1, <1>2 DEF StackEntry

LEMMA InstructionCode ==
    ASSUME CodeInv, Instruction
    PROVE  CodeInv'
<1> PICK n \in InstrCycles :
        \/ \E next \in Target :
              \/ Plain(n, next) \/ LoadStatus(n, next) \/ StoreDma(n, next)
              \/ DropFrame(n, next)
              \/ \E on \in BOOLEAN : StoreControl(on, n, next)
              \/ \E back \in Target : Jsr(n, next, back)
        \/ Rts(n) \/ Rti(n) \/ Brk(n)
  BY DEF Instruction
<1>0. rPC \in Place /\ stack \in Seq(StackEntry)
  BY DEF CodeInv
<1>1. ASSUME NEW next \in Target,
             \/ Plain(n, next) \/ LoadStatus(n, next)
             \/ \E on \in BOOLEAN : StoreControl(on, n, next)
      PROVE  CodeInv'
  BY <1>0, <1>1, CallCode, TargetsArePlaces, PlacesCall DEF Plain, LoadStatus, StoreControl
<1>2. ASSUME NEW next \in Target, StoreDma(n, next) PROVE CodeInv'
  BY <1>2, DmaCode, TargetsArePlaces
<1>3. ASSUME NEW next \in Target, DropFrame(n, next) PROVE CodeInv'
  BY <1>0, <1>3, CallCode, TargetsArePlaces, PlacesCall, Pulled DEF DropFrame
<1>4. ASSUME NEW next \in Target, NEW back \in Target, Jsr(n, next, back) PROVE CodeInv'
  <2>1. Entry("ret", back) \in StackEntry
    BY TargetsArePlaces, EntryIn
  <2>2. stack' \in Seq(StackEntry)
    BY <1>0, <1>4, <2>1, PushIn DEF Jsr
  <2>3. rPC' \in Place /\ next \in CallPlace
    BY <1>4, TargetsArePlaces, PlacesCall DEF Jsr
  <2> QED
    BY <1>4, <2>2, <2>3, CallCode DEF Jsr
<1>5. ASSUME Rts(n) \/ Rti(n) PROVE CodeInv'
  BY <1>0, <1>5, CallCode, Pulled DEF Rts, Rti, CallPlace
<1>6. ASSUME Brk(n) PROVE CodeInv'
  <2>1. Top(calls) \in Place
    BY <1>6 DEF Brk, Running, CodeInv
  <2> QED
    BY <1>0, <1>6, <2>1, CallCode, EntryIn, PushIn DEF Brk, CallPlace
<1> QED
  BY <1>1, <1>2, <1>3, <1>4, <1>5, <1>6

LEMMA ReachCode ==
    ASSUME CodeInv, NEW outer \in Seq(CallPlace), NEW pc \in Place, Reach(outer, pc),
           UNCHANGED <<program, rPC>>
    PROVE  CodeInv'
<1>1. calls' \in Seq(CallPlace) /\ calls' # << >> /\ Top(calls') = pc
  BY PlacesCall, PushIn DEF Reach
<1>2. stack' \in Seq(StackEntry)
  BY EntryIn, PushIn DEF Reach, CodeInv
<1> QED
  BY <1>1, <1>2 DEF CodeInv, Reach

LEMMA MachineCode ==
    ASSUME CodeInv, Machine
    PROVE  CodeInv'
<1>1. CASE DmaDone
  <2>1. Top(calls) \in Place
    BY <1>1 DEF DmaDone, CodeInv
  <2> QED
    BY <1>1, <2>1 DEF DmaDone, CodeInv
<1>2. CASE StartStep \/ Quit
  BY <1>2 DEF StartStep, Quit, CodeInv
<1>3. CASE StepDot
  BY <1>3 DEF StepDot, CodeInv
<1>4. CASE DeliverNmi
  BY <1>4, ReachCode, AddrAssumption DEF DeliverNmi, CodeInv, Place
<1>5. CASE GoOn
  <2> DEFINE pc == CASE Top(calls) = Dispatch -> rPC
                     [] Top(calls) = Restart  -> ResetAddr
                     [] OTHER                 -> Top(calls)
  <2>1. Top(calls) \in CallPlace /\ Pop(calls) \in Seq(CallPlace)
    BY TopIn, PopIn DEF CodeInv
  <2>2. pc \in Place
    BY <1>5, <2>1, AddrAssumption DEF GoOn, CodeInv, CallPlace, Place
  <2>3. Reach(Pop(calls), pc) /\ UNCHANGED <<program, rPC>>
    BY <1>5 DEF GoOn
  <2> HIDE DEF pc
  <2> QED
    BY <2>1, <2>2, <2>3, ReachCode
<1>6. CASE ReturnNested
  <2>1. Pop(calls) \in Seq(CallPlace) /\ Len(Pop(calls)) = Len(calls) - 1
    BY PopIn DEF CodeInv
  <2>2. Len(calls) > 1 /\ Len(calls) \in Nat
    BY <1>6 DEF ReturnNested, CodeInv
  <2>3. Pop(calls) # << >>
    BY <2>1, <2>2
  <2> QED
    BY <1>6, <2>1, <2>3 DEF ReturnNested, Stepped, CodeInv
<1>7. CASE ReturnToMain
  BY <1>7 DEF ReturnToMain, CodeInv
<1> QED
  BY <1>1, <1>2, <1>3, <1>4, <1>5, <1>6, <1>7 DEF Machine

LEMMA NextCode == CodeInv /\ [Next]_vars => CodeInv'
<1> SUFFICES ASSUME CodeInv, [Next]_vars PROVE CodeInv'
  OBVIOUS
<1>1. CASE UNCHANGED vars
  BY <1>1 DEF vars, CodeInv
<1> QED
  BY <1>1, InstructionCode, MachineCode DEF Next

(* The PC, the calls of rom_start and the stack only ever hold places code  *)
(* may be at, whatever a program does with them.                            *)
THEOREM TypeCorrect == Spec => []TypeOK
<1>1. ClockInv /\ CodeInv => TypeOK
  BY DEF ClockInv, CodeInv, TypeOK, Frame, CallPlace, StackEntry
<1> QED
  BY InitClock, NextClock, InitCode, NextCode, <1>1, PTL DEF Spec

-----------------------------------------------------------------------------
(* The C stack c and the 6502 stack s of a well-behaved program.  Every     *)
(* nested call that has not executed its RTI has its interrupt's entry,     *)
(* found by an increasing f, and the entry holds the place where the code   *)
(* that was interrupted goes on.                                            *)

Active(c) == {k \in 2 .. Len(c) : c[k] # Return}
Ints(s) == {i \in 1 .. Len(s) : s[i].kind = "int"}

(* Calls between j and k have returned. *)
Between(c, j, k) == \A m \in j + 1 .. k - 1 : c[m] = Return

Matched(f, c, s) ==
    /\ f \in [Active(c) -> Ints(s)]
    /\ \A j, k \in Active(c) : j < k => f[j] < f[k]
    /\ \A i \in Ints(s) : \E k \in Active(c) : f[k] = i
    /\ \A k \in Active(c) : \A j \in 1 .. k - 1 :
          c[j] \in Place /\ Between(c, j, k) => c[j] = s[f[k]].pc

(* The code that goes on when everything above it returns. *)
TopAgrees(c, pc) ==
    \A j \in 1 .. Len(c) : c[j] \in Place /\ Between(c, j, Len(c) + 1) => c[j] = pc

LEMMA MatchedReplace ==
    ASSUME NEW f, NEW c \in Seq(CallPlace), NEW d \in Seq(CallPlace), NEW s \in Seq(StackEntry),
           Matched(f, c, s), Len(c) > 0, Len(d) = Len(c), c[Len(c)] # Return, d[Len(c)] # Return,
           \A m \in 1 .. Len(c) - 1 : d[m] = c[m]
    PROVE  Matched(f, d, s)
<1> DEFINE L == Len(c)
<1>1. L \in Nat /\ L > 0 /\ Len(d) = L
  OBVIOUS
<1>2. Active(d) = Active(c)
  BY <1>1 DEF Active
<1>3. ASSUME NEW k \in Active(d), NEW j \in 1 .. k - 1,
             d[j] \in Place, Between(d, j, k)
      PROVE  d[j] = s[f[k]].pc
  <2>1. k \in Nat /\ k <= L /\ k \in Active(c)
    BY <1>1, <1>2 DEF Active
  <2>2. \A m \in 1 .. k - 1 : d[m] = c[m]
    BY <1>1, <2>1
  <2>3. c[j] \in Place /\ Between(c, j, k)
    BY <1>3, <2>1, <2>2 DEF Between
  <2> QED
    BY <2>1, <2>2, <2>3 DEF Matched
<1> QED
  BY <1>2, <1>3 DEF Matched

LEMMA MatchedPushRet ==
    ASSUME NEW f, NEW c \in Seq(CallPlace), NEW s \in Seq(StackEntry), NEW e \in StackEntry,
           Matched(f, c, s), e.kind # "int"
    PROVE  Matched(f, c, Append(s, e))
<1> DEFINE t == Append(s, e)
<1>1. Len(t) = Len(s) + 1 /\ t[Len(s) + 1] = e /\ Len(s) \in Nat
  OBVIOUS
<1>2. \A i \in 1 .. Len(s) : t[i] = s[i]
  OBVIOUS
<1> HIDE DEF t
<1>3. Ints(t) = Ints(s)
  BY <1>1, <1>2 DEF Ints
<1>4. \A k \in Active(c) : t[f[k]] = s[f[k]]
  BY <1>2 DEF Matched, Ints
<1>5. Matched(f, c, t)
  BY <1>3, <1>4 DEF Matched
<1> QED
  BY <1>5 DEF t

LEMMA MatchedPopRet ==
    ASSUME NEW f, NEW c \in Seq(CallPlace), NEW s \in Seq(StackEntry),
           Matched(f, c, s), s # << >>, Top(s).kind # "int"
    PROVE  Matched(f, c, Pop(s))
<1> DEFINE t == Pop(s)
<1>1. Len(s) \in Nat /\ Len(s) > 0 /\ Len(t) = Len(s) - 1
  BY PopKeeps
<1>2. \A i \in 1 .. Len(s) - 1 : t[i] = s[i]
  BY PopKeeps
<1> HIDE DEF t
<1>3. Ints(t) = Ints(s)
  BY <1>1, <1>2 DEF Ints, Top
<1>4. \A k \in Active(c) : t[f[k]] = s[f[k]]
  BY <1>1, <1>2, <1>3 DEF Matched, Ints
<1>5. Matched(f, c, t)
  BY <1>3, <1>4 DEF Matched
<1> QED
  BY <1>5 DEF t

LEMMA MatchedReturn ==
    ASSUME NEW f, NEW c \in Seq(CallPlace), NEW s \in Seq(StackEntry),
           Matched(f, c, s), Len(c) > 1, Top(c) = Return
    PROVE  Matched(f, Pop(c), s)
<1> DEFINE d == Pop(c)
<1>1. Len(d) = Len(c) - 1 /\ Len(c) \in Nat
  BY DEF Pop
<1>2. \A i \in 1 .. Len(c) - 1 : d[i] = c[i]
  BY DEF Pop
<1> HIDE DEF d
<1>3. Active(d) = Active(c)
  BY <1>1, <1>2 DEF Active, Top
<1>4. ASSUME NEW k \in Active(d), NEW j \in 1 .. k - 1,
             d[j] \in Place, Between(d, j, k)
      PROVE  d[j] = s[f[k]].pc
  <2>1. k \in Nat /\ k <= Len(c) - 1 /\ k \in Active(c)
    BY <1>1, <1>3 DEF Active
  <2>2. \A m \in 1 .. k - 1 : d[m] = c[m]
    BY <1>1, <1>2, <2>1
  <2>3. c[j] \in Place /\ Between(c, j, k)
    BY <1>4, <2>1, <2>2 DEF Between
  <2> QED
    BY <2>1, <2>2, <2>3 DEF Matched
<1>5. Matched(f, d, s)
  BY <1>3, <1>4 DEF Matched
<1> QED
  BY <1>5 DEF d

LEMMA TopReturn ==
    ASSUME NEW c \in Seq(CallPlace), NEW pc, TopAgrees(c, pc), Len(c) > 1, Top(c) = Return
    PROVE  TopAgrees(Pop(c), pc)
<1> DEFINE d == Pop(c)
<1>1. Len(d) = Len(c) - 1 /\ Len(c) \in Nat
  BY DEF Pop
<1>2. \A i \in 1 .. Len(c) - 1 : d[i] = c[i]
  BY DEF Pop
<1> HIDE DEF d
<1>3. ASSUME NEW j \in 1 .. Len(d), d[j] \in Place, Between(d, j, Len(d) + 1)
      PROVE  d[j] = pc
  <2>1. c[j] \in Place /\ j \in 1 .. Len(c)
    BY <1>1, <1>2, <1>3
  <2>2. Between(c, j, Len(c) + 1)
    BY <1>1, <1>2, <1>3 DEF Between, Top
  <2> QED
    BY <1>1, <1>2, <2>1, <2>2 DEF TopAgrees
<1> QED
  BY <1>3 DEF TopAgrees, d

(* An interrupt: one more call, and one more entry that says where the      *)
(* interrupted code goes on.                                                *)
LEMMA MatchedInterrupt ==
    ASSUME NEW f, NEW c \in Seq(CallPlace), NEW s \in Seq(StackEntry),
           Len(c) > 0, NEW e \in CallPlace, NEW pc \in Place, Matched(f, c, s),
           TopAgrees(c, pc), e # Return
    PROVE  \E g : Matched(g, Append(c, e), Append(s, Entry("int", pc)))
<1> DEFINE d == Append(c, e)
           t == Append(s, Entry("int", pc))
           K == Len(c) + 1
           I == Len(s) + 1
           g == [k \in Active(d) |-> IF k = K THEN I ELSE f[k]]
<1>1. /\ Len(c) \in Nat /\ Len(d) = K /\ d[K] = e /\ K > 1
      /\ \A m \in 1 .. Len(c) : d[m] = c[m]
  OBVIOUS
<1>2. /\ Len(s) \in Nat /\ Len(t) = I /\ t[I] = Entry("int", pc)
      /\ \A m \in 1 .. Len(s) : t[m] = s[m]
  BY EntryIn
<1> HIDE DEF d, t
<1>3. Active(d) = Active(c) \cup {K} /\ K \notin Active(c)
  BY <1>1 DEF Active
<1>4. t[I].kind = "int" /\ t[I].pc = pc
  BY <1>2 DEF Entry
<1>5. Ints(t) = Ints(s) \cup {I} /\ I \notin Ints(s)
  BY <1>2, <1>4 DEF Ints
<1>6. \A k \in Active(c) : k \in Nat /\ k < K /\ g[k] = f[k] /\ f[k] \in Ints(s)
  BY <1>1, <1>3 DEF Active, Matched
<1>7. g[K] = I
  BY <1>3
<1>8. \A i \in Ints(s) : i \in Nat /\ i < I
  BY <1>2 DEF Ints
<1>9. g \in [Active(d) -> Ints(t)]
  BY <1>3, <1>5, <1>6, <1>7
<1> HIDE DEF g, I, K
<1>10. \A j, k \in Active(d) : j < k => g[j] < g[k]
  <2> SUFFICES ASSUME NEW j \in Active(d), NEW k \in Active(d), j < k
               PROVE  g[j] < g[k]
    OBVIOUS
  <2>1. K \in Nat
    BY <1>1 DEF K
  <2>2. j # K
    BY <1>3, <1>6, <2>1
  <2>3. CASE k = K
    BY <2>2, <2>3, <1>3, <1>6, <1>7, <1>8
  <2>4. CASE k # K
    BY <2>2, <2>4, <1>3, <1>6 DEF Matched
  <2> QED
    BY <2>3, <2>4
<1>11. \A i \in Ints(t) : \E k \in Active(d) : g[k] = i
  <2> SUFFICES ASSUME NEW i \in Ints(t) PROVE \E k \in Active(d) : g[k] = i
    OBVIOUS
  <2>1. CASE i = I
    BY <2>1, <1>3, <1>7
  <2>2. CASE i \in Ints(s)
    BY <2>2, <1>3, <1>6 DEF Matched
  <2> QED
    BY <2>1, <2>2, <1>5
<1>12. ASSUME NEW k \in Active(d), NEW j \in 1 .. k - 1, d[j] \in Place, Between(d, j, k)
       PROVE  d[j] = t[g[k]].pc
  <2>1. \A m \in 1 .. k - 1 : m \in 1 .. Len(c) /\ d[m] = c[m]
    BY <1>1, <1>3, <1>6 DEF K
  <2>2. c[j] \in Place /\ Between(c, j, k)
    BY <1>12, <2>1, <1>1, <1>3, <1>6 DEF Between, K
  <2>3. CASE k = K
    <3>1. c[j] = pc
      BY <2>1, <2>2, <2>3 DEF TopAgrees, K
    <3> QED
      BY <3>1, <2>1, <2>3, <1>4, <1>7
  <2>4. CASE k # K
    <3>1. k \in Active(c)
      BY <2>4, <1>3
    <3>2. c[j] = s[f[k]].pc
      BY <3>1, <2>2 DEF Matched
    <3>3. t[g[k]] = s[f[k]]
      BY <3>1, <1>2, <1>6 DEF Ints
    <3> QED
      BY <3>2, <3>3, <2>1
  <2> QED
    BY <2>3, <2>4
<1>13. Matched(g, d, t)
  BY <1>9, <1>10, <1>11, <1>12 DEF Matched
<1> QED
  BY <1>13 DEF d, t

(* RTI pulls the entry of its own call, which restores the PC of the code   *)
(* that goes on.                                                            *)
LEMMA MatchedRti ==
    ASSUME NEW f, NEW c \in Seq(CallPlace), NEW s \in Seq(StackEntry),
           Matched(f, c, s), Len(c) > 0, Top(c) # Return, s # << >>, Top(s).kind = "int",
           NEW d \in Seq(CallPlace), d = [c EXCEPT ![Len(c)] = Return]
    PROVE  /\ \E g : Matched(g, d, Pop(s))
           /\ TopAgrees(d, Top(s).pc)
<1> DEFINE t == Pop(s)
           L == Len(c)
           N == Len(s)
           g == [k \in Active(d) |-> f[k]]
<1>1. L \in Nat /\ L > 0 /\ N \in Nat /\ N > 0
  OBVIOUS
<1>2. /\ Len(d) = L /\ d[L] = Return /\ c[L] # Return
      /\ \A m \in 1 .. L - 1 : d[m] = c[m]
  BY <1>1 DEF Top
<1>3. /\ Len(t) = N - 1
      /\ \A m \in 1 .. N - 1 : t[m] = s[m]
  BY PopKeeps
<1>4. s[N] = Top(s) /\ N \in Ints(s)
  BY <1>1 DEF Ints, Top
<1> HIDE DEF t
<1>5. Ints(t) = Ints(s) \ {N}
  BY <1>1, <1>3 DEF Ints
<1>6. PICK b \in Active(c) : f[b] = N
  BY <1>4 DEF Matched
<1>7. b \in 2 .. L
  BY DEF Active
<1>8. L \in Active(c)
  BY <1>1, <1>2, <1>7 DEF Active
<1>9. \A k \in Active(c) : k \in Nat /\ k <= L /\ f[k] \in Nat /\ f[k] <= N
  BY DEF Matched, Active, Ints
<1>10. f[L] = N
  <2>1. CASE b < L
    <3>1. N < f[L]
      BY <2>1, <1>6, <1>8 DEF Matched
    <3> QED
      BY <3>1, <1>1, <1>8, <1>9
  <2> QED
    BY <2>1, <1>1, <1>6, <1>7
<1>11. Active(d) = Active(c) \ {L}
  BY <1>1, <1>2 DEF Active
<1>0. \A j, k \in Active(c) : j < k => f[j] < f[k]
  BY DEF Matched
<1> HIDE DEF L, N
<1>12. \A k \in Active(d) : /\ k \in Active(c) /\ k < L /\ g[k] = f[k]
                             /\ f[k] \in Ints(t)
  <2> SUFFICES ASSUME NEW k \in Active(d)
               PROVE  k \in Active(c) /\ k < L /\ f[k] \in Ints(t)
    OBVIOUS
  <2>0. k \in Active(c) /\ k # L
    BY <1>11
  <2>1. k \in Active(c) /\ k < L
    BY <2>0, <1>1, <1>9
  <2>2. f[k] < N
    BY <2>1, <1>0, <1>8, <1>10
  <2>3. f[k] \in Ints(s)
    BY <2>1 DEF Matched
  <2> QED
    BY <2>1, <2>2, <2>3, <1>1, <1>5
<1>13. g \in [Active(d) -> Ints(t)]
  BY <1>12
<1> HIDE DEF g
<1>14. \A j, k \in Active(d) : j < k => g[j] < g[k]
  BY <1>12 DEF Matched
<1>15. \A i \in Ints(t) : \E k \in Active(d) : g[k] = i
  <2> SUFFICES ASSUME NEW i \in Ints(t) PROVE \E k \in Active(d) : g[k] = i
    OBVIOUS
  <2>1. PICK k \in Active(c) : f[k] = i
    BY <1>5 DEF Matched
  <2>2. k # L
    BY <2>1, <1>5, <1>10
  <2> QED
    BY <2>1, <2>2, <1>11, <1>12
<1>16. ASSUME NEW k \in Active(d), NEW j \in 1 .. k - 1, d[j] \in Place, Between(d, j, k)
       PROVE  d[j] = t[g[k]].pc
  <2>1. k \in Active(c) /\ k \in Nat /\ k < L /\ g[k] = f[k]
    BY <1>9, <1>12
  <2>2. \A m \in 1 .. k - 1 : d[m] = c[m]
    BY <2>1, <1>1, <1>2
  <2>3. c[j] \in Place /\ Between(c, j, k)
    BY <1>16, <2>1, <2>2 DEF Between
  <2>4. c[j] = s[f[k]].pc
    BY <2>1, <2>3 DEF Matched
  <2>5. t[f[k]] = s[f[k]]
    BY <1>1, <1>3, <1>5, <1>12 DEF Ints
  <2> QED
    BY <2>1, <2>2, <2>4, <2>5
<1>17. Matched(g, d, t)
  BY <1>13, <1>14, <1>15, <1>16 DEF Matched
<1>18. ASSUME NEW j \in 1 .. Len(d), d[j] \in Place, Between(d, j, Len(d) + 1)
       PROVE  d[j] = Top(s).pc
  <2>1. Return \notin Place
    BY AddrAssumption DEF Return, Place, Zero
  <2>2. j < L /\ j \in 1 .. L - 1
    BY <1>18, <2>1, <1>1, <1>2
  <2>3. c[j] \in Place /\ d[j] = c[j]
    BY <1>18, <2>2, <1>2
  <2>4. Between(c, j, L)
    BY <1>18, <2>2, <1>1, <1>2 DEF Between
  <2>5. c[j] = s[f[L]].pc
    BY <2>2, <2>3, <2>4, <1>8 DEF Matched
  <2> QED
    BY <2>3, <2>5, <1>4, <1>10
<1> QED
  BY <1>17, <1>18 DEF TopAgrees, t

(* A matched call for every entry: as many of the one as of the other.      *)
LEMMA MatchedCounts ==
    ASSUME NEW f, NEW c \in Seq(CallPlace), NEW s \in Seq(StackEntry), Matched(f, c, s)
    PROVE  Cardinality(Ints(s)) = Cardinality(Active(c))
<1>1. Active(c) \subseteq 2 .. Len(c) /\ Len(c) \in Nat
  BY DEF Active
<1>2. IsFiniteSet(Active(c))
  <2>1. IsFiniteSet(2 .. Len(c))
    BY <1>1, FS_Interval
  <2> QED
    BY <1>1, <2>1, FS_Subset
<1>3. \A j, k \in Active(c) : j # k => f[j] # f[k]
  <2> SUFFICES ASSUME NEW j \in Active(c), NEW k \in Active(c), j # k
               PROVE  f[j] # f[k]
    OBVIOUS
  <2>1. j \in Nat /\ k \in Nat
    BY DEF Active
  <2>2. f[j] \in Nat /\ f[k] \in Nat
    BY DEF Matched, Ints
  <2>3. f[j] < f[k] \/ f[k] < f[j]
    BY <2>1 DEF Matched
  <2> QED
    BY <2>2, <2>3
<1>4. f \in Bijection(Active(c), Ints(s))
  BY <1>3 DEF Matched, Bijection, Injection, Surjection, IsInjective
<1> QED
  BY <1>2, <1>4, FS_Bijection DEF ExistsBijection

-----------------------------------------------------------------------------
(* The invariant of a well-behaved program.                                 *)

OrdinaryPc == (Addr \ {ResetAddr, NmiAddr}) \cup {Zero}

GoodCalls ==
    \A k \in 1 .. Len(calls) :
        \/ calls[k] \in OrdinaryPc \cup {Dispatch, Return}
        \/ phase = "run" /\ k = Len(calls) /\ calls[k] \in {ResetAddr, NmiAddr}

StackInv ==
    /\ rPC \in OrdinaryPc
    /\ \A i \in 1 .. Len(stack) : stack[i].pc \in OrdinaryPc
    /\ GoodCalls
    /\ \E f : Matched(f, calls, stack)
    /\ phase \in {"poll", "cycle"} => TopAgrees(calls, rPC)
    /\ phase = "run" /\ Top(calls) \notin {ResetAddr, NmiAddr} => Top(calls) = rPC

LEMMA Ordinary ==
    ASSUME WellBehaved
    PROVE  /\ \A p \in OrdinaryPc : p \in Place /\ p \in CallPlace /\ p \notin {ResetAddr, NmiAddr}
           /\ \A p \in Place : p \notin {Dispatch, Return, Restart}
           /\ \A p \in Target : p \in OrdinaryPc
           /\ Return \notin Place /\ Return # Dispatch
BY AddrAssumption DEF OrdinaryPc, Target, WellBehaved, Place, CallPlace, Zero, Dispatch,
                      Return, Restart

LEMMA InitStack == Init /\ WellBehaved => StackInv
<1> SUFFICES ASSUME Init, WellBehaved PROVE StackInv
  OBVIOUS
<1>1. /\ calls = <<ResetAddr>> /\ Len(calls) = 1 /\ calls[1] = ResetAddr
      /\ phase = "run" /\ rPC = Zero /\ stack = << >> /\ Len(stack) = 0
  BY DEF Init
<1>2. Active(calls) = {} /\ Ints(stack) = {}
  BY <1>1 DEF Active, Ints
<1>3. Matched([k \in {} |-> 0], calls, stack)
  BY <1>2 DEF Matched
<1>4. GoodCalls
  BY <1>1 DEF GoodCalls
<1>5. Top(calls) = ResetAddr
  BY <1>1 DEF Top
<1> QED
  BY <1>1, <1>3, <1>4, <1>5 DEF StackInv, OrdinaryPc

(* An index that is not the last lies before it.                            *)
LEMMA BelowLast ==
    ASSUME NEW n \in Nat, NEW k \in 1 .. n, k # n
    PROVE  k \in 1 .. n - 1
OBVIOUS

(* The innermost call goes on at another place.                             *)
LEMMA ReplaceStack ==
    ASSUME WellBehaved, CodeInv, CodeInv', StackInv, phase \in {"run", "dma"},
           NEW next, next \in OrdinaryPc \cup {Dispatch},
           calls' = [calls EXCEPT ![Len(calls)] = next],
           NEW s \in Seq(StackEntry), \E f : Matched(f, calls, s)
    PROVE  /\ GoodCalls' /\ \E f : Matched(f, calls', s)
           /\ Len(calls') = Len(calls) /\ calls'[Len(calls)] = next
<1>1. next # Return
  BY Ordinary
<1>2. /\ calls \in Seq(CallPlace) /\ calls # << >> /\ Top(calls) \in Place
      /\ calls' \in Seq(CallPlace)
  BY DEF CodeInv
<1>3. /\ Len(calls) \in Nat /\ Len(calls) > 0 /\ Len(calls') = Len(calls)
      /\ calls'[Len(calls)] = next
      /\ \A m \in 1 .. Len(calls) - 1 : calls'[m] = calls[m]
  BY <1>2
<1>4. calls[Len(calls)] # Return
  BY <1>2, Ordinary DEF Top
<1>5. \E f : Matched(f, calls', s)
  <2>1. PICK f : Matched(f, calls, s)
    OBVIOUS
  <2>2. Matched(f, calls', s)
    BY <2>1, <1>1, <1>2, <1>3, <1>4, MatchedReplace
  <2> QED
    BY <2>2
<1>6. GoodCalls'
  <2> SUFFICES ASSUME NEW k \in 1 .. Len(calls)
               PROVE  calls'[k] \in OrdinaryPc \cup {Dispatch, Return}
    BY <1>3 DEF GoodCalls
  <2>1. CASE k = Len(calls)
    BY <2>1, <1>3
  <2>2. CASE k # Len(calls)
    <3>0. k \in 1 .. Len(calls) - 1
      BY <2>2, <1>3, BelowLast
    <3>1. calls'[k] = calls[k]
      BY <3>0, <1>3
    <3>2. calls[k] \in OrdinaryPc \cup {Dispatch, Return}
      BY <2>2 DEF StackInv, GoodCalls
    <3> QED
      BY <3>1, <3>2
  <2> QED
    BY <2>1, <2>2
<1> QED
  BY <1>3, <1>5, <1>6

(* What does not return agrees with the PC when its own place does.         *)
LEMMA TopIsOwn ==
    ASSUME NEW c \in Seq(CallPlace), NEW pc, c # << >>, Top(c) # Return,
           Top(c) \in Place => Top(c) = pc
    PROVE  TopAgrees(c, pc)
<1>1. Len(c) \in Nat /\ Len(c) > 0
  OBVIOUS
<1> SUFFICES ASSUME NEW j \in 1 .. Len(c), c[j] \in Place, Between(c, j, Len(c) + 1)
             PROVE  c[j] = pc
  BY DEF TopAgrees
<1>2. CASE j = Len(c)
  BY <1>2 DEF Top
<1>3. CASE j # Len(c)
  <2>1. Len(c) \in j + 1 .. (Len(c) + 1) - 1
    BY <1>1, <1>3
  <2> QED
    BY <2>1 DEF Between, Top
<1> QED
  BY <1>2, <1>3

(* An instruction's call of rom_cycle goes on where the PC says, or at what *)
(* the PC says then.                                                        *)
LEMMA CallStack ==
    ASSUME WellBehaved, CodeInv, CodeInv', StackInv, Running, NEW n, NEW next,
           next \in OrdinaryPc \cup {Dispatch}, CallCycle(n, next),
           rPC' \in OrdinaryPc, next = rPC' \/ next = Dispatch,
           \A i \in 1 .. Len(stack') : stack'[i].pc \in OrdinaryPc,
           \E f : Matched(f, calls, stack')
    PROVE  StackInv'
<1>1. /\ phase' = "poll" /\ phase = "run"
      /\ calls' = [calls EXCEPT ![Len(calls)] = next]
  BY DEF CallCycle, Running
<1>2. stack' \in Seq(StackEntry) /\ calls' \in Seq(CallPlace) /\ calls' # << >>
  BY DEF CodeInv
<1>3. /\ GoodCalls' /\ \E f : Matched(f, calls', stack')
      /\ Len(calls') = Len(calls) /\ calls'[Len(calls)] = next
  BY <1>1, <1>2, ReplaceStack
<1>4. Top(calls') = next
  BY <1>3 DEF Top
<1>5. next # Return /\ (next \in Place => next = rPC')
  BY Ordinary
<1>6. TopAgrees(calls', rPC')
  BY <1>2, <1>4, <1>5, TopIsOwn
<1> QED
  BY <1>1, <1>3, <1>6 DEF StackInv

LEMMA PlainStack ==
    ASSUME WellBehaved, CodeInv, CodeInv', StackInv, Running, NEW n, NEW next \in Target,
           CallCycle(n, next), rPC' = next, UNCHANGED stack
    PROVE  StackInv'
<1>1. next \in OrdinaryPc
  BY Ordinary
<1>2. \A i \in 1 .. Len(stack') : stack'[i].pc \in OrdinaryPc
  BY DEF StackInv
<1>3. \E f : Matched(f, calls, stack')
  BY DEF StackInv
<1> QED
  BY <1>1, <1>2, <1>3, CallStack

LEMMA DmaStack ==
    ASSUME WellBehaved, CodeInv, CodeInv', StackInv, NEW n, NEW next \in Target,
           StoreDma(n, next)
    PROVE  StackInv'
<1>1. /\ phase = "run" /\ phase' = "dma" /\ UNCHANGED <<rPC, stack>>
      /\ calls' = [calls EXCEPT ![Len(calls)] = next]
  BY DEF StoreDma, Running
<1>2. next \in OrdinaryPc
  BY Ordinary
<1>3. stack \in Seq(StackEntry) /\ \E f : Matched(f, calls, stack)
  BY DEF CodeInv, StackInv
<1>4. GoodCalls' /\ \E f : Matched(f, calls', stack)
  BY <1>1, <1>2, <1>3, ReplaceStack
<1> QED
  BY <1>1, <1>4 DEF StackInv

LEMMA JsrStack ==
    ASSUME WellBehaved, CodeInv, CodeInv', StackInv, NEW n, NEW next \in Target,
           NEW back \in Target, Jsr(n, next, back)
    PROVE  StackInv'
<1> DEFINE e == Entry("ret", back)
<1>1. next \in OrdinaryPc /\ back \in OrdinaryPc /\ back \in Place
  BY Ordinary
<1>2. e \in StackEntry /\ e.kind # "int" /\ e.pc = back
  BY <1>1, EntryIn DEF Entry
<1>3. stack' = Append(stack, e) /\ rPC' = next /\ CallCycle(n, next) /\ Running
  BY DEF Jsr
<1> HIDE DEF e
<1>4. calls \in Seq(CallPlace) /\ stack \in Seq(StackEntry)
  BY DEF CodeInv
<1>5. \A i \in 1 .. Len(stack') : stack'[i].pc \in OrdinaryPc
  BY <1>1, <1>2, <1>3, <1>4 DEF StackInv
<1>6. \E f : Matched(f, calls, stack')
  <2>1. PICK f : Matched(f, calls, stack)
    BY DEF StackInv
  <2>2. Matched(f, calls, Append(stack, e))
    BY <2>1, <1>2, <1>4, MatchedPushRet
  <2> QED
    BY <2>2, <1>3
<1> QED
  BY <1>1, <1>3, <1>5, <1>6, CallStack

LEMMA RtsStack ==
    ASSUME WellBehaved, CodeInv, CodeInv', StackInv, NEW n, Rts(n)
    PROVE  StackInv'
<1>1. /\ stack # << >> /\ Top(stack).kind # "int" /\ Running
      /\ stack' = Pop(stack) /\ rPC' = Top(stack).pc /\ CallCycle(n, Dispatch)
  BY DEF Rts
<1>2. calls \in Seq(CallPlace) /\ stack \in Seq(StackEntry)
  BY DEF CodeInv
<1>3. /\ Len(stack) \in Nat /\ Len(stack) > 0 /\ Len(stack') = Len(stack) - 1
      /\ \A i \in 1 .. Len(stack) - 1 : stack'[i] = stack[i]
  BY <1>1, <1>2, PopKeeps
<1>4. \A i \in 1 .. Len(stack') : stack'[i].pc \in OrdinaryPc
  BY <1>3 DEF StackInv
<1>5. rPC' \in OrdinaryPc
  BY <1>1, <1>3 DEF StackInv, Top
<1>6. \E f : Matched(f, calls, stack')
  <2>1. PICK f : Matched(f, calls, stack)
    BY DEF StackInv
  <2>2. Matched(f, calls, Pop(stack))
    BY <2>1, <1>1, <1>2, MatchedPopRet
  <2> QED
    BY <2>2, <1>1
<1> QED
  BY <1>1, <1>4, <1>5, <1>6, CallStack

LEMMA RtiStack ==
    ASSUME WellBehaved, CodeInv, CodeInv', StackInv, NEW n, Rti(n)
    PROVE  StackInv'
<1>1. /\ stack # << >> /\ Top(stack).kind = "int" /\ phase = "run" /\ phase' = "poll"
      /\ stack' = Pop(stack) /\ rPC' = Top(stack).pc
      /\ calls' = [calls EXCEPT ![Len(calls)] = Return]
  BY DEF Rti, CallCycle, Running
<1>2. /\ calls \in Seq(CallPlace) /\ calls # << >> /\ stack \in Seq(StackEntry)
      /\ calls' \in Seq(CallPlace) /\ Top(calls) \in Place
  BY <1>1 DEF CodeInv
<1>3. /\ Len(stack) \in Nat /\ Len(stack) > 0 /\ Len(stack') = Len(stack) - 1
      /\ \A i \in 1 .. Len(stack) - 1 : stack'[i] = stack[i]
  BY <1>1, <1>2, PopKeeps
<1>4. \A i \in 1 .. Len(stack') : stack'[i].pc \in OrdinaryPc
  BY <1>3 DEF StackInv
<1>5. rPC' \in OrdinaryPc
  BY <1>1, <1>3 DEF StackInv, Top
<1>6. Len(calls) > 0 /\ Top(calls) # Return
  BY <1>2, Ordinary
<1>7. (\E f : Matched(f, calls', stack')) /\ TopAgrees(calls', rPC')
  <2>1. PICK f : Matched(f, calls, stack)
    BY DEF StackInv
  <2>2. (\E g : Matched(g, calls', Pop(stack))) /\ TopAgrees(calls', Top(stack).pc)
    BY <2>1, <1>1, <1>2, <1>6, MatchedRti
  <2> QED
    BY <2>2, <1>1
<1>8. GoodCalls'
  <2>1. /\ Len(calls) \in Nat /\ Len(calls') = Len(calls) /\ calls'[Len(calls)] = Return
        /\ \A m \in 1 .. Len(calls) - 1 : calls'[m] = calls[m]
    BY <1>1, <1>2
  <2> SUFFICES ASSUME NEW k \in 1 .. Len(calls)
               PROVE  calls'[k] \in OrdinaryPc \cup {Dispatch, Return}
    BY <2>1 DEF GoodCalls
  <2>2. CASE k = Len(calls)
    BY <2>2, <2>1
  <2>3. CASE k # Len(calls)
    <3>1. k \in 1 .. Len(calls) - 1
      BY <2>3, <2>1
    <3>2. calls'[k] = calls[k]
      BY <3>1, <2>1
    <3>3. calls[k] \in OrdinaryPc \cup {Dispatch, Return}
      BY <2>3 DEF StackInv, GoodCalls
    <3> QED
      BY <3>2, <3>3
  <2> QED
    BY <2>2, <2>3
<1> QED
  BY <1>1, <1>4, <1>5, <1>7, <1>8 DEF StackInv

LEMMA InstructionStack ==
    ASSUME WellBehaved, CodeInv, CodeInv', StackInv, Instruction
    PROVE  StackInv'
<1> PICK n \in InstrCycles :
        \/ \E next \in Target :
              \/ Plain(n, next) \/ LoadStatus(n, next) \/ StoreDma(n, next)
              \/ DropFrame(n, next)
              \/ \E on \in BOOLEAN : StoreControl(on, n, next)
              \/ \E back \in Target : Jsr(n, next, back)
        \/ Rts(n) \/ Rti(n) \/ Brk(n)
  BY DEF Instruction
<1>1. ASSUME NEW next \in Target,
             \/ Plain(n, next) \/ LoadStatus(n, next)
             \/ \E on \in BOOLEAN : StoreControl(on, n, next)
      PROVE  StackInv'
  <2>1. Running /\ CallCycle(n, next) /\ rPC' = next /\ UNCHANGED stack
    BY <1>1 DEF Plain, LoadStatus, StoreControl
  <2> QED
    BY <2>1, PlainStack
<1>2. ASSUME NEW next \in Target, StoreDma(n, next) PROVE StackInv'
  BY <1>2, DmaStack
<1>3. ASSUME NEW next \in Target, DropFrame(n, next) PROVE StackInv'
  BY <1>3 DEF DropFrame, WellBehaved
<1>4. ASSUME NEW next \in Target, NEW back \in Target, Jsr(n, next, back) PROVE StackInv'
  BY <1>4, JsrStack
<1>5. ASSUME Rts(n) PROVE StackInv'
  BY <1>5, RtsStack
<1>6. ASSUME Rti(n) PROVE StackInv'
  BY <1>6, RtiStack
<1>7. ASSUME Brk(n) PROVE StackInv'
  BY <1>7 DEF Brk, WellBehaved
<1> QED
  BY <1>1, <1>2, <1>3, <1>4, <1>5, <1>6, <1>7

-----------------------------------------------------------------------------
(* rom_cycle.                                                               *)

LEMMA DmaDoneStack ==
    ASSUME WellBehaved, CodeInv, StackInv, DmaDone
    PROVE  StackInv'
<1>1. /\ phase = "dma" /\ phase' = "poll" /\ rPC' = Top(calls)
      /\ UNCHANGED <<calls, stack>>
  BY DEF DmaDone
<1>2. /\ calls \in Seq(CallPlace) /\ calls # << >> /\ Top(calls) \in Place
  BY <1>1 DEF CodeInv
<1>3. Len(calls) \in Nat /\ Len(calls) > 0
  BY <1>2
<1>4. Top(calls) \in OrdinaryPc \cup {Dispatch, Return}
  BY <1>1, <1>3 DEF StackInv, GoodCalls, Top
<1>5. Top(calls) \in OrdinaryPc /\ Top(calls) # Return
  BY <1>2, <1>4, Ordinary
<1>6. TopAgrees(calls, Top(calls))
  BY <1>2, <1>5, TopIsOwn
<1>7. GoodCalls'
  BY <1>1 DEF StackInv, GoodCalls
<1> QED
  BY <1>1, <1>5, <1>6, <1>7 DEF StackInv

LEMMA NmiStack ==
    ASSUME WellBehaved, CodeInv, StackInv, DeliverNmi
    PROVE  StackInv'
<1>1. /\ phase = "cycle" /\ phase' = "run" /\ UNCHANGED rPC
      /\ calls' = Append(calls, NmiAddr) /\ stack' = Append(stack, Entry("int", rPC))
  BY AddrAssumption DEF DeliverNmi, Stepped, Reach
<1>2. /\ calls \in Seq(CallPlace) /\ calls # << >> /\ stack \in Seq(StackEntry)
      /\ rPC \in Place /\ Entry("int", rPC) \in StackEntry
  BY EntryIn DEF CodeInv
<1>3. NmiAddr \in CallPlace /\ NmiAddr # Return
  BY AddrAssumption DEF CallPlace, Place
<1>4. /\ Len(calls) \in Nat /\ Len(calls) > 0 /\ Len(calls') = Len(calls) + 1
      /\ calls'[Len(calls) + 1] = NmiAddr
      /\ \A k \in 1 .. Len(calls) : calls'[k] = calls[k]
  BY <1>1, <1>2
<1>5. Entry("int", rPC).pc \in OrdinaryPc
  BY DEF StackInv, Entry
<1>6. /\ Len(stack) \in Nat /\ Len(stack') = Len(stack) + 1
      /\ stack'[Len(stack) + 1] = Entry("int", rPC)
      /\ \A k \in 1 .. Len(stack) : stack'[k] = stack[k]
  BY <1>1, <1>2
<1>7. \A i \in 1 .. Len(stack') : stack'[i].pc \in OrdinaryPc
  BY <1>5, <1>6 DEF StackInv
<1>8. \E g : Matched(g, calls', stack')
  <2>1. PICK f : Matched(f, calls, stack)
    BY DEF StackInv
  <2>2. TopAgrees(calls, rPC)
    BY <1>1 DEF StackInv
  <2>3. \E g : Matched(g, Append(calls, NmiAddr), Append(stack, Entry("int", rPC)))
    BY <2>1, <2>2, <1>2, <1>3, <1>4, MatchedInterrupt
  <2> QED
    BY <2>3, <1>1
<1>9. GoodCalls'
  BY <1>1, <1>4 DEF StackInv, GoodCalls
<1>10. Top(calls') = NmiAddr
  BY <1>4 DEF Top
<1> QED
  BY <1>1, <1>7, <1>8, <1>9, <1>10 DEF StackInv

LEMMA GoOnStack ==
    ASSUME WellBehaved, CodeInv, CodeInv', StackInv, GoOn
    PROVE  StackInv'
<1> DEFINE L == Len(calls)
           pc == CASE Top(calls) = Dispatch -> rPC
                   [] Top(calls) = Restart  -> ResetAddr
                   [] OTHER                 -> Top(calls)
<1>1. /\ phase = "cycle" /\ phase' = "run" /\ UNCHANGED rPC /\ Top(calls) # Return
      /\ Reach(Pop(calls), pc)
  BY DEF GoOn, Stepped, Reach
<1>2. /\ calls \in Seq(CallPlace) /\ calls # << >> /\ stack \in Seq(StackEntry)
      /\ calls' \in Seq(CallPlace)
  BY DEF CodeInv
<1>3. L \in Nat /\ L > 0
  BY <1>2
<1>4. Top(calls) \in OrdinaryPc \cup {Dispatch}
  BY <1>1, <1>3 DEF StackInv, GoodCalls, Top
<1>5. Top(calls) \in OrdinaryPc => Top(calls) = rPC
  <2>1. SUFFICES ASSUME Top(calls) \in OrdinaryPc PROVE Top(calls) = rPC
    OBVIOUS
  <2>2. calls[L] \in Place /\ L \in 1 .. L
    BY <2>1, <1>3, Ordinary DEF Top
  <2>3. Between(calls, L, L + 1)
    BY <1>3 DEF Between
  <2>4. TopAgrees(calls, rPC)
    BY <1>1 DEF StackInv
  <2> QED
    BY <2>2, <2>3, <2>4 DEF TopAgrees, Top
<1>6. pc = rPC /\ pc \in OrdinaryPc
  <2>1. rPC \in OrdinaryPc
    BY DEF StackInv
  <2>2. \A p \in OrdinaryPc : p \notin {Dispatch, Restart}
    BY Ordinary
  <2>3. Dispatch # Restart
    BY DEF Dispatch, Restart
  <2>4. CASE Top(calls) = Dispatch
    BY <2>1, <2>3, <2>4
  <2>5. CASE Top(calls) \in OrdinaryPc
    BY <2>1, <2>2, <2>5, <1>5
  <2> QED
    BY <2>4, <2>5, <1>4
<1>7. calls' = Append(Pop(calls), pc) /\ pc \notin {ResetAddr, NmiAddr} /\ pc # Return
  BY <1>1, <1>6, Ordinary DEF Reach
<1>8. UNCHANGED stack
  BY <1>1, <1>7 DEF Reach
<1> HIDE DEF pc
<1>9. /\ Pop(calls) \in Seq(CallPlace) /\ Len(Pop(calls)) = L - 1
      /\ \A i \in 1 .. L - 1 : Pop(calls)[i] = calls[i]
  BY <1>2, PopIn, PopKeeps
<1>10. /\ Len(calls') = L /\ calls'[L] = pc
       /\ \A m \in 1 .. L - 1 : calls'[m] = calls[m]
  BY <1>3, <1>7, <1>9
<1>11. calls[L] # Return
  BY <1>1 DEF Top
<1>12. \E f : Matched(f, calls', stack)
  <2>1. PICK f : Matched(f, calls, stack)
    BY DEF StackInv
  <2>2. Matched(f, calls', stack)
    BY <2>1, <1>2, <1>3, <1>7, <1>10, <1>11, MatchedReplace
  <2> QED
    BY <2>2
<1>13. GoodCalls'
  <2> SUFFICES ASSUME NEW k \in 1 .. L
               PROVE  calls'[k] \in OrdinaryPc \cup {Dispatch, Return}
    BY <1>10 DEF GoodCalls
  <2>1. CASE k = L
    BY <2>1, <1>6, <1>10
  <2>2. CASE k # L
    <3>1. k \in 1 .. L - 1
      BY <2>2, <1>3
    <3>2. calls'[k] = calls[k]
      BY <3>1, <1>10
    <3>3. calls[k] \in OrdinaryPc \cup {Dispatch, Return}
      BY <1>1 DEF StackInv, GoodCalls
    <3> QED
      BY <3>2, <3>3
  <2> QED
    BY <2>1, <2>2
<1>14. Top(calls') = rPC
  BY <1>6, <1>10 DEF Top
<1> QED
  BY <1>1, <1>8, <1>12, <1>13, <1>14 DEF StackInv

LEMMA ReturnStack ==
    ASSUME WellBehaved, CodeInv, StackInv, ReturnNested
    PROVE  StackInv'
<1>1. /\ phase = "cycle" /\ UNCHANGED <<phase, rPC, stack>>
      /\ Top(calls) = Return /\ Len(calls) > 1 /\ calls' = Pop(calls)
  BY DEF ReturnNested, Stepped
<1>2. calls \in Seq(CallPlace) /\ calls # << >> /\ stack \in Seq(StackEntry)
  BY DEF CodeInv
<1>3. /\ Len(calls) \in Nat /\ Len(calls') = Len(calls) - 1
      /\ \A i \in 1 .. Len(calls) - 1 : calls'[i] = calls[i]
  BY <1>1, <1>2, PopKeeps
<1>4. \E f : Matched(f, calls', stack)
  <2>1. PICK f : Matched(f, calls, stack)
    BY DEF StackInv
  <2>2. Matched(f, Pop(calls), stack)
    BY <2>1, <1>1, <1>2, MatchedReturn
  <2> QED
    BY <2>2, <1>1
<1>5. TopAgrees(calls', rPC)
  <2>1. TopAgrees(calls, rPC)
    BY <1>1 DEF StackInv
  <2> QED
    BY <2>1, <1>1, <1>2, TopReturn
<1>6. GoodCalls'
  BY <1>1, <1>3 DEF StackInv, GoodCalls
<1> QED
  BY <1>1, <1>4, <1>5, <1>6 DEF StackInv

LEMMA MachineStack ==
    ASSUME WellBehaved, CodeInv, CodeInv', StackInv, Machine
    PROVE  StackInv'
<1>1. CASE DmaDone
  BY <1>1, DmaDoneStack
<1>2. CASE StartStep
  BY <1>2 DEF StartStep, StackInv, GoodCalls
<1>3. CASE Quit \/ ReturnToMain
  BY <1>3 DEF Quit, ReturnToMain, Stepped, StackInv, GoodCalls
<1>4. CASE StepDot
  BY <1>4 DEF StepDot, StackInv, GoodCalls
<1>5. CASE DeliverNmi
  BY <1>5, NmiStack
<1>6. CASE GoOn
  BY <1>6, GoOnStack
<1>7. CASE ReturnNested
  BY <1>7, ReturnStack
<1> QED
  BY <1>1, <1>2, <1>3, <1>4, <1>5, <1>6, <1>7 DEF Machine

RuntimeInv == CodeInv /\ (WellBehaved => StackInv)

LEMMA InitRuntime == Init => RuntimeInv
BY InitCode, InitStack DEF RuntimeInv

LEMMA ProgramStays == [Next]_vars => UNCHANGED program
BY DEF Next, vars, Instruction, Plain, LoadStatus, StoreDma, DropFrame, StoreControl, Jsr,
       Rts, Rti, Brk, CallCycle, Machine, DmaDone, StartStep, Quit, StepDot, DeliverNmi,
       GoOn, ReturnNested, ReturnToMain

LEMMA NextRuntime == RuntimeInv /\ [Next]_vars => RuntimeInv'
<1> SUFFICES ASSUME RuntimeInv, [Next]_vars PROVE RuntimeInv'
  OBVIOUS
<1>1. CodeInv /\ CodeInv'
  BY NextCode DEF RuntimeInv
<1>2. ASSUME WellBehaved' PROVE StackInv'
  <2>1. WellBehaved /\ StackInv
    BY <1>2, ProgramStays DEF WellBehaved, RuntimeInv
  <2>2. CASE UNCHANGED vars
    BY <2>1, <2>2 DEF vars, StackInv, GoodCalls
  <2>3. CASE Instruction
    BY <2>1, <2>3, <1>1, InstructionStack
  <2>4. CASE Machine
    BY <2>1, <2>4, <1>1, MachineStack
  <2> QED
    BY <2>2, <2>3, <2>4 DEF Next
<1> QED
  BY <1>1, <1>2 DEF RuntimeInv

(* The generated code resumes where the PC register says, however deep      *)
(* interrupts nest and whatever their handlers call.                        *)
THEOREM ResumesWherePcSays == Spec => []ResumeAgrees
<1>1. RuntimeInv => ResumeAgrees
  BY DEF RuntimeInv, StackInv, ResumeAgrees
<1> QED
  BY InitRuntime, NextRuntime, <1>1, PTL DEF Spec

(* Every nested rom_start has its interrupt's entry on the 6502 stack until *)
(* it executes its RTI, at any depth.                                       *)
THEOREM CallsAlwaysMatchStack == Spec => []CallsMatchStack
<1>1. RuntimeInv => CallsMatchStack
  <2> SUFFICES ASSUME RuntimeInv, WellBehaved
               PROVE  Cardinality(Interrupts) =
                        Cardinality({k \in 2 .. Len(calls) : calls[k] # Return})
    BY DEF CallsMatchStack
  <2>1. calls \in Seq(CallPlace) /\ stack \in Seq(StackEntry)
    BY DEF RuntimeInv, CodeInv
  <2>2. PICK f : Matched(f, calls, stack)
    BY DEF RuntimeInv, StackInv
  <2>3. Cardinality(Ints(stack)) = Cardinality(Active(calls))
    BY <2>1, <2>2, MatchedCounts
  <2>4. DOMAIN stack = 1 .. Len(stack)
    BY <2>1
  <2>5. Interrupts = Ints(stack)
    BY <2>4 DEF Interrupts, Ints
  <2> QED
    BY <2>3, <2>5 DEF Active
<1> QED
  BY InitRuntime, NextRuntime, <1>1, PTL DEF Spec

-----------------------------------------------------------------------------
(* Loads, stores and arithmetic.                                            *)

(* Above RAM, the two copies of the map agree register by register.         *)
LEMMA PpuStoresAgree ==
    ASSUME NEW r \in 0 .. 7
    PROVE  DynStorePpu(r) = StorePpu(r)
BY DEF DynStorePpu, StorePpu, PpuWritten

LEMMA IoStoresAgree ==
    ASSUME NEW addr \in Words, addr >= PpuEnd
    PROVE  DynStoreIo(addr) = StoreIo(addr)
<1>1. CASE IsApuWritten(addr)
  <2>1. addr \notin {16393, 16397, Dma, Pad1} /\ ~(addr > Pad2)
    BY <1>1 DEF IsApuWritten, PpuEnd, Words, Dma, Pad1, Pad2
  <2> QED
    BY <1>1, <2>1 DEF DynStoreIo, StoreIo
<1>2. CASE addr \in {Dma, Pad1}
  <2>1. ~IsApuWritten(addr) /\ addr \notin {16393, 16397} /\ Dma # Pad1 /\ ~(addr > Pad2)
    BY <1>2 DEF IsApuWritten, PpuEnd, Words, Dma, Pad1, Pad2
  <2> QED
    BY <1>2, <2>1 DEF DynStoreIo, StoreIo
<1>3. CASE ~IsApuWritten(addr) /\ addr \notin {Dma, Pad1}
  <2>1. addr \in {16393, 16397} \/ addr > Pad2
    BY <1>3 DEF IsApuWritten, PpuEnd, Words, Dma, Pad1, Pad2
  <2> QED
    BY <1>3, <2>1 DEF DynStoreIo, StoreIo
<1> QED
  BY <1>1, <1>2, <1>3

LEMMA HighLoadsAgree ==
    ASSUME NEW addr \in Words, addr >= PpuEnd
    PROVE  DynLoadHigh(addr) = LoadHigh(addr)
BY DEF DynLoadHigh, LoadHigh, PrgBase, ApuStatus, Pad1, Pad2

(* Every address is in one of three regions. *)
LEMMA Regions ==
    ASSUME NEW addr \in Words
    PROVE  \/ addr < RamEnd
           \/ IsPpu(addr) /\ ~(addr < RamEnd)
           \/ addr >= PpuEnd /\ ~IsPpu(addr) /\ ~(addr < RamEnd)
BY DEF Words, IsPpu, RamEnd, PpuEnd

LEMMA RegisterInRange ==
    ASSUME NEW addr \in Words
    PROVE  addr % 8 \in 0 .. 7
BY DEF Words

LEMMA CheckedStoreAgrees ==
    ASSUME NEW addr \in Words
    PROVE  DynStoreChecked(addr) = StoreMapped(addr)
<1>1. DynStorePpu(addr % 8) = StorePpu(addr % 8)
  BY RegisterInRange, PpuStoresAgree
<1>2. addr >= PpuEnd => DynStoreIo(addr) = StoreIo(addr)
  BY IoStoresAgree
<1> QED
  BY <1>1, <1>2, Regions DEF DynStoreChecked, StoreMapped

LEMMA CheckedLoadAgrees ==
    ASSUME NEW addr \in Words
    PROVE  DynLoadChecked(addr) = Load(addr)
<1>1. DynLoadPpu(addr % 8) = LoadPpu(addr % 8)
  BY DEF DynLoadPpu, LoadPpu
<1>2. addr >= PpuEnd => DynLoadHigh(addr) = LoadHigh(addr)
  BY HighLoadsAgree
<1> QED
  BY <1>1, <1>2, Regions DEF DynLoadChecked, Load

(* dynStore, given an upper bound of the address, stores where store does.  *)
LEMMA DynStoreMapped ==
    ASSUME NEW addr \in Words, NEW maxAddr \in Nat, addr <= maxAddr
    PROVE  DynStore(addr, maxAddr) = StoreMapped(addr)
<1>1. CASE maxAddr < 2048
  <2>1. addr < RamEnd /\ addr % 2048 = addr /\ ~IsPpu(addr)
    BY <1>1 DEF Words, RamEnd, IsPpu
  <2>2. DynStore(addr, maxAddr) = Ram(addr)
    BY <1>1 DEF DynStore
  <2>3. StoreMapped(addr) = Ram(addr % 2048)
    BY <2>1 DEF StoreMapped
  <2> QED
    BY <2>1, <2>2, <2>3 DEF Ram
<1>2. CASE ~(maxAddr < 2048)
  BY <1>2, CheckedStoreAgrees DEF DynStore
<1> QED
  BY <1>1, <1>2

LEMMA DynStoreAgrees ==
    ASSUME NEW addr \in Words, NEW maxAddr \in Nat, addr <= maxAddr,
           addr \notin {PutChar, Exit}
    PROVE  DynStore(addr, maxAddr) = Store(addr)
BY DynStoreMapped DEF Store

(* dynLoad, given bounds that hold unless the address wrapped around, loads *)
(* from where load does.                                                    *)
LEMMA DynLoadAgrees ==
    ASSUME NEW addr \in Words, NEW minAddr \in Nat, NEW maxAddr \in Nat,
           addr <= maxAddr,
           minAddr <= addr \/ maxAddr >= 65536
    PROVE  DynLoad(addr, minAddr, maxAddr) = Load(addr)
<1>1. CASE maxAddr < 2048
  <2>1. addr < RamEnd /\ addr % 2048 = addr /\ ~(2048 <= maxAddr) /\ ~IsPpu(addr)
    BY <1>1 DEF Words, RamEnd, IsPpu
  <2>2. ~(minAddr >= PrgBase)
    BY <1>1 DEF Words, PrgBase
  <2>3. DynLoad(addr, minAddr, maxAddr) = Ram(addr)
    BY <1>1, <2>1, <2>2 DEF DynLoad
  <2>4. Load(addr) = Ram(addr % 2048)
    BY <2>1 DEF Load
  <2> QED
    BY <2>1, <2>3, <2>4 DEF Ram
<1>2. CASE 2048 <= maxAddr /\ maxAddr < RamEnd
  <2>1. addr < RamEnd /\ ~(maxAddr < 2048) /\ ~(minAddr >= PrgBase) /\ ~IsPpu(addr)
    BY <1>2 DEF Words, RamEnd, PrgBase, IsPpu
  <2>2. DynLoad(addr, minAddr, maxAddr) = Ram(addr % 2048)
    BY <1>2, <2>1 DEF DynLoad
  <2>3. Load(addr) = Ram(addr % 2048)
    BY <2>1 DEF Load
  <2> QED
    BY <2>2, <2>3
<1>3. CASE minAddr >= PrgBase /\ maxAddr < 65536
  <2>1. /\ addr >= PrgBase /\ ~IsPpu(addr) /\ ~(addr < RamEnd)
        /\ addr \notin {ApuStatus, Pad1, Pad2}
    BY <1>3 DEF Words, PrgBase, RamEnd, IsPpu, PpuEnd, ApuStatus, Pad1, Pad2
  <2>2. ~(maxAddr < 2048) /\ ~(maxAddr < RamEnd)
    BY <1>3 DEF Words, PrgBase, RamEnd
  <2>3. LoadHigh(addr) = Prg(addr - PrgBase)
    BY <2>1 DEF LoadHigh
  <2>4. Load(addr) = LoadHigh(addr)
    BY <2>1 DEF Load
  <2> QED
    BY <1>3, <2>2, <2>3, <2>4 DEF DynLoad
<1>4. CASE /\ ~(maxAddr < 2048) /\ ~(maxAddr < RamEnd)
           /\ ~(minAddr >= PrgBase /\ maxAddr < 65536)
  BY <1>4, CheckedLoadAgrees DEF DynLoad
<1> QED
  BY <1>1, <1>2, <1>3, <1>4

(* A device lies inside its array. *)
InArray(device) ==
    /\ device[1] = "wram" => device[2] \in Nat /\ device[2] < 2048
    /\ device[1] = "prg" => device[2] \in Nat /\ device[2] < 32768

LEMMA MirrorInArray ==
    ASSUME NEW addr \in Words
    PROVE  InArray(Ram(addr % 2048))
BY DEF InArray, Ram, Words

(* What load and store reach lies inside its array. *)
LEMMA LoadInArray ==
    ASSUME NEW addr \in Words
    PROVE  InArray(Load(addr))
<1>1. InArray(LoadPpu(addr % 8))
  BY DEF InArray, LoadPpu, Rejected
<1>2. addr >= PrgBase => InArray(Prg(addr - PrgBase))
  BY DEF InArray, Prg, PrgBase, Words
<1>3. InArray(LoadHigh(addr))
  <2>1. InArray(<<"apuRead", 0>>)
    BY DEF InArray
  <2>2. InArray(<<"padRead", 0>>)
    BY DEF InArray
  <2>3. InArray(<<"padRead", 1>>)
    BY DEF InArray
  <2>4. InArray(Rejected)
    BY DEF InArray, Rejected
  <2> QED
    BY <1>2, <2>1, <2>2, <2>3, <2>4 DEF LoadHigh
<1> QED
  BY <1>1, <1>3, MirrorInArray DEF Load

LEMMA StoreInArray ==
    ASSUME NEW addr \in Words
    PROVE  InArray(StoreMapped(addr)) /\ InArray(Store(addr))
<1>1. InArray(StorePpu(addr % 8))
  BY DEF InArray, StorePpu, Rejected
<1>2. InArray(StoreIo(addr))
  <2>1. InArray(<<"dma", 0>>) /\ InArray(<<"padWrite", 0>>) /\ InArray(<<"apuWrite", addr>>)
    BY DEF InArray
  <2>2. InArray(Rejected)
    BY DEF InArray, Rejected
  <2> QED
    BY <2>1, <2>2 DEF StoreIo
<1>3. InArray(StoreMapped(addr))
  BY <1>1, <1>2, MirrorInArray DEF StoreMapped
<1>4. InArray(<<"putchar", 0>>) /\ InArray(<<"exit", 0>>)
  BY DEF InArray
<1> QED
  BY <1>3, <1>4 DEF Store

(* A store, a load: what each action does, in the form the invariants need. *)
LEMMA StoreAccess ==
    ASSUME NEW addr \in Words, NEW device,
           \/ device = Store(addr)
           \/ addr \in {PutChar, Exit} /\ device = StoreMapped(addr),
           Access("store", device, addr)
    PROVE  (BusTypeOK /\ MapsAgree)'
<1>1. InArray(device)
  BY StoreInArray
<1>2. kind' = "store" /\ reached' = device /\ meant' = addr
  BY DEF Access
<1>3. BusTypeOK'
  BY <1>1, <1>2 DEF InArray, BusTypeOK, Words
<1>4. MapsAgree'
  BY <1>2 DEF MapsAgree
<1> QED
  BY <1>3, <1>4

LEMMA LoadAccess ==
    ASSUME NEW addr \in Words, Access("load", Load(addr), addr)
    PROVE  (BusTypeOK /\ MapsAgree)'
<1>1. InArray(Load(addr))
  BY LoadInArray
<1>2. kind' = "load" /\ reached' = Load(addr) /\ meant' = addr
  BY DEF Access
<1>3. BusTypeOK'
  BY <1>1, <1>2 DEF InArray, BusTypeOK, Words
<1>4. MapsAgree'
  BY <1>2 DEF MapsAgree
<1> QED
  BY <1>3, <1>4

(* The same for a computed address, with the bounds the mode gives.          *)
LEMMA DynLoadAccess ==
    ASSUME NEW addr \in Words, NEW minAddr \in Nat, NEW maxAddr \in Nat,
           addr <= maxAddr,
           minAddr <= addr \/ maxAddr >= 65536,
           Access("load", DynLoad(addr, minAddr, maxAddr), addr)
    PROVE  (BusTypeOK /\ MapsAgree)'
<1>1. DynLoad(addr, minAddr, maxAddr) = Load(addr)
  BY DynLoadAgrees
<1>2. Access("load", Load(addr), addr)
  BY <1>1
<1> QED
  BY <1>2, LoadAccess

LEMMA DynStoreAccess ==
    ASSUME NEW addr \in Words, NEW maxAddr \in Nat, addr <= maxAddr,
           Access("store", DynStore(addr, maxAddr), addr)
    PROVE  (BusTypeOK /\ MapsAgree)'
<1>1. CASE addr \in {PutChar, Exit}
  <2>1. DynStore(addr, maxAddr) = StoreMapped(addr)
    BY DynStoreMapped
  <2>2. Access("store", StoreMapped(addr), addr)
    BY <2>1
  <2> QED
    BY <1>1, <2>2, StoreAccess
<1>2. CASE addr \notin {PutChar, Exit}
  <2>1. DynStore(addr, maxAddr) = Store(addr)
    BY <1>2, DynStoreAgrees
  <2>2. Access("store", Store(addr), addr)
    BY <2>1
  <2> QED
    BY <2>2, StoreAccess
<1> QED
  BY <1>1, <1>2

LEMMA BusInvariant == BusSpec => [](BusTypeOK /\ MapsAgree)
<1>1. BusInit => BusTypeOK /\ MapsAgree
  <2>1. Load(RamEnd) = Rejected
    <3>1. IsPpu(RamEnd) /\ ~(RamEnd < RamEnd) /\ RamEnd % 8 \notin PpuRead
      BY DEF IsPpu, RamEnd, PpuEnd, PpuRead
    <3> QED
      BY <3>1 DEF Load, LoadPpu
  <2>2. RamEnd \in Words
    BY DEF RamEnd, Words
  <2> QED
    BY <2>1, <2>2 DEF BusInit, BusTypeOK, MapsAgree, Rejected
<1>2. ASSUME BusTypeOK /\ MapsAgree, [BusNext]_busVars
      PROVE  (BusTypeOK /\ MapsAgree)'
  <2>1. ASSUME NEW base \in Base, LoadAbs(base)
        PROVE  (BusTypeOK /\ MapsAgree)'
    <3>1. base \in Words
      BY BusAssumption
    <3>2. Access("load", Load(base), base)
      BY <2>1 DEF LoadAbs
    <3> QED
      BY <3>1, <3>2, LoadAccess
  <2>2. ASSUME NEW base \in Base, StoreAbs(base)
        PROVE  (BusTypeOK /\ MapsAgree)'
    <3>1. base \in Words
      BY BusAssumption
    <3>2. Access("store", Store(base), base)
      BY <2>2 DEF StoreAbs
    <3> QED
      BY <3>1, <3>2, StoreAccess
  <2>3. ASSUME NEW base \in Base, NEW index \in Index, LoadAbsIndexed(base, index)
        PROVE  (BusTypeOK /\ MapsAgree)'
    <3>1. /\ Word(base + index) \in Words /\ base \in Nat /\ base + 255 \in Nat
          /\ Word(base + index) <= base + 255
          /\ base <= Word(base + index) \/ base + 255 >= 65536
      BY BusAssumption DEF Word, Words, Bytes
    <3>2. Access("load", DynLoad(Word(base + index), base, base + 255), Word(base + index))
      BY <2>3 DEF LoadAbsIndexed
    <3> QED
      BY <3>1, <3>2, DynLoadAccess
  <2>4. ASSUME NEW base \in Base, NEW index \in Index, StoreAbsIndexed(base, index)
        PROVE  (BusTypeOK /\ MapsAgree)'
    <3>1. Word(base + index) \in Words /\ base + 255 \in Nat /\ Word(base + index) <= base + 255
      BY BusAssumption DEF Word, Words, Bytes
    <3>2. Access("store", DynStore(Word(base + index), base + 255), Word(base + index))
      BY <2>4 DEF StoreAbsIndexed
    <3> QED
      BY <3>1, <3>2, DynStoreAccess
  <2>5. ASSUME NEW base \in Base, NEW index \in Index, LoadZpgIndexed(base, index)
        PROVE  (BusTypeOK /\ MapsAgree)'
    <3>1. Zpg(base + index) \in Words /\ 0 <= Zpg(base + index) /\ Zpg(base + index) <= 255
      BY BusAssumption DEF Zpg, Words, Bytes
    <3>2. Access("load", DynLoad(Zpg(base + index), 0, 255), Zpg(base + index))
      BY <2>5 DEF LoadZpgIndexed
    <3> QED
      BY <3>1, <3>2, DynLoadAccess
  <2>6. ASSUME NEW base \in Base, NEW index \in Index, StoreZpgIndexed(base, index)
        PROVE  (BusTypeOK /\ MapsAgree)'
    <3>1. Zpg(base + index) \in Words /\ Zpg(base + index) <= 255
      BY BusAssumption DEF Zpg, Words, Bytes
    <3>2. Access("store", DynStore(Zpg(base + index), 255), Zpg(base + index))
      BY <2>6 DEF StoreZpgIndexed
    <3> QED
      BY <3>1, <3>2, DynStoreAccess
  <2>7. ASSUME NEW base \in Base, NEW index \in Index, LoadIndirectY(base, index)
        PROVE  (BusTypeOK /\ MapsAgree)'
    <3>1. Word(base + index) \in Words /\ 0 <= Word(base + index) /\ Word(base + index) <= 65535
      BY BusAssumption DEF Word, Words, Bytes
    <3>2. Access("load", DynLoad(Word(base + index), 0, 65535), Word(base + index))
      BY <2>7 DEF LoadIndirectY
    <3> QED
      BY <3>1, <3>2, DynLoadAccess
  <2>8. ASSUME NEW base \in Base, NEW index \in Index, StoreIndirectY(base, index)
        PROVE  (BusTypeOK /\ MapsAgree)'
    <3>1. Word(base + index) \in Words /\ Word(base + index) <= 65535
      BY BusAssumption DEF Word, Words, Bytes
    <3>2. Access("store", DynStore(Word(base + index), 65535), Word(base + index))
      BY <2>8 DEF StoreIndirectY
    <3> QED
      BY <3>1, <3>2, DynStoreAccess
  <2>9. ASSUME NEW base \in Base, NEW index \in Index, NEW pointer \in Base,
               LoadIndirectX(base, index, pointer)
        PROVE  (BusTypeOK /\ MapsAgree)'
    <3>1. kind' = "loadIndirectX" /\ meant' = pointer
      BY <2>9 DEF LoadIndirectX, Access
    <3>2. pointer \in Words
      BY BusAssumption
    <3> QED
      BY <3>1, <3>2 DEF BusTypeOK, MapsAgree
  <2>10. ASSUME NEW sp \in Index, Push(sp)
        PROVE  (BusTypeOK /\ MapsAgree)'
    <3>1. 256 + sp \in Words /\ 256 + sp <= 511
      BY BusAssumption DEF Words, Bytes
    <3>2. Access("store", DynStore(256 + sp, 511), 256 + sp)
      BY <2>10 DEF Push
    <3> QED
      BY <3>1, <3>2, DynStoreAccess
  <2>11. ASSUME NEW sp \in Index, Pull(sp)
        PROVE  (BusTypeOK /\ MapsAgree)'
    <3>1. 256 + sp \in Words /\ 256 <= 256 + sp /\ 256 + sp <= 511
      BY BusAssumption DEF Words, Bytes
    <3>2. Access("load", DynLoad(256 + sp, 256, 511), 256 + sp)
      BY <2>11 DEF Pull
    <3> QED
      BY <3>1, <3>2, DynLoadAccess
  <2>12. CASE UNCHANGED busVars
    BY <1>2, <2>12 DEF busVars, BusTypeOK, MapsAgree
  <2> QED
    BY <1>2, <2>1, <2>2, <2>3, <2>4, <2>5, <2>6, <2>7, <2>8, <2>9, <2>10, <2>11, <2>12
    DEF BusNext
<1> QED
  BY <1>1, <1>2, PTL DEF BusSpec

(* No access but lda (zp,x) leaves the arrays, for any program and index.   *)
THEOREM BusTypeCorrect == BusSpec => []BusTypeOK
BY BusInvariant, PTL

(* A computed address reaches the device the same literal reaches.          *)
THEOREM MapsAgreeAlways == BusSpec => []MapsAgree
BY BusInvariant, PTL

-----------------------------------------------------------------------------
(* The parts of a chained number are numbers. *)
ChainOK ==
    chain \in [op : {"none", "add", "sub", "shl", "shr"}, left : Int, right : Int,
               result : Int, weight : Int, digits : Nat]

-----------------------------------------------------------------------------
(* One byte balances. *)
LEMMA AdcBalances ==
    ASSUME NEW x \in Byte, NEW y \in Byte, NEW c \in {0, 1}
    PROVE  /\ Wrap(Wrap(x + y) + c) \in Byte
           /\ CarryAddition(x, y, c) \in {0, 1}
           /\ x + y = Wrap(Wrap(x + y) + c) - c + CarryAddition(x, y, c) * Modulus
BY AluAssumption DEF Byte, Modulus, Wrap, CarryAddition

LEMMA SbcBalances ==
    ASSUME NEW x \in Byte, NEW y \in Byte, NEW c \in {0, 1}
    PROVE  /\ Wrap(Wrap(Wrap(x - y) + c) - 1) \in Byte
           /\ CarrySubtraction3(x, y, c) \in {0, 1}
           /\ x - y = Wrap(Wrap(Wrap(x - y) + c) - 1) + (1 - c)
                          - (1 - CarrySubtraction3(x, y, c)) * Modulus
BY AluAssumption DEF Byte, Modulus, Wrap, CarrySubtraction3

LEMMA RolBalances ==
    ASSUME NEW x \in Byte, NEW c \in {0, 1}
    PROVE  /\ Wrap(x + x) \in Int
           /\ Wrap(x + x) + c \in Byte
           /\ 2 * x = Wrap(x + x) + (IF Sign(x) THEN 1 ELSE 0) * Modulus
BY AluAssumption DEF Byte, Modulus, Wrap, Sign

LEMMA RorBalances ==
    ASSUME NEW x \in Byte, NEW c \in {0, 1}
    PROVE  /\ (x \div 2) + c * Half \in Byte
           /\ x % 2 \in {0, 1}
           /\ x = 2 * (x \div 2) + (x % 2)
<1>1. x \in Int /\ 0 <= x /\ x < 2 * Half
  BY AluAssumption DEF Byte, Modulus
<1>2. x \div 2 \in Int
  BY <1>1
<1>4. x % 2 \in 0 .. 1
  BY <1>1
<1>5. x = 2 * (x \div 2) + (x % 2)
  BY <1>1
<1>3. 0 <= x \div 2 /\ x \div 2 < Half
  BY <1>1, <1>2, AluAssumption
<1> QED
  BY <1>2, <1>3, AluAssumption DEF Byte, Modulus

(* The balance of a byte, multiplied by the byte's weight. *)
LEMMA Weighted ==
    ASSUME NEW x \in Int, NEW y \in Int, NEW w \in Int, NEW m \in Int,
           NEW k \in {0, 1}, x = y + k * m
    PROVE  x * w = y * w + k * (w * m)
<1>1. CASE k = 0
  BY <1>1
<1>2. CASE k = 1
  <2>1. x = y + m
    BY <1>2
  <2>2. (y + m) * w = y * w + m * w
    OBVIOUS
  <2>3. m * w = w * m
    OBVIOUS
  <2> QED
    BY <1>2, <2>1, <2>2, <2>3
<1> QED
  BY <1>1, <1>2

LEMMA Distributes ==
    ASSUME NEW x \in Int, NEW y \in Int, NEW w \in Int
    PROVE  (x + y) * w = x * w + y * w /\ (x - y) * w = x * w - y * w
OBVIOUS

-----------------------------------------------------------------------------
AluInv == AluTypeOK /\ ChainOK /\ WideArithmetic

(* An instruction that starts no chain and extends none. *)
LEMMA NoChainInvariant ==
    ASSUME AluTypeOK', chain' = NoChain
    PROVE  AluInv'
BY DEF AluInv, NoChain, Chain, ChainOK, WideArithmetic

(* One that touches neither the carry nor the chain. *)
LEMMA SameChainInvariant ==
    ASSUME AluInv, AluTypeOK', UNCHANGED <<carry, chain>>
    PROVE  AluInv'
BY DEF AluInv, ChainOK, WideArithmetic

LEMMA AdcInvariant ==
    ASSUME AluInv, NEW v \in Byte, Adc(v)
    PROVE  AluInv'
<1> DEFINE r == Wrap(Wrap(a + v) + carry)
           k == CarryAddition(a, v, carry)
           w == chain.weight
<1>1. a \in Byte /\ carry \in {0, 1}
  BY DEF AluInv, AluTypeOK
<1>2. /\ r \in Byte /\ k \in {0, 1}
      /\ a + v = r - carry + k * Modulus
  BY <1>1, AdcBalances
<1>3. a' = r /\ carry' = k /\ chain' = Extended("add", v, r)
  BY DEF Adc
<1>4. AluTypeOK'
  BY <1>2, <1>3 DEF Adc, AluTypeOK, SetZeroNegative, Sign, OverflowAddition
<1>5. CASE chain.op = "add" /\ chain.digits < MaxDigits
  <2>1. chain' = Chain("add", chain.left + a * w, chain.right + v * w,
                       chain.result + r * w, w * Modulus, chain.digits + 1)
    BY <1>3, <1>5 DEF Extended
  <2>2. /\ w \in Int /\ chain.left \in Int /\ chain.right \in Int
        /\ chain.result \in Int /\ chain.digits \in Nat
        /\ chain.left + chain.right = chain.result + carry * w
    BY <1>5 DEF AluInv, ChainOK, WideArithmetic
  <2>3. Modulus \in Int /\ a \in Int /\ v \in Int /\ r \in Int /\ carry \in Int
    BY <1>1, <1>2, AluAssumption DEF Byte, Modulus
  <2> HIDE DEF r, k, w
  <2>4. (a + v) * w = (r - carry) * w + k * (w * Modulus)
    BY <1>2, <2>2, <2>3, Weighted
  <2>5. (a + v) * w = a * w + v * w /\ (r - carry) * w = r * w - carry * w
    BY <2>2, <2>3, Distributes
  <2>6. /\ a * w \in Int /\ v * w \in Int /\ r * w \in Int /\ carry * w \in Int
        /\ w * Modulus \in Int /\ k * (w * Modulus) \in Int
    BY <1>2, <2>2, <2>3
  <2>7. (chain.left + a * w) + (chain.right + v * w)
            = (chain.result + r * w) + k * (w * Modulus)
    BY <2>2, <2>4, <2>5, <2>6
  <2>8. WideArithmetic'
    BY <1>3, <2>1, <2>7 DEF Chain, WideArithmetic
  <2>9. ChainOK'
    BY <2>1, <2>2, <2>6 DEF Chain, ChainOK
  <2> QED
    BY <1>4, <2>8, <2>9 DEF AluInv
<1>6. CASE ~(chain.op = "add" /\ chain.digits < MaxDigits)
  BY <1>3, <1>4, <1>6, NoChainInvariant DEF Extended
<1> QED
  BY <1>5, <1>6

LEMMA SbcInvariant ==
    ASSUME AluInv, NEW v \in Byte, Sbc(v)
    PROVE  AluInv'
<1> DEFINE r == Wrap(Wrap(Wrap(a - v) + carry) - 1)
           k == CarrySubtraction3(a, v, carry)
           w == chain.weight
<1>1. a \in Byte /\ carry \in {0, 1}
  BY DEF AluInv, AluTypeOK
<1>2. /\ r \in Byte /\ k \in {0, 1}
      /\ a - v = r + (1 - carry) - (1 - k) * Modulus
  BY <1>1, SbcBalances
<1>3. a' = r /\ carry' = k /\ chain' = Extended("sub", v, r)
  BY DEF Sbc
<1>4. AluTypeOK'
  BY <1>2, <1>3 DEF Sbc, AluTypeOK, SetZeroNegative, Sign, OverflowSubtraction
<1>5. CASE chain.op = "sub" /\ chain.digits < MaxDigits
  <2>1. chain' = Chain("sub", chain.left + a * w, chain.right + v * w,
                       chain.result + r * w, w * Modulus, chain.digits + 1)
    BY <1>3, <1>5 DEF Extended
  <2>2. /\ w \in Int /\ chain.left \in Int /\ chain.right \in Int
        /\ chain.result \in Int /\ chain.digits \in Nat
        /\ chain.left - chain.right = chain.result - (1 - carry) * w
    BY <1>5 DEF AluInv, ChainOK, WideArithmetic
  <2>3. /\ Modulus \in Int /\ a \in Int /\ v \in Int /\ r \in Int
        /\ 1 - carry \in Int /\ 1 - k \in {0, 1}
    BY <1>1, <1>2, AluAssumption DEF Byte, Modulus
  <2> HIDE DEF r, k, w
  <2>4. r + (1 - carry) = (a - v) + (1 - k) * Modulus
    <3>1. (1 - k) * Modulus \in Int
      BY <2>3
    <3> QED
      BY <1>2, <2>3, <3>1
  <2>5. (r + (1 - carry)) * w = (a - v) * w + (1 - k) * (w * Modulus)
    BY <2>2, <2>3, <2>4, Weighted
  <2>6. /\ (a - v) * w = a * w - v * w
        /\ (r + (1 - carry)) * w = r * w + (1 - carry) * w
    BY <2>2, <2>3, Distributes
  <2>7. /\ a * w \in Int /\ v * w \in Int /\ r * w \in Int /\ (1 - carry) * w \in Int
        /\ w * Modulus \in Int /\ (1 - k) * (w * Modulus) \in Int
    BY <2>2, <2>3
  <2>8. (chain.left + a * w) - (chain.right + v * w)
            = (chain.result + r * w) - (1 - k) * (w * Modulus)
    BY <2>2, <2>5, <2>6, <2>7
  <2>9. WideArithmetic'
    BY <1>3, <2>1, <2>8 DEF Chain, WideArithmetic
  <2>10. ChainOK'
    BY <2>1, <2>2, <2>7 DEF Chain, ChainOK
  <2> QED
    BY <1>4, <2>9, <2>10 DEF AluInv
<1>6. CASE ~(chain.op = "sub" /\ chain.digits < MaxDigits)
  BY <1>3, <1>4, <1>6, NoChainInvariant DEF Extended
<1> QED
  BY <1>5, <1>6

LEMMA RolInvariant ==
    ASSUME AluInv, Rol
    PROVE  AluInv'
<1> DEFINE r == Wrap(a + a) + carry
           k == IF Sign(a) THEN 1 ELSE 0
           w == chain.weight
<1>1. a \in Byte /\ carry \in {0, 1}
  BY DEF AluInv, AluTypeOK
<1>2. r \in Byte /\ k \in {0, 1} /\ 2 * a = Wrap(a + a) + k * Modulus
  BY <1>1, RolBalances
<1>3. a' = r /\ carry' = k /\ chain' = Extended("shl", 0, r)
  BY DEF Rol
<1>4. AluTypeOK'
  BY <1>2, <1>3 DEF Rol, AluInv, AluTypeOK, SetZeroNegative, Sign
<1>5. CASE chain.op = "shl" /\ chain.digits < MaxDigits
  <2>1. chain' = Chain("shl", chain.left + a * w, chain.right + 0 * w,
                       chain.result + r * w, w * Modulus, chain.digits + 1)
    BY <1>3, <1>5 DEF Extended
  <2>2. /\ w \in Int /\ chain.left \in Int /\ chain.right \in Int
        /\ chain.result \in Int /\ chain.digits \in Nat
        /\ 2 * chain.left = chain.result + carry * w
    BY <1>5 DEF AluInv, ChainOK, WideArithmetic
  <2>3. /\ Modulus \in Int /\ a \in Int /\ r \in Int /\ carry \in Int
        /\ r - carry \in Int /\ 2 * a \in Int
        /\ 2 * a = (r - carry) + k * Modulus
    <3>1. Modulus \in Int /\ a \in Int /\ r \in Int /\ carry \in Int
      BY <1>1, <1>2, AluAssumption DEF Byte, Modulus
    <3>2. Wrap(a + a) \in Int
      BY <1>1, RolBalances
    <3>3. r - carry = Wrap(a + a)
      BY <3>1, <3>2
    <3> QED
      BY <1>2, <3>1, <3>3
  <2> HIDE DEF r, k, w
  <2>4. (2 * a) * w = (r - carry) * w + k * (w * Modulus)
    BY <1>2, <2>2, <2>3, Weighted
  <2>5. (r - carry) * w = r * w - carry * w
    BY <2>2, <2>3, Distributes
  <2>6. (2 * a) * w = 2 * (a * w)
    BY <2>2, <2>3
  <2>7. /\ a * w \in Int /\ r * w \in Int /\ carry * w \in Int /\ 0 * w = 0
        /\ w * Modulus \in Int /\ k * (w * Modulus) \in Int
    BY <1>2, <2>2, <2>3
  <2>8. 2 * (chain.left + a * w) = (chain.result + r * w) + k * (w * Modulus)
    BY <2>2, <2>4, <2>5, <2>6, <2>7
  <2>9. WideArithmetic'
    BY <1>3, <2>1, <2>8 DEF Chain, WideArithmetic
  <2>10. ChainOK'
    BY <2>1, <2>2, <2>7 DEF Chain, ChainOK
  <2> QED
    BY <1>4, <2>9, <2>10 DEF AluInv
<1>6. CASE ~(chain.op = "shl" /\ chain.digits < MaxDigits)
  BY <1>3, <1>4, <1>6, NoChainInvariant DEF Extended
<1> QED
  BY <1>5, <1>6

LEMMA RorInvariant ==
    ASSUME AluInv, Ror
    PROVE  AluInv'
<1> DEFINE r == (a \div 2) + carry * Half
           k == a % 2
<1>1. a \in Byte /\ carry \in {0, 1}
  BY DEF AluInv, AluTypeOK
<1>2. /\ r \in Byte /\ k \in {0, 1} /\ a = 2 * (a \div 2) + k
  BY <1>1, RorBalances
<1>3. a' = r /\ carry' = k /\ chain' = ExtendedDown(r)
  BY DEF Ror
<1>4. AluTypeOK'
  BY <1>2, <1>3 DEF Ror, AluInv, AluTypeOK, SetZeroNegative, Sign
<1>5. CASE chain.op = "shr" /\ chain.digits < MaxDigits
  <2>1. chain' = Chain("shr", chain.left * Modulus + a, 0,
                       chain.result * Modulus + r, 1, chain.digits + 1)
    BY <1>3, <1>5 DEF ExtendedDown
  <2>2. /\ chain.left \in Int /\ chain.result \in Int /\ chain.digits \in Nat
        /\ chain.left = 2 * chain.result + carry
    BY <1>5 DEF AluInv, ChainOK, WideArithmetic
  <2>3. Modulus \in Int /\ a \in Int /\ r \in Int /\ k \in Int /\ a \div 2 \in Int
    BY <1>1, <1>2, AluAssumption DEF Byte, Modulus
  <2>4. a = 2 * r - carry * Modulus + k
    <3>1. r = (a \div 2) + carry * Half /\ Half \in Int /\ Modulus = 2 * Half
      BY AluAssumption DEF Modulus
    <3> HIDE DEF r, k
    <3>2. CASE carry = 0
      BY <1>2, <2>3, <3>1, <3>2
    <3>3. CASE carry = 1
      BY <1>2, <2>3, <3>1, <3>3
    <3> QED
      BY <1>1, <3>2, <3>3
  <2> HIDE DEF r, k
  <2>5. (2 * chain.result + carry) * Modulus = 2 * (chain.result * Modulus) + carry * Modulus
    BY <1>1, <2>2, <2>3
  <2>6. /\ chain.left * Modulus \in Int /\ chain.result * Modulus \in Int
        /\ carry * Modulus \in Int
    BY <1>1, <2>2, <2>3
  <2>7. chain.left * Modulus + a = 2 * (chain.result * Modulus + r) + k
    <3>1. chain.left * Modulus = 2 * (chain.result * Modulus) + carry * Modulus
      BY <2>2, <2>5
    <3> DEFINE p == chain.result * Modulus
               q == carry * Modulus
    <3>2. p \in Int /\ q \in Int /\ chain.left * Modulus = 2 * p + q /\ a = 2 * r - q + k
      BY <2>4, <2>6, <3>1
    <3> HIDE DEF p, q
    <3>3. (2 * p + q) + (2 * r - q + k) = 2 * (p + r) + k
      BY <2>3, <3>2
    <3>4. chain.left * Modulus + a = 2 * (p + r) + k
      BY <3>2, <3>3
    <3> QED
      BY <3>4 DEF p
  <2>8. WideArithmetic'
    BY <1>3, <2>1, <2>7 DEF Chain, WideArithmetic
  <2>9. ChainOK'
    BY <2>1, <2>2, <2>3, <2>6 DEF Chain, ChainOK
  <2> QED
    BY <1>4, <2>8, <2>9 DEF AluInv
<1>6. CASE ~(chain.op = "shr" /\ chain.digits < MaxDigits)
  BY <1>3, <1>4, <1>6, NoChainInvariant DEF ExtendedDown
<1> QED
  BY <1>5, <1>6

(* The first byte of a shift. *)
LEMMA AslInvariant ==
    ASSUME AluInv, Asl
    PROVE  AluInv'
<1>1. a \in Byte
  BY DEF AluInv, AluTypeOK
<1>2. Wrap(a + a) \in Byte /\ 2 * a = Wrap(a + a) + (IF Sign(a) THEN 1 ELSE 0) * Modulus
  <2>1. Wrap(a + a) + 0 \in Byte /\ 2 * a = Wrap(a + a) + (IF Sign(a) THEN 1 ELSE 0) * Modulus
    BY <1>1, RolBalances
  <2>2. Wrap(a + a) \in Int
    BY <1>1, AluAssumption DEF Wrap, Byte, Modulus
  <2> QED
    BY <2>1, <2>2
<1>3. AluTypeOK'
  BY <1>2 DEF Asl, AluInv, AluTypeOK, SetZeroNegative, Sign
<1>4. Modulus \in Int /\ a \in Int /\ Wrap(a + a) \in Int
  BY <1>1, <1>2, AluAssumption DEF Byte, Modulus
<1>5. WideArithmetic' /\ ChainOK'
  BY <1>2, <1>4 DEF Asl, Chain, WideArithmetic, ChainOK
<1> QED
  BY <1>3, <1>5 DEF AluInv

LEMMA LsrInvariant ==
    ASSUME AluInv, Lsr
    PROVE  AluInv'
<1>1. a \in Byte
  BY DEF AluInv, AluTypeOK
<1>2. /\ (a \div 2) + 0 * Half \in Byte /\ a % 2 \in {0, 1}
      /\ a = 2 * (a \div 2) + (a % 2)
  BY <1>1, RorBalances
<1>3. a \in Int /\ a \div 2 \in Int /\ (a \div 2) + 0 * Half = a \div 2
  BY <1>1, AluAssumption DEF Byte, Modulus
<1>4. AluTypeOK'
  BY <1>2, <1>3 DEF Lsr, AluInv, AluTypeOK, SetZeroNegative, Sign
<1>5. WideArithmetic' /\ ChainOK'
  BY <1>2, <1>3 DEF Lsr, Chain, WideArithmetic, ChainOK
<1> QED
  BY <1>4, <1>5 DEF AluInv

LEMMA CompareInvariant ==
    ASSUME AluInv, NEW x \in Byte, NEW v \in Byte, Compare(x, v)
    PROVE  AluInv'
<1>1. AluTypeOK'
  BY DEF Compare, AluInv, AluTypeOK, SetZeroNegative, Sign
<1> QED
  BY <1>1, NoChainInvariant DEF Compare

-----------------------------------------------------------------------------
LEMMA AluInvariant == AluSpec => []AluInv
<1>1. AluInit => AluInv
  <2>1. AluInit => AluTypeOK
    BY DEF AluInit, AluTypeOK
  <2>2. AluInit => ChainOK
    BY DEF AluInit, NoChain, Chain, ChainOK
  <2>3. AluInit => WideArithmetic
    BY DEF AluInit, NoChain, Chain, WideArithmetic
  <2> QED
    BY <2>1, <2>2, <2>3 DEF AluInv
<1>2. ASSUME AluInv, [AluNext]_aluVars
      PROVE  AluInv'
  <2>1. CASE Clc
    <3>1. AluTypeOK'
      BY <1>2, <2>1 DEF Clc, AluInv, AluTypeOK
    <3>2. ChainOK'
      BY <2>1 DEF Clc, Chain, ChainOK
    <3>3. WideArithmetic'
      BY <2>1 DEF Clc, Chain, WideArithmetic
    <3> QED
      BY <3>1, <3>2, <3>3 DEF AluInv
  <2>2. CASE Sec
    <3>1. AluTypeOK'
      BY <1>2, <2>2 DEF Sec, AluInv, AluTypeOK
    <3>2. ChainOK'
      BY <2>2 DEF Sec, Chain, ChainOK
    <3>3. WideArithmetic'
      BY <2>2 DEF Sec, Chain, WideArithmetic
    <3> QED
      BY <3>1, <3>2, <3>3 DEF AluInv
  <2>3. CASE Clv
    <3>1. AluTypeOK'
      BY <1>2, <2>3 DEF Clv, AluInv, AluTypeOK
    <3> QED
      BY <1>2, <2>3, <3>1, SameChainInvariant DEF Clv
  <2>4. ASSUME NEW v \in Byte, LoadA(v) \/ LoadOther(v)
        PROVE  AluInv'
    <3>1. AluTypeOK'
      <4>1. CASE LoadA(v)
        BY <1>2, <4>1 DEF LoadA, SetZeroNegative, Sign, AluInv, AluTypeOK
      <4>2. CASE LoadOther(v)
        BY <1>2, <4>2 DEF LoadOther, SetZeroNegative, Sign, AluInv, AluTypeOK
      <4> QED
        BY <2>4, <4>1, <4>2
    <3> QED
      BY <1>2, <2>4, <3>1, SameChainInvariant DEF LoadA, LoadOther
  <2>5. ASSUME NEW n \in BOOLEAN, NEW v \in BOOLEAN, NEW z \in BOOLEAN, Bit(n, v, z)
        PROVE  AluInv'
    <3>1. AluTypeOK'
      BY <1>2, <2>5 DEF Bit, AluInv, AluTypeOK
    <3> QED
      BY <1>2, <2>5, <3>1, SameChainInvariant DEF Bit
  <2>6. ASSUME NEW v \in Byte, Cmp(v)
        PROVE  AluInv'
    BY <1>2, <2>6, CompareInvariant DEF Cmp, AluInv, AluTypeOK
  <2>7. CASE UNCHANGED aluVars
    BY <1>2, <2>7 DEF aluVars, AluInv, AluTypeOK, ChainOK, WideArithmetic
  <2> QED
    BY <1>2, <2>1, <2>2, <2>3, <2>4, <2>5, <2>6, <2>7, AdcInvariant, SbcInvariant,
       AslInvariant, RolInvariant, LsrInvariant, RorInvariant, CompareInvariant
    DEF AluNext
<1> QED
  BY <1>1, <1>2, PTL DEF AluSpec

(* Whatever the instructions, the accumulator is a byte and the carry a bit.*)
THEOREM AluTypeCorrect == AluSpec => []AluTypeOK
<1>1. AluInv => AluTypeOK
  BY DEF AluInv
<1> QED
  BY <1>1, AluInvariant, PTL

(* Chained instructions compute numbers of any length in bytes of any size. *)
THEOREM WideArithmeticAlways == AluSpec => []WideArithmetic
<1>1. AluInv => WideArithmetic
  BY DEF AluInv
<1> QED
  BY <1>1, AluInvariant, PTL

-----------------------------------------------------------------------------
(* What the flags say of two bytes. *)
LEMMA CmpOrders ==
    ASSUME AluTypeOK, NEW v \in Byte, Cmp(v)
    PROVE  (carry' = 1 <=> a >= v) /\ (zero' <=> a = v)
<1>1. /\ a \in Int /\ 0 <= a /\ a < 2 * Half
      /\ v \in Int /\ 0 <= v /\ v < 2 * Half
      /\ Half \in Int /\ Half > 0
  BY AluAssumption DEF AluTypeOK, Byte, Modulus
<1>2. carry' = (IF a >= v THEN 1 ELSE 0) /\ zero' = (Wrap(a - v) = 0)
  BY DEF Cmp, Compare, SetZeroNegative
<1>3. Wrap(a - v) = 0 <=> a = v
  BY <1>1 DEF Wrap, Modulus
<1>4. carry' = 1 <=> a >= v
  BY <1>1, <1>2
<1> QED
  BY <1>2, <1>3, <1>4

LEMMA SbcOrders ==
    ASSUME AluTypeOK, NEW v \in Byte, Sbc(v)
    PROVE  negative' # overflow' <=> Signed(a) - Signed(v) + carry - 1 < 0
<1>1. /\ a \in Int /\ 0 <= a /\ a < 2 * Half
      /\ v \in Int /\ 0 <= v /\ v < 2 * Half
      /\ carry \in {0, 1} /\ Half \in Int /\ Half > 0
  BY AluAssumption DEF AluTypeOK, Byte, Modulus
<1>2. /\ negative' = Sign(Wrap(Wrap(Wrap(a - v) + carry) - 1))
      /\ overflow' = OverflowSubtraction(a, v, carry)
  BY DEF Sbc, SetZeroNegative
<1>3. Wrap(Wrap(Wrap(a - v) + carry) - 1) = Wrap(Wrap(a - v) - (1 - carry))
  BY <1>1 DEF Wrap, Modulus
<1> QED
  BY <1>1, <1>2, <1>3 DEF OverflowSubtraction, Signed, Sign, Wrap, Modulus

LEMMA AdcOverflows ==
    ASSUME AluTypeOK, NEW v \in Byte, Adc(v)
    PROVE  overflow' <=> Signed(a) + Signed(v) + carry \notin -Half .. Half - 1
<1>1. /\ a \in Int /\ 0 <= a /\ a < 2 * Half
      /\ v \in Int /\ 0 <= v /\ v < 2 * Half
      /\ carry \in {0, 1} /\ Half \in Int /\ Half > 0
  BY AluAssumption DEF AluTypeOK, Byte, Modulus
<1>2. overflow' = OverflowAddition(a, v, Wrap(Wrap(a + v) + carry))
  BY DEF Adc
<1>3. OverflowAddition(a, v, Wrap(Wrap(a + v) + carry))
        <=> Signed(a) + Signed(v) + carry < -Half \/ Signed(a) + Signed(v) + carry >= Half
  BY <1>1 DEF OverflowAddition, Signed, Sign, Wrap, Modulus
<1>4. Signed(a) + Signed(v) + carry \in Int
  BY <1>1 DEF Signed, Modulus
<1> QED
  BY <1>1, <1>2, <1>3, <1>4

(* Comparison, subtraction and addition set the flags that order numbers,   *)
(* for bytes of any size.                                                   *)
THEOREM FlagsOrderAlways == AluSpec => FlagsOrder
<1>1. ASSUME AluTypeOK, [AluNext]_aluVars
      PROVE  [\A v \in Byte :
                 /\ Cmp(v) => (carry' = 1 <=> a >= v) /\ (zero' <=> a = v)
                 /\ Sbc(v) => (negative' # overflow' <=> Signed(a) - Signed(v) + carry - 1 < 0)
                 /\ Adc(v) => (overflow' <=> Signed(a) + Signed(v) + carry
                                                 \notin -Half .. Half - 1)
             ]_aluVars
  BY <1>1, CmpOrders, SbcOrders, AdcOverflows
<1> QED
  BY <1>1, AluTypeCorrect, PTL DEF AluSpec, FlagsOrder
=============================================================================
