------------------------------ MODULE Runtime -------------------------------
(***************************************************************************)
(* The recompiled program and main.c's runtime as one sequential machine.   *)
(* The generated rom_start runs 6502 instructions; each ends in a call of   *)
(* rom_cycle, which polls input, steps the picture unit (FrameClock) and,   *)
(* when an interrupt was requested, calls rom_start again from inside the   *)
(* instruction.  So interrupts nest on the C stack while what they push     *)
(* lives on the 6502 stack, and the interrupted code resumes at a place     *)
(* fixed at compile time, whatever PC the handler's RTI restored.           *)
(*                                                                          *)
(* The program is any sequence of the instructions below.  Its code is a    *)
(* small set of addresses; registers other than PC and SP are left out.     *)
(***************************************************************************)
EXTENDS Integers, Sequences, FiniteSets

CONSTANTS Addr,          \* addresses the program's code uses
          ResetAddr,     \* the label of the reset vector
          NmiAddr,       \* the label of the NMI vector
          Programs,      \* the programs: what unusual things each does
          InstrCycles,   \* cycles an instruction can take: 2 .. 7
          DmaCycles,     \* cycles a write of $4014 halts the CPU: 512
          MaxCalls,      \* bound on nested calls of rom_start
          MaxStack,      \* bound on the entries of the 6502 stack
          FrameDots, FirstDot, VblankDot, ClearDot   \* see FrameClock

(* A well-behaved program does nothing unusual.  A program may execute BRK  *)
(* ("brk"), branch or fall through to its vector labels ("entry"), or have  *)
(* a handler that discards what the interrupt pushed and never executes RTI *)
(* ("drop").                                                                *)
Quirk == {"brk", "entry", "drop"}

ASSUME ProgramAssumption == Programs \subseteq SUBSET Quirk

Dispatch == "dispatch"   \* to the dynamic jump table, by rPC
Return   == "return"     \* out of rom_start
Restart  == "restart"    \* to the reset block, without setting rPC

Zero     == "zero"       \* the PC before any instruction has set it

ASSUME AddrAssumption ==
    /\ ResetAddr \in Addr /\ NmiAddr \in Addr /\ ResetAddr # NmiAddr
    /\ {Dispatch, Return, Restart, Zero} \cap Addr = {}

(* An instruction, its DMA stall included, is shorter than a frame. *)
ASSUME ClockAssumption ==
    /\ InstrCycles \subseteq Nat \ {0}
    /\ DmaCycles \in Nat
    /\ FrameDots \in Nat \ {0}
    /\ {FirstDot, VblankDot, ClearDot} \subseteq 0 .. FrameDots - 1
    /\ \A n \in InstrCycles : 3 * (n + DmaCycles) < FrameDots

VARIABLES program,    \* the unusual things this program does
          dot, vblank, suppressed, nmiOnVblank,
          requested,  \* interruptRequested # ROM_INTERRUPT_NONE
          calls,      \* active calls of rom_start, the innermost last:
                      \* the code each runs, or goes on with when its
                      \* rom_cycle returns
          phase,      \* what the innermost call is doing
          left,       \* dots the current step() has still to make
          pending,    \* cycles of the rom_cycle that follows a DMA stall
          rPC,        \* the generated PC register
          stack       \* the 6502 stack: "ret" pushed by JSR, "int" by an
                      \* interrupt or BRK, each with its PC, top last

clock == <<dot, vblank, suppressed, nmiOnVblank, requested>>
vars == <<program, clock, calls, phase, left, pending, rPC, stack>>

Clock == INSTANCE FrameClock

Top(s) == s[Len(s)]
Pop(s) == SubSeq(s, 1, Len(s) - 1)
Entry(kind, pc) == [kind |-> kind, pc |-> pc]

(* Where an ordinary instruction may lead. *)
Target == IF "entry" \in program THEN Addr ELSE Addr \ {ResetAddr, NmiAddr}

(* main calls rom_start(ROM_INTERRUPT_RESET). *)
Init ==
    /\ program \in Programs
    /\ Clock!Init
    /\ calls = <<ResetAddr>>
    /\ phase = "run" /\ left = 0 /\ pending = 0
    /\ rPC = Zero
    /\ stack = << >>

-----------------------------------------------------------------------------
(* The generated code calls rom_cycle(n) and will go on at next. *)
CallCycle(n, next) ==
    /\ phase' = "poll"
    /\ left' = 3 * n
    /\ calls' = [calls EXCEPT ![Len(calls)] = next]
    /\ UNCHANGED <<program, pending>>

(* A wrong variant of Reach, for mutation testing. *)
ReachUnpushed(outer, pc) ==
    /\ phase' = "run"
    /\ calls' = Append(outer, pc)
    /\ stack' = IF pc = ResetAddr THEN << >> ELSE stack

(* Control reaches the code at pc: the blocks of the vector labels begin    *)
(* with the interrupt's pushes and with the reset of the registers.         *)
Reach(outer, pc) ==
    /\ phase' = "run"
    /\ calls' = Append(outer, pc)
    /\ stack' = CASE pc = ResetAddr -> << >>
                  [] pc = NmiAddr   -> Append(stack, Entry("int", rPC))
                  [] OTHER          -> stack

-----------------------------------------------------------------------------
(* Wrong variants, for mutation testing. *)

RtiKeepsPC(n) ==
    /\ phase = "run"
    /\ stack # << >> /\ Top(stack).kind = "int"
    /\ stack' = Pop(stack)
    /\ CallCycle(n, Return)
    /\ UNCHANGED <<clock, rPC>>

GoOnUnpolled ==
    /\ phase = "cycle" /\ left = 0
    /\ Top(calls) # Return
    /\ Top(calls) = NmiAddr => Len(stack) < MaxStack
    /\ Reach(Pop(calls), CASE Top(calls) = Dispatch -> rPC
                           [] Top(calls) = Restart  -> ResetAddr
                           [] OTHER                 -> Top(calls))
    /\ UNCHANGED <<program, clock, left, pending, rPC>>

-----------------------------------------------------------------------------
(* The instructions. *)

Running == phase = "run"

(* Loads, stores, arithmetic, jumps and branches: cycle() stores the        *)
(* address of the next instruction in the PC before it calls rom_cycle.     *)
Plain(n, next) ==
    /\ Running
    /\ rPC' = next
    /\ CallCycle(n, next)
    /\ UNCHANGED <<clock, stack>>

(* A load of $2002. *)
LoadStatus(n, next) ==
    /\ Running
    /\ Clock!ReadStatus
    /\ rPC' = next
    /\ CallCycle(n, next)
    /\ UNCHANGED stack

(* A store to $2000. *)
StoreControl(on, n, next) ==
    /\ Running
    /\ Clock!WriteControl(on)
    /\ rPC' = next
    /\ CallCycle(n, next)
    /\ UNCHANGED stack

(* A store to $4014: rom_ppu_write_dma copies a page, which reads $2002     *)
(* when it is a page of registers, and steps the unit on its own, without   *)
(* a poll; the instruction's rom_cycle follows.                             *)
StoreDma(n, next) ==
    /\ Running
    /\ Clock!ReadStatus \/ UNCHANGED clock
    /\ phase' = "dma"
    /\ left' = 3 * DmaCycles
    /\ pending' = n
    /\ calls' = [calls EXCEPT ![Len(calls)] = next]
    /\ UNCHANGED <<program, rPC, stack>>

DmaDone ==
    /\ phase = "dma" /\ left = 0
    /\ phase' = "poll"
    /\ left' = 3 * pending
    /\ pending' = 0
    /\ rPC' = Top(calls)
    /\ UNCHANGED <<program, clock, calls, stack>>

(* JSR pushes the address before the next instruction. *)
Jsr(n, next, back) ==
    /\ Running
    /\ Len(stack) < MaxStack
    /\ stack' = Append(stack, Entry("ret", back))
    /\ rPC' = next
    /\ CallCycle(n, next)
    /\ UNCHANGED clock

Rts(n) ==
    /\ Running
    /\ stack # << >> /\ Top(stack).kind = "ret"
    /\ rPC' = Top(stack).pc
    /\ stack' = Pop(stack)
    /\ CallCycle(n, Dispatch)
    /\ UNCHANGED clock

(* RTI restores the PC and makes rom_start return, the outermost too. *)
Rti(n) ==
    /\ Running
    /\ stack # << >> /\ Top(stack).kind = "int"
    /\ rPC' = Top(stack).pc
    /\ stack' = Pop(stack)
    /\ CallCycle(n, Return)
    /\ UNCHANGED clock

(* BRK pushes like an interrupt and branches to the reset block. *)
Brk(n) ==
    /\ Running
    /\ "brk" \in program
    /\ Len(stack) < MaxStack
    /\ stack' = Append(stack, Entry("int", Top(calls)))
    /\ CallCycle(n, Restart)
    /\ UNCHANGED <<clock, rPC>>

(* A handler pulls what the interrupt pushed and goes on elsewhere. *)
DropFrame(n, next) ==
    /\ Running
    /\ "drop" \in program
    /\ stack # << >> /\ Top(stack).kind = "int"
    /\ stack' = Pop(stack)
    /\ rPC' = next
    /\ CallCycle(n, next)
    /\ UNCHANGED clock

Instruction ==
    \E n \in InstrCycles :
        \/ \E next \in Target :
              \/ Plain(n, next) \/ LoadStatus(n, next) \/ StoreDma(n, next)
              \/ DropFrame(n, next)
              \/ \E on \in BOOLEAN : StoreControl(on, n, next)
              \/ \E back \in Target : Jsr(n, next, back)
        \/ Rts(n) \/ Rti(n) \/ Brk(n)

-----------------------------------------------------------------------------
(* rom_cycle and step. *)

(* flush_events and the movie let the program go on... *)
StartStep ==
    /\ phase = "poll"
    /\ phase' = "cycle"
    /\ UNCHANGED <<program, clock, calls, left, pending, rPC, stack>>

(* ... or end it: SDL_QUIT, or the movie is over. *)
Quit ==
    /\ phase = "poll"
    /\ phase' = "exited"
    /\ UNCHANGED <<program, clock, calls, left, pending, rPC, stack>>

(* One Ppu_step of step(); the unit may call vblankInterrupt. *)
StepDot ==
    /\ phase \in {"dma", "cycle"}
    /\ left > 0
    /\ Clock!Tick
    /\ left' = left - 1
    /\ UNCHANGED <<program, calls, phase, pending, rPC, stack>>

Stepped == phase = "cycle" /\ left = 0

(* The requested interrupt: the slot is emptied, then rom_start is called. *)
DeliverNmi ==
    /\ Stepped
    /\ Clock!TakeInterrupt
    /\ Len(calls) < MaxCalls /\ Len(stack) < MaxStack
    /\ Reach(calls, NmiAddr)
    /\ UNCHANGED <<program, left, pending, rPC>>

(* rom_cycle returns to the code of the innermost call. *)
GoOn ==
    /\ Stepped /\ ~requested
    /\ Top(calls) # Return
    /\ Top(calls) = NmiAddr => Len(stack) < MaxStack
    /\ Reach(Pop(calls), CASE Top(calls) = Dispatch -> rPC
                           [] Top(calls) = Restart  -> ResetAddr
                           [] OTHER                 -> Top(calls))
    /\ UNCHANGED <<program, clock, left, pending, rPC>>

(* rom_start returns to the rom_cycle that called it, which returns too. *)
ReturnNested ==
    /\ Stepped /\ ~requested
    /\ Top(calls) = Return /\ Len(calls) > 1
    /\ calls' = Pop(calls)
    /\ UNCHANGED <<program, clock, phase, left, pending, rPC, stack>>

(* rom_start returns to main, and the program ends. *)
ReturnToMain ==
    /\ Stepped /\ ~requested
    /\ Top(calls) = Return /\ Len(calls) = 1
    /\ phase' = "exited"
    /\ UNCHANGED <<program, clock, calls, left, pending, rPC, stack>>

Machine ==
    \/ DmaDone \/ StartStep \/ Quit \/ StepDot
    \/ DeliverNmi \/ GoOn \/ ReturnNested \/ ReturnToMain

Next == Instruction \/ Machine

Spec == Init /\ [][Next]_vars

-----------------------------------------------------------------------------
(* Where the PC may point, and the type invariant. *)
Place == Addr \cup {Zero}

TypeOK ==
    /\ program \subseteq Quirk
    /\ dot \in 0 .. FrameDots - 1
    /\ vblank \in BOOLEAN /\ suppressed \in BOOLEAN
    /\ nmiOnVblank \in BOOLEAN /\ requested \in BOOLEAN
    /\ calls \in Seq(Place \cup {Dispatch, Return, Restart}) /\ calls # << >>
    /\ phase \in {"run", "dma", "poll", "cycle", "exited"}
    /\ left \in Nat /\ pending \in InstrCycles \cup {0}
    /\ rPC \in Place
    /\ stack \in Seq([kind : {"ret", "int"}, pc : Place])

(* Dots since the unit last asked for an interrupt. *)
SinceVblank == (dot - VblankDot - 1) % FrameDots

(* Dots the current instruction has still to step. *)
ToStep == left + 3 * pending

(* Interrupts are prompt: a request lives only inside the instruction that  *)
(* crossed the start of the blank.  None is pending between instructions,   *)
(* and when one is taken, no more dots have gone by than that instruction   *)
(* and its DMA stall take, although DMA steps the unit without polling.     *)
PromptNmi ==
    requested =>
        /\ phase # "run"
        /\ \E n \in InstrCycles :
              SinceVblank + ToStep < 3 * (n + DmaCycles)

(* The one slot for a request never loses one: the unit does not ask again  *)
(* while the last request waits.                                            *)
NoLostNmi ==
    ~ /\ requested
      /\ phase \in {"dma", "cycle"} /\ left > 0
      /\ dot = VblankDot /\ nmiOnVblank /\ ~suppressed

WellBehaved == program = {}

(* The generated code resumes at a place fixed at compile time.  In a well- *)
(* behaved program it is the place the PC register says, however interrupts *)
(* nested meanwhile, so code that dispatches on the PC and code that was    *)
(* compiled agree.  Only the entry of a vector runs with the PC of the code *)
(* it came from.                                                            *)
ResumeAgrees ==
    WellBehaved /\ phase = "run" /\ Top(calls) \notin {ResetAddr, NmiAddr}
        => Top(calls) = rPC

Interrupts == {i \in DOMAIN stack : stack[i].kind = "int"}

(* The C stack and the 6502 stack of a well-behaved program stay in step:   *)
(* every nested rom_start has its interrupt entry on the 6502 stack until   *)
(* it executes its RTI.                                                     *)
CallsMatchStack ==
    WellBehaved =>
        Cardinality(Interrupts) =
            Cardinality({k \in 2 .. Len(calls) : calls[k] # Return})
=============================================================================
