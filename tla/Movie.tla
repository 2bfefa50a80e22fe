------------------------------- MODULE Movie --------------------------------
(***************************************************************************)
(* How the runtime's poll feeds the pads: flush_events handles the events   *)
(* of the window system, setPadStateFromMovie replays a recorded movie by   *)
(* the cycle counter, and only then does rom_cycle step the console.  A     *)
(* DMA stall advances the counter without a poll.  The program ends when    *)
(* the movie does.                                                          *)
(***************************************************************************)
EXTENDS Integers, SequencesExt, FiniteSetsExt

CONSTANTS MovieButton,  \* a pad and one of its buttons
          KeyButton,    \* the buttons a key is bound to: pad 0's
          MovieState,   \* ROM_PAD_STATE_OFF and ROM_PAD_STATE_ON
          MovieOff,     \* ROM_PAD_STATE_OFF
          MovieSet,     \* the movies, each a sequence of entries
          NoMovie,      \* the movie pointer is NULL
          InstrCycles,  \* cycles an instruction can take: 2 .. 7
          DmaCycles,    \* cycles rom_ppu_write_dma steps: 512
          MaxCycle      \* bound on the cycle counter

ASSUME MovieAssumption ==
    /\ MovieOff \in MovieState /\ KeyButton \subseteq MovieButton
    /\ NoMovie \notin MovieSet
    /\ MovieSet \subseteq Seq([cycle : Nat, button : MovieButton, state : MovieState])
    /\ InstrCycles \subseteq Nat \ {0} /\ InstrCycles # {}
    /\ DmaCycles \in Nat /\ MaxCycle \in Nat

VARIABLES movie,       \* what loadMovie read, in file order
          frameIndex,  \* entries replayed
          cycleIndex,  \* cycles stepped since the program started
          buttons,     \* padsActual of the controller framework
          phase,       \* where rom_cycle is, or the program
          cycles,      \* rom_cycle's argument
          polledAt,    \* history: cycleIndex of the last poll
          replayedAt   \* history: per replayed entry, cycleIndex then

movieVars == <<movie, frameIndex, cycleIndex, buttons, phase, cycles,
               polledAt, replayedAt>>

Loaded == movie # NoMovie

MovieInit ==
    /\ movie \in MovieSet \cup {NoMovie}
    /\ frameIndex = 0 /\ cycleIndex = 0
    /\ buttons = [b \in MovieButton |-> MovieOff]
    /\ phase = "program" /\ cycles = 0
    /\ polledAt = -1 /\ replayedAt = << >>

-----------------------------------------------------------------------------
(* Wrong variants, for mutation testing. *)

EntryDueLate ==
    frameIndex < Len(movie) /\ cycleIndex > movie[frameIndex + 1].cycle

EntryDueByCount == frameIndex < Len(movie)

MovieGoesOnAtEnd ==
    /\ phase = "movie"
    /\ ~(Loaded /\ frameIndex < Len(movie) /\ cycleIndex >= movie[frameIndex + 1].cycle)
    /\ phase' = IF Loaded /\ frameIndex > Len(movie) THEN "exited" ELSE "step"
    /\ polledAt' = cycleIndex
    /\ UNCHANGED <<movie, frameIndex, cycleIndex, buttons, cycles, replayedAt>>

-----------------------------------------------------------------------------
(* The program. *)

(* An instruction ends in a call of rom_cycle. *)
CallCycle(n) ==
    /\ phase = "program"
    /\ cycleIndex + n <= MaxCycle
    /\ cycles' = n
    /\ phase' = "events"
    /\ UNCHANGED <<movie, frameIndex, cycleIndex, buttons, polledAt, replayedAt>>

(* A store to $4014 steps 255 + 255 + 2 cycles before its own rom_cycle. *)
StoreDma(n) ==
    /\ phase = "program"
    /\ cycleIndex + DmaCycles + n <= MaxCycle
    /\ cycleIndex' = cycleIndex + DmaCycles
    /\ cycles' = n
    /\ phase' = "events"
    /\ UNCHANGED <<movie, frameIndex, buttons, polledAt, replayedAt>>

-----------------------------------------------------------------------------
(* flush_events: any number of events, then none. *)
Key(b, s) ==
    /\ phase = "events"
    /\ buttons' = [buttons EXCEPT ![b] = s]
    /\ UNCHANGED <<movie, frameIndex, cycleIndex, phase, cycles, polledAt, replayedAt>>

QuitEvent ==
    /\ phase = "events"
    /\ phase' = "exited"
    /\ UNCHANGED <<movie, frameIndex, cycleIndex, buttons, cycles, polledAt, replayedAt>>

NoMoreEvents ==
    /\ phase = "events"
    /\ phase' = "movie"
    /\ UNCHANGED <<movie, frameIndex, cycleIndex, buttons, cycles, polledAt, replayedAt>>

-----------------------------------------------------------------------------
(* setPadStateFromMovie. *)
EntryDue ==
    frameIndex < Len(movie) /\ cycleIndex >= movie[frameIndex + 1].cycle

(* One round of its loop. *)
ReplayEntry ==
    /\ phase = "movie"
    /\ Loaded /\ EntryDue
    /\ LET entry == movie[frameIndex + 1] IN
          buttons' = [buttons EXCEPT ![entry.button] = entry.state]
    /\ frameIndex' = frameIndex + 1
    /\ replayedAt' = Append(replayedAt, cycleIndex)
    /\ UNCHANGED <<movie, cycleIndex, phase, cycles, polledAt>>

(* The loop is over: the program ends when no entry is left. *)
MovieDone ==
    /\ phase = "movie"
    /\ ~(Loaded /\ EntryDue)
    /\ phase' = IF Loaded /\ frameIndex >= Len(movie) THEN "exited" ELSE "step"
    /\ polledAt' = cycleIndex
    /\ UNCHANGED <<movie, frameIndex, cycleIndex, buttons, cycles, replayedAt>>

(* step: the rest of rom_cycle, as far as the movie can tell. *)
Step ==
    /\ phase = "step"
    /\ cycleIndex' = cycleIndex + cycles
    /\ phase' = "program"
    /\ UNCHANGED <<movie, frameIndex, buttons, cycles, polledAt, replayedAt>>

Program == \E n \in InstrCycles : CallCycle(n) \/ StoreDma(n)

RomCycle ==
    \/ \E b \in KeyButton, s \in MovieState : Key(b, s)
    \/ QuitEvent \/ NoMoreEvents
    \/ ReplayEntry \/ MovieDone \/ Step

MovieNext == Program \/ RomCycle

MovieSpec == MovieInit /\ [][MovieNext]_movieVars

(* The program is one thread that never waits, and no player sends events   *)
(* faster than SDL_PollEvent takes them.                                    *)
Thread == ReplayEntry \/ MovieDone \/ Step

FairMovieSpec ==
    /\ MovieSpec
    /\ WF_movieVars(Program) /\ WF_movieVars(NoMoreEvents) /\ WF_movieVars(Thread)

-----------------------------------------------------------------------------
(* The type invariant. *)
MovieTypeOK ==
    /\ movie \in MovieSet \cup {NoMovie}
    /\ Loaded => frameIndex \in 0 .. Len(movie)
    /\ cycleIndex \in 0 .. MaxCycle
    /\ buttons \in [MovieButton -> MovieState]
    /\ phase \in {"program", "events", "movie", "step", "exited"}
    /\ cycles \in Nat
    /\ Len(replayedAt) = frameIndex

(* An entry waits for its own cycle and for those of all entries before it: *)
(* a movie need not be sorted.                                              *)
Due(i) == Max({movie[j].cycle : j \in 1 .. i})

(* The pads a movie asks for at a cycle. *)
Asked(cycle) ==
    LET due == {i \in DOMAIN movie : Due(i) <= cycle} IN
    [b \in MovieButton |->
        LET last == {i \in due : movie[i].button = b} IN
        IF last = {} THEN MovieOff ELSE movie[Max(last)].state]

(* The buttons that no key moves are, at every instruction, those the movie *)
(* asks for at the last poll, however long the instructions and the stalls  *)
(* between the polls were and however many entries fell into one of them: a *)
(* replay depends on the cycle counter alone.                               *)
ReplayFollowsClock ==
    Loaded /\ phase \in {"step", "program"} /\ polledAt >= 0
        => \A b \in MovieButton \ KeyButton : buttons[b] = Asked(polledAt)[b]

(* Every entry is replayed, once and in file order, no earlier than its     *)
(* cycle and less than one instruction and one stall after it.              *)
ReplayIsPrompt ==
    Loaded => \A i \in 1 .. frameIndex :
                  /\ replayedAt[i] >= Due(i)
                  /\ \E n \in InstrCycles : replayedAt[i] < Due(i) + n + DmaCycles

(* A program that replays a movie ends with it. *)
MovieEndsProgram == Loaded ~> phase = "exited"
=============================================================================
