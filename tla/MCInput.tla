------------------------------ MODULE MCInput -------------------------------
(***************************************************************************)
(* What the program reads of its player: two pads of three buttons; and all *)
(* movies of up to three entries over three cycles and two buttons, one of  *)
(* them bound to a key, with unsorted movies and entries for one cycle      *)
(* among them.  A movie's buttons are the pads' only as an array that is    *)
(* set: each behaviour is about one of the two, so that the run adds their  *)
(* state spaces.                                                            *)
(***************************************************************************)
EXTENDS Pads, Movie

CONSTANTS padA, padB

MCPad == 0 .. 1
MCState == {64, 65}
MCStoreByte == {0, 1, 254, 255}
MCMovieButton == {padA, padB}
MCKeyButton == {padA}
MCInstrCycles == {1, 2}

MCEntry == [cycle : {0, 2, 5}, button : MCMovieButton, state : MCState]
MCMovies == UNION {[1 .. n -> MCEntry] : n \in 0 .. 3}

VARIABLE replays

mcVars == <<vars, movieVars, replays>>

Plays(A) == replays /\ A /\ UNCHANGED <<vars, replays>>

MCInit == Init /\ MovieInit /\ replays \in BOOLEAN /\ (~replays => movie = NoMovie)

MCNext ==
    \/ ~replays /\ Next /\ UNCHANGED <<movieVars, replays>>
    \/ Plays(MovieNext)

(* The fairness of FairMovieSpec. *)
MCSpec ==
    /\ MCInit /\ [][MCNext]_mcVars
    /\ WF_mcVars(Plays(Program)) /\ WF_mcVars(Plays(NoMoreEvents)) /\ WF_mcVars(Plays(Thread))
=============================================================================
