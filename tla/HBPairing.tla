----------------------------- MODULE HBPairing -----------------------------
(***************************************************************************)
(* What the happens-before machine promises for one key (spec §4.4): the   *)
(* n-th Before returns only after the event of the n-th Happen has run,    *)
(* whatever order the calls arrive in, and a blocked Before whose Happen   *)
(* has run is eventually released.                                         *)
(*                                                                         *)
(* events:  Happen calls whose event() has run;                           *)
(* blocked: Before calls waiting for their Happen;                        *)
(* passed:  Before calls that have returned.                              *)
(***************************************************************************)
EXTENDS Naturals

VARIABLES events, blocked, passed

vars == <<events, blocked, passed>>

Init == events = 0 /\ blocked = 0 /\ passed = 0

\* Happen(key, event): the event runs.
Happen == events' = events + 1 /\ UNCHANGED <<blocked, passed>>

\* Before(key) finds its event already run and returns at once.
BeforeNow ==
    /\ passed + blocked < events
    /\ passed' = passed + 1
    /\ UNCHANGED <<events, blocked>>

\* Before(key) arrives before its event and blocks.
BeforeBlock ==
    /\ blocked' = blocked + 1
    /\ UNCHANGED <<events, passed>>

\* A blocked Before is released by its event.
BeforeRelease ==
    /\ blocked > 0
    /\ passed < events
    /\ blocked' = blocked - 1
    /\ passed' = passed + 1
    /\ UNCHANGED events

Next == Happen \/ BeforeNow \/ BeforeBlock \/ BeforeRelease

Spec == Init /\ [][Next]_vars /\ WF_vars(BeforeRelease)

=============================================================================
