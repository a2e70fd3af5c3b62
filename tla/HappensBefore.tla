--------------------------- MODULE HappensBefore ---------------------------
(***************************************************************************)
(* HappenceBeforeMachine (pkg/concurrency/hb.go) for one key, called by    *)
(* Happeners (StartBuild) and Beforers (SignalBuild), each making up to    *)
(* Rounds calls one after another. Keys are independent, so one suffices.  *)
(*                                                                         *)
(* The atomic counter starts at nothing; Happen runs its event and then    *)
(* adds 1, closing the waiter channel if the result is nothing; Before     *)
(* subtracts 1 and, if the result is waiting, reads the channel pointer,   *)
(* blocks on that channel and replaces *wait by a fresh channel. Channels  *)
(* are numbered; chan is the one *wait points to.                          *)
(***************************************************************************)
EXTENDS Integers, FiniteSets, Functions

CONSTANTS
    Happeners,   \* goroutines calling Happen(key, event)
    Beforers,    \* goroutines calling Before(key)
    Rounds       \* calls each goroutine makes

ASSUME Rounds \in Nat \ {0}
ASSUME Happeners \cap Beforers = {}

Procs == Happeners \cup Beforers

\* The counter values of hb.go.
Waiting == 0
Nothing == 1

VARIABLES
    cnt,        \* the atomic.Int32 of wasMap[key]
    chan,       \* the channel *waitMap[key] points to
    closed,     \* channels closed so far
    pc,         \* where each goroutine is in its current call
    held,       \* the channel a Before read from *wait and blocks on
    calls,      \* calls each goroutine has completed
    panicked    \* close of a closed channel panicked

vars == <<cnt, chan, closed, pc, held, calls, panicked>>

\* create(key) under h.mu makes the channel and the counter on first use;
\* the entry exists from the first call on and is the same for every call.
Init ==
    /\ cnt = Nothing
    /\ chan = 0
    /\ closed = {}
    /\ pc = [p \in Procs |-> "idle"]
    /\ held = [p \in Beforers |-> 0]
    /\ calls = [p \in Procs |-> 0]
    /\ panicked = FALSE

Return(p) ==
    /\ pc' = [pc EXCEPT ![p] = "idle"]
    /\ calls' = [calls EXCEPT ![p] = @ + 1]

\* Happen: create, then event().
HappenEvent(h) ==
    /\ ~panicked
    /\ pc[h] = "idle"
    /\ calls[h] < Rounds
    /\ pc' = [pc EXCEPT ![h] = "add"]
    /\ UNCHANGED <<cnt, chan, closed, held, calls, panicked>>

\* was.Add(1) == nothing: this Happen releases a waiting Before.
HappenAdd(h) ==
    /\ ~panicked
    /\ pc[h] = "add"
    /\ cnt' = cnt + 1
    /\ IF cnt + 1 = Nothing
       THEN /\ pc' = [pc EXCEPT ![h] = "close"]
            /\ UNCHANGED calls
       ELSE Return(h)
    /\ UNCHANGED <<chan, closed, held, panicked>>

\* close(*wait): reads the pointer now; closing a closed channel panics.
HappenClose(h) ==
    /\ ~panicked
    /\ pc[h] = "close"
    /\ IF chan \in closed
       THEN /\ panicked' = TRUE
            /\ UNCHANGED closed
       ELSE /\ closed' = closed \cup {chan}
            /\ UNCHANGED panicked
    /\ Return(h)
    /\ UNCHANGED <<cnt, chan, held>>

\* Mutant: the wait test is off by one (blocks only below waiting).
BeforeAddOffByOne(b) ==
    /\ ~panicked
    /\ pc[b] = "idle"
    /\ calls[b] < Rounds
    /\ cnt' = cnt - 1
    /\ IF cnt - 1 < Waiting
       THEN /\ pc' = [pc EXCEPT ![b] = "read"]
            /\ UNCHANGED calls
       ELSE Return(b)
    /\ UNCHANGED <<chan, closed, held, panicked>>

\* Before: create, then was.Add(-1); only the result waiting blocks.
BeforeAdd(b) ==
    /\ ~panicked
    /\ pc[b] = "idle"
    /\ calls[b] < Rounds
    /\ cnt' = cnt - 1
    /\ IF cnt - 1 = Waiting
       THEN /\ pc' = [pc EXCEPT ![b] = "read"]
            /\ UNCHANGED calls
       ELSE Return(b)
    /\ UNCHANGED <<chan, closed, held, panicked>>

\* <-(*wait): the pointer is read, then the receive blocks on that channel.
BeforeRead(b) ==
    /\ ~panicked
    /\ pc[b] = "read"
    /\ held' = [held EXCEPT ![b] = chan]
    /\ pc' = [pc EXCEPT ![b] = "block"]
    /\ UNCHANGED <<cnt, chan, closed, calls, panicked>>

BeforeWake(b) ==
    /\ ~panicked
    /\ pc[b] = "block"
    /\ held[b] \in closed
    /\ pc' = [pc EXCEPT ![b] = "renew"]
    /\ UNCHANGED <<cnt, chan, closed, held, calls, panicked>>

\* Mutant: the channel is not replaced after the wait.
BeforeRenewSkipped(b) ==
    /\ ~panicked
    /\ pc[b] = "renew"
    /\ Return(b)
    /\ UNCHANGED <<cnt, chan, closed, held, panicked>>

\* (*wait) = make(chan struct{}): a channel never used before.
BeforeRenew(b) ==
    /\ ~panicked
    /\ pc[b] = "renew"
    /\ chan' = chan + 1
    /\ Return(b)
    /\ UNCHANGED <<cnt, closed, held, panicked>>

Next ==
    \/ \E h \in Happeners : HappenEvent(h) \/ HappenAdd(h) \/ HappenClose(h)
    \/ \E b \in Beforers :
           BeforeAdd(b) \/ BeforeRead(b) \/ BeforeWake(b) \/ BeforeRenew(b)

\* Every goroutine the runtime can run is eventually run.
Fairness ==
    /\ \A h \in Happeners :
           WF_vars(HappenEvent(h) \/ HappenAdd(h) \/ HappenClose(h))
    /\ \A b \in Beforers :
           WF_vars(BeforeAdd(b) \/ BeforeRead(b) \/ BeforeWake(b) \/ BeforeRenew(b))

Spec == Init /\ [][Next]_vars /\ Fairness

-----------------------------------------------------------------------------

\* The refinement mapping: events counts Happen calls past event(),
\* blocked the Before calls that decided to wait, passed those returned.
InFlight(S, states) == {p \in S : pc[p] \in states}

HB == INSTANCE HBPairing WITH
        events  <- SumFunction([h \in Happeners |-> calls[h]])
                   + Cardinality(InFlight(Happeners, {"add", "close"})),
        blocked <- Cardinality(InFlight(Beforers, {"read", "block", "renew"})),
        passed  <- SumFunction([b \in Beforers |-> calls[b]])

(***************************************************************************)
(* The one-to-one pairing of spec §4.4: the machine implements HBPairing,  *)
(* so no Before returns before its Happen's event (StartBuild's            *)
(* publication) has run, and no blocked Before is left blocked once its    *)
(* Happen has happened.                                                    *)
(***************************************************************************)
Pairing == HB!Spec

(***************************************************************************)
(* Closing the waiter channel never panics: the close in Happen always     *)
(* finds the channel a Before renewed, not one already closed.             *)
(***************************************************************************)
NeverPanics == ~panicked

=============================================================================
