------------------------------ MODULE IdleClock ------------------------------
(***************************************************************************)
(* The idle clock of an actor (ReceiveTimeout,                             *)
(* crates/parrot/src/receive_timeout.rs): handlers, configuration and      *)
(* lifecycle reset it, one worker sleeps until its deadline and puts a     *)
(* token into the mailbox, and the dispatcher turns a token that is still  *)
(* current into a ReceiveTimeout event.  The operations but the worker's   *)
(* are called by the actor's own dispatch, one after the other; each       *)
(* unlocks the state before it notifies the worker.  A step is what        *)
(* happens between two locks or notifications; a sleep may end at any      *)
(* moment.                                                                 *)
(***************************************************************************)
EXTENDS Naturals, Sequences

CONSTANTS
    MaxEpoch,   \* the largest epoch, u64::MAX in the code
    MaxActive   \* bound on the handlers under way

VARIABLES
    clock,      \* State: timeout set, epoch, active, ready, closed, deadline, pending
    sleeper,    \* the worker: where it is, and the epoch it read
    owed,       \* what the call under way still does: "nothing", "notify" or "start"
    woken,      \* changed was notified since the worker began to listen
    tokens,     \* the IdleSignals in the mailbox
    vanished,   \* the mailbox is gone
    calm        \* history: the deadline has passed and nothing happened since

idleVars == <<clock, sleeper, owed, woken, tokens, vanished, calm>>

NoEpoch == MaxEpoch + 1    \* Option::None of an epoch

\* State::reset; a deadline is named by the epoch it was set in.
Reset(c) ==
    LET last == c.epoch = MaxEpoch
        d == [c EXCEPT !.pending = NoEpoch, !.deadline = NoEpoch,
                       !.epoch = IF last THEN @ ELSE @ + 1,
                       !.closed = @ \/ last, !.timeout = @ /\ ~last]
    IN  [d EXCEPT !.deadline =
            IF ~d.closed /\ d.ready /\ d.active = 0 /\ d.timeout THEN d.epoch ELSE NoEpoch]

\* A call changes the clock: it resets the state, unlocks it, and owes the rest.
Changes(c, rest) ==
    /\ owed = "nothing"
    /\ clock' = Reset(c)
    /\ calm' = FALSE
    /\ owed' = rest

-----------------------------------------------------------------------------
(* The actor *)

\* Faulty: the worker is not notified.
NotifyNobody ==
    /\ owed = "notify" /\ owed' = "nothing"
    /\ UNCHANGED <<clock, sleeper, woken, tokens, vanished, calm>>

\* notify_waiters, at the end of every call: it reaches the worker when that has
\* begun to listen, be it after the change.
NotifyChanged ==
    /\ owed = "notify" /\ owed' = "nothing"
    /\ woken' = TRUE
    /\ UNCHANGED <<clock, sleeper, tokens, vanished, calm>>

Activate ==
    /\ ~clock.ready
    /\ Changes([clock EXCEPT !.ready = TRUE], "notify")
    /\ UNCHANGED <<sleeper, woken, tokens, vanished>>

\* configure, up to its unlock: the first timeout also starts the worker.
Configure(on) ==
    LET timeout == on /\ ~clock.closed IN
    /\ Changes([clock EXCEPT !.timeout = timeout],
               IF sleeper.at = "none" /\ Reset([clock EXCEPT !.timeout = timeout]).timeout
               THEN "start" ELSE "notify")
    /\ UNCHANGED <<sleeper, woken, tokens, vanished>>

\* The rest of configure: nobody listens yet, and the worker starts,
StartWorker ==
    /\ owed = "start" /\ owed' = "nothing"
    /\ sleeper' = [sleeper EXCEPT !.at = "listen"]
    /\ UNCHANGED <<clock, woken, tokens, vanished, calm>>

\* or it cannot be started and the clock is closed.
StartFails ==
    /\ owed = "start" /\ owed' = "notify"
    /\ clock' = Reset([clock EXCEPT !.closed = TRUE, !.timeout = FALSE])
    /\ calm' = FALSE
    /\ UNCHANGED <<sleeper, woken, tokens, vanished>>

\* enter, and the drop of the Activity it returns.
Enter ==
    /\ clock.active < MaxActive
    /\ Changes([clock EXCEPT !.active = @ + 1], "notify")
    /\ UNCHANGED <<sleeper, woken, tokens, vanished>>

Leave ==
    /\ clock.active > 0
    /\ Changes([clock EXCEPT !.active = @ - 1], "notify")
    /\ UNCHANGED <<sleeper, woken, tokens, vanished>>

CloseClock ==
    /\ ~clock.closed
    /\ Changes([clock EXCEPT !.closed = TRUE, !.timeout = FALSE], "notify")
    /\ UNCHANGED <<sleeper, woken, tokens, vanished>>

Vanish ==
    /\ ~vanished
    /\ vanished' = TRUE /\ tokens' = <<>>
    /\ UNCHANGED <<clock, sleeper, owed, woken, calm>>

\* Faulty: any token counts while the actor is idle.
CurrentAny(e) == ~clock.closed /\ clock.active = 0

\* claim accepts the token of the pending interval.
Current(e) == ~clock.closed /\ clock.active = 0 /\ clock.pending = e

\* The dispatcher takes a token: a ReceiveTimeout event, handled like any
\* message, or nothing.
Dispatch ==
    /\ owed = "nothing" /\ tokens # <<>>
    /\ tokens' = Tail(tokens)
    /\ \/ Current(Head(tokens)) /\ Changes([clock EXCEPT !.active = @ + 1], "notify")
       \/ ~Current(Head(tokens)) /\ UNCHANGED <<clock, owed, calm>>
    /\ UNCHANGED <<sleeper, woken, vanished>>

-----------------------------------------------------------------------------
(* The worker: run *)

\* It registers with changed,
Listen ==
    /\ sleeper.at = "listen"
    /\ woken' = FALSE
    /\ sleeper' = [sleeper EXCEPT !.at = "look"]
    /\ UNCHANGED <<clock, owed, tokens, vanished, calm>>

\* looks at the state,
Look ==
    /\ sleeper.at = "look"
    /\ sleeper' = IF clock.closed THEN [sleeper EXCEPT !.at = "ended"]
                  ELSE [at |-> IF clock.deadline = NoEpoch THEN "wait" ELSE "sleep",
                        epoch |-> clock.epoch]
    /\ UNCHANGED <<clock, owed, woken, tokens, vanished, calm>>

\* waits or sleeps until something changes,
Woken ==
    /\ sleeper.at \in {"wait", "sleep", "deliver"} /\ woken
    /\ sleeper' = [sleeper EXCEPT !.at = "listen"]
    /\ UNCHANGED <<clock, owed, woken, tokens, vanished, calm>>

\* or until the deadline,
SleepEnds ==
    /\ sleeper.at = "sleep" /\ ~woken
    /\ sleeper' = [sleeper EXCEPT !.at = "expired"]
    /\ calm' = (calm \/ clock.deadline = sleeper.epoch)
    /\ UNCHANGED <<clock, owed, woken, tokens, vanished>>

\* which must still be the one it slept for,
Elapse ==
    /\ sleeper.at = "expired"
    /\ \/ /\ ~clock.closed /\ clock.deadline = sleeper.epoch
          /\ clock' = [clock EXCEPT !.deadline = NoEpoch, !.pending = sleeper.epoch]
          /\ sleeper' = [sleeper EXCEPT !.at = "deliver"]
       \/ /\ clock.closed \/ clock.deadline # sleeper.epoch
          /\ sleeper' = [sleeper EXCEPT !.at = "listen"]
          /\ UNCHANGED clock
    /\ UNCHANGED <<owed, woken, tokens, vanished, calm>>

\* and puts the token into the mailbox; a mailbox that is gone ends it.
DeliverToken ==
    /\ sleeper.at = "deliver"
    /\ \/ ~vanished /\ tokens' = Append(tokens, sleeper.epoch)
                    /\ sleeper' = [sleeper EXCEPT !.at = "listen"]
       \/ vanished /\ sleeper' = [sleeper EXCEPT !.at = "ended"] /\ UNCHANGED tokens
    /\ UNCHANGED <<clock, owed, woken, vanished, calm>>

Sleeper == Listen \/ Look \/ Woken \/ SleepEnds \/ Elapse \/ DeliverToken

\* The rest of a call that has unlocked the state.
Rest == NotifyChanged \/ StartWorker \/ StartFails

-----------------------------------------------------------------------------
IdleInit ==
    /\ clock = [timeout |-> FALSE, epoch |-> 0, active |-> 0, ready |-> FALSE,
                closed |-> FALSE, deadline |-> NoEpoch, pending |-> NoEpoch]
    /\ sleeper = [at |-> "none", epoch |-> 0]
    /\ owed = "nothing" /\ woken = FALSE /\ tokens = <<>> /\ vanished = FALSE /\ calm = FALSE

IdleNext ==
    \/ Activate \/ Enter \/ Leave \/ CloseClock \/ Vanish \/ Dispatch \/ Sleeper \/ Rest
    \/ \E on \in BOOLEAN : Configure(on)

\* The runtime runs the worker, calls return, and the actor comes to every token.
IdleFairness == WF_sleeper(Sleeper) /\ WF_owed(Rest) /\ WF_tokens(Dispatch)

IdleSpec == IdleInit /\ [][IdleNext]_idleVars /\ IdleFairness

-----------------------------------------------------------------------------
(* Properties *)

\* "Only a still-current idle interval becomes a public ReceiveTimeout": a
\* token counts only when the deadline has passed since the last message,
\* configuration or lifecycle change, however late it comes (run, claim).
TimesOutIdleOnly ==
    [][tokens' # tokens /\ clock' # clock => calm]_idleVars

\* An actor with a timeout and nothing to do.
Idling ==
    clock.timeout /\ clock.ready /\ ~clock.closed /\ clock.active = 0 /\ ~vanished

\* The idle interval has run out, and its token is neither in the mailbox nor on
\* its way there.
GivenUp ==
    /\ clock.pending # NoEpoch /\ sleeper.at # "deliver"
    /\ \A k \in DOMAIN tokens : tokens[k] # clock.pending

\* An actor that stays idle is told, unless the notification of the change that
\* began the idle interval comes only when the interval has run out and takes the
\* worker away from the delivery: no other change is lost, between the worker's
\* look and its wait or later, and a token given up for a change is made again
\* (run).  The clock has MaxEpoch epochs, so it is reset finitely often.
ToldUnlessCutOff == []<>(~Idling \/ GivenUp)

\* "Actors receive LifecycleEvent::ReceiveTimeout after this much idle time
\* following initialization or a completed handler" (ActorContext): an actor that
\* stays idle is told.
IdleIsTold == []<>~Idling
==============================================================================
