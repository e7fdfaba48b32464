----------------------------- MODULE MpscMailbox -----------------------------
(***************************************************************************)
(* The bounded mailbox of an actor (MpscMailbox,                           *)
(* crates/parrot/src/thread/mailbox/mpsc.rs): two lanes behind one gate,   *)
(* producers with a backpressure strategy each, the actor that pops, and   *)
(* the closing of the mailbox.  A step is one critical section of the gate *)
(* or one access outside it; a message is the number of its arrival.       *)
(***************************************************************************)
EXTENDS Naturals, Sequences, FiniteSets

CONSTANTS
    Producer,
    LaneCapacity,   \* messages the two lanes hold together
    MaxSends    \* bound on the sends

ASSUME MailboxBounds == LaneCapacity \in Nat \ {0} /\ MaxSends \in Nat

VARIABLES
    normal,     \* the flume channel
    high,       \* high_lane: messages with the frontier they arrived at
    removed,    \* normal_removed
    sealed,     \* is_closed
    send,       \* send[p]: where the send of producer p is
    notifying,  \* pop_item has popped and not yet notified
    closing,    \* how far close has come
    arrivals, sends

mailVars == <<normal, high, removed, sealed, send, notifying, closing, arrivals, sends>>

\* What a full mailbox does with a message: wait, make room, or refuse it
\* (DropNewest and Error, which differ in the error returned).
Strategy == {"Block", "DropOldest", "Refuse"}

NoSend == [at |-> "idle"]

\* The messages held in the lanes.
Held == Len(normal) + Len(high)

-----------------------------------------------------------------------------
(* enqueue *)

\* A send begins, or goes round its loop: it registers with capacity_notify.
AwaitsRoom(p, urgent, strategy) ==
    send' = [send EXCEPT ![p] = [at |-> "registered", urgent |-> urgent,
                                 strategy |-> strategy, notified |-> FALSE]]

Begin(p, urgent, strategy) ==
    /\ send[p] = NoSend /\ sends < MaxSends
    /\ sends' = sends + 1
    /\ AwaitsRoom(p, urgent, strategy)
    /\ UNCHANGED <<normal, high, removed, sealed, notifying, closing, arrivals>>

Retry(p) ==
    /\ send[p].at = "waiting" /\ send[p].notified
    /\ AwaitsRoom(p, send[p].urgent, send[p].strategy)
    /\ UNCHANGED <<normal, high, removed, sealed, notifying, closing, arrivals, sends>>

\* The lanes with one more message, or with the arrival in place of the oldest.
Appended(n, h, r, urgent) ==
    IF urgent
    THEN /\ high' = Append(h, [frontier |-> r + Len(n), arrival |-> arrivals])
         /\ normal' = n
    ELSE normal' = Append(n, arrivals) /\ high' = h

\* Faulty: the high lane makes room first.
EvictHigh(urgent) ==
    IF high # <<>>
    THEN Appended(normal, Tail(high), removed, urgent) /\ removed' = removed
    ELSE Appended(Tail(normal), high, removed + 1, urgent) /\ removed' = removed + 1

\* DropOldest: the front of the high lane is older than the whole normal lane
\* when as many normal messages were removed as had arrived before it.
EvictOldest(urgent) ==
    IF high # <<>> /\ Head(high).frontier = removed
    THEN Appended(normal, Tail(high), removed, urgent) /\ removed' = removed
    ELSE Appended(Tail(normal), high, removed + 1, urgent) /\ removed' = removed + 1

\* Faulty: one message too many.
FullLate == Held > LaneCapacity

Full == Held >= LaneCapacity

\* The critical section of enqueue.
Admit(p) ==
    /\ send[p].at = "registered"
    /\ \/ /\ sealed \/ (Full /\ send[p].strategy = "Refuse")
          /\ send' = [send EXCEPT ![p] = NoSend]
          /\ UNCHANGED <<normal, high, removed, arrivals>>
       \/ /\ ~sealed /\ Full /\ send[p].strategy = "Block"
          /\ send' = [send EXCEPT ![p].at = "waiting"]
          /\ UNCHANGED <<normal, high, removed, arrivals>>
       \/ /\ ~sealed /\ Full /\ send[p].strategy = "DropOldest"
          /\ EvictOldest(send[p].urgent)
          /\ arrivals' = arrivals + 1
          /\ send' = [send EXCEPT ![p] = NoSend]
       \/ /\ ~sealed /\ ~Full
          /\ Appended(normal, high, removed, send[p].urgent)
          /\ UNCHANGED removed
          /\ arrivals' = arrivals + 1
          /\ send' = [send EXCEPT ![p] = NoSend]
    /\ UNCHANGED <<sealed, notifying, closing, sends>>

-----------------------------------------------------------------------------
(* pop_item, seal and close *)

\* Faulty: notify_one in its place.
NotifyOne ==
    \/ \E p \in Producer : send[p] # NoSend /\ send' = [send EXCEPT ![p].notified = TRUE]
    \/ (\A p \in Producer : send[p] = NoSend) /\ UNCHANGED send

\* notify_waiters: every send registered by now is told.
NotifyWaiters ==
    send' = [p \in Producer |->
                IF send[p] = NoSend THEN NoSend ELSE [send[p] EXCEPT !.notified = TRUE]]

PopItem ==
    /\ ~notifying /\ Held > 0
    /\ \/ high # <<>> /\ high' = Tail(high) /\ UNCHANGED <<normal, removed>>
       \/ high = <<>> /\ normal' = Tail(normal) /\ removed' = removed + 1 /\ UNCHANGED high
    /\ notifying' = TRUE
    /\ UNCHANGED <<sealed, send, closing, arrivals, sends>>

NotifyPopped ==
    /\ notifying
    /\ NotifyWaiters
    /\ notifying' = FALSE
    /\ UNCHANGED <<normal, high, removed, sealed, closing, arrivals, sends>>

\* seal, outside the gate,
Seal ==
    /\ closing = "open"
    /\ sealed' = TRUE /\ closing' = "sealed"
    /\ UNCHANGED <<normal, high, removed, send, notifying, arrivals, sends>>

\* tells the waiting sends,
NotifySealed ==
    /\ closing = "sealed"
    /\ NotifyWaiters
    /\ closing' = "told"
    /\ UNCHANGED <<normal, high, removed, sealed, notifying, arrivals, sends>>

\* and close empties the lanes.
Drain ==
    /\ closing = "told"
    /\ normal' = <<>> /\ high' = <<>>
    /\ closing' = "drained"
    /\ UNCHANGED <<removed, sealed, send, notifying, arrivals, sends>>

-----------------------------------------------------------------------------
MailboxInit ==
    /\ normal = <<>> /\ high = <<>> /\ removed = 0
    /\ sealed = FALSE /\ notifying = FALSE /\ closing = "open"
    /\ send = [p \in Producer |-> NoSend]
    /\ arrivals = 0 /\ sends = 0

MailboxNext ==
    \/ PopItem \/ NotifyPopped \/ Seal \/ NotifySealed \/ Drain
    \/ \E p \in Producer :
          \/ Retry(p) \/ Admit(p)
          \/ \E urgent \in BOOLEAN, strategy \in Strategy : Begin(p, urgent, strategy)

\* Producers go on when they are told, the actor of an open mailbox keeps
\* popping, and a close that has begun is carried out: a fairness for each
\* thread, with the variable its steps always change for a subscript.
MailboxFairness ==
    /\ \A p \in Producer : WF_send(Retry(p) \/ Admit(p))
    /\ WF_notifying((~sealed /\ PopItem) \/ NotifyPopped)
    /\ WF_closing(NotifySealed \/ Drain)

MailboxSpec == MailboxInit /\ [][MailboxNext]_mailVars /\ MailboxFairness

-----------------------------------------------------------------------------
(* Properties *)

Arrivals == {normal[k] : k \in 1..Len(normal)} \cup {high[k].arrival : k \in 1..Len(high)}

\* "Delivery priority must not redefine oldest": a message that makes room for
\* another is the oldest of both lanes (enqueue).
EvictsOldest ==
    [][arrivals' > arrivals =>
          \A gone \in Arrivals \ Arrivals' : \A kept \in Arrivals : gone <= kept]_mailVars

\* The two lanes share one capacity, which no send exceeds however many pass the
\* look at it, and once close has taken the lanes nothing gets in any more, whatever
\* sends were under way when it began (enqueue, the closed check inside the gate).
RoomKept == Held <= (IF closing = "drained" THEN 0 ELSE LaneCapacity)

\* No send waits for ever: a pop or a close between a producer's look at the
\* full mailbox and its wait is not lost (the registration with
\* capacity_notify before the look).
SendsEnd == \A p \in Producer : []<>(send[p] = NoSend)
==============================================================================
