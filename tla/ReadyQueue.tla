----------------------------- MODULE ReadyQueue -----------------------------
(***************************************************************************)
(* The bounded ready queue of the shared pool, as operations on the state  *)
(* behind its one lock (State and SchedulingQueue,                         *)
(* crates/parrot/src/thread/scheduler/queue.rs).                           *)
(*                                                                         *)
(* Two lanes share the capacity.  An actor that becomes ready while they   *)
(* are full is deferred: a marker in its registration, which moves to a    *)
(* lane as soon as there is room.  A marker and a lane entry have the same *)
(* shape here.                                                             *)
(***************************************************************************)
EXTENDS Naturals, FiniteSets, Sequences, SequencesExt

CONSTANTS
    Mailbox,
    QueueCap    \* max_capacity

ASSUME QueueCapPos == QueueCap \in Nat \ {0}

High == 0

Normal == 1

Lane == {High, Normal}

EmptyQueue ==
    [high |-> <<>>, normal |-> <<>>, deferred |-> {}, registered |-> {},
     next |-> 0, closed |-> FALSE]

Resident(q) == Len(q.high) + Len(q.normal)

\* The order of Admission: the lane first, then the ticket.
Before(a, b) == a.lane < b.lane \/ (a.lane = b.lane /\ a.ticket < b.ticket)

\* append
Appended(q, e) ==
    IF e.lane = High THEN [q EXCEPT !.high = Append(@, e)]
                     ELSE [q EXCEPT !.normal = Append(@, e)]

\* Faulty: the last comer of the lane.
NewestDeferred(q) ==
    CHOOSE e \in q.deferred : \A f \in q.deferred :
        e.lane < f.lane \/ (e.lane = f.lane /\ e.ticket >= f.ticket)

\* oldest_deferred
OldestDeferred(q) == CHOOSE e \in q.deferred : \A f \in q.deferred \ {e} : Before(e, f)

\* One round of refill: the oldest marker becomes an entry.
Promoted(q) ==
    IF Resident(q) < QueueCap /\ q.deferred # {}
    THEN LET e == OldestDeferred(q)
         IN  Appended([q EXCEPT !.deferred = @ \ {e}], e)
    ELSE q

\* refill: rounds until the lanes are full or nobody is deferred.
Refill(q) ==
    LET rounds[n \in 0..QueueCap] == IF n = 0 THEN q ELSE Promoted(rounds[n - 1])
    IN  rounds[QueueCap]

\* register
Registered(q, m) == [q EXCEPT !.registered = @ \cup {m}]

\* enqueue_registered, when the queue is open and the mailbox registered.
Enqueued(q, m, lane) ==
    LET old == {e \in q.deferred : e.box = m}
        r == Refill(q)
        e == [box |-> m, lane |-> lane, ticket |-> r.next]
        t == [r EXCEPT !.next = @ + 1]
    IN  IF old # {}
        THEN [q EXCEPT !.deferred =
                 (@ \ old) \cup {[f EXCEPT !.lane = IF lane = High THEN High ELSE @] : f \in old}]
        ELSE IF Resident(t) < QueueCap THEN Appended(t, e)
                                       ELSE [t EXCEPT !.deferred = @ \cup {e}]

\* unregister
Unregistered(q, m) ==
    LET Other(e) == e.box # m
    IN  Refill([q EXCEPT !.registered = @ \ {m},
                         !.deferred = {e \in @ : Other(e)},
                         !.high = SelectSeq(@, Other),
                         !.normal = SelectSeq(@, Other)])

\* close_and_take: what stays in the queue.
Closed(q) == [EmptyQueue EXCEPT !.next = q.next, !.closed = TRUE]

\* The entry at the front of the lanes.
Foremost(q) == IF q.high # <<>> THEN Head(q.high) ELSE Head(q.normal)

PopFront(q) ==
    IF q.high # <<>> THEN [q EXCEPT !.high = Tail(@)] ELSE [q EXCEPT !.normal = Tail(@)]

\* try_pop on lanes that are not empty: the entry taken, and the rest.
Taken(q) ==
    IF q.deferred # {} /\ Before(OldestDeferred(q), Foremost(q))
    THEN OldestDeferred(q) ELSE Foremost(q)

Popped(q) ==
    IF Taken(q) \in q.deferred
    THEN Refill([q EXCEPT !.deferred = @ \ {Taken(q)}])
    ELSE Refill(PopFront(q))

-----------------------------------------------------------------------------
(* Views of the queue *)

Entries(q) == q.high \o q.normal

\* How often m waits, in a lane or deferred.
WaitingOf(q, m) ==
    Cardinality({k \in 1..Resident(q) : Entries(q)[k].box = m})
        + Cardinality({e \in q.deferred : e.box = m})

Everything(q) == ToSet(Entries(q)) \cup q.deferred
=============================================================================
