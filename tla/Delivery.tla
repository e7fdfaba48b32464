------------------------------ MODULE Delivery -------------------------------
(***************************************************************************)
(* An outbox and a transactional inbox joined by a network.  A request of  *)
(* the attempt in flight is live; when the attempt ends the request may    *)
(* still be under way, and reach the inbox late, after the next attempt    *)
(* of the same record or of later ones, or never.                          *)
(* Only the live request's answer is read.  Either side may stop between   *)
(* any two file operations, by a dying process or by a power loss.         *)
(***************************************************************************)
EXTENDS Outbox, Inbox

CONSTANTS MaxFaults   \* crashes, failed file operations and restarts

VARIABLES wire,     \* requests under way: [seq, body, live]
          reply,    \* the answer on its way to the attempt in flight
          hazards,  \* the kinds of fault that may happen
          faults    \* how many have happened

netVars == <<wire, reply, hazards, faults>>
vars == <<outboxVars, inboxVars, netVars>>

Msg(rec, live) == [seq |-> rec.seq, body |-> rec.req.body, live |-> live]
Stale(m) == [m EXCEPT !.live = FALSE]
StaleWire == {Stale(m) : m \in wire}
StaleStore(s) == IF s.cur = NoMsg THEN s ELSE [s EXCEPT !.cur = Stale(@)]

DeliveryInit(kinds) ==
    /\ OutboxInit
    /\ InboxInit
    /\ wire = {}
    /\ reply = None
    /\ hazards \in kinds
    /\ faults = 0

-----------------------------------------------------------------------------
(* Steps of the outbox that do not touch the network *)

Storage ==
    /\ \/ \E c \in Call :
            Enqueue(c) \/ Cancel(c) \/ AppendSkipped(c) \/ AppendKnown(c)
              \/ AppendRejected(c) \/ AppendNew(c)
       \/ Collect \/ Publish
       \/ CheckpointSync \/ CheckpointLink \/ CollectSegment \/ CheckpointDone
       \/ Open
    /\ UNCHANGED <<inboxVars, netVars>>

Send ==
    /\ StartAttempt
    /\ wire' = wire \cup {Msg(Head(wal.pending), TRUE)}
    /\ reply' = None
    /\ UNCHANGED <<inboxVars, hazards, faults>>

\* The attempt is over: whatever still answers it is not read.
Forget ==
    /\ wire' = StaleWire
    /\ store' = StaleStore(store)
    /\ reply' = None
    /\ UNCHANGED <<files, hazards>>

TimeOut == AttemptFails /\ Forget /\ UNCHANGED faults

Finish == reply = "ok" /\ (AckMarker \/ AckCheckpoint \/ AckRefused) /\ Forget /\ UNCHANGED faults

-----------------------------------------------------------------------------
(* The network and the inbox *)

Answered(m, r) == reply' = IF m.live THEN r ELSE reply

Receive ==
    /\ \E m \in wire :
         /\ wire' = wire \ {m}
         /\ \/ SkipDuplicate(m) /\ Answered(m, "ok")
            \/ Refuse(m) /\ Answered(m, "error")
            \/ Transition(m) /\ reply' = reply
    /\ UNCHANGED <<outboxVars, hazards, faults>>

SnapshotStep ==
    /\ SnapshotSync \/ Rename \/ Reopen
    /\ UNCHANGED <<outboxVars, netVars>>

Complete ==
    /\ Commit
    /\ Answered(store.cur, "ok")
    /\ UNCHANGED <<outboxVars, wire, hazards, faults>>

-----------------------------------------------------------------------------
(* Faults *)

Fault == faults < MaxFaults /\ faults' = faults + 1

OutboxFault ==
    /\ Fault
    /\ \/ "process" \in hazards /\ Die
       \/ "power" \in hazards /\ LosePower
       \/ Close
    /\ Forget

InboxFault ==
    /\ Fault
    /\ \/ WriteFails \/ InboxDies \/ InboxLosesPower
    /\ UNCHANGED <<outboxVars, wire, reply, hazards>>

DeliveryNext ==
    \/ Storage \/ Send \/ TimeOut \/ Finish
    \/ Receive \/ SnapshotStep \/ Complete
    \/ OutboxFault \/ InboxFault

-----------------------------------------------------------------------------
(* What no fault at this moment could take away *)

SureRecords ==
    LET all == disk.gone \o disk.segs
        last == Len(all) - (IF "power" \in hazards THEN disk.fresh ELSE 0)
        sure(s) == IF "power" \in hazards THEN 1 .. s.sure ELSE DOMAIN s.recs
    IN  UNION {{all[k].recs[j] : j \in sure(all[k])} : k \in 1 .. last}

\* What is applied, and after it the records whose turn will come.
SureLog ==
    LET todo == {r \in SureRecords : r.kind = "business" /\ r.seq > files.kept.mark}
        at(n) == {r.req.body : r \in {t \in todo : t.seq = n}}
    IN  files.kept.state \o
          [k \in 1 .. Cardinality(todo) |-> CHOOSE b \in at(files.kept.mark + k) : TRUE]

Queue == INSTANCE DurableQueue WITH
           Caller <- Call,
           Submission <- [c \in Call |-> Request[c].body],
           log <- SureLog,
           applied <- files.kept.mark,
           told <- [c \in Call |-> answer[c].seq]

-----------------------------------------------------------------------------
(* Properties *)

\* Delivery implements the queue: whatever crashes, is lost or comes late, what
\* is durable only grows at the end, each record is applied once and in order,
\* and the sequence enqueue() returned is where the caller's message is applied.
ImplementsQueue == Queue!QueueSpec

\* Nobody forgets what it answered for.  What the outbox counts as delivered
\* (last_acked, the watermark of its log, every marker in its files) is synced at
\* the receiver, and whatever a crash left of the outbox opens again with every
\* sequence a caller was told, acknowledged or pending with its content.
NothingForgotten ==
    /\ Up => status.acked <= wal.acked /\ wal.acked <= files.kept.mark
    /\ Scanned(disk).acked <= files.kept.mark
    /\ worker.step # "refused"
    /\ worker.step = "closed" =>
         LET w == Scanned(disk) IN
         \A c \in {x \in Call : Accepted(x)} :
           \/ answer[c].seq <= w.acked
           \/ Business(answer[c].seq, Request[c]) \in ToSet(w.pending)

\* Two accepted calls have the same sequence exactly when they repeat one
\* submission id; a retry of an id never becomes a second message, whatever
\* the log went through in between.
KeyedOnce ==
    \A c, d \in {x \in Call : Accepted(x)} :
      answer[c].seq = answer[d].seq <=> c = d \/ (Request[c].id # NoId /\ Request[c] = Request[d])

\* "Never ... start its delivery until every successful append in the group has
\* crossed the same sync barrier" (outbox/group.rs): the record of an attempt
\* is one a power loss cannot take away.
DeliveredIsDurable ==
    worker.flight # None =>
      worker.flight \in SureRecords \/ Marker(worker.flight.seq) \in SureRecords
=============================================================================
