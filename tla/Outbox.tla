------------------------------- MODULE Outbox --------------------------------
(***************************************************************************)
(* The owner of one write-ahead log: one thread that admits submissions in *)
(* groups, each group behind one file sync, and delivers the oldest        *)
(* pending record, one attempt at a time, until the receiver confirms it.  *)
(*                                                                         *)
(* worker.step is where the thread is between two file operations:         *)
(*   "select"      waiting for the attempt, a command or the stop signal,  *)
(*   "append"      appending a collected group,                            *)
(*   "checkpoint"  the segment that replaces the log has been written,     *)
(*   "link"        that segment's contents are synced,                     *)
(*   "collect"     its directory entry too: removing the old segments,     *)
(*   "closed", "refused"  no worker; the directory did not open.           *)
(***************************************************************************)
EXTENDS Wal

CONSTANTS Call,        \* calls of enqueue and enqueue_idempotent
          Request,     \* what each call submits: [id, body]
          Capacity,    \* command_capacity
          GroupMax,    \* group_commit_max_records
          None         \* no attempt in flight, no reply

VARIABLES wal,     \* WalInner: acked, pending, receipts
          disk,    \* the directory (see Wal)
          worker,  \* step, group, staged, last, flight
          status,  \* OutboxStatus: enqueued, acked
          queue,   \* commands waiting in the channel
          answer   \* what each call was told

outboxVars == <<wal, disk, worker, status, queue, answer>>

Idle(flight) == [step |-> "select", group |-> <<>>, staged |-> <<>>,
                 last |-> 0, flight |-> flight]
Closed(step) == [Idle(None) EXCEPT !.step = step]
Up == worker.step \notin {"closed", "refused"}
Says(c, kind) == answer[c].kind = kind
Said(c, kind) == [answer EXCEPT ![c].kind = kind]
Accepted(c) == Says(c, "accepted")

OutboxInit ==
    /\ wal = NewIndex
    /\ disk = NewDir
    /\ worker = Idle(None)
    /\ status = [enqueued |-> 0, acked |-> 0]
    /\ queue = <<>>
    /\ answer = [c \in Call |-> [kind |-> "none", seq |-> 0]]

-----------------------------------------------------------------------------
(* Callers *)

\* Admission never waits: a full channel is an error of the call.
Enqueue(c) ==
    /\ Up
    /\ Says(c, "none")
    /\ IF Len(queue) < Capacity
         THEN queue' = Append(queue, c) /\ answer' = Said(c, "waiting")
         ELSE queue' = queue /\ answer' = Said(c, "error")
    /\ UNCHANGED <<wal, disk, worker, status>>

\* The caller drops its future: nobody reads the answer any more.
Cancel(c) ==
    /\ Says(c, "waiting")
    /\ answer' = Said(c, "gone")
    /\ UNCHANGED <<wal, disk, worker, status, queue>>

-----------------------------------------------------------------------------
(* Admission in groups *)

Collect ==
    /\ worker.step = "select"
    /\ \E n \in 1 .. GroupMax :
         /\ n <= Len(queue)
         /\ worker' = [worker EXCEPT !.step = "append", !.group = SubSeq(queue, 1, n),
                                     !.last = status.enqueued]
         /\ queue' = SubSeq(queue, n + 1, Len(queue))
    /\ UNCHANGED <<wal, disk, status, answer>>

Appending(c) == worker.step = "append" /\ worker.group # <<>> /\ c = Head(worker.group)
Taken == [worker EXCEPT !.group = Tail(@)]
Stage(w, c, n) == [w EXCEPT !.staged = Append(@, [seq |-> n, call |-> c])]
Known(c) == SavedReceipts(wal, Request[c])

AppendSkipped(c) ==
    /\ Appending(c)
    /\ Says(c, "gone")
    /\ worker' = Taken
    /\ UNCHANGED <<wal, disk, status, queue, answer>>

\* A submission id seen before keeps its first sequence.
AppendKnown(c) ==
    /\ Appending(c)
    /\ ~Says(c, "gone")
    /\ \E r \in Known(c) :
         /\ r.req = Request[c]
         /\ worker' = Stage(Taken, c, r.seq)
    /\ UNCHANGED <<wal, disk, status, queue, answer>>

\* Another content under the same id, or no room: the group goes on without it.
AppendRejected(c) ==
    /\ Appending(c)
    /\ ~Says(c, "gone")
    /\ \/ \E r \in Known(c) : r.req # Request[c]
       \/ Known(c) = {} /\ ~Room(wal, disk, Request[c])
    /\ worker' = Taken
    /\ answer' = Said(c, "error")
    /\ UNCHANGED <<wal, disk, status, queue>>

AppendNew(c) ==
    LET n == worker.last + 1 IN
    /\ Appending(c)
    /\ ~Says(c, "gone")
    /\ Known(c) = {}
    /\ Room(wal, disk, Request[c])
    /\ disk' = AppendToDisk(disk, n, Request[c])
    /\ wal' = AppendToIndex(wal, n, Request[c])
    /\ worker' = [Stage(Taken, c, n) EXCEPT !.last = n]
    /\ UNCHANGED <<status, queue, answer>>

Told(c) == {s.seq : s \in {t \in ToSet(worker.staged) : t.call = c}}
Answer(c) == [kind |-> "accepted", seq |-> CHOOSE n \in Told(c) : TRUE]

\* One sync for the whole group, and only then the status and the answers.
Publish ==
    /\ worker.step = "append"
    /\ worker.group = <<>>
    /\ disk' = IF worker.staged = <<>> THEN disk ELSE Sync(disk)
    /\ status' = [status EXCEPT !.enqueued = IF worker.staged = <<>> THEN @ ELSE worker.last]
    /\ answer' = [c \in Call |-> IF Told(c) # {} /\ Says(c, "waiting")
                                 THEN Answer(c) ELSE answer[c]]
    /\ worker' = Idle(worker.flight)
    /\ UNCHANGED <<wal, queue>>

-----------------------------------------------------------------------------
(* Delivery: attempts, and the acknowledgement of a confirmed one *)

StartAttempt ==
    /\ worker.step = "select"
    /\ worker.flight = None
    /\ wal.pending # <<>>
    /\ worker' = [worker EXCEPT !.flight = Head(wal.pending)]
    /\ UNCHANGED <<wal, disk, status, queue, answer>>

\* The deadline passes, or the attempt fails: the record is tried again later.
AttemptFails ==
    /\ worker.step = "select"
    /\ worker.flight # None
    /\ worker' = [worker EXCEPT !.flight = None]
    /\ UNCHANGED <<wal, disk, status, queue, answer>>

\* Every call still waiting is told that the outbox is closed.
Dropped ==
    [c \in Call |-> IF Says(c, "waiting") THEN [answer[c] EXCEPT !.kind = "error"] ELSE answer[c]]

Confirmed == worker.step = "select" /\ worker.flight # None
AckAnswered(n) == status' = [status EXCEPT !.acked = n]

\* Records are left: a marker at the end of the log, synced.
AckMarker ==
    LET n == worker.flight.seq IN
    /\ Confirmed
    /\ ~Clears(wal, n)
    /\ AckFits(wal, disk, n)
    /\ disk' = Sync(Write(disk, Marker(n)))
    /\ wal' = Acknowledge(wal, n)
    /\ AckAnswered(n)
    /\ worker' = Idle(None)
    /\ UNCHANGED <<queue, answer>>

\* Nothing is left: a new segment replaces the log.
AckCheckpoint ==
    LET n == worker.flight.seq IN
    /\ Confirmed
    /\ Clears(wal, n)
    /\ AckFits(wal, disk, n)
    /\ disk' = Checkpoint(wal, disk, n)
    /\ worker' = [worker EXCEPT !.step = "checkpoint"]
    /\ UNCHANGED <<wal, status, queue, answer>>

\* The budgets leave no room for it: the worker stops, with an error.
AckRefused ==
    /\ Confirmed
    /\ ~AckFits(wal, disk, worker.flight.seq)
    /\ worker' = Closed("closed")
    /\ queue' = <<>>
    /\ answer' = Dropped
    /\ wal' = NewIndex
    /\ UNCHANGED <<disk, status>>

CheckpointSync ==
    /\ worker.step = "checkpoint"
    /\ disk' = Sync(disk)
    /\ worker' = [worker EXCEPT !.step = "link"]
    /\ UNCHANGED <<wal, status, queue, answer>>

CheckpointLink ==
    /\ worker.step = "link"
    /\ disk' = SyncDir(disk)
    /\ worker' = [worker EXCEPT !.step = "collect"]
    /\ UNCHANGED <<wal, status, queue, answer>>

CollectSegment ==
    /\ worker.step = "collect"
    /\ Len(disk.segs) > 1
    /\ disk' = RemoveOldest(disk)
    /\ UNCHANGED <<wal, worker, status, queue, answer>>

CheckpointDone ==
    /\ worker.step = "collect"
    /\ Len(disk.segs) = 1
    /\ disk' = Sync(SyncDir(disk))
    /\ wal' = Acknowledge(wal, worker.flight.seq)
    /\ AckAnswered(worker.flight.seq)
    /\ worker' = Idle(None)
    /\ UNCHANGED <<queue, answer>>

-----------------------------------------------------------------------------
(* Stopping, crashing, reopening *)

\* close(): seen between two storage operations; the log is synced.
Close ==
    /\ worker.step = "select"
    /\ disk' = Sync(disk)
    /\ worker' = Closed("closed")
    /\ queue' = <<>>
    /\ answer' = Dropped
    /\ wal' = NewIndex
    /\ UNCHANGED status

\* The process dies, or a file operation fails: the files stay as it saw them.
Die ==
    /\ Up
    /\ worker' = Closed("closed")
    /\ queue' = <<>>
    /\ answer' = Dropped
    /\ wal' = NewIndex
    /\ UNCHANGED <<disk, status>>

LosePower ==
    /\ Up
    /\ disk' \in AfterPowerLoss(disk)
    /\ worker' = Closed("closed")
    /\ queue' = <<>>
    /\ answer' = Dropped
    /\ wal' = NewIndex
    /\ UNCHANGED status

LastSeq(w) == w.acked + Len(w.pending)

\* What bind_and_recover demands of the scanned log.
Bound(w) ==
    /\ \A k \in DOMAIN w.pending : w.pending[k].seq = w.acked + k
    /\ \A r \in w.receipts : r.seq <= LastSeq(w)

Opens(d) == Readable(d) /\ Bound(Scanned(d))

Open ==
    /\ worker.step = "closed"
    /\ IF Opens(disk)
         THEN /\ wal' = Scanned(disk)
              /\ disk' = Repaired(disk)
              /\ worker' = Idle(None)
              /\ status' = [enqueued |-> LastSeq(wal'), acked |-> wal'.acked]
         ELSE /\ worker' = Closed("refused")
              /\ UNCHANGED <<wal, disk, status>>
    /\ UNCHANGED <<queue, answer>>
=============================================================================
