--------------------------------- MODULE Wal ---------------------------------
(***************************************************************************)
(* The write-ahead log of a durable outbox: segment files, the in-memory   *)
(* index built from them, and what a crash leaves behind.                  *)
(*                                                                         *)
(* A segment is its records, how many of them are synced, and whether a    *)
(* power loss tore the record after them.  A directory is                  *)
(*   gone   segments already removed, the removal not yet synced,          *)
(*   segs   the segments the process sees, the last one being written,     *)
(*   fresh  how many of segs have a directory entry that is not synced.    *)
(* Every record counts as one unit of the disk budget.                     *)
(***************************************************************************)
EXTENDS Integers, Sequences, FiniteSets, SequencesExt, FiniteSetsExt

CONSTANTS NoId,         \* a submission without an id of its own
          SegMax,       \* records at which a segment is rolled
          MaxSegments,  \* limits.max_segments
          MaxDisk,      \* limits.max_disk_bytes, in records
          MaxPending,   \* limits.max_pending_records
          MaxReceipts   \* limits.max_submission_receipts

Business(n, req) == [kind |-> "business", seq |-> n, req |-> req]
Marker(n) == [kind |-> "ack", seq |-> n]
Receipt(n, req) == [kind |-> "receipt", seq |-> n, req |-> req]

Segment(recs) == [recs |-> recs, sure |-> 0, torn |-> FALSE]
NewDir == [gone |-> <<>>, segs |-> <<Segment(<<>>)>>, fresh |-> 0]
NewIndex == [acked |-> 0, pending |-> <<>>, receipts |-> {}]

Write(d, rec) == [d EXCEPT !.segs[Len(d.segs)].recs = Append(@, rec)]

Sync(d) ==
    [d EXCEPT !.segs[Len(d.segs)].sure = Len(d.segs[Len(d.segs)].recs)]

SyncDir(d) == [d EXCEPT !.gone = <<>>, !.fresh = 0]

-----------------------------------------------------------------------------
(* Budgets *)

Entries(d) == FlattenSeq([k \in DOMAIN d.segs |-> d.segs[k].recs])
DiskUse(d) == Len(Entries(d))
Extra(req) == IF req.id = NoId THEN 0 ELSE 1
Rotates(d) == Len(Last(d.segs).recs) + 1 >= SegMax

\* A submission is admitted only if the disk also has room to acknowledge
\* everything pending and to write the checkpoint that ends it.
Room(w, d, req) ==
    /\ DiskUse(d) + 1 + (Len(w.pending) + 1)
         + Cardinality(w.receipts) + Extra(req) <= MaxDisk
    /\ Len(d.segs) + (IF Rotates(d) THEN 1 ELSE 0) < MaxSegments
    /\ Len(w.pending) < MaxPending
    /\ Cardinality(w.receipts) + Extra(req) <= MaxReceipts

-----------------------------------------------------------------------------
(* Appending and acknowledging *)

SavedReceipts(w, req) == {r \in w.receipts : req.id # NoId /\ r.req.id = req.id}

Roll(d) == [SyncDir(Sync(d)) EXCEPT !.segs = Append(@, Segment(<<>>))]

AppendToDisk(d, n, req) ==
    LET written == Write(d, Business(n, req)) IN
    IF Rotates(d) THEN Roll(written) ELSE written

AppendToIndex(w, n, req) ==
    [w EXCEPT !.pending = Append(@, Business(n, req)),
              !.receipts = @ \cup (IF req.id = NoId THEN {} ELSE {Receipt(n, req)})]

Acknowledge(w, n) ==
    [w EXCEPT !.acked = n, !.pending = SelectSeq(@, LAMBDA r : r.seq > n)]

Clears(w, n) == \A k \in DOMAIN w.pending : w.pending[k].seq <= n

AckFits(w, d, n) ==
    /\ DiskUse(d) + 1 + (IF Clears(w, n) THEN Cardinality(w.receipts) ELSE 0) <= MaxDisk
    /\ Clears(w, n) => Len(d.segs) < MaxSegments

\* Faulty: the checkpoint forgets the submission ids.
CheckpointNoReceipts(w, d, n) ==
    [d EXCEPT !.segs = Append(@, Segment(<<Marker(n)>>)), !.fresh = @ + 1]
\* The segment that replaces all the others: written, not yet synced.
Checkpoint(w, d, n) ==
    [d EXCEPT !.segs = Append(@, Segment(<<Marker(n)>> \o SetToSeq(w.receipts))),
              !.fresh = @ + 1]

RemoveOldest(d) == [d EXCEPT !.gone = Append(@, Head(d.segs)), !.segs = Tail(@)]

-----------------------------------------------------------------------------
(* Crashes and recovery *)

Cuts(s) ==
    {[recs |-> SubSeq(s.recs, 1, n), sure |-> n, torn |-> t] :
        n \in s.sure .. Len(s.recs), t \in BOOLEAN}

\* What a power loss may leave: unsynced removals may or may not have happened
\* (in order), an unsynced directory entry may be missing, and of each file the
\* synced part survives with any of what follows, the next record possibly torn.
AfterPowerLoss(d) ==
    LET all == d.gone \o d.segs
        left == {SubSeq(all, k + 1, Len(all) - f) : k \in 0 .. Len(d.gone), f \in 0 .. d.fresh}
        open(l) == {k \in DOMAIN l : l[k].sure < Len(l[k].recs)}
        cuts(l) == {c \in [open(l) -> UNION {Cuts(l[k]) : k \in open(l)}] :
                      \A k \in open(l) :
                        c[k] \in Cuts(l[k]) /\ (c[k].torn => c[k].sure < Len(l[k].recs))}
    IN  UNION {{[gone |-> <<>>, fresh |-> 0,
                 segs |-> [k \in DOMAIN l |-> IF k \in open(l) THEN c[k] ELSE l[k]]] :
                  c \in cuts(l)} : l \in left}

Scanned(d) ==
    LET es == Entries(d)
        all == ToSet(es)
        acked == Max({0} \cup {e.seq : e \in {a \in all : a.kind = "ack"}})
    IN  [acked |-> acked,
         pending |-> SelectSeq(es, LAMBDA e : e.kind = "business" /\ e.seq > acked),
         receipts |-> {Receipt(e.seq, e.req) :
                         e \in {b \in all : b.kind # "ack" /\ b.req.id # NoId}}]

\* The directory opens: no torn record but at the very end, no two receipts
\* for one id or one sequence, every budget kept.
Readable(d) ==
    LET w == Scanned(d) IN
    /\ \A k \in 1 .. Len(d.segs) - 1 : ~d.segs[k].torn
    /\ \A r, s \in w.receipts : r.req.id = s.req.id \/ r.seq = s.seq => r = s
    /\ Len(d.segs) <= MaxSegments
    /\ DiskUse(d) <= MaxDisk
    /\ Len(w.pending) <= MaxPending
    /\ Cardinality(w.receipts) <= MaxReceipts

\* Opening cuts a torn tail off (and syncs that file), creates the first
\* segment of an empty directory, and syncs the directory.
Repaired(d) ==
    LET n == Len(d.segs) IN
    SyncDir(IF n = 0 THEN NewDir
            ELSE IF d.segs[n].torn THEN [Sync(d) EXCEPT !.segs[n].torn = FALSE]
            ELSE d)
=============================================================================
