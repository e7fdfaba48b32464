------------------------------ MODULE Directory ------------------------------
(***************************************************************************)
(* The replicated directory: DurableDirectory                              *)
(* (crates/parrot-remote/src/roles/directory/durable.rs) on the Raft owner *)
(* of every member, driven by the worker loop of NetworkDirectory          *)
(* (network.rs), with its clients' requests, status queries and            *)
(* linearizable reads.                                                     *)
(*                                                                         *)
(* The directory of a member is a function of the entries handed to it     *)
(* since it was opened: every call of the owner applies what has become    *)
(* committed before it returns (apply_pending), so no variable holds it.   *)
(***************************************************************************)
EXTENDS RaftLinks

CONSTANTS
    Req,        \* request identities, a client and its id
    DirNode,    \* nodes a directory names
    Endpoint,   \* what Upsert publishes for a node
    Pfx,    \* prefixes with a border
    Key,        \* receptionist keys
    Absent,     \* no entry of a map
    MaxReads    \* admitted linear reads, 64 permits in the code

ASSUME ReadsNat == MaxReads \in Nat

VARIABLES
    reads,      \* PendingRead: the read tickets of every member's worker
    answers,    \* history: the Applied answers clients got
    served,     \* history: the linear reads completed
    learned     \* history: the highest revision a client has been told of

clientVars == <<reads, answers, served, learned>>

dirVars == <<linkVars, clientVars>>

-----------------------------------------------------------------------------
(* DirectorySm: the state machine (roles/directory.rs) *)

Upsert(n, e) == [type |-> "Upsert", node |-> n, eps |-> e]
Remove(n) == [type |-> "Remove", node |-> n]
BorderDeclare(p, n) == [type |-> "BorderDeclare", prefix |-> p, node |-> n]
KeyAggregate(k, ns) == [type |-> "KeyAggregate", key |-> k, nodes |-> ns]

DirCmd ==
    {Upsert(n, e) : n \in DirNode, e \in Endpoint}
        \cup {Remove(n) : n \in DirNode}
        \cup {BorderDeclare(p, n) : p \in Pfx, n \in DirNode}
        \cup {KeyAggregate(k, ns) : k \in Key, ns \in SUBSET DirNode}

\* DirectorySm::default, with the table of applied requests beside it.
EmptyDir ==
    [version |-> 0, nodes |-> [n \in DirNode |-> Absent],
     borders |-> [p \in Pfx |-> Absent], keys |-> [k \in Key |-> Absent],
     requests |-> [r \in Req |-> Absent]]

\* A key whose last node goes is dropped, and so is one aggregated with none.
KeysWithout(keys, n) ==
    [k \in Key |-> IF keys[k] \in {Absent, {}, {n}} THEN Absent ELSE keys[k] \ {n}]

\* apply_validated: every command takes the next revision; Remove cascades.
ApplyValidated(d, op) ==
    LET v == d.version + 1
    IN  CASE op.type = "Upsert" ->
                [d EXCEPT !.version = v, !.nodes[op.node] = [eps |-> op.eps, version |-> v]]
          [] op.type = "Remove" ->
                [d EXCEPT !.version = v, !.nodes[op.node] = Absent,
                          !.borders = [p \in Pfx |->
                              IF d.borders[p] = op.node THEN Absent ELSE d.borders[p]],
                          !.keys = KeysWithout(@, op.node)]
          [] op.type = "BorderDeclare" ->
                [d EXCEPT !.version = v, !.borders[op.prefix] = op.node]
          [] op.type = "KeyAggregate" ->
                [d EXCEPT !.version = v, !.keys[op.key] = op.nodes]

-----------------------------------------------------------------------------
(* Stored commands and their application (request.rs, apply_pending) *)

Barrier == [kind |-> "ReadBarrier"]
Plain(op) == [kind |-> "Plain", op |-> op]
Request(r, op) == [kind |-> "Request", req |-> r, op |-> op]

StoredCommand ==
    {Barrier} \cup {Plain(op) : op \in DirCmd} \cup {Request(r, op) : r \in Req, op \in DirCmd}

\* Faulty: a second committed copy of a request replaces the record of the first.
ApplyEntryAgain(d, k, e) ==
    CASE e.cmd.kind = "ReadBarrier" -> d
      [] e.cmd.kind = "Plain" -> ApplyValidated(d, e.cmd.op)
      [] e.cmd.kind = "Request" ->
            LET after == ApplyValidated(d, e.cmd.op)
            IN  [after EXCEPT !.requests[e.cmd.req] =
                    [op |-> e.cmd.op, index |-> k, term |-> e.term,
                     revision |-> after.version]]

\* One committed entry: the first committed command of a request is applied and
\* recorded, later ones with its identity change nothing.
ApplyEntry(d, k, e) ==
    CASE e.cmd.kind = "ReadBarrier" -> d
      [] e.cmd.kind = "Plain" -> ApplyValidated(d, e.cmd.op)
      [] e.cmd.kind = "Request" ->
            IF d.requests[e.cmd.req] # Absent THEN d
            ELSE LET after == ApplyValidated(d, e.cmd.op)
                 IN  [after EXCEPT !.requests[e.cmd.req] =
                        [op |-> e.cmd.op, index |-> k, term |-> e.term,
                         revision |-> after.version]]

\* The directory after these entries, from the first index on.
DirectoryOf(applied) ==
    LET upto[k \in 0..Len(applied)] ==
            IF k = 0 THEN EmptyDir ELSE ApplyEntry(upto[k - 1], k, applied[k])
    IN  upto[Len(applied)]

\* request_status: the record of an applied request, or the fate its entries
\* in the unapplied suffix of the log suggest.
RequestStatus(n, r, op) ==
    LET saved  == DirectoryOf(n.applied).requests[r]
        suffix == {k \in Len(n.applied) + 1..Len(n.log) :
                      n.log[k].cmd.kind = "Request" /\ n.log[k].cmd.req = r}
        same   == {k \in suffix : n.log[k].cmd.op = op}
        last   == CHOOSE k \in same : \A l \in same : l <= k
    IN  IF saved # Absent
        THEN IF saved.op = op THEN [type |-> "Applied", saved |-> saved]
                              ELSE [type |-> "Conflict"]
        ELSE IF suffix = {} THEN [type |-> "Unknown"]
        ELSE IF \E k \in suffix \ same : \A l \in suffix : k <= l
        THEN [type |-> "Conflict"]
        ELSE [type |-> "Pending", index |-> last, term |-> n.log[last].term]

-----------------------------------------------------------------------------
(* The worker: one call on the owner, then finish_reads *)

\* Faulty: the barrier need not be applied.
PollEarly(n, q) ==
    IF \/ n.role # Leader \/ n.term # q.term
       \/ q.index > LastIndex(n)
       \/ n.log[q.index] # [term |-> q.term, cmd |-> Barrier]
    THEN "Failed" ELSE "Applied"

\* poll_linear_read and proposal_status on the ticket q: answered only while
\* this owner still leads the term of the ticket and its own barrier is applied.
Poll(n, q) ==
    IF \/ n.role # Leader \/ n.term # q.term
       \/ q.index > LastIndex(n)
       \/ n.log[q.index] # [term |-> q.term, cmd |-> Barrier]
    THEN "Failed"
    ELSE IF Len(n.applied) >= q.index THEN "Applied" ELSE "Pending"

ReadsAt(i) == {q \in reads : q.at = i}

\* finish_reads on worker i after a call that began the reads of new: a read
\* whose reader is gone or whose deadline has passed is dropped, the others
\* are polled.  A fenced or dead owner drops them all.
FinishReads(i, new) ==
    LET mine    == ReadsAt(i) \cup new
        version == DirectoryOf(node'[i].applied).version
    IN  \E dropped \in SUBSET mine :
            LET polled == {q \in mine \ dropped : up'[i]}
                done   == {q \in polled : Poll(node'[i], q) = "Applied"}
            IN  /\ reads' = (reads \ ReadsAt(i))
                               \cup {q \in polled : Poll(node'[i], q) = "Pending"}
                /\ served' = served \cup
                       {[floor |-> q.floor, version |-> version] : q \in done}
                /\ learned' = IF done = {} THEN learned ELSE Larger(learned, version)

DirTick(i) == LinkTick(i) /\ FinishReads(i, {}) /\ UNCHANGED answers

DirDeliver(m) == Deliver(m) /\ FinishReads(m.to, {}) /\ UNCHANGED answers

DirLose(m) == Lose(m) /\ UNCHANGED clientVars

\* Faulty: an entry of an earlier term is left to itself.
SubmitOnce(i, r, op) ==
    /\ RequestStatus(node[i], r, op).type = "Unknown"
    /\ LinkPropose(i, Request(r, op))
    /\ FinishReads(i, {})
    /\ UNCHANGED answers

\* submit_request that appends: an unknown request, or one that is pending from
\* an earlier term, which a leader cannot commit by counting.
Submit(i, r, op) ==
    /\ LET s == RequestStatus(node[i], r, op)
       IN  \/ s.type = "Unknown"
           \/ s.type = "Pending" /\ s.term # node[i].term
    /\ LinkPropose(i, Request(r, op))
    /\ FinishReads(i, {})
    /\ UNCHANGED answers

\* submit_request or request_status, on any member, that answers Applied.
Confirm(i, r, op) ==
    LET s == RequestStatus(node[i], r, op)
    IN  /\ up[i]
        /\ s.type = "Applied"
        /\ answers' = answers \cup {[req |-> r, saved |-> s.saved]}
        /\ learned' = Larger(learned, s.saved.revision)
        /\ UNCHANGED <<linkVars, reads, served>>

\* propose, without a durable identity.
ProposePlain(i, op) ==
    LinkPropose(i, Plain(op)) /\ FinishReads(i, {}) /\ UNCHANGED answers

\* begin_linear_read: a fresh barrier behind everything this leader holds.
BeginRead(i) ==
    /\ Cardinality(reads) < MaxReads
    /\ LinkPropose(i, Barrier)
    /\ FinishReads(i, {[at |-> i, index |-> LastIndex(node[i]) + 1,
                        term |-> node[i].term, floor |-> learned]})
    /\ UNCHANGED answers

DirCrash(i) ==
    /\ LinkCrash(i)
    /\ reads' = reads \ ReadsAt(i)
    /\ UNCHANGED <<answers, served, learned>>

\* open: the directory is rebuilt from the committed prefix.
DirReopen(i) == LinkReopen(i) /\ UNCHANGED clientVars

DirNext(ops, plain) ==
    \/ \E i \in Server :
          \/ DirTick(i)
          \/ \E r \in Req, op \in ops : Submit(i, r, op) \/ Confirm(i, r, op)
          \/ \E op \in plain : ProposePlain(i, op)
          \/ BeginRead(i)
          \/ DirCrash(i)
          \/ DirReopen(i)
    \/ \E m \in flight : DirDeliver(m) \/ DirLose(m)

-----------------------------------------------------------------------------
(* Progress *)

DirBetween(i, j) == \E m \in flight : m.from = i /\ m.to = j /\ DirDeliver(m)

\* The worker loop ticks every open owner (every TICK), a link that is offered
\* RPCs again and again delivers some of them, and the client that has no
\* Applied answer repeats its request, as client.rs tells it to.
DirFairness(r, op) ==
    /\ \A i \in Server : WF_dirVars(DirTick(i))
    /\ \A i, j \in Server : i # j => SF_dirVars(DirBetween(i, j))
    /\ \A i \in Server : WF_dirVars(Submit(i, r, op))

\* A request pending on a leader ends up applied there, unless the leader stops
\* leading first, although an entry of an earlier term cannot be committed by
\* itself (submit_request, advance_commit).
RetryApplies(i, r, op) ==
    (IsLeader(i) /\ RequestStatus(node[i], r, op).type = "Pending")
        ~> (~IsLeader(i) \/ RequestStatus(node[i], r, op).type = "Applied")

-----------------------------------------------------------------------------
(* What clients may rely on *)

\* A linear read shows every change a client had been told of, by an Applied
\* answer or an earlier read, before the read began: no deposed leader and no
\* leader behind its own log answers from a stale directory (begin_linear_read,
\* poll_linear_read).
ReadsAreLinear == \A s \in served : s.version >= s.floor

\* All Applied answers for a request, by whichever member and however often its
\* entry was appended, name one command, one position and one revision, and no
\* member's directory disagrees (submit_request, apply_pending).
AnswersAgree ==
    \A a \in answers :
        /\ \A b \in answers : a.req = b.req => a = b
        /\ \A i \in Server :
              up[i] => DirectoryOf(node[i].applied).requests[a.req] \in {Absent, a.saved}
=============================================================================
