------------------------------ MODULE RaftCore ------------------------------
(***************************************************************************)
(* RaftNode (crates/parrot-remote/src/raft/mod.rs), the in-memory Raft     *)
(* core of one member.                                                     *)
(*                                                                         *)
(* Its methods are operators on a core, the record of the node's fields.   *)
(* A method that queues RPCs returns [n |-> the core after the call,       *)
(* out |-> the RPCs it pushed to its outbox].  Entries carry no index:     *)
(* an entry's index is its position in the log.                            *)
(***************************************************************************)
EXTENDS RaftTypes

-----------------------------------------------------------------------------
(* RaftNode: construction and small accessors *)

\* next_index, match_index and sent_upper are maps that are cleared as one;
\* an absent peer reads as 1, 0 and 0.
NoNext == [p \in Server |-> 1]
NoIndex == [p \in Server |-> 0]

\* RaftNode::new.  last_applied is the length of applied, the entries handed
\* to the state machine since this owner was opened.
NewCore ==
    [term |-> 0, vote |-> None, log |-> <<>>, commit |-> 0, applied |-> <<>>,
     role |-> Follower, hint |-> None, votes |-> {},
     next |-> NoNext, match |-> NoIndex, sent |-> NoIndex]

\* A call that queued nothing.
Quiet(n) == [n |-> n, out |-> {}]

-----------------------------------------------------------------------------
(* RPCs *)

RequestVote(i, p, n) ==
    [type |-> "RequestVote", from |-> i, to |-> p, term |-> n.term,
     lastIndex |-> LastIndex(n), lastTerm |-> LastTerm(n)]

RequestVoteResp(i, p, n, granted) ==
    [type |-> "RequestVoteResp", from |-> i, to |-> p, term |-> n.term,
     granted |-> granted]

AppendEntriesResp(i, p, n, success, match) ==
    [type |-> "AppendEntriesResp", from |-> i, to |-> p, term |-> n.term,
     success |-> success, match |-> match]

\* The request send_append builds: the entries from next_index on, cut to the
\* batch limit, after the entry they extend.
AppendEntries(i, p, n) ==
    LET prev == n.next[p] - 1
        upto == Smaller(prev + MaxBatch, LastIndex(n))
    IN  [type |-> "AppendEntries", from |-> i, to |-> p, term |-> n.term,
         prevIndex |-> prev, prevTerm |-> TermAt(n.log, prev),
         entries |-> SubSeq(n.log, prev + 1, upto), commit |-> n.commit]

\* A request's shape, checked by every receiver before anything else.
ValidPosition(index, entryTerm, term) ==
    /\ (index = 0) = (entryTerm = 0)
    /\ entryTerm <= term

ValidShape(m) ==
    CASE m.type = "RequestVote" ->
            m.term # 0 /\ ValidPosition(m.lastIndex, m.lastTerm, m.term)
      [] m.type = "AppendEntries" ->
            /\ m.term # 0
            /\ ValidPosition(m.prevIndex, m.prevTerm, m.term)
            /\ \A k \in DOMAIN m.entries :
                  /\ m.entries[k].term # 0
                  /\ m.entries[k].term <= m.term
                  /\ m.entries[k].term >=
                        (IF k = 1 THEN m.prevTerm ELSE m.entries[k-1].term)
      [] OTHER -> TRUE

-----------------------------------------------------------------------------
(* Replication, the leader's side *)

\* send_append to each peer of P.  The sent window of a peer is replaced on
\* every send, so that an answer to an older, wider batch is not taken for
\* one to the latest.
SendAppend(n, i, P) ==
    LET m(p) == AppendEntries(i, p, n)
    IN  [n   |-> [n EXCEPT !.sent = [p \in Server |->
                    IF p \in P THEN m(p).prevIndex + Len(m(p).entries)
                               ELSE n.sent[p]]],
         out |-> {m(p) : p \in P}]

BroadcastAppend(n, i) == SendAppend(n, i, Peers(i))

\* What both commit paths do once the new commit index is known: hand the
\* entries after last_applied to the state machine.
CommitTo(n, k) ==
    [n EXCEPT !.commit = k,
              !.applied = @ \o SubSeq(n.log, Len(n.applied) + 1, k)]

\* How much of leader i's log member p is known to hold.
HeldBy(n, i, p) == IF p = i THEN LastIndex(n) ELSE Smaller(n.match[p], LastIndex(n))

\* The element at a position of the sorted indexes, counted from 0: at most that
\* many are smaller, and more are not larger.
SortedIndex(n, i, at) ==
    CHOOSE k \in 0..LastIndex(n) :
        /\ Cardinality({p \in Server : HeldBy(n, i, p) < k}) <= at
        /\ Cardinality({p \in Server : HeldBy(n, i, p) <= k}) > at

\* Faulty: one position too far.
MajorityIndexNext(n, i) == SortedIndex(n, i, Cardinality(Server) - QuorumSize + 1)

\* A majority holds the log up to the element at this position.
MajorityIndex(n, i) == SortedIndex(n, i, Cardinality(Server) - QuorumSize)

\* advance_commit: only an entry of the current term is committed by counting.
AdvanceCommit(n, i) ==
    LET k == MajorityIndex(n, i)
    IN  IF k > n.commit /\ TermAt(n.log, k) = n.term
        THEN BroadcastAppend(CommitTo(n, k), i)
        ELSE Quiet(n)

\* propose on a leader; a group of one commits at once.
Propose(n, i, c) ==
    LET grown == [n EXCEPT !.log = Append(@, [term |-> n.term, cmd |-> c])]
        sent  == BroadcastAppend(grown, i)
    IN  IF Peers(i) = {} THEN AdvanceCommit(sent.n, i) ELSE sent

-----------------------------------------------------------------------------
(* Elections *)

\* Faulty: the hint survives the term it was about.
ObserveTermKeepsHint(n, t) ==
    IF t <= n.term THEN n
    ELSE [n EXCEPT !.term = t, !.role = Follower, !.vote = None, !.votes = {},
                   !.next = NoNext, !.match = NoIndex, !.sent = NoIndex]

\* A newer term revokes leadership, candidacy, vote and hint as one.
ObserveTerm(n, t) ==
    IF t <= n.term THEN n
    ELSE [n EXCEPT !.term = t, !.role = Follower, !.vote = None,
                   !.hint = None, !.votes = {},
                   !.next = NoNext, !.match = NoIndex, !.sent = NoIndex]

\* become_leader: no entry of the new term is appended, only a heartbeat sent.
BecomeLeader(n, i) ==
    BroadcastAppend(
        [n EXCEPT !.role = Leader, !.hint = i,
                  !.next = [p \in Server |-> LastIndex(n) + 1],
                  !.match = NoIndex, !.sent = NoIndex], i)

\* become_leader once enough votes are in, after the RPCs queued so far.
WinIfQuorum(n, i, out) ==
    IF Cardinality(n.votes) >= QuorumSize
    THEN LET won == BecomeLeader(n, i) IN [n |-> won.n, out |-> out \cup won.out]
    ELSE [n |-> n, out |-> out]

\* start_election; terms are exhausted at MaxTerm and never wrap.
StartElection(n, i) ==
    IF n.term = MaxTerm THEN Quiet(n)
    ELSE LET c == [n EXCEPT !.term = @ + 1, !.role = Candidate, !.vote = i,
                            !.hint = None, !.votes = {i}]
         IN  WinIfQuorum(c, i, {RequestVote(i, p, c) : p \in Peers(i)})

\* tick once its timer has run out (time itself is left out: a timer may run
\* out between any two events).
Tick(n, i) ==
    IF n.role = Leader THEN BroadcastAppend(n, i) ELSE StartElection(n, i)

\* Faulty: grants without looking at the vote already cast.
StepRequestVoteTwice(n, i, m) ==
    LET o        == ObserveTerm(n, m.term)
        upToDate == \/ m.lastTerm > LastTerm(o)
                    \/ m.lastTerm = LastTerm(o) /\ m.lastIndex >= LastIndex(o)
    IN  IF m.term < n.term
        THEN [n |-> n, out |-> {RequestVoteResp(i, m.from, n, FALSE)}]
        ELSE [n   |-> IF upToDate THEN [o EXCEPT !.vote = m.from] ELSE o,
              out |-> {RequestVoteResp(i, m.from, o, upToDate)}]

StepRequestVote(n, i, m) ==
    LET o        == ObserveTerm(n, m.term)
        upToDate == \/ m.lastTerm > LastTerm(o)
                    \/ m.lastTerm = LastTerm(o) /\ m.lastIndex >= LastIndex(o)
        grant    == upToDate /\ o.vote \in {None, m.from}
    IN  IF m.term < n.term
        THEN [n |-> n, out |-> {RequestVoteResp(i, m.from, n, FALSE)}]
        ELSE [n   |-> IF grant THEN [o EXCEPT !.vote = m.from] ELSE o,
              out |-> {RequestVoteResp(i, m.from, o, grant)}]

\* Faulty: counts a vote of an earlier term.
StepVoteRespStale(n, i, m) ==
    IF m.term > n.term THEN Quiet(ObserveTerm(n, m.term))
    ELSE IF n.role # Candidate \/ ~m.granted THEN Quiet(n)
    ELSE WinIfQuorum([n EXCEPT !.votes = @ \cup {m.from}], i, {})

StepVoteResp(n, i, m) ==
    IF m.term > n.term THEN Quiet(ObserveTerm(n, m.term))
    ELSE IF n.role # Candidate \/ m.term # n.term \/ ~m.granted THEN Quiet(n)
    ELSE WinIfQuorum([n EXCEPT !.votes = @ \cup {m.from}], i, {})

-----------------------------------------------------------------------------
(* Replication, the follower's side and the answers *)

\* append_plan: whether the batch fits the local log.  The entry before it
\* must match; a same-term entry must be the same entry; a committed entry
\* must not change.
AppendFits(n, m) ==
    /\ m.prevIndex <= LastIndex(n)
    /\ TermAt(n.log, m.prevIndex) = m.prevTerm
    /\ \A k \in DOMAIN m.entries :
          LET at == m.prevIndex + k
          IN  /\ at <= LastIndex(n) /\ n.log[at].term = m.entries[k].term
                    => n.log[at] = m.entries[k]
              /\ at <= n.commit => n.log[at] = m.entries[k]

\* Positions of the batch that are missing locally or hold another term.
Changes(n, m) ==
    {k \in DOMAIN m.entries :
        \/ m.prevIndex + k > LastIndex(n)
        \/ n.log[m.prevIndex + k].term # m.entries[k].term}

\* Faulty: a matching batch cuts the local suffix.
AppendedLogCuts(n, m) == SubSeq(n.log, 1, m.prevIndex) \o m.entries

\* The log kept: up to the first change the local one, from there the batch.
\* A batch with no change leaves a longer local suffix alone.
AppendedLog(n, m) ==
    IF Changes(n, m) = {} THEN n.log
    ELSE LET first == CHOOSE k \in Changes(n, m) :
                          \A l \in Changes(n, m) : k <= l
         IN  SubSeq(n.log, 1, m.prevIndex + first - 1)
                 \o SubSeq(m.entries, first, Len(m.entries))

\* Faulty: takes the entries without the sender's term.
StepAppendKeepsTerm(n, i, m) ==
    LET f       == [n EXCEPT !.role = Follower, !.hint = m.from]
        matched == m.prevIndex + Len(m.entries)
    IN  IF m.term < n.term \/ ~AppendFits(f, m)
        THEN [n |-> n, out |-> {AppendEntriesResp(i, m.from, n, FALSE, LastIndex(n))}]
        ELSE [n   |-> [f EXCEPT !.log = AppendedLog(f, m)],
              out |-> {AppendEntriesResp(i, m.from, f, TRUE, matched)}]

StepAppend(n, i, m) ==
    LET f       == [ObserveTerm(n, m.term) EXCEPT !.role = Follower, !.hint = m.from]
        matched == m.prevIndex + Len(m.entries)
        kept    == [f EXCEPT !.log = AppendedLog(f, m)]
        commit  == Smaller(m.commit, matched)
    IN  IF m.term < n.term
        THEN [n |-> n, out |-> {AppendEntriesResp(i, m.from, n, FALSE, LastIndex(n))}]
        ELSE IF ~AppendFits(f, m)
        THEN [n |-> f, out |-> {AppendEntriesResp(i, m.from, f, FALSE, LastIndex(f))}]
        ELSE [n   |-> IF commit > f.commit THEN CommitTo(kept, commit) ELSE kept,
              out |-> {AppendEntriesResp(i, m.from, f, TRUE, matched)}]

StepAppendResp(n, i, m) ==
    LET retry == Larger(n.next[m.from] - 1, n.match[m.from] + 1)
    IN  IF m.term > n.term THEN Quiet(ObserveTerm(n, m.term))
        ELSE IF n.role # Leader \/ m.term # n.term THEN Quiet(n)
        ELSE IF m.success
        THEN IF m.match > LastIndex(n) \/ m.match > n.sent[m.from] THEN Quiet(n)
             ELSE AdvanceCommit(
                    [n EXCEPT !.match[m.from] = Larger(@, m.match),
                              !.next[m.from] = Larger(@, m.match + 1)], i)
        ELSE IF retry >= n.next[m.from] THEN Quiet(n)
             ELSE SendAppend([n EXCEPT !.next[m.from] = retry], i, {m.from})

\* step: dispatch on the kind of RPC.
Step(n, i, m) ==
    CASE m.type = "RequestVote"       -> StepRequestVote(n, i, m)
      [] m.type = "RequestVoteResp"   -> StepVoteResp(n, i, m)
      [] m.type = "AppendEntries"     -> StepAppend(n, i, m)
      [] m.type = "AppendEntriesResp" -> StepAppendResp(n, i, m)

=============================================================================
