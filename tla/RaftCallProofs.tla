--------------------------- MODULE RaftCallProofs ---------------------------
(***************************************************************************)
(* What every method of the core does to the log, the vote, the commit and *)
(* match indexes, what the RPCs it queues say of them, and that what it    *)
(* leaves passes the checks of whoever reads it next: the lemmas the       *)
(* proofs about the logs of the group (RaftHistoryProofs,                  *)
(* RaftCommitProofs, RaftLogProofs) use.                                   *)
(***************************************************************************)
EXTENDS RaftCoreProofs

-----------------------------------------------------------------------------
\* Fields that the replication methods of a leader leave alone.
SameState(n, g) ==
    /\ g.term = n.term /\ g.vote = n.vote /\ g.log = n.log
    /\ g.role = n.role /\ g.hint = n.hint /\ g.votes = n.votes

\* A leader's send_append: stretches of its log, with its commit index.
LEMMA SendAppendLog ==
    ASSUME NEW n, CoreInv(n), n.role = Leader, NEW i \in Server,
           NEW P \in SUBSET Server, NEW r, r = SendAppend(n, i, P)
    PROVE  /\ SameState(n, r.n) /\ r.n.commit = n.commit /\ r.n.match = n.match
           /\ \A m \in r.out : /\ IsAppend(m) /\ ~IsRequest(m) /\ ~IsAck(m)
                               /\ Stretch(m, n.log) /\ m.commit = n.commit
<1> USE SMTT(60)
<1>1. /\ n \in Core /\ n.log \in Seq(Entry) /\ n.next \in [Server -> Nat]
      /\ n.match \in [Server -> Nat] /\ Len(n.log) \in Nat
    BY CoreTypes, Zenon
<1>2. r.n = [n EXCEPT !.sent = r.n.sent]
    BY <1>1, Zenon DEF SendAppend, Core
<1>3. SameState(n, r.n) /\ r.n.commit = n.commit /\ r.n.match = n.match
    BY <1>1, <1>2, Zenon DEF Core, SameState
<1>4. ASSUME NEW p \in Server, NEW m, m = AppendEntries(i, p, n)
      PROVE  /\ IsAppend(m) /\ ~IsRequest(m) /\ ~IsAck(m)
             /\ Stretch(m, n.log) /\ m.commit = n.commit
    <2> DEFINE prev == n.next[p] - 1
               upto == Smaller(prev + MaxBatch, LastIndex(n))
    <2>1. /\ n.match[p] \in Nat /\ n.next[p] \in Nat
          /\ n.match[p] < n.next[p] /\ n.next[p] <= Len(n.log) + 1
        BY <1>1, Zenon DEF CoreInv
    <2>2. prev \in 0..Len(n.log) /\ upto \in Nat /\ upto <= Len(n.log)
        BY <2>1, <1>1, RaftConstants, WindowOK, Zenon DEF LastIndex
    <2>3. /\ m.type = "AppendEntries" /\ m.commit = n.commit /\ m.prevIndex = prev
          /\ m.prevTerm = TermAt(n.log, prev) /\ m.entries = SubSeq(n.log, prev + 1, upto)
        BY <1>4, Zenon DEF AppendEntries
    <2> HIDE DEF prev, upto
    <2>4. prev + 1 \in Nat /\ prev + 1 >= 1 /\ prev \in Nat
        BY <2>2, <1>1
    <2>5. /\ Len(m.entries) = IF prev + 1 <= upto THEN upto - (prev + 1) + 1 ELSE 0
          /\ \A k \in 1..(upto - (prev + 1) + 1) : m.entries[k] = n.log[prev + 1 + k - 1]
        BY <2>2, <2>3, <2>4, <1>1, SliceOK
    <2>6. /\ prev + Len(m.entries) <= Len(n.log)
          /\ \A k \in 1..Len(m.entries) : m.entries[k] = n.log[prev + k]
        BY <2>2, <2>4, <2>5, <1>1
    <2> QED BY <2>3, <2>6, Zenon DEF IsAppend, IsRequest, IsAck, Stretch
<1>5. \A m \in r.out : \E p \in Server : m = AppendEntries(i, p, n)
    BY Zenon DEF SendAppend
<1> QED BY <1>3, <1>4, <1>5, Zenon

\* advance_commit counts to a majority and only commits in its own term.
LEMMA AdvanceCommitLog ==
    ASSUME NEW n, CoreInv(n), n.role = Leader, NEW i \in Server,
           NEW r, r = AdvanceCommit(n, i)
    PROVE  /\ SameState(n, r.n) /\ r.n.match = n.match
           /\ \/ r.n.commit = n.commit
              \/ /\ r.n.commit # 0 /\ TermAt(n.log, r.n.commit) = n.term
                 /\ Cardinality(Holding(n, i, r.n.commit)) >= QuorumSize
           /\ \A m \in r.out : /\ IsAppend(m) /\ ~IsRequest(m) /\ ~IsAck(m)
                               /\ Stretch(m, n.log) /\ m.commit = r.n.commit
<1> USE SMTT(60)
<1> DEFINE k == MajorityIndex(n, i)
           c == CommitTo(n, k)
<1>1. /\ k \in Nat /\ k <= Len(n.log) /\ n.commit \in Nat /\ Len(n.log) \in Nat
      /\ Cardinality(Holding(n, i, k)) >= QuorumSize /\ n \in Core
    BY MajorityIndexOK, CoreTypes
<1>2. CASE k > n.commit /\ TermAt(n.log, k) = n.term
    <2>1. Contract(n, i, Quiet(c), {}) /\ c.role = Leader
        BY <1>1, <1>2, CommitToOK
    <2>2. CoreInv(c)
        BY <2>1, Zenon DEF Contract, Quiet
    <2>3. r = SendAppend(c, i, Peers(i))
        BY <1>2, Zenon DEF AdvanceCommit, BroadcastAppend
    <2>4. SameState(n, c) /\ c.match = n.match /\ c.commit = k
        <3> HIDE DEF k
        <3> QED BY <1>1, Zenon DEF CommitTo, Core, SameState
    <2>5. Peers(i) \in SUBSET Server
        BY Zenon DEF Peers
    <2>6. k # 0
        BY <1>1, <1>2
    <2> HIDE DEF c
    <2>7. /\ SameState(c, r.n) /\ r.n.commit = c.commit /\ r.n.match = c.match
          /\ \A m \in r.out : /\ IsAppend(m) /\ ~IsRequest(m) /\ ~IsAck(m)
                              /\ Stretch(m, c.log) /\ m.commit = c.commit
        BY <2>1, <2>2, <2>3, <2>5, SendAppendLog
    <2> HIDE DEF k
    <2> QED BY <1>1, <1>2, <2>4, <2>6, <2>7 DEF SameState
<1>3. CASE ~(k > n.commit /\ TermAt(n.log, k) = n.term)
    <2>1. r = Quiet(n)
        BY <1>3, Zenon DEF AdvanceCommit
    <2> QED BY <2>1 DEF Quiet, SameState
<1> QED BY <1>2, <1>3, Zenon

\* The log of a leader that accepted a proposal.
LEMMA GrownOK ==
    ASSUME NEW n, CoreInv(n), n.role = Leader, NEW e \in Entry,
           NEW g, g = [n EXCEPT !.log = Append(n.log, e)]
    PROVE  /\ CoreInv(g) /\ g.term = n.term /\ g.vote = n.vote /\ g.votes = n.votes
           /\ g.role = Leader /\ g.commit = n.commit /\ g.hint = n.hint /\ g.match = n.match
           /\ g.log = Append(n.log, e)
           /\ Prefix(g.log, n.commit) = Prefix(n.log, n.commit)
<1> USE SMTT(60)
<1>1. /\ n \in Core /\ n.log \in Seq(Entry) /\ n.commit \in Nat /\ Len(n.log) \in Nat
      /\ n.commit <= Len(n.log) /\ n.term \in Nat /\ n.next \in [Server -> Nat]
      /\ n.applied = Prefix(n.log, n.commit)
    BY CoreTypes
<1>2. /\ Append(n.log, e) \in Seq(Entry) /\ Len(Append(n.log, e)) = Len(n.log) + 1
      /\ \A l \in 1..Len(n.log) : Append(n.log, e)[l] = n.log[l]
    BY <1>1, SeqAppended
<1>3. Prefix(Append(n.log, e), n.commit) = Prefix(n.log, n.commit)
    <2>1. /\ n.commit <= Len(Append(n.log, e))
          /\ \A l \in 1..n.commit : Append(n.log, e)[l] = n.log[l]
        BY <1>1, <1>2
    <2> QED BY <1>1, <1>2, <2>1, PrefixEqual, Zenon
<1>4. /\ g \in Core /\ g.log = Append(n.log, e) /\ g.commit = n.commit
      /\ g.applied = n.applied /\ g.role = Leader /\ g.votes = n.votes /\ g.hint = n.hint
      /\ g.next = n.next /\ g.match = n.match /\ g.term = n.term /\ g.vote = n.vote
    BY <1>1, <1>2, Zenon DEF Core
<1>5. \A p \in Server : n.match[p] < n.next[p] /\ n.next[p] <= Len(n.log) + 1
    BY Zenon DEF CoreInv
<1>6. \A p \in Server : g.match[p] < g.next[p] /\ g.next[p] <= Len(g.log) + 1
    BY <1>1, <1>2, <1>4, <1>5
<1>7. Cardinality(g.votes) >= QuorumSize
    BY <1>4, Zenon DEF CoreInv
<1>8. g.commit <= Len(g.log) /\ g.applied = Prefix(g.log, g.commit)
    BY <1>1, <1>2, <1>3, <1>4
<1> QED BY <1>3, <1>4, <1>6, <1>7, <1>8, Zenon DEF CoreInv

\* propose: the leader's log grows by an entry of its term.
LEMMA ProposeLog ==
    ASSUME NEW n, CoreInv(n), n.role = Leader, NEW i \in Server, NEW c \in Cmd,
           NEW r, r = Propose(n, i, c)
    PROVE  LogContract(n, i, r, {})
<1> USE SMTT(60)
<1> DEFINE e == [term |-> n.term, cmd |-> c]
           g == [n EXCEPT !.log = Append(n.log, e)]
           s == SendAppend(g, i, Peers(i))
<1>1. e \in Entry /\ e.term = n.term
    BY CoreTypes, Zenon DEF Entry
<1>2. r = IF Peers(i) = {} THEN AdvanceCommit(s.n, i) ELSE s
    BY Zenon DEF Propose, BroadcastAppend
<1>3. Peers(i) \in SUBSET Server
    BY Zenon DEF Peers
<1> HIDE DEF e
<1>4. /\ CoreInv(g) /\ g.term = n.term /\ g.vote = n.vote /\ g.role = Leader
      /\ g.commit = n.commit /\ g.hint = n.hint /\ g.match = n.match /\ g.log = Append(n.log, e)
    BY <1>1, GrownOK
<1> HIDE DEF g
<1>5. /\ SameState(g, s.n) /\ s.n.commit = g.commit /\ s.n.match = g.match
      /\ \A m \in s.out : /\ IsAppend(m) /\ ~IsRequest(m) /\ ~IsAck(m)
                          /\ Stretch(m, g.log) /\ m.commit = g.commit
    BY <1>3, <1>4, SendAppendLog, Zenon
<1>6. CoreInv(s.n)
    BY <1>3, <1>4, SendAppendOK, Zenon DEF Contract
<1> HIDE DEF s
<1>7. /\ SameState(g, r.n) /\ r.n.match = n.match
      /\ \/ r.n.commit = n.commit
         \/ /\ r.n.commit # 0 /\ TermAt(g.log, r.n.commit) = n.term
            /\ Cardinality(Holding(s.n, i, r.n.commit)) >= QuorumSize
      /\ \A m \in r.out : /\ IsAppend(m) /\ ~IsRequest(m) /\ ~IsAck(m)
                          /\ Stretch(m, g.log) /\ m.commit = r.n.commit
    <2>1. CASE Peers(i) = {}
        <3>1. r = AdvanceCommit(s.n, i)
            BY <1>2, <2>1, Zenon
        <3>2. s.n.role = Leader
            BY <1>4, <1>5 DEF SameState
        <3>3. /\ SameState(s.n, r.n) /\ r.n.match = s.n.match
              /\ \/ r.n.commit = s.n.commit
                 \/ /\ r.n.commit # 0 /\ TermAt(s.n.log, r.n.commit) = s.n.term
                    /\ Cardinality(Holding(s.n, i, r.n.commit)) >= QuorumSize
              /\ \A m \in r.out : /\ IsAppend(m) /\ ~IsRequest(m) /\ ~IsAck(m)
                                  /\ Stretch(m, s.n.log) /\ m.commit = r.n.commit
            BY <1>6, <3>1, <3>2, AdvanceCommitLog, Zenon
        <3> QED BY <1>4, <1>5, <3>3, Zenon DEF SameState
    <2>2. CASE Peers(i) # {}
        BY <1>2, <1>4, <1>5, <2>2, Zenon
    <2> QED BY <2>1, <2>2
<1>8. Holding(s.n, i, r.n.commit) = Holding(r.n, i, r.n.commit)
    BY <1>4, <1>5, <1>7 DEF Holding, SameState, LastIndex
<1>9. r.n.term = n.term /\ r.n.vote = n.vote /\ r.n.role = Leader /\ r.n.hint = n.hint
      /\ r.n.log = Append(n.log, e)
    BY <1>4, <1>7, Zenon DEF SameState
<1>10. VoteContract(n, i, r, {}) /\ MatchContract(n, i, r, {})
    BY <1>7, <1>9, Zenon DEF VoteContract, MatchContract
<1>11. GrowContract(n, i, r, {})
    BY <1>1, <1>9 DEF GrowContract
<1>12. CommitContract(n, i, r, {})
    BY <1>4, <1>7, <1>8, <1>9, Zenon DEF CommitContract
<1>13. RoleContract(n, i, r, {})
    BY <1>9, Zenon DEF RoleContract, Leader, Candidate
<1>14. OutContract(n, i, r, {})
    BY <1>4, <1>7, <1>9, Zenon DEF OutContract
<1> QED BY <1>10, <1>11, <1>12, <1>13, <1>14, Zenon DEF LogContract

\* A call that keeps log and commit index, on a member that does not lead
\* afterwards, and that queues neither requests nor acknowledgements.
LEMMA PassiveLog ==
    ASSUME NEW n, NEW i, NEW r, NEW R,
           r.n.log = n.log, r.n.commit = n.commit, r.n.role # Leader,
           r.n.role = Candidate => n.role = Candidate /\ r.n.term = n.term,
           VoteContract(n, i, r, R),
           r.n.hint # None => \/ r.n.hint = n.hint /\ r.n.term = n.term /\ n.role # Leader
                              \/ \E m \in R : IsAppend(m) /\ m.from = r.n.hint /\ m.term = r.n.term,
           \A m \in r.out : ~IsAppend(m) /\ ~IsRequest(m) /\ ~IsAck(m)
    PROVE  LogContract(n, i, r, R)
BY Zenon DEF LogContract, GrowContract, CommitContract, MatchContract, RoleContract, OutContract

\* A call that does nothing.
LEMMA QuietLog ==
    ASSUME NEW n, NEW i, NEW R
    PROVE  LogContract(n, i, Quiet(n), R)
BY Zenon DEF Quiet, LogContract, VoteContract, GrowContract, CommitContract, MatchContract,
       RoleContract, OutContract

\* observe_term, on its own.
LEMMA ObserveTermLog ==
    ASSUME NEW n, CoreInv(n), NEW i \in Server, NEW t \in Term, t > n.term, NEW R
    PROVE  /\ LogContract(n, i, Quiet(ObserveTerm(n, t)), R)
           /\ ObserveTerm(n, t).hint = None /\ ObserveTerm(n, t).vote = None
<1> USE SMTT(60)
<1>1. n \in Core /\ n.term \in Nat /\ t \in Nat
    BY CoreTypes, RaftConstants DEF Term
<1>2. /\ ObserveTerm(n, t).log = n.log /\ ObserveTerm(n, t).commit = n.commit
      /\ ObserveTerm(n, t).role = Follower /\ ObserveTerm(n, t).hint = None
      /\ ObserveTerm(n, t).vote = None
    BY <1>1 DEF ObserveTerm, Core
<1>3. Quiet(ObserveTerm(n, t)).n = ObserveTerm(n, t) /\ Quiet(ObserveTerm(n, t)).out = {}
    BY Zenon DEF Quiet
<1>4. Follower # Leader /\ Follower # Candidate
    BY Zenon DEF Follower, Leader, Candidate
<1> QED BY <1>2, <1>3, <1>4, PassiveLog DEF VoteContract

\* The core from which become_leader sends its first heartbeat.
Crowned(n, i) ==
    [n EXCEPT !.role = Leader, !.hint = i,
              !.next = [p \in Server |-> LastIndex(n) + 1],
              !.match = NoIndex, !.sent = NoIndex]

\* A candidate that became leader: its log is what it stood with.
LEMMA CrownedOK ==
    ASSUME NEW n, CoreInv(n), Cardinality(n.votes) >= QuorumSize, NEW i \in Server,
           NEW b, b = Crowned(n, i)
    PROVE  /\ CoreInv(b) /\ b.log = n.log /\ b.commit = n.commit /\ b.role = Leader
           /\ b.votes = n.votes /\ b.term = n.term /\ b.vote = n.vote /\ b.hint = i
           /\ b.match = NoIndex
<1> USE SMTT(60)
<1>1. /\ n \in Core /\ n.term \in Nat /\ n.commit \in Nat /\ Len(n.log) \in Nat
      /\ n.commit <= Len(n.log) /\ n.applied = Prefix(n.log, n.commit)
    BY CoreTypes, Zenon
<1>2. NoIndex \in [Server -> Nat] /\ [p \in Server |-> LastIndex(n) + 1] \in [Server -> Nat]
    BY <1>1 DEF NoIndex, LastIndex
<1>3. /\ b \in Core /\ b.log = n.log /\ b.commit = n.commit /\ b.applied = n.applied
      /\ b.role = Leader /\ b.votes = n.votes /\ b.term = n.term /\ b.vote = n.vote
      /\ b.next = [p \in Server |-> LastIndex(n) + 1] /\ b.match = NoIndex /\ b.hint = i
    BY <1>1, <1>2, Zenon DEF Core, Crowned
<1>4. \A p \in Server : b.match[p] < b.next[p] /\ b.next[p] <= Len(b.log) + 1
    BY <1>1, <1>3 DEF NoIndex, LastIndex
<1> QED BY <1>1, <1>3, <1>4, Zenon DEF CoreInv

\* Counting the votes changes neither log nor vote; a winner announces itself
\* with stretches of its log.
LEMMA WinIfQuorumLog ==
    ASSUME NEW c, CoreInv(c), NEW i \in Server, NEW out, NEW r, r = WinIfQuorum(c, i, out)
    PROVE  \/ r.n = c /\ r.out = out
           \/ /\ r.n.term = c.term /\ r.n.vote = c.vote /\ r.n.log = c.log
              /\ r.n.commit = c.commit /\ r.n.role = Leader /\ r.n.hint = i
              /\ r.n.match = NoIndex
              /\ \A m \in r.out : \/ m \in out
                                  \/ /\ IsAppend(m) /\ ~IsRequest(m) /\ ~IsAck(m)
                                     /\ Stretch(m, c.log) /\ m.commit = c.commit
<1> USE SMTT(60)
<1>1. CASE Cardinality(c.votes) >= QuorumSize
    <2> DEFINE b == Crowned(c, i)
               w == SendAppend(b, i, Peers(i))
    <2>1. r = [n |-> w.n, out |-> out \cup w.out]
        BY <1>1, Zenon DEF WinIfQuorum, BecomeLeader, BroadcastAppend, Crowned
    <2>2. /\ CoreInv(b) /\ b.log = c.log /\ b.commit = c.commit /\ b.role = Leader
          /\ b.term = c.term /\ b.vote = c.vote /\ b.hint = i /\ b.match = NoIndex
        BY <1>1, CrownedOK
    <2>3. Peers(i) \in SUBSET Server
        BY Zenon DEF Peers
    <2>4. /\ SameState(b, w.n) /\ w.n.commit = b.commit /\ w.n.match = b.match
          /\ \A m \in w.out : /\ IsAppend(m) /\ ~IsRequest(m) /\ ~IsAck(m)
                              /\ Stretch(m, b.log) /\ m.commit = b.commit
        BY <2>2, <2>3, SendAppendLog, Zenon
    <2> HIDE DEF w
    <2>5. r.n = w.n /\ r.out = out \cup w.out
        BY <2>1
    <2> QED BY <2>2, <2>4, <2>5, Zenon DEF SameState
<1>2. CASE ~(Cardinality(c.votes) >= QuorumSize)
    BY <1>2, Zenon DEF WinIfQuorum
<1> QED BY <1>1, <1>2, Zenon

\* start_election and tick.
LEMMA StartElectionLog ==
    ASSUME NEW n, CoreInv(n), n.role # Leader, NEW i \in Server, NEW r, r = StartElection(n, i)
    PROVE  LogContract(n, i, r, {}) /\ r.n.log = n.log
<1> USE SMTT(60)
<1> DEFINE c == [n EXCEPT !.term = n.term + 1, !.role = Candidate, !.vote = i,
                          !.hint = None, !.votes = {i}]
           out == {RequestVote(i, p, c) : p \in Peers(i)}
<1>1. n \in Core /\ n.term \in Nat /\ n.term <= MaxTerm
    BY CoreTypes, Zenon
<1>2. CASE n.term = MaxTerm
    <2>1. r = Quiet(n)
        BY <1>2 DEF StartElection
    <2>2. r.n = n
        BY <2>1 DEF Quiet
    <2> QED BY <2>1, <2>2, QuietLog, Zenon
<1>3. CASE n.term # MaxTerm
    <2>1. n.term + 1 \in Term
        BY <1>1, <1>3, RaftConstants DEF Term
    <2>2. /\ c \in Core /\ c.term = n.term + 1 /\ c.role = Candidate /\ c.vote = i
          /\ c.votes = {i} /\ c.log = n.log /\ c.commit = n.commit /\ c.applied = n.applied
          /\ c.hint = None
        BY <1>1, <2>1, Zenon DEF Core
    <2>3. Candidate # Leader /\ Candidate # Follower /\ Leader # Follower
        BY Zenon DEF Candidate, Leader, Follower
    <2>4. CoreInv(c)
        <3> HIDE DEF c
        <3> QED BY <2>2, <2>3, Zenon DEF CoreInv
    <2>5. r = WinIfQuorum(c, i, out)
        BY <1>3, Zenon DEF StartElection
    <2> HIDE DEF c
    <2>6. \A m \in out : /\ ~IsAppend(m) /\ ~IsAck(m)
                         /\ m.lastIndex = LastIndex(c) /\ m.lastTerm = LastTerm(c)
        BY DEF RequestVote, IsAppend, IsAck
    <2> HIDE DEF out
    <2>7. \/ r.n = c /\ r.out = out
          \/ /\ r.n.term = c.term /\ r.n.vote = c.vote /\ r.n.log = c.log
             /\ r.n.commit = c.commit /\ r.n.role = Leader /\ r.n.hint = i
             /\ r.n.match = NoIndex
             /\ \A m \in r.out : \/ m \in out
                                 \/ /\ IsAppend(m) /\ ~IsRequest(m) /\ ~IsAck(m)
                                    /\ Stretch(m, c.log) /\ m.commit = c.commit
        BY <2>4, <2>5, WinIfQuorumLog
    <2>8. r.n.term > n.term /\ r.n.vote = i /\ r.n.log = n.log /\ r.n.commit = n.commit
          /\ r.n.role \in {Candidate, Leader} /\ (r.n.role = Candidate => r.n.hint = None)
          /\ (r.n.role = Leader => r.n.hint = i /\ r.n.match = NoIndex)
        BY <1>1, <2>2, <2>3, <2>7
    <2>9. LastIndex(r.n) = LastIndex(c) /\ LastTerm(r.n) = LastTerm(c)
        BY <2>2, <2>8, Zenon DEF LastIndex, LastTerm
    <2>10. VoteContract(n, i, r, {}) /\ GrowContract(n, i, r, {}) /\ CommitContract(n, i, r, {})
           /\ RoleContract(n, i, r, {})
        BY <2>3, <2>8, Zenon DEF VoteContract, GrowContract, CommitContract, RoleContract
    <2>11. MatchContract(n, i, r, {})
        BY <2>8 DEF MatchContract, NoIndex, Peers
    <2>12. OutContract(n, i, r, {})
        BY <2>2, <2>6, <2>7, <2>8, <2>9 DEF OutContract
    <2> QED BY <2>8, <2>10, <2>11, <2>12, Zenon DEF LogContract
<1> QED BY <1>2, <1>3

\* tick: a heartbeat or an election; neither touches the log.
LEMMA TickLog ==
    ASSUME NEW n, CoreInv(n), NEW i \in Server, NEW r, r = Tick(n, i)
    PROVE  LogContract(n, i, r, {}) /\ r.n.log = n.log
<1> USE SMTT(60)
<1>1. CASE n.role = Leader
    <2>1. r = SendAppend(n, i, Peers(i)) /\ Peers(i) \in SUBSET Server
        BY <1>1, Zenon DEF Tick, BroadcastAppend, Peers
    <2>2. /\ SameState(n, r.n) /\ r.n.commit = n.commit /\ r.n.match = n.match
          /\ \A m \in r.out : /\ IsAppend(m) /\ ~IsRequest(m) /\ ~IsAck(m)
                              /\ Stretch(m, n.log) /\ m.commit = n.commit
        BY <1>1, <2>1, SendAppendLog
    <2>3. Leader # Candidate
        BY Zenon DEF Leader, Candidate
    <2> QED BY <1>1, <2>2, <2>3
            DEF SameState, LogContract, VoteContract, GrowContract, CommitContract,
                MatchContract, RoleContract, OutContract
<1>2. CASE n.role # Leader
    BY <1>2, StartElectionLog, Zenon DEF Tick
<1> QED BY <1>1, <1>2, Zenon

\* step_request_vote: a vote goes to a candidate that passed the check.
LEMMA StepRequestVoteLog ==
    ASSUME NEW n, CoreInv(n), NEW i \in Server, NEW m \in VoteRequests,
           NEW r, r = StepRequestVote(n, i, m)
    PROVE  LogContract(n, i, r, {m})
<1> USE SMTT(60)
<1>1. m.from \in Server /\ m.term \in Term /\ m.term \in Nat /\ m.type = "RequestVote"
    BY RaftConstants DEF VoteRequests, Term
<1>2. n \in Core /\ n.term \in Nat
    BY CoreTypes, Zenon
<1>3. \A p, k, g : /\ ~IsAppend(RequestVoteResp(i, p, k, g))
                   /\ ~IsRequest(RequestVoteResp(i, p, k, g))
                   /\ ~IsAck(RequestVoteResp(i, p, k, g))
    BY Zenon DEF RequestVoteResp, IsAppend, IsRequest, IsAck
<1>4. CASE m.term < n.term
    <2>1. r.n = n /\ \A q \in r.out : ~IsAppend(q) /\ ~IsRequest(q) /\ ~IsAck(q)
        BY <1>3, <1>4, Zenon DEF StepRequestVote
    <2> QED BY <2>1, Zenon
            DEF LogContract, VoteContract, GrowContract, CommitContract,
                MatchContract, RoleContract, OutContract
<1>5. CASE ~(m.term < n.term)
    <2> DEFINE o == ObserveTerm(n, m.term)
               upToDate == \/ m.lastTerm > LastTerm(o)
                           \/ m.lastTerm = LastTerm(o) /\ m.lastIndex >= LastIndex(o)
               grant == upToDate /\ o.vote \in {None, m.from}
               v == IF grant THEN [o EXCEPT !.vote = m.from] ELSE o
    <2>1. r = [n |-> v, out |-> {RequestVoteResp(i, m.from, o, grant)}]
        BY <1>5, Zenon DEF StepRequestVote
    <2>2. /\ CoreInv(o) /\ o.log = n.log /\ o.commit = n.commit /\ o.term = m.term
          /\ (m.term > n.term => o.role = Follower) /\ (m.term = n.term => o = n)
        BY <1>1, <1>2, <1>5, ObserveTermOK
    <2>3. m.term > n.term => o.hint = None /\ o.vote = None
        BY <1>1, ObserveTermLog, Zenon
    <2>4. LastTerm(o) = LastTerm(n) /\ LastIndex(o) = LastIndex(n)
        BY <2>2, Zenon DEF LastTerm, LastIndex
    <2>5. grant => Passes(m, n)
        BY <2>4, Zenon DEF Passes
    <2> HIDE DEF o, grant
    <2>6. o \in Core
        BY <2>2, CoreTypes
    <2>7. /\ v.term = o.term /\ v.role = o.role /\ v.log = o.log /\ v.commit = o.commit
          /\ v.hint = o.hint /\ v.match = o.match /\ v.vote = IF grant THEN m.from ELSE o.vote
        BY <1>1, <2>6, Zenon DEF Core
    <2>8. r.n = v /\ \A q \in r.out : ~IsAppend(q) /\ ~IsRequest(q) /\ ~IsAck(q)
        BY <2>1, <1>3
    <2> HIDE DEF v
    <2>9. VoteContract(n, i, r, {m})
        BY <1>1, <1>2, <1>5, <2>2, <2>3, <2>5, <2>7, <2>8 DEF VoteContract, IsRequest
    <2>10. GrowContract(n, i, r, {m}) /\ CommitContract(n, i, r, {m}) /\ OutContract(n, i, r, {m})
        BY <2>2, <2>7, <2>8, Zenon DEF GrowContract, CommitContract, OutContract
    <2>11. Follower # Leader /\ Follower # Candidate
        BY DEF Follower, Leader, Candidate
    <2>12. MatchContract(n, i, r, {m}) /\ RoleContract(n, i, r, {m})
        BY <1>1, <1>2, <1>5, <2>2, <2>3, <2>7, <2>8, <2>11 DEF MatchContract, RoleContract
    <2> QED BY <2>9, <2>10, <2>12 DEF LogContract
<1> QED BY <1>4, <1>5, Zenon

\* step_vote_resp.
LEMMA StepVoteRespLog ==
    ASSUME NEW n, CoreInv(n), NEW i \in Server, NEW m \in VoteReplies,
           NEW r, r = StepVoteResp(n, i, m)
    PROVE  LogContract(n, i, r, {m})
<1> USE SMTT(60)
<1>1. m.from \in Server /\ m.term \in Term /\ m.term \in Nat
    BY RaftConstants DEF VoteReplies, Term
<1>2. n \in Core /\ n.term \in Nat /\ n.votes \in SUBSET Server
    BY CoreTypes, Zenon
<1>3. CASE m.term > n.term
    <2>1. r = Quiet(ObserveTerm(n, m.term))
        BY <1>3, Zenon DEF StepVoteResp
    <2> QED BY <1>1, <1>3, <2>1, ObserveTermLog, Zenon
<1>4. CASE ~(m.term > n.term) /\ (n.role # Candidate \/ m.term # n.term \/ ~m.granted)
    <2>1. r = Quiet(n)
        BY <1>4, Zenon DEF StepVoteResp
    <2> QED BY <2>1, QuietLog
<1>5. CASE ~(m.term > n.term) /\ ~(n.role # Candidate \/ m.term # n.term \/ ~m.granted)
    <2> DEFINE c == [n EXCEPT !.votes = n.votes \cup {m.from}]
    <2>1. r = WinIfQuorum(c, i, {})
        BY <1>2, <1>5 DEF StepVoteResp
    <2>2. /\ c \in Core /\ c.term = n.term /\ c.role = Candidate /\ c.vote = n.vote
          /\ c.log = n.log /\ c.commit = n.commit /\ c.applied = n.applied /\ c.hint = n.hint
        BY <1>1, <1>2, <1>5, Zenon DEF Core
    <2>3. Candidate # Leader /\ Candidate # Follower
        BY Zenon DEF Candidate, Leader, Follower
    <2> HIDE DEF c
    <2>4. CoreInv(c)
        BY <2>2, <2>3 DEF CoreInv
    <2>5. \/ r.n = c /\ r.out = {}
          \/ /\ r.n.term = c.term /\ r.n.vote = c.vote /\ r.n.log = c.log
             /\ r.n.commit = c.commit /\ r.n.role = Leader /\ r.n.hint = i
             /\ r.n.match = NoIndex
             /\ \A q \in r.out : \/ q \in {}
                                 \/ /\ IsAppend(q) /\ ~IsRequest(q) /\ ~IsAck(q)
                                    /\ Stretch(q, c.log) /\ q.commit = c.commit
        BY <2>1, <2>4, WinIfQuorumLog
    <2>6. VoteContract(n, i, r, {m}) /\ GrowContract(n, i, r, {m}) /\ CommitContract(n, i, r, {m})
          /\ RoleContract(n, i, r, {m}) /\ OutContract(n, i, r, {m})
        BY <1>5, <2>2, <2>3, <2>5, Zenon
           DEF VoteContract, GrowContract, CommitContract, RoleContract, OutContract
    <2>7. MatchContract(n, i, r, {m})
        BY <2>2, <2>3, <2>5 DEF MatchContract, NoIndex, Peers
    <2> QED BY <2>6, <2>7, Zenon DEF LogContract
<1> QED BY <1>3, <1>4, <1>5, Zenon

\* step_append: a refusal keeps the log, an acceptance takes the batch, its
\* commit index as far as the batch goes, and is what the answer says.
LEMMA StepAppendLog ==
    ASSUME NEW n, CoreInv(n), NEW i \in Server, NEW m \in AppendRequests,
           NEW r, r = StepAppend(n, i, m)
    PROVE  /\ LogContract(n, i, r, {m})
           /\ r.n.log = n.log \/ (m.term >= n.term /\ AppendFits(n, m) /\ r.n.log = AppendedLog(n, m))
<1> USE SMTT(60)
<1> DEFINE o == ObserveTerm(n, m.term)
           f == [o EXCEPT !.role = Follower, !.hint = m.from]
           matched == m.prevIndex + Len(m.entries)
           kept == [f EXCEPT !.log = AppendedLog(f, m)]
           commit == Smaller(m.commit, matched)
           c == IF commit > f.commit THEN CommitTo(kept, commit) ELSE kept
<1>1. /\ m.from \in Server /\ m.term \in Term /\ m.prevIndex \in Nat /\ m.term \in Nat
      /\ m.entries \in Seq(Entry) /\ m.commit \in Nat /\ Len(m.entries) \in Nat
      /\ IsAppend(m)
    BY SeqTypes, RaftConstants DEF AppendRequests, Term, IsAppend
<1>2. matched \in Nat /\ commit \in Nat /\ commit <= matched /\ commit <= m.commit
    BY <1>1 DEF Smaller
<1>3. n.term \in Nat
    BY CoreTypes, Zenon
<1>4. CASE m.term < n.term
    <2>1. r = [n |-> n, out |-> {AppendEntriesResp(i, m.from, n, FALSE, LastIndex(n))}]
        BY <1>4 DEF StepAppend
    <2>2. r.n = n /\ \A q \in r.out : ~IsAppend(q) /\ ~IsRequest(q) /\ ~IsAck(q)
        BY <2>1 DEF AppendEntriesResp, IsAppend, IsRequest, IsAck
    <2> QED BY <2>2, Zenon
            DEF LogContract, VoteContract, GrowContract, CommitContract,
                MatchContract, RoleContract, OutContract
<1>5. CASE ~(m.term < n.term)
    <2>1. /\ CoreInv(o) /\ o.log = n.log /\ o.commit = n.commit /\ o.term = m.term
          /\ (m.term = n.term => o = n)
        BY <1>1, <1>3, <1>5, ObserveTermOK
    <2>2. m.term > n.term => o.vote = None
        BY <1>1, ObserveTermLog, Zenon
    <2> HIDE DEF o
    <2>3. o \in Core
        BY <2>1, CoreTypes, Zenon
    <2>4. /\ f \in Core /\ f.term = m.term /\ f.vote = o.vote /\ f.log = n.log
          /\ f.commit = n.commit /\ f.role = Follower /\ f.hint = m.from
        BY <1>1, <2>1, <2>3, Zenon DEF Core
    <2>5. Follower # Leader /\ Follower # Candidate
        BY Zenon DEF Follower, Leader, Candidate
    <2>6. o.vote = None \/ (o.vote = n.vote /\ m.term = n.term)
        BY <1>1, <1>3, <1>5, <2>1, <2>2
    <2>7. ASSUME r.n.term = m.term, r.n.vote = o.vote, r.n.role = Follower, r.n.hint = m.from
          PROVE  VoteContract(n, i, r, {m}) /\ MatchContract(n, i, r, {m})
                 /\ RoleContract(n, i, r, {m})
        BY <1>1, <2>5, <2>6, <2>7, Zenon DEF VoteContract, MatchContract, RoleContract
    <2>8. AppendFits(f, m) <=> AppendFits(n, m)
        <3> HIDE DEF f
        <3> QED BY <2>4, Zenon DEF AppendFits, LastIndex
    <2>9. AppendedLog(f, m) = AppendedLog(n, m)
        <3> HIDE DEF f
        <3>1. Changes(f, m) = Changes(n, m)
            BY <2>4 DEF Changes, LastIndex
        <3> QED BY <2>4, <3>1 DEF AppendedLog
    <2>10. CASE ~AppendFits(f, m)
        <3>1. r = [n |-> f, out |-> {AppendEntriesResp(i, m.from, f, FALSE, LastIndex(f))}]
            BY <1>5, <2>10 DEF StepAppend, o
        <3> HIDE DEF f
        <3>2. r.n = f /\ \A q \in r.out : ~IsAppend(q) /\ ~IsRequest(q) /\ ~IsAck(q)
            BY <3>1 DEF AppendEntriesResp, IsAppend, IsRequest, IsAck
        <3>3. GrowContract(n, i, r, {m}) /\ CommitContract(n, i, r, {m})
              /\ OutContract(n, i, r, {m})
            BY <2>4, <3>2, Zenon DEF GrowContract, CommitContract, OutContract
        <3> QED BY <2>4, <2>7, <3>2, <3>3, Zenon DEF LogContract
    <2>11. CASE AppendFits(f, m)
        <3>1. r = [n |-> c, out |-> {AppendEntriesResp(i, m.from, f, TRUE, matched)}]
            BY <1>5, <2>11 DEF StepAppend, o
        <3> HIDE DEF f
        <3> DEFINE X == AppendedLog(n, m)
        <3>2. X \in Seq(Entry)
            BY <2>8, <2>11, AppendedLogOK, Zenon
        <3> HIDE DEF X
        <3>3. /\ kept \in Core /\ kept.log = X /\ kept.commit = n.commit /\ kept.role = Follower
              /\ kept.term = m.term /\ kept.vote = o.vote /\ kept.hint = m.from
            BY <2>4, <2>9, <3>2, Zenon DEF Core, X
        <3> HIDE DEF kept, commit, matched
        <3>4. /\ c.log = X /\ c.role = Follower /\ c.term = m.term /\ c.vote = o.vote
              /\ c.hint = m.from
              /\ c.commit = n.commit \/ c.commit = commit
            BY <3>3 DEF CommitTo, Core
        <3> HIDE DEF c
        <3>5. r.n = c /\ \A q \in r.out : ~IsAppend(q) /\ ~IsRequest(q) /\ q.match = matched
            BY <3>1 DEF AppendEntriesResp, IsAppend, IsRequest, IsAck
        <3>6. Took(n, r, m)
            <4>1. Shaped(n, m, X)
                BY <2>8, <2>11, AppendedShape, Zenon DEF X
            <4> QED BY <1>1, <3>4, <3>5, <4>1, Zenon DEF Took
        <3>7. GrowContract(n, i, r, {m}) /\ OutContract(n, i, r, {m})
            BY <3>5, <3>6, Zenon DEF GrowContract, OutContract, matched
        <3>8. CommitContract(n, i, r, {m})
            BY <1>2, <3>4, <3>5, <3>6 DEF CommitContract, matched
        <3>9. m.term >= n.term /\ AppendFits(n, m) /\ r.n.log = AppendedLog(n, m)
            BY <1>1, <1>3, <1>5, <2>8, <2>11, <3>4, <3>5 DEF X
        <3> QED BY <2>7, <3>4, <3>5, <3>7, <3>8, <3>9, Zenon DEF LogContract
    <2> QED BY <2>10, <2>11, Zenon
<1> QED BY <1>4, <1>5, Zenon

\* What a leader's answers change: nothing but its view of the peers.
LEMMA LeaderLog ==
    ASSUME NEW n, CoreInv(n), n.role = Leader, NEW i \in Server, NEW g, SameState(n, g),
           g.commit = n.commit, NEW R,
           \A p \in Peers(i) : \/ g.match[p] = n.match[p]
                               \/ \E m \in R : IsAck(m) /\ m.from = p /\ m.term = n.term
                                                 /\ m.match = g.match[p],
           NEW r, SameState(g, r.n), r.n.match = g.match,
           CommitContract(g, i, r, {}), OutContract(g, i, r, {})
    PROVE  LogContract(n, i, r, R)
<1> USE SMTT(60)
<1>1. Leader # Candidate /\ Leader # Follower
    BY Zenon DEF Leader, Candidate, Follower
<1>2. /\ r.n.term = n.term /\ r.n.vote = n.vote /\ r.n.log = n.log /\ r.n.role = Leader
      /\ r.n.hint = n.hint /\ g.role = Leader /\ g.term = n.term
    BY Zenon DEF SameState
<1>3. /\ VoteContract(n, i, r, R) /\ GrowContract(n, i, r, R) /\ RoleContract(n, i, r, R)
      /\ MatchContract(n, i, r, R)
    BY <1>1, <1>2, Zenon DEF VoteContract, GrowContract, RoleContract, MatchContract
<1>4. CommitContract(n, i, r, R)
    BY <1>2, Zenon DEF CommitContract
<1>5. OutContract(n, i, r, R)
    BY <1>2, Zenon DEF OutContract
<1> QED BY <1>3, <1>4, <1>5, Zenon DEF LogContract

\* step_append_resp: a match index comes from an answer, a commit index from
\* counting.
LEMMA StepAppendRespLog ==
    ASSUME NEW n, CoreInv(n), NEW i \in Server, NEW m \in AppendReplies,
           NEW r, r = StepAppendResp(n, i, m)
    PROVE  LogContract(n, i, r, {m})
<1> USE SMTT(60)
<1> DEFINE p == m.from
           retry == Larger(n.next[p] - 1, n.match[p] + 1)
           ma == Larger(n.match[p], m.match)
           ne == Larger(n.next[p], m.match + 1)
           g == [n EXCEPT !.match[p] = ma, !.next[p] = ne]
           h == [n EXCEPT !.next[p] = retry]
<1>1. p \in Server /\ m.term \in Term /\ m.match \in Nat /\ m.type = "AppendEntriesResp"
    BY Zenon DEF AppendReplies
<1>2. /\ n \in Core /\ n.term \in Nat /\ m.term \in Nat /\ n.commit \in Nat /\ Len(n.log) \in Nat
      /\ n.next \in [Server -> Nat] /\ n.match \in [Server -> Nat] /\ n.commit <= Len(n.log)
      /\ n.applied = Prefix(n.log, n.commit)
    BY <1>1, RaftConstants, CoreTypes DEF Term
<1>3. CASE m.term > n.term
    <2>1. r = Quiet(ObserveTerm(n, m.term))
        BY <1>3, Zenon DEF StepAppendResp
    <2> QED BY <2>1, <1>1, <1>3, ObserveTermLog
<1>4. ASSUME r = Quiet(n) PROVE LogContract(n, i, r, {m})
    BY <1>4, QuietLog, Zenon
<1>5. CASE ~(m.term > n.term) /\ (n.role # Leader \/ m.term # n.term)
    BY <1>4, <1>5 DEF StepAppendResp
<1>6. CASE ~(m.term > n.term) /\ ~(n.role # Leader \/ m.term # n.term)
    <2>1. \A s \in Server : n.match[s] < n.next[s] /\ n.next[s] <= Len(n.log) + 1
        BY <1>6, Zenon DEF CoreInv
    <2>2. Cardinality(n.votes) >= QuorumSize
        BY <1>6 DEF CoreInv
    <2>3. /\ n.match[p] \in Nat /\ n.next[p] \in Nat
          /\ n.match[p] < n.next[p] /\ n.next[p] <= Len(n.log) + 1
        BY <1>1, <1>2, <2>1
    <2>4. CASE m.success /\ ~(m.match > LastIndex(n) \/ m.match > n.sent[p])
        <3>1. r = AdvanceCommit(g, i)
            BY <1>6, <2>4 DEF StepAppendResp
        <3>2. ma \in Nat /\ ne \in Nat /\ ma < ne /\ ne <= Len(n.log) + 1
            <4>1. m.match <= Len(n.log)
                BY <1>1, <1>2, <2>4 DEF LastIndex
            <4> HIDE DEF p
            <4> QED BY <1>1, <1>2, <2>3, <4>1, AcknowledgedOK
        <3>3. ma = n.match[p] \/ ma = m.match
            BY Zenon DEF Larger
        <3> HIDE DEF ma, ne, p
        <3>4. /\ g \in Core /\ g.log = n.log /\ g.commit = n.commit /\ g.role = Leader
              /\ g.applied = n.applied /\ g.term = n.term /\ g.vote = n.vote /\ g.votes = n.votes
              /\ g.match = [n.match EXCEPT ![p] = ma] /\ g.next = [n.next EXCEPT ![p] = ne]
              /\ g.hint = n.hint
            BY <1>1, <1>2, <1>6, <3>2, Zenon DEF Core
        <3> HIDE DEF g
        <3>5. \A s \in Server : g.match[s] < g.next[s] /\ g.next[s] <= Len(g.log) + 1
            BY <1>2, <2>1, <3>2, <3>4
        <3>6. CoreInv(g)
            BY <1>2, <2>2, <3>4, <3>5, Zenon DEF CoreInv
        <3>7. \A s \in Peers(i) :
                 \/ g.match[s] = n.match[s]
                 \/ \E q \in {m} : IsAck(q) /\ q.from = s /\ q.term = n.term
                                      /\ q.match = g.match[s]
            BY <1>1, <1>2, <1>6, <2>4, <3>3, <3>4 DEF Peers, IsAck, p
        <3>8. SameState(n, g)
            BY <1>6, <3>4, Zenon DEF SameState
        <3>9. /\ SameState(g, r.n) /\ r.n.match = g.match
              /\ CommitContract(g, i, r, {}) /\ OutContract(g, i, r, {})
            <4>1. /\ SameState(g, r.n) /\ r.n.match = g.match
                  /\ \/ r.n.commit = g.commit
                     \/ /\ r.n.commit # 0 /\ TermAt(g.log, r.n.commit) = g.term
                        /\ Cardinality(Holding(g, i, r.n.commit)) >= QuorumSize
                  /\ \A q \in r.out : /\ IsAppend(q) /\ ~IsRequest(q) /\ ~IsAck(q)
                                      /\ Stretch(q, g.log) /\ q.commit = r.n.commit
                BY <3>1, <3>4, <3>6, AdvanceCommitLog
            <4>2. Holding(r.n, i, r.n.commit) = Holding(g, i, r.n.commit)
                BY <4>1, Zenon DEF Holding, LastIndex, SameState
            <4> QED BY <3>4, <4>1, <4>2, Zenon DEF CommitContract, OutContract, SameState
        <3> QED BY <1>6, <3>4, <3>7, <3>8, <3>9, LeaderLog, Zenon
    <2>5. CASE m.success /\ (m.match > LastIndex(n) \/ m.match > n.sent[p])
        BY <1>4, <1>6, <2>5, Zenon DEF StepAppendResp
    <2>6. CASE ~m.success /\ retry >= n.next[p]
        BY <1>4, <1>6, <2>6 DEF StepAppendResp
    <2>7. CASE ~m.success /\ ~(retry >= n.next[p])
        <3>1. r = SendAppend(h, i, {p}) /\ {p} \in SUBSET Server
            BY <1>1, <1>6, <2>7, Zenon DEF StepAppendResp
        <3>2. retry \in Nat /\ n.match[p] < retry /\ retry <= Len(n.log) + 1
            BY <1>2, <2>3, RetryOK, Zenon
        <3> HIDE DEF retry, p
        <3>3. /\ h \in Core /\ h.log = n.log /\ h.commit = n.commit /\ h.role = Leader
              /\ h.applied = n.applied /\ h.term = n.term /\ h.vote = n.vote /\ h.votes = n.votes
              /\ h.match = n.match /\ h.next = [n.next EXCEPT ![p] = retry] /\ h.hint = n.hint
            BY <1>1, <1>2, <1>6, <3>2, Zenon DEF Core
        <3> HIDE DEF h
        <3>4. \A s \in Server : h.match[s] < h.next[s] /\ h.next[s] <= Len(h.log) + 1
            BY <1>2, <2>1, <3>2, <3>3, Zenon
        <3>5. CoreInv(h)
            BY <1>2, <2>2, <3>3, <3>4 DEF CoreInv
        <3>6. SameState(n, h)
            BY <1>6, <3>3, Zenon DEF SameState
        <3>7. /\ SameState(h, r.n) /\ r.n.commit = h.commit /\ r.n.match = h.match
              /\ \A q \in r.out : /\ IsAppend(q) /\ ~IsRequest(q) /\ ~IsAck(q)
                                  /\ Stretch(q, h.log) /\ q.commit = h.commit
            BY <3>1, <3>3, <3>5, SendAppendLog
        <3>8. CommitContract(h, i, r, {}) /\ OutContract(h, i, r, {})
            BY <3>7, Zenon DEF CommitContract, OutContract, SameState
        <3> QED BY <1>6, <3>3, <3>6, <3>7, <3>8, LeaderLog, Zenon
    <2> QED BY <2>4, <2>5, <2>6, <2>7, Zenon
<1> QED BY <1>3, <1>5, <1>6, Zenon

\* step keeps the contract about logs, whatever RPC arrives.
LEMMA StepLog ==
    ASSUME NEW n, CoreInv(n), NEW i \in Server, NEW m \in Message,
           NEW r, r = Step(n, i, m)
    PROVE  /\ LogContract(n, i, r, {m})
           /\ r.n.log = n.log \/ (/\ IsAppend(m) /\ m.term >= n.term /\ AppendFits(n, m)
                                  /\ r.n.log = AppendedLog(n, m))
<1> USE SMTT(60)
<1>0. ASSUME LogContract(n, i, r, {m}), ~IsAppend(m) PROVE r.n.log = n.log
    BY <1>0 DEF LogContract, GrowContract, Took
<1>1. CASE m \in VoteRequests
    <2>1. m.type = "RequestVote"
        BY <1>1, Zenon DEF VoteRequests
    <2>2. r = StepRequestVote(n, i, m)
        BY <2>1 DEF Step
    <2>3. LogContract(n, i, r, {m})
        BY <1>1, <2>2, StepRequestVoteLog, Zenon
    <2> QED BY <1>0, <2>1, <2>3, Zenon DEF IsAppend
<1>2. CASE m \in VoteReplies
    <2>1. m.type = "RequestVoteResp"
        BY <1>2 DEF VoteReplies
    <2>2. r = StepVoteResp(n, i, m)
        BY <2>1 DEF Step
    <2>3. LogContract(n, i, r, {m})
        BY <1>2, <2>2, StepVoteRespLog, Zenon
    <2> QED BY <1>0, <2>1, <2>3, Zenon DEF IsAppend
<1>3. CASE m \in AppendRequests
    <2>1. m.type = "AppendEntries"
        BY <1>3, Zenon DEF AppendRequests
    <2>2. r = StepAppend(n, i, m)
        BY <2>1, Zenon DEF Step
    <2> QED BY <1>3, <2>1, <2>2, StepAppendLog DEF IsAppend
<1>4. CASE m \in AppendReplies
    <2>1. m.type = "AppendEntriesResp"
        BY <1>4 DEF AppendReplies
    <2>2. r = StepAppendResp(n, i, m)
        BY <2>1, Zenon DEF Step
    <2>3. LogContract(n, i, r, {m})
        BY <1>4, <2>2, StepAppendRespLog, Zenon
    <2> QED BY <1>0, <2>1, <2>3 DEF IsAppend
<1> QED BY <1>1, <1>2, <1>3, <1>4, Zenon DEF Message

-----------------------------------------------------------------------------
(* The shape of snapshots and RPCs *)

\* validate_shape, kind by kind.
LEMMA ShapeCases ==
    ASSUME NEW m
    PROVE  /\ IsRequest(m) => (ValidShape(m) <=>
                 m.term # 0 /\ ValidPosition(m.lastIndex, m.lastTerm, m.term))
           /\ IsAppend(m) => (ValidShape(m) <=>
                 /\ m.term # 0
                 /\ ValidPosition(m.prevIndex, m.prevTerm, m.term)
                 /\ \A k \in DOMAIN m.entries :
                       /\ m.entries[k].term # 0
                       /\ m.entries[k].term <= m.term
                       /\ m.entries[k].term >=
                             (IF k = 1 THEN m.prevTerm ELSE m.entries[k-1].term))
           /\ ~IsRequest(m) /\ ~IsAppend(m) => ValidShape(m)
BY Zenon DEF ValidShape, IsRequest, IsAppend

\* The position of an entry of a valid log has a valid shape.
LEMMA PositionOK ==
    ASSUME NEW s \in Seq(Entry), NEW t \in Nat, NEW k \in 0..Len(s),
           \A l \in 1..Len(s) : s[l].term # 0 /\ s[l].term <= t
    PROVE  ValidPosition(k, TermAt(s, k), t)
<1>1. k # 0 => k \in 1..Len(s)
    BY SeqTypes
<1> QED BY <1>1 DEF ValidPosition, TermAt

\* Every RPC a call queues has the shape its receiver demands.
LEMMA OutShape ==
    ASSUME NEW n, CoreInv(n), NEW i \in Server, NEW r, NEW R, NEW W,
           Contract(n, i, r, W), LogContract(n, i, r, R),
           ValidSnapshot(Snapshot(r.n)), r.n.role = Leader => r.n.term # 0,
           NEW m \in r.out
    PROVE  ValidShape(m)
<1> USE SMTT(60)
<1> DEFINE s == r.n.log
           t == r.n.term
<1>1. /\ CoreInv(r.n) /\ m \in Message /\ m.term = t
      /\ IsAppend(m) => r.n.role = Leader
    BY Zenon DEF Contract
<1>2. s \in Seq(Entry) /\ t \in Nat /\ n.term \in Nat /\ Len(s) \in Nat /\ DOMAIN s = 1..Len(s)
    BY <1>1, CoreTypes, SeqTypes, Zenon
<1>3. \A l \in 1..Len(s) : /\ s[l].term # 0 /\ s[l].term <= t
                           /\ l > 1 => s[l-1].term <= s[l].term
    BY <1>2, Zenon DEF ValidSnapshot, Snapshot
<1>4. /\ IsAppend(m) => Stretch(m, s)
      /\ IsRequest(m) => /\ t > n.term /\ m.lastIndex = Len(s)
                         /\ m.lastTerm = TermAt(s, Len(s))
    BY Zenon DEF LogContract, OutContract, LastIndex, LastTerm
<1>5. \A l \in 1..Len(s) : s[l].term \in Nat
    BY <1>2, EntryAt, Zenon
<1> HIDE DEF s, t
<1>6. CASE IsRequest(m)
    <2>1. ValidPosition(Len(s), TermAt(s, Len(s)), t)
        BY <1>2, <1>3, PositionOK
    <2> QED BY <1>1, <1>2, <1>4, <1>6, <2>1, ShapeCases
<1>7. CASE IsAppend(m)
    <2> DEFINE p == m.prevIndex
               E == m.entries
    <2>1. m \in AppendRequests
        BY <1>1, <1>7, MessageTypes
    <2>2. p \in Nat /\ E \in Seq(Entry)
        BY <2>1, Zenon DEF AppendRequests
    <2>3. Len(E) \in Nat /\ DOMAIN E = 1..Len(E)
        BY <2>2, SeqTypes, Zenon
    <2>4. /\ p + Len(E) <= Len(s) /\ m.prevTerm = TermAt(s, p)
          /\ \A k \in 1..Len(E) : E[k] = s[p + k]
        BY <1>4, <1>7 DEF Stretch
    <2> HIDE DEF p, E
    <2>5. ValidPosition(p, m.prevTerm, t)
        <3>1. p \in 0..Len(s)
            BY <1>2, <2>2, <2>3, <2>4
        <3> QED BY <1>2, <1>3, <2>4, <3>1, PositionOK
    <2>6. ASSUME NEW k \in 1..Len(E)
          PROVE  /\ E[k].term # 0 /\ E[k].term <= t
                 /\ E[k].term >= (IF k = 1 THEN m.prevTerm ELSE E[k-1].term)
        <3>1. p + k \in 1..Len(s) /\ E[k] = s[p + k] /\ k \in Nat
            BY <1>2, <2>2, <2>3, <2>4
        <3>2. E[k].term # 0 /\ E[k].term <= t /\ E[k].term \in Nat
            BY <1>3, <1>5, <3>1, Zenon
        <3>3. CASE k = 1
            <4>1. CASE p = 0
                BY <2>4, <3>2, <3>3, <4>1 DEF TermAt
            <4>2. CASE p # 0
                <5>1. p \in 1..Len(s) /\ (p + 1) - 1 = p /\ p + 1 > 1
                    BY <1>2, <2>2, <3>1, <3>3, <4>2
                <5>2. m.prevTerm = s[p].term
                    BY <2>4, <4>2, Zenon DEF TermAt
                <5>3. s[p].term <= s[p + 1].term
                    BY <1>3, <3>1, <3>3, <5>1
                <5> QED BY <1>5, <3>1, <3>2, <3>3, <5>1, <5>2, <5>3, Zenon
            <4> QED BY <4>1, <4>2, Zenon
        <3>4. CASE k # 1
            <4>0. k - 1 \in 1..Len(E) /\ k > 1
                BY <2>3, <3>4
            <4>1. p + (k - 1) = (p + k) - 1 /\ p + k > 1 /\ (p + k) - 1 \in 1..Len(s)
                BY <1>2, <2>2, <3>1, <4>0
            <4>2. E[k-1] = s[(p + k) - 1]
                BY <2>4, <4>0, <4>1, Zenon
            <4>3. s[(p + k) - 1].term <= s[p + k].term
                BY <1>3, <3>1, <4>1
            <4> QED BY <1>5, <3>1, <3>2, <3>4, <4>1, <4>2, <4>3, Zenon
        <3> QED BY <3>2, <3>3, <3>4, Zenon
    <2>7. t # 0
        BY <1>1, <1>7, Zenon DEF t
    <2> QED BY <1>1, <1>7, <2>3, <2>5, <2>6, <2>7, ShapeCases, Zenon DEF p, E
<1> QED BY <1>6, <1>7, ShapeCases, Zenon

\* A batch of valid shape that is taken into a valid log leaves a valid log.
LEMMA AppendedValid ==
    ASSUME NEW n, CoreInv(n), NEW m \in AppendRequests, ValidShape(m),
           NEW s, s = n.log, NEW t \in Nat, n.term <= t, m.term = t,
           \A l \in 1..Len(s) : /\ s[l].term # 0 /\ s[l].term <= n.term
                                /\ l > 1 => s[l-1].term <= s[l].term,
           NEW X \in Seq(Entry), Shaped(n, m, X)
    PROVE  \A l \in 1..Len(X) : /\ X[l].term # 0 /\ X[l].term <= t
                                /\ l > 1 => X[l-1].term <= X[l].term
<1> USE SMTT(60)
<1> DEFINE p == m.prevIndex
           E == m.entries
<1>1. s \in Seq(Entry) /\ Len(s) \in Nat /\ n.term \in Nat /\ Len(X) \in Nat
    BY CoreTypes, SeqTypes
<1>2. p \in Nat /\ E \in Seq(Entry)
    BY Zenon DEF AppendRequests
<1>3. Len(E) \in Nat /\ DOMAIN E = 1..Len(E)
    BY <1>2, SeqTypes, Zenon
<1>4. /\ p <= Len(s) /\ p + Len(E) <= Len(X)
      /\ \A l \in 1..p : X[l] = s[l]
      /\ \A k \in 1..Len(E) : X[p + k] = E[k]
      /\ X = s \/ Len(X) = p + Len(E)
    BY Zenon DEF Shaped
<1>5. TermAt(s, p) = m.prevTerm
    BY Zenon DEF Shaped
<1>6. \A k \in 1..Len(E) : /\ E[k].term # 0 /\ E[k].term <= t
                           /\ E[k].term >= (IF k = 1 THEN m.prevTerm ELSE E[k-1].term)
    <2>1. IsAppend(m)
        BY DEF AppendRequests, IsAppend
    <2> QED BY <1>3, <2>1, ShapeCases, Zenon
<1>7. /\ \A l \in 1..Len(s) : s[l].term \in Nat
      /\ \A k \in 1..Len(E) : E[k].term \in Nat
    BY <1>1, <1>2, EntryAt, Zenon
<1> HIDE DEF p, E
<1>8. CASE X = s
    BY <1>1, <1>7, <1>8
<1>9. CASE Len(X) = p + Len(E)
    <2> SUFFICES ASSUME NEW l \in 1..Len(X)
                 PROVE  /\ X[l].term # 0 /\ X[l].term <= t
                        /\ l > 1 => X[l-1].term <= X[l].term
        OBVIOUS
    <2>1. l \in Nat /\ l >= 1 /\ l <= p + Len(E)
        BY <1>1, <1>9
    <2>2. CASE l <= p
        <3>1. l \in 1..p /\ l \in 1..Len(s) /\ (l > 1 => l - 1 \in 1..p)
            BY <1>1, <1>2, <1>4, <2>1, <2>2
        <3>2. X[l] = s[l] /\ (l > 1 => X[l-1] = s[l-1])
            BY <1>4, <3>1, Zenon
        <3> QED BY <1>1, <1>7, <3>1, <3>2
    <2>3. CASE ~(l <= p)
        <3> DEFINE k == l - p
        <3>1. k \in 1..Len(E) /\ p + k = l
            BY <1>2, <1>3, <2>1, <2>3
        <3>2. X[l] = E[k]
            BY <1>4, <3>1, Zenon
        <3>3. CASE k = 1
            <4>1. l - 1 = p /\ (l > 1 => p \in 1..p /\ p # 0)
                BY <1>2, <2>1, <3>1, <3>3
            <4>2. l > 1 => X[l-1] = s[p] /\ s[p].term = m.prevTerm
                BY <1>4, <1>5, <4>1, Zenon DEF TermAt
            <4>3. E[k].term >= m.prevTerm
                BY <1>6, <3>1, <3>3
            <4>4. l > 1 => s[p].term \in Nat
                <5>1. l > 1 => p \in 1..Len(s)
                    BY <1>1, <1>2, <1>4, <4>1
                <5> QED BY <5>1, <1>7, Zenon
            <4> HIDE DEF k
            <4> QED BY <1>6, <1>7, <3>1, <3>2, <4>2, <4>3, <4>4, Zenon
        <3>4. CASE k # 1
            <4>1. k - 1 \in 1..Len(E) /\ p + (k - 1) = l - 1
                BY <1>2, <1>3, <3>1, <3>4
            <4>2. X[l-1] = E[k-1]
                BY <1>4, <4>1, Zenon
            <4>3. E[k].term >= E[k-1].term
                BY <1>6, <3>1, <3>4, Zenon
            <4> HIDE DEF k
            <4> QED BY <1>6, <1>7, <3>1, <3>2, <4>1, <4>2, <4>3, Zenon
        <3> QED BY <3>3, <3>4, Zenon
    <2> QED BY <2>2, <2>3, Zenon
<1> QED BY <1>4, <1>8, <1>9, Zenon

\* A call on a valid core with RPCs of valid shape ends in a snapshot that
\* validate accepts, as long as the log keeps its capacity.
LEMMA CallValid ==
    ASSUME NEW n, CoreInv(n), ValidSnapshot(Snapshot(n)), NEW i \in Server,
           NEW r, NEW R \in SUBSET Message, NEW W,
           Contract(n, i, r, W), LogContract(n, i, r, R),
           \A m \in R : ValidShape(m),
           r.n.log = n.log \/ (Len(r.n.log) <= MaxLog /\ \E m \in R : Took(n, r, m))
    PROVE  ValidSnapshot(Snapshot(r.n))
<1> USE SMTT(60)
<1> DEFINE g == r.n
           s == n.log
           X == g.log
<1>1. CoreInv(g) /\ n.term <= g.term
    BY Zenon DEF Contract
<1>2. /\ n.term \in Nat /\ g.term \in Nat /\ s \in Seq(Entry) /\ X \in Seq(Entry)
      /\ Len(s) \in Nat /\ Len(X) \in Nat /\ DOMAIN s = 1..Len(s) /\ DOMAIN X = 1..Len(X)
      /\ g.commit <= Len(X)
    BY <1>1, CoreTypes, SeqTypes, Zenon
<1>3. /\ Len(s) <= MaxLog /\ (n.term = 0 => n.vote = None)
      /\ \A l \in 1..Len(s) : /\ s[l].term # 0 /\ s[l].term <= n.term
                              /\ l > 1 => s[l-1].term <= s[l].term
    BY <1>2, Zenon DEF ValidSnapshot, Snapshot
<1>4. g.term = 0 => g.vote = None
    <2>1. \A m \in R : IsRequest(m) => m.term # 0
        BY ShapeCases, Zenon
    <2> QED BY <1>1, <1>2, <1>3, <2>1 DEF LogContract, VoteContract
<1>5. /\ Len(X) <= MaxLog
      /\ \A l \in 1..Len(X) : /\ X[l].term # 0 /\ X[l].term <= g.term
                              /\ l > 1 => X[l-1].term <= X[l].term
    <2>1. CASE X = s
        <3>1. \A l \in 1..Len(s) : s[l].term \in Nat
            BY <1>2, EntryAt, Zenon
        <3> HIDE DEF s, X, g
        <3>2. n.term \in Nat /\ g.term \in Nat /\ n.term <= g.term
            BY <1>1, <1>2, Zenon
        <3>3. \A a \in Nat : a <= n.term => a <= g.term
            BY <3>2
        <3>4. \A l \in 1..Len(s) : s[l].term <= g.term
            BY <1>3, <3>1, <3>3, Zenon
        <3> QED BY <1>3, <2>1, <3>4, Zenon
    <2>2. CASE Len(X) <= MaxLog /\ \E m \in R : Took(n, r, m)
        <3>1. PICK m \in R : Took(n, r, m)
            BY <2>2
        <3>2. /\ IsAppend(m) /\ m.term = g.term /\ Shaped(n, m, X)
            BY <3>1, Zenon DEF Took
        <3>3. m \in AppendRequests /\ ValidShape(m)
            BY <3>2, MessageTypes, Zenon
        <3> HIDE DEF s, X, g
        <3> QED BY <1>1, <1>2, <1>3, <2>2, <3>2, <3>3, AppendedValid, Zenon DEF s
    <2> QED BY <2>1, <2>2, Zenon
<1> QED BY <1>2, <1>4, <1>5 DEF ValidSnapshot, Snapshot

\* validate checks neighbours; the terms of a whole log are in order.
LEMMA ValidOrdered ==
    ASSUME NEW s \in Saved, ValidSnapshot(s)
    PROVE  Ordered(s.log, s.term)
<1> USE SMTT(60)
<1> DEFINE g == s.log
<1>1. g \in Seq(Entry) /\ Len(g) \in Nat /\ DOMAIN g = 1..Len(g)
    BY SeqTypes, Zenon DEF Saved
<1>2. \A k \in 1..Len(g) : g[k].term \in Nat
    BY <1>1, EntryAt, Zenon
<1>3. \A k \in 1..Len(g) : /\ g[k].term # 0 /\ g[k].term <= s.term
                           /\ k > 1 => g[k-1].term <= g[k].term
    BY <1>1 DEF ValidSnapshot
<1> HIDE DEF g
<1>4. ASSUME NEW k \in 1..Len(g), NEW l \in 1..k, ~(g[l].term <= g[k].term) PROVE FALSE
    <2> DEFINE Bad == {j \in l..k : ~(g[l].term <= g[j].term)}
    <2>0. k \in Nat /\ l \in Nat /\ l >= 1 /\ l <= k /\ k <= Len(g)
        BY <1>1
    <2>1. Bad \subseteq Nat /\ k \in Bad
        BY <1>4, <2>0
    <2>2. PICK j \in Bad : \A h \in Bad : j <= h
        <3> HIDE DEF Bad
        <3>1. Bad # {}
            BY <2>1, Zenon
        <3> QED BY <2>1, <3>1, LeastElement, Zenon
    <2>3. j \in Nat /\ j >= l /\ j <= k /\ ~(g[l].term <= g[j].term)
        BY <2>0, <2>2
    <2>4. l \in 1..Len(g) /\ j \in 1..Len(g)
        BY <2>0, <2>3, <1>1
    <2>5. j # l
        BY <2>3, <2>4, <1>2
    <2>6. j - 1 \in l..k /\ j - 1 \in 1..Len(g) /\ ~(j <= j - 1) /\ j > 1
        BY <2>0, <2>3, <2>5, <1>1
    <2>7. g[l].term <= g[j-1].term
        BY <2>2, <2>6, Zenon
    <2>8. g[j-1].term <= g[j].term
        BY <2>4, <2>6, <1>3, Zenon
    <2> QED BY <2>3, <2>4, <2>6, <2>7, <2>8, <1>2
<1> QED BY <1>3, <1>4 DEF Ordered, g
=============================================================================
