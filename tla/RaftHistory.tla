---------------------------- MODULE RaftHistory ----------------------------
(***************************************************************************)
(* What the logs of a Raft group keep, stated with a history of the group: *)
(*                                                                         *)
(*   H[t]     the log of the leader of term t, as long as it ever was      *)
(*   L[t]     the member that won term t, None while nobody has            *)
(*   V[v][t]  the vote member v put on disk in term t, None without one    *)
(*   A[p][t]  how much of H[t] member p held on disk in term t             *)
(*                                                                         *)
(* The code keeps no such history.  LogInv (RaftInv) says that one exists, *)
(* and the proofs extend it call by call.  The operators take the          *)
(* variables of the group as parameters (nd, u, d, ms for node, up, disk,  *)
(* msgs), so that they also speak of the state a failed publication left   *)
(* out.                                                                    *)
(***************************************************************************)
EXTENDS RaftTypes

\* Two logs hold the same entries up to index k.
Agree(s, t, k) == k <= Len(s) /\ k <= Len(t) /\ \A l \in 1..k : s[l] = t[l]

\* Every entry of a log, with all entries before it, is in the log of the
\* leader of its term.
Traced(H, s) == \A k \in 1..Len(s) : Agree(s, H[s[k].term], k)

\* The terms of a log never decrease and none is 0 or beyond t.
Ordered(s, t) ==
    \A k \in 1..Len(s) :
        /\ s[k].term # 0 /\ s[k].term <= t
        /\ \A l \in 1..k : s[l].term <= s[k].term

\* An append request carries a stretch of the log s.
Stretch(m, s) ==
    /\ m.prevIndex + Len(m.entries) <= Len(s)
    /\ m.prevTerm = TermAt(s, m.prevIndex)
    /\ \A k \in 1..Len(m.entries) : m.entries[k] = s[m.prevIndex + k]

\* A candidate with the log s passes the check of a voter whose last entry has
\* term t and index k.
UpToDate(s, t, k) ==
    LET last == TermAt(s, Len(s)) IN last > t \/ (last = t /\ Len(s) >= k)

IsAck(m) == m.type = "AppendEntriesResp" /\ m.success

IsRequest(m) == m.type = "RequestVote"

\* Any two majorities have a member in common.
MajoritiesMeet ==
    \A P, Q \in SUBSET Server :
        Cardinality(P) >= QuorumSize /\ Cardinality(Q) >= QuorumSize => P \cap Q # {}

\* A majority still may, or does, hold H[t] up to k in term t.
Choosable(A, d, t, k) ==
    \E Q \in SUBSET Server :
        /\ Cardinality(Q) >= QuorumSize
        /\ \A q \in Q : k <= A[q][t] \/ d[q].term <= t

\* A majority held H[t] up to k in term t.
Chosen(A, t, k) ==
    \E Q \in SUBSET Server :
        Cardinality(Q) >= QuorumSize /\ \A q \in Q : k <= A[q][t]

\* Entry k of H[t] is one its own leader may commit by counting.
Pending(H, A, d, t, k) ==
    k \in 1..Len(H[t]) /\ H[t][k].term = t /\ Choosable(A, d, t, k)

\* The first c entries of s were committed in some term up to t.
Decided(H, A, s, t, c) ==
    c = 0 \/ \E b \in Term : \E k \in 1..Len(H[b]) :
                /\ b <= t /\ c <= k
                /\ H[b][k].term = b /\ Chosen(A, b, k)
                /\ Agree(s, H[b], c)

-----------------------------------------------------------------------------
(* What the history records, and what it entails *)

HistoryTypes(H, L, V, A) ==
    /\ H \in [Term -> Seq(Entry)]
    /\ L \in [Term -> Server \cup {None}]
    /\ V \in [Server -> [Term -> Server \cup {None}]]
    /\ A \in [Server -> [Term -> Nat]]

\* Votes: on disk while their term lasts, for members that reached that term;
\* a vote that left its voter or was counted is one of them.
VotesRecorded(V, nd, u, d, ms) ==
    /\ \A v \in Server : \A t \in Term : V[v][t] # None =>
          /\ d[v].term > t \/ (d[v].term = t /\ d[v].vote = V[v][t])
          /\ d[V[v][t]].term >= t
    /\ \A v \in Server : d[v].vote # None => V[v][d[v].term] = d[v].vote
    /\ \A m \in ms : IsVote(m) => V[m.from][m.term] = m.to
    /\ \A i \in Server : u[i] /\ nd[i].role # Follower =>
          /\ V[i][nd[i].term] = i
          /\ \A v \in nd[i].votes : V[v][nd[i].term] = i

\* Leaders: elected by a majority of recorded votes, once; H is their log.
LeadersRecorded(H, L, V, nd, u) ==
    /\ \A t \in Term :
          IF L[t] = None THEN H[t] = <<>>
          ELSE \E Q \in SUBSET Server :
                  Cardinality(Q) >= QuorumSize /\ \A q \in Q : V[q][t] = L[t]
    /\ \A i \in Server : u[i] /\ nd[i].role = Leader =>
          L[nd[i].term] = i /\ H[nd[i].term] = nd[i].log
    /\ \A i \in Server : u[i] /\ nd[i].role = Candidate => L[nd[i].term] # i

\* Logs: every log on disk and every leader's log is made of leaders' entries.
LogsRecorded(H, d) ==
    /\ \A i \in Server : Traced(H, d[i].log) /\ Ordered(d[i].log, d[i].term)
    /\ \A t \in Term : Traced(H, H[t]) /\ Ordered(H[t], t)

\* Requests: appends carry stretches of the leader's log, vote requests the
\* end of the candidate's.
RequestsRecorded(H, L, nd, u, d, ms) ==
    \A m \in ms :
        /\ m.term <= d[m.from].term
        /\ IsAppend(m) => L[m.term] # None /\ Stretch(m, H[m.term])
        /\ IsRequest(m) /\ u[m.from] /\ nd[m.from].role = Candidate
                /\ nd[m.from].term = m.term =>
              /\ m.lastIndex = LastIndex(nd[m.from])
              /\ m.lastTerm = LastTerm(nd[m.from])

\* Acknowledgements: a member holds what it acknowledged for as long as it
\* stays in the term, and a leader counts no more than that.
AcksRecorded(H, A, nd, u, d, ms) ==
    /\ \A p \in Server : \A t \in Term :
          A[p][t] <= Len(H[t]) /\ (A[p][t] # 0 => t <= d[p].term)
    /\ \A p \in Server : Agree(d[p].log, H[d[p].term], A[p][d[p].term])
    /\ \A m \in ms : IsAck(m) => m.match <= A[m.from][m.term]
    /\ \A i \in Server : u[i] /\ nd[i].role = Leader =>
          /\ Len(nd[i].log) <= A[i][nd[i].term]
          /\ \A p \in Peers(i) : nd[i].match[p] <= A[p][nd[i].term]

\* What was acknowledged and may be committed stays on disk in later terms.
AcksKept(H, A, d) ==
    \A p \in Server : \A t \in Term : \A k \in 1..A[p][t] :
        Pending(H, A, d, t, k) => Agree(d[p].log, H[t], k)

\* A candidate passed the check of its voters, for all they acknowledged.
VotersOutdone(H, V, A, nd, u, d) ==
    \A i \in Server : u[i] /\ nd[i].role = Candidate =>
        \A v \in Server : V[v][nd[i].term] = i =>
            \A t \in Term : t < nd[i].term =>
                \A k \in 1..A[v][t] :
                    Pending(H, A, d, t, k) => UpToDate(nd[i].log, t, k)

\* A leader of a later term holds every entry that may be committed.
LeadersComplete(H, L, A, d) ==
    \A t, b \in Term : t < b /\ L[b] # None =>
        \A k \in 1..Len(H[t]) : Pending(H, A, d, t, k) => Agree(H[b], H[t], k)

\* Commit indexes, on disk and in requests, cover only what was chosen.
CommitsDecided(H, A, d, ms) ==
    /\ \A i \in Server : Decided(H, A, d[i].log, d[i].term, d[i].commit)
    /\ \A m \in ms : IsAppend(m) => Decided(H, A, H[m.term], m.term, m.commit)

Recorded(H, L, V, A, nd, u, d, ms) ==
    /\ HistoryTypes(H, L, V, A)
    /\ VotesRecorded(V, nd, u, d, ms)
    /\ LeadersRecorded(H, L, V, nd, u)
    /\ LogsRecorded(H, d)
    /\ RequestsRecorded(H, L, nd, u, d, ms)
    /\ AcksRecorded(H, A, nd, u, d, ms)
    /\ AcksKept(H, A, d)
    /\ VotersOutdone(H, V, A, nd, u, d)
    /\ LeadersComplete(H, L, A, d)
    /\ CommitsDecided(H, A, d, ms)

-----------------------------------------------------------------------------
(* The history after a call of member i that left the core n and took      *)
(* entries up to index k into the log                                      *)

NextH(H, n) == IF n.role = Leader THEN [H EXCEPT ![n.term] = n.log] ELSE H

NextL(L, i, n) == IF n.role = Leader THEN [L EXCEPT ![n.term] = i] ELSE L

NextV(V, i, n) == [V EXCEPT ![i][n.term] = n.vote]

NextA(A, i, n, k) ==
    [A EXCEPT ![i][n.term] =
        Larger(@, IF n.role = Leader THEN Len(n.log) ELSE k)]

-----------------------------------------------------------------------------
(* What a call does to the core n of member i.  r is what it leaves: the   *)
(* core r.n and the queued RPCs r.out                                      *)

\* Terms, votes, roles and committed entries.  V are the members whose vote the
\* call may count.
Contract(n, i, r, V) ==
    /\ CoreInv(r.n)
    /\ r.out \subseteq Message
    /\ \A m \in r.out :
          /\ m.from = i /\ m.term = r.n.term
          /\ IsVote(m) => m.to = r.n.vote
          /\ IsAppend(m) => r.n.role = Leader
    /\ n.term <= r.n.term
    /\ n.term = r.n.term => n.vote \in {None, r.n.vote}
    /\ n.commit <= r.n.commit
    /\ Prefix(r.n.log, n.commit) = Prefix(n.log, n.commit)
    /\ r.n.role # Follower =>
          \/ n.role # Follower /\ r.n.term = n.term /\ r.n.votes \subseteq n.votes \cup V
          \/ r.n.term > n.term /\ r.n.vote = i /\ r.n.votes \subseteq {i}

-----------------------------------------------------------------------------
(* What a call does to the log, the vote and the commit index of member i, *)
(* and what the RPCs it queues say of them.  R is the RPC it received.     *)

\* append_plan and the truncation after it, entry by entry: the log ends with
\* the batch unless nothing changed, and a local prefix whose terms the batch
\* does not contradict stays.
Shaped(n, m, X) ==
    /\ m.prevIndex <= Len(n.log) /\ m.prevIndex + Len(m.entries) <= Len(X)
    /\ TermAt(n.log, m.prevIndex) = m.prevTerm
    /\ \A l \in 1..m.prevIndex : X[l] = n.log[l]
    /\ \A k \in 1..Len(m.entries) : X[m.prevIndex + k] = m.entries[k]
    /\ X = n.log \/ Len(X) = m.prevIndex + Len(m.entries)
    /\ \A l \in 1..Len(n.log) :
          (\A k \in 1..Len(m.entries) :
              m.prevIndex + k <= l => n.log[m.prevIndex + k].term = m.entries[k].term)
          => l <= Len(X) /\ \A j \in 1..l : X[j] = n.log[j]

\* The call took the entries of m into the log.
Took(n, r, m) ==
    /\ IsAppend(m) /\ m.term = r.n.term
    /\ r.n.role = Follower
    /\ Shaped(n, m, r.n.log)

\* A candidate that sent m passes the check of a voter with core n.
Passes(m, n) ==
    \/ m.lastTerm > LastTerm(n)
    \/ m.lastTerm = LastTerm(n) /\ m.lastIndex >= LastIndex(n)

VoteContract(n, i, r, R) ==
    \/ r.n.vote = None
    \/ r.n.vote = n.vote /\ r.n.term = n.term
    \/ r.n.vote = i /\ r.n.role # Follower /\ r.n.term > n.term
    \/ \E m \in R : IsRequest(m) /\ m.from = r.n.vote /\ m.term = r.n.term /\ Passes(m, n)

GrowContract(n, i, r, R) ==
    \/ r.n.log = n.log
    \/ /\ R = {} /\ r.n.role = Leader /\ n.role = Leader
       /\ \E e \in Entry : e.term = n.term /\ r.n.log = Append(n.log, e)
    \/ \E m \in R : Took(n, r, m)

CommitContract(n, i, r, R) ==
    \/ r.n.commit = n.commit
    \/ /\ r.n.role = Leader /\ n.role = Leader
       /\ r.n.commit # 0 /\ TermAt(r.n.log, r.n.commit) = r.n.term
       /\ Cardinality(Holding(r.n, i, r.n.commit)) >= QuorumSize
    \/ \E m \in R : /\ Took(n, r, m)
                    /\ r.n.commit <= m.commit
                    /\ r.n.commit <= m.prevIndex + Len(m.entries)

MatchContract(n, i, r, R) ==
    r.n.role = Leader => \A p \in Peers(i) :
        \/ r.n.match[p] = 0
        \/ n.role = Leader /\ r.n.match[p] = n.match[p]
        \/ \E m \in R : IsAck(m) /\ m.from = p /\ m.term = r.n.term /\ m.match = r.n.match[p]

RoleContract(n, i, r, R) ==
    /\ r.n.role = Candidate => r.n.term > n.term \/ (n.role = Candidate /\ r.n.term = n.term)
    /\ r.n.role = Leader /\ n.role = Leader => r.n.term = n.term
    /\ r.n.hint # None =>
          \/ r.n.role = Leader /\ r.n.hint = i
          \/ r.n.hint = n.hint /\ r.n.term = n.term /\ (n.role = Leader => r.n.role = Leader)
          \/ \E m \in R : IsAppend(m) /\ m.from = r.n.hint /\ m.term = r.n.term

OutContract(n, i, r, R) ==
    \A m \in r.out :
        /\ IsAppend(m) => Stretch(m, r.n.log) /\ m.commit = r.n.commit
        /\ IsRequest(m) => /\ r.n.term > n.term
                           /\ m.lastIndex = LastIndex(r.n) /\ m.lastTerm = LastTerm(r.n)
        /\ IsAck(m) => \E k \in R : Took(n, r, k) /\ m.match = k.prevIndex + Len(k.entries)

LogContract(n, i, r, R) ==
    /\ VoteContract(n, i, r, R)
    /\ GrowContract(n, i, r, R)
    /\ CommitContract(n, i, r, R)
    /\ MatchContract(n, i, r, R)
    /\ RoleContract(n, i, r, R)
    /\ OutContract(n, i, r, R)
=============================================================================
