------------------------- MODULE RaftHistoryProofs --------------------------
(***************************************************************************)
(* How one call of a member extends the history of its group               *)
(* (RaftHistory): the votes and leaders that the extended history records  *)
(* are those of the state after the call.  RaftCommitProofs shows it for   *)
(* logs, requests, acknowledgements and committed entries.                 *)
(***************************************************************************)
EXTENDS RaftHistory, TLAPS

-----------------------------------------------------------------------------
(* Types of cores, entries and RPCs *)

\* The length and the elements of a sequence.
LEMMA SeqTypes ==
    ASSUME NEW S, NEW s \in Seq(S)
    PROVE  /\ Len(s) \in Nat /\ s \in [1..Len(s) -> S] /\ DOMAIN s = 1..Len(s)
           /\ \A k \in 1..Len(s) : s[k] \in S
OBVIOUS

\* A sequence with one more element.
LEMMA SeqAppended ==
    ASSUME NEW S, NEW s \in Seq(S), NEW e \in S
    PROVE  /\ Len(Append(s, e)) = Len(s) + 1 /\ Append(s, e)[Len(s) + 1] = e
           /\ \A k \in 1..Len(s) : Append(s, e)[k] = s[k]
OBVIOUS

\* The empty sequence has no element.
LEMMA SeqEmpty == Len(<<>>) = 0
OBVIOUS

\* A slice of a sequence inside its bounds.
LEMMA SliceOK ==
    ASSUME NEW S, NEW s \in Seq(S), NEW a \in Nat, NEW b \in Nat, a >= 1, b <= Len(s)
    PROVE  /\ SubSeq(s, a, b) \in Seq(S)
           /\ Len(SubSeq(s, a, b)) = IF a <= b THEN b - a + 1 ELSE 0
           /\ \A k \in 1..(b - a + 1) : SubSeq(s, a, b)[k] = s[a + k - 1]
OBVIOUS

\* A term read inside the log is a term.
LEMMA TermAtOK ==
    ASSUME NEW s \in Seq(Entry), NEW k \in 0..Len(s)
    PROVE  TermAt(s, k) \in Term
<1>1. 0 \in Term
    BY RaftConstants DEF Term
<1>2. k # 0 => s[k] \in Entry
    BY SeqTypes
<1> QED BY <1>1, <1>2, Zenon DEF TermAt, Entry

\* The types of a sound core's fields.
LEMMA CoreTypes ==
    ASSUME NEW n, CoreInv(n)
    PROVE  /\ n \in Core
           /\ n.term \in Term /\ n.term \in Nat /\ n.term <= MaxTerm
           /\ n.vote \in Server \cup {None} /\ n.hint \in Server \cup {None}
           /\ n.log \in Seq(Entry) /\ Len(n.log) \in Nat
           /\ n.commit \in Nat /\ n.commit <= Len(n.log)
           /\ n.applied \in Seq(Entry) /\ n.applied = Prefix(n.log, n.commit)
           /\ n.role \in {Follower, Candidate, Leader}
           /\ n.votes \in SUBSET Server
           /\ n.next \in [Server -> Nat] /\ n.match \in [Server -> Nat]
           /\ n.sent \in [Server -> Nat]
<1>1. n \in Core
    BY Zenon DEF CoreInv
<1>2. n.term \in Term /\ n.log \in Seq(Entry)
    BY <1>1, Zenon DEF Core
<1>3. n.term \in Nat /\ n.term <= MaxTerm
    BY <1>2, RaftConstants DEF Term
<1>4. Len(n.log) \in Nat
    BY <1>2, SeqTypes, Zenon
<1> QED BY <1>1, <1>2, <1>3, <1>4, Zenon DEF CoreInv, Core

\* Snapshots of a sound core, and of the core a call leaves.
LEMMA SnapshotOK ==
    ASSUME NEW n, CoreInv(n)
    PROVE  /\ Snapshot(n) \in Saved
           /\ Snapshot(n).commit <= Len(Snapshot(n).log)
BY CoreTypes, Zenon DEF Snapshot, Saved

\* The types of an entry of a log.
LEMMA EntryAt ==
    ASSUME NEW s \in Seq(Entry), NEW k \in 1..Len(s)
    PROVE  /\ s[k].term \in Term /\ s[k].term \in Nat
           /\ k \in Nat /\ k >= 1 /\ k <= Len(s) /\ Len(s) \in Nat
<1>1. Len(s) \in Nat /\ s[k] \in Entry
    BY SeqTypes, Zenon
<1>2. s[k].term \in Term
    BY <1>1, Zenon DEF Entry
<1> QED BY <1>1, <1>2, RaftConstants DEF Term

\* The types of an RPC's fields.
LEMMA MessageTypes ==
    ASSUME NEW m \in Message
    PROVE  /\ m.from \in Server /\ m.to \in Server /\ m.term \in Term /\ m.term \in Nat
           /\ IsAppend(m) => m \in AppendRequests
           /\ IsAck(m) => m \in AppendReplies
           /\ IsRequest(m) => m \in VoteRequests
<1> USE SMTT(60)
<1>1. m.from \in Server /\ m.to \in Server /\ m.term \in Term
    BY Zenon DEF Message, VoteRequests, VoteReplies, AppendRequests, AppendReplies
<1>2. m.term \in Nat
    BY <1>1, RaftConstants DEF Term
<1>3. /\ m \in VoteRequests => m.type = "RequestVote"
      /\ m \in VoteReplies => m.type = "RequestVoteResp"
      /\ m \in AppendRequests => m.type = "AppendEntries"
      /\ m \in AppendReplies => m.type = "AppendEntriesResp"
    BY Zenon DEF VoteRequests, VoteReplies, AppendRequests, AppendReplies
<1> QED BY <1>1, <1>2, <1>3, Zenon DEF Message, IsAppend, IsAck, IsRequest

-----------------------------------------------------------------------------
(* Logs that agree up to an index *)

\* A log agrees with itself.
LEMMA AgreeSelf ==
    ASSUME NEW s, NEW k, k <= Len(s)
    PROVE  Agree(s, s, k)
BY Zenon DEF Agree

\* Agreement is symmetric.
LEMMA AgreeSym ==
    ASSUME NEW s, NEW t, NEW k, Agree(s, t, k)
    PROVE  Agree(t, s, k)
BY Zenon DEF Agree

\* Agreement is transitive.
LEMMA AgreeTrans ==
    ASSUME NEW s, NEW t, NEW v, NEW k, Agree(s, t, k), Agree(t, v, k)
    PROVE  Agree(s, v, k)
BY Zenon DEF Agree

\* Logs that agree up to an index agree up to a smaller one.
LEMMA AgreeLess ==
    ASSUME NEW s \in Seq(Entry), NEW t \in Seq(Entry), NEW k \in Nat, NEW l \in Nat,
           l <= k, Agree(s, t, k)
    PROVE  Agree(s, t, l)
<1>1. Len(s) \in Nat /\ Len(t) \in Nat
    BY SeqTypes, Zenon
<1> QED BY <1>1 DEF Agree

\* Equal prefixes agree.
LEMMA PrefixAgree ==
    ASSUME NEW s \in Seq(Entry), NEW t \in Seq(Entry), NEW k \in Nat,
           k <= Len(s), k <= Len(t), Prefix(s, k) = Prefix(t, k)
    PROVE  Agree(s, t, k)
<1>1. /\ \A l \in 1..k : Prefix(s, k)[l] = s[l]
      /\ \A l \in 1..k : Prefix(t, k)[l] = t[l]
    BY SliceOK DEF Prefix
<1> QED BY <1>1, Zenon DEF Agree

\* A log that agrees with the whole of a shorter one agrees with what that
\* agrees with.
LEMMA AgreeGrown ==
    ASSUME NEW s \in Seq(Entry), NEW t \in Seq(Entry), NEW v \in Seq(Entry), NEW k \in Nat,
           Agree(s, t, k), Agree(t, v, Len(t))
    PROVE  Agree(s, v, k)
<1>1. Len(t) \in Nat /\ k <= Len(t)
    BY SeqTypes, Zenon DEF Agree
<1>2. Agree(t, v, k)
    BY <1>1, AgreeLess, Zenon
<1> QED BY <1>2, AgreeTrans, Zenon

\* A log stays traced when the logs of the leaders grow.
LEMMA TracedGrown ==
    ASSUME NEW H \in [Term -> Seq(Entry)], NEW G \in [Term -> Seq(Entry)],
           \A t \in Term : Agree(H[t], G[t], Len(H[t])),
           NEW s \in Seq(Entry), Traced(H, s)
    PROVE  Traced(G, s)
<1> USE SMTT(60)
<1> SUFFICES ASSUME NEW k \in 1..Len(s) PROVE Agree(s, G[s[k].term], k)
    BY Zenon DEF Traced
<1>1. s[k].term \in Term /\ k \in Nat
    BY EntryAt, Zenon
<1>2. Agree(s, H[s[k].term], k)
    BY Zenon DEF Traced
<1>3. H[s[k].term] \in Seq(Entry) /\ G[s[k].term] \in Seq(Entry)
    BY <1>1, Zenon
<1> QED BY <1>1, <1>2, <1>3, AgreeGrown, Zenon

\* A log that agrees with H up to an entry of term t, and ends there or later,
\* ends in term t or a later one.
LEMMA OrderedEnd ==
    ASSUME NEW s \in Seq(Entry), NEW T, Ordered(s, T), NEW k \in 1..Len(s)
    PROVE  s[k].term <= TermAt(s, Len(s))
<1> USE SMTT(60)
<1>1. Len(s) \in Nat /\ Len(s) \in 1..Len(s) /\ k \in 1..Len(s) /\ Len(s) # 0
    BY SeqTypes
<1> QED BY <1>1, Zenon DEF Ordered, TermAt

-----------------------------------------------------------------------------
(* One call of member i and its publication *)

\* What RaftProofs shows of the group, of the variables as parameters.
Sound(nd, u, d, ms) ==
    /\ nd \in [Server -> Core] /\ u \in [Server -> BOOLEAN] /\ d \in [Server -> Saved]
    /\ ms \subseteq Message /\ MajoritiesMeet
    /\ \A j \in Server : CoreInv(nd[j])
    /\ \A j \in Server : u[j] => Snapshot(nd[j]) = d[j]
    /\ \A j \in Server : d[j].commit <= Len(d[j].log)

\* A call that received R, left r, and took entries up to index K.
Call(nd, u, d, ms, i, r, R, K) ==
    /\ Sound(nd, u, d, ms) /\ u[i]
    /\ \E W \in SUBSET Server :
          /\ Contract(nd[i], i, r, W)
          /\ \A v \in W : \E m \in ms :
                IsVote(m) /\ m.from = v /\ m.to = i /\ m.term = nd[i].term
    /\ LogContract(nd[i], i, r, R) /\ R \subseteq ms
    /\ Ordered(r.n.log, r.n.term)
    /\ K \in Nat
    /\ K = 0 \/ \E m \in R : Took(nd[i], r, m) /\ K = m.prevIndex + Len(m.entries)
    /\ \A m \in r.out : IsAck(m) => m.match <= K

\* A batch that was taken is a stretch of its leader's log: the log agrees with
\* the leader's up to its end, and what agreed before stays (step_append).
LEMMA TookOK ==
    ASSUME NEW H, NEW n, CoreInv(n), NEW r, NEW m \in AppendRequests, Took(n, r, m),
           NEW F \in Seq(Entry), F = H[r.n.term], Stretch(m, F),
           Traced(H, n.log), Traced(H, F)
    PROVE  /\ m.prevIndex + Len(m.entries) \in Nat
           /\ m.prevIndex + Len(m.entries) <= Len(F)
           /\ Agree(r.n.log, F, m.prevIndex + Len(m.entries))
           /\ r.n.log = n.log \/ Len(r.n.log) = m.prevIndex + Len(m.entries)
           /\ \A l \in 1..Len(n.log) : Agree(n.log, F, l) => Agree(n.log, r.n.log, l)
<1> USE SMTT(60)
<1> DEFINE p == m.prevIndex
           E == m.entries
           s == r.n.log
<1>1. /\ p \in Nat /\ Len(E) \in Nat /\ n.log \in Seq(Entry)
      /\ Len(n.log) \in Nat /\ Len(F) \in Nat
    BY CoreTypes, SeqTypes, Zenon DEF AppendRequests
<1>2. /\ p + Len(E) <= Len(F) /\ m.prevTerm = TermAt(F, p)
      /\ \A k \in 1..Len(E) : E[k] = F[p + k]
    BY Zenon DEF Stretch
<1>3. /\ p <= Len(n.log) /\ p + Len(E) <= Len(s) /\ TermAt(n.log, p) = m.prevTerm
      /\ \A l \in 1..p : s[l] = n.log[l]
      /\ \A k \in 1..Len(E) : s[p + k] = E[k]
      /\ s = n.log \/ Len(s) = p + Len(E)
      /\ \A l \in 1..Len(n.log) :
            (\A k \in 1..Len(E) : p + k <= l => n.log[p + k].term = E[k].term)
            => l <= Len(s) /\ \A j \in 1..l : s[j] = n.log[j]
    <2>1. Shaped(n, m, s)
        BY Zenon DEF Took
    <2> QED BY <2>1, Zenon DEF Shaped
<1>4. TermAt(n.log, p) = TermAt(F, p)
    BY <1>2, <1>3, Zenon
<1>5. p <= Len(F)
    BY <1>1, <1>2
<1> HIDE DEF p, E, s
<1>6. Agree(n.log, F, p)
    <2>1. CASE p = 0
        BY <2>1, <1>3, <1>5 DEF Agree
    <2>2. CASE p # 0
        <3>1. p \in 1..Len(n.log) /\ p \in 1..Len(F) /\ n.log[p].term = F[p].term
            BY <2>2, <1>1, <1>3, <1>4, <1>5 DEF TermAt
        <3>2. Agree(n.log, H[n.log[p].term], p) /\ Agree(F, H[F[p].term], p)
            BY <3>1, Zenon DEF Traced
        <3>3. Agree(H[F[p].term], F, p)
            BY <3>2, AgreeSym, Zenon
        <3>4. Agree(n.log, H[F[p].term], p)
            BY <3>1, <3>2, Zenon
        <3> QED BY <3>3, <3>4, AgreeTrans, Zenon
    <2> QED BY <2>1, <2>2, Zenon
<1>7. Agree(s, F, p + Len(E))
    <2>1. ASSUME NEW l \in 1..(p + Len(E)) PROVE s[l] = F[l]
        <3>1. CASE l <= p
            <4>1. l \in 1..p
                BY <3>1, <1>1
            <4> QED BY <4>1, <1>3, <1>6, Zenon DEF Agree
        <3>2. CASE ~(l <= p)
            <4>1. l - p \in 1..Len(E) /\ p + (l - p) = l
                BY <3>2, <1>1
            <4> QED BY <4>1, <1>2, <1>3
        <3> QED BY <3>1, <3>2, Zenon
    <2> QED BY <2>1, <1>2, <1>3, Zenon DEF Agree
<1>8. ASSUME NEW l \in 1..Len(n.log), Agree(n.log, F, l) PROVE Agree(n.log, s, l)
    <2>1. ASSUME NEW k \in 1..Len(E), p + k <= l PROVE n.log[p + k].term = E[k].term
        <3>1. p + k \in 1..l
            BY <2>1, <1>1
        <3> QED BY <3>1, <1>2, <1>8, Zenon DEF Agree
    <2>2. l <= Len(s) /\ \A j \in 1..l : s[j] = n.log[j]
        BY <2>1, <1>3, Zenon
    <2> QED BY <1>8, <2>2, Zenon DEF Agree
<1> QED BY <1>1, <1>2, <1>3, <1>7, <1>8 DEF p, E, s

\* After any call of an open member, with the publication of what it left, the
\* extended history records the group's votes and leaders, and no leader's log
\* lost an entry (tick, step and propose, each followed by finish).
LEMMA CallElects ==
    ASSUME NEW H, NEW L, NEW V, NEW A, NEW nd, NEW u, NEW d, NEW ms,
           Recorded(H, L, V, A, nd, u, d, ms),
           NEW i \in Server, NEW r, NEW R, NEW K, Call(nd, u, d, ms, i, r, R, K)
    PROVE  LET H2 == NextH(H, r.n)
               L2 == NextL(L, i, r.n)
               V2 == NextV(V, i, r.n)
               A2 == NextA(A, i, r.n, K)
               nd2 == [nd EXCEPT ![i] = r.n]
               d2 == [d EXCEPT ![i] = Snapshot(r.n)]
               ms2 == ms \cup r.out
           IN  /\ \A t \in Term : Agree(H[t], H2[t], Len(H[t])) /\ (L[t] # None => L2[t] = L[t])
               /\ HistoryTypes(H2, L2, V2, A2) /\ VotesRecorded(V2, nd2, u, d2, ms2)
               /\ LeadersRecorded(H2, L2, V2, nd2, u)
<1> USE SMTT(60)
<1> DEFINE n == nd[i]
           g == r.n
           T == g.term
           H2 == NextH(H, g)
           L2 == NextL(L, i, g)
           V2 == NextV(V, i, g)
           A2 == NextA(A, i, g, K)
           nd2 == [nd EXCEPT ![i] = g]
           d2 == [d EXCEPT ![i] = Snapshot(g)]
           ms2 == ms \cup r.out
\* The group before the call.
<1>1. /\ nd \in [Server -> Core] /\ u \in [Server -> BOOLEAN] /\ d \in [Server -> Saved]
      /\ ms \subseteq Message
    BY Zenon DEF Call, Sound
<1>2. \A j \in Server : /\ CoreInv(nd[j]) /\ nd[j] \in Core /\ nd[j].term \in Term
                        /\ nd[j].term \in Nat /\ nd[j].log \in Seq(Entry)
                        /\ nd[j].match \in [Server -> Nat] /\ nd[j].votes \in SUBSET Server
                        /\ nd[j].role \in {Follower, Candidate, Leader}
    BY CoreTypes, Zenon DEF Call, Sound
<1>3. \A j \in Server : u[j] => /\ d[j].term = nd[j].term /\ d[j].vote = nd[j].vote
                                /\ d[j].log = nd[j].log /\ d[j].commit = nd[j].commit
    BY DEF Call, Sound, Snapshot
<1>4. \A j \in Server : /\ d[j].term \in Term /\ d[j].term \in Nat
                        /\ d[j].vote \in Server \cup {None}
                        /\ d[j].log \in Seq(Entry) /\ d[j].commit \in Nat
                        /\ d[j].commit <= Len(d[j].log) /\ Len(d[j].log) \in Nat
    <2> TAKE j \in Server
    <2>1. d[j] \in Saved /\ d[j].commit <= Len(d[j].log)
        BY <1>1, Zenon DEF Call, Sound
    <2>2. d[j].term \in Term /\ d[j].log \in Seq(Entry)
        BY <2>1, Zenon DEF Saved
    <2> QED BY <2>1, <2>2, RaftConstants, SeqTypes DEF Saved, Term
<1>5. /\ HistoryTypes(H, L, V, A) /\ VotesRecorded(V, nd, u, d, ms)
      /\ LeadersRecorded(H, L, V, nd, u) /\ LogsRecorded(H, d)
      /\ RequestsRecorded(H, L, nd, u, d, ms) /\ AcksRecorded(H, A, nd, u, d, ms)
      /\ AcksKept(H, A, d) /\ VotersOutdone(H, V, A, nd, u, d)
      /\ LeadersComplete(H, L, A, d) /\ CommitsDecided(H, A, d, ms)
    BY Zenon DEF Recorded
<1>6. /\ H \in [Term -> Seq(Entry)] /\ L \in [Term -> Server \cup {None}]
      /\ V \in [Server -> [Term -> Server \cup {None}]] /\ A \in [Server -> [Term -> Nat]]
    BY <1>5, Zenon DEF HistoryTypes
<1>7. \A t \in Term : t \in Nat /\ H[t] \in Seq(Entry) /\ Len(H[t]) \in Nat
    BY <1>6, RaftConstants, SeqTypes DEF Term
<1>8. None \notin Server /\ Leader # Follower /\ Candidate # Follower /\ Leader # Candidate
    BY RaftConstants, Zenon DEF Leader, Follower, Candidate
\* The call.
<1>9. u[i] /\ LogContract(n, i, r, R) /\ R \subseteq ms /\ MajoritiesMeet
    BY Zenon DEF Call, Sound
<1>10. PICK W \in SUBSET Server :
          /\ Contract(n, i, r, W)
          /\ \A v \in W : \E m \in ms :
                IsVote(m) /\ m.from = v /\ m.to = i /\ m.term = n.term
    BY Zenon DEF Call
<1>11. /\ CoreInv(g) /\ n.term <= T
       /\ n.term = T => n.vote \in {None, g.vote}
       /\ \A m \in r.out : /\ m \in Message /\ m.from = i /\ m.term = T
                           /\ IsVote(m) => m.to = g.vote
                           /\ IsAppend(m) => g.role = Leader
    BY <1>10, Zenon DEF Contract
<1>12. /\ g \in Core /\ T \in Term /\ T \in Nat /\ g.vote \in Server \cup {None}
       /\ g.log \in Seq(Entry) /\ Len(g.log) \in Nat /\ g.commit \in Nat
       /\ g.commit <= Len(g.log) /\ g.role \in {Follower, Candidate, Leader}
       /\ g.match \in [Server -> Nat] /\ g.votes \in SUBSET Server
    BY <1>11, CoreTypes, Zenon
<1>13. g.role # Follower =>
          \/ n.role # Follower /\ T = n.term /\ g.votes \subseteq n.votes \cup W
          \/ T > n.term /\ g.vote = i /\ g.votes \subseteq {i}
    BY <1>10, Zenon DEF Contract
<1>14. /\ n \in Core /\ n.term \in Term /\ n.term \in Nat /\ n.log \in Seq(Entry)
       /\ Len(n.log) \in Nat /\ n.role \in {Follower, Candidate, Leader}
       /\ d[i].term = n.term /\ d[i].vote = n.vote /\ d[i].log = n.log /\ d[i].commit = n.commit
       /\ CoreInv(n)
    BY <1>2, <1>3, <1>4, <1>9, Zenon
\* The group after the call.
<1>15. /\ nd2[i] = g /\ \A j \in Server : j # i => nd2[j] = nd[j]
    BY <1>1, Zenon
<1>16. /\ d2[i].term = T /\ d2[i].vote = g.vote /\ d2[i].log = g.log /\ d2[i].commit = g.commit
       /\ \A j \in Server : j # i => d2[j] = d[j]
    BY <1>1, Zenon DEF Snapshot
<1>17. \A j \in Server : d[j].term <= d2[j].term /\ d2[j].term \in Nat /\ d2[j].term \in Term
    BY <1>4, <1>11, <1>12, <1>14, <1>16
<1>18. \A t \in Term : /\ H2[t] = IF g.role = Leader /\ t = T THEN g.log ELSE H[t]
                       /\ L2[t] = IF g.role = Leader /\ t = T THEN i ELSE L[t]
    BY <1>6, <1>12, Zenon DEF NextH, NextL
<1>19. \A v \in Server : \A t \in Term :
          V2[v][t] = IF v = i /\ t = T THEN g.vote ELSE V[v][t]
    BY <1>6, <1>12, Zenon DEF NextV
<1>20. K \in Nat
    BY Zenon DEF Call
<1>21. HistoryTypes(H2, L2, V2, A2)
    <2>1. H2 \in [Term -> Seq(Entry)] /\ L2 \in [Term -> Server \cup {None}]
        BY <1>6, <1>12, Zenon DEF NextH, NextL
    <2>2. V2 \in [Server -> [Term -> Server \cup {None}]]
        BY <1>6, <1>12, Zenon DEF NextV
    <2>3. Larger(A[i][T], IF g.role = Leader THEN Len(g.log) ELSE K) \in Nat
        BY <1>6, <1>12, <1>20, Zenon DEF Larger
    <2>4. A2 \in [Server -> [Term -> Nat]]
        BY <1>6, <1>12, <2>3, Zenon DEF NextA
    <2> QED BY <2>1, <2>2, <2>4, Zenon DEF HistoryTypes
<1>22. \A t \in Term : H2[t] \in Seq(Entry) /\ Len(H2[t]) \in Nat
    BY <1>21, SeqTypes, Zenon DEF HistoryTypes
<1>23. ms2 \subseteq Message /\ \A m \in ms2 : m \in ms \/ m \in r.out
    BY <1>1, <1>11, Zenon
<1> HIDE DEF n, H2, L2, V2, A2, nd2, d2, ms2, g, T
\* Votes: the record of them only grows, and only by the vote just published.
<1>24. \A v \in Server : \A t \in Term : V[v][t] # None => V2[v][t] = V[v][t]
    <2> SUFFICES ASSUME V[i][T] # None PROVE V[i][T] = g.vote
        BY <1>19, Zenon
    <2>1. d[i].term > T \/ (d[i].term = T /\ d[i].vote = V[i][T])
        BY <1>5, <1>12, Zenon DEF VotesRecorded
    <2> QED BY <2>1, <1>11, <1>12, <1>14
<1>25. \A v \in Server : \A t \in Term : V[v][t] # None =>
          /\ d[v].term > t \/ (d[v].term = t /\ d[v].vote = V[v][t])
          /\ V[v][t] \in Server /\ d[V[v][t]].term >= t
    BY <1>5, <1>6 DEF VotesRecorded
<1>26. VotesRecorded(V2, nd2, u, d2, ms2)
    <2>1. ASSUME NEW v \in Server, NEW t \in Term, V2[v][t] # None
          PROVE  /\ d2[v].term > t \/ (d2[v].term = t /\ d2[v].vote = V2[v][t])
                 /\ d2[V2[v][t]].term >= t
        <3>1. CASE v = i /\ t = T
            <4>1. V2[v][t] = g.vote /\ g.vote \in Server
                BY <2>1, <3>1, <1>12, <1>19, Zenon
            <4>2. d2[g.vote].term >= T
                <5>1. CASE g.vote = n.vote /\ T = n.term
                    <6>1. V[i][T] = g.vote
                        BY <5>1, <4>1, <1>5, <1>8, <1>14 DEF VotesRecorded
                    <6>2. d[g.vote].term >= T
                        BY <6>1, <4>1, <1>8, <1>12, <1>25
                    <6> QED BY <6>2, <4>1, <1>4, <1>12, <1>17
                <5>2. CASE g.vote = i
                    BY <5>2, <1>12, <1>16
                <5>3. CASE \E m \in R : m.from = g.vote /\ m.term = T
                    <6>1. PICK m \in ms : m.from = g.vote /\ m.term = T
                        BY <5>3, <1>9, Zenon
                    <6>2. T <= d[g.vote].term
                        BY <6>1, <1>5, Zenon DEF RequestsRecorded
                    <6> QED BY <6>2, <4>1, <1>4, <1>12, <1>17
                <5> QED BY <5>1, <5>2, <5>3, <4>1, <1>8, <1>9, Zenon
                        DEF LogContract, VoteContract, g, T, n
            <4> QED BY <3>1, <4>1, <4>2, <1>16, Zenon
        <3>2. CASE ~(v = i /\ t = T)
            <4>1. V2[v][t] = V[v][t] /\ V[v][t] # None
                BY <2>1, <3>2, <1>19, Zenon
            <4>2. /\ d[v].term > t \/ (d[v].term = t /\ d[v].vote = V[v][t])
                  /\ V[v][t] \in Server /\ d[V[v][t]].term >= t
                BY <4>1, <1>25, Zenon
            <4>3. d2[V[v][t]].term >= t
                BY <4>2, <1>4, <1>7, <1>17
            <4>4. CASE v = i
                BY <3>2, <4>1, <4>2, <4>3, <4>4, <1>4, <1>7, <1>12, <1>14, <1>16, <1>17
            <4>5. CASE v # i
                BY <4>1, <4>2, <4>3, <4>5, <1>16, Zenon
            <4> QED BY <4>4, <4>5, Zenon
        <3> QED BY <3>1, <3>2, Zenon
    <2>2. \A v \in Server : d2[v].vote # None => V2[v][d2[v].term] = d2[v].vote
        <3> TAKE v \in Server
        <3>1. CASE v = i
            BY <3>1, <1>12, <1>16, <1>19, Zenon
        <3>2. CASE v # i
            BY <3>2, <1>4, <1>5, <1>16, <1>19 DEF VotesRecorded
        <3> QED BY <3>1, <3>2, Zenon
    <2>3. ASSUME NEW m \in ms2, IsVote(m) PROVE V2[m.from][m.term] = m.to
        <3>1. m.from \in Server /\ m.to \in Server /\ m.term \in Term
            BY <1>23, MessageTypes, Zenon
        <3>2. CASE m \in ms
            <4>1. V[m.from][m.term] = m.to
                BY <2>3, <3>2, <1>5, Zenon DEF VotesRecorded
            <4> QED BY <3>1, <4>1, <1>8, <1>24, Zenon
        <3>3. CASE m \in r.out
            BY <2>3, <3>1, <3>3, <1>11, <1>19, Zenon
        <3> QED BY <3>2, <3>3, <1>23, Zenon
    <2>4. ASSUME NEW j \in Server, u[j], nd2[j].role # Follower
          PROVE  /\ V2[j][nd2[j].term] = j
                 /\ \A v \in nd2[j].votes : V2[v][nd2[j].term] = j
        <3>1. ASSUME nd[j].role # Follower
              PROVE  /\ V2[j][nd[j].term] = j
                     /\ \A v \in nd[j].votes : V2[v][nd[j].term] = j
            <4>1. /\ V[j][nd[j].term] = j /\ \A v \in nd[j].votes : V[v][nd[j].term] = j
                BY <2>4, <3>1, <1>5, Zenon DEF VotesRecorded
            <4>2. nd[j].term \in Term /\ nd[j].votes \in SUBSET Server
                BY <1>2, Zenon
            <4> QED BY <4>1, <4>2, <1>8, <1>24
        <3>2. CASE j # i
            BY <2>4, <3>1, <3>2, <1>15, Zenon
        <3>3. CASE j = i
            <4>1. CASE n.role # Follower /\ T = n.term /\ g.votes \subseteq n.votes \cup W
                <5>1. \A v \in W : V2[v][T] = i
                    <6> TAKE v \in W
                    <6>1. PICK m \in ms : IsVote(m) /\ m.from = v /\ m.to = i /\ m.term = n.term
                        BY <1>10, Zenon
                    <6>2. m \in ms2
                        BY Zenon DEF ms2
                    <6> QED BY <4>1, <6>1, <6>2, <2>3, Zenon
                <5> QED BY <3>1, <3>3, <4>1, <5>1, <1>15 DEF n, T
            <4>2. CASE T > n.term /\ g.vote = i /\ g.votes \subseteq {i}
                BY <3>3, <4>2, <1>12, <1>15, <1>19 DEF T
            <4> QED BY <2>4, <3>3, <4>1, <4>2, <1>13, <1>15, Zenon
        <3> QED BY <3>2, <3>3, Zenon
    <2> QED BY <2>1, <2>2, <2>3, <2>4, Zenon DEF VotesRecorded
\* How the log changed: not at all, by a leader's entry, or by a batch.
<1>27. /\ \/ g.log = n.log
          \/ /\ g.role = Leader /\ n.role = Leader
             /\ \E e \in Entry : e.term = n.term /\ g.log = Append(n.log, e)
          \/ \E m \in R : Took(n, r, m)
       /\ g.role = Candidate => T > n.term \/ (n.role = Candidate /\ T = n.term)
       /\ g.role = Leader /\ n.role = Leader => T = n.term
    BY <1>9, Zenon DEF LogContract, GrowContract, RoleContract, g, T, n
<1>28. \A m \in R : Took(n, r, m) => g.role = Follower
    BY Zenon DEF Took, g
\* Leaders: a term that is won had no leader before.
<1>29. ASSUME NEW t \in Term, L[t] # None
       PROVE  \E Q \in SUBSET Server : Cardinality(Q) >= QuorumSize /\ \A q \in Q : V[q][t] = L[t]
    BY <1>29, <1>5, Zenon DEF LeadersRecorded
<1>30. g.role = Leader => /\ g.votes \in SUBSET Server /\ Cardinality(g.votes) >= QuorumSize
                          /\ \A v \in g.votes : V2[v][T] = i
    BY <1>8, <1>9, <1>11, <1>12, <1>15, <1>26, Zenon DEF VotesRecorded, CoreInv, T
<1>31. ASSUME NEW t \in Term, t > d[i].term PROVE L[t] # i
    <2> SUFFICES ASSUME L[t] = i PROVE FALSE
        OBVIOUS
    <2>1. PICK Q \in SUBSET Server : Cardinality(Q) >= QuorumSize /\ \A q \in Q : V[q][t] = i
        BY <1>8, <1>29, Zenon
    <2>2. PICK q \in Q : TRUE
        BY <2>1, <1>9, Zenon DEF MajoritiesMeet
    <2>3. d[i].term >= t
        BY <2>1, <2>2, <1>8, <1>25
    <2> QED BY <2>3, <1>4, <1>7, <1>31
<1>32. ASSUME g.role = Leader, n.role # Leader PROVE L[T] = None
    <2> SUFFICES ASSUME L[T] # None PROVE FALSE
        OBVIOUS
    <2>1. PICK Q \in SUBSET Server : Cardinality(Q) >= QuorumSize /\ \A q \in Q : V[q][T] = L[T]
        BY <1>12, <1>29, Zenon
    <2>2. PICK q \in Server : q \in Q /\ q \in g.votes
        BY <2>1, <1>30, <1>32, <1>9, Zenon DEF MajoritiesMeet
    <2>3. L[T] = i
        BY <2>1, <2>2, <1>12, <1>24, <1>30, <1>32, Zenon
    <2>4. ~(T > n.term)
        BY <2>3, <1>12, <1>14, <1>31, Zenon
    <2>5. n.role = Candidate /\ T = n.term
        BY <2>4, <1>8, <1>13, <1>14, <1>32, Zenon
    <2> QED BY <2>3, <2>5, <1>5, <1>9, Zenon DEF LeadersRecorded, n
<1>33. ASSUME g.role = Leader, n.role = Leader PROVE T = n.term /\ L[T] = i /\ H[T] = n.log
    <2>1. L[n.term] = i /\ H[n.term] = n.log
        BY <1>5, <1>9, <1>33, Zenon DEF LeadersRecorded, n
    <2> QED BY <2>1, <1>27, <1>33, Zenon
<1>34. \A t \in Term : L[t] # None => L2[t] = L[t]
    BY <1>18, <1>32, <1>33, Zenon
<1>35. \A t \in Term : Agree(H[t], H2[t], Len(H[t]))
    <2> TAKE t \in Term
    <2>1. CASE H2[t] = H[t]
        BY <2>1, <1>7, AgreeSelf
    <2>2. CASE g.role = Leader /\ t = T /\ n.role # Leader
        <3>1. H[T] = <<>>
            BY <2>2, <1>5, <1>12, <1>32, Zenon DEF LeadersRecorded
        <3>2. Len(H[T]) = 0
            BY <3>1, SeqEmpty, Zenon
        <3> QED BY <2>2, <3>2, <1>12, <1>22 DEF Agree
    <2>3. CASE g.role = Leader /\ t = T /\ n.role = Leader
        <3>1. H[T] = n.log /\ H2[T] = g.log
            BY <2>3, <1>12, <1>18, <1>33, Zenon
        <3>2. CASE g.log = n.log
            BY <2>3, <3>1, <3>2, <1>14, AgreeSelf
        <3>3. CASE \E e \in Entry : e.term = n.term /\ g.log = Append(n.log, e)
            <4>1. PICK e \in Entry : g.log = Append(n.log, e)
                BY <3>3, Zenon
            <4>2. Len(g.log) = Len(n.log) + 1 /\ \A k \in 1..Len(n.log) : g.log[k] = n.log[k]
                BY <4>1, <1>14, SeqAppended
            <4> QED BY <2>3, <3>1, <4>2, <1>14 DEF Agree
        <3> QED BY <2>3, <3>2, <3>3, <1>8, <1>27, <1>28, Zenon
    <2> QED BY <2>1, <2>2, <2>3, <1>18, Zenon
<1>36. LeadersRecorded(H2, L2, V2, nd2, u)
    <2>1. ASSUME NEW t \in Term
          PROVE  IF L2[t] = None THEN H2[t] = <<>>
                 ELSE \E Q \in SUBSET Server :
                         Cardinality(Q) >= QuorumSize /\ \A q \in Q : V2[q][t] = L2[t]
        <3>1. CASE g.role = Leader /\ t = T
            BY <3>1, <1>8, <1>18, <1>30, Zenon
        <3>2. CASE ~(g.role = Leader /\ t = T) /\ L[t] = None
            BY <3>2, <1>5, <1>18, Zenon DEF LeadersRecorded
        <3>3. CASE ~(g.role = Leader /\ t = T) /\ L[t] # None
            <4>1. PICK Q \in SUBSET Server :
                     Cardinality(Q) >= QuorumSize /\ \A q \in Q : V[q][t] = L[t]
                BY <3>3, <1>29, Zenon
            <4>2. \A q \in Q : V2[q][t] = L[t]
                BY <3>3, <4>1, <1>24, Zenon
            <4> QED BY <3>3, <4>1, <4>2, <1>18, Zenon
        <3> QED BY <3>1, <3>2, <3>3, Zenon
    <2>2. ASSUME NEW j \in Server, u[j], nd2[j].role = Leader
          PROVE  L2[nd2[j].term] = j /\ H2[nd2[j].term] = nd2[j].log
        <3>1. CASE j = i
            BY <2>2, <3>1, <1>12, <1>15, <1>18, Zenon DEF T
        <3>2. CASE j # i
            <4>1. L[nd[j].term] = j /\ H[nd[j].term] = nd[j].log /\ nd[j].term \in Term
                BY <2>2, <3>2, <1>2, <1>5, <1>15, Zenon DEF LeadersRecorded
            <4>2. ~(g.role = Leader /\ nd[j].term = T)
                BY <3>2, <4>1, <1>8, <1>32, <1>33, Zenon
            <4> QED BY <3>2, <4>1, <4>2, <1>15, <1>18, Zenon
        <3> QED BY <3>1, <3>2, Zenon
    <2>3. ASSUME NEW j \in Server, u[j], nd2[j].role = Candidate PROVE L2[nd2[j].term] # j
        <3>1. CASE j = i
            <4>1. g.role = Candidate /\ L2[T] = L[T]
                BY <2>3, <3>1, <1>8, <1>12, <1>15, <1>18, Zenon
            <4>2. CASE T > n.term
                BY <3>1, <4>1, <4>2, <1>12, <1>14, <1>15, <1>31, Zenon DEF T
            <4>3. CASE n.role = Candidate /\ T = n.term
                BY <3>1, <4>1, <4>3, <1>5, <1>9, <1>15, Zenon DEF LeadersRecorded, n, T
            <4> QED BY <4>1, <4>2, <4>3, <1>27, Zenon
        <3>2. CASE j # i
            <4>1. L[nd[j].term] # j /\ nd[j].term \in Term
                BY <2>3, <3>2, <1>2, <1>5, <1>15, Zenon DEF LeadersRecorded
            <4> QED BY <3>2, <4>1, <1>15, <1>18, Zenon
        <3> QED BY <3>1, <3>2, Zenon
    <2> QED BY <2>1, <2>2, <2>3, Zenon DEF LeadersRecorded
<1> QED BY <1>21, <1>26, <1>34, <1>35, <1>36, Zenon
         DEF H2, L2, V2, A2, nd2, d2, ms2, g
=============================================================================
