-------------------------- MODULE RaftCommitProofs --------------------------
(***************************************************************************)
(* What the extended history says after a call: of logs, append and vote   *)
(* requests and acknowledgements (CallAppends), and of committed entries   *)
(* (CallRecorded): candidates outdo their voters, leaders hold every entry *)
(* that may be committed, and commit indexes cover only chosen ones.       *)
(***************************************************************************)
EXTENDS RaftHistoryProofs

-----------------------------------------------------------------------------
(* Logs, requests and acknowledgements *)

\* After any call of an open member, with the publication of what it left, the
\* extended history records the group's logs, requests and acknowledgements;
\* nothing becomes committable that was not, what was chosen stays chosen, and
\* no member gives up what it acknowledged (tick, step and propose, each followed
\* by finish).
LEMMA CallAppends ==
    ASSUME NEW H, NEW L, NEW V, NEW A, NEW nd, NEW u, NEW d, NEW ms,
           Recorded(H, L, V, A, nd, u, d, ms),
           NEW i \in Server, NEW r, NEW R, NEW K, Call(nd, u, d, ms, i, r, R, K)
    PROVE  LET H2 == NextH(H, r.n)
               L2 == NextL(L, i, r.n)
               V2 == NextV(V, i, r.n)
               A2 == NextA(A, i, r.n, K)
               nd2 == [nd EXCEPT ![i] = r.n]
               d2 == [d EXCEPT ![i] = Snapshot(r.n)]
               ms2 == ms \cup r.out
           IN  /\ LogsRecorded(H2, d2) /\ RequestsRecorded(H2, L2, nd2, u, d2, ms2)
               /\ AcksRecorded(H2, A2, nd2, u, d2, ms2) /\ AcksKept(H2, A2, d2)
               /\ \A t \in Term : \A k \in Nat : Chosen(A, t, k) => Chosen(A2, t, k)
               /\ \A t \in Term : \A k \in 1..Len(H[t]) :
                     Pending(H2, A2, d2, t, k) => Pending(H, A, d, t, k)
<1> USE SMTT(60)
<1> DEFINE n == nd[i]
           g == r.n
           T == g.term
           H2 == NextH(H, g)
           L2 == NextL(L, i, g)
           V2 == NextV(V, i, g)
           A2 == NextA(A, i, g, K)
           nd2 == [nd EXCEPT ![i] = g]
           d2 == [d EXCEPT ![i] = Snapshot(g)]
           ms2 == ms \cup r.out
\* The group before the call.
<1>1. /\ nd \in [Server -> Core] /\ u \in [Server -> BOOLEAN] /\ d \in [Server -> Saved]
      /\ ms \subseteq Message
    BY Zenon DEF Call, Sound
<1>2. \A j \in Server : /\ CoreInv(nd[j]) /\ nd[j] \in Core /\ nd[j].term \in Term
                        /\ nd[j].term \in Nat /\ nd[j].log \in Seq(Entry)
                        /\ nd[j].match \in [Server -> Nat] /\ nd[j].votes \in SUBSET Server
                        /\ nd[j].role \in {Follower, Candidate, Leader}
    BY CoreTypes, Zenon DEF Call, Sound
<1>3. \A j \in Server : u[j] => /\ d[j].term = nd[j].term /\ d[j].vote = nd[j].vote
                                /\ d[j].log = nd[j].log /\ d[j].commit = nd[j].commit
    BY DEF Call, Sound, Snapshot
<1>4. \A j \in Server : /\ d[j].term \in Term /\ d[j].term \in Nat
                        /\ d[j].vote \in Server \cup {None}
                        /\ d[j].log \in Seq(Entry) /\ d[j].commit \in Nat
                        /\ d[j].commit <= Len(d[j].log) /\ Len(d[j].log) \in Nat
    <2> TAKE j \in Server
    <2>1. d[j] \in Saved /\ d[j].commit <= Len(d[j].log)
        BY <1>1, Zenon DEF Call, Sound
    <2>2. d[j].term \in Term /\ d[j].log \in Seq(Entry)
        BY <2>1, Zenon DEF Saved
    <2> QED BY <2>1, <2>2, RaftConstants, SeqTypes DEF Saved, Term
<1>5. /\ HistoryTypes(H, L, V, A) /\ VotesRecorded(V, nd, u, d, ms)
      /\ LeadersRecorded(H, L, V, nd, u) /\ LogsRecorded(H, d)
      /\ RequestsRecorded(H, L, nd, u, d, ms) /\ AcksRecorded(H, A, nd, u, d, ms)
      /\ AcksKept(H, A, d) /\ VotersOutdone(H, V, A, nd, u, d)
      /\ LeadersComplete(H, L, A, d) /\ CommitsDecided(H, A, d, ms)
    BY Zenon DEF Recorded
<1>6. /\ H \in [Term -> Seq(Entry)] /\ L \in [Term -> Server \cup {None}]
      /\ V \in [Server -> [Term -> Server \cup {None}]] /\ A \in [Server -> [Term -> Nat]]
    BY <1>5, Zenon DEF HistoryTypes
<1>7. \A t \in Term : t \in Nat /\ H[t] \in Seq(Entry) /\ Len(H[t]) \in Nat
    BY <1>6, RaftConstants, SeqTypes DEF Term
<1>8. None \notin Server /\ Leader # Follower /\ Candidate # Follower /\ Leader # Candidate
    BY RaftConstants, Zenon DEF Leader, Follower, Candidate
\* The call.
<1>9. u[i] /\ LogContract(n, i, r, R) /\ R \subseteq ms /\ MajoritiesMeet
    BY Zenon DEF Call, Sound
<1>10. PICK W \in SUBSET Server :
          /\ Contract(n, i, r, W)
          /\ \A v \in W : \E m \in ms :
                IsVote(m) /\ m.from = v /\ m.to = i /\ m.term = n.term
    BY Zenon DEF Call
<1>11. /\ CoreInv(g) /\ n.term <= T
       /\ n.term = T => n.vote \in {None, g.vote}
       /\ \A m \in r.out : /\ m \in Message /\ m.from = i /\ m.term = T
                           /\ IsVote(m) => m.to = g.vote
                           /\ IsAppend(m) => g.role = Leader
    BY <1>10, Zenon DEF Contract
<1>12. /\ g \in Core /\ T \in Term /\ T \in Nat /\ g.vote \in Server \cup {None}
       /\ g.log \in Seq(Entry) /\ Len(g.log) \in Nat /\ g.commit \in Nat
       /\ g.commit <= Len(g.log) /\ g.role \in {Follower, Candidate, Leader}
       /\ g.match \in [Server -> Nat] /\ g.votes \in SUBSET Server
    BY <1>11, CoreTypes, Zenon
<1>13. /\ n \in Core /\ n.term \in Term /\ n.term \in Nat /\ n.log \in Seq(Entry)
       /\ Len(n.log) \in Nat /\ n.role \in {Follower, Candidate, Leader}
       /\ d[i].term = n.term /\ d[i].vote = n.vote /\ d[i].log = n.log /\ d[i].commit = n.commit
       /\ CoreInv(n)
    BY <1>2, <1>3, <1>4, <1>9, Zenon
\* The group after the call.
<1>14. /\ nd2[i] = g /\ \A j \in Server : j # i => nd2[j] = nd[j]
    BY <1>1, Zenon
<1>15. /\ d2[i].term = T /\ d2[i].vote = g.vote /\ d2[i].log = g.log /\ d2[i].commit = g.commit
       /\ \A j \in Server : j # i => d2[j] = d[j]
    BY <1>1, Zenon DEF Snapshot
<1>16. \A j \in Server : d[j].term <= d2[j].term /\ d2[j].term \in Nat /\ d2[j].term \in Term
    BY <1>4, <1>11, <1>12, <1>13, <1>15
<1>17. \A t \in Term : /\ H2[t] = IF g.role = Leader /\ t = T THEN g.log ELSE H[t]
                       /\ L2[t] = IF g.role = Leader /\ t = T THEN i ELSE L[t]
    BY <1>6, <1>12, Zenon DEF NextH, NextL
<1>18. \A p \in Server : \A t \in Term :
          A2[p][t] = IF p = i /\ t = T
                     THEN Larger(A[i][T], IF g.role = Leader THEN Len(g.log) ELSE K)
                     ELSE A[p][t]
    BY <1>6, <1>12, Zenon DEF NextA
<1>19. K \in Nat
    BY Zenon DEF Call
<1>20. /\ \A t \in Term : Agree(H[t], H2[t], Len(H[t])) /\ (L[t] # None => L2[t] = L[t])
       /\ HistoryTypes(H2, L2, V2, A2) /\ VotesRecorded(V2, nd2, u, d2, ms2)
       /\ LeadersRecorded(H2, L2, V2, nd2, u)
    BY CallElects, Zenon
<1>21. \A t \in Term : H2[t] \in Seq(Entry) /\ Len(H2[t]) \in Nat
    BY <1>20, SeqTypes, Zenon DEF HistoryTypes
<1>22. ms2 \subseteq Message /\ \A m \in ms2 : m \in ms \/ m \in r.out
    BY <1>1, <1>11, Zenon
<1> HIDE DEF n, H2, L2, V2, A2, nd2, d2, ms2, g, T
\* How the log changed: not at all, by a leader's entry, or by a batch.
<1>23. /\ \/ g.log = n.log
          \/ /\ g.role = Leader /\ n.role = Leader
             /\ \E e \in Entry : e.term = n.term /\ g.log = Append(n.log, e)
          \/ \E m \in R : Took(n, r, m)
       /\ g.role = Candidate => T > n.term \/ (n.role = Candidate /\ T = n.term)
       /\ g.role = Leader /\ n.role = Leader => T = n.term
    BY <1>9, Zenon DEF LogContract, GrowContract, RoleContract, g, T, n
<1>24. \A m \in R : Took(n, r, m) => g.role = Follower
    BY Zenon DEF Took, g
<1>25. g.role # Follower /\ ~(g.role = Leader /\ n.role = Leader) => g.log = n.log
    BY <1>23, <1>24, Zenon
<1>26. ASSUME g.role = Leader, n.role = Leader PROVE T = n.term /\ L[T] = i /\ H[T] = n.log
    <2>1. L[n.term] = i /\ H[n.term] = n.log
        BY <1>5, <1>9, <1>26, Zenon DEF LeadersRecorded, n
    <2> QED BY <2>1, <1>23, <1>26, Zenon
<1>27. \A t \in Term : Len(H[t]) <= Len(H2[t])
    BY <1>20, Zenon DEF Agree
<1>28. \A s \in Seq(Entry) : \A t \in Term : \A k \in Nat : Agree(s, H[t], k) => Agree(s, H2[t], k)
    BY <1>7, <1>21, <1>20, AgreeGrown, Zenon
<1>29. \A s \in Seq(Entry) : Traced(H, s) => Traced(H2, s)
    <2>1. H2 \in [Term -> Seq(Entry)]
        BY <1>20, Zenon DEF HistoryTypes
    <2> QED BY <2>1, <1>6, <1>20, TracedGrown, Zenon
\* A batch that was taken is a stretch of the leader's log.
<1>30. ASSUME NEW m \in R, Took(n, r, m)
       PROVE  /\ m \in ms /\ IsAppend(m) /\ m.term = T /\ L[T] # None
              /\ m.prevIndex + Len(m.entries) \in Nat
              /\ m.prevIndex + Len(m.entries) <= Len(H[T])
              /\ Agree(g.log, H[T], m.prevIndex + Len(m.entries))
              /\ g.log = n.log \/ Len(g.log) = m.prevIndex + Len(m.entries)
              /\ \A l \in 1..Len(n.log) : Agree(n.log, H[T], l) => Agree(n.log, g.log, l)
    <2>1. m \in ms /\ IsAppend(m) /\ m.term = T
        BY <1>9, <1>30, Zenon DEF Took, g, T
    <2>2. m \in AppendRequests
        BY <2>1, <1>1, MessageTypes, Zenon
    <2>3. L[T] # None /\ Stretch(m, H[T])
        BY <2>1, <1>5, Zenon DEF RequestsRecorded
    <2>4. Traced(H, n.log) /\ Traced(H, H[T])
        BY <1>5, <1>12, <1>13, Zenon DEF LogsRecorded
    <2>5. /\ m.prevIndex + Len(m.entries) \in Nat
          /\ m.prevIndex + Len(m.entries) <= Len(H[T])
          /\ Agree(g.log, H[T], m.prevIndex + Len(m.entries))
          /\ g.log = n.log \/ Len(g.log) = m.prevIndex + Len(m.entries)
          /\ \A l \in 1..Len(n.log) : Agree(n.log, H[T], l) => Agree(n.log, g.log, l)
        BY <2>2, <2>3, <2>4, <1>7, <1>12, <1>13, <1>30, TookOK, Zenon DEF g, T
    <2> QED BY <2>1, <2>3, <2>5, Zenon
<1>31. Traced(H, n.log) /\ Ordered(n.log, n.term)
    BY <1>5, <1>13, Zenon DEF LogsRecorded
<1>32. Traced(H2, g.log)
    <2>1. CASE g.log = n.log
        BY <2>1, <1>13, <1>29, <1>31, Zenon
    <2>2. CASE g.role = Leader /\ n.role = Leader
               /\ \E e \in Entry : e.term = n.term /\ g.log = Append(n.log, e)
        <3>1. PICK e \in Entry : e.term = n.term /\ g.log = Append(n.log, e)
            BY <2>2, Zenon
        <3>2. /\ Len(g.log) = Len(n.log) + 1 /\ g.log[Len(n.log) + 1] = e
              /\ \A k \in 1..Len(n.log) : g.log[k] = n.log[k]
            BY <3>1, <1>13, SeqAppended
        <3>3. T = n.term /\ H2[T] = g.log
            BY <2>2, <1>12, <1>17, <1>26, Zenon
        <3> SUFFICES ASSUME NEW k \in 1..Len(g.log) PROVE Agree(g.log, H2[g.log[k].term], k)
            BY Zenon DEF Traced
        <3>4. CASE k = Len(n.log) + 1
            <4>1. g.log[k].term = T /\ k <= Len(g.log)
                BY <3>1, <3>2, <3>3, <3>4, <1>13
            <4> QED BY <3>3, <4>1, AgreeSelf, Zenon
        <3>5. CASE k # Len(n.log) + 1
            <4>1. k \in 1..Len(n.log) /\ k \in Nat
                BY <3>2, <3>5, <1>13
            <4>2. n.log[k].term \in Term /\ Agree(n.log, H[n.log[k].term], k)
                BY <4>1, <1>13, <1>31, EntryAt, Zenon DEF Traced
            <4>3. Agree(n.log, H2[n.log[k].term], k)
                BY <4>1, <4>2, <1>13, <1>28, Zenon
            <4>4. Agree(g.log, n.log, k)
                BY <3>2, <4>1, <1>13 DEF Agree
            <4> QED BY <3>2, <4>1, <4>3, <4>4, AgreeTrans, Zenon
        <3> QED BY <3>4, <3>5, Zenon
    <2>3. CASE \E m \in R : Took(n, r, m)
        <3>1. PICK m \in R : Took(n, r, m)
            BY <2>3, Zenon
        <3> DEFINE c == m.prevIndex + Len(m.entries)
        <3>2. c \in Nat /\ Agree(g.log, H[T], c) /\ (g.log = n.log \/ Len(g.log) = c)
            BY <3>1, <1>30, Zenon
        <3> HIDE DEF c
        <3>3. CASE Len(g.log) = c
            <4>1. ASSUME NEW k \in 1..Len(g.log) PROVE Agree(g.log, H[g.log[k].term], k)
                <5>1. k \in Nat /\ k <= c /\ k \in 1..Len(H[T])
                    BY <3>2, <3>3, <1>7, <1>12 DEF Agree
                <5>2. Agree(g.log, H[T], k) /\ g.log[k] = H[T][k]
                    BY <3>2, <3>3, <5>1, <1>7, <1>12, AgreeLess DEF Agree
                <5>3. Agree(H[T], H[H[T][k].term], k)
                    BY <5>1, <1>5, <1>12, Zenon DEF LogsRecorded, Traced
                <5> QED BY <5>2, <5>3, AgreeTrans, Zenon
            <4>2. Traced(H, g.log)
                BY <4>1, Zenon DEF Traced
            <4> QED BY <4>2, <1>12, <1>29, Zenon
        <3> QED BY <2>1, <3>2, <3>3, Zenon
    <2> QED BY <2>1, <2>2, <2>3, <1>23, Zenon
<1>33. Ordered(g.log, T)
    BY Zenon DEF Call, g, T
<1>34. LogsRecorded(H2, d2)
    <2>1. ASSUME NEW j \in Server
          PROVE  Traced(H2, d2[j].log) /\ Ordered(d2[j].log, d2[j].term)
        <3>1. CASE j = i
            BY <3>1, <1>15, <1>32, <1>33, Zenon
        <3>2. CASE j # i
            BY <3>2, <1>4, <1>5, <1>15, <1>29, Zenon DEF LogsRecorded
        <3> QED BY <3>1, <3>2, Zenon
    <2>2. ASSUME NEW t \in Term PROVE Traced(H2, H2[t]) /\ Ordered(H2[t], t)
        <3>1. CASE g.role = Leader /\ t = T
            BY <3>1, <1>17, <1>32, <1>33, Zenon
        <3>2. CASE ~(g.role = Leader /\ t = T)
            BY <3>2, <1>5, <1>7, <1>17, <1>29, Zenon DEF LogsRecorded
        <3> QED BY <3>1, <3>2, Zenon
    <2> QED BY <2>1, <2>2, Zenon DEF LogsRecorded
\* Requests.
<1>35. /\ \A m \in r.out : IsAppend(m) => Stretch(m, g.log) /\ m.commit = g.commit
       /\ \A m \in r.out : IsRequest(m) =>
             m.lastIndex = LastIndex(g) /\ m.lastTerm = LastTerm(g)
    BY <1>9, Zenon DEF LogContract, OutContract, g
<1>36. RequestsRecorded(H2, L2, nd2, u, d2, ms2)
    <2> SUFFICES ASSUME NEW m \in ms2
                 PROVE  /\ m.term <= d2[m.from].term
                        /\ IsAppend(m) => L2[m.term] # None /\ Stretch(m, H2[m.term])
                        /\ IsRequest(m) /\ u[m.from] /\ nd2[m.from].role = Candidate
                                /\ nd2[m.from].term = m.term =>
                              /\ m.lastIndex = LastIndex(nd2[m.from])
                              /\ m.lastTerm = LastTerm(nd2[m.from])
        BY Zenon DEF RequestsRecorded
    <2>1. /\ m.from \in Server /\ m.term \in Term /\ m.term \in Nat
          /\ IsAppend(m) => m \in AppendRequests
        BY <1>22, MessageTypes, Zenon
    <2>2. CASE m \in r.out
        <3>1. m.from = i /\ m.term = T
            BY <2>2, <1>11, Zenon
        <3>2. IsAppend(m) => g.role = Leader /\ Stretch(m, g.log)
            BY <2>2, <1>11, <1>35, Zenon
        <3>3. IsAppend(m) => L2[m.term] # None /\ Stretch(m, H2[m.term])
            BY <3>1, <3>2, <1>8, <1>12, <1>17, Zenon
        <3> QED BY <2>2, <3>1, <3>3, <1>12, <1>14, <1>15, <1>35
    <2>3. CASE m \in ms
        <3>1. /\ m.term <= d[m.from].term
              /\ IsAppend(m) => L[m.term] # None /\ Stretch(m, H[m.term])
              /\ IsRequest(m) /\ u[m.from] /\ nd[m.from].role = Candidate
                      /\ nd[m.from].term = m.term =>
                    m.lastIndex = LastIndex(nd[m.from]) /\ m.lastTerm = LastTerm(nd[m.from])
            BY <2>3, <1>5, Zenon DEF RequestsRecorded
        <3>2. m.term <= d2[m.from].term
            BY <2>1, <3>1, <1>4, <1>16
        <3>3. ASSUME IsAppend(m) PROVE L2[m.term] # None /\ Stretch(m, H2[m.term])
            <4> DEFINE t == m.term
                       c == m.prevIndex + Len(m.entries)
            <4>1. m.prevIndex \in Nat /\ Len(m.entries) \in Nat
                BY <2>1, <3>3, SeqTypes, Zenon DEF AppendRequests
            <4>2. /\ c <= Len(H[t]) /\ m.prevTerm = TermAt(H[t], m.prevIndex)
                  /\ \A k \in 1..Len(m.entries) : m.entries[k] = H[t][m.prevIndex + k]
                BY <3>1, <3>3, Zenon DEF Stretch
            <4>3. Len(H[t]) <= Len(H2[t]) /\ \A l \in 1..Len(H[t]) : H[t][l] = H2[t][l]
                BY <2>1, <1>20, Zenon DEF Agree
            <4>4. Len(H[t]) \in Nat /\ Len(H2[t]) \in Nat
                BY <2>1, <1>7, <1>21, Zenon
            <4> HIDE DEF t
            <4>5. \A k \in 1..Len(m.entries) : m.prevIndex + k \in 1..Len(H[t])
                BY <4>1, <4>2, <4>4
            <4>6. m.prevIndex # 0 => m.prevIndex \in 1..Len(H[t])
                BY <4>1, <4>2, <4>4
            <4>7. TermAt(H2[t], m.prevIndex) = TermAt(H[t], m.prevIndex)
                BY <4>3, <4>6, Zenon DEF TermAt
            <4>8. c <= Len(H2[t])
                BY <4>1, <4>2, <4>3, <4>4
            <4>9. \A k \in 1..Len(m.entries) : m.entries[k] = H2[t][m.prevIndex + k]
                BY <4>2, <4>3, <4>5, Zenon
            <4>10. Stretch(m, H2[t])
                BY <4>2, <4>7, <4>8, <4>9, Zenon DEF Stretch
            <4> QED BY <2>1, <3>1, <3>3, <4>10, <1>20, Zenon DEF t
        <3>4. ASSUME IsRequest(m), u[m.from], nd2[m.from].role = Candidate,
                     nd2[m.from].term = m.term
              PROVE  m.lastIndex = LastIndex(nd2[m.from]) /\ m.lastTerm = LastTerm(nd2[m.from])
            <4>1. CASE m.from # i
                BY <2>1, <3>1, <3>4, <4>1, <1>14, Zenon
            <4>2. CASE m.from = i
                <5>1. g.role = Candidate /\ T = m.term
                    BY <3>4, <4>2, <1>14, Zenon DEF T
                <5>2. T = n.term
                    BY <2>1, <3>1, <4>2, <5>1, <1>11, <1>12, <1>13
                <5>3. n.role = Candidate /\ g.log = n.log
                    BY <5>1, <5>2, <1>8, <1>12, <1>23, <1>25
                <5>4. m.lastIndex = LastIndex(n) /\ m.lastTerm = LastTerm(n)
                    BY <3>1, <3>4, <4>2, <5>1, <5>2, <5>3, Zenon DEF n
                <5> QED BY <4>2, <5>3, <5>4, <1>14, Zenon DEF LastIndex, LastTerm
            <4> QED BY <4>1, <4>2, Zenon
        <3> QED BY <3>2, <3>3, <3>4, Zenon
    <2> QED BY <2>2, <2>3, <1>22, Zenon
\* Acknowledgements.
<1>37. \A p \in Server : \A t \in Term : /\ A[p][t] \in Nat /\ A2[p][t] \in Nat
                                         /\ A[p][t] <= A2[p][t]
    <2>1. A2 \in [Server -> [Term -> Nat]]
        BY <1>20, Zenon DEF HistoryTypes
    <2>2. \A p \in Server : \A t \in Term : A[p][t] \in Nat /\ A2[p][t] \in Nat
        BY <2>1, <1>6, Zenon
    <2>3. A[i][T] <= A2[i][T]
        <3>1. A[i][T] \in Nat
            BY <2>2, <1>12, Zenon
        <3> QED BY <3>1, <1>12, <1>18, <1>19 DEF Larger
    <2> QED BY <2>2, <2>3, <1>18
<1>38. /\ \A p \in Server : \A t \in Term :
             A[p][t] <= Len(H[t]) /\ (A[p][t] # 0 => t <= d[p].term)
       /\ \A p \in Server : Agree(d[p].log, H[d[p].term], A[p][d[p].term])
       /\ \A m \in ms : IsAck(m) => m.match <= A[m.from][m.term]
       /\ \A j \in Server : u[j] /\ nd[j].role = Leader =>
             /\ Len(nd[j].log) <= A[j][nd[j].term]
             /\ \A p \in Peers(j) : nd[j].match[p] <= A[p][nd[j].term]
    BY <1>5, Zenon DEF AcksRecorded
<1>39. g.role = Leader => Len(g.log) <= A2[i][T]
    BY <1>6, <1>12, <1>18 DEF Larger
<1>40. \/ A2[i][T] = A[i][T]
       \/ g.role = Leader /\ A2[i][T] = Len(g.log)
       \/ g.role # Leader /\ A2[i][T] = K
    BY <1>12, <1>18, Zenon DEF Larger
<1>41. K = 0 \/ (Agree(g.log, H[T], K) /\ K <= Len(H[T]))
    <2>1. K = 0 \/ \E m \in R : Took(n, r, m) /\ K = m.prevIndex + Len(m.entries)
        BY Zenon DEF Call, n
    <2> QED BY <2>1, <1>30, Zenon
<1>42. g.role # Leader => H2 = H /\ L2 = L
    BY Zenon DEF NextH, NextL, H2, L2
<1>43. ASSUME NEW k \in Nat, Agree(n.log, H[T], k), g.role # Leader
       PROVE  Agree(g.log, H[T], k)
    <2>1. CASE g.log = n.log
        BY <2>1, <1>43, Zenon
    <2>2. CASE \E m \in R : Took(n, r, m)
        <3>1. CASE k = 0
            BY <3>1, <1>7, <1>12 DEF Agree
        <3>2. CASE k # 0
            <4>1. k \in 1..Len(n.log)
                BY <3>2, <1>13, <1>43 DEF Agree
            <4>2. Agree(n.log, g.log, k)
                BY <2>2, <4>1, <1>30, <1>43, Zenon
            <4> QED BY <4>2, <1>43, AgreeSym, AgreeTrans, Zenon
        <3> QED BY <3>1, <3>2, Zenon
    <2> QED BY <2>1, <2>2, <1>23, <1>43, Zenon
<1>44. Agree(g.log, H2[T], A2[i][T])
    <2>1. CASE g.role = Leader
        <3>1. H2[T] = g.log
            BY <2>1, <1>12, <1>17, Zenon
        <3>2. A[i][T] <= Len(H2[T])
            BY <1>7, <1>12, <1>21, <1>27, <1>37, <1>38
        <3>3. A2[i][T] <= Len(g.log)
            BY <2>1, <3>1, <3>2, <1>12, <1>40
        <3> QED BY <3>1, <3>3, AgreeSelf, Zenon
    <2>2. CASE g.role # Leader
        <3>1. H2[T] = H[T]
            BY <2>2, <1>42, Zenon
        <3>2. ASSUME A2[i][T] = 0 PROVE Agree(g.log, H[T], A2[i][T])
            BY <3>2, <1>7, <1>12 DEF Agree
        <3>3. ASSUME A2[i][T] # 0, A2[i][T] = A[i][T] PROVE Agree(g.log, H[T], A2[i][T])
            <4>1. T <= d[i].term
                BY <3>3, <1>12, <1>38, Zenon
            <4>2. T = d[i].term
                BY <4>1, <1>11, <1>12, <1>13
            <4>3. Agree(n.log, H[T], A[i][T])
                BY <4>2, <1>13, <1>38, Zenon
            <4> QED BY <2>2, <3>3, <4>3, <1>12, <1>37, <1>43, Zenon
        <3>4. ASSUME A2[i][T] # 0, A2[i][T] = K PROVE Agree(g.log, H[T], A2[i][T])
            BY <3>4, <1>41, Zenon
        <3> QED BY <2>2, <3>1, <3>2, <3>3, <3>4, <1>40, Zenon
    <2> QED BY <2>1, <2>2, Zenon
<1>45. AcksRecorded(H2, A2, nd2, u, d2, ms2)
    <2>1. ASSUME NEW p \in Server, NEW t \in Term
          PROVE  A2[p][t] <= Len(H2[t]) /\ (A2[p][t] # 0 => t <= d2[p].term)
        <3>1. CASE p = i /\ t = T
            BY <3>1, <1>12, <1>15, <1>44 DEF Agree
        <3>2. CASE ~(p = i /\ t = T)
            <4>1. A2[p][t] = A[p][t] /\ A[p][t] <= Len(H[t]) /\ (A[p][t] # 0 => t <= d[p].term)
                BY <3>2, <1>18, <1>38, Zenon
            <4> QED BY <4>1, <1>4, <1>7, <1>16, <1>21, <1>27, <1>37
        <3> QED BY <3>1, <3>2, Zenon
    <2>2. ASSUME NEW p \in Server PROVE Agree(d2[p].log, H2[d2[p].term], A2[p][d2[p].term])
        <3>1. CASE p = i
            BY <3>1, <1>15, <1>44, Zenon
        <3>2. CASE p # i
            <4>1. d2[p] = d[p] /\ A2[p][d[p].term] = A[p][d[p].term]
                BY <3>2, <1>4, <1>15, <1>18, Zenon
            <4>2. Agree(d[p].log, H[d[p].term], A[p][d[p].term])
                BY <1>38, Zenon
            <4> QED BY <4>1, <4>2, <1>4, <1>28, <1>37, Zenon
        <3> QED BY <3>1, <3>2, Zenon
    <2>3. ASSUME NEW m \in ms2, IsAck(m) PROVE m.match <= A2[m.from][m.term]
        <3>1. /\ m.from \in Server /\ m.term \in Term /\ m \in AppendReplies
            BY <2>3, <1>22, MessageTypes, Zenon
        <3>2. m.match \in Nat
            BY <3>1, Zenon DEF AppendReplies
        <3>3. CASE m \in ms
            <4>1. m.match <= A[m.from][m.term]
                BY <2>3, <3>3, <1>38, Zenon
            <4> QED BY <3>1, <3>2, <4>1, <1>37
        <3>4. CASE m \in r.out
            <4>1. m.from = i /\ m.term = T
                BY <3>4, <1>11, Zenon
            <4>2. m.match <= K
                BY <2>3, <3>4, Zenon DEF Call
            <4>3. \A q \in R : ~Took(n, r, q) \/ g.role # Leader
                BY <1>8, <1>24, Zenon
            <4>4. g.role # Leader
                BY <2>3, <3>4, <4>3, <1>9, Zenon DEF LogContract, OutContract, n
            <4>5. K <= A2[i][T]
                BY <4>4, <1>12, <1>18, <1>19, <1>37 DEF Larger
            <4> QED BY <3>2, <4>1, <4>2, <4>5, <1>12, <1>19, <1>37
        <3> QED BY <3>3, <3>4, <1>22, Zenon
    <2>4. ASSUME NEW j \in Server, u[j], nd2[j].role = Leader
          PROVE  /\ Len(nd2[j].log) <= A2[j][nd2[j].term]
                 /\ \A p \in Peers(j) : nd2[j].match[p] <= A2[p][nd2[j].term]
        <3>1. CASE j # i
            <4>1. /\ Len(nd[j].log) <= A[j][nd[j].term]
                  /\ \A p \in Peers(j) : nd[j].match[p] <= A[p][nd[j].term]
                BY <2>4, <3>1, <1>14, <1>38, Zenon
            <4>2. nd[j].term \in Term /\ Len(nd[j].log) \in Nat /\ nd[j].match \in [Server -> Nat]
                BY <1>2, SeqTypes, Zenon
            <4>3. Len(nd[j].log) <= A2[j][nd[j].term]
                BY <4>1, <4>2, <1>37
            <4>4. \A p \in Peers(j) : nd[j].match[p] <= A2[p][nd[j].term]
                BY <4>1, <4>2, <1>37 DEF Peers
            <4> QED BY <3>1, <4>3, <4>4, <1>14, Zenon
        <3>2. CASE j = i
            <4>1. g.role = Leader
                BY <2>4, <3>2, <1>14, Zenon
            <4>2. ASSUME NEW p \in Peers(i) PROVE g.match[p] <= A2[p][T]
                <5>1. p \in Server /\ p # i /\ g.match[p] \in Nat /\ A2[p][T] \in Nat /\ A2[p][T] = A[p][T]
                    BY <1>12, <1>18, <1>37, Zenon DEF Peers
                <5>2. CASE g.match[p] = 0
                    BY <5>1, <5>2
                <5>3. CASE n.role = Leader /\ g.match[p] = n.match[p]
                    <6>1. T = n.term
                        BY <4>1, <5>3, <1>23, Zenon
                    <6> QED BY <5>1, <5>3, <6>1, <1>9, <1>38, Zenon DEF n
                <5>4. CASE \E m \in R : IsAck(m) /\ m.from = p /\ m.term = T /\ m.match = g.match[p]
                    BY <5>1, <5>4, <1>9, <1>38, Zenon
                <5> QED BY <4>1, <5>2, <5>3, <5>4, <1>9, Zenon DEF LogContract, MatchContract, g, n, T
            <4> QED BY <3>2, <4>1, <4>2, <1>14, <1>39, Zenon DEF T
        <3> QED BY <3>1, <3>2, Zenon
    <2> QED BY <2>1, <2>2, <2>3, <2>4, Zenon DEF AcksRecorded
\* What may be committed now could be committed before, but for the entry a
\* leader just appended.
<1>46. \A t \in Term : \A k : Choosable(A2, d2, t, k) => Choosable(A, d, t, k)
    <2> TAKE t \in Term
    <2> TAKE k
    <2> HAVE Choosable(A2, d2, t, k)
    <2>1. PICK Q \in SUBSET Server :
             /\ Cardinality(Q) >= QuorumSize
             /\ \A q \in Q : k <= A2[q][t] \/ d2[q].term <= t
        BY Zenon DEF Choosable
    <2>2. \A q \in Q : k <= A[q][t] \/ d[q].term <= t
        <3> TAKE q \in Q
        <3>1. CASE d2[q].term <= t
            BY <3>1, <1>4, <1>7, <1>16
        <3>2. CASE k <= A2[q][t]
            BY <3>2, <1>11, <1>13, <1>18, Zenon
        <3> QED BY <2>1, <3>1, <3>2, Zenon
    <2> QED BY <2>1, <2>2, Zenon DEF Choosable
<1>47. \A t \in Term : \A k \in Nat : Chosen(A, t, k) => Chosen(A2, t, k)
    <2> TAKE t \in Term
    <2> TAKE k \in Nat
    <2> HAVE Chosen(A, t, k)
    <2>1. PICK Q \in SUBSET Server :
             Cardinality(Q) >= QuorumSize /\ \A q \in Q : k <= A[q][t]
        BY Zenon DEF Chosen
    <2>2. \A q \in Q : k <= A2[q][t]
        BY <2>1, <1>37
    <2> QED BY <2>1, <2>2, Zenon DEF Chosen
<1>48. \A t \in Term : \A k \in 1..Len(H[t]) :
          H2[t][k] = H[t][k] /\ (Pending(H2, A2, d2, t, k) => Pending(H, A, d, t, k))
    <2> TAKE t \in Term
    <2> TAKE k \in 1..Len(H[t])
    <2>1. H2[t][k] = H[t][k]
        BY <1>20, Zenon DEF Agree
    <2> QED BY <2>1, <1>46, Zenon DEF Pending
<1>49. \A t \in Term : \A p \in Server : \A k \in 1..A[p][t] : k \in 1..Len(H[t])
    BY <1>7, <1>37, <1>38
\* What was acknowledged stays: a batch of a later leader does not contradict it.
<1>50. AcksKept(H2, A2, d2)
    <2> SUFFICES ASSUME NEW p \in Server, NEW t \in Term, NEW k \in 1..A2[p][t],
                        Pending(H2, A2, d2, t, k)
                 PROVE  Agree(d2[p].log, H2[t], k)
        BY Zenon DEF AcksKept
    <2>0. k \in Nat /\ k >= 1 /\ k <= A2[p][t]
        BY <1>37
    <2>1. CASE p = i /\ t = T
        <3>1. Agree(g.log, H2[T], k)
            BY <2>0, <2>1, <1>12, <1>21, <1>37, <1>44, AgreeLess, Zenon
        <3> QED BY <2>1, <3>1, <1>15, Zenon
    <2>2. CASE ~(p = i /\ t = T)
        <3>1. k \in 1..A[p][t] /\ k \in 1..Len(H[t])
            BY <2>2, <1>18, <1>49, Zenon
        <3>2. Agree(d[p].log, H[t], k)
            BY <3>1, <1>5, <1>48, Zenon DEF AcksKept
        <3>3. CASE p # i
            BY <2>0, <3>2, <3>3, <1>4, <1>15, <1>28, Zenon
        <3>4. CASE p = i
            <4>1. A[i][t] # 0 /\ t # T
                BY <2>2, <3>1, <3>4, <1>37
            <4>2. t < T
                <5>1. t <= n.term
                    BY <4>1, <1>13, <1>38, Zenon
                <5>2. t \in Nat /\ T \in Nat /\ n.term \in Nat /\ n.term <= T /\ t # T
                    BY <4>1, <1>7, <1>11, <1>12, <1>13, Zenon
                <5> QED BY <5>1, <5>2
            <4>3. Agree(n.log, H[t], k) /\ k \in 1..Len(n.log)
                BY <2>0, <3>2, <3>4, <1>13 DEF Agree
            <4>4. Agree(n.log, g.log, k)
                <5>1. CASE g.log = n.log
                    BY <5>1, <4>3, AgreeSelf, Zenon DEF Agree
                <5>2. CASE \E e \in Entry : g.log = Append(n.log, e)
                    <6>1. PICK e \in Entry : g.log = Append(n.log, e)
                        BY <5>2, Zenon
                    <6>2. Len(g.log) = Len(n.log) + 1 /\ \A l \in 1..Len(n.log) : g.log[l] = n.log[l]
                        BY <6>1, <1>13, SeqAppended
                    <6> QED BY <2>0, <4>3, <6>2, <1>13 DEF Agree
                <5>3. CASE \E m \in R : Took(n, r, m)
                    <6>1. PICK m \in R : Took(n, r, m)
                        BY <5>3, Zenon
                    <6>2. L[T] # None
                        BY <6>1, <1>30, Zenon
                    <6>3. Agree(H[T], H[t], k)
                        BY <3>1, <4>2, <6>2, <1>5, <1>12, <1>48, Zenon DEF LeadersComplete
                    <6>4. Agree(n.log, H[T], k)
                        BY <4>3, <6>3, AgreeSym, AgreeTrans, Zenon
                    <6> QED BY <4>3, <6>1, <6>4, <1>30, Zenon
                <5> QED BY <5>1, <5>2, <5>3, <1>23, Zenon
            <4>5. Agree(g.log, H[t], k)
                BY <4>3, <4>4, AgreeSym, AgreeTrans, Zenon
            <4> QED BY <2>0, <3>4, <4>5, <1>12, <1>15, <1>28, Zenon
        <3> QED BY <3>3, <3>4, Zenon
    <2> QED BY <2>1, <2>2, Zenon
<1> QED BY <1>34, <1>36, <1>45, <1>47, <1>48, <1>50, Zenon
         DEF H2, L2, V2, A2, nd2, d2, ms2, g

-----------------------------------------------------------------------------
(* Committed entries *)

\* Any call of an open member, with the publication of what it left, extends the
\* history (tick, step and propose, each followed by finish).
LEMMA CallRecorded ==
    ASSUME NEW H, NEW L, NEW V, NEW A, NEW nd, NEW u, NEW d, NEW ms,
           Recorded(H, L, V, A, nd, u, d, ms),
           NEW i \in Server, NEW r, NEW R, NEW K, Call(nd, u, d, ms, i, r, R, K)
    PROVE  Recorded(NextH(H, r.n), NextL(L, i, r.n), NextV(V, i, r.n), NextA(A, i, r.n, K),
                    [nd EXCEPT ![i] = r.n], u, [d EXCEPT ![i] = Snapshot(r.n)],
                    ms \cup r.out)
<1> USE SMTT(60)
<1> DEFINE n == nd[i]
           g == r.n
           T == g.term
           H2 == NextH(H, g)
           L2 == NextL(L, i, g)
           V2 == NextV(V, i, g)
           A2 == NextA(A, i, g, K)
           nd2 == [nd EXCEPT ![i] = g]
           d2 == [d EXCEPT ![i] = Snapshot(g)]
           ms2 == ms \cup r.out
\* The group before the call.
<1>1. /\ nd \in [Server -> Core] /\ u \in [Server -> BOOLEAN] /\ d \in [Server -> Saved]
      /\ ms \subseteq Message
    BY Zenon DEF Call, Sound
<1>2. \A j \in Server : /\ CoreInv(nd[j]) /\ nd[j] \in Core /\ nd[j].term \in Term
                        /\ nd[j].term \in Nat /\ nd[j].log \in Seq(Entry)
                        /\ nd[j].match \in [Server -> Nat] /\ nd[j].votes \in SUBSET Server
                        /\ nd[j].role \in {Follower, Candidate, Leader}
    BY CoreTypes, Zenon DEF Call, Sound
<1>3. \A j \in Server : u[j] => /\ d[j].term = nd[j].term /\ d[j].vote = nd[j].vote
                                /\ d[j].log = nd[j].log /\ d[j].commit = nd[j].commit
    BY DEF Call, Sound, Snapshot
<1>4. \A j \in Server : /\ d[j].term \in Term /\ d[j].term \in Nat
                        /\ d[j].vote \in Server \cup {None}
                        /\ d[j].log \in Seq(Entry) /\ d[j].commit \in Nat
                        /\ d[j].commit <= Len(d[j].log) /\ Len(d[j].log) \in Nat
    <2> TAKE j \in Server
    <2>1. d[j] \in Saved /\ d[j].commit <= Len(d[j].log)
        BY <1>1, Zenon DEF Call, Sound
    <2>2. d[j].term \in Term /\ d[j].log \in Seq(Entry)
        BY <2>1, Zenon DEF Saved
    <2> QED BY <2>1, <2>2, RaftConstants, SeqTypes DEF Saved, Term
<1>5. /\ HistoryTypes(H, L, V, A) /\ VotesRecorded(V, nd, u, d, ms)
      /\ LeadersRecorded(H, L, V, nd, u) /\ LogsRecorded(H, d)
      /\ RequestsRecorded(H, L, nd, u, d, ms) /\ AcksRecorded(H, A, nd, u, d, ms)
      /\ AcksKept(H, A, d) /\ VotersOutdone(H, V, A, nd, u, d)
      /\ LeadersComplete(H, L, A, d) /\ CommitsDecided(H, A, d, ms)
    BY Zenon DEF Recorded
<1>6. /\ H \in [Term -> Seq(Entry)] /\ L \in [Term -> Server \cup {None}]
      /\ V \in [Server -> [Term -> Server \cup {None}]] /\ A \in [Server -> [Term -> Nat]]
    BY <1>5, Zenon DEF HistoryTypes
<1>7. \A t \in Term : t \in Nat /\ H[t] \in Seq(Entry) /\ Len(H[t]) \in Nat
    BY <1>6, RaftConstants, SeqTypes DEF Term
<1>8. None \notin Server /\ Leader # Follower /\ Candidate # Follower /\ Leader # Candidate
    BY RaftConstants, Zenon DEF Leader, Follower, Candidate
\* The call.
<1>9. u[i] /\ LogContract(n, i, r, R) /\ R \subseteq ms /\ MajoritiesMeet
    BY Zenon DEF Call, Sound
<1>10. PICK W \in SUBSET Server :
          /\ Contract(n, i, r, W)
          /\ \A v \in W : \E m \in ms :
                IsVote(m) /\ m.from = v /\ m.to = i /\ m.term = n.term
    BY Zenon DEF Call
<1>11. /\ CoreInv(g) /\ n.term <= T
       /\ n.term = T => n.vote \in {None, g.vote}
       /\ \A m \in r.out : /\ m \in Message /\ m.from = i /\ m.term = T
                           /\ IsVote(m) => m.to = g.vote
                           /\ IsAppend(m) => g.role = Leader
    BY <1>10, Zenon DEF Contract
<1>12. /\ g \in Core /\ T \in Term /\ T \in Nat /\ g.vote \in Server \cup {None}
       /\ g.log \in Seq(Entry) /\ Len(g.log) \in Nat /\ g.commit \in Nat
       /\ g.commit <= Len(g.log) /\ g.role \in {Follower, Candidate, Leader}
       /\ g.match \in [Server -> Nat] /\ g.votes \in SUBSET Server
    BY <1>11, CoreTypes, Zenon
<1>13. g.role # Follower =>
          \/ n.role # Follower /\ T = n.term /\ g.votes \subseteq n.votes \cup W
          \/ T > n.term /\ g.vote = i /\ g.votes \subseteq {i}
    BY <1>10, Zenon DEF Contract
<1>14. /\ n \in Core /\ n.term \in Term /\ n.term \in Nat /\ n.log \in Seq(Entry)
       /\ Len(n.log) \in Nat /\ n.role \in {Follower, Candidate, Leader}
       /\ d[i].term = n.term /\ d[i].vote = n.vote /\ d[i].log = n.log /\ d[i].commit = n.commit
       /\ CoreInv(n)
    BY <1>2, <1>3, <1>4, <1>9, Zenon
\* The group after the call.
<1>15. /\ nd2[i] = g /\ \A j \in Server : j # i => nd2[j] = nd[j]
    BY <1>1, Zenon
<1>16. /\ d2[i].term = T /\ d2[i].vote = g.vote /\ d2[i].log = g.log /\ d2[i].commit = g.commit
       /\ \A j \in Server : j # i => d2[j] = d[j]
    BY <1>1, Zenon DEF Snapshot
<1>17. \A j \in Server : d[j].term <= d2[j].term /\ d2[j].term \in Nat /\ d2[j].term \in Term
    BY <1>4, <1>11, <1>12, <1>14, <1>16
<1>18. \A t \in Term : /\ H2[t] = IF g.role = Leader /\ t = T THEN g.log ELSE H[t]
                       /\ L2[t] = IF g.role = Leader /\ t = T THEN i ELSE L[t]
    BY <1>6, <1>12, Zenon DEF NextH, NextL
<1>19. \A v \in Server : \A t \in Term :
          V2[v][t] = IF v = i /\ t = T THEN g.vote ELSE V[v][t]
    BY <1>6, <1>12, Zenon DEF NextV
<1>20. \A p \in Server : \A t \in Term :
          A2[p][t] = IF p = i /\ t = T
                     THEN Larger(A[i][T], IF g.role = Leader THEN Len(g.log) ELSE K)
                     ELSE A[p][t]
    BY <1>6, <1>12, Zenon DEF NextA
<1>21. K \in Nat
    BY Zenon DEF Call
<1>22. /\ \A t \in Term : Agree(H[t], H2[t], Len(H[t])) /\ (L[t] # None => L2[t] = L[t])
       /\ HistoryTypes(H2, L2, V2, A2) /\ VotesRecorded(V2, nd2, u, d2, ms2)
       /\ LeadersRecorded(H2, L2, V2, nd2, u)
    BY CallElects, Zenon
<1>23. /\ LogsRecorded(H2, d2) /\ RequestsRecorded(H2, L2, nd2, u, d2, ms2)
       /\ AcksRecorded(H2, A2, nd2, u, d2, ms2) /\ AcksKept(H2, A2, d2)
       /\ \A t \in Term : \A k \in Nat : Chosen(A, t, k) => Chosen(A2, t, k)
       /\ \A t \in Term : \A k \in 1..Len(H[t]) :
             Pending(H2, A2, d2, t, k) => Pending(H, A, d, t, k)
    BY CallAppends, Zenon
<1>24. \A t \in Term : H2[t] \in Seq(Entry) /\ Len(H2[t]) \in Nat
    BY <1>22, SeqTypes, Zenon DEF HistoryTypes
<1>25. ms2 \subseteq Message /\ \A m \in ms2 : m \in ms \/ m \in r.out
    BY <1>1, <1>11, Zenon
<1> HIDE DEF n, H2, L2, V2, A2, nd2, d2, ms2, g, T
<1>26. \A v \in Server : \A t \in Term : V[v][t] # None =>
          /\ d[v].term > t \/ (d[v].term = t /\ d[v].vote = V[v][t])
          /\ V[v][t] \in Server /\ d[V[v][t]].term >= t
    BY <1>5, <1>6 DEF VotesRecorded
\* How the log changed: not at all, by a leader's entry, or by a batch.
<1>27. /\ \/ g.log = n.log
          \/ /\ g.role = Leader /\ n.role = Leader
             /\ \E e \in Entry : e.term = n.term /\ g.log = Append(n.log, e)
          \/ \E m \in R : Took(n, r, m)
       /\ g.role = Candidate => T > n.term \/ (n.role = Candidate /\ T = n.term)
       /\ g.role = Leader /\ n.role = Leader => T = n.term
    BY <1>9, Zenon DEF LogContract, GrowContract, RoleContract, g, T, n
<1>28. \A m \in R : Took(n, r, m) => g.role = Follower
    BY Zenon DEF Took, g
<1>29. g.role # Follower /\ ~(g.role = Leader /\ n.role = Leader) => g.log = n.log
    BY <1>27, <1>28, Zenon
\* Leaders: a term that is won had no leader before.
<1>30. ASSUME NEW t \in Term, L[t] # None
       PROVE  \E Q \in SUBSET Server : Cardinality(Q) >= QuorumSize /\ \A q \in Q : V[q][t] = L[t]
    BY <1>30, <1>5, Zenon DEF LeadersRecorded
<1>31. g.role = Leader => /\ g.votes \in SUBSET Server /\ Cardinality(g.votes) >= QuorumSize
                          /\ \A v \in g.votes : V2[v][T] = i
    BY <1>8, <1>9, <1>11, <1>12, <1>15, <1>22, Zenon DEF VotesRecorded, CoreInv, T
<1>32. ASSUME g.role = Leader, n.role = Leader PROVE T = n.term /\ L[T] = i /\ H[T] = n.log
    <2>1. L[n.term] = i /\ H[n.term] = n.log
        BY <1>5, <1>9, <1>32, Zenon DEF LeadersRecorded, n
    <2> QED BY <2>1, <1>27, <1>32, Zenon
<1>33. \A t \in Term : Len(H[t]) <= Len(H2[t])
    BY <1>22, Zenon DEF Agree
<1>34. \A s \in Seq(Entry) : \A t \in Term : \A k \in Nat : Agree(s, H[t], k) => Agree(s, H2[t], k)
    BY <1>7, <1>24, <1>22, AgreeGrown, Zenon
\* A batch that was taken is a stretch of the leader's log.
<1>35. ASSUME NEW m \in R, Took(n, r, m)
       PROVE  /\ m \in ms /\ IsAppend(m) /\ m.term = T /\ L[T] # None
              /\ m.prevIndex + Len(m.entries) \in Nat
              /\ m.prevIndex + Len(m.entries) <= Len(H[T])
              /\ Agree(g.log, H[T], m.prevIndex + Len(m.entries))
              /\ g.log = n.log \/ Len(g.log) = m.prevIndex + Len(m.entries)
              /\ \A l \in 1..Len(n.log) : Agree(n.log, H[T], l) => Agree(n.log, g.log, l)
    <2>1. m \in ms /\ IsAppend(m) /\ m.term = T
        BY <1>9, <1>35, Zenon DEF Took, g, T
    <2>2. m \in AppendRequests
        BY <2>1, <1>1, MessageTypes, Zenon
    <2>3. L[T] # None /\ Stretch(m, H[T])
        BY <2>1, <1>5, Zenon DEF RequestsRecorded
    <2>4. Traced(H, n.log) /\ Traced(H, H[T])
        BY <1>5, <1>12, <1>14, Zenon DEF LogsRecorded
    <2>5. /\ m.prevIndex + Len(m.entries) \in Nat
          /\ m.prevIndex + Len(m.entries) <= Len(H[T])
          /\ Agree(g.log, H[T], m.prevIndex + Len(m.entries))
          /\ g.log = n.log \/ Len(g.log) = m.prevIndex + Len(m.entries)
          /\ \A l \in 1..Len(n.log) : Agree(n.log, H[T], l) => Agree(n.log, g.log, l)
        BY <2>2, <2>3, <2>4, <1>7, <1>12, <1>14, <1>35, TookOK, Zenon DEF g, T
    <2> QED BY <2>1, <2>3, <2>5, Zenon
<1>36. Traced(H, n.log) /\ Ordered(n.log, n.term)
    BY <1>5, <1>14, Zenon DEF LogsRecorded
\* Requests.
<1>37. /\ \A m \in r.out : IsAppend(m) => Stretch(m, g.log) /\ m.commit = g.commit
       /\ \A m \in r.out : IsRequest(m) =>
             m.lastIndex = LastIndex(g) /\ m.lastTerm = LastTerm(g)
    BY <1>9, Zenon DEF LogContract, OutContract, g
\* Acknowledgements.
<1>38. \A p \in Server : \A t \in Term : /\ A[p][t] \in Nat /\ A2[p][t] \in Nat
                                         /\ A[p][t] <= A2[p][t]
    <2>1. A2 \in [Server -> [Term -> Nat]]
        BY <1>22, Zenon DEF HistoryTypes
    <2>2. \A p \in Server : \A t \in Term : A[p][t] \in Nat /\ A2[p][t] \in Nat
        BY <2>1, <1>6, Zenon
    <2>3. A[i][T] <= A2[i][T]
        <3>1. A[i][T] \in Nat
            BY <2>2, <1>12, Zenon
        <3> QED BY <3>1, <1>12, <1>20, <1>21 DEF Larger
    <2> QED BY <2>2, <2>3, <1>20
<1>39. /\ \A p \in Server : \A t \in Term :
             A[p][t] <= Len(H[t]) /\ (A[p][t] # 0 => t <= d[p].term)
       /\ \A p \in Server : Agree(d[p].log, H[d[p].term], A[p][d[p].term])
       /\ \A m \in ms : IsAck(m) => m.match <= A[m.from][m.term]
       /\ \A j \in Server : u[j] /\ nd[j].role = Leader =>
             /\ Len(nd[j].log) <= A[j][nd[j].term]
             /\ \A p \in Peers(j) : nd[j].match[p] <= A[p][nd[j].term]
    BY <1>5, Zenon DEF AcksRecorded
<1>40. g.role = Leader => Len(g.log) <= A2[i][T]
    BY <1>6, <1>12, <1>20 DEF Larger
<1>41. \A t \in Term : \A k \in 1..Len(H[t]) :
          H2[t][k] = H[t][k] /\ (Pending(H2, A2, d2, t, k) => Pending(H, A, d, t, k))
    BY <1>22, <1>23, Zenon DEF Agree
<1>42. ASSUME NEW t \in Term, NEW k \in 1..Len(H2[t]), Pending(H2, A2, d2, t, k),
              ~(k <= Len(H[t]))
       PROVE  g.role = Leader /\ n.role = Leader /\ t = T
    <2>1. g.role = Leader /\ t = T
        BY <1>7, <1>18, <1>42
    <2>2. ASSUME n.role # Leader PROVE FALSE
        <3>1. g.log = n.log /\ H2[T] = n.log
            BY <2>1, <2>2, <1>8, <1>12, <1>18, <1>29, Zenon
        <3>2. k \in 1..Len(n.log) /\ n.log[k].term = T
            BY <2>1, <3>1, <1>42, Zenon DEF Pending
        <3>3. Agree(n.log, H[T], k)
            BY <3>2, <1>36, Zenon DEF Traced
        <3> QED BY <2>1, <3>3, <1>42, Zenon DEF Agree
    <2> QED BY <2>1, <2>2, Zenon
<1>43. \A t \in Term : \A p \in Server : \A k \in 1..A[p][t] : k \in 1..Len(H[t])
    BY <1>7, <1>38, <1>39
\* A member's log ends no earlier than what it acknowledged.
<1>44. ASSUME NEW t \in Term, NEW k \in 1..A[i][t], Pending(H, A, d, t, k)
       PROVE  /\ Agree(n.log, H[t], k) /\ k <= Len(n.log) /\ t <= LastTerm(n)
              /\ LastTerm(n) \in Nat /\ UpToDate(n.log, t, k)
    <2>1. Agree(n.log, H[t], k)
        BY <1>5, <1>14, <1>44, Zenon DEF AcksKept
    <2>2. k \in 1..Len(n.log) /\ k \in 1..k
        BY <2>1, <1>14, <1>38 DEF Agree
    <2>3. n.log[k].term = t
        BY <2>1, <2>2, <1>44, Zenon DEF Agree, Pending
    <2>4. t <= TermAt(n.log, Len(n.log))
        BY <2>2, <2>3, <1>14, <1>36, OrderedEnd, Zenon
    <2>5. TermAt(n.log, Len(n.log)) \in Nat
        <3>1. Len(n.log) \in 0..Len(n.log)
            BY <1>14
        <3> QED BY <3>1, <1>14, TermAtOK, RaftConstants DEF Term
    <2> QED BY <2>1, <2>2, <2>4, <2>5, <1>7, <1>14 DEF UpToDate, LastTerm
<1>45. VotersOutdone(H2, V2, A2, nd2, u, d2)
    <2> SUFFICES ASSUME NEW j \in Server, u[j], nd2[j].role = Candidate,
                        NEW v \in Server, NEW S, S = nd2[j].term, V2[v][S] = j,
                        NEW t \in Term, t < S, NEW k \in 1..A2[v][t], Pending(H2, A2, d2, t, k)
                 PROVE  UpToDate(nd2[j].log, t, k)
        BY Zenon DEF VotersOutdone
    <2>1. S \in Term /\ S \in Nat
        BY <1>2, <1>12, <1>15, Zenon DEF T
    <2>2. ~(v = i /\ t = T)
        <3> SUFFICES ASSUME v = i, t = T PROVE FALSE
            OBVIOUS
        <3>0. S # T
            BY <2>1, <1>12
        <3>1. V[i][S] = j /\ V[i][S] # None
            BY <2>1, <3>0, <1>8, <1>19
        <3>2. d[i].term >= S
            BY <2>1, <3>1, <1>4, <1>26
        <3> QED BY <2>1, <3>2, <1>7, <1>11, <1>12, <1>14
    <2>3. k \in 1..A[v][t] /\ Pending(H, A, d, t, k)
        BY <2>2, <1>20, <1>41, <1>43, Zenon
    <2>4. ASSUME V[v][S] = j, nd[j].role = Candidate, nd[j].term = S, nd2[j].log = nd[j].log
          PROVE  UpToDate(nd2[j].log, t, k)
        BY <2>3, <2>4, <1>5, Zenon DEF VotersOutdone
    <2>5. CASE j = i
        <3>1. g.role = Candidate /\ S = T /\ nd2[j].log = g.log
            BY <2>5, <1>15, Zenon DEF T
        <3>2. g.log = n.log
            BY <3>1, <1>8, <1>29, Zenon
        <3>3. CASE n.role = Candidate /\ T = n.term
            <4>1. V[i][T] = i
                BY <3>3, <1>5, <1>8, <1>9, Zenon DEF VotesRecorded, n
            <4>2. V[v][S] = j
                BY <2>1, <2>5, <3>1, <4>1, <1>19, Zenon
            <4> QED BY <2>4, <2>5, <3>1, <3>2, <3>3, <4>2, Zenon DEF n
        <3>4. CASE T > n.term
            <4>1. v = i
                <5> SUFFICES ASSUME v # i PROVE FALSE
                    OBVIOUS
                <5>1. V[v][T] = i
                    BY <2>5, <3>1, <1>12, <1>19
                <5>2. d[i].term >= T
                    BY <5>1, <1>8, <1>12, <1>26, Zenon
                <5> QED BY <3>4, <5>2, <1>12, <1>14
            <4> QED BY <2>3, <3>1, <3>2, <4>1, <1>44, Zenon
        <3> QED BY <3>1, <3>3, <3>4, <1>27, Zenon
    <2>6. CASE j # i
        <3>1. nd2[j] = nd[j]
            BY <2>6, <1>15, Zenon
        <3>2. CASE V[v][S] = j
            BY <2>4, <3>1, <3>2, Zenon
        <3>3. CASE V[v][S] # j
            <4>1. v = i /\ S = T /\ g.vote = j
                BY <2>1, <3>3, <1>19
            <4>2. ~(g.vote = n.vote /\ T = n.term)
                <5> SUFFICES ASSUME g.vote = n.vote, T = n.term PROVE FALSE
                    OBVIOUS
                <5>1. d[i].vote = j /\ d[i].term = T /\ j # None
                    BY <4>1, <1>8, <1>14, Zenon
                <5>2. V[i][T] = j
                    BY <5>1, <1>5 DEF VotesRecorded
                <5> QED BY <3>3, <4>1, <5>2, Zenon
            <4>3. PICK m \in R : IsRequest(m) /\ m.from = j /\ m.term = T /\ Passes(m, n)
                BY <2>6, <4>1, <4>2, <1>8, <1>9, Zenon DEF LogContract, VoteContract, g, T, n
            <4>4. m.lastIndex = LastIndex(nd[j]) /\ m.lastTerm = LastTerm(nd[j])
                BY <3>1, <4>1, <4>3, <1>5, <1>9, Zenon DEF RequestsRecorded
            <4>5. k \in Nat /\ k <= Len(n.log) /\ t <= LastTerm(n) /\ LastTerm(n) \in Nat
                BY <2>3, <4>1, <1>38, <1>44
            <4>6. LastTerm(nd[j]) \in Nat /\ Len(nd[j].log) \in Nat
                <5>1. nd[j].log \in Seq(Entry) /\ Len(nd[j].log) \in Nat
                    BY <1>2, SeqTypes, Zenon
                <5>2. Len(nd[j].log) \in 0..Len(nd[j].log)
                    BY <5>1
                <5> QED BY <5>1, <5>2, TermAtOK, RaftConstants DEF Term, LastTerm
            <4> QED BY <3>1, <4>3, <4>4, <4>5, <4>6, <1>7, <1>14
                    DEF Passes, UpToDate, LastTerm, LastIndex
        <3> QED BY <3>2, <3>3, Zenon
    <2> QED BY <2>5, <2>6, Zenon
\* A new leader holds what may be committed; nothing new may be committed in a
\* term that has a later leader.
<1>46. LeadersComplete(H2, L2, A2, d2)
    <2> SUFFICES ASSUME NEW t \in Term, NEW b \in Term, t < b, L2[b] # None,
                        NEW k \in 1..Len(H2[t]), Pending(H2, A2, d2, t, k)
                 PROVE  Agree(H2[b], H2[t], k)
        BY Zenon DEF LeadersComplete
    <2>0. k \in Nat /\ k >= 1 /\ t \in Nat /\ b \in Nat
        BY <1>7, <1>24
    <2>1. PICK Q \in SUBSET Server :
             /\ Cardinality(Q) >= QuorumSize
             /\ \A q \in Q : k <= A2[q][t] \/ d2[q].term <= t
        BY Zenon DEF Pending, Choosable
    <2>2. CASE ~(k <= Len(H[t]))
        <3>1. g.role = Leader /\ n.role = Leader /\ t = T
            BY <2>2, <1>42, Zenon
        <3>2. T = n.term /\ L[b] # None
            BY <2>0, <3>1, <1>18, <1>32, Zenon
        <3>3. PICK P \in SUBSET Server : Cardinality(P) >= QuorumSize /\ \A q \in P : V[q][b] = L[b]
            BY <3>2, <1>30, Zenon
        <3>4. PICK q \in Server : q \in P /\ q \in Q
            BY <2>1, <3>3, <1>9, Zenon DEF MajoritiesMeet
        <3>5. d[q].term >= b
            <4>1. V[q][b] # None
                BY <3>2, <3>3, <3>4, Zenon
            <4>2. d[q].term > b \/ d[q].term = b
                BY <4>1, <1>26, Zenon
            <4> QED BY <2>0, <4>2, <1>4
        <3>6. q # i
            BY <2>0, <3>1, <3>2, <3>5, <1>14
        <3>7. ~(d2[q].term <= t) /\ A2[q][t] = A[q][t]
            BY <2>0, <3>5, <3>6, <1>4, <1>16, <1>20
        <3>8. k <= A[q][t]
            BY <2>1, <3>4, <3>7, Zenon
        <3>9. A[q][t] <= Len(H[t])
            BY <1>39, Zenon
        <3> QED BY <2>0, <2>2, <3>8, <3>9, <1>7, <1>38
    <2>3. CASE k <= Len(H[t])
        <3>1. k \in 1..Len(H[t]) /\ Pending(H, A, d, t, k)
            BY <2>0, <2>3, <1>7, <1>41
        <3>2. ASSUME Agree(H2[b], H[t], k) PROVE Agree(H2[b], H2[t], k)
            BY <2>0, <3>2, <1>24, <1>34, Zenon
        <3>3. CASE L[b] # None
            <4>1. Agree(H[b], H[t], k)
                BY <3>1, <3>3, <1>5, Zenon DEF LeadersComplete
            <4>2. Agree(H2[b], H[t], k)
                BY <2>0, <4>1, <1>7, <1>34, AgreeSym, Zenon
            <4> QED BY <3>2, <4>2, Zenon
        <3>4. CASE L[b] = None
            <4>1. g.role = Leader /\ n.role # Leader /\ b = T
                BY <3>4, <1>8, <1>18, <1>32, Zenon
            <4>2. g.log = n.log /\ H2[b] = n.log
                BY <4>1, <1>8, <1>12, <1>18, <1>29, Zenon
            <4>3. PICK v \in Server : v \in Q /\ v \in g.votes
                BY <2>1, <4>1, <1>31, <1>9, Zenon DEF MajoritiesMeet
            <4>4. V2[v][T] = i
                BY <4>1, <4>3, <1>31, Zenon
            <4>5. d2[v].term >= T
                BY <4>4, <1>8, <1>12, <1>17, <1>22 DEF VotesRecorded
            <4>6. k <= A2[v][t] /\ A2[v][t] = A[v][t]
                BY <2>0, <2>1, <4>1, <4>3, <4>5, <1>17, <1>20
            <4>7. k \in 1..A[v][t]
                BY <2>0, <4>6, <1>38
            <4>8. CASE T > n.term
                <5>1. v = i
                    <6> SUFFICES ASSUME v # i PROVE FALSE
                        OBVIOUS
                    <6>1. V[v][T] = i
                        BY <4>4, <1>12, <1>19, Zenon
                    <6>2. d[i].term >= T
                        BY <6>1, <1>8, <1>12, <1>26, Zenon
                    <6> QED BY <4>8, <6>2, <1>12, <1>14
                <5>2. Agree(n.log, H[t], k)
                    BY <3>1, <4>7, <5>1, <1>44, Zenon
                <5> QED BY <3>2, <4>2, <5>2, Zenon
            <4>9. CASE n.role # Follower /\ T = n.term
                <5>1. n.role = Candidate
                    BY <4>1, <4>9, <1>14, Zenon
                <5>2. V[i][T] = i
                    BY <4>9, <1>5, <1>9, Zenon DEF VotesRecorded, n
                <5>3. V[v][T] = i
                    BY <4>4, <5>2, <1>12, <1>19, Zenon
                <5>4. UpToDate(n.log, t, k)
                    BY <3>1, <4>1, <4>7, <4>9, <5>1, <5>3, <1>5, <1>9, Zenon DEF VotersOutdone, n
                <5> DEFINE e == Len(n.log)
                           s == TermAt(n.log, e)
                <5>5. s > t \/ (s = t /\ e >= k)
                    BY <5>4, Zenon DEF UpToDate
                <5>6. t # 0
                    BY <3>1, <1>5, Zenon DEF Pending, LogsRecorded, Ordered
                <5>7. e \in Nat /\ s \in Term /\ s \in Nat
                    <6>1. e \in 0..e
                        BY <1>14
                    <6>2. s \in Term
                        BY <6>1, <1>14, TermAtOK, Zenon
                    <6> QED BY <6>2, <1>7, <1>14, Zenon
                <5>8. e \in 1..e /\ s = n.log[e].term
                    <6>1. e # 0
                        BY <2>0, <5>5, <5>6 DEF TermAt
                    <6> QED BY <5>7, <6>1 DEF TermAt
                <5>9. Agree(n.log, H[s], e)
                    BY <5>8, <1>36, Zenon DEF Traced
                <5> HIDE DEF e, s
                <5>10. CASE s = t
                    <6>1. k <= e
                        BY <2>0, <5>5, <5>7, <5>10
                    <6>2. Agree(n.log, H[t], k)
                        BY <2>0, <5>7, <5>9, <5>10, <6>1, <1>7, <1>14, AgreeLess, Zenon
                    <6> QED BY <3>2, <4>2, <6>2, Zenon
                <5>11. CASE s > t
                    <6>1. e <= Len(H[s]) /\ Len(H[s]) \in Nat
                        BY <5>7, <5>9, <1>7, Zenon DEF Agree
                    <6>2. L[s] # None
                        <7> SUFFICES ASSUME L[s] = None PROVE FALSE
                            OBVIOUS
                        <7>1. H[s] = <<>>
                            BY <5>7, <1>5, Zenon DEF LeadersRecorded
                        <7>2. Len(H[s]) = 0
                            BY <7>1, SeqEmpty, Zenon
                        <7> QED BY <5>7, <5>8, <6>1, <7>2
                    <6>3. Agree(H[s], H[t], k)
                        BY <2>0, <3>1, <5>7, <5>11, <6>2, <1>5, Zenon DEF LeadersComplete
                    <6>4. k <= e
                        <7> SUFFICES ASSUME ~(k <= e) PROVE FALSE
                            OBVIOUS
                        <7>1. k \in 1..Len(H[s]) /\ e \in 1..k /\ k \in 1..k
                            BY <2>0, <5>7, <5>8, <6>1, <6>3 DEF Agree
                        <7>2. H[s][e].term = s
                            BY <5>8, <5>9, Zenon DEF Agree
                        <7>3. H[s][k].term = t
                            BY <3>1, <6>3, <7>1, Zenon DEF Agree, Pending
                        <7>4. s <= t
                            BY <5>7, <7>1, <7>2, <7>3, <1>5, Zenon DEF LogsRecorded, Ordered
                        <7> QED BY <2>0, <5>7, <5>11, <7>4
                    <6>5. Agree(n.log, H[s], k)
                        BY <2>0, <5>7, <5>9, <6>4, <1>7, <1>14, AgreeLess, Zenon
                    <6>6. Agree(n.log, H[t], k)
                        BY <6>3, <6>5, AgreeTrans, Zenon
                    <6> QED BY <3>2, <4>2, <6>6, Zenon
                <5> QED BY <5>5, <5>10, <5>11, Zenon
            <4> QED BY <4>1, <4>8, <4>9, <1>8, <1>13, Zenon
        <3> QED BY <3>3, <3>4, Zenon
    <2> QED BY <2>2, <2>3, Zenon
\* Commit indexes.
<1>47. ASSUME NEW s \in Seq(Entry), NEW z \in Seq(Entry), NEW t \in Nat, NEW w \in Nat, NEW c \in Nat,
              Decided(H, A, s, t, c), t <= w, c # 0 => Agree(z, s, c)
       PROVE  Decided(H2, A2, z, w, c)
    <2>1. CASE c = 0
        BY <2>1, Zenon DEF Decided
    <2>2. CASE c # 0
        <3>0. PICK b \in Term : \E k \in 1..Len(H[b]) :
                 /\ b <= t /\ c <= k /\ H[b][k].term = b /\ Chosen(A, b, k)
                 /\ Agree(s, H[b], c)
            BY <2>2, <1>47, Zenon DEF Decided
        <3>1. PICK k \in 1..Len(H[b]) :
                 /\ b <= t /\ c <= k /\ H[b][k].term = b /\ Chosen(A, b, k)
                 /\ Agree(s, H[b], c)
            BY <3>0, Zenon
        <3>2. b \in Nat /\ k \in Nat /\ k \in 1..Len(H2[b]) /\ H2[b][k] = H[b][k]
            BY <1>7, <1>24, <1>33, <1>41
        <3>3. b <= w
            BY <3>1, <3>2, <1>47
        <3>4. Chosen(A2, b, k)
            BY <3>1, <3>2, <1>23, Zenon
        <3>5. Agree(z, H2[b], c)
            <4>1. Agree(z, H[b], c)
                BY <2>2, <3>1, <1>47, AgreeTrans, Zenon
            <4> QED BY <4>1, <1>34, Zenon
        <3> QED BY <3>1, <3>2, <3>3, <3>4, <3>5, Zenon DEF Decided
    <2> QED BY <2>1, <2>2, Zenon
<1>48. \A s : \A t : \A c : Decided(H, A, s, t, c) => c = 0 \/ c <= Len(s)
    BY Zenon DEF Decided, Agree
<1>49. Decided(H2, A2, g.log, T, g.commit)
    <2>1. CASE g.commit = n.commit
        <3>1. Agree(g.log, n.log, n.commit)
            <4>1. Prefix(g.log, n.commit) = Prefix(n.log, n.commit)
                BY <1>10, Zenon DEF Contract, g
            <4>2. n.commit \in Nat /\ n.commit <= Len(n.log)
                BY <1>4, <1>14, Zenon
            <4> QED BY <2>1, <4>1, <4>2, <1>12, <1>14, PrefixAgree, Zenon
        <3>2. Decided(H, A, n.log, n.term, n.commit)
            BY <1>5, <1>14, Zenon DEF CommitsDecided
        <3> QED BY <2>1, <3>1, <3>2, <1>11, <1>12, <1>14, <1>47, Zenon
    <2>2. CASE /\ g.role = Leader /\ g.commit # 0 /\ TermAt(g.log, g.commit) = T
               /\ Cardinality(Holding(g, i, g.commit)) >= QuorumSize
        <3> DEFINE c == g.commit
        <3>1. H2[T] = g.log /\ c \in 1..Len(H2[T]) /\ H2[T][c].term = T
            BY <2>2, <1>12, <1>18 DEF TermAt
        <3>2. \A q \in Holding(g, i, c) : q \in Server /\ c <= A2[q][T]
            <4> TAKE q \in Holding(g, i, c)
            <4>1. CASE q = i
                <5>1. c <= Len(g.log)
                    BY <1>12, Zenon
                <5> QED BY <2>2, <4>1, <5>1, <1>12, <1>38, <1>40
            <4>2. CASE q # i
                <5>0. q \in Server /\ Smaller(g.match[q], LastIndex(g)) >= c
                    BY <4>2, Zenon DEF Holding
                <5>1. g.match[q] \in Nat /\ LastIndex(g) \in Nat
                    BY <5>0, <1>12, Zenon DEF LastIndex
                <5>2. g.match[q] >= c
                    BY <5>0, <5>1, <1>12 DEF Smaller
                <5>3. g.match[q] <= A2[q][T]
                    BY <2>2, <4>2, <5>0, <1>9, <1>15, <1>23, Zenon DEF AcksRecorded, Peers, T
                <5> QED BY <5>0, <5>1, <5>2, <5>3, <1>12, <1>38
            <4> QED BY <4>1, <4>2, Zenon
        <3>3. Chosen(A2, T, c)
            BY <2>2, <3>2, Zenon DEF Chosen
        <3>4. Agree(g.log, H2[T], c)
            BY <3>1, <1>12, AgreeSelf, Zenon
        <3> QED BY <3>1, <3>3, <3>4, <1>12 DEF Decided
    <2>3. ASSUME NEW m \in R, Took(n, r, m), g.commit <= m.commit,
                 g.commit <= m.prevIndex + Len(m.entries)
          PROVE  Decided(H2, A2, g.log, T, g.commit)
        <3>1. /\ m \in ms /\ IsAppend(m) /\ m.term = T
              /\ m.prevIndex + Len(m.entries) \in Nat
              /\ Agree(g.log, H[T], m.prevIndex + Len(m.entries))
            BY <2>3, <1>35, Zenon
        <3>2. Decided(H, A, H[T], T, m.commit)
            BY <3>1, <1>5, Zenon DEF CommitsDecided
        <3>3. m.commit \in Nat
            BY <3>1, <1>1, MessageTypes, Zenon DEF AppendRequests
        <3>4. Agree(g.log, H[T], g.commit)
            BY <2>3, <3>1, <1>7, <1>12, AgreeLess, Zenon
        <3>5. Decided(H, A, H[T], T, g.commit)
            <4>1. CASE g.commit = 0
                BY <4>1, Zenon DEF Decided
            <4>2. CASE g.commit # 0
                <5>1. m.commit # 0
                    BY <2>3, <3>3, <4>2, <1>12
                <5>0. PICK b \in Term : \E k \in 1..Len(H[b]) :
                         /\ b <= T /\ m.commit <= k /\ H[b][k].term = b /\ Chosen(A, b, k)
                         /\ Agree(H[T], H[b], m.commit)
                    BY <3>2, <5>1, Zenon DEF Decided
                <5>2. PICK k \in 1..Len(H[b]) :
                         /\ b <= T /\ m.commit <= k /\ H[b][k].term = b /\ Chosen(A, b, k)
                         /\ Agree(H[T], H[b], m.commit)
                    BY <5>0, Zenon
                <5>3. k \in Nat /\ g.commit <= k
                    BY <2>3, <3>3, <5>2, <1>7, <1>12
                <5>4. Agree(H[T], H[b], g.commit)
                    BY <2>3, <3>3, <5>2, <1>7, <1>12, AgreeLess, Zenon
                <5> QED BY <5>2, <5>3, <5>4, Zenon DEF Decided
            <4> QED BY <4>1, <4>2, Zenon
        <3> QED BY <3>4, <3>5, <1>7, <1>12, <1>47
    <2> QED BY <2>1, <2>2, <2>3, <1>9, Zenon DEF LogContract, CommitContract, g, T, n
<1>50. CommitsDecided(H2, A2, d2, ms2)
    <2>1. ASSUME NEW j \in Server PROVE Decided(H2, A2, d2[j].log, d2[j].term, d2[j].commit)
        <3>1. CASE j = i
            BY <3>1, <1>16, <1>49, Zenon
        <3>2. CASE j # i
            <4>1. Decided(H, A, d[j].log, d[j].term, d[j].commit)
                BY <1>5, Zenon DEF CommitsDecided
            <4>2. Agree(d[j].log, d[j].log, d[j].commit)
                BY <1>4, AgreeSelf, Zenon
            <4> QED BY <3>2, <4>1, <4>2, <1>4, <1>16, <1>47
        <3> QED BY <3>1, <3>2, Zenon
    <2>2. ASSUME NEW m \in ms2, IsAppend(m) PROVE Decided(H2, A2, H2[m.term], m.term, m.commit)
        <3>1. m.term \in Term /\ m.term \in Nat /\ m \in AppendRequests
            BY <2>2, <1>25, MessageTypes, Zenon
        <3>2. m.commit \in Nat
            BY <3>1, Zenon DEF AppendRequests
        <3>3. CASE m \in ms
            <4>1. Decided(H, A, H[m.term], m.term, m.commit)
                BY <2>2, <3>3, <1>5, Zenon DEF CommitsDecided
            <4>2. m.commit # 0 => m.commit <= Len(H[m.term])
                BY <4>1, <1>48, Zenon
            <4>3. m.commit # 0 => Agree(H2[m.term], H[m.term], m.commit)
                <5>1. Agree(H[m.term], H2[m.term], Len(H[m.term]))
                    BY <3>1, <1>22, Zenon
                <5> QED BY <3>1, <3>2, <4>2, <5>1, <1>7, <1>24, AgreeLess, AgreeSym, Zenon
            <4> QED BY <3>1, <3>2, <4>1, <4>3, <1>7, <1>24, <1>47
        <3>4. CASE m \in r.out
            <4>1. m.term = T /\ g.role = Leader /\ m.commit = g.commit
                BY <2>2, <3>4, <1>11, <1>37, Zenon
            <4> QED BY <4>1, <1>12, <1>18, <1>49, Zenon
        <3> QED BY <3>3, <3>4, <1>25, Zenon
    <2> QED BY <2>1, <2>2, Zenon DEF CommitsDecided
<1>51. Recorded(H2, L2, V2, A2, nd2, u, d2, ms2)
    BY <1>22, <1>23, <1>45, <1>46, <1>50, Zenon DEF Recorded
<1> QED BY <1>51, Zenon DEF H2, L2, V2, A2, nd2, d2, ms2, g
=============================================================================
