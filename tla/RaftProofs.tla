----------------------------- MODULE RaftProofs -----------------------------
(***************************************************************************)
(* Proofs about a Raft group of any size, any term bound and log capacity, *)
(* and any number of faults.                                               *)
(***************************************************************************)
EXTENDS RaftCoreProofs

\* What a snapshot that replaces another keeps: the term, the vote in it and
\* the committed prefix.
Advances(s, t) ==
    /\ s.term <= t.term
    /\ s.term = t.term => s.vote \in {None, t.vote}
    /\ s.commit <= t.commit
    /\ Prefix(t.log, s.commit) = Prefix(s.log, s.commit)

\* A call that keeps the contract only advances the snapshot.
LEMMA ContractAdvances ==
    ASSUME NEW n, NEW i, NEW r, NEW V, Contract(n, i, r, V)
    PROVE  Advances(Snapshot(n), Snapshot(r.n))
BY Zenon DEF Contract, Advances, Snapshot

\* A fresh core is sound.
LEMMA NewCoreOK == CoreInv(NewCore) /\ NewCore.role = Follower
<1> USE SMTT(60)
<1>1. NoNext \in [Server -> Nat] /\ NoIndex \in [Server -> Nat]
    BY Zenon DEF NoNext, NoIndex
<1>2. <<>> \in Seq(Entry) /\ Len(<<>>) = 0 /\ Prefix(<<>>, 0) = <<>>
    <2>1. 0 < 1
        OBVIOUS
    <2> QED BY <2>1, SeqEmpty DEF Prefix
<1>3. 0 \in Term
    BY RaftConstants DEF Term
<1>4. Follower # Leader
    BY Zenon DEF Follower, Leader
<1>5. /\ NewCore \in Core /\ NewCore.role = Follower /\ NewCore.log = <<>>
      /\ NewCore.commit = 0 /\ NewCore.applied = <<>>
    BY <1>1, <1>2, <1>3, Zenon DEF NewCore, Core
<1> QED BY <1>2, <1>4, <1>5 DEF CoreInv

\* open: the recovered core is sound and its snapshot is the one loaded.
LEMMA RecoveredOK ==
    ASSUME NEW s \in Saved, s.commit <= Len(s.log), NEW n, n = Recovered(s)
    PROVE  CoreInv(n) /\ n.role = Follower /\ Snapshot(n) = s
<1> USE SMTT(60)
<1>1. /\ s.term \in Term /\ s.vote \in Server \cup {None} /\ s.log \in Seq(Entry)
      /\ s.commit \in Nat
    BY Zenon DEF Saved
<1>2. Prefix(s.log, s.commit) \in Seq(Entry)
    BY <1>1, SliceOK DEF Prefix
<1>3. NewCore \in Core /\ NewCore.role = Follower
    BY NewCoreOK, CoreTypes, Zenon
<1>4. n = [NewCore EXCEPT !.term = s.term, !.vote = s.vote, !.log = s.log,
                          !.commit = s.commit, !.applied = Prefix(s.log, s.commit)]
    BY Zenon DEF Recovered, Prefix
<1>5. /\ n \in Core /\ n.role = Follower /\ n.log = s.log /\ n.term = s.term
      /\ n.vote = s.vote /\ n.commit = s.commit /\ n.applied = Prefix(s.log, s.commit)
    BY <1>1, <1>2, <1>3, <1>4, Zenon DEF Core
<1>6. Follower # Leader
    BY Zenon DEF Follower, Leader
<1>7. CoreInv(n)
    BY <1>5, <1>6, Zenon DEF CoreInv
<1>8. Snapshot(n) = s
    BY <1>5 DEF Snapshot, Saved
<1> QED BY <1>5, <1>7, <1>8, Zenon

-----------------------------------------------------------------------------
(* The invariant holds initially *)

\* The invariant holds when every member has opened an empty directory.
LEMMA InitInv == Init => IInv
<1> USE SMTT(60)
<1> SUFFICES ASSUME Init PROVE IInv
    OBVIOUS
<1> USE DEF Init, OwnersInit
<1>1. CoreInv(NewCore) /\ NewCore \in Core /\ NewCore.role = Follower
    BY NewCoreOK, CoreTypes
<1>2. /\ Snapshot(NewCore) \in Saved
      /\ Snapshot(NewCore).commit <= Len(Snapshot(NewCore).log)
    BY <1>1, SnapshotOK, Zenon
<1>3. TypeOK
    BY <1>1, <1>2, Zenon DEF TypeOK
<1>4. Leader # Follower
    BY Zenon DEF Leader, Follower
<1>5. \A i \in Server : node[i].role = Follower
    BY <1>1, Zenon
<1>6. \A i \in Server : \A t \in Term : ~Led(i, t)
    BY <1>4, <1>5, Zenon DEF Led, IsLeader
<1>7. \A v, c \in Server : \A t \in Term : ~Ballot(v, t, c)
    BY <1>5 DEF Ballot, Campaigned
<1>8. BallotsKept /\ BallotsUnique /\ VotesCounted /\ LedByQuorum
    BY <1>5, <1>6, <1>7 DEF BallotsKept, BallotsUnique, VotesCounted, LedByQuorum
<1> QED BY <1>1, <1>2, <1>3, <1>8, Zenon DEF IInv

-----------------------------------------------------------------------------
(* A call whose publication succeeds *)

\* finish, when the publication succeeds, keeps the invariant.
LEMMA PublishedInv ==
    ASSUME IInv, NEW i \in Server, up[i], NEW r, NEW V \in SUBSET Server,
           Contract(node[i], i, r, V),
           \A v \in V : Ballot(v, node[i].term, i),
           Published(i, r), msgs' = msgs \cup r.out
    PROVE  IInv' /\ \A j \in Server : Advances(disk[j], disk'[j])
<1> USE SMTT(60)
<1> DEFINE n == node[i]
<1>1. /\ node \in [Server -> Core] /\ up \in [Server -> BOOLEAN]
      /\ disk \in [Server -> Saved] /\ faults \in Nat /\ msgs \subseteq Message
    BY Zenon DEF IInv, TypeOK
<1>2. CoreInv(n) /\ disk[i] = Snapshot(n) /\ CoreInv(r.n)
    BY Zenon DEF IInv, Contract
<1>3. /\ node' = [node EXCEPT ![i] = r.n] /\ disk' = [disk EXCEPT ![i] = Snapshot(r.n)]
      /\ up' = up /\ faults' = faults
    BY Zenon DEF Published
<1>4. /\ node'[i] = r.n /\ disk'[i] = Snapshot(r.n)
      /\ \A j \in Server : j # i => node'[j] = node[j] /\ disk'[j] = disk[j]
    BY <1>1, <1>3
<1>5. r.n \in Core /\ Snapshot(r.n) \in Saved /\ Snapshot(r.n).commit <= Len(Snapshot(r.n).log)
    BY <1>2, CoreTypes, SnapshotOK, Zenon
<1>6. TypeOK'
    <2>1. msgs' \subseteq Message
        BY <1>1 DEF Contract
    <2> QED BY <1>1, <1>3, <1>5, <2>1, Zenon DEF TypeOK
<1>7. \A j \in Server : CoreInv(node'[j])
    BY <1>2, <1>4, Zenon DEF IInv
<1>8. \A j \in Server : up'[j] => Snapshot(node'[j]) = disk'[j]
    BY <1>3, <1>4 DEF IInv
<1>9. \A j \in Server : disk'[j].commit <= Len(disk'[j].log)
    BY <1>4, <1>5, Zenon DEF IInv
<1>10. Advances(disk[i], disk'[i])
    BY <1>2, <1>4, ContractAdvances, Zenon
<1>11. \A j \in Server : Advances(disk[j], disk'[j])
    <2> TAKE j \in Server
    <2>1. CASE j # i
        <3>1. disk[j].term \in Nat /\ disk[j].commit \in Nat
            BY <1>1, RaftConstants DEF Saved, Term
        <3> QED BY <2>1, <3>1, <1>4 DEF Advances
    <2> QED BY <2>1, <1>10
<1>12. /\ r.n.term \in Nat /\ r.n.term \in Term /\ n.term \in Nat /\ n.term \in Term
       /\ disk[i].term = n.term /\ disk[i].vote = n.vote
       /\ disk'[i].term = r.n.term /\ disk'[i].vote = r.n.vote
    BY <1>2, <1>4, CoreTypes DEF Snapshot
<1>13. Leader # Follower
    BY Zenon DEF Leader, Follower
\* A ballot that appears in this step is the vote just published.
<1>14. ASSUME NEW v \in Server, NEW c \in Server, NEW t \in Term, Ballot(v, t, c)'
       PROVE  Ballot(v, t, c) \/ (v = i /\ t = r.n.term /\ c = r.n.vote)
    <2>1. CASE \E m \in msgs' : IsVote(m) /\ m.from = v /\ m.to = c /\ m.term = t
        <3>1. PICK m \in msgs' : IsVote(m) /\ m.from = v /\ m.to = c /\ m.term = t
            BY <2>1
        <3>2. CASE m \in msgs
            BY <3>1, <3>2 DEF Ballot
        <3>3. CASE m \in r.out
            BY <3>1, <3>3, Zenon DEF Contract
        <3> QED BY <3>2, <3>3, Zenon
    <2>2. ASSUME v = c, c = i, r.n.role # Follower, t = r.n.term
          PROVE  Ballot(v, t, c) \/ (v = i /\ t = r.n.term /\ c = r.n.vote)
        <3>1. CASE n.role # Follower /\ r.n.term = n.term
            BY <2>2, <3>1, Zenon DEF Ballot, Campaigned
        <3>2. CASE r.n.vote = i
            BY <2>2, <3>2, Zenon
        <3> QED BY <2>2, <3>1, <3>2 DEF Contract
    <2>3. CASE v = c /\ Campaigned(c, t)'
        <3>1. CASE up'[c] /\ node'[c].role # Follower /\ node'[c].term = t
            <4>1. CASE c = i
                BY <2>2, <2>3, <3>1, <4>1, <1>4, Zenon
            <4>2. CASE c # i
                BY <2>3, <3>1, <4>2, <1>3, <1>4 DEF Ballot, Campaigned
            <4> QED BY <4>1, <4>2, Zenon
        <3>2. CASE \E m \in msgs' : IsAppend(m) /\ m.from = c /\ m.term = t
            <4>1. PICK m \in msgs' : IsAppend(m) /\ m.from = c /\ m.term = t
                BY <3>2, Zenon
            <4>2. CASE m \in msgs
                BY <2>3, <4>1, <4>2, Zenon DEF Ballot, Campaigned
            <4>3. CASE m \in r.out
                <5>1. c = i /\ t = r.n.term /\ r.n.role = Leader
                    BY <4>1, <4>3, Zenon DEF Contract
                <5> QED BY <5>1, <2>2, <2>3, <1>13
            <4> QED BY <4>2, <4>3, Zenon
        <3> QED BY <2>3, <3>1, <3>2 DEF Campaigned
    <2> QED BY <1>14, <2>1, <2>3, Zenon DEF Ballot
<1>15. BallotsKept'
    <2> SUFFICES ASSUME NEW v \in Server, NEW c \in Server, NEW t \in Term, Ballot(v, t, c)'
                 PROVE  disk'[v].term > t \/ (disk'[v].term = t /\ disk'[v].vote = c)
        BY Zenon DEF BallotsKept
    <2>1. CASE v = i /\ t = r.n.term /\ c = r.n.vote
        BY <2>1, <1>12, Zenon
    <2>2. CASE Ballot(v, t, c)
        <3>1. disk[v].term > t \/ (disk[v].term = t /\ disk[v].vote = c)
            BY <2>2 DEF IInv, BallotsKept
        <3>2. CASE v # i
            BY <3>1, <3>2, <1>4
        <3>3. CASE v = i
            <4>1. t \in Nat /\ c # None
                BY RaftConstants DEF Term
            <4>2. /\ n.term <= r.n.term
                  /\ n.term = r.n.term => n.vote \in {None, r.n.vote}
                BY Zenon DEF Contract
            <4> QED BY <3>1, <3>3, <4>1, <4>2, <1>12
        <3> QED BY <3>2, <3>3, Zenon
    <2> QED BY <1>14, <2>1, <2>2, Zenon
<1>16. BallotsUnique'
    <2> SUFFICES ASSUME NEW v \in Server, NEW c \in Server, NEW d \in Server, NEW t \in Term,
                        Ballot(v, t, c)', Ballot(v, t, d)'
                 PROVE  c = d
        BY Zenon DEF BallotsUnique
    <2>1. CASE Ballot(v, t, c) /\ Ballot(v, t, d)
        BY <2>1, Zenon DEF IInv, BallotsUnique
    <2>2. CASE v = i /\ t = r.n.term
        <3>1. /\ disk'[i].term > t \/ (disk'[i].term = t /\ disk'[i].vote = c)
              /\ disk'[i].term > t \/ (disk'[i].term = t /\ disk'[i].vote = d)
            BY <1>15, <2>2, Zenon DEF BallotsKept
        <3> QED BY <3>1, <2>2, <1>12
    <2> QED BY <1>14, <2>1, <2>2, Zenon
\* A ballot stays out as long as its candidate campaigns.
<1>17. ASSUME NEW v \in Server, NEW c \in Server, NEW t \in Term,
              Ballot(v, t, c), Campaigned(c, t)'
       PROVE  Ballot(v, t, c)'
    <2>1. CASE \E m \in msgs : IsVote(m) /\ m.from = v /\ m.to = c /\ m.term = t
        BY <2>1, Zenon DEF Ballot
    <2>2. CASE v = c
        BY <1>17, <2>2 DEF Ballot
    <2> QED BY <1>17, <2>1, <2>2, Zenon DEF Ballot
<1>18. VotesCounted'
    <2> SUFFICES ASSUME NEW j \in Server, up'[j], node'[j].role # Follower,
                        NEW v \in node'[j].votes, NEW t, t = node'[j].term
                 PROVE  Ballot(v, t, j)'
        BY Zenon DEF VotesCounted
    <2>1. Campaigned(j, t)'
        BY DEF Campaigned
    <2>2. v \in Server /\ t \in Term
        BY <1>7, CoreTypes
    <2>3. CASE j # i
        <3>1. Ballot(v, t, j)
            BY <2>3, <1>3, <1>4 DEF IInv, VotesCounted
        <3> QED BY <3>1, <2>1, <2>2, <1>17, Zenon
    <2>4. CASE j = i
        <3>1. CASE n.role # Follower /\ r.n.term = n.term /\ r.n.votes \subseteq n.votes \cup V
            <4>1. v \in n.votes \cup V /\ t = n.term
                BY <3>1, <2>4, <1>4, Zenon
            <4>2. Ballot(v, t, i)
                BY <4>1, <3>1 DEF IInv, VotesCounted
            <4> QED BY <4>2, <2>1, <2>2, <2>4, <1>17
        <3>2. CASE r.n.votes \subseteq {i}
            <4>1. v = i
                BY <3>2, <2>4, <1>4, Zenon
            <4> QED BY <4>1, <2>1, <2>4, Zenon DEF Ballot
        <3> QED BY <3>1, <3>2, <2>4, <1>4 DEF Contract
    <2> QED BY <2>3, <2>4, Zenon
<1>19. LedByQuorum'
    <2> SUFFICES ASSUME NEW j \in Server, NEW t \in Term, Led(j, t)'
                 PROVE  \E Q \in SUBSET Server : /\ Cardinality(Q) >= QuorumSize
                                                /\ \A v \in Q : Ballot(v, t, j)'
        BY Zenon DEF LedByQuorum
    <2>1. ASSUME j = i, t = r.n.term, r.n.role = Leader
          PROVE  \E Q \in SUBSET Server : /\ Cardinality(Q) >= QuorumSize
                                         /\ \A v \in Q : Ballot(v, t, j)'
        <3>1. r.n.votes \in SUBSET Server /\ Cardinality(r.n.votes) >= QuorumSize
            BY <2>1, <1>2, CoreTypes DEF CoreInv
        <3>2. \A v \in r.n.votes : Ballot(v, t, j)'
            BY <2>1, <1>3, <1>4, <1>13, <1>18, Zenon DEF VotesCounted
        <3> QED BY <3>1, <3>2, Zenon
    <2>2. ASSUME Led(j, t), Campaigned(j, t)'
          PROVE  \E Q \in SUBSET Server : /\ Cardinality(Q) >= QuorumSize
                                         /\ \A v \in Q : Ballot(v, t, j)'
        <3>1. PICK Q \in SUBSET Server : /\ Cardinality(Q) >= QuorumSize
                                        /\ \A v \in Q : Ballot(v, t, j)
            BY <2>2, Zenon DEF IInv, LedByQuorum
        <3> QED BY <3>1, <2>2, <1>17
    <2>3. CASE IsLeader(j)' /\ node'[j].term = t
        <3>1. CASE j = i
            BY <2>1, <2>3, <3>1, <1>4 DEF IsLeader
        <3>2. CASE j # i
            BY <2>2, <2>3, <3>2, <1>3, <1>4, <1>13, Zenon DEF IsLeader, Led, Campaigned
        <3> QED BY <3>1, <3>2, Zenon
    <2>4. CASE \E m \in msgs' : m.type = "AppendEntries" /\ m.from = j /\ m.term = t
        <3>1. PICK m \in msgs' : m.type = "AppendEntries" /\ m.from = j /\ m.term = t
            BY <2>4, Zenon
        <3>2. CASE m \in msgs
            BY <2>2, <2>4, <3>1, <3>2, Zenon DEF Led, Campaigned, IsAppend
        <3>3. CASE m \in r.out
            BY <2>1, <3>1, <3>3 DEF Contract, IsAppend
        <3> QED BY <3>2, <3>3
    <2> QED BY <2>3, <2>4 DEF Led
<1> QED BY <1>6, <1>7, <1>8, <1>9, <1>11, <1>15, <1>16, <1>18, <1>19, Zenon DEF IInv

-----------------------------------------------------------------------------
(* Steps in which nothing escapes *)

\* An owner is closed, by a crash or a failed publication, with its old or its
\* new snapshot on disk; or reopened from the snapshot that is there.  The
\* member is a follower afterwards and no RPC leaves.
LEMMA SilentInv ==
    ASSUME IInv, NEW i \in Server, NEW k, NEW d, NEW u \in BOOLEAN,
           CoreInv(k), k.role = Follower,
           d \in Saved, d.commit <= Len(d.log), Advances(disk[i], d),
           u => Snapshot(k) = d,
           node' = [node EXCEPT ![i] = k], up' = [up EXCEPT ![i] = u],
           disk' = [disk EXCEPT ![i] = d], faults' \in Nat, msgs' = msgs
    PROVE  IInv' /\ \A j \in Server : Advances(disk[j], disk'[j])
<1> USE SMTT(60)
<1>1. /\ node \in [Server -> Core] /\ up \in [Server -> BOOLEAN]
      /\ disk \in [Server -> Saved] /\ msgs \subseteq Message
    BY Zenon DEF IInv, TypeOK
<1>2. /\ node'[i] = k /\ disk'[i] = d /\ up'[i] = u
      /\ \A j \in Server : j # i => node'[j] = node[j] /\ disk'[j] = disk[j] /\ up'[j] = up[j]
    BY <1>1, Zenon
<1>3. TypeOK'
    <2>1. k \in Core
        BY CoreTypes, Zenon
    <2> QED BY <2>1, <1>1, Zenon DEF TypeOK
<1>4. /\ \A j \in Server : CoreInv(node'[j])
      /\ \A j \in Server : up'[j] => Snapshot(node'[j]) = disk'[j]
      /\ \A j \in Server : disk'[j].commit <= Len(disk'[j].log)
    BY <1>2 DEF IInv
<1>5. \A j \in Server : Advances(disk[j], disk'[j])
    <2> TAKE j \in Server
    <2>1. CASE j # i
        <3>1. disk[j].term \in Nat /\ disk[j].commit \in Nat
            BY <1>1, RaftConstants DEF Saved, Term
        <3> QED BY <2>1, <3>1, <1>2 DEF Advances
    <2> QED BY <2>1, <1>2, Zenon
<1>6. Leader # Follower
    BY Zenon DEF Leader, Follower
<1>7. ASSUME NEW c \in Server, NEW t \in Term, Campaigned(c, t)'
      PROVE  Campaigned(c, t)
    <2>1. CASE c = i
        BY <1>7, <2>1, <1>2, Zenon DEF Campaigned
    <2>2. CASE c # i
        BY <1>7, <2>2, <1>2, Zenon DEF Campaigned
    <2> QED BY <2>1, <2>2, Zenon
<1>8. ASSUME NEW v \in Server, NEW c \in Server, NEW t \in Term, Ballot(v, t, c)'
      PROVE  Ballot(v, t, c)
    BY <1>7, <1>8 DEF Ballot
<1>9. ASSUME NEW v \in Server, NEW c \in Server, NEW t \in Term,
             Ballot(v, t, c), Campaigned(c, t)'
      PROVE  Ballot(v, t, c)'
    BY <1>9, Zenon DEF Ballot
<1>10. BallotsKept'
    <2> SUFFICES ASSUME NEW v \in Server, NEW c \in Server, NEW t \in Term, Ballot(v, t, c)'
                 PROVE  disk'[v].term > t \/ (disk'[v].term = t /\ disk'[v].vote = c)
        BY Zenon DEF BallotsKept
    <2>1. disk[v].term > t \/ (disk[v].term = t /\ disk[v].vote = c)
        BY <1>8, Zenon DEF IInv, BallotsKept
    <2>2. /\ disk[v].term <= disk'[v].term
          /\ disk[v].term = disk'[v].term => disk[v].vote \in {None, disk'[v].vote}
        BY <1>5 DEF Advances
    <2>3. disk[v].term \in Nat /\ disk'[v].term \in Nat /\ t \in Nat /\ c # None
        <3>1. disk[v] \in Saved /\ disk'[v] \in Saved
            BY <1>1, <1>3, Zenon DEF TypeOK
        <3> QED BY <3>1, RaftConstants DEF Saved, Term
    <2> QED BY <2>1, <2>2, <2>3
<1>11. BallotsUnique'
    BY <1>8, Zenon DEF IInv, BallotsUnique
<1>12. VotesCounted'
    <2> SUFFICES ASSUME NEW j \in Server, up'[j], node'[j].role # Follower,
                        NEW v \in node'[j].votes, NEW t, t = node'[j].term
                 PROVE  Ballot(v, t, j)'
        BY Zenon DEF VotesCounted
    <2>1. j # i
        BY <1>2, Zenon
    <2>2. v \in Server /\ t \in Term
        BY <1>4, CoreTypes, Zenon
    <2>3. Ballot(v, t, j)
        BY <2>1, <1>2 DEF IInv, VotesCounted
    <2>4. Campaigned(j, t)'
        BY Zenon DEF Campaigned
    <2> QED BY <2>2, <2>3, <2>4, <1>9, Zenon
<1>13. LedByQuorum'
    <2> SUFFICES ASSUME NEW j \in Server, NEW t \in Term, Led(j, t)'
                 PROVE  \E Q \in SUBSET Server : /\ Cardinality(Q) >= QuorumSize
                                                /\ \A v \in Q : Ballot(v, t, j)'
        BY Zenon DEF LedByQuorum
    <2>1. Campaigned(j, t)'
        BY <1>6, Zenon DEF Led, IsLeader, Campaigned, IsAppend
    <2>2. Led(j, t)
        <3>1. CASE IsLeader(j)' /\ node'[j].term = t
            <4>1. j # i
                BY <3>1, <1>2, <1>6, Zenon DEF IsLeader
            <4> QED BY <3>1, <4>1, <1>2 DEF Led, IsLeader
        <3> QED BY <3>1, Zenon DEF Led
    <2>3. PICK Q \in SUBSET Server : /\ Cardinality(Q) >= QuorumSize
                                    /\ \A v \in Q : Ballot(v, t, j)
        BY <2>2, Zenon DEF IInv, LedByQuorum
    <2> QED BY <2>1, <2>3, <1>9, Zenon
<1> QED BY <1>3, <1>4, <1>5, <1>10, <1>11, <1>12, <1>13, Zenon DEF IInv

\* finish, whichever way the publication goes.
LEMMA FinishInv ==
    ASSUME IInv, NEW i \in Server, up[i], NEW r, NEW V \in SUBSET Server,
           Contract(node[i], i, r, V),
           \A v \in V : Ballot(v, node[i].term, i),
           Finish(i, r)
    PROVE  IInv' /\ \A j \in Server : Advances(disk[j], disk'[j])
<1> USE SMTT(60)
<1>1. CASE Published(i, r) /\ msgs' = msgs \cup r.out
    BY <1>1, PublishedInv
<1>2. CASE PublishFailed(i, r) /\ UNCHANGED msgs
    <2>1. CoreInv(node[i]) /\ disk[i] = Snapshot(node[i]) /\ CoreInv(r.n)
        BY Zenon DEF IInv, Contract
    <2>2. CoreInv(NewCore) /\ NewCore.role = Follower
        BY NewCoreOK, Zenon
    <2>3. PICK d \in {disk[i], Snapshot(r.n)} : disk' = [disk EXCEPT ![i] = d]
        BY <1>2, Zenon DEF PublishFailed
    <2>4. d \in Saved /\ d.commit <= Len(d.log)
        BY <2>1, SnapshotOK
    <2>5. Advances(disk[i], d)
        <3>1. CASE d = disk[i]
            <4>1. disk[i].term \in Nat /\ disk[i].commit \in Nat
                BY <3>1, <2>4, RaftConstants DEF Saved, Term
            <4> QED BY <3>1, <4>1 DEF Advances
        <3>2. CASE d = Snapshot(r.n)
            BY <3>2, <2>1, ContractAdvances, Zenon
        <3> QED BY <3>1, <3>2, Zenon
    <2>6. /\ node' = [node EXCEPT ![i] = NewCore] /\ up' = [up EXCEPT ![i] = FALSE]
          /\ faults' \in Nat /\ msgs' = msgs
        BY <1>2 DEF PublishFailed, IInv, TypeOK
    <2> QED BY <2>2, <2>3, <2>4, <2>5, <2>6, SilentInv, Zenon
<1> QED BY <1>1, <1>2 DEF Finish

\* Every step keeps the invariant and only advances what is on disk.
LEMMA NextInv ==
    ASSUME IInv, [Next]_vars
    PROVE  IInv' /\ \A j \in Server : Advances(disk[j], disk'[j])
<1> USE SMTT(60)
<1>1. /\ \A j \in Server : CoreInv(node[j]) /\ disk[j].commit <= Len(disk[j].log)
      /\ disk \in [Server -> Saved] /\ msgs \subseteq Message /\ faults \in Nat
      /\ up \in [Server -> BOOLEAN]
    BY Zenon DEF IInv, TypeOK
<1>2. \A j \in Server : Advances(disk[j], disk[j])
    <2> TAKE j \in Server
    <2>1. disk[j].term \in Nat /\ disk[j].commit \in Nat
        BY <1>1, RaftConstants DEF Saved, Term
    <2> QED BY <2>1 DEF Advances
<1>3. ASSUME NEW i \in Server, TickOwner(i)
      PROVE  IInv' /\ \A j \in Server : Advances(disk[j], disk'[j])
    <2>1. Contract(node[i], i, Tick(node[i], i), {})
        BY <1>1, TickOK, Zenon
    <2> QED BY <1>3, <2>1, FinishInv DEF TickOwner
<1>4. ASSUME NEW i \in Server, NEW m \in msgs, Receive(i, m)
      PROVE  IInv' /\ \A j \in Server : Advances(disk[j], disk'[j])
    <2> DEFINE V == {v \in {m.from} : IsVote(m) /\ m.term = node[i].term}
    <2>1. Contract(node[i], i, Step(node[i], i, m), V)
        BY <1>1, StepOK, Zenon
    <2>2. m.from \in Server
        BY <1>1, Zenon DEF Message, VoteRequests, VoteReplies, AppendRequests, AppendReplies
    <2>3. \A v \in V : Ballot(v, node[i].term, i)
        BY <1>4 DEF Ballot, Receive
    <2>4. V \in SUBSET Server
        BY <2>2, Zenon
    <2> HIDE DEF V
    <2> QED BY <1>4, <2>1, <2>3, <2>4, FinishInv DEF Receive, MayStep
<1>5. ASSUME NEW i \in Server, NEW c \in Cmd, ProposeOwner(i, c)
      PROVE  IInv' /\ \A j \in Server : Advances(disk[j], disk'[j])
    <2>1. Contract(node[i], i, Propose(node[i], i, c), {})
        BY <1>1, <1>5, ProposeOK DEF ProposeOwner, MayPropose
    <2> QED BY <1>5, <2>1, FinishInv DEF ProposeOwner, MayPropose
<1>6. ASSUME NEW i \in Server, CrashOwner(i)
      PROVE  IInv' /\ \A j \in Server : Advances(disk[j], disk'[j])
    <2>1. CoreInv(NewCore) /\ NewCore.role = Follower
        BY NewCoreOK, Zenon
    <2>2. /\ node' = [node EXCEPT ![i] = NewCore] /\ up' = [up EXCEPT ![i] = FALSE]
          /\ disk' = [disk EXCEPT ![i] = disk[i]] /\ faults' \in Nat /\ msgs' = msgs
        BY <1>1, <1>6 DEF CrashOwner, Crash
    <2>3. disk[i] \in Saved
        BY <1>1, Zenon
    <2> QED BY <1>1, <1>2, <2>1, <2>2, <2>3, SilentInv, Zenon
<1>7. ASSUME NEW i \in Server, ReopenOwner(i)
      PROVE  IInv' /\ \A j \in Server : Advances(disk[j], disk'[j])
    <2> DEFINE k == Recovered(disk[i])
    <2>1. disk[i] \in Saved
        BY <1>1, Zenon
    <2>2. CoreInv(k) /\ k.role = Follower /\ Snapshot(k) = disk[i]
        BY <1>1, <2>1, RecoveredOK
    <2>3. /\ node' = [node EXCEPT ![i] = k] /\ up' = [up EXCEPT ![i] = TRUE]
          /\ disk' = [disk EXCEPT ![i] = disk[i]] /\ faults' \in Nat /\ msgs' = msgs
        BY <1>1, <1>7 DEF ReopenOwner, Reopen
    <2> HIDE DEF k
    <2> QED BY <1>1, <1>2, <2>1, <2>2, <2>3, SilentInv, Zenon
<1>8. CASE UNCHANGED vars
    <2>1. node' = node /\ up' = up /\ disk' = disk /\ faults' = faults /\ msgs' = msgs
        BY <1>8 DEF vars
    <2>2. TypeOK'
        BY <2>1, Zenon DEF IInv, TypeOK
    <2>3. /\ \A j \in Server : CoreInv(node'[j])
          /\ \A j \in Server : up'[j] => Snapshot(node'[j]) = disk'[j]
          /\ \A j \in Server : disk'[j].commit <= Len(disk'[j].log)
        BY <2>1, Zenon DEF IInv
    <2>4. \A v, c \in Server : \A t : Ballot(v, t, c)' <=> Ballot(v, t, c)
        BY <2>1 DEF Ballot, Campaigned
    <2>5. \A j \in Server : \A t : Led(j, t)' <=> Led(j, t)
        BY <2>1, Zenon DEF Led, IsLeader
    <2>6. BallotsKept' /\ BallotsUnique'
        BY <2>1, <2>4 DEF IInv, BallotsKept, BallotsUnique
    <2>7. VotesCounted'
        <3> SUFFICES ASSUME NEW j \in Server, up[j], node[j].role # Follower, NEW v \in node[j].votes
                     PROVE  Ballot(v, node[j].term, j)'
            BY <2>1, Zenon DEF VotesCounted
        <3>1. v \in Server
            BY <1>1, CoreTypes, Zenon
        <3> QED BY <2>1, <2>4, <3>1 DEF IInv, VotesCounted, Ballot, Campaigned
    <2>8. LedByQuorum'
        BY <2>4, <2>5 DEF IInv, LedByQuorum
    <2>9. IInv'
        BY <2>2, <2>3, <2>6, <2>7, <2>8, Zenon DEF IInv
    <2> QED BY <1>2, <2>1, <2>9, Zenon
<1> QED BY <1>3, <1>4, <1>5, <1>6, <1>7, <1>8, Zenon DEF Next

-----------------------------------------------------------------------------
(* Theorems *)

\* The inductive invariant holds in every reachable state.
THEOREM Invariance == Spec => []IInv
<1>1. IInv /\ [Next]_vars => IInv'
    BY NextInv, Zenon
<1> QED BY InitInv, <1>1, PTL DEF Spec

\* Type correctness of the whole group: cores, snapshots and RPCs keep their
\* types under every interleaving of calls, deliveries and faults.
THEOREM TypeCorrect == Spec => []TypeOK
<1>1. IInv => TypeOK
    BY Zenon DEF IInv
<1> QED BY Invariance, <1>1, PTL

\* No term ever has two leaders (start_election, step_request_vote,
\* step_vote_resp), although members close on failed publications and reopen
\* from disk: two leaders would share a voter, and a vote that left its voter
\* is on disk.
THEOREM OneLeaderPerTerm == Spec => []ElectionSafety
<1> USE SMTT(60)
<1>1. IInv => ElectionSafety
    <2> SUFFICES ASSUME IInv, NEW i \in Server, NEW j \in Server, NEW t \in Term,
                        Led(i, t), Led(j, t)
                 PROVE  i = j
        BY Zenon DEF ElectionSafety
    <2>1. PICK P \in SUBSET Server : /\ Cardinality(P) >= QuorumSize
                                    /\ \A v \in P : Ballot(v, t, i)
        BY DEF IInv, LedByQuorum
    <2>2. PICK Q \in SUBSET Server : /\ Cardinality(Q) >= QuorumSize
                                    /\ \A v \in Q : Ballot(v, t, j)
        BY DEF IInv, LedByQuorum
    <2>3. PICK v \in Server : v \in P /\ v \in Q
        BY <2>1, <2>2, QuorumsMeet, Zenon
    <2> QED BY <2>1, <2>2, <2>3, Zenon DEF IInv, BallotsUnique
<1> QED BY Invariance, <1>1, PTL

\* A vote that left its voter survives every crash and failed publication
\* while the voter stays in that term (finish, open).
THEOREM VotesAreKept == Spec => []VotesKept
<1> USE SMTT(60)
<1>1. IInv => VotesKept
    <2> SUFFICES ASSUME IInv, NEW m \in msgs, m.type = "RequestVoteResp", m.granted
                 PROVE  \/ disk[m.from].term > m.term
                        \/ disk[m.from].term = m.term /\ disk[m.from].vote = m.to
        BY Zenon DEF VotesKept
    <2>1. m.from \in Server /\ m.to \in Server /\ m.term \in Term
        BY Zenon DEF IInv, TypeOK, Message, VoteRequests, VoteReplies, AppendRequests, AppendReplies
    <2>2. Ballot(m.from, m.term, m.to)
        BY Zenon DEF Ballot, IsVote
    <2> QED BY <2>1, <2>2, Zenon DEF IInv, BallotsKept
<1> QED BY Invariance, <1>1, PTL

\* The state machine is handed exactly the committed prefix, once and in order,
\* and the indexes that slice the log stay inside it (advance_commit,
\* step_append, send_append, open).
THEOREM AppliesInOrder == Spec => []AppliedInOrder
<1> USE SMTT(60)
<1>1. IInv => AppliedInOrder
    <2> SUFFICES ASSUME IInv, NEW i \in Server, up[i]
                 PROVE  /\ Snapshot(node[i]) = disk[i]
                        /\ node[i].commit <= Len(node[i].log)
                        /\ node[i].applied = Prefix(node[i].log, node[i].commit)
                        /\ node[i].role = Leader =>
                              \A p \in Peers(i) : /\ node[i].match[p] < node[i].next[p]
                                                 /\ node[i].next[p] <= Len(node[i].log) + 1
        BY DEF AppliedInOrder
    <2> QED BY Zenon DEF IInv, CoreInv, Peers
<1> QED BY Invariance, <1>1, PTL

\* A member's durable term never goes back and a vote once cast in a term never
\* changes (observe_term, start_election, step_request_vote, finish, open).
THEOREM TermsOnlyAdvance == Spec => TermsAdvance
<1>1. IInv /\ [Next]_vars =>
        [\A i \in Server :
            /\ disk[i].term <= disk'[i].term
            /\ disk[i].term = disk'[i].term /\ disk[i].vote # None
                  => disk'[i].vote = disk[i].vote]_ownerVars
    BY NextInv, Zenon DEF Advances
<1> QED BY Invariance, <1>1, PTL DEF Spec, TermsAdvance

\* What a member committed stays committed and unchanged on its disk, through
\* every append, failed publication and reopen (append_plan, finish, open).
THEOREM CommitsNeverChange == Spec => CommitsStay
<1>1. IInv /\ [Next]_vars =>
        [\A i \in Server :
            /\ disk[i].commit <= disk'[i].commit
            /\ Committed(i) = Prefix(disk'[i].log, disk[i].commit)]_ownerVars
    BY NextInv, Zenon DEF Advances, Committed
<1> QED BY Invariance, <1>1, PTL DEF Spec, CommitsStay
=============================================================================
