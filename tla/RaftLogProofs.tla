--------------------------- MODULE RaftLogProofs ---------------------------
(***************************************************************************)
(* Proofs that the logs of a Raft group agree, for a group of any size and *)
(* any number of faults: the history of RaftHistory exists in every state, *)
(* and what it records makes the logs agree.                               *)
(***************************************************************************)
EXTENDS RaftProofs, RaftCallProofs, RaftCommitProofs

-----------------------------------------------------------------------------
(* The history, step by step *)

\* Members have been closed or reopened as followers, and RPCs have been lost.
Silenced(nd, u, ms, nd2, u2, ms2) ==
    /\ ms2 \subseteq ms /\ ms2 \subseteq Message
    /\ \A j \in Server : u2[j] /\ nd2[j].role # Follower => u[j] /\ nd2[j] = nd[j]

\* That leaves the history a history.
LEMMA WeakenRecorded ==
    ASSUME NEW H, NEW L, NEW V, NEW A, NEW nd, NEW u, NEW d, NEW ms,
           Recorded(H, L, V, A, nd, u, d, ms),
           NEW nd2, NEW u2, NEW ms2, Silenced(nd, u, ms, nd2, u2, ms2)
    PROVE  Recorded(H, L, V, A, nd2, u2, d, ms2)
<1> USE SMTT(60)
<1>0. /\ ms2 \subseteq ms /\ ms2 \subseteq Message
      /\ \A j \in Server : u2[j] /\ nd2[j].role # Follower => u[j] /\ nd2[j] = nd[j]
    BY Zenon DEF Silenced
<1>1. Leader # Follower /\ Candidate # Follower
    BY Zenon DEF Leader, Follower, Candidate
<1>2. \A m \in ms2 : m.from \in Server
    BY <1>0, MessageTypes, Zenon
<1>3. VotesRecorded(V, nd2, u2, d, ms2)
    BY <1>0 DEF Recorded, VotesRecorded
<1>4. LeadersRecorded(H, L, V, nd2, u2)
    BY <1>0, <1>1 DEF Recorded, LeadersRecorded
<1>5. RequestsRecorded(H, L, nd2, u2, d, ms2)
    BY <1>0, <1>1, <1>2, Zenon DEF Recorded, RequestsRecorded
<1>6. AcksRecorded(H, A, nd2, u2, d, ms2)
    BY <1>0, <1>1, Zenon DEF Recorded, AcksRecorded
<1>7. VotersOutdone(H, V, A, nd2, u2, d)
    BY <1>0, <1>1 DEF Recorded, VotersOutdone
<1>8. CommitsDecided(H, A, d, ms2)
    BY <1>0, Zenon DEF Recorded, CommitsDecided
<1> QED BY <1>3, <1>4, <1>5, <1>6, <1>7, <1>8 DEF Recorded

\* A group without entries, votes and terms has the empty history.
LEMMA InitLog == Init => LogInv
<1> USE SMTT(60)
<1> SUFFICES ASSUME Init PROVE LogInv
    OBVIOUS
<1> DEFINE H == [t \in Term |-> <<>>]
           L == [t \in Term |-> None]
           V == [v \in Server |-> [t \in Term |-> None]]
           A == [p \in Server |-> [t \in Term |-> 0]]
<1>1. /\ \A t \in Term : H[t] = <<>> /\ L[t] = None
      /\ \A v \in Server : \A t \in Term : V[v][t] = None /\ A[v][t] = 0
      /\ HistoryTypes(H, L, V, A)
    <2>1. <<>> \in Seq(Entry)
        BY SeqEmpty
    <2> QED BY <2>1, Zenon DEF HistoryTypes
<1>2. /\ \A i \in Server : /\ disk[i].term = 0 /\ disk[i].vote = None
                           /\ disk[i].log = <<>> /\ disk[i].commit = 0
                           /\ node[i].role = Follower
      /\ msgs = {}
    BY Zenon DEF Init, OwnersInit, NewCore, Snapshot
<1>3. Leader # Follower /\ Candidate # Follower
    BY Zenon DEF Leader, Follower, Candidate
<1>4. Len(<<>>) = 0 /\ 0 \in Term /\ 1..0 = {}
    BY SeqEmpty, RaftConstants DEF Term
<1> HIDE DEF H, L, V, A
<1>5. VotesRecorded(V, node, up, disk, msgs)
    BY <1>1, <1>2, Zenon DEF VotesRecorded
<1>6. LeadersRecorded(H, L, V, node, up)
    BY <1>1, <1>2, <1>3, Zenon DEF LeadersRecorded
<1>7. LogsRecorded(H, disk)
    BY <1>1, <1>2, <1>4 DEF LogsRecorded, Traced, Ordered
<1>8. RequestsRecorded(H, L, node, up, disk, msgs)
    BY <1>2, Zenon DEF RequestsRecorded
<1>9. AcksRecorded(H, A, node, up, disk, msgs)
    BY <1>1, <1>2, <1>3, <1>4 DEF AcksRecorded, Agree
<1>10. AcksKept(H, A, disk)
    BY <1>1, <1>4, Zenon DEF AcksKept
<1>11. VotersOutdone(H, V, A, node, up, disk)
    BY <1>2, <1>3 DEF VotersOutdone
<1>12. LeadersComplete(H, L, A, disk)
    BY <1>1, Zenon DEF LeadersComplete
<1>13. CommitsDecided(H, A, disk, msgs)
    BY <1>2, Zenon DEF CommitsDecided, Decided
<1>14. Recorded(H, L, V, A, node, up, disk, msgs)
    BY <1>1, <1>5, <1>6, <1>7, <1>8, <1>9, <1>10, <1>11, <1>12, <1>13 DEF Recorded
<1> QED BY <1>14, Zenon DEF LogInv

\* A member that is closed or reopened keeps the history.
LEMMA SilentLog ==
    ASSUME IInv, LogInv, NEW i \in Server, NEW k, NEW b, k.role = Follower,
           node' = [node EXCEPT ![i] = k], up' = [up EXCEPT ![i] = b],
           disk' = disk, msgs' = msgs
    PROVE  LogInv'
<1> USE SMTT(60)
<1>1. PICK H, L, V, A : Recorded(H, L, V, A, node, up, disk, msgs)
    BY Zenon DEF LogInv
<1>2. \A j \in Server : up'[j] /\ node'[j].role # Follower => up[j] /\ node'[j] = node[j]
    BY Zenon DEF IInv, TypeOK
<1>3. msgs' \subseteq msgs /\ msgs' \subseteq Message
    BY DEF IInv, TypeOK
<1>4. Silenced(node, up, msgs, node', up', msgs')
    BY <1>2, <1>3, Zenon DEF Silenced
<1>5. Recorded(H, L, V, A, node', up', disk', msgs')
    BY <1>1, <1>4, WeakenRecorded, Zenon
<1> QED BY <1>5, Zenon DEF LogInv

\* finish, whichever way the publication goes, for a call that received at most
\* the RPC m and took its entries or not.
LEMMA FinishLog ==
    ASSUME IInv, LogInv, NEW i \in Server, up[i], NEW r,
           NEW R \in SUBSET msgs, \A a, b \in R : a = b,
           NEW W \in SUBSET Server, Contract(node[i], i, r, W),
           \A v \in W : \E m \in msgs :
               IsVote(m) /\ m.from = v /\ m.to = i /\ m.term = node[i].term,
           LogContract(node[i], i, r, R),
           Finish(i, r)
    PROVE  LogInv'
<1> USE SMTT(60)
<1>1. /\ node \in [Server -> Core] /\ up \in [Server -> BOOLEAN] /\ disk \in [Server -> Saved]
      /\ msgs \subseteq Message
    BY DEF IInv, TypeOK
<1>2. PICK H, L, V, A : Recorded(H, L, V, A, node, up, disk, msgs)
    BY Zenon DEF LogInv
<1>3. ASSUME ValidSnapshot(Snapshot(r.n))
      PROVE  \E H2, L2, V2, A2 :
                Recorded(H2, L2, V2, A2, [node EXCEPT ![i] = r.n], up,
                         [disk EXCEPT ![i] = Snapshot(r.n)], msgs \cup r.out)
    <2>1. \E K \in Nat :
             /\ K = 0 \/ \E m \in R : Took(node[i], r, m) /\ K = m.prevIndex + Len(m.entries)
             /\ \A m \in r.out : IsAck(m) => m.match <= K
        <3>1. CASE \E m \in R : Took(node[i], r, m)
            <4>1. PICK m \in R : Took(node[i], r, m)
                BY <3>1, Zenon
            <4>2. m.prevIndex + Len(m.entries) \in Nat
                <5>1. m \in AppendRequests
                    BY <4>1, <1>1, MessageTypes, Zenon DEF Took
                <5>2. m.prevIndex \in Nat /\ m.entries \in Seq(Entry)
                    BY <5>1 DEF AppendRequests
                <5> QED BY <5>2, SeqTypes
            <4>3. \A c \in r.out : IsAck(c) => c.match = m.prevIndex + Len(m.entries)
                BY <4>1, Zenon DEF LogContract, OutContract
            <4> QED BY <4>1, <4>2, <4>3
        <3>2. CASE ~\E m \in R : Took(node[i], r, m)
            <4>1. \A c \in r.out : ~IsAck(c)
                BY <3>2, Zenon DEF LogContract, OutContract
            <4> QED BY <4>1
        <3> QED BY <3>1, <3>2, Zenon
    <2>2. PICK K \in Nat :
             /\ K = 0 \/ \E m \in R : Took(node[i], r, m) /\ K = m.prevIndex + Len(m.entries)
             /\ \A m \in r.out : IsAck(m) => m.match <= K
        BY <2>1
    <2>3. Call(node, up, disk, msgs, i, r, R, K)
        <3>1. Sound(node, up, disk, msgs)
            BY <1>1, QuorumsMeet, Zenon DEF IInv, Sound, MajoritiesMeet
        <3>2. Ordered(r.n.log, r.n.term)
            <4>1. Snapshot(r.n) \in Saved
                BY SnapshotOK, Zenon DEF Contract
            <4> QED BY <4>1, <1>3, ValidOrdered DEF Snapshot
        <3> QED BY <2>2, <3>1, <3>2, Zenon DEF Call
    <2>4. Recorded(NextH(H, r.n), NextL(L, i, r.n), NextV(V, i, r.n), NextA(A, i, r.n, K),
                   [node EXCEPT ![i] = r.n], up, [disk EXCEPT ![i] = Snapshot(r.n)],
                   msgs \cup r.out)
        BY <2>3, <1>2, CallRecorded, Zenon
    <2> QED BY <2>4, Zenon
<1>4. CASE Published(i, r) /\ msgs' = msgs \cup r.out
    <2>1. /\ ValidSnapshot(Snapshot(r.n)) /\ node' = [node EXCEPT ![i] = r.n] /\ up' = up
          /\ disk' = [disk EXCEPT ![i] = Snapshot(r.n)]
        BY <1>4, Zenon DEF Published
    <2> QED BY <1>3, <1>4, <2>1, Zenon DEF LogInv
<1>5. CASE PublishFailed(i, r) /\ UNCHANGED msgs
    <2>1. /\ node' = [node EXCEPT ![i] = NewCore] /\ up' = [up EXCEPT ![i] = FALSE]
          /\ msgs' = msgs /\ NewCore.role = Follower
        BY <1>5, NewCoreOK, Zenon DEF PublishFailed
    <2>2. CASE disk' = [disk EXCEPT ![i] = disk[i]]
        <3>1. disk' = disk
            BY <2>2, <1>1, Zenon
        <3> QED BY <2>1, <3>1, SilentLog, Zenon
    <2>3. CASE ValidSnapshot(Snapshot(r.n)) /\ disk' = [disk EXCEPT ![i] = Snapshot(r.n)]
        <3> DEFINE nd == [node EXCEPT ![i] = r.n]
        <3>1. PICK H2, L2, V2, A2 : Recorded(H2, L2, V2, A2, nd, up, disk', msgs \cup r.out)
            BY <2>3, <1>3, Zenon
        <3>2. \A j \in Server : up'[j] /\ node'[j].role # Follower => up[j] /\ node'[j] = nd[j]
            BY <2>1, <1>1
        <3>3. msgs' \subseteq msgs \cup r.out /\ msgs' \subseteq Message
            BY <2>1, <1>1, Zenon
        <3> HIDE DEF nd
        <3>4. Silenced(nd, up, msgs \cup r.out, node', up', msgs')
            BY <3>2, <3>3, Zenon DEF Silenced
        <3>5. Recorded(H2, L2, V2, A2, node', up', disk', msgs')
            BY <3>1, <3>4, WeakenRecorded, Zenon
        <3> QED BY <3>5, Zenon DEF LogInv
    <2> QED BY <1>5, <2>2, <2>3, Zenon DEF PublishFailed
<1> QED BY <1>4, <1>5, Zenon DEF Finish

\* Every step keeps a history.
LEMMA NextLog ==
    ASSUME IInv, LogInv, [Next]_vars
    PROVE  LogInv'
<1> USE SMTT(60)
<1>1. /\ \A j \in Server : CoreInv(node[j])
      /\ msgs \subseteq Message /\ node \in [Server -> Core] /\ up \in [Server -> BOOLEAN]
      /\ disk \in [Server -> Saved]
    BY DEF IInv, TypeOK
<1>2. ASSUME NEW i \in Server, TickOwner(i) PROVE LogInv'
    <2>1. Contract(node[i], i, Tick(node[i], i), {})
        BY <1>1, TickOK
    <2>2. LogContract(node[i], i, Tick(node[i], i), {})
        BY <1>1, TickLog, Zenon
    <2>3. {} \in SUBSET msgs /\ {} \in SUBSET Server
        OBVIOUS
    <2> QED BY <1>2, <2>1, <2>2, <2>3, FinishLog, Zenon DEF TickOwner
<1>3. ASSUME NEW i \in Server, NEW m \in msgs, Receive(i, m) PROVE LogInv'
    <2> DEFINE W == {v \in {m.from} : IsVote(m) /\ m.term = node[i].term}
    <2>1. Contract(node[i], i, Step(node[i], i, m), W)
        BY <1>1, StepOK
    <2>2. LogContract(node[i], i, Step(node[i], i, m), {m})
        BY <1>1, StepLog, Zenon
    <2>3. W \in SUBSET Server
        BY <1>1, MessageTypes
    <2>4. \A v \in W : \E c \in msgs :
             IsVote(c) /\ c.from = v /\ c.to = i /\ c.term = node[i].term
        BY <1>3, Zenon DEF Receive
    <2>5. {m} \in SUBSET msgs /\ \A a, b \in {m} : a = b
        OBVIOUS
    <2> HIDE DEF W
    <2> QED BY <1>3, <2>1, <2>2, <2>3, <2>4, <2>5, FinishLog, Zenon DEF Receive, MayStep
<1>4. ASSUME NEW i \in Server, NEW c \in Cmd, ProposeOwner(i, c) PROVE LogInv'
    <2>1. Contract(node[i], i, Propose(node[i], i, c), {})
        BY <1>1, <1>4, ProposeOK DEF ProposeOwner, MayPropose
    <2>2. LogContract(node[i], i, Propose(node[i], i, c), {})
        BY <1>1, <1>4, ProposeLog, Zenon DEF ProposeOwner, MayPropose
    <2>3. {} \in SUBSET msgs /\ {} \in SUBSET Server
        OBVIOUS
    <2> QED BY <1>4, <2>1, <2>2, <2>3, FinishLog, Zenon DEF ProposeOwner, MayPropose
<1>5. ASSUME NEW i \in Server, CrashOwner(i) PROVE LogInv'
    BY <1>5, NewCoreOK, SilentLog, Zenon DEF CrashOwner, Crash
<1>6. ASSUME NEW i \in Server, ReopenOwner(i) PROVE LogInv'
    <2>1. Recovered(disk[i]).role = Follower
        BY DEF Recovered, NewCore
    <2> QED BY <1>6, <2>1, SilentLog, Zenon DEF ReopenOwner, Reopen
<1>7. CASE UNCHANGED vars
    BY <1>7 DEF vars, LogInv
<1> QED BY <1>2, <1>3, <1>4, <1>5, <1>6, <1>7, Zenon DEF Next

-----------------------------------------------------------------------------
(* Snapshots, RPCs and hints *)

\* A group that was just opened has no RPCs, no hints and empty snapshots.
LEMMA InitShape == Init => ShapesValid /\ HintsBacked
<1> USE SMTT(60)
<1> SUFFICES ASSUME Init PROVE ShapesValid /\ HintsBacked
    OBVIOUS
<1>1. /\ \A i \in Server : /\ disk[i].term = 0 /\ disk[i].vote = None
                           /\ disk[i].log = <<>> /\ disk[i].commit = 0
                           /\ node[i].role = Follower /\ node[i].hint = None
      /\ msgs = {}
    BY DEF Init, OwnersInit, NewCore, Snapshot
<1>2. Len(<<>>) = 0 /\ DOMAIN <<>> = {} /\ MaxLog \in Nat
    BY SeqEmpty, RaftConstants
<1>3. \A i \in Server : ValidSnapshot(disk[i])
    BY <1>1, <1>2 DEF ValidSnapshot
<1> QED BY <1>1, <1>3, Zenon DEF ShapesValid, HintsBacked

\* A member that is closed, or reopened as a follower without a hint.
LEMMA SilentShape ==
    ASSUME IInv, ShapesValid, HintsBacked, NEW i \in Server, NEW k, NEW b, NEW d,
           b => k.role = Follower /\ k.hint = None, ValidSnapshot(d),
           node' = [node EXCEPT ![i] = k], up' = [up EXCEPT ![i] = b],
           disk' = [disk EXCEPT ![i] = d], msgs' = msgs
    PROVE  ShapesValid' /\ HintsBacked'
<1>1. /\ node'[i] = k /\ up'[i] = b /\ disk'[i] = d
      /\ \A j \in Server : j # i => node'[j] = node[j] /\ up'[j] = up[j] /\ disk'[j] = disk[j]
    BY DEF IInv, TypeOK
<1>2. ShapesValid'
    BY <1>1 DEF ShapesValid
<1>3. HintsBacked'
    BY <1>1 DEF HintsBacked
<1> QED BY <1>2, <1>3, Zenon

\* finish publishes and sends only what has a valid shape.
LEMMA FinishShape ==
    ASSUME IInv, ShapesValid, HintsBacked, NEW i \in Server, up[i], NEW r,
           NEW R \in SUBSET msgs, NEW W \in SUBSET Server,
           Contract(node[i], i, r, W), LogContract(node[i], i, r, R), Finish(i, r)
    PROVE  ShapesValid' /\ HintsBacked'
<1> USE SMTT(60)
<1>1. /\ node \in [Server -> Core] /\ up \in [Server -> BOOLEAN] /\ disk \in [Server -> Saved]
      /\ CoreInv(node[i])
    BY DEF IInv, TypeOK
<1>2. CASE Published(i, r) /\ msgs' = msgs \cup r.out
    <2>1. /\ ValidSnapshot(Snapshot(r.n)) /\ node' = [node EXCEPT ![i] = r.n] /\ up' = up
          /\ disk' = [disk EXCEPT ![i] = Snapshot(r.n)]
        BY <1>2, Zenon DEF Published
    <2>2. /\ node'[i] = r.n /\ disk'[i] = Snapshot(r.n)
          /\ \A j \in Server : j # i => node'[j] = node[j] /\ disk'[j] = disk[j]
        BY <2>1, <1>1
    <2>3. r.n.role # Follower => r.n.term # 0
        <3>1. node[i].term \in Nat /\ r.n.term \in Nat
            BY <1>1, CoreTypes, Zenon DEF Contract
        <3>2. r.n.role # Follower =>
                 \/ node[i].role # Follower /\ r.n.term = node[i].term
                 \/ r.n.term > node[i].term
            BY DEF Contract
        <3> QED BY <3>1, <3>2 DEF ShapesValid
    <2>4. \A m \in r.out : ValidShape(m)
        <3>1. Leader # Follower
            BY DEF Leader, Follower
        <3> QED BY <2>1, <2>3, <3>1, <1>1, OutShape
    <2>5. ShapesValid'
        BY <1>2, <2>1, <2>2, <2>3, <2>4 DEF ShapesValid
    <2>6. ASSUME NEW j \in Server, up'[j], node'[j].hint # None
          PROVE  \/ node'[j].hint = j /\ node'[j].role = Leader
                 \/ \E m \in msgs' : IsAppend(m) /\ m.from = node'[j].hint /\ m.term = node'[j].term
        <3>1. CASE j # i
            BY <1>2, <2>1, <2>2, <2>6, <3>1 DEF HintsBacked
        <3>2. CASE j = i
            <4>1. \/ r.n.role = Leader /\ r.n.hint = i
                  \/ /\ r.n.hint = node[i].hint /\ r.n.term = node[i].term
                     /\ node[i].role = Leader => r.n.role = Leader
                  \/ \E m \in R : IsAppend(m) /\ m.from = r.n.hint /\ m.term = r.n.term
                BY <2>2, <2>6, <3>2 DEF LogContract, RoleContract
            <4>2. node[i].hint # None =>
                     \/ node[i].hint = i /\ node[i].role = Leader
                     \/ \E m \in msgs : IsAppend(m) /\ m.from = node[i].hint /\ m.term = node[i].term
                BY Zenon DEF HintsBacked
            <4> QED BY <1>2, <2>2, <2>6, <3>2, <4>1, <4>2
        <3> QED BY <3>1, <3>2, Zenon
    <2>7. HintsBacked'
        BY <2>6 DEF HintsBacked
    <2> QED BY <2>5, <2>7
<1>3. CASE PublishFailed(i, r) /\ UNCHANGED msgs
    <2>1. /\ node' = [node EXCEPT ![i] = NewCore] /\ up' = [up EXCEPT ![i] = FALSE]
          /\ msgs' = msgs
        BY <1>3 DEF PublishFailed
    <2>2. PICK d : ValidSnapshot(d) /\ disk' = [disk EXCEPT ![i] = d]
        BY <1>3, Zenon DEF PublishFailed, ShapesValid
    <2> QED BY <2>1, <2>2, SilentShape, Zenon
<1> QED BY <1>2, <1>3, Zenon DEF Finish

\* Every step leaves snapshots and RPCs valid and hints backed.
LEMMA NextShape ==
    ASSUME IInv, ShapesValid, HintsBacked, [Next]_vars
    PROVE  ShapesValid' /\ HintsBacked'
<1> USE SMTT(60)
<1>1. /\ \A j \in Server : CoreInv(node[j])
      /\ msgs \subseteq Message /\ node \in [Server -> Core] /\ up \in [Server -> BOOLEAN]
      /\ disk \in [Server -> Saved]
    BY DEF IInv, TypeOK
<1>2. ASSUME NEW i \in Server, TickOwner(i) PROVE ShapesValid' /\ HintsBacked'
    <2>1. Contract(node[i], i, Tick(node[i], i), {})
        BY <1>1, TickOK, Zenon
    <2>2. LogContract(node[i], i, Tick(node[i], i), {})
        BY <1>1, TickLog
    <2>3. {} \in SUBSET msgs /\ {} \in SUBSET Server
        OBVIOUS
    <2> QED BY <1>2, <2>1, <2>2, <2>3, FinishShape, Zenon DEF TickOwner
<1>3. ASSUME NEW i \in Server, NEW m \in msgs, Receive(i, m) PROVE ShapesValid' /\ HintsBacked'
    <2> DEFINE W == {v \in {m.from} : IsVote(m) /\ m.term = node[i].term}
    <2>1. Contract(node[i], i, Step(node[i], i, m), W)
        BY <1>1, StepOK
    <2>2. LogContract(node[i], i, Step(node[i], i, m), {m})
        BY <1>1, StepLog, Zenon
    <2>3. W \in SUBSET Server /\ {m} \in SUBSET msgs
        BY <1>1, MessageTypes
    <2> HIDE DEF W
    <2> QED BY <1>3, <2>1, <2>2, <2>3, FinishShape, Zenon DEF Receive, MayStep
<1>4. ASSUME NEW i \in Server, NEW c \in Cmd, ProposeOwner(i, c)
      PROVE  ShapesValid' /\ HintsBacked'
    <2>1. Contract(node[i], i, Propose(node[i], i, c), {})
        BY <1>1, <1>4, ProposeOK DEF ProposeOwner, MayPropose
    <2>2. LogContract(node[i], i, Propose(node[i], i, c), {})
        BY <1>1, <1>4, ProposeLog, Zenon DEF ProposeOwner, MayPropose
    <2>3. {} \in SUBSET msgs /\ {} \in SUBSET Server
        OBVIOUS
    <2> QED BY <1>4, <2>1, <2>2, <2>3, FinishShape, Zenon DEF ProposeOwner, MayPropose
<1>5. ASSUME NEW i \in Server, CrashOwner(i) PROVE ShapesValid' /\ HintsBacked'
    <2>1. /\ node' = [node EXCEPT ![i] = NewCore] /\ up' = [up EXCEPT ![i] = FALSE]
          /\ disk' = [disk EXCEPT ![i] = disk[i]] /\ msgs' = msgs
        BY <1>1, <1>5, Zenon DEF CrashOwner, Crash
    <2>2. ValidSnapshot(disk[i])
        BY Zenon DEF ShapesValid
    <2> QED BY <2>1, <2>2, SilentShape, Zenon
<1>6. ASSUME NEW i \in Server, ReopenOwner(i) PROVE ShapesValid' /\ HintsBacked'
    <2>1. Recovered(disk[i]).role = Follower /\ Recovered(disk[i]).hint = None
        BY Zenon DEF Recovered, NewCore
    <2>2. /\ node' = [node EXCEPT ![i] = Recovered(disk[i])] /\ up' = [up EXCEPT ![i] = TRUE]
          /\ disk' = [disk EXCEPT ![i] = disk[i]] /\ msgs' = msgs /\ ValidSnapshot(disk[i])
        BY <1>1, <1>6, Zenon DEF ReopenOwner, Reopen
    <2> QED BY <2>1, <2>2, SilentShape, Zenon
<1>7. CASE UNCHANGED vars
    BY <1>7 DEF vars, ShapesValid, HintsBacked
<1> QED BY <1>2, <1>3, <1>4, <1>5, <1>6, <1>7, Zenon DEF Next

-----------------------------------------------------------------------------
(* What the invariants entail *)

\* Two committed prefixes never differ: the later term's leader held what the
\* earlier one committed.
LEMMA DecidedAgree ==
    ASSUME NEW H, NEW L, NEW V, NEW A, NEW nd, NEW u, NEW d, NEW ms,
           Recorded(H, L, V, A, nd, u, d, ms),
           NEW b1 \in Term, NEW b2 \in Term, b1 <= b2,
           NEW k1 \in 1..Len(H[b1]), H[b1][k1].term = b1, Chosen(A, b1, k1),
           NEW c1 \in Nat, c1 <= k1, NEW c2 \in Nat, c2 <= Len(H[b2]),
           NEW k \in Nat, k <= c1, k <= c2
    PROVE  Agree(H[b1], H[b2], k)
<1> USE SMTT(60)
<1>1. \A t \in Term : t \in Nat /\ H[t] \in Seq(Entry) /\ Len(H[t]) \in Nat
    BY RaftConstants, SeqTypes DEF Recorded, HistoryTypes, Term
<1>2. k1 \in Nat /\ k1 <= Len(H[b1]) /\ k <= k1 /\ k <= Len(H[b2]) /\ k <= Len(H[b1])
    BY <1>1
<1>3. CASE b1 = b2
    BY <1>2, <1>3, AgreeSelf, Zenon
<1>4. CASE b1 # b2 /\ k # 0
    <2>1. b1 < b2
        BY <1>1, <1>4
    <2>2. L[b2] # None
        <3> SUFFICES ASSUME L[b2] = None PROVE FALSE
            OBVIOUS
        <3>1. H[b2] = <<>>
            BY Zenon DEF Recorded, LeadersRecorded
        <3>2. Len(H[b2]) = 0
            BY <3>1, SeqEmpty
        <3> QED BY <1>2, <1>4, <3>2
    <2>3. Pending(H, A, d, b1, k1)
        BY Zenon DEF Pending, Choosable, Chosen
    <2>4. Agree(H[b2], H[b1], k1)
        BY <2>1, <2>2, <2>3, Zenon DEF Recorded, LeadersComplete
    <2>5. Agree(H[b2], H[b1], k)
        BY <2>4, <1>1, <1>2, AgreeLess
    <2> QED BY <2>5, AgreeSym
<1>5. CASE k = 0
    BY <1>2, <1>5 DEF Agree
<1> QED BY <1>3, <1>4, <1>5

\* The history makes the logs agree.
LEMMA HistoryAgrees == IInv /\ LogInv => LogsAgree /\ MatchIsHeld
<1> USE SMTT(60)
<1> SUFFICES ASSUME IInv, LogInv PROVE LogsAgree /\ MatchIsHeld
    OBVIOUS
<1>1. PICK H, L, V, A : Recorded(H, L, V, A, node, up, disk, msgs)
    BY DEF LogInv
<1>2. \A t \in Term : t \in Nat /\ H[t] \in Seq(Entry) /\ Len(H[t]) \in Nat
    BY <1>1, RaftConstants, SeqTypes DEF Recorded, HistoryTypes, Term
<1>3. \A j \in Server : /\ disk[j].term \in Term /\ disk[j].log \in Seq(Entry)
                        /\ disk[j].commit \in Nat /\ disk[j].commit <= Len(disk[j].log)
                        /\ Len(disk[j].log) \in Nat
                        /\ DOMAIN disk[j].log = 1..Len(disk[j].log)
    <2> TAKE j \in Server
    <2>1. disk[j] \in Saved /\ disk[j].commit <= Len(disk[j].log)
        BY DEF IInv, TypeOK
    <2>2. disk[j].term \in Term /\ disk[j].log \in Seq(Entry) /\ disk[j].commit \in Nat
        BY <2>1, Zenon DEF Saved
    <2> QED BY <2>1, <2>2, SeqTypes, Zenon
<1>4. \A j \in Server : /\ node[j].term \in Term /\ node[j].log \in Seq(Entry)
                        /\ Len(node[j].log) \in Nat /\ node[j].match \in [Server -> Nat]
    BY CoreTypes DEF IInv
<1>5. \A i \in Server : IsLeader(i) => L[node[i].term] = i /\ H[node[i].term] = node[i].log
    BY <1>1, Zenon DEF Recorded, LeadersRecorded, IsLeader
<1>6. \A j \in Server : Decided(H, A, disk[j].log, disk[j].term, disk[j].commit)
    BY <1>1 DEF Recorded, CommitsDecided
<1>7. ASSUME NEW s \in Seq(Entry), NEW t \in Seq(Entry), NEW k \in Nat, Agree(s, t, k)
      PROVE  Prefix(s, k) = Prefix(t, k)
    BY <1>7, PrefixEqual, Zenon DEF Agree
<1>8. LogMatching
    <2> SUFFICES ASSUME NEW i \in Server, NEW j \in Server,
                        NEW k \in DOMAIN disk[i].log \cap DOMAIN disk[j].log,
                        disk[i].log[k].term = disk[j].log[k].term
                 PROVE  Prefix(disk[i].log, k) = Prefix(disk[j].log, k)
        BY Zenon DEF LogMatching
    <2>1. k \in 1..Len(disk[i].log) /\ k \in 1..Len(disk[j].log) /\ k \in Nat
        BY <1>3
    <2>2. /\ Agree(disk[i].log, H[disk[i].log[k].term], k)
          /\ Agree(disk[j].log, H[disk[j].log[k].term], k)
        BY <1>1, <2>1, Zenon DEF Recorded, LogsRecorded, Traced
    <2>3. Agree(disk[i].log, disk[j].log, k)
        BY <2>2, AgreeSym, AgreeTrans
    <2> QED BY <1>3, <1>7, <2>1, <2>3
<1>9. CommitsAgree
    <2> SUFFICES ASSUME NEW i \in Server, NEW j \in Server,
                        NEW k \in 1..Smaller(disk[i].commit, disk[j].commit)
                 PROVE  disk[i].log[k] = disk[j].log[k]
        BY DEF CommitsAgree
    <2> DEFINE c == disk[i].commit
               e == disk[j].commit
               s == disk[i].log
               z == disk[j].log
    <2>1. k \in Nat /\ k >= 1 /\ k <= c /\ k <= e /\ c # 0 /\ e # 0 /\ c \in Nat /\ e \in Nat
        BY <1>3 DEF Smaller
    <2>2. PICK a \in Term : \E l \in 1..Len(H[a]) :
             /\ c <= l /\ H[a][l].term = a /\ Chosen(A, a, l) /\ Agree(s, H[a], c)
        BY <1>6, <2>1, Zenon DEF Decided
    <2>3. PICK l \in 1..Len(H[a]) :
             /\ c <= l /\ H[a][l].term = a /\ Chosen(A, a, l) /\ Agree(s, H[a], c)
        BY <2>2
    <2>4. PICK b \in Term : \E p \in 1..Len(H[b]) :
             /\ e <= p /\ H[b][p].term = b /\ Chosen(A, b, p) /\ Agree(z, H[b], e)
        BY <1>6, <2>1, Zenon DEF Decided
    <2>5. PICK p \in 1..Len(H[b]) :
             /\ e <= p /\ H[b][p].term = b /\ Chosen(A, b, p) /\ Agree(z, H[b], e)
        BY <2>4
    <2> HIDE DEF c, e, s, z
    <2>6. c <= Len(H[a]) /\ e <= Len(H[b])
        BY <2>3, <2>5, Zenon DEF Agree
    <2>7. Agree(H[a], H[b], k)
        <3>1. CASE a <= b
            BY <1>1, <2>1, <2>3, <2>6, <3>1, DecidedAgree, Zenon
        <3>2. CASE b <= a
            <4>1. Agree(H[b], H[a], k)
                BY <1>1, <2>1, <2>5, <2>6, <3>2, DecidedAgree, Zenon
            <4> QED BY <4>1, AgreeSym
        <3> QED BY <1>2, <3>1, <3>2
    <2>8. k \in 1..k /\ k \in 1..c /\ k \in 1..e
        BY <2>1
    <2>9. s[k] = H[a][k] /\ z[k] = H[b][k] /\ H[a][k] = H[b][k]
        BY <2>3, <2>5, <2>7, <2>8, Zenon DEF Agree
    <2> QED BY <2>9, Zenon DEF s, z
<1>10. LeaderCompleteness
    <2> SUFFICES ASSUME NEW i \in Server, NEW j \in Server, IsLeader(i),
                        disk[j].term <= node[i].term
                 PROVE  /\ disk[j].commit <= LastIndex(node[i])
                        /\ Prefix(node[i].log, disk[j].commit) = Committed(j)
        BY Zenon DEF LeaderCompleteness
    <2> DEFINE c == disk[j].commit
               z == disk[j].log
               T == node[i].term
    <2>1. Agree(z, H[T], c)
        <3>1. CASE c = 0
            BY <3>1, <1>2, <1>3, <1>4 DEF Agree
        <3>2. CASE c # 0
            <4>1. PICK b \in Term : \E p \in 1..Len(H[b]) :
                     /\ b <= disk[j].term /\ c <= p /\ H[b][p].term = b /\ Chosen(A, b, p)
                     /\ Agree(z, H[b], c)
                BY <1>6, <3>2 DEF Decided
            <4>2. PICK p \in 1..Len(H[b]) :
                     /\ b <= disk[j].term /\ c <= p /\ H[b][p].term = b /\ Chosen(A, b, p)
                     /\ Agree(z, H[b], c)
                BY <4>1, Zenon
            <4>3. b \in Nat /\ p \in Nat /\ T \in Nat /\ T \in Term /\ b <= T /\ c \in Nat
                BY <1>2, <1>3, <1>4, <4>2
            <4>4. CASE b = T
                BY <4>2, <4>4, Zenon
            <4>5. CASE b < T
                <5>1. Pending(H, A, disk, b, p)
                    BY <4>2 DEF Pending, Choosable, Chosen
                <5>2. L[T] # None
                    BY <1>5, RaftConstants
                <5>3. Agree(H[T], H[b], p)
                    BY <1>1, <4>3, <4>5, <5>1, <5>2 DEF Recorded, LeadersComplete
                <5>4. Agree(H[T], H[b], c)
                    BY <1>2, <4>2, <4>3, <5>3, AgreeLess
                <5> QED BY <4>2, <5>4, AgreeSym, AgreeTrans
            <4> QED BY <4>3, <4>4, <4>5
        <3> QED BY <3>1, <3>2, Zenon
    <2>2. H[T] = node[i].log
        BY <1>5
    <2>3. c <= Len(node[i].log)
        BY <2>1, <2>2, Zenon DEF Agree
    <2>4. Prefix(z, c) = Prefix(node[i].log, c)
        BY <1>3, <1>4, <1>7, <2>1, <2>2
    <2> QED BY <2>3, <2>4 DEF LastIndex, Committed
<1>11. MatchIsHeld
    <2> SUFFICES ASSUME NEW i \in Server, NEW j \in Server, IsLeader(i), i # j,
                        disk[j].term = node[i].term, NEW k, k = node[i].match[j]
                 PROVE  k <= Len(disk[j].log) /\ Prefix(disk[j].log, k) = Prefix(node[i].log, k)
        BY DEF MatchIsHeld
    <2> DEFINE T == node[i].term
    <2>1. k <= A[j][T] /\ k \in Nat /\ A[j][T] \in Nat
        BY <1>1, <1>4 DEF Recorded, AcksRecorded, HistoryTypes, IsLeader, Peers
    <2>2. Agree(disk[j].log, H[T], A[j][T])
        BY <1>1, Zenon DEF Recorded, AcksRecorded
    <2>3. Agree(disk[j].log, H[T], k)
        BY <1>2, <1>3, <1>4, <2>1, <2>2, AgreeLess
    <2>4. H[T] = node[i].log
        BY <1>5, Zenon
    <2>5. k <= Len(disk[j].log)
        BY <2>3 DEF Agree
    <2>6. Prefix(disk[j].log, k) = Prefix(node[i].log, k)
        BY <1>3, <1>4, <1>7, <2>1, <2>3, <2>4
    <2> QED BY <2>5, <2>6, Zenon
<1> QED BY <1>8, <1>9, <1>10, <1>11, Zenon DEF LogsAgree

\* Valid snapshots and RPCs make the next ones valid.
LEMMA ShapesSuffice == IInv /\ ShapesValid => NeverSelfFenced
<1> USE SMTT(60)
<1> SUFFICES ASSUME IInv, ShapesValid PROVE NeverSelfFenced
    OBVIOUS
<1>1. /\ \A i \in Server : CoreInv(node[i]) /\ ValidSnapshot(disk[i])
                           /\ (up[i] => Snapshot(node[i]) = disk[i])
      /\ msgs \subseteq Message /\ \A m \in msgs : ValidShape(m)
    BY Zenon DEF IInv, TypeOK, ShapesValid
<1>2. ASSUME NEW i \in Server, up[i] PROVE ValidSnapshot(Snapshot(Tick(node[i], i).n))
    <2>1. Contract(node[i], i, Tick(node[i], i), {})
        BY <1>1, TickOK, Zenon
    <2>2. LogContract(node[i], i, Tick(node[i], i), {}) /\ Tick(node[i], i).n.log = node[i].log
        BY <1>1, TickLog
    <2>3. ValidSnapshot(Snapshot(node[i])) /\ {} \in SUBSET Message
        BY <1>1, <1>2, Zenon
    <2> QED BY <1>1, <2>1, <2>2, <2>3, CallValid, Zenon
<1>3. ASSUME NEW i \in Server, up[i], NEW m \in msgs, m.to = i, MayStep(i, m)
      PROVE  ValidSnapshot(Snapshot(Step(node[i], i, m).n))
    <2> DEFINE W == {v \in {m.from} : IsVote(m) /\ m.term = node[i].term}
               n == node[i]
               r == Step(n, i, m)
    <2>1. Contract(n, i, r, W)
        BY <1>1, StepOK, Zenon
    <2>2. /\ LogContract(n, i, r, {m})
          /\ r.n.log = n.log \/ (/\ IsAppend(m) /\ m.term >= n.term /\ AppendFits(n, m)
                                 /\ r.n.log = AppendedLog(n, m))
        BY <1>1, StepLog, Zenon
    <2>3. ValidSnapshot(Snapshot(n)) /\ {m} \in SUBSET Message /\ \A q \in {m} : ValidShape(q)
        BY <1>1, <1>3
    <2> HIDE DEF W, r
    <2>4. r.n.log = n.log \/ (Len(r.n.log) <= MaxLog /\ \E q \in {m} : Took(n, r, q))
        <3>1. r.n.log = n.log \/ Took(n, r, m)
            BY <2>2 DEF LogContract, GrowContract
        <3>2. r.n.log = n.log \/ Len(r.n.log) <= MaxLog
            BY <1>3, <2>2, Zenon DEF MayStep, IsAppend
        <3> QED BY <3>1, <3>2, Zenon
    <2>5. ValidSnapshot(Snapshot(r.n))
        BY <1>1, <2>1, <2>2, <2>3, <2>4, CallValid, Zenon
    <2> QED BY <2>5 DEF r
<1> QED BY <1>1, <1>2, <1>3 DEF NeverSelfFenced

-----------------------------------------------------------------------------
(* Theorems *)

\* A history exists in every reachable state, snapshots and RPCs are valid and
\* hints are backed by what a leader sent.
THEOREM HistoryKept == Spec => [](LogInv /\ ShapesValid /\ HintsBacked)
<1>1. Init => LogInv /\ ShapesValid /\ HintsBacked
    BY InitLog, InitShape, Zenon
<1>2. IInv /\ (LogInv /\ ShapesValid /\ HintsBacked) /\ [Next]_vars
        => (LogInv /\ ShapesValid /\ HintsBacked)'
    BY NextLog, NextShape
<1> QED BY Invariance, <1>1, <1>2, PTL DEF Spec

\* State machine safety: logs match, no two members ever commit different entries
\* and every leader holds what was committed before it (append_plan, advance_commit,
\* the up-to-date check of step_request_vote), for any number of members and through
\* crashes, failed publications, and lost, repeated and reordered RPCs.
THEOREM LogsAlwaysAgree == Spec => []LogsAgree
<1>1. IInv /\ LogInv => LogsAgree
    BY HistoryAgrees
<1> QED BY Invariance, HistoryKept, <1>1, PTL

\* What a leader counts toward a commit is on the follower's disk
\* (step_append_resp, sent_upper).
THEOREM MatchAlwaysHeld == Spec => []MatchIsHeld
<1>1. IInv /\ LogInv => MatchIsHeld
    BY HistoryAgrees, Zenon
<1> QED BY Invariance, HistoryKept, <1>1, PTL

\* A leader hint names the leader of the hinting member's term (become_leader,
\* step_append, observe_term).
THEOREM HintsNameLeaders == Spec => []HintNamesLeader
<1>1. HintsBacked => HintNamesLeader
    BY Zenon DEF HintsBacked, HintNamesLeader, Led, IsLeader, IsAppend
<1> QED BY HistoryKept, <1>1, PTL

\* No member is stopped by its own RPCs or its own steps (validate_shape, validate).
THEOREM NobodySelfFenced == Spec => []NeverSelfFenced
<1>1. IInv /\ ShapesValid => NeverSelfFenced
    BY ShapesSuffice, Zenon
<1> QED BY Invariance, HistoryKept, <1>1, PTL
=============================================================================
