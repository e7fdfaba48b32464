------------------------------ MODULE RaftInv ------------------------------
(***************************************************************************)
(* The inductive invariants behind the theorems of RaftProofs and          *)
(* RaftLogProofs.                                                          *)
(***************************************************************************)
EXTENDS Raft, RaftHistory

\* i stands in term t now, or led it.
Campaigned(i, t) ==
    \/ up[i] /\ node[i].role # Follower /\ node[i].term = t
    \/ \E m \in msgs : IsAppend(m) /\ m.from = i /\ m.term = t

\* v's vote for c in term t is out: as a reply, or as c's own vote for itself.
Ballot(v, t, c) ==
    \/ \E m \in msgs : IsVote(m) /\ m.from = v /\ m.to = c /\ m.term = t
    \/ v = c /\ Campaigned(c, t)

BallotsKept ==
    \A v, c \in Server : \A t \in Term :
        Ballot(v, t, c) =>
            \/ disk[v].term > t
            \/ disk[v].term = t /\ disk[v].vote = c

BallotsUnique ==
    \A v, c, d \in Server : \A t \in Term :
        Ballot(v, t, c) /\ Ballot(v, t, d) => c = d

\* The votes a candidate or leader counted were cast for it in its term.
VotesCounted ==
    \A i \in Server : up[i] /\ node[i].role # Follower =>
        \A v \in node[i].votes : Ballot(v, node[i].term, i)

\* Whoever led a term had a quorum of its ballots.
LedByQuorum ==
    \A i \in Server : \A t \in Term : Led(i, t) =>
        \E Q \in SUBSET Server :
            /\ Cardinality(Q) >= QuorumSize
            /\ \A v \in Q : Ballot(v, t, i)

\* The inductive invariant: each open owner's core is sound and published, and
\* the ballots of every term are kept, unique and what leaders were elected by.
IInv ==
    /\ TypeOK
    /\ \A i \in Server : CoreInv(node[i])
    /\ \A i \in Server : up[i] => Snapshot(node[i]) = disk[i]
    /\ \A i \in Server : disk[i].commit <= Len(disk[i].log)
    /\ BallotsKept
    /\ BallotsUnique
    /\ VotesCounted
    /\ LedByQuorum

-----------------------------------------------------------------------------
(* The history of the logs, and the invariants that need none *)

\* The group has a history.
LogInv == \E H, L, V, A : Recorded(H, L, V, A, node, up, disk, msgs)

\* Snapshots and RPCs pass the checks of whoever reads them next.
ShapesValid ==
    /\ \A i \in Server : ValidSnapshot(disk[i])
    /\ \A i \in Server : up[i] /\ node[i].role # Follower => node[i].term # 0
    /\ \A m \in msgs : ValidShape(m)

\* A hint names the member itself, as leader, or the sender of an append.
HintsBacked ==
    \A i \in Server : up[i] /\ node[i].hint # None =>
        \/ node[i].hint = i /\ node[i].role = Leader
        \/ \E m \in msgs : IsAppend(m) /\ m.from = node[i].hint /\ m.term = node[i].term
=============================================================================
