-------------------------------- MODULE Raft --------------------------------
(***************************************************************************)
(* A Raft group over the least a network may promise: msgs holds every RPC *)
(* that ever left an outbox, so an RPC can be delivered late, out of       *)
(* order, several times, or never.  Time is left out: an election or       *)
(* heartbeat timer may run out between any two events.                     *)
(*                                                                         *)
(* observe_term also empties the outbox.  Here the RPCs of a call leave    *)
(* with the call; one the code would have dropped is one never delivered.  *)
(***************************************************************************)
EXTENDS DurableRaft

VARIABLE msgs   \* the RPCs sent so far

vars == <<node, up, disk, faults, msgs>>

\* finish: the queued RPCs leave only after a successful publication.
Finish(i, r) ==
    \/ Published(i, r) /\ msgs' = msgs \cup r.out
    \/ PublishFailed(i, r) /\ UNCHANGED msgs

TickOwner(i) == up[i] /\ Finish(i, Tick(node[i], i))

Receive(i, m) == m.to = i /\ MayStep(i, m) /\ Finish(i, Step(node[i], i, m))

ProposeOwner(i, c) == MayPropose(i) /\ Finish(i, Propose(node[i], i, c))

CrashOwner(i) == Crash(i) /\ UNCHANGED msgs

ReopenOwner(i) == Reopen(i) /\ UNCHANGED msgs

Init == OwnersInit /\ msgs = {}

Next ==
    \E i \in Server :
        \/ TickOwner(i)
        \/ \E m \in msgs : Receive(i, m)
        \/ \E c \in Cmd : ProposeOwner(i, c)
        \/ CrashOwner(i)
        \/ ReopenOwner(i)

Spec == Init /\ [][Next]_vars

\* The type invariant of the group: every field of every core, snapshot and
\* RPC keeps its type, whatever interleaving of calls, faults and deliveries.
TypeOK ==
    /\ node \in [Server -> Core]
    /\ up \in [Server -> BOOLEAN]
    /\ disk \in [Server -> Saved]
    /\ faults \in Nat
    /\ msgs \subseteq Message

-----------------------------------------------------------------------------
(* Elections *)

\* i leads term t now, or did when it sent a request of t.
Led(i, t) ==
    \/ IsLeader(i) /\ node[i].term = t
    \/ \E m \in msgs : m.type = "AppendEntries" /\ m.from = i /\ m.term = t

\* No term ever has two leaders, not even at different times or with members
\* closed by a failed publication and reopened from disk in between
\* (start_election, step_request_vote, step_vote_resp, finish, open).
ElectionSafety ==
    \A i, j \in Server : \A t \in Term : Led(i, t) /\ Led(j, t) => i = j

\* A vote that left the voter is on its disk for as long as the voter stays in
\* that term: no failed publication and no reopen forgets it (finish, open).
VotesKept ==
    \A m \in msgs :
        m.type = "RequestVoteResp" /\ m.granted =>
            \/ disk[m.from].term > m.term
            \/ disk[m.from].term = m.term /\ disk[m.from].vote = m.to

\* A leader hint, which hosts follow to redirect clients, names the leader of
\* the hinting member's current term (become_leader, step_append).
HintNamesLeader ==
    \A i \in Server :
        up[i] /\ node[i].hint # None => Led(node[i].hint, node[i].term)

-----------------------------------------------------------------------------
\* No RPC a member sends is refused as malformed by its receiver, and no step
\* computes a snapshot that validate refuses: either would stop the member for
\* good (validate_shape, validate).
NeverSelfFenced ==
    /\ \A m \in msgs : ValidShape(m)
    /\ \A i \in Server : up[i] =>
          /\ ValidSnapshot(Snapshot(Tick(node[i], i).n))
          /\ \A m \in msgs : m.to = i /\ MayStep(i, m) =>
                ValidSnapshot(Snapshot(Step(node[i], i, m).n))
=============================================================================
