------------------------------- MODULE MCRaft -------------------------------
(***************************************************************************)
(* Small instances of Raft and RaftLinks.  A behaviour follows one of      *)
(* three scenarios: two elections of an empty group with a fault anywhere, *)
(* the replication of two entries by the first leader, or an election and  *)
(* an entry over the bounded links with faults, where msgs is a history of *)
(* the RPCs that left an outbox.  A leader is computed by the operators of *)
(* RaftCore along a fixed script, so that the bounds are spent on what     *)
(* happens next.                                                           *)
(***************************************************************************)
EXTENDS RaftInv, RaftLinks, TLC

CONSTANT MaxFlight  \* RPCs in the transport at a time, in all links together

VARIABLE scenario   \* "elections", "replication" or "links", for the whole behaviour

Symmetry == Permutations(Server)

Elections == {<<m.from, m.term>> : m \in {m \in msgs : m.type = "RequestVote"}}

\* An empty group elects at most twice; a leader with entries keeps its term.
Within ==
    \/ /\ scenario = "elections"
       /\ Cardinality(Elections') <= 2
       /\ \A i \in Server : node'[i].log = <<>>
    \/ /\ scenario = "replication"
       /\ Cardinality(Elections') <= 1
       /\ faults' = 0

Records(i, r) == msgs' = IF up'[i] THEN msgs \cup r.out ELSE msgs

\* LinkNext, with the history.
RecordedNext ==
    \/ \E i \in Server :
          \/ LinkTick(i) /\ Records(i, Tick(node[i], i))
          \/ \E c \in Cmd : LinkPropose(i, c) /\ Records(i, Propose(node[i], i, c))
          \/ (LinkCrash(i) \/ LinkReopen(i)) /\ UNCHANGED msgs
    \/ \E m \in flight :
          \/ Deliver(m) /\ Records(m.to, Step(node[m.to], m.to, m))
          \/ Lose(m) /\ UNCHANGED msgs

ScenarioNext ==
    /\ UNCHANGED scenario
    /\ \/ Next /\ Within /\ UNCHANGED flight
       \/ /\ scenario = "links"
          /\ RecordedNext
          /\ Cardinality(flight') <= MaxFlight
          /\ \A i \in Server : Len(node'[i].log) + Cardinality(Elections') <= 2

-----------------------------------------------------------------------------
(* The script: a state is [node, msgs] with every owner open and published *)

Fresh == [node |-> [i \in Server |-> NewCore], msgs |-> {}]

After(s, i, r) == [node |-> [s.node EXCEPT ![i] = r.n], msgs |-> s.msgs \cup r.out]

Ticked(s, i) == After(s, i, Tick(s.node[i], i))

Delivered(s, m) == After(s, m.to, Step(s.node[m.to], m.to, m))

\* i stands and wins with the vote of v.
Elected(s, i, v) ==
    LET stood == Ticked(s, i)
        voted == Delivered(stood, RequestVote(i, v, stood.node[i]))
    IN  Delivered(voted, RequestVoteResp(v, i, voted.node[v], TRUE))

StartAt(s) ==
    /\ node = s.node
    /\ msgs = s.msgs
    /\ disk = [i \in Server |-> Snapshot(s.node[i])]
    /\ up = [i \in Server |-> TRUE]
    /\ faults = 0

\* The first leader of term 1 was elected with one vote; the third member has
\* heard nothing yet.
ScenarioInit ==
    /\ flight = {}
    /\ \/ scenario \in {"elections", "links"} /\ Init
       \/ /\ scenario = "replication"
          /\ \E i \in Server : \E v \in Server \ {i} : StartAt(Elected(Fresh, i, v))

ScenarioSpec == ScenarioInit /\ [][ScenarioNext]_<<vars, flight, scenario>>

\* Every step over the links is one Raft allows, so what is proved of Raft holds
\* over them (the worker loop's drain, pump).
RefinesRaft == [][scenario = "links" => Next]_vars
=============================================================================
