-------------------------------- MODULE Swim --------------------------------
(***************************************************************************)
(* Cluster membership (crates/parrot-remote/src/swim.rs and its driver in  *)
(* system.rs): every node keeps a table of members, suspects the ones it   *)
(* cannot reach, spreads its table by gossip, and corrects what others say *)
(* about itself.  Time is abstract: a probe, a suspicion or a tombstone    *)
(* may end at any moment.                                                  *)
(***************************************************************************)
EXTENDS Naturals, FiniteSets, FiniteSetsExt, Sequences, Functions

CONSTANTS
    Node,
    Founder,        \* the nodes that are up at first
    Mode,           \* gossip_mode: "Full" or "Digest"
    MaxStops,       \* bound on the processes that end
    MaxMisses       \* bound on the probes of a reachable node that fail

Alive == 0
Suspect == 1
Dead == 2

VARIABLES
    running,    \* the nodes whose process is up
    address,    \* address[n]: the endpoint of the last process of n
    members,    \* members[n]: n's table, a function on the nodes it knows
    probe,      \* probe[n]: the member n is probing, as it was then
    linked,     \* the pairs of nodes with a connection
    gossip,     \* gossip[i][j]: the membership frames from i to j, in order
    stops, misses

swimVars == <<running, address, members, probe, linked, gossip, stops, misses>>

NoProbe == <<>>

\* An entry of a table; address 0 is that of a connection's other end, which
\* stands for no endpoint.
Member(inc, status, addr) == [inc |-> inc, status |-> status, addr |-> addr]

Provisional == Member(0, Alive, 0)

Knows(n, j) == j \in DOMAIN members[n]

-----------------------------------------------------------------------------
(* Membership *)

\* Faulty: only a claim of a later incarnation is refuted.
MergeOwnerLater(own, e) ==
    IF e.inc <= own.inc THEN own
    ELSE IF e.status # Alive \/ e.addr # own.addr THEN [own EXCEPT !.inc = e.inc + 1]
    ELSE [own EXCEPT !.inc = e.inc]

\* merge_owner: what others say about the node itself.
MergeOwner(own, e) ==
    IF e.inc < own.inc THEN own
    ELSE IF e.status # Alive \/ e.addr # own.addr THEN [own EXCEPT !.inc = e.inc + 1]
    ELSE [own EXCEPT !.inc = e.inc]

\* The order on (incarnation, status_rank).
Above(e, f) == e.inc > f.inc \/ (e.inc = f.inc /\ e.status > f.status)

\* merge_event with an Upsert of j, the resulting entry.
MergeEvent(n, table, j, e) ==
    IF j = n THEN MergeOwner(table[n], e)
    ELSE IF j \in DOMAIN table /\ ~Above(e, table[j]) THEN table[j]
    ELSE e

\* The table of n after the members of a frame were merged into it.
Merged(n, table, news) ==
    [j \in DOMAIN table \cup DOMAIN news |->
        IF j \in DOMAIN news THEN MergeEvent(n, table, j, news[j]) ELSE table[j]]

\* digest: the xor over the table of the hashes of each field of each member; a
\* hash is a set of bits of its own, the status its two bits.
Hashes(j, e) ==
    {<<"id", j>>, <<"inc", e.inc>>, IF e.addr = 0 THEN <<"addr">> ELSE <<"addr", j, e.addr>>}
    \cup (IF e.status = Alive THEN {} ELSE {<<"status", e.status>>})

Digest(table) == FoldFunction(SymDiff, {}, [j \in DOMAIN table |-> Hashes(j, table[j])])

-----------------------------------------------------------------------------
(* Processes and connections *)

Pair(i, j) == {i, j}

\* A process ends, its connections and what they carried with it.
StopNode(n) ==
    /\ n \in running /\ stops < MaxStops
    /\ running' = running \ {n}
    /\ linked' = {l \in linked : n \notin l}
    /\ gossip' = [i \in Node |-> [j \in Node |-> IF n \in {i, j} THEN <<>> ELSE gossip[i][j]]]
    /\ probe' = [probe EXCEPT ![n] = NoProbe]
    /\ stops' = stops + 1
    /\ UNCHANGED <<address, members, misses>>

\* A new process of n: publish_local, at the endpoint of the last one or another.
StartNode(n) ==
    /\ n \notin running
    /\ running' = running \cup {n}
    /\ \/ address' = [address EXCEPT ![n] = @ + 1]
       \/ address[n] > 0 /\ UNCHANGED address
    /\ members' = [members EXCEPT ![n] = [j \in {n} |-> Member(1, Alive, address'[n])]]
    /\ UNCHANGED <<probe, linked, gossip, stops, misses>>

\* register_link at both ends, with the provisional entries it merges.
Connect(i, j) ==
    /\ i # j /\ {i, j} \subseteq running /\ Pair(i, j) \notin linked
    /\ linked' = linked \cup {Pair(i, j)}
    /\ members' = [members EXCEPT
          ![i] = Merged(i, @, [k \in {j} |-> Provisional]),
          ![j] = Merged(j, @, [k \in {i} |-> Provisional])]
    /\ UNCHANGED <<running, address, probe, gossip, stops, misses>>

-----------------------------------------------------------------------------
(* Probes and timers: run_inner, and the watcher of a closed connection *)

\* A probe that cannot fail within the bounds changes nothing and is left out.
StartProbe(i, j) ==
    /\ misses < MaxMisses \/ stops < MaxStops \/ j \notin running
    /\ i \in running /\ probe[i] = NoProbe
    /\ j # i /\ Knows(i, j) /\ members[i][j].status # Dead
    /\ probe' = [probe EXCEPT ![i] = <<j, members[i][j]>>]
    /\ UNCHANGED <<running, address, members, linked, gossip, stops, misses>>

\* The target, or a helper, answered, or nobody could tell.
ProbeAnswered(i) ==
    /\ probe[i] # NoProbe
    /\ probe' = [probe EXCEPT ![i] = NoProbe]
    /\ UNCHANGED <<running, address, members, linked, gossip, stops, misses>>

\* mark_suspect
Suspected(i, j) ==
    members' = [members EXCEPT ![i][j].status = IF @ = Alive THEN Suspect ELSE @]

\* A failed probe counts only against the entry that was probed.
ProbeFailed(i) ==
    /\ probe[i] # NoProbe
    /\ LET j == probe[i][1] IN
        /\ IF j \in running THEN misses < MaxMisses /\ misses' = misses + 1
                            ELSE UNCHANGED misses
        /\ IF Knows(i, j) /\ members[i][j] = probe[i][2]
           THEN Suspected(i, j) ELSE UNCHANGED members
    /\ probe' = [probe EXCEPT ![i] = NoProbe]
    /\ UNCHANGED <<running, address, linked, gossip, stops>>

\* tick_with_retention: a suspicion becomes a death.
Expire(i, j) ==
    /\ i \in running /\ Knows(i, j) /\ members[i][j].status = Suspect
    /\ members' = [members EXCEPT ![i][j].status = Dead]
    /\ UNCHANGED <<running, address, probe, linked, gossip, stops, misses>>

\* tick_with_retention: a tombstone is removed.  dead_retention is a day, gossip
\* a fraction of a second: a node that is up refuted its death long before.
Forget(i, j) ==
    /\ i \in running /\ Knows(i, j) /\ members[i][j].status = Dead /\ j \notin running
    /\ members' = [members EXCEPT ![i] = Restrict(@, DOMAIN @ \ {j})]
    /\ UNCHANGED <<running, address, probe, linked, gossip, stops, misses>>

-----------------------------------------------------------------------------
(* Gossip *)

\* A frame carries a table and its digest, or only its digest.
GossipFrame(kind, table) ==
    [kind |-> kind, body |-> IF kind = "digest" THEN Digest(table) ELSE table]

TableOf(f) == IF f.kind = "digest" THEN <<>> ELSE f.body

DigestOf(f) == IF f.kind = "digest" THEN f.body ELSE Digest(f.body)

\* send_frame_sync: a connection that is full drops the frame; it has room for
\* one frame of a gossip tick and one answer.
Sent(frames, f) ==
    IF \E k \in DOMAIN frames : (frames[k].kind = "full") = (f.kind = "full")
    THEN frames ELSE Append(frames, f)

TickKind == IF Mode = "Full" THEN "push" ELSE "digest"

\* The gossip tick of i reaches j; the dead are told too.
SendGossip(i, j) ==
    /\ Pair(i, j) \in linked /\ i # j /\ Knows(i, j)
    /\ gossip' = [gossip EXCEPT ![i][j] = Sent(@, GossipFrame(TickKind, members[i]))]
    /\ gossip' # gossip
    /\ UNCHANGED <<running, address, members, probe, linked, stops, misses>>

\* handle_gossip, and the full_sync that answers a digest other than one's own
\* (equal tables have equal digests).
HandleGossip(i, j) ==
    /\ gossip[i][j] # <<>>
    /\ LET f == Head(gossip[i][j])
           table == Merged(j, members[j], TableOf(f))
           differs == f.kind # "full" /\ TableOf(f) # table /\ DigestOf(f) # Digest(table)
       IN  /\ members' = [members EXCEPT ![j] = table]
           /\ gossip' = [gossip EXCEPT ![i][j] = Tail(@),
                ![j][i] = IF differs THEN Sent(@, GossipFrame("full", table)) ELSE @]
    /\ UNCHANGED <<running, address, probe, linked, stops, misses>>

-----------------------------------------------------------------------------
SwimInit ==
    /\ running = Founder
    /\ address = [n \in Node |-> IF n \in Founder THEN 1 ELSE 0]
    /\ members = [n \in Node |-> IF n \in Founder THEN [j \in {n} |-> Member(1, Alive, 1)]
                                                  ELSE <<>>]
    /\ probe = [n \in Node |-> NoProbe]
    /\ linked = {} /\ gossip = [i \in Node |-> [j \in Node |-> <<>>]]
    /\ stops = 0 /\ misses = 0

SwimNext ==
    \/ \E n \in Node : StopNode(n) \/ StartNode(n) \/ ProbeAnswered(n) \/ ProbeFailed(n)
    \/ \E i, j \in Node :
          Connect(i, j) \/ StartProbe(i, j) \/ Expire(i, j) \/ Forget(i, j)
          \/ SendGossip(i, j) \/ HandleGossip(i, j)

SwimSpec == SwimInit /\ [][SwimNext]_swimVars

\* Nodes are started again and connected; the gossip ticker runs and its cursor
\* comes round to every member; a connection delivers.  The subscripts are the
\* variables these steps always change.
SwimFairness ==
    /\ WF_running(\E n \in Node : StartNode(n))
    /\ WF_linked(\E i, j \in Node : Connect(i, j))
    /\ \A i \in Node : \A j \in Node \ {i} :
          WF_gossip(SendGossip(i, j)) /\ WF_gossip(HandleGossip(i, j))

FairSwimSpec == SwimSpec /\ SwimFairness

-----------------------------------------------------------------------------
(* Properties *)

\* The routes an observer projects into its node table (member_route).
Routes(n, j) == Knows(n, j) /\ members[n][j].status # Dead /\ members[n][j].addr = address[j]

\* Everybody routes to everybody at its present endpoint, and believes it alive.
Healed ==
    running = Node /\ \A i, j \in Node : Routes(i, j) /\ members[i][j].status = Alive

\* "After reconnect they must be able to refute stale death" (run_inner): once
\* processes and probes no longer fail, the tables come to be right.
Heals == <>[]Healed
=============================================================================
