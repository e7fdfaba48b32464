------------------------------ MODULE RaftLinks ------------------------------
(***************************************************************************)
(* A Raft group over the links of NetworkDirectory                         *)
(* (crates/parrot-remote/src/roles/directory/network.rs).  The worker      *)
(* offers each RPC of its outbox to the channel of the peer, which drops   *)
(* it when full; the pump of the peer takes one RPC at a time, sends it,   *)
(* and goes on to the next one when it is acknowledged, refused or timed   *)
(* out.  An attempt that timed out may still arrive, so RPCs of a link can *)
(* overtake each other, but none is sent twice.                            *)
(***************************************************************************)
EXTENDS DurableRaft

CONSTANT LinkCap    \* RPCs of one link in channel, pump and transport

ASSUME LinkCapPos == LinkCap \in Nat \ {0}

VARIABLE flight     \* the RPCs offered, accepted and not yet delivered or lost

linkVars == <<ownerVars, flight>>

Link(ms, m) == {k \in ms : k.from = m.from /\ k.to = m.to}

\* try_send: an RPC offered to a full link is dropped.
Offered(out) == flight \cup {m \in out : Cardinality(Link(flight, m)) < LinkCap}

\* Faulty: the outbox is drained although the publication failed.
DrainUnpublished(i, r, taken) ==
    /\ Published(i, r) \/ PublishFailed(i, r)
    /\ flight' = Offered(r.out) \ taken

\* A call on the owner, which took these RPCs from the links, and the outbox
\* drain that follows it.
Drain(i, r, taken) ==
    \/ Published(i, r) /\ flight' = Offered(r.out) \ taken
    \/ PublishFailed(i, r) /\ flight' = flight \ taken

LinkTick(i) == up[i] /\ \E r \in {Tick(node[i], i)} : Drain(i, r, {})

LinkPropose(i, c) ==
    MayPropose(i) /\ \E r \in {Propose(node[i], i, c)} : Drain(i, r, {})

\* The receiver's worker applies an RPC.
Deliver(m) ==
    MayStep(m.to, m) /\ \E r \in {Step(node[m.to], m.to, m)} : Drain(m.to, r, {m})

\* No connection, a closed peer, a full command queue, a reply that gave up
\* waiting, or an outbox emptied by observe_term.
Lose(m) == flight' = flight \ {m} /\ UNCHANGED ownerVars

LinkCrash(i) == Crash(i) /\ UNCHANGED flight

LinkReopen(i) == Reopen(i) /\ UNCHANGED flight

LinkInit == OwnersInit /\ flight = {}

LinkNext ==
    \/ \E i \in Server :
          \/ LinkTick(i)
          \/ \E c \in Cmd : LinkPropose(i, c)
          \/ LinkCrash(i)
          \/ LinkReopen(i)
    \/ \E m \in flight : Deliver(m) \/ Lose(m)

LinkSpec == LinkInit /\ [][LinkNext]_linkVars

=============================================================================
