---------------------------- MODULE Receptionist ----------------------------
(***************************************************************************)
(* The service table of a node (crates/parrot-remote/src/receptionist.rs)  *)
(* for one key: registrations by actor generations, each with a scope that *)
(* withdraws them when the generation ends (RegistrationScope,             *)
(* crates/parrot-api/src/receptionist_scope.rs), snapshots of a peer, and  *)
(* a subscriber that follows the table.  A step is one critical section of *)
(* the table, together with the scope lock taken inside it.                *)
(***************************************************************************)
EXTENDS Naturals, FiniteSets, Sequences

CONSTANTS
    LocalPath,  \* paths of this node's actors
    PeerPath,   \* paths a peer registers
    Scope,      \* generations of actors
    Buffer,     \* live events a stream holds beyond its snapshot
    MaxCalls    \* bound on registrations and snapshots

VARIABLES
    entries,    \* the registered paths
    owners,     \* owners[p]: the scope that registered p, or NoOwner
    phase,      \* phase[s]: "live", "closed" or "retired"
    bindings,   \* bindings[s]: paths with a cleanup in scope s
    cleaning,   \* cleaning[s]: cleanups retire has taken and not yet run
    stream,     \* the subscription: its queue, its room, and whether it is fed
    view,       \* what the consumer of the stream has seen registered
    holder,     \* history: who registered p last, for as long as it wants p
    calls

recVars == <<entries, owners, phase, bindings, cleaning, stream, view, holder, calls>>

NoOwner == "nobody"

Manual == "manual"      \* a caller of register, without a scope

\* A path names its node, so that a peer registers no path of this node.
ASSUME PathsApart ==
    /\ LocalPath \cap PeerPath = {} /\ IsFiniteSet(LocalPath \cup PeerPath)
    /\ {NoOwner, Manual} \cap Scope = {}

NoStream == [queue |-> <<>>, room |-> 0, fed |-> FALSE]

Counts == calls < MaxCalls /\ calls' = calls + 1

-----------------------------------------------------------------------------
(* Events *)

Up(p) == <<"registered", p>>

Down(p) == <<"unregistered", p>>

\* One event for each path of S, in any order: lists are in order of registration
\* here and in the order of a hash map in a peer's snapshot.
Events(kind, S) ==
    {e \in [1..Cardinality(S) -> {<<kind, p>> : p \in S}] :
        \A p \in S : \E k \in 1..Cardinality(S) : e[k] = <<kind, p>>}

Prefix(events, room) == IF Len(events) <= room THEN events ELSE SubSeq(events, 1, room)

\* Faulty: a full stream misses the event and stays open.
FedSkips(s, events) ==
    IF ~s.fed THEN s
    ELSE [s EXCEPT !.queue = Prefix(@ \o events, s.room)]

\* broadcast, one event after the other: a stream that is full is closed.
Fed(s, events) ==
    IF ~s.fed THEN s
    ELSE LET all == s.queue \o events IN
         [s EXCEPT !.queue = Prefix(all, s.room), !.fed = Len(all) <= s.room]

Broadcast(events) == stream' = Fed(stream, events)

-----------------------------------------------------------------------------
(* Registrations *)

\* register, by a scope or by hand.
Adds(p, who) ==
    /\ entries' = entries \cup {p}
    /\ owners' = [owners EXCEPT ![p] = IF who = Manual THEN NoOwner ELSE who]
    /\ Broadcast(<<Up(p)>>)

\* deregister
Removes(p) ==
    /\ entries' = entries \ {p}
    /\ owners' = [owners EXCEPT ![p] = NoOwner]
    /\ Broadcast(<<Down(p)>>)

\* register_scoped: the cleanup is remembered before the path is published.
Publish(p, s) ==
    /\ Counts /\ phase[s] = "live"
    /\ bindings' = [bindings EXCEPT ![s] = @ \cup {p}]
    /\ Adds(p, s)
    /\ holder' = [holder EXCEPT ![p] = s]
    /\ UNCHANGED <<phase, cleaning, view>>

\* deregister_scoped removes only what its own scope registered.
Withdraw(p, s) ==
    /\ phase[s] = "live"
    /\ bindings' = [bindings EXCEPT ![s] = @ \ {p}]
    /\ IF owners[p] = s THEN Removes(p) ELSE UNCHANGED <<entries, owners, stream>>
    /\ holder' = [holder EXCEPT ![p] = IF @ = s THEN NoOwner ELSE @]
    /\ UNCHANGED <<phase, cleaning, view, calls>>

RegisterManual(p) ==
    /\ Counts /\ Adds(p, Manual)
    /\ holder' = [holder EXCEPT ![p] = Manual]
    /\ UNCHANGED <<phase, bindings, cleaning, view>>

\* The event goes out even when the path was not registered.
DeregisterManual(p) ==
    /\ Removes(p)
    /\ holder' = [holder EXCEPT ![p] = NoOwner]
    /\ UNCHANGED <<phase, bindings, cleaning, view, calls>>

-----------------------------------------------------------------------------
(* The end of a generation *)

CloseScope(s) ==
    /\ phase[s] = "live"
    /\ phase' = [phase EXCEPT ![s] = "closed"]
    /\ UNCHANGED <<entries, owners, bindings, cleaning, stream, view, holder, calls>>

\* retire takes the bindings, once,
RetireScope(s) ==
    /\ phase[s] # "retired"
    /\ phase' = [phase EXCEPT ![s] = "retired"]
    /\ cleaning' = [cleaning EXCEPT ![s] = bindings[s]]
    /\ bindings' = [bindings EXCEPT ![s] = {}]
    /\ holder' = [p \in DOMAIN holder |-> IF holder[p] = s THEN NoOwner ELSE holder[p]]
    /\ UNCHANGED <<entries, owners, stream, view, calls>>

\* Faulty: the path is removed whoever registered it.
CleanupAny(s, p) ==
    /\ p \in cleaning[s]
    /\ cleaning' = [cleaning EXCEPT ![s] = @ \ {p}]
    /\ Removes(p)
    /\ UNCHANGED <<phase, bindings, view, holder, calls>>

\* and runs their cleanups one by one, each under the table's lock.
Cleanup(s, p) ==
    /\ p \in cleaning[s]
    /\ cleaning' = [cleaning EXCEPT ![s] = @ \ {p}]
    /\ IF owners[p] = s THEN Removes(p) ELSE UNCHANGED <<entries, owners, stream>>
    /\ UNCHANGED <<phase, bindings, view, holder, calls>>

-----------------------------------------------------------------------------
(* The peer and the subscriber *)

\* merge_sync: the difference between the peer's paths and its new snapshot, an
\* empty one when the peer is dead (remove_unavailable).
MergeSync(S) ==
    /\ Counts
    /\ entries' = (entries \ PeerPath) \cup S
    /\ \E gone \in Events("unregistered", (entries \cap PeerPath) \ S) :
           \E come \in Events("registered", S \ entries) : Broadcast(gone \o come)
    /\ UNCHANGED <<owners, phase, bindings, cleaning, view, holder>>

\* subscribe: a snapshot, and room for it.  A consumer whose stream was closed
\* takes what is left of it first.
Subscribe ==
    /\ ~stream.fed /\ stream.queue = <<>>
    /\ \E snapshot \in Events("registered", entries) :
           stream' = [queue |-> snapshot, room |-> Cardinality(entries) + Buffer, fed |-> TRUE]
    /\ view' = {}
    /\ UNCHANGED <<entries, owners, phase, bindings, cleaning, holder, calls>>

Seen(v, event) == IF event[1] = "registered" THEN v \cup {event[2]} ELSE v \ {event[2]}

Consume ==
    /\ stream.queue # <<>>
    /\ view' = Seen(view, Head(stream.queue))
    /\ stream' = [stream EXCEPT !.queue = Tail(@)]
    /\ UNCHANGED <<entries, owners, phase, bindings, cleaning, holder, calls>>

-----------------------------------------------------------------------------
RecInit ==
    /\ entries = {} /\ owners = [p \in LocalPath |-> NoOwner]
    /\ phase = [s \in Scope |-> "live"]
    /\ bindings = [s \in Scope |-> {}] /\ cleaning = [s \in Scope |-> {}]
    /\ stream = NoStream /\ view = {}
    /\ holder = [p \in LocalPath |-> NoOwner] /\ calls = 0

RecNext ==
    \/ Subscribe \/ Consume
    \/ \E S \in SUBSET PeerPath : MergeSync(S)
    \/ \E p \in LocalPath : RegisterManual(p) \/ DeregisterManual(p)
    \/ \E s \in Scope : CloseScope(s) \/ RetireScope(s)
    \/ \E p \in LocalPath, s \in Scope : Publish(p, s) \/ Withdraw(p, s) \/ Cleanup(s, p)

RecSpec == RecInit /\ [][RecNext]_recVars

-----------------------------------------------------------------------------
(* Properties *)

\* The positions of the events about p in q.
About(q, p) == {k \in 1..Len(q) : q[k][2] = p}

\* Taking the events of q in order leads from v to E: the last event about a
\* path, or v where there is none, says whether it is in E.
Leads(v, q, E) ==
    \A p \in LocalPath \cup PeerPath :
        /\ About(q, p) = {} => (p \in E <=> p \in v)
        /\ \A k \in About(q, p) : (\A j \in About(q, p) : j <= k) =>
              (p \in E <=> q[k][1] = "registered")

\* A consumer that applies the events of an open stream to its snapshot has
\* the table: no event falls between the snapshot and the live ones, and a
\* stream that would miss one is closed (subscribe, broadcast).
StreamFollows == stream.fed => Leads(view, stream.queue, entries)

\* A registration lives exactly as long as it should.  "Delayed old calls cannot
\* erase a replacement generation": a path stays registered while its last
\* registrant wants it, whatever older scopes withdraw or clean up.  And none
\* outlives its generation: a path owned by a scope has a cleanup in it that will
\* still run (register_scoped, deregister_scoped, publish, close, retire).
OwnedIsServed ==
    \A p \in LocalPath :
        /\ holder[p] # NoOwner => p \in entries
        /\ \A s \in Scope : owners[p] = s =>
              p \in cleaning[s] \/ (p \in bindings[s] /\ phase[s] # "retired")
=============================================================================
