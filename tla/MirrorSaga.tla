----------------------------- MODULE MirrorSaga -----------------------------
(***************************************************************************)
(* Remote mirrors as one supervisor keeps them (MirrorSupervisor,          *)
(* crates/parrot-app/src/orchestrator/mirror.rs, over the FileStateStore   *)
(* of file_state.rs) and as the nodes hold them (MirrorControlStore,       *)
(* crates/parrot-remote/src/mirror_control.rs).  Every request is          *)
(* journaled before it is sent.  A request outlives the supervisor that    *)
(* waits for it and is executed at most once, at any later time.           *)
(***************************************************************************)
EXTENDS Naturals, FiniteSets

CONSTANTS
    Home,           \* the nodes a mirror's source may be placed on
    MaxTroubles     \* bound on changes and faults

NoHome == "nowhere"

Sights == [steady : BOOLEAN, home : Home \cup {NoHome}]

NoIntent == [phase |-> "none"]

VARIABLES
    saved,      \* DesiredStateRecord on disk: the manifest and the journal of intents
    store,      \* FileStateStore: "open", "failed" until reopened, or "closed"
    sight,      \* ObservedState: do the components agree, and where is the source
    round,      \* reconcile_once under way: see NoRound
    result,     \* what the last round returned
    holds,      \* holds[n]: MirrorControlStore and registry of node n, see NewNode
    flying,     \* requests under way
    troubles,   \* the number of changes and faults so far
    tampered    \* somebody else changed the registry of a node

sagaVars == <<saved, store, sight, round, result, holds, flying, troubles, tampered>>

Trouble == troubles < MaxTroubles /\ troubles' = troubles + 1

-----------------------------------------------------------------------------
(* A node: its incarnation, the sequences issued, its live sessions, the session *)
(* whose policy its registry has for the source, and if somebody else's is there *)

NewNode(inc) == [inc |-> inc, issued |-> 0, sessions |-> <<>>, installed |-> 0,
                  taken |-> FALSE]

NewSession(owner) == [owner |-> owner, policies |-> 0, closing |-> FALSE]

With(f, k, v) == [x \in DOMAIN f \cup {k} |-> IF x = k THEN v ELSE f[x]]

Without(f, k) == [x \in DOMAIN f \ {k} |-> f[x]]

Live(d, id) == id.inc = d.inc /\ id.seq \in DOMAIN d.sessions

\* check: a session of this incarnation that was issued.
Known(d, id) == id.inc = d.inc /\ id.seq \in 1..d.issued

\* snapshot
SessionPhase(d, q) ==
    CASE d.sessions[q].closing -> "Closing"
      [] d.sessions[q].policies = 0 -> "Empty"
      [] d.installed = q -> "Active"
      [] OTHER -> "Superseded"

Err == [kind |-> "err"]

Retired == [kind |-> "retired"]

Snapshot(d, q) ==
    [kind |-> "session", owner |-> d.sessions[q].owner, phase |-> SessionPhase(d, q),
     policies |-> d.sessions[q].policies]

\* Allocate creates exactly the next slot,
Allocates(d, id) == id.inc = d.inc /\ id.seq = d.issued + 1

\* Apply takes an empty session to its first revision if the source is free.
Applies(d, id) ==
    Live(d, id) /\ SessionPhase(d, id.seq) = "Empty" /\ d.installed = 0 /\ ~d.taken

\* execute: the node after a request, up to the wait of a Close,
After(d, r) ==
    CASE r.kind = "Allocate" /\ Allocates(d, r.id) ->
            [d EXCEPT !.issued = r.id.seq,
                      !.sessions = With(@, r.id.seq, NewSession("us"))]
      [] r.kind = "Apply" /\ Applies(d, r.id) ->
            [d EXCEPT !.sessions[r.id.seq].policies = r.policies, !.installed = r.id.seq]
      [] r.kind = "Close" /\ Live(d, r.id) ->
            [d EXCEPT !.sessions[r.id.seq].closing = TRUE,
                      !.installed = IF @ = r.id.seq THEN 0 ELSE @]
      [] OTHER -> d

\* Faulty: a slot is answered for only when it is made.
AnswerableOnce(d, id) == Allocates(d, id)

\* Allocate answers for a slot that is there already like for a new one.
Answerable(d, id) ==
    Allocates(d, id) \/ (Live(d, id) /\ d.sessions[id.seq].owner = "us")

\* and its answer, as control_mirror accepts it.
Answer(d, r) ==
    LET e == After(d, r)
        q == r.id.seq
    IN  CASE r.kind = "Candidate" ->
                [kind |-> "candidate", id |-> [inc |-> d.inc, seq |-> d.issued + 1]]
          [] r.kind = "Allocate" /\ Answerable(d, r.id) -> Snapshot(e, q)
          [] r.kind = "Apply" /\ Live(e, r.id) /\ Snapshot(e, q).phase = "Active"
                /\ Snapshot(e, q).policies = r.policies -> Snapshot(e, q)
          [] r.kind = "Status" /\ Known(d, r.id) ->
                IF Live(d, r.id) THEN Snapshot(d, q) ELSE Retired
          [] r.kind = "Close" /\ Known(d, r.id) -> Retired
          [] OTHER -> Err

-----------------------------------------------------------------------------
(* Requests *)

Request(n, kind, id, policies) ==
    [node |-> n, kind |-> kind, id |-> id, policies |-> policies, awaited |-> TRUE, joins |-> FALSE]

NoReply == [kind |-> "none"]

\* The round that waits gets the answer, or it is lost or late.
Answers(r, a) == round' = IF r.awaited THEN [round EXCEPT !.reply = a] ELSE round

\* A node executes a request; Close goes on to wait for workers and encoders.
Execute(r) ==
    /\ r \in flying /\ ~r.joins
    /\ holds' = [holds EXCEPT ![r.node] = After(@, r)]
    /\ IF r.kind = "Close" /\ Live(holds[r.node], r.id)
       THEN flying' = (flying \ {r}) \cup {[r EXCEPT !.joins = TRUE]} /\ UNCHANGED round
       ELSE flying' = flying \ {r} /\ Answers(r, Answer(holds[r.node], r))
    /\ UNCHANGED <<saved, store, sight, result, troubles, tampered>>

\* They have ended: the session is removed and Retired answered,
Join(r) ==
    /\ r \in flying /\ r.joins
    /\ holds' = [holds EXCEPT ![r.node].sessions = Without(@, r.id.seq)]
    /\ flying' = flying \ {r} /\ Answers(r, Retired)
    /\ UNCHANGED <<saved, store, sight, result, troubles, tampered>>

\* or the wait times out and the session stays closing.
JoinTimesOut(r) ==
    /\ r \in flying /\ r.joins /\ Trouble
    /\ flying' = flying \ {r} /\ Answers(r, Err)
    /\ UNCHANGED <<saved, store, sight, result, holds, tampered>>

\* A request that is lost.
LoseRequest(r) ==
    /\ r \in flying /\ ~r.joins /\ Trouble
    /\ flying' = flying \ {r} /\ Answers(r, Err)
    /\ UNCHANGED <<saved, store, sight, result, holds, tampered>>

Unawaited == {[r EXCEPT !.awaited = FALSE] : r \in flying}

-----------------------------------------------------------------------------
(* The supervisor *)

\* A round: the nodes to visit, the one it is at, the request it waits for and its
\* answer, what it saw when it began, and whether all it met was ready.
NoRound == [at |-> "idle"]

Journaled == {n \in Home : saved.journal[n] # NoIntent}

\* project: the mirror belongs where the source is, once the components agree.
Wanted(o) == IF o.steady /\ o.home # NoHome THEN {o.home} ELSE {}

UpToDate(n) == n \in Wanted(round.seen) /\ saved.journal[n].desired = saved.manifest

\* Faulty: only what a newer manifest replaced is waited for.
ObsoleteByManifest(n) == saved.journal[n].desired # saved.manifest

Obsolete(n) == ~UpToDate(n) \/ saved.journal[n].phase = "Closing"

Ends(outcome) == round' = NoRound /\ result' = outcome

\* commit: published and then believed; or it fails, with the old or the new
\* record on disk, and the store is unusable until reopened (publish, commit).
Saves(n, intent) == saved' = [saved EXCEPT !.journal[n] = intent] /\ UNCHANGED <<store, troubles>>

SaveFails(n, intent) ==
    /\ Trouble /\ store' = "failed"
    /\ saved' \in {saved, [saved EXCEPT !.journal[n] = intent]}
    /\ Ends("error")

Saving(n, intent) ==
    \/ /\ Saves(n, intent)
       /\ round' = [round EXCEPT !.at = "next", !.ready = FALSE]
       /\ UNCHANGED result
    \/ SaveFails(n, intent)

\* reconcile_once begins: every journaled node is visited.
StartRound ==
    /\ store = "open" /\ round = NoRound
    /\ round' = [at |-> "next", todo |-> Journaled, node |-> NoHome, asked |-> "nothing",
                 reply |-> NoReply, seen |-> sight, ready |-> TRUE]
    /\ result' = "none"
    /\ UNCHANGED <<saved, store, sight, holds, flying, troubles, tampered>>

Asks(n, kind, id, policies) ==
    /\ flying' = flying \cup {Request(n, kind, id, policies)}
    /\ round' = [round EXCEPT !.at = "ask", !.node = n, !.asked = kind, !.reply = NoReply,
                              !.todo = @ \ {n}]

Phased(n, ph) == [saved.journal[n] EXCEPT !.phase = ph]

\* progress: what an intent asks for.  One that is obsolete is journaled as
\* Closing before anything is sent.
Visit(n) ==
    LET e == saved.journal[n] IN
    /\ round.at = "next" /\ n \in round.todo
    /\ CASE e.phase = "Allocating" ->
              Asks(n, "Allocate", e.id, 0) /\ UNCHANGED <<saved, store, troubles, result>>
         [] e.phase # "Allocating" /\ ~UpToDate(n) ->
              \/ Saves(n, Phased(n, "Closing")) /\ Asks(n, "Close", e.id, 0) /\ UNCHANGED result
              \/ e.phase # "Closing" /\ SaveFails(n, Phased(n, "Closing")) /\ UNCHANGED flying
         [] e.phase = "Closing" /\ UpToDate(n) ->
              Asks(n, "Close", e.id, 0) /\ UNCHANGED <<saved, store, troubles, result>>
         [] e.phase = "Applying" /\ UpToDate(n) ->
              Asks(n, "Apply", e.id, e.desired) /\ UNCHANGED <<saved, store, troubles, result>>
         [] e.phase = "Applied" /\ UpToDate(n) ->
              Asks(n, "Status", e.id, 0) /\ UNCHANGED <<saved, store, troubles, result>>
    /\ UNCHANGED <<sight, holds, tampered>>

MatchesActive(n, a) ==
    /\ a.kind = "session" /\ a.owner = "us" /\ a.phase = "Active"
    /\ a.policies = saved.journal[n].desired

Replied(kind) == round.at = "ask" /\ round.asked = kind /\ round.reply # NoReply

Fails == Ends("error") /\ UNCHANGED <<saved, store, troubles, flying>>

Allocated ==
    LET n == round.node
        a == round.reply
    IN  /\ Replied("Allocate")
        /\ CASE a.kind = "session" /\ a.phase = "Empty" ->
                  Saving(n, Phased(n, IF UpToDate(n) THEN "Applying" ELSE "Closing"))
                  /\ UNCHANGED flying
             [] a.kind = "session" /\ a.phase # "Empty" -> Fails
             [] a.kind = "err" ->
                  /\ flying' = flying \cup {Request(n, "Status", saved.journal[n].id, 0)}
                  /\ round' = [round EXCEPT !.asked = "Proof", !.reply = NoReply]
                  /\ UNCHANGED <<saved, store, troubles, result>>
        /\ UNCHANGED <<sight, holds, tampered>>

\* Faulty: a slot the node does not know is forgotten too.
ProvesGone(a) == a.kind \in {"retired", "err"} \/ (a.kind = "session" /\ a.owner # "us")

\* "Only a terminal proof for this slot permits forgetting it."
Proves(a) == a.kind = "retired" \/ (a.kind = "session" /\ a.owner # "us")

ProofSeen ==
    /\ Replied("Proof")
    /\ IF Proves(round.reply) THEN Saving(round.node, NoIntent) /\ UNCHANGED flying ELSE Fails
    /\ UNCHANGED <<sight, holds, tampered>>

Closed ==
    /\ Replied("Close")
    /\ IF round.reply = Retired THEN Saving(round.node, NoIntent) /\ UNCHANGED flying ELSE Fails
    /\ UNCHANGED <<sight, holds, tampered>>

Applied ==
    /\ Replied("Apply")
    /\ IF MatchesActive(round.node, round.reply)
       THEN Saving(round.node, Phased(round.node, "Applied")) /\ UNCHANGED flying ELSE Fails
    /\ UNCHANGED <<sight, holds, tampered>>

StatusSeen ==
    LET a == round.reply IN
    /\ Replied("Status")
    /\ CASE MatchesActive(round.node, a) ->
              /\ round' = [round EXCEPT !.at = "next"]
              /\ UNCHANGED <<saved, store, troubles, result, flying>>
         [] a.kind = "err" -> Fails
         [] a.kind # "err" /\ ~MatchesActive(round.node, a) ->
              Saving(round.node, Phased(round.node, "Closing")) /\ UNCHANGED flying
    /\ UNCHANGED <<sight, holds, tampered>>

Visited == round.at = "next" /\ round.todo = {}

\* The end of a round: old sessions are waited for, then component changes are
\* handed out, and then the mirror is opened or found in place.
FinishRound ==
    /\ Visited
    /\ \/ /\ \E n \in Journaled : Obsolete(n)
          /\ Ends("wait")
       \/ /\ \A n \in Journaled : ~Obsolete(n)
          /\ \/ ~round.seen.steady /\ Ends("components")
             \/ round.seen.steady /\ round.seen.home = NoHome /\ Ends("wait")
             \/ /\ Wanted(round.seen) # {} /\ Wanted(round.seen) \subseteq Journaled
                /\ Ends(IF round.ready THEN "converged" ELSE "wait")
    /\ UNCHANGED <<saved, store, sight, holds, flying, troubles, tampered>>

OpenMirror(n) ==
    /\ Visited /\ \A m \in Journaled : ~Obsolete(m)
    /\ n \in Wanted(round.seen) \ Journaled
    /\ Asks(n, "Candidate", [inc |-> 0, seq |-> 0], 0)
    /\ UNCHANGED <<saved, store, sight, holds, result, troubles, tampered>>

\* "This commit precedes the first request capable of creating a session."
Journals ==
    LET intent == [phase |-> "Allocating", id |-> round.reply.id, desired |-> saved.manifest] IN
    /\ Replied("Candidate")
    /\ IF round.reply = Err THEN Fails ELSE Saving(round.node, intent) /\ UNCHANGED flying
    /\ UNCHANGED <<sight, holds, tampered>>

Answered == Allocated \/ ProofSeen \/ Closed \/ Applied \/ StatusSeen \/ Journals

\* A waiter gives up: reconcile_once is dropped, or its request times out, while
\* the request goes on.
AbandonWait ==
    /\ round.at = "ask" /\ round.reply = NoReply /\ Trouble
    /\ flying' = Unawaited
    /\ \/ Ends("none")
       \/ round' = [round EXCEPT !.reply = Err] /\ UNCHANGED result
    /\ UNCHANGED <<saved, store, sight, holds, tampered>>

-----------------------------------------------------------------------------
(* Changes and faults *)

\* submit, between rounds; it may fail like any commit.
Submit ==
    /\ store = "open" /\ round = NoRound /\ Trouble
    /\ \/ saved' = [saved EXCEPT !.manifest = @ + 1] /\ UNCHANGED store
       \/ saved' \in {saved, [saved EXCEPT !.manifest = @ + 1]} /\ store' = "failed"
    /\ UNCHANGED <<sight, round, result, holds, flying, tampered>>

Observe ==
    /\ Trouble
    /\ sight' \in Sights \ {sight}
    /\ UNCHANGED <<saved, store, round, result, holds, flying, tampered>>

\* The supervisor's process ends; open, of the same directory, goes on.
Crash ==
    /\ store # "closed" /\ Trouble
    /\ store' = "closed" /\ Ends("none") /\ flying' = Unawaited
    /\ UNCHANGED <<saved, sight, holds, tampered>>

Reopen ==
    /\ store \in {"closed", "failed"} /\ store' = "open"
    /\ UNCHANGED <<saved, sight, round, result, holds, flying, troubles, tampered>>

\* Another allocator opens a session.
OpenForeign(n) ==
    /\ Trouble
    /\ holds' = [holds EXCEPT ![n].issued = @ + 1,
                              ![n].sessions = With(@, holds[n].issued + 1, NewSession("them"))]
    /\ UNCHANGED <<saved, store, sight, round, result, flying, tampered>>

\* Somebody on the node registers a policy for the source, or removes it.
Tamper(n) ==
    /\ Trouble /\ tampered' = TRUE
    /\ \E t \in BOOLEAN : holds' = [holds EXCEPT ![n].installed = 0, ![n].taken = t]
    /\ UNCHANGED <<saved, store, sight, round, result, flying>>

\* A node restarts: a new incarnation knows nothing of the old one's sessions.
RestartNode(n) ==
    /\ Trouble
    /\ holds' = [holds EXCEPT ![n] = NewNode(@.inc + 1)]
    /\ LET cut == {r \in flying : r.node = n /\ r.joins} IN
        /\ flying' = flying \ cut
        /\ round' = IF \E r \in cut : r.awaited THEN [round EXCEPT !.reply = Err] ELSE round
    /\ UNCHANGED <<saved, store, sight, result, tampered>>

-----------------------------------------------------------------------------
SagaInit ==
    /\ saved = [manifest |-> 1, journal |-> [n \in Home |-> NoIntent]]
    /\ store = "open" /\ round = NoRound /\ result = "none"
    /\ sight \in Sights
    /\ holds = [n \in Home |-> NewNode(1)] /\ flying = {} /\ troubles = 0 /\ tampered = FALSE

Supervises ==
    \/ StartRound \/ FinishRound \/ Answered
    \/ \E n \in Home : Visit(n) \/ OpenMirror(n)

Serves == \E r \in flying : Execute(r) \/ Join(r)

SagaNext ==
    \/ Supervises \/ Reopen \/ Serves
    \/ Submit \/ Observe \/ AbandonWait \/ Crash
    \/ \E r \in flying : JoinTimesOut(r) \/ LoseRequest(r)
    \/ \E n \in Home : OpenForeign(n) \/ Tamper(n) \/ RestartNode(n)

\* The host calls reconcile_once again and again, reopens what failed, and nodes
\* answer the requests they get.
SagaFairness == WF_round(Supervises) /\ WF_store(Reopen) /\ WF_flying(Serves)

SagaSpec == SagaInit /\ [][SagaNext]_sagaVars /\ SagaFairness

-----------------------------------------------------------------------------
(* Properties *)

Ours(n) == {q \in DOMAIN holds[n].sessions : holds[n].sessions[q].owner = "us"}

\* "Losing a waiter never discards uncertain responsibility": whatever dies, fails
\* or arrives late, a session of ours is in the journal on disk, and there is never
\* more than one, so that a source is mirrored from one place only.
Responsible ==
    /\ \A n \in Home : \A q \in Ours(n) :
          saved.journal[n] # NoIntent /\ saved.journal[n].id = [inc |-> holds[n].inc, seq |-> q]
    /\ Cardinality(Journaled) <= 1

\* "Component changes are withheld until obsolete mirror sessions have fully
\* retired": while the host has them in hand no session of ours is left, and none
\* comes up from a late request.
Withheld == result = "components" => \A n \in Home : Ours(n) = {}

\* The mirror is where it should be, or gone when it should be nowhere.
Mirrored ==
    IF Wanted(sight) = {} THEN \A n \in Home : Ours(n) = {}
    ELSE \A n \in Wanted(sight) :
            /\ saved.journal[n].phase = "Applied"
            /\ SessionPhase(holds[n], saved.journal[n].id.seq) = "Active"

\* No node restarted or was tampered with.
Untouched == ~tampered /\ \A n \in Home : holds[n].inc = 1
=============================================================================
