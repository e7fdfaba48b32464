# A verification project for Parrot

Parrot is an actor framework in Rust: a local engine (`crates/parrot`), remoting
with clustering and durable delivery (`crates/parrot-remote`), and an application
host with an orchestrator (`crates/parrot-app`). This directory holds TLA+ models
of its concurrent and distributed core, TLC configurations that check them on
small instances, and TLAPS proofs of the properties that matter most.

Each definition that models code is listed with its source lines in
`PROJECT.json` under `map`; `hazards` lists what can go wrong and hardly shows in
a test, at the line where it bites, with the properties that cover it.

To check: `tlc -config <cfg> <module>` for a run of `PROJECT.json`, and
`tlapm <module>.tla` for the eight modules whose name ends in `Proofs`.

## The system

| Part | State | Operations | What is hard |
|---|---|---|---|
| Raft core (`raft/mod.rs`) | term, vote, log, commit index, role, votes, next/match/sent index of each peer | `tick`, `step` (four RPCs), `propose` | late, repeated and reordered RPCs; elections that overlap; commits of old terms |
| Durable owner (`raft/storage.rs`) | a core and the `raft.state` file | `open`, `tick`, `step`, `propose`, `finish` | a publication that fails before or after its rename; a crash and a reopen in the same term |
| Directory (`roles/directory`) | applied names, request results, read tickets | submit, status, linear read, worker loop, one pump per peer | full peer channels; retried requests; reads on a deposed leader |
| Schedule slot (`mailbox/mod.rs`) | two bits, OWNED and WAKE | `try_enqueue`, `release`, `force_release` | a push between the worker's last look and its release |
| Ready queue (`scheduler/queue.rs`) | two lanes, deferred registrations, admissions | register, enqueue, unregister, pop, close | saturation; removal and re-registration under a running actor |
| Shared pool (`scheduler/shared`) | registrations, jobs, leases, flags | schedule, deschedule, wake hook, worker turn, shutdown | all of them at once |
| Mailbox (`mailbox/mpsc.rs`) | a high and a normal lane, their frontier, waiting senders | push with a strategy, pop, seal, close | the oldest message across two lanes; a wake-up between look and wait |
| Processor (`processor/core.rs`) | status, generation | initialize, batch, fail, retire | a wake for an actor that is being retired |
| Supervision (`children.rs`, `children/recovery.rs`, `supervisor_exec.rs`, `factory.rs`) | children, their transitions, cohort epochs with three barriers | spawn, fail, decide, arrive, commit, abort, stop, close | stops, deadlines and the parent's close against the commit; siblings that wait for each other |
| Other schedulers (`sharded.rs`, `dedicated_thread`) | one thread per shard or actor | schedule, deliver, stop | hand-over at stop |
| Write-ahead log, outbox, inbox (`durable*`) | segments, watermarks, receipts, snapshots | append, sync, ack, checkpoint, replay, deliver, apply | crashes between any two; attempts that time out although they succeeded |
| Membership (`swim.rs`) | members with incarnation, status, deadline | merge, probe, suspect, refute, expire | stale gossip; a probe that began before a refutation |
| Singleton (`singleton.rs`) | holder, lease, floor | tick, observe | two holders |
| Receptionist (`receptionist.rs`, `system/receptionist.rs`) | names, scopes, subscriptions, connections | register, retire, publish, dial | old generations and old connections |
| Mirrors (`mirror.rs`) | the policy of a source: queue, worker, encoders, receipt | register, replace, offer, cancel, close | an encoder that outlives the policy it copies for |
| Remote mirrors (`mirror_control.rs`, `orchestrator/mirror.rs`, `file_state.rs`) | sessions of a node; a journal of intents at the supervisor | allocate, apply, status, close; reconcile rounds | requests that outlive their waiter; a commit that fails with the new file in place |
| Remote requests (`ref_.rs`, `registry.rs`, `ingress.rs`) | callbacks, relay slots, connections | ask, relay, reply, expire | two counters on one connection; an end that breaks while a request is between two awaits |
| Caches, routing, administration | routes | resolve, invalidate | stale routes |
| Rollout (`parrot-app/src/orchestrator`) | desired and observed components, rollout phase | reconcile, health report, roll back | reports of an earlier generation |

A message sent to a local actor passes its mailbox, which fires the wake hook;
the hook takes the schedule slot and puts the mailbox in the ready queue; a worker
takes it from there, runs the actor for a batch, and releases the slot. The
directory is a Raft group: its worker thread owns the durable core, drains the
core's outbox into one bounded channel per peer after each call, and applies what
commits. Wire formats, TLS, transports, configuration and code hosts are listed in
`PROJECT.json` as not modelled, with the reason.

## Modules

**Raft**

- `RaftTypes` has the constants of a group, the fields of cores, snapshots and RPCs,
  and what can be read off them.
- `RaftCore` is `RaftNode`: the fields of a core are a record, every method an
  operator that returns the next record and the RPCs it queued. Terms, logs and
  batches have the bounds `MaxTerm`, `MaxLog`, `MaxBatch`, which stand for the
  code's own limits (`u64`, the snapshot's entry limit, the RPC's entry limit).
- `DurableRaft` adds the owner: a call on the core and `finish` are one step with
  three outcomes (published, failed with the old file, failed with the new file).
  A failed owner is closed until it is reopened from the file, like a crashed one.
- `Raft` composes the owners with the weakest network: the set of RPCs ever sent,
  any of which may be delivered at any time, again, or never.
- `RaftLinks` composes them with the links of `NetworkDirectory`: a bounded number
  of RPCs per link, dropped when full, lost at any time, possibly overtaking each
  other, never repeated.
- `Directory` puts the directory on `RaftLinks`: commands with request identities,
  the state machine that applies each identity once, submission and status at any
  member, plain proposals, and linear reads, which wait for a barrier entry of the
  leader's own term. What a member has applied is computed from its log, because
  every call of the owner applies what has become committed before it returns. One
  action is one turn of the worker: the call and the reads it lets finish.
- `RaftHistory` says what the logs of a group keep, with a history the code does not
  have, and what a call may do to it. `RaftInv` has the inductive invariants. The proofs
  are in `RaftCoreProofs`, `RaftProofs`, `RaftHistoryProofs`, `RaftCommitProofs`,
  `RaftCallProofs` and `RaftLogProofs`, see below. `MCRaft` and `MCDirectory` are the
  instances for TLC; the first has `Raft` and `RaftLinks` as scenarios of one run, with
  the RPCs that left an outbox as a history.

Time is left out of the core: a timer may run out between any two events. That
allows everything the code's clock and jitter allow, and more.

**The local engine**

- `ScheduleSlot` is the abstract protocol: the two bits of each mailbox, who holds
  the slot (a producer on its way to the queue, the queue, a job, or the batch that
  shutdown took from the queue), messages, registrations and hooks. A thread is
  visible between any two accesses to shared state.
- `ReadyQueue` has the operations of `SchedulingQueue` as operators on a record;
  each runs under one mutex in the code and is one step of the pool.
- `SharedPool` composes producers, jobs, registration, retirement and shutdown over
  both. Its processes are jobs, not workers, because a worker multiplexes suspended
  jobs. Initialization, handling of a message, and the end of a batch may fail.
- `MpscMailbox` is the mailbox by itself, one step per critical section of its gate
  or access outside it. A message is the number of its arrival, so age is visible.
- `IdleClock` is `ReceiveTimeout`: the worker is shown between any two of its locks,
  and a deadline is named by the epoch it was set in. A call that changes the clock is
  two steps, because it unlocks the state before it notifies the worker or starts it
  (`owed`); the calls themselves come one after the other, from the actor's dispatch.
- `DeathWatch` has the subscriptions of actors as numbered edges. `unlink` takes the
  cancel flag, the target's lock and the watcher's lock one after the other, and any
  other call may come between. Whoever runs `terminated_checked` may drop it at any time:
  the guards of all deliveries that are left then unlink, and nothing is counted. Actors
  dropped without being closed, whose weak references no longer upgrade, are left out.
- `Cohort` is supervision of the children of one parent: each child has the stage its
  owning task is in, and each one-for-all restart is an epoch with the barriers
  `retired`, `prepared` and `published`. The user's decider, exhausted restart budgets,
  failed constructions and deadlines are choices; so is a disposal that fails. Explicit
  stops, one-for-all stops, single restarts, new children and the parent's close
  interleave with it. A stop between the commit's vote and the publication of its member
  starts a second stop task in the code; `finish_actual` is idempotent and the model has
  one.
- `MailboxProofs` has the theorems about the slot and the mailbox; `MCSharedPool` is the
  pool's instance.

In `SharedPool` a mailbox is reduced to two counters: the details are those of
`MpscMailbox`. Blocking sends are not in the pool, because a sender that waits
holds nothing. Left out there: elastic burst workers, which are more of the same
jobs; coalesced batches; and the path index's own critical section in `deschedule`,
which is joined with `unregister`.

**Durable delivery**

- `Wal` has the log's directory and index as values: what a write, sync, directory
  sync, roll, checkpoint or removal makes of them, what a power loss may leave
  (unsynced records cut at any length or torn, unsynced directory entries missing, and
  removed segments back), and what opening reads. Records cost one unit; directory
  entries persist in order.
- `Outbox` is the thread that owns the log: it admits a group, syncs once, answers, and
  delivers the oldest pending record; a checkpoint is four steps.
- `Inbox` is the receiver with its snapshot file: write, sync, rename, directory sync.
- `Delivery` joins them with a network on which a request outlives its attempt (one
  late copy of a record at a time), and with faults on both sides.
- `DurableQueue` is what they promise; `Delivery` maps its state to it.
- `Dedup` is the deduplication table for other receivers.

A directory serves one stream, a lost request is one that is never taken, and the
creation of the inbox's first snapshot is left out. A behaviour has either power
losses or dying processes, except in `delivery_reopened`, which shows what both
together do.

**The cluster**

- `Swim` is membership: tables, the owner's corrections, probes that remember the entry
  they were about, suspicion, expiry, gossip of whole tables or of digests, and
  processes that end and start again at the same or at another endpoint. Time is
  abstract. A connection delivers in order. A tombstone is forgotten only when its node
  is down: retention is a day, gossip a fraction of a second. `Remove` events, which no
  code sends, and exhausted incarnations are left out.
- `Receptionist` is one node's table of services with scopes (the registrations of one
  generation of an actor), manual registrations, a peer's snapshots, and a subscriber.
  Events of one call go out in any order, since lists come from hash maps.
- `ServiceLinks` is the exchange of those tables between two nodes, with the
  connections they dial, register and lose. A table is a version; membership is reduced
  to losing the peer and having it back; a queue holds one snapshot per connection.

- `WireMirror` is the mirror policy of one source on its node. Every entry the registry
  ever had is a generation; encoders work without a lock between taking a slot and
  admitting the copy, and a worker may be dropped at any moment, as a runtime that shuts
  down does. Byte budgets are left out; slots have the same life.
- `MirrorSaga` is a supervisor that keeps a remote mirror where its source is, over its
  journal on disk, and the nodes with their sessions. A request outlives the round that
  waits for it and is executed at most once, at any later time; commits fail with the old
  or the new record on disk; the supervisor crashes, nodes restart, another owner takes
  slots, and somebody else changes the registry. There is one source, so a session has at
  most its first revision and a round at most one request at a time.
- `RelayedAsk` is a request that a hub relays from a source to a target: callbacks,
  connections whose two ends fail and clean up on their own, the relay table with its
  expiry, and tasks that are shown between any two awaits. The hub's own requests share a
  connection with those it relays.
- `TableProofs` has the theorems about death watch, deduplication, the receptionist and
  mirrors: tables of a node that outlive the actors and calls they are about.

`MCParts` puts the modules that do not meet side by side: a behaviour picks one of the
twelve at the start and moves only that one. The properties of a part hold trivially
in the initial states of the others, which are a handful of the states counted.

Operators whose comment begins with "Faulty" are deliberate errors: each stands
for a plausible slip in the code and makes the property it is listed with fail, so
that the property is known to depend on that code.

## Runs

| Run | Instance | Shows |
|---|---|---|
| `raft` | 3 members; 2 elections with 1 fault, or a leader with 2 entries in batches of 1 and 2, or links for 1 RPC each with an election, an entry and 1 fault | the inductive invariant, one leader per term, leader hints; old requests and answers in any order neither cut, uncommit nor overstate a log; no member fences itself; every step over the links is a step of `Raft` |
| `directory` | 3 members, up to term 4, a request that is in two logs, a read, 1 fault | linear reads, agreement of answers, log matching with agreement of commits and complete leaders |
| `directory_progress` | the same group, fair ticks and links, a client that repeats its request | a request of an earlier term is applied, over a conflicting log and through losses |
| `delivery` | 3 submissions, two under one key, segments of 2 records, 2 faults | nothing answered for is forgotten, no submission is doubled; delivery implements `DurableQueue` |
| `delivery_reopened` | 2 submissions, 2 faults of both kinds | expected to fail, see below |
| `pool_turns` | 2 actors with messages, or 4 without, 2 producers, 2 jobs, a queue for one, 4 registrations or removals | order of the queue; the pool implements `ScheduleSlot` |
| `pool_served` | 2 actors, 1 producer, 1 job, a queue for one | accepted messages are handled; shutdown frees every slot |
| `pool_failed` | 1 actor, 1 producer, 2 jobs | expected to fail, see below |
| `parts` | the slot, mailbox, idle clock, death watch, cohort recovery, deduplication, membership, receptionist, service exchange, mirrors, remote mirrors and relayed requests | two properties of most, see below |
| `idle_late` | the idle clock with 6 epochs | expected to fail, see below |
| `swim_digest` | 2 nodes, 2 failed probes, digests | expected to fail, see below |
| `services_crossed` | 2 nodes that dial each other | expected to fail, see below |

`MCRaft` and `MCDirectory` start at states that the core's own operators compute along
a fixed script (an elected leader, a request left in the log of a deposed one), with
every RPC of the script lost or, in `MCRaft`, still in the network. The bounds are then
spent on what follows.

Three members are the smallest group where a majority is not everyone; two terms
are enough for a deposed leader and four for the case of section 5.4.2 of the Raft
paper (`directory`). A ready queue for one makes two actors defer each other, and with four of
them the oldest of three has to be found. Over the links the two elections, or an election
and an entry, share at most two RPCs in the transport. Segments
of two records and a budget of four make submissions roll segments, hit every limit and
checkpoint. In `parts`: one mailbox and three threads let a removal and a new
registration meet a running job and a producer on its way; two messages in two lanes
evict each other in every order; six epochs exhaust the idle clock; an actor
with two watchers, one of which comes back, lets a new subscription meet the removal of an
old one and a delivery to somebody else (two actors that watch each other, with three
subscriptions, pass as well);
three senders of which two fit, sequences up to four and two gaps meet every refusal of
the deduplication table; two nodes with one restart and one false suspicion; two
generations that register one path; a subscriber with room for one event more than its
snapshot; one broken connection, one false death and one change of services at each
node; two encoders, two entries and three messages of a mirror; two nodes and two changes
or faults for a remote mirror (three pass as well, in twice the time); two children with
two failures, two epochs and one explicit stop besides those of the parent's close (three
children with one epoch pass as well); two requests of a source and one of the hub, with
room for one in every queue and table, two connections to the target and one fault.
Deadlock is checked in the runs of the directory; the others stop when their bounded
inputs (in `raft`, the elections over the links) are used up and say so in their
configuration.

**Fairness.** `directory_progress` assumes that an open member's timer runs out again
and again (the worker loop ticks at every `TICK`), that a link which is offered RPCs
again and again delivers some of them (the pump retries routes; nothing in the code
makes a link fail for ever), and that the client repeats its request, as `client.rs`
does until it is answered. There are no faults and no elections in its bounds, so it
says that requests make progress under a stable leader, not that elections end.
`pool_served` assumes that producers finish a wake they began, that workers take and
run jobs (a worker polls even if a notification is missed), that handlers end, and that
the shutdown task, which is spawned at once, runs. In `parts`, a notified sender
continues and the actor of an open mailbox keeps popping; the idle clock's worker runs,
a call on the clock comes to its notification, and the actor to every token in its mailbox; nodes that stopped are started again
and connected, the gossip ticker runs and its cursor comes round to every member, and
connections deliver; seeds are dialled again and handshakes end, the receptionist's
ticker runs, and membership comes to see a peer that is alive, which is what `Swim`
shows of it. Encoders end and the runtime runs the workers of cancelled mirrors; the host
calls `reconcile_once` again and again and reopens a store that failed, and nodes answer;
the tasks that own a child's transition run, and user code in them returns; tasks,
connection drivers and the relay's timer run, while neither an answer of the target nor a
timeout of the caller is assumed. No fairness is assumed for sending, registering, removing, failing,
suspecting or crashing. Liveness of durable delivery is not checked.

What `parts` shows of each part:

- slot: no lost wake (`NoLostWake`);
- mailbox: eviction in order of age across lanes, capacity and close, no sender left waiting;
- idle clock: a timeout is told only to an idle actor, and to every idle one unless the
  worker gave the delivery up (`ToldUnlessCutOff`, and `idle_late` below);
- death watch: both ends of a subscription agree, and every watcher hears, or a failure is
  counted, or the target's whole notification was dropped;
- cohort: `AllOrNone`, a replacement runs only if all of its epoch were published and none
  was withdrawn; `AdmissionExact`, new children are refused exactly while a group
  operation has undisposed members; `CohortEnds`, every operation ends and a stopped child
  goes;
- deduplication: the table is exactly what was handled;
- membership heals, the receptionist serves exactly what is owned and tells its subscriber,
  services converge;
- mirrors: `ReceiptBalances`, the account of a closed entry balances and nobody still works
  for it; `CancelledRetires`;
- remote mirrors: `Responsible`, every session of ours is journaled and there is at most
  one; `Withheld`, component changes are handed out only when no session is left;
  `MirrorIsPlaced`, which assumes that no node restarts: a new incarnation refuses every
  request about an old session, so its intent is never proved retired and every later
  round fails;
- relayed requests: `RelaysAreExact`, a request gets only an answer made for it and no
  slot outlives the cleanup of its connections; `AsksEnd`, every relayed request ends,
  except one whose reply the source itself dropped from its full dispatch queue.

### Findings

`pool_failed` shows a disagreement between a comment and the code. When a handler or
`Actor::init` fails, `record_failure` marks the processor Failed, "Stop execution
now", because a producer may win the slot before supervision seals the mailbox.
`process_mailbox_with_lease` then finds the processor not initialized, since
`is_initialized` does not count Failed, and calls `initialize_and_start` again. If the
first `init` panicked, it runs a second time on the same instance and the processor
returns to Running.

`delivery_reopened`: opening a log does not sync what it read. A worker that dies between
an append and its sync leaves records the next one recovers, counts as pending and
delivers; a power loss before the acknowledgement then takes away a record the inbox has
applied, and its sequence goes to another message. `outbox/group.rs` says that no
delivery starts before the sync. Each kind of fault alone is harmless, which `delivery`
shows.

`idle_late`: an operation of the idle clock unlocks the state, with a new deadline in it,
before it notifies the worker. If the worker gets to that deadline first, it clears it and
starts to deliver a token; the late notification is then taken for new activity, the
delivery is given up, and the next round finds no deadline to wait for. The actor stays
idle and gets no `ReceiveTimeout`, which `ActorContext` promises "after this much idle
time". A thread has to stand still for the length of the timeout between two statements.
When the worker is not cut off in this way, every idle actor is told (`ToldUnlessCutOff`).

`swim_digest`: the digest is the xor of the hashes of all fields of all members. Two
nodes that suspect each other hold the same values at different members, so their
digests are equal, no table is sent, and both suspicions become deaths. In full mode
(`parts`) they are refuted.

`services_crossed`: two nodes that dial each other at once keep both connections and may
register them in different orders. Each sends its services over the connection it
registered last and ignores what comes over the other, so neither table converges while
both stay open. With one dialling side (`parts`) they do.

Not kept as a run: a crash in the middle of a checkpoint leaves one segment more, and if
that is the last one `max_segments` allows, the acknowledgement of the pending record is
refused on every reopen (`AckRefused`, `durable.rs:468`), although `outbox.rs:629` reserves
room for it.

## Proofs

Everything under `theorems` in `PROJECT.json` is proved for every value of the
constants. A leaf names its prover where that matters for time: `Zenon` for steps
without arithmetic, SMT otherwise (`SMTT(60)` allows it a minute).

### Raft: elections

`RaftProofs` is about `Raft`, for any finite group and any bound on terms, logs,
batches and faults. Assumptions: `Server` is finite, the bounds are natural numbers
(named in the modules that declare them). The invariant `IInv` says that each core is
sound (types; the commit index inside the log; what was applied is the committed
prefix; a leader has a quorum of votes), that an open owner's persistent fields are
what its file holds, and four facts about ballots, a ballot being a vote that has
left its voter or a candidate's own: each is on the voter's disk until a later term,
no voter has two in a term, candidates count only ballots of their term, and whoever
led a term had a quorum of them. Election safety alone is not inductive, since two
leaders are prevented only by where the votes behind them are recorded; the ballots
make that history visible. The proof is in two layers: `RaftCoreProofs` gives every
operator of the core a contract (`Contract`: what it may do to the persistent fields
and which ballots its RPCs are), and `RaftProofs` shows once that a step that honours the
contract preserves `IInv`, published or not. Two majorities meet by a counting lemma on
finite sets. `TypeOK`, `VotesKept`, `AppliedInOrder` and `TermsAdvance` follow from
`IInv`, which `raft` checks, and are not checked there by themselves.

### Raft: logs

`RaftLogProofs` proves `LogsAgree` (log matching, agreement of commits, complete
leaders), `MatchIsHeld`, `HintNamesLeader` and `NeverSelfFenced`, under the same
assumptions. None is inductive, and no invariant over the present state is: a follower
that cuts its log destroys the evidence that an entry was once on a majority. So the
invariant `LogInv` says that the state has a history, of four functions the code does
not keep (`RaftHistory`): `H[t]`, the log of the leader of term `t` as long as it ever
was; `L[t]`, who that was; `V[v][t]`, the vote of `v` in `t`; and `A[p][t]`, how much
of `H[t]` member `p` held on disk in term `t`. `Recorded` lists what ties them to the
state. Every entry on a disk is in the log of the leader of its term with all entries
before it. Requests are stretches of those logs and acknowledgements are covered by
`A`. A member gives up an acknowledged entry only for one of a later term. An entry is
*pending* while a majority may still come to hold it in its term; every leader of a later
term has it, and so has every candidate that outdoes a quorum of voters. Commit
indexes cover only entries some majority held.

The history is quantified inside the invariant (`\E H, L, V, A`), so the model needs no
history variable: `RaftHistoryProofs` and `RaftCommitProofs` show that one call extends
a history of the state before to one of the state after (`NextH`, `NextL`, `NextV`,
`NextA`), from a second contract, `LogContract`, and `RaftCallProofs` shows that every
operator of `RaftCore` honours it, down to `append_plan`, the position in the sorted match
indexes that a majority reaches (`MajorityIndexOK`, for groups of odd and even size) and
the commit rule for entries of the leader's own term. `RaftLogProofs` joins them. Two smaller invariants stand
beside `LogInv`: `ShapesValid`, snapshots and RPCs pass the checks of their next reader,
and `HintsBacked`, a hint names a leader or the sender of an append. Since `LogInv`
quantifies over functions, TLC does not check it; it checks what follows from it.

By `RefinesRaft`, checked on a small instance, the safety theorems about `Raft` carry
over to the links.

### The local engine

`MailboxProofs` is about `ScheduleSlot`, for any set of mailboxes and threads, and about
`MpscMailbox`, for any producers and any capacity. That a mailbox has one owner is not
inductive without what shutdown may still hold (`ClosingOK`: entries are drained only
once the queue is closed, and a closed queue has none waiting and nobody registered).
The slot's invariant is the conjunction of the types, `OneOwner`, `ClosingOK` and
`NoLostWake`, proved conjunct by conjunct, with one step per action.

`EvictsOldest` rests on the frontier that each high message carries: the number of
normal messages that had left, or stood before it, when it arrived. The invariant
`LaneInv` says that each lane is in order of arrival, frontiers grow along the high
lane, and a normal message is older than a high one exactly if its position is below the
frontier. Comparing the first frontier with the number of normal messages that have
left then tells which head is the oldest. `RoomKept` needs besides that a mailbox is
sealed before it is emptied.

### Tables

`TableProofs` is about four modules.

- `DeathWatch`, for any actors and any number of subscriptions: `EndsAgree` and
  `WatchersHear`, with notifications dropped at any point. The invariant adds where an end may be held (`EndsPlaced`), and that
  deliveries are only of targets that are gone, while a subscription that is being
  removed or was cancelled was given up by its watcher or lost its target
  (`EndsAccounted`).
- `Dedup`, for any senders, any limit on them (`Fits` is any predicate), any number of
  sequences and any positive budget. `HandledOnce` follows from `RemembersHandled`, which
  needs that no gap is at or next to the watermark (`DedupTypeOK`): otherwise filling
  would stop early. The budget is a count of pairs, so its proof rests on the cardinality
  of the set a fill removes.
- `Receptionist`, for any finite sets of paths and any generations, with paths of this
  node and of the peer disjoint (`PathsApart`). `OwnedIsServed` needs that the last
  registrant owns its path (`HoldersOwn`) and that cleanups exist only in retired scopes.
  `StreamFollows` is stated without a fold: events lead from one table to another
  (`Leads`) if for each path the last event about it says so. Leading composes, which
  makes broadcast, snapshot and consumption three short lemmas.
- `WireMirror`, for any finite set of encoders (`MirrorBounds`) and any number of entries
  and messages: `ReceiptBalances`. The invariant counts, for each entry, the encoders that
  are in it, and says that all it took in has ended, is queued or is in the worker's
  hands; a closed entry then has nothing that could still be added.

`SlotTypeOK`, `OneOwner`, `HandledOnce` and `BudgetExact` are proved and not checked by
`parts`.

### Only model-checked

- All liveness, which TLAPS does not reach.
- The refinements `RefinesRaft`, `KeepsSlots` and `ImplementsQueue`.
- The directory (`ReadsAreLinear`, `AnswersAgree`): its table is a fold over a log, and
  what a recursive definition computes is beyond this prover.
- Durable delivery (`NothingForgotten`, `KeyedOnce`), whose log is read back by recursion
  over records.
- The ready queue's order, the idle clock, cohort recovery, remote mirrors, relayed
  requests, membership and service exchange.

## Not modelled

`PROJECT.json` lists every part that is left out with the reason. The largest: the
sharded and dedicated-thread schedulers with their mailboxes, the Actix engine, context
tasks and streams, caches and routing, the singleton, and the rollout,
each a state machine of its own; and wire formats, transports, TLS, configuration and code
hosts, which are I/O and data layout. The steps inside the Raft owner's and the
supervisor's publications are one nondeterministic choice. Of supervision, the drop of a
wait at a barrier, first constructions that are still pending, decisions while the actor
keeps running, escalation to the parent, and the other engines' owner tasks are left out.
Of remote requests, tells, requests of the directory and of durable delivery, name
resolution, routes of several hops, capabilities, panics and node shutdown are left out.
