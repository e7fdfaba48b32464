----------------------------- MODULE SharedPool -----------------------------
(***************************************************************************)
(* The shared pool (crates/parrot/src/thread/scheduler/shared): producers  *)
(* pushing into mailboxes and firing the wake hook, jobs of the workers    *)
(* running an actor for a batch, registration, and shutdown, over the      *)
(* ready queue of ReadyQueue and the slot protocol of ScheduleSlot.        *)
(*                                                                         *)
(* A worker multiplexes any number of suspended jobs, so jobs and not      *)
(* workers are the processes; the executing actor is the ActorProcessor of *)
(* thread/processor/core.rs, reduced to its status and to whether its      *)
(* Actor::init has run.                                                    *)
(***************************************************************************)
EXTENDS ReadyQueue, Functions

CONSTANTS
    Producer,   \* threads that send messages
    Job,        \* jobs the workers may have at a time
    Capacity,   \* messages a mailbox holds
    Batch,      \* max_messages_per_batch
    MaxPushes,  \* bound on the messages sent
    MaxMoves    \* bound on registrations and their removal

ASSUME PoolBounds ==
    /\ Capacity \in Nat \ {0} /\ Batch \in Nat \ {0}
    /\ MaxPushes \in Nat /\ MaxMoves \in Nat
    /\ Producer \cap Job = {}

VARIABLES
    queue,      \* the ready queue
    owned,      \* mailboxes whose OWNED bit is set
    wake,       \* mailboxes whose WAKE bit is set
    drained,    \* drained[m]: m was taken by close_and_take, its slot not yet released
    stopping,   \* is_shutting_down
    box,        \* box[m]: messages in the high and the normal lane of m
    sealed,     \* mailboxes that accept no more messages
    hooked,     \* mailboxes whose wake hook is installed
    actor,      \* actor[m]: the processor of m
    hand,       \* hand[t]: what a producer or job is doing, to which mailbox
    pushes, moves

vars ==
    <<queue, owned, wake, drained, stopping, box, sealed, hooked, actor, hand,
      pushes, moves>>

slots == <<owned, wake>>

Thread == Producer \cup Job

Idle == [at |-> "idle"]

At(t, place, m) == hand[t].at = place /\ hand[t].box = m

Moves(t, place, m) == hand' = [hand EXCEPT ![t] = [at |-> place, box |-> m]]

Rests(t) == hand' = [hand EXCEPT ![t] = Idle]

\* force_release
ForceRelease(m) == owned' = owned \ {m} /\ wake' = wake \ {m}

Held(m) == box[m].high + box[m].normal

LaneOf(m) == IF box[m].high > 0 THEN High ELSE Normal

-----------------------------------------------------------------------------
(* Producers *)

\* Mailbox::push accepts a message; without a hook nobody is told.
Push(p, m, lane) ==
    /\ hand[p] = Idle /\ pushes < MaxPushes
    /\ m \notin sealed /\ Held(m) < Capacity
    /\ box' = [box EXCEPT ![m] = IF lane = High THEN [@ EXCEPT !.high = @ + 1]
                                                ELSE [@ EXCEPT !.normal = @ + 1]]
    /\ pushes' = pushes + 1
    /\ IF m \in hooked THEN Moves(p, "woken", m) ELSE UNCHANGED hand
    /\ UNCHANGED <<queue, slots, drained, stopping, sealed, hooked, actor, moves>>

\* The hook returns at once when the pool is shutting down.
Ignore(t, m) ==
    /\ At(t, "woken", m) /\ stopping
    /\ Rests(t)
    /\ UNCHANGED <<queue, slots, drained, stopping, box, sealed, hooked, actor, pushes, moves>>

\* try_enqueue, by the hook or at the end of schedule_now.
TryEnqueue(t, m) ==
    /\ \/ At(t, "woken", m) /\ hand' = [hand EXCEPT ![t] =
             IF m \in owned THEN Idle ELSE [at |-> "claimed", box |-> m]]
       \/ At(t, "scheduling", m) /\ hand' = [hand EXCEPT ![t] =
             IF m \in owned THEN Idle ELSE [at |-> "ready", box |-> m, lane |-> Normal]]
    /\ owned' = owned \cup {m}
    /\ wake' = IF m \in owned THEN wake \cup {m} ELSE wake \ {m}
    /\ UNCHANGED <<queue, drained, stopping, box, sealed, hooked, actor, pushes, moves>>

\* has_high_priority_messages, read before the queue is locked.
ReadLane(t, m) ==
    /\ At(t, "claimed", m)
    /\ hand' = [hand EXCEPT ![t] = [at |-> "ready", box |-> m, lane |-> LaneOf(m)]]
    /\ UNCHANGED <<queue, slots, drained, stopping, box, sealed, hooked, actor, pushes, moves>>

\* Faulty: a refused mailbox keeps its slot.
EnqueueLeaks(t, m) ==
    /\ At(t, "ready", m)
    /\ queue' = IF m \in queue.registered /\ ~queue.closed
                THEN Enqueued(queue, m, hand[t].lane) ELSE queue
    /\ Rests(t)
    /\ UNCHANGED <<slots, drained, stopping, box, sealed, hooked, actor, pushes, moves>>

\* enqueue_registered
EnqueueRegistered(t, m) ==
    /\ At(t, "ready", m)
    /\ IF m \in queue.registered /\ ~queue.closed
       THEN queue' = Enqueued(queue, m, hand[t].lane) /\ UNCHANGED slots
       ELSE ForceRelease(m) /\ UNCHANGED queue
    /\ Rests(t)
    /\ UNCHANGED <<drained, stopping, box, sealed, hooked, actor, pushes, moves>>

-----------------------------------------------------------------------------
(* Registration and shutdown *)

\* schedule_now, up to the registration.
Schedule(p, m) ==
    /\ hand[p] = Idle /\ moves < MaxMoves
    /\ ~stopping /\ ~queue.closed /\ m \notin queue.registered
    /\ queue' = Registered(queue, m)
    /\ moves' = moves + 1
    /\ Moves(p, "hooking", m)
    /\ UNCHANGED <<slots, drained, stopping, box, sealed, hooked, actor, pushes>>

\* Faulty: the hook is installed after the slot was asked for.
InstallHookLate(p, m) ==
    /\ \/ At(p, "hooking", m) /\ Moves(p, "scheduling", m) /\ UNCHANGED hooked
       \/ hand[p] = Idle /\ m \in queue.registered /\ m \notin hooked
          /\ hooked' = hooked \cup {m} /\ UNCHANGED hand
    /\ UNCHANGED <<queue, slots, drained, stopping, box, sealed, actor, pushes, moves>>

\* schedule_now installs the hook; try_enqueue follows.
InstallHook(p, m) ==
    /\ At(p, "hooking", m)
    /\ hooked' = hooked \cup {m}
    /\ Moves(p, "scheduling", m)
    /\ UNCHANGED <<queue, slots, drained, stopping, box, sealed, actor, pushes, moves>>

\* deschedule
Deschedule(m) ==
    /\ m \in queue.registered /\ moves < MaxMoves
    /\ queue' = Unregistered(queue, m)
    /\ IF WaitingOf(queue, m) > 0 THEN ForceRelease(m) ELSE UNCHANGED slots
    /\ moves' = moves + 1
    /\ UNCHANGED <<drained, stopping, box, sealed, hooked, actor, hand, pushes>>

\* ensure_shutdown raises the flag.
Shutdown ==
    /\ ~stopping
    /\ stopping' = TRUE
    /\ UNCHANGED <<queue, slots, drained, box, sealed, hooked, actor, hand, pushes, moves>>

\* The shutdown task closes the queue and takes what waits in it.
Close ==
    /\ stopping /\ ~queue.closed
    /\ drained' = [m \in Mailbox |-> WaitingOf(queue, m)]
    /\ queue' = Closed(queue)
    /\ UNCHANGED <<slots, stopping, box, sealed, hooked, actor, hand, pushes, moves>>

ReleaseDrained(m) ==
    /\ drained[m] > 0
    /\ drained' = [drained EXCEPT ![m] = @ - 1]
    /\ ForceRelease(m)
    /\ UNCHANGED <<queue, stopping, box, sealed, hooked, actor, hand, pushes, moves>>

-----------------------------------------------------------------------------
(* A job: process_mailbox_with_lease *)

\* run_loop takes the mailbox at the front; the job holds its lease.
Take(j) ==
    /\ hand[j] = Idle /\ Resident(queue) > 0
    /\ queue' = Popped(queue)
    /\ Moves(j, "taken", Taken(queue).box)
    /\ UNCHANGED <<slots, drained, stopping, box, sealed, hooked, actor, pushes, moves>>

\* The lease is released: the job is dropped at shutdown, its actor was
\* cancelled, or it failed and supervision is told (notify_shared_error).
Abandon(j, m) ==
    /\ \/ stopping /\ hand[j].at \in {"taken", "running", "handling", "done", "checked"}
       \/ actor[m].cancelled /\ hand[j].at \in {"taken", "running", "handling"}
       \/ hand[j].at = "failed"
    /\ hand[j].box = m
    /\ ForceRelease(m)
    /\ Rests(j)
    /\ actor' = [actor EXCEPT ![m].noticed = @ \/ hand[j].at = "failed"]
    /\ UNCHANGED <<queue, drained, stopping, box, sealed, hooked, pushes, moves>>

\* The messages of this turn; a long streak of work is cut to one message when
\* other mailboxes wait.
Turn(j, m) ==
    \E limit \in {Batch} \cup (IF Resident(queue) > 1 THEN {1} ELSE {}) :
        hand' = [hand EXCEPT ![j] = [at |-> "running", box |-> m, left |-> limit]]

\* record_failure, or the Failed status of initialize_actor.
Fails(j, m, init) ==
    /\ actor' = [actor EXCEPT ![m].status = "Failed", ![m].init = init]
    /\ Moves(j, "failed", m)

\* initialize_actor and start_actor, for a processor that is not initialized:
\* Actor::init succeeds, returns an error, or panics; an actor on which it has
\* returned is not initialized again.
Initialize(j, m) ==
    /\ At(j, "taken", m) /\ ~actor[m].cancelled
    /\ actor[m].status \in {"Initializing", "Failed"}
    /\ \/ /\ actor[m].init = "fresh"
          /\ actor' = [actor EXCEPT ![m].status = "Running", ![m].init = "done"]
          /\ Turn(j, m)
       \/ actor[m].init = "fresh" /\ \E init \in {"stopped", "fresh"} : Fails(j, m, init)
       \/ actor[m].init # "fresh" /\ Fails(j, m, actor[m].init)
    /\ UNCHANGED <<queue, slots, drained, stopping, box, sealed, hooked, pushes, moves>>

\* An initialized actor goes straight to its batch.
Begin(j, m) ==
    /\ At(j, "taken", m) /\ ~actor[m].cancelled
    /\ actor[m].status = "Running"
    /\ Turn(j, m)
    /\ UNCHANGED <<queue, slots, drained, stopping, box, sealed, hooked, actor, pushes, moves>>

\* A round of process_batch_of_messages: a message of the high lane first.
PopItem(j, m) ==
    /\ At(j, "running", m) /\ hand[j].left > 0
    /\ actor[m].status = "Running" /\ m \notin sealed /\ Held(m) > 0
    /\ box' = [box EXCEPT ![m] = IF LaneOf(m) = High THEN [@ EXCEPT !.high = @ - 1]
                                                     ELSE [@ EXCEPT !.normal = @ - 1]]
    /\ hand' = [hand EXCEPT ![j].at = "handling", ![j].left = @ - 1]
    /\ UNCHANGED <<queue, slots, drained, stopping, sealed, hooked, actor, pushes, moves>>

\* Its handler succeeds or is resumed, or fails for good.
Handled(j, m) ==
    /\ At(j, "handling", m)
    /\ \/ hand' = [hand EXCEPT ![j].at = "running"] /\ UNCHANGED actor
       \/ Fails(j, m, actor[m].init)
    /\ UNCHANGED <<queue, slots, drained, stopping, box, sealed, hooked, pushes, moves>>

\* The batch is at its limit, or its mailbox sealed or empty.
EndBatch(j, m) ==
    /\ At(j, "running", m)
    /\ hand[j].left = 0 \/ m \in sealed \/ Held(m) = 0
    /\ Moves(j, "done", m)
    /\ UNCHANGED <<queue, slots, drained, stopping, box, sealed, hooked, actor, pushes, moves>>

\* The job gives the slot up when the mailbox is closed.
Check(j, m) ==
    /\ At(j, "done", m)
    /\ IF stopping \/ m \in sealed THEN ForceRelease(m) /\ Rests(j)
                                   ELSE Moves(j, "checked", m) /\ UNCHANGED slots
    /\ UNCHANGED <<queue, drained, stopping, box, sealed, hooked, actor, pushes, moves>>

\* has_more_messages
Finish(j, m) ==
    /\ At(j, "checked", m)
    /\ hand' = [hand EXCEPT ![j] = [at |-> "finished", box |-> m, more |-> Held(m) > 0]]
    /\ UNCHANGED <<queue, slots, drained, stopping, box, sealed, hooked, actor, pushes, moves>>

\* Faulty: the slot is given up without a look at the wake bit.
ReleaseForgets(j, m) ==
    /\ At(j, "finished", m)
    /\ wake' = wake \ {m}
    /\ IF hand[j].more THEN Moves(j, "claimed", m) /\ UNCHANGED owned
                       ELSE Rests(j) /\ owned' = owned \ {m}
    /\ UNCHANGED <<queue, drained, stopping, box, sealed, hooked, actor, pushes, moves>>

\* release
Release(j, m) ==
    /\ At(j, "finished", m)
    /\ wake' = wake \ {m}
    /\ IF hand[j].more \/ m \in wake THEN Moves(j, "claimed", m) /\ UNCHANGED owned
                                     ELSE Rests(j) /\ owned' = owned \ {m}
    /\ UNCHANGED <<queue, drained, stopping, box, sealed, hooked, actor, pushes, moves>>

-----------------------------------------------------------------------------
(* Supervision: retire_generation, for a failure or for a stop *)

Seal(m) ==
    /\ m \notin sealed
    /\ \/ actor[m].noticed /\ UNCHANGED moves
       \/ moves < MaxMoves /\ moves' = moves + 1
    /\ sealed' = sealed \cup {m}
    /\ UNCHANGED <<queue, slots, drained, stopping, box, hooked, actor, hand, pushes>>

\* cancel_processing, for a failure
Cancel(m) ==
    /\ m \in sealed /\ actor[m].noticed /\ ~actor[m].cancelled
    /\ actor' = [actor EXCEPT ![m].cancelled = TRUE]
    /\ UNCHANGED <<queue, slots, drained, stopping, box, sealed, hooked, hand, pushes, moves>>

-----------------------------------------------------------------------------
PoolInit ==
    /\ queue = EmptyQueue
    /\ owned = {} /\ wake = {} /\ sealed = {} /\ hooked = {}
    /\ drained = [m \in Mailbox |-> 0]
    /\ stopping = FALSE
    /\ box = [m \in Mailbox |-> [high |-> 0, normal |-> 0]]
    /\ actor = [m \in Mailbox |-> [status |-> "Initializing", init |-> "fresh",
                                   noticed |-> FALSE, cancelled |-> FALSE]]
    /\ hand = [t \in Thread |-> Idle]
    /\ pushes = 0 /\ moves = 0

\* The steps a thread takes by itself once it was woken or holds a slot.
Pass(t) ==
    \E m \in Mailbox :
        \/ Ignore(t, m) \/ TryEnqueue(t, m) \/ ReadLane(t, m) \/ EnqueueRegistered(t, m)
        \/ InstallHook(t, m)

Work(j) ==
    \/ Take(j)
    \/ \E m \in Mailbox :
          \/ Abandon(j, m) \/ Initialize(j, m) \/ Begin(j, m) \/ PopItem(j, m) \/ Handled(j, m)
          \/ EndBatch(j, m) \/ Check(j, m) \/ Finish(j, m) \/ Release(j, m)

ShutdownTask == Close \/ \E m \in Mailbox : ReleaseDrained(m)

PoolNext ==
    \/ Shutdown \/ ShutdownTask
    \/ \E t \in Thread : Pass(t)
    \/ \E j \in Job : Work(j)
    \/ \E m \in Mailbox : Deschedule(m) \/ Seal(m) \/ Cancel(m)
    \/ \E p \in Producer, m \in Mailbox :
          Schedule(p, m) \/ \E lane \in Lane : Push(p, m, lane)

PoolSpec == PoolInit /\ [][PoolNext]_vars

\* Threads run, the workers poll the queue (idle_sleep_duration bounds their
\* sleep), handlers return, and the shutdown task is not dropped.
PoolFairness ==
    /\ \A t \in Thread : WF_vars(Pass(t))
    /\ \A j \in Job : WF_vars(Work(j))
    /\ WF_vars(ShutdownTask)

FairPoolSpec == PoolSpec /\ PoolFairness

-----------------------------------------------------------------------------
(* Properties *)

\* "Admission order within a lane is preserved, including registered actors
\* waiting for space" (SchedulingQueue): a job takes an actor no other waiting
\* actor, in a lane or deferred, comes before.
TakesOldest ==
    [][\A j \in Job : hand[j] = Idle /\ hand'[j].at = "taken" =>
          \A e, f \in Everything(queue) : e.box = hand'[j].box => ~Before(f, e)]_vars

\* A thread as ScheduleSlot sees it.
AbstractHand(h) ==
    CASE h.at = "scheduling" -> [at |-> "woken", box |-> h.box]
      [] h.at = "ready" -> [at |-> "claimed", box |-> h.box]
      [] h.at \in {"taken", "running", "handling", "failed", "done", "checked"} ->
            [at |-> "running", box |-> h.box]
      [] OTHER -> h

Slot == INSTANCE ScheduleSlot WITH
    waiting <- [m \in Mailbox |-> WaitingOf(queue, m)],
    registered <- queue.registered,
    closed <- queue.closed,
    messages <- [m \in Mailbox |-> Held(m)],
    retired <- {m \in Mailbox : m \in sealed \/ actor[m].noticed \/ actor[m].status = "Failed"},
    hand <- [t \in Thread |-> AbstractHand(hand[t])]

\* The pool keeps the promises of ScheduleSlot: whatever the order of its
\* queue, an actor runs in one job and no wake is lost (schedule_now,
\* deschedule, process_mailbox_with_lease, ensure_shutdown).
KeepsSlots == Slot!SlotSpec

Live(m) ==
    m \in queue.registered /\ m \notin sealed /\ actor[m].status # "Failed" /\ ~stopping

\* A message accepted for a live, scheduled actor is handled: its wake reaches
\* the ready queue, a job, and the actor, through full lanes and batches that
\* end early (wake hook, process_mailbox_with_lease).
Served == \A m \in Mailbox : Live(m) /\ Held(m) > 0 ~> (~Live(m) \/ Held(m) = 0)

\* After a shutdown every slot is free for good, whoever held it: the queue,
\* a job, or a producer on its way to the closed queue (ensure_shutdown,
\* enqueue_registered, SharedLease).
SlotsAreFreed == stopping ~> [](owned = {})

\* "Releasing the scheduler slot can race with another producer before the
\* detached retirement owner seals the mailbox. Stop execution now."
\* (record_failure): a failed processor does not run again.
FailedStaysDown ==
    [][\A m \in Mailbox : actor[m].status = "Failed" => actor'[m].status = "Failed"]_vars
=============================================================================
