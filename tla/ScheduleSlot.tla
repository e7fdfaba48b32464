---------------------------- MODULE ScheduleSlot ----------------------------
(***************************************************************************)
(* The scheduling slot of a mailbox (ScheduleState,                        *)
(* crates/parrot/src/thread/mailbox/mod.rs) and the threads that pass its  *)
(* ownership on: producers firing the wake hook, the ready queue, and the  *)
(* workers' jobs of the shared pool (thread/scheduler/shared).             *)
(*                                                                         *)
(* This is what the pool promises about turns, whatever the order of its   *)
(* ready queue: one job at a time runs an actor, and no accepted message   *)
(* is left without somebody who will look at it.  SharedPool implements    *)
(* it.  A thread is shown between any two accesses to shared state.        *)
(***************************************************************************)
EXTENDS Integers

CONSTANTS
    Mailbox,    \* the actors' mailboxes
    Thread,     \* producers and jobs
    Capacity    \* messages a mailbox holds

ASSUME CapacityPos == Capacity \in Nat \ {0}

VARIABLES
    owned,      \* mailboxes whose OWNED bit is set
    wake,       \* mailboxes whose WAKE bit is set
    waiting,    \* waiting[m]: entries of m in the ready queue
    drained,    \* drained[m]: entries of m taken by the closing of the queue
    registered, \* mailboxes registered with the ready queue
    stopping,   \* the pool's shutdown flag
    closed,     \* the ready queue is closed
    messages,   \* messages[m]: accepted by the mailbox and not yet taken
    retired,    \* mailboxes whose actor is stopping or has failed
    hooked,     \* mailboxes whose wake hook is installed
    hand        \* hand[t]: what thread t is doing, to which mailbox

slotVars ==
    <<owned, wake, waiting, drained, registered, stopping, closed, messages, retired, hooked,
      hand>>

Idle == [at |-> "idle"]

At(t, place, m) == hand[t] = [at |-> place, box |-> m]

\* A job that has read whether the mailbox has more messages.
Finished(m, more) == [at |-> "finished", box |-> m, more |-> more]

Moves(t, place, m) == hand' = [hand EXCEPT ![t] = [at |-> place, box |-> m]]

Rests(t) == hand' = [hand EXCEPT ![t] = Idle]

\* force_release: ownership and pending wakes are discarded.
ForceRelease(m) == owned' = owned \ {m} /\ wake' = wake \ {m}

-----------------------------------------------------------------------------
(* The wake hook *)

\* enqueue of the mailbox accepts a message; the hook, if any, is about to fire.
Push(t, m) ==
    /\ hand[t] = Idle /\ messages[m] < Capacity
    /\ messages' = [messages EXCEPT ![m] = @ + 1]
    /\ \/ m \in hooked /\ Moves(t, "woken", m)
       \/ m \notin hooked /\ UNCHANGED hand
    /\ UNCHANGED <<owned, wake, waiting, drained, registered, stopping,
                   closed, retired, hooked>>

\* The hook returns at once when the pool is shutting down.
Ignore(t, m) ==
    /\ At(t, "woken", m) /\ stopping
    /\ Rests(t)
    /\ UNCHANGED <<owned, wake, waiting, drained, registered, stopping,
                   closed, messages, retired, hooked>>

\* try_enqueue: a free slot is acquired, a taken one notes the wake.
TryEnqueue(t, m) ==
    /\ At(t, "woken", m)
    /\ \/ /\ m \notin owned
          /\ owned' = owned \cup {m} /\ wake' = wake \ {m}
          /\ Moves(t, "claimed", m)
       \/ /\ m \in owned
          /\ wake' = wake \cup {m} /\ owned' = owned
          /\ Rests(t)
    /\ UNCHANGED <<waiting, drained, registered, stopping, closed, messages,
                   retired, hooked>>

\* enqueue_registered, by a thread that owns the slot.
EnqueueRegistered(t, m) ==
    /\ At(t, "claimed", m)
    /\ \/ /\ m \in registered /\ ~closed
          /\ waiting' = [waiting EXCEPT ![m] = @ + 1]
          /\ UNCHANGED <<owned, wake>>
       \/ /\ m \notin registered \/ closed
          /\ ForceRelease(m)
          /\ UNCHANGED waiting
    /\ Rests(t)
    /\ UNCHANGED <<drained, registered, stopping, closed, messages, retired, hooked>>

-----------------------------------------------------------------------------
(* A job *)

\* try_pop hands the slot to a job.
Take(t, m) ==
    /\ hand[t] = Idle /\ waiting[m] > 0
    /\ waiting' = [waiting EXCEPT ![m] = @ - 1]
    /\ Moves(t, "running", m)
    /\ UNCHANGED <<owned, wake, drained, registered, stopping, closed,
                   messages, retired, hooked>>

\* The actor takes one message.
Pop(t, m) ==
    /\ At(t, "running", m) /\ messages[m] > 0
    /\ messages' = [messages EXCEPT ![m] = @ - 1]
    /\ UNCHANGED <<owned, wake, waiting, drained, registered, stopping,
                   closed, retired, hooked, hand>>

\* The batch is over and the job reads has_more_messages.
Finish(t, m) ==
    /\ At(t, "running", m)
    /\ hand' = [hand EXCEPT ![t] = Finished(m, messages[m] > 0)]
    /\ UNCHANGED <<owned, wake, waiting, drained, registered, stopping,
                   closed, messages, retired, hooked>>

\* Faulty: the wake noted for the owner is forgotten.
ReleaseForgets(t, m) ==
    \E more \in BOOLEAN :
        /\ hand[t] = Finished(m, more)
        /\ \/ more /\ Moves(t, "claimed", m) /\ owned' = owned
           \/ ~more /\ Rests(t) /\ owned' = owned \ {m}
        /\ wake' = wake \ {m}
        /\ UNCHANGED <<waiting, drained, registered, stopping, closed, messages,
                       retired, hooked>>

\* release: ownership is kept for one more turn, or given up.
Release(t, m) ==
    \E more \in BOOLEAN :
        /\ hand[t] = Finished(m, more)
        /\ \/ (more \/ m \in wake) /\ Moves(t, "claimed", m) /\ owned' = owned
           \/ ~more /\ m \notin wake /\ Rests(t) /\ owned' = owned \ {m}
        /\ wake' = wake \ {m}
        /\ UNCHANGED <<waiting, drained, registered, stopping, closed, messages,
                       retired, hooked>>

\* The lease is released after a failure, a cancellation, or a shutdown.
Abandon(t, m) ==
    /\ At(t, "running", m) /\ (m \in retired \/ stopping)
    /\ ForceRelease(m)
    /\ Rests(t)
    /\ UNCHANGED <<waiting, drained, registered, stopping, closed, messages,
                   retired, hooked>>

\* The actor fails or is stopped.
Retire(m) ==
    /\ retired' = retired \cup {m}
    /\ UNCHANGED <<owned, wake, waiting, drained, registered, stopping,
                   closed, messages, hooked, hand>>

-----------------------------------------------------------------------------
(* Registration *)

\* schedule_now registers the mailbox,
Schedule(t, m) ==
    /\ hand[t] = Idle /\ m \notin registered /\ ~closed
    /\ registered' = registered \cup {m}
    /\ Moves(t, "hooking", m)
    /\ UNCHANGED <<owned, wake, waiting, drained, stopping, closed,
                   messages, retired, hooked>>

\* installs the wake hook, and goes on as if it had been woken.
InstallHook(t, m) ==
    /\ At(t, "hooking", m)
    /\ hooked' = hooked \cup {m}
    /\ Moves(t, "woken", m)
    /\ UNCHANGED <<owned, wake, waiting, drained, registered, stopping,
                   closed, messages, retired>>

\* unregister: the slot of a waiting mailbox is released.
Deschedule(m) ==
    /\ m \in registered
    /\ registered' = registered \ {m}
    /\ waiting' = [waiting EXCEPT ![m] = 0]
    /\ IF waiting[m] > 0 THEN ForceRelease(m) ELSE UNCHANGED <<owned, wake>>
    /\ UNCHANGED <<drained, stopping, closed, messages, retired, hooked, hand>>

\* shutdown raises the flag.
Stop ==
    /\ stopping' = TRUE
    /\ UNCHANGED <<owned, wake, waiting, drained, registered, closed,
                   messages, retired, hooked, hand>>

\* close_and_take.
Close ==
    /\ stopping /\ ~closed
    /\ closed' = TRUE /\ registered' = {}
    /\ drained' = waiting
    /\ waiting' = [m \in Mailbox |-> 0]
    /\ UNCHANGED <<owned, wake, stopping, messages, retired, hooked, hand>>

\* The shutdown task releases one mailbox it took.
ReleaseDrained(m) ==
    /\ drained[m] > 0
    /\ drained' = [drained EXCEPT ![m] = @ - 1]
    /\ ForceRelease(m)
    /\ UNCHANGED <<waiting, registered, stopping, closed, messages, retired,
                   hooked, hand>>

-----------------------------------------------------------------------------
SlotInit ==
    /\ owned = {} /\ wake = {} /\ registered = {} /\ retired = {} /\ hooked = {}
    /\ stopping = FALSE /\ closed = FALSE
    /\ waiting = [m \in Mailbox |-> 0]
    /\ drained = [m \in Mailbox |-> 0]
    /\ messages = [m \in Mailbox |-> 0]
    /\ hand = [t \in Thread |-> Idle]

SlotNext ==
    \/ Stop \/ Close
    \/ \E m \in Mailbox :
          \/ Retire(m) \/ Deschedule(m) \/ ReleaseDrained(m)
          \/ \E t \in Thread :
                \/ Push(t, m) \/ Ignore(t, m) \/ TryEnqueue(t, m) \/ EnqueueRegistered(t, m)
                \/ Take(t, m) \/ Pop(t, m) \/ Finish(t, m) \/ Release(t, m) \/ Abandon(t, m)
                \/ Schedule(t, m) \/ InstallHook(t, m)

SlotSpec == SlotInit /\ [][SlotNext]_slotVars

-----------------------------------------------------------------------------
Hand ==
    {Idle} \cup [at : {"hooking", "woken", "claimed", "running"}, box : Mailbox]
           \cup [at : {"finished"}, box : Mailbox, more : BOOLEAN]

\* The type invariant of the slot protocol, with the mailboxes' capacity.
SlotTypeOK ==
    /\ owned \subseteq Mailbox /\ wake \subseteq Mailbox
    /\ registered \subseteq Mailbox /\ retired \subseteq Mailbox
    /\ hooked \subseteq Mailbox
    /\ stopping \in BOOLEAN /\ closed \in BOOLEAN
    /\ waiting \in [Mailbox -> Nat] /\ drained \in [Mailbox -> Nat]
    /\ messages \in [Mailbox -> 0..Capacity]
    /\ hand \in [Thread -> Hand]

\* Threads that hold the slot of m: between acquiring and passing it on.
Holds(t, m) == hand[t].at \in {"claimed", "running", "finished"} /\ hand[t].box = m

\* The slot of a mailbox is in one place: free, held by one thread, in one
\* entry of the ready queue, or on its way out of the closed queue.  So an
\* actor never runs in two jobs (ScheduleState, SharedLease, enqueue_registered,
\* unregister, close_and_take).
OneOwner ==
    \A m \in Mailbox :
        /\ waiting[m] + drained[m] <= 1
        /\ \A t \in Thread : Holds(t, m) => waiting[m] + drained[m] = 0
        /\ \A t, u \in Thread : Holds(t, m) /\ Holds(u, m) => t = u
        /\ m \in owned <=> (waiting[m] + drained[m] = 1 \/ \E t \in Thread : Holds(t, m))

\* A message accepted by a live, registered mailbox is never forgotten: the
\* slot is owned or a thread is on its way to ask for it, and an owner that saw an
\* empty mailbox finds the wake bit, or that thread, when it releases
\* (try_enqueue, release).
NoLostWake ==
    \A m \in registered \ retired :
        messages[m] > 0 /\ ~stopping =>
            \/ \E t \in Thread : At(t, "hooking", m) \/ At(t, "woken", m)
            \/ m \in owned /\ (m \in wake \/ \A t \in Thread : hand[t] # Finished(m, FALSE))
=============================================================================
