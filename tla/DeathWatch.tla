----------------------------- MODULE DeathWatch -----------------------------
(***************************************************************************)
(* Death watch (crates/parrot-api/src/death_watch.rs): a watcher           *)
(* subscribes to a target, and is told once when the target's engine       *)
(* confirms that it is gone.  Both ends keep the subscription; no          *)
(* operation but watch holds both locks, so ends are removed one by one    *)
(* while others watch, unwatch and die.  A step is one critical section.   *)
(* Actors that are dropped without being closed, whose weak references no  *)
(* longer upgrade, are left out.                                           *)
(***************************************************************************)
EXTENDS Naturals, FiniteSets

CONSTANTS
    Actor,
    MaxEdges,   \* bound on the subscriptions ever made
    WatchLimit  \* the limit on incoming, and on outgoing subscriptions

Edge == 1..MaxEdges

NoEdge == 0

VARIABLES
    incoming,   \* incoming[t][w]: the subscription of w to t, at t
    outgoing,   \* outgoing[w][t]: the subscription of w to t, at w
    lifecycle,  \* lifecycle[a]: "open", "suspended" or "closed"
    gone,       \* targets whose termination was published, or abandoned
    made,       \* made[e]: the target and the watcher of subscription e
    cancelled,  \* subscriptions whose cancellation was sent
    unlinking,  \* unlink calls under way: <<e, what is next>>
    delivering, \* subscriptions whose notification is under way
    told,       \* subscriptions whose watcher got the event
    failures,   \* subscriptions whose notification failed
    dropped,    \* history: subscriptions whose notification was dropped with all others
    ended       \* history: subscriptions their watcher has given up

\* What became of the notifications.
outcomes == <<told, failures, dropped>>

watchVars ==
    <<incoming, outgoing, lifecycle, gone, made, cancelled, unlinking, delivering, outcomes, ended>>

Edges(f) == {f[a] : a \in Actor} \ {NoEdge}

NoEdges == [a \in Actor |-> NoEdge]

Target(e) == made[e][1]

Watcher(e) == made[e][2]

\* unlink begins: the cancellation is sent before an end is removed.
Unlinks(S) == unlinking' = unlinking \cup {<<e, "cancel">> : e \in S}

-----------------------------------------------------------------------------
(* Subscriptions *)

\* watch, under both locks.  A refused or repeated call changes nothing.
Watch(t, w) ==
    /\ t # w /\ Cardinality(DOMAIN made) < MaxEdges
    /\ lifecycle[t] = "open" /\ lifecycle[w] = "open"
    /\ incoming[t][w] = NoEdge
    /\ Cardinality(Edges(incoming[t])) < WatchLimit
    /\ Cardinality(Edges(outgoing[w])) < WatchLimit
    /\ LET e == Cardinality(DOMAIN made) + 1 IN
        /\ made' = [d \in 1..e |-> IF d = e THEN <<t, w>> ELSE made[d]]
        /\ incoming' = [incoming EXCEPT ![t][w] = e]
        /\ outgoing' = [outgoing EXCEPT ![w][t] = e]
    /\ UNCHANGED <<lifecycle, gone, cancelled, unlinking, delivering, outcomes, ended>>

\* unwatch takes the watcher's end.
Unwatch(t, w) ==
    /\ outgoing[w][t] # NoEdge
    /\ outgoing' = [outgoing EXCEPT ![w][t] = NoEdge]
    /\ Unlinks({outgoing[w][t]})
    /\ ended' = ended \cup {outgoing[w][t]}
    /\ UNCHANGED <<incoming, lifecycle, gone, made, cancelled, delivering, outcomes>>

\* suspend and close: all outgoing subscriptions are given up.
Leaves(a, state) ==
    /\ lifecycle' = [lifecycle EXCEPT ![a] = state]
    /\ outgoing' = [outgoing EXCEPT ![a] = NoEdges]
    /\ Unlinks(Edges(outgoing[a]))
    /\ ended' = ended \cup Edges(outgoing[a])
    /\ UNCHANGED <<incoming, gone, made, cancelled, delivering, outcomes>>

SuspendWatch(a) == lifecycle[a] = "open" /\ Leaves(a, "suspended")

ResumeWatch(a) ==
    /\ lifecycle[a] = "suspended"
    /\ lifecycle' = [lifecycle EXCEPT ![a] = "open"]
    /\ UNCHANGED <<incoming, outgoing, gone, made, cancelled, unlinking, delivering, outcomes, ended>>

CloseWatch(a) == lifecycle[a] # "closed" /\ Leaves(a, "closed")

\* unlink: the cancellation,
Cancel(e) ==
    /\ <<e, "cancel">> \in unlinking
    /\ cancelled' = cancelled \cup {e}
    /\ unlinking' = (unlinking \ {<<e, "cancel">>}) \cup {<<e, "target">>}
    /\ UNCHANGED <<incoming, outgoing, lifecycle, gone, made, delivering, outcomes, ended>>

\* the target's end,
UnlinkTarget(e) ==
    /\ <<e, "target">> \in unlinking
    /\ incoming' = [incoming EXCEPT ![Target(e)][Watcher(e)] = IF @ = e THEN NoEdge ELSE @]
    /\ unlinking' = (unlinking \ {<<e, "target">>}) \cup {<<e, "watcher">>}
    /\ UNCHANGED <<outgoing, lifecycle, gone, made, cancelled, delivering, outcomes, ended>>

\* Faulty: whatever subscription is there is removed.
UnlinkWatcherAny(e) ==
    /\ <<e, "watcher">> \in unlinking
    /\ outgoing' = [outgoing EXCEPT ![Watcher(e)][Target(e)] = NoEdge]
    /\ unlinking' = unlinking \ {<<e, "watcher">>}
    /\ UNCHANGED <<incoming, lifecycle, gone, made, cancelled, delivering, outcomes, ended>>

\* the watcher's.
UnlinkWatcher(e) ==
    /\ <<e, "watcher">> \in unlinking
    /\ outgoing' = [outgoing EXCEPT ![Watcher(e)][Target(e)] = IF @ = e THEN NoEdge ELSE @]
    /\ unlinking' = unlinking \ {<<e, "watcher">>}
    /\ UNCHANGED <<incoming, lifecycle, gone, made, cancelled, delivering, outcomes, ended>>

-----------------------------------------------------------------------------
(* Termination *)

\* terminated_checked, after it has closed: every subscription gets a guard.
Terminated(t) ==
    /\ lifecycle[t] = "closed" /\ t \notin gone
    /\ gone' = gone \cup {t}
    /\ delivering' = delivering \cup Edges(incoming[t])
    /\ incoming' = [incoming EXCEPT ![t] = NoEdges]
    /\ UNCHANGED <<outgoing, lifecycle, made, cancelled, unlinking, outcomes, ended>>

\* abandon: the engine lost the actor without a receipt.
AbandonWatch(t) ==
    /\ lifecycle[t] = "closed" /\ t \notin gone
    /\ gone' = gone \cup {t}
    /\ failures' = failures \cup Edges(incoming[t])
    /\ Unlinks(Edges(incoming[t]))
    /\ incoming' = [incoming EXCEPT ![t] = NoEdges]
    /\ UNCHANGED <<outgoing, lifecycle, made, cancelled, delivering, told, dropped, ended>>

\* Deliveries end, and their guards are dropped.
DeliveriesEnd(S) ==
    /\ S # {} /\ S \subseteq delivering
    /\ delivering' = delivering \ S
    /\ Unlinks(S)
    /\ UNCHANGED <<incoming, outgoing, lifecycle, gone, made, cancelled, ended>>

\* The mailbox took the event; a cancellation sent while it did comes too late.
Told(e) == DeliveriesEnd({e}) /\ told' = told \cup {e} /\ UNCHANGED <<failures, dropped>>

\* The recipient failed, or the deadline passed.
DeliveryFailed(e) ==
    DeliveriesEnd({e}) /\ failures' = failures \cup {e} /\ UNCHANGED <<told, dropped>>

\* Faulty: a cancellation counts for the pair and not for the subscription.
DeliveryCancelledPair(e) ==
    /\ e \in delivering /\ \E d \in cancelled : made[d] = made[e]
    /\ DeliveriesEnd({e}) /\ UNCHANGED outcomes

\* The delivery sees the cancellation.
DeliveryCancelled(e) ==
    /\ e \in cancelled
    /\ DeliveriesEnd({e}) /\ UNCHANGED outcomes

\* The caller drops the future of terminated_checked: what it has not delivered
\* is neither delivered nor counted.
NotificationDropped(t) ==
    LET rest == {e \in delivering : Target(e) = t} IN
    /\ DeliveriesEnd(rest)
    /\ dropped' = dropped \cup rest
    /\ UNCHANGED <<told, failures>>

-----------------------------------------------------------------------------
WatchInit ==
    /\ incoming = [a \in Actor |-> NoEdges] /\ outgoing = [a \in Actor |-> NoEdges]
    /\ lifecycle = [a \in Actor |-> "open"] /\ gone = {} /\ made = <<>>
    /\ cancelled = {} /\ unlinking = {} /\ delivering = {}
    /\ told = {} /\ failures = {} /\ dropped = {} /\ ended = {}

WatchNext ==
    \/ \E t, w \in Actor : Watch(t, w) \/ Unwatch(t, w)
    \/ \E a \in Actor :
          \/ SuspendWatch(a) \/ ResumeWatch(a) \/ CloseWatch(a)
          \/ Terminated(a) \/ AbandonWatch(a) \/ NotificationDropped(a)
    \/ \E e \in Edge :
          \/ Cancel(e) \/ UnlinkTarget(e) \/ UnlinkWatcher(e)
          \/ Told(e) \/ DeliveryFailed(e) \/ DeliveryCancelled(e)

WatchSpec == WatchInit /\ [][WatchNext]_watchVars

-----------------------------------------------------------------------------
(* Properties *)

\* A subscription somebody is still working on.
Busy(e) == e \in delivering \/ \E u \in unlinking : u[1] = e

\* "Pointer checks protect a replacement edge created between removal and
\* cleanup": a subscription nobody is removing is held by both ends, so
\* neither end keeps one the other has lost, and none is left at the watchers of a
\* target that is gone (unlink, DeliveryGuard).
EndsAgree ==
    \A t, w \in Actor :
        /\ incoming[t][w] # NoEdge /\ ~Busy(incoming[t][w]) => outgoing[w][t] = incoming[t][w]
        /\ outgoing[w][t] # NoEdge /\ ~Busy(outgoing[w][t]) =>
              t \notin gone /\ incoming[t][w] = outgoing[w][t]

\* A watcher that has not given its subscription up is told, or the failure is
\* counted, or the target's whole notification was dropped by its caller, and never
\* two of these: the cancellation of other subscriptions, or of an earlier one of
\* the same pair, does not silence it, and "failed recipients cannot strand other
\* recipients" (terminated, terminated_checked).
WatchersHear ==
    /\ told \cap failures = {} /\ dropped \cap (told \cup failures) = {}
    /\ \A e \in DOMAIN made \ ended :
          Target(e) \in gone => e \in told \cup failures \cup dropped \cup delivering
    /\ \A e \in dropped, d \in delivering : Target(d) # Target(e)
=============================================================================
