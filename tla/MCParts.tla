------------------------------ MODULE MCParts ------------------------------
(***************************************************************************)
(* Parts of a node that do not act on each other's state, each checked for *)
(* itself in one run: the initial state picks the part that moves, and the *)
(* others stay as they start.                                              *)
(***************************************************************************)
EXTENDS ScheduleSlot, MpscMailbox, IdleClock, DeathWatch, Cohort, Dedup, Swim, Receptionist,
        ServiceLinks, WireMirror, MirrorSaga, RelayedAsk

CONSTANTS
    Watched,  \* the actors that are watched
    Fickle    \* the watchers that may subscribe to the same target again

VARIABLE part

RuntimeParts == {"slots", "mail", "idle", "watch", "cohort"}
ClusterParts == {"dedup", "swim", "reception", "links", "mirrors", "saga", "asks"}

partVars == <<part, slotVars, mailVars, idleVars, watchVars, cohortVars, dedupVars, swimVars,
              recVars, linkVars, mirrorVars, sagaVars, askVars>>

FewSenders(S) == Cardinality(S) <= 2

\* Bound on the subscriptions ever made.
FewSubscriptions ==
    \A e \in DOMAIN made :
        /\ Target(e) \in Watched
        /\ Watcher(e) \in Fickle \/ \A d \in DOMAIN made \ {e} : made[d] # made[e]

\* Parts with several initial states have one of them while they do not move.
PartInit ==
    /\ part \in RuntimeParts \cup ClusterParts
    /\ SlotInit /\ MailboxInit /\ IdleInit /\ WatchInit /\ CohortInit
    /\ DedupInit /\ SwimInit /\ RecInit /\ LinksInit /\ MirrorInit /\ SagaInit /\ AskInit
    /\ part # "cohort" => Present = {}
    /\ part # "saga" => sight = [steady |-> FALSE, home |-> NoHome]

\* The variables of each part.
Still(p) ==
    CASE p = "slots" -> UNCHANGED slotVars
      [] p = "mail" -> UNCHANGED mailVars
      [] p = "idle" -> UNCHANGED idleVars
      [] p = "watch" -> UNCHANGED watchVars
      [] p = "cohort" -> UNCHANGED cohortVars
      [] p = "dedup" -> UNCHANGED dedupVars
      [] p = "swim" -> UNCHANGED swimVars
      [] p = "reception" -> UNCHANGED recVars
      [] p = "links" -> UNCHANGED linkVars
      [] p = "mirrors" -> UNCHANGED mirrorVars
      [] p = "saga" -> UNCHANGED sagaVars
      [] p = "asks" -> UNCHANGED askVars

PartNext ==
    /\ UNCHANGED part
    /\ \/ part = "slots" /\ SlotNext
       \/ part = "mail" /\ MailboxNext
       \/ part = "idle" /\ IdleNext
       \/ part = "watch" /\ WatchNext /\ FewSubscriptions'
       \/ part = "cohort" /\ CohortNext
       \/ part = "dedup" /\ DedupNext
       \/ part = "swim" /\ SwimNext
       \/ part = "reception" /\ RecNext
       \/ part = "links" /\ LinksNext
       \/ part = "mirrors" /\ MirrorNext
       \/ part = "saga" /\ SagaNext
       \/ part = "asks" /\ AskNext
    /\ \A p \in (RuntimeParts \cup ClusterParts) \ {part} : Still(p)

\* The fairness of each part's own specification, while it is the part that moves.
PartFairness ==
    /\ \A p \in Producer : WF_send(part = "mail" /\ (Retry(p) \/ Admit(p)))
    /\ WF_notifying(part = "mail" /\ ((~sealed /\ PopItem) \/ NotifyPopped))
    /\ WF_closing(part = "mail" /\ (NotifySealed \/ Drain))
    /\ WF_sleeper(part = "idle" /\ Sleeper) /\ WF_owed(part = "idle" /\ Rest)
    /\ WF_tokens(part = "idle" /\ Dispatch)
    /\ WF_running(part = "swim" /\ \E n \in Node : StartNode(n))
    /\ WF_linked(part = "swim" /\ \E i, j \in Node : Connect(i, j))
    /\ \A i \in Node : \A j \in Node \ {i} :
          /\ WF_gossip(part = "swim" /\ SendGossip(i, j))
          /\ WF_gossip(part = "swim" /\ HandleGossip(i, j))
    /\ \A n \in Dialer : WF_dialled(part = "links" /\ Dial(n))
    /\ WF_dead(part = "links" /\ \E n \in Peer : Revive(n))
    /\ WF_links(part = "links" /\ \E n \in Peer : \E c \in 1..dialled : RegisterLink(n, c))
    /\ WF_links(part = "links" /\ \E n \in Peer : \E c \in 1..dialled : ForgetLink(n, c))
    /\ \A n \in Peer :
          /\ WF_<<learned, syncs>>(part = "links" /\ SyncTick(n))
          /\ \A c \in 1..(Cardinality(Dialer) * (MaxLosses + 1)) :
                WF_syncs(part = "links" /\ \E s \in syncs[n] : s[1] = c /\ ReceiveSync(n, s))
    /\ \A c \in Child :
          /\ WF_<<stage, started, epochs>>(part = "cohort" /\ OwnerStep(c))
          /\ WF_memberStopping(part = "cohort" /\ StopOwned(c))
    /\ \A e \in 1..MaxEpochs :
          WF_epochs(part = "cohort" /\ e \in DOMAIN epochs /\ CommitStep(e))
    /\ WF_groupOwner(part = "cohort" /\ DropGroup)
    /\ \A c \in Copier : WF_copying(part = "mirrors" /\ Encoder(c))
    /\ \A g \in Gen : WF_entry(part = "mirrors" /\ g \in Entries /\ Retires(g))
    /\ WF_round(part = "saga" /\ Supervises) /\ WF_store(part = "saga" /\ Reopen)
    /\ WF_flying(part = "saga" /\ Serves)
    /\ WF_askVars(part = "asks" /\ AskProgress)

PartSpec == PartInit /\ [][PartNext]_partVars /\ PartFairness

\* Membership heals (Heals of Swim) in the behaviours in which it moves: every
\* wrong death is refuted, and the refutation gets to everybody (run_inner).
MembershipHeals == <>[](part = "swim" => Healed)

\* Service tables converge (TablesConverge of ServiceLinks) in the behaviours in
\* which they move: periodic snapshots repair them (start_receptionist).
ServicesConverge == <>[](part = "links" => Converged)

\* When nodes neither restart nor are tampered with, the mirror comes to be where it
\* should be, or is gone when it should be nowhere, whatever requests, waiters and
\* commits were lost or late and whenever the supervisor crashed (reconcile_once).
MirrorIsPlaced == <>[](part = "saga" /\ Untouched => Mirrored)
=============================================================================
