------------------------------- MODULE Cohort -------------------------------
(***************************************************************************)
(* One-for-all recovery of the children of one parent.  A failing child    *)
(* whose strategy restarts the whole cohort registers an epoch: all old    *)
(* generations retire, all replacements are prepared, all are published,   *)
(* and only then does any of them run.  children.rs holds the scope and    *)
(* the lifetimes, children/recovery.rs the three barriers, and the Thread  *)
(* engine (thread/supervisor_exec.rs, thread/factory.rs) the owner task    *)
(* that carries one child through them.  Explicit stops, the parent's      *)
(* close, new children, single restarts and one-for-all stops race with    *)
(* the epoch.                                                              *)
(***************************************************************************)
EXTENDS Naturals, Sequences

CONSTANTS
    Child,          \* the children the parent may have
    NoChild,
    MaxEpochs,      \* bounds on epochs, failures and explicit stops
    MaxFailures,
    MaxStopCalls

ASSUME CohortAssumption == NoChild \notin Child /\ MaxEpochs \in Nat

VARIABLES
    stage,          \* stage[c]: how far the task that owns c's transition has come
    plan,           \* plan[c]: its failure policy: "stop", "single" or "cohort"
    memberStopping, \* ChildLifetime::stopping
    assigned,       \* ChildLifetime::recovery: an epoch, or 0
    started,        \* started[c]: c's current generation has been initialized
    born,           \* born[c]: the epoch that published this generation, or 0
    asked,          \* asked[c]: a retire_generation task was spawned for c
    epochs,         \* the Recovery of every epoch so far
    groupActive,    \* ChildScope::group_active
    groupOwner,     \* the child that has the FailureGroup,
    siblings,       \* and the siblings it stops
    locked,         \* the child that registers, with the lock of the children
    scopeClosed,    \* ChildScope::closed
    childFailures, stopCalls

scopeVars == <<groupActive, groupOwner, siblings, locked, scopeClosed>>
cohortVars == <<stage, plan, memberStopping, assigned, started, born, asked, epochs,
                scopeVars, childFailures, stopCalls>>

\* The members of ChildScope::children.
Present == {c \in Child : stage[c] \notin {"absent", "gone"}}

LastEpoch == Len(epochs)

\* ChildLifetime::recovery(): the assigned epoch unless it has committed.
RecoveryOf(c) == IF assigned[c] # 0 /\ ~epochs[assigned[c]].committed
                 THEN assigned[c] ELSE 0

\* Faulty: a stop after the commit still aborts.
AbortedLate(es, e) ==
  IF e = 0 THEN es
  ELSE IF es[e].error THEN es
  ELSE [es EXCEPT ![e].error = TRUE, ![e].progress = "aborted"]

\* Recovery::abort: nothing once the epoch has committed or failed.
Aborted(es, e) ==
  IF e = 0 THEN es
  ELSE IF es[e].committed \/ es[e].error THEN es
  ELSE [es EXCEPT ![e].error = TRUE, ![e].progress = "aborted"]

CohortInit ==
  /\ stage \in [Child -> {"absent", "up"}]
  /\ plan = [c \in Child |-> "stop"]
  /\ memberStopping = [c \in Child |-> FALSE]
  /\ assigned = [c \in Child |-> 0]
  /\ started = [c \in Child |-> TRUE]
  /\ born = [c \in Child |-> 0]
  /\ asked = [c \in Child |-> FALSE]
  /\ epochs = <<>>
  /\ groupActive = FALSE
  /\ groupOwner = NoChild
  /\ siblings = {}
  /\ locked = NoChild
  /\ scopeClosed = FALSE
  /\ childFailures = 0
  /\ stopCalls = 0

-----------------------------------------------------------------------------
\* ChildScope::spawn: refused once the scope is closed or while a group
\* operation runs, under the children lock.
SpawnChild(c) ==
  /\ stage[c] = "absent"
  /\ locked = NoChild /\ ~scopeClosed /\ ~groupActive
  /\ stage' = [stage EXCEPT ![c] = "up"]
  /\ UNCHANGED <<plan, memberStopping, assigned, started, born, asked, epochs,
                 scopeVars, childFailures, stopCalls>>

\* The running generation fails: retire_generation takes the transition.
FailChild(c) ==
  /\ childFailures < MaxFailures
  /\ stage[c] = "up" /\ started[c]
  /\ stage' = [stage EXCEPT ![c] = "deciding"]
  /\ asked' = [asked EXCEPT ![c] = FALSE]
  /\ childFailures' = childFailures + 1
  /\ UNCHANGED <<plan, memberStopping, assigned, started, born, epochs, scopeVars, stopCalls>>

\* The retire_generation task a cohort registration spawned for this child.
\* A child that left "up" in the meantime has another owner: the task returns.
RetireAsked(c) ==
  /\ asked[c] /\ stage[c] = "up"
  /\ asked' = [asked EXCEPT ![c] = FALSE]
  /\ stage' = [stage EXCEPT ![c] = "deciding"]
  /\ UNCHANGED <<plan, memberStopping, assigned, started, born, epochs, scopeVars,
                 childFailures, stopCalls>>

RecoveryChoices == {"stop", "single", "stopAll", "restartAll"}

\* Every child can be rebuilt and none is stopping; an exhausted budget or a
\* passed deadline is the choice of "stopAll" instead.
Eligible == \A d \in Present : ~memberStopping[d]

\* ChildLifetime::failure_policy, after the user's decider has answered, up to
\* the point where a one-for-all restart has checked its cohort and goes on to
\* register it with the children lock held.
Decide(c, choice) ==
  /\ stage[c] = "deciding"
  /\ locked = NoChild
  /\ \/ /\ scopeClosed \/ RecoveryOf(c) # 0
        /\ plan' = [plan EXCEPT ![c] =
                      IF scopeClosed \/ memberStopping[c] THEN "stop" ELSE "cohort"]
        /\ stage' = [stage EXCEPT ![c] = "retiring"]
        /\ UNCHANGED scopeVars
     \/ /\ ~scopeClosed /\ RecoveryOf(c) = 0
        /\ choice \in {"stop", "single"} \/ groupActive
        /\ plan' = [plan EXCEPT ![c] =
                      IF choice = "single" /\ ~memberStopping[c] THEN "single" ELSE "stop"]
        /\ stage' = [stage EXCEPT ![c] = "retiring"]
        /\ UNCHANGED scopeVars
     \/ /\ ~scopeClosed /\ RecoveryOf(c) = 0 /\ ~groupActive
        /\ choice = "restartAll" /\ Eligible /\ LastEpoch < MaxEpochs
        /\ locked' = c
        /\ stage' = [stage EXCEPT ![c] = "registering"]
        /\ UNCHANGED <<plan, groupActive, groupOwner, siblings, scopeClosed>>
     \/ /\ ~scopeClosed /\ RecoveryOf(c) = 0 /\ ~groupActive
        /\ choice = "stopAll" \/ (choice = "restartAll" /\ ~Eligible)
        /\ plan' = [plan EXCEPT ![c] = "stop"]
        /\ stage' = [stage EXCEPT ![c] = "retiring"]
        /\ IF memberStopping[c]     \* its control is cancelled: the group is dropped
           THEN UNCHANGED <<groupActive, groupOwner, siblings>>
           ELSE /\ groupActive' = TRUE
                /\ groupOwner' = c
                /\ siblings' = Present \ {c}
        /\ UNCHANGED <<locked, scopeClosed>>
  /\ UNCHANGED <<memberStopping, assigned, started, born, asked, epochs, childFailures, stopCalls>>

\* Recovery::new for the present children.
NewEpoch ==
  [members |-> Present, next |-> [d \in Present |-> 0], finished |-> {},
   phase |-> 0, committed |-> FALSE, error |-> FALSE, progress |-> "phase",
   released |-> FALSE, calls |-> Present, publications |-> {}, live |-> {}]

\* The registration itself, paired with close by the active_recovery lock.
RegisterCohort(c) ==
  /\ stage[c] = "registering"
  /\ locked' = NoChild
  /\ IF scopeClosed
     THEN /\ plan' = [plan EXCEPT ![c] = "stop"]
          /\ stage' = [stage EXCEPT ![c] = "retiring"]
          /\ UNCHANGED <<assigned, epochs, groupActive>>
     ELSE /\ epochs' = Append(epochs, NewEpoch)
          /\ assigned' = [d \in Child |->
                            IF d \in Present THEN LastEpoch + 1 ELSE assigned[d]]
          /\ groupActive' = TRUE
          /\ stage' = [stage EXCEPT ![c] = "calling"]
          /\ UNCHANGED plan
  /\ UNCHANGED <<memberStopping, started, born, asked, groupOwner, siblings, scopeClosed,
                 childFailures, stopCalls>>

\* request_group_retirement for one member, called by the registering child
\* after it has let go of the children lock.
CallMember(c, m) ==
  LET e == assigned[c] IN
  /\ stage[c] = "calling"
  /\ m \in epochs[e].calls
  /\ LET called == [epochs EXCEPT ![e].calls = @ \ {m}] IN
     epochs' = IF stage[m] = "gone" \/ memberStopping[m] THEN Aborted(called, e) ELSE called
  /\ asked' = [asked EXCEPT ![m] = @ \/ (stage[m] = "up" /\ ~memberStopping[m])]
  /\ UNCHANGED <<stage, plan, memberStopping, assigned, started, born, scopeVars,
                 childFailures, stopCalls>>

\* Every member has been called; a control cancelled meanwhile means stop.
CallsDone(c) ==
  /\ stage[c] = "calling" /\ epochs[assigned[c]].calls = {}
  /\ plan' = [plan EXCEPT ![c] = IF memberStopping[c] THEN "stop" ELSE "cohort"]
  /\ stage' = [stage EXCEPT ![c] = "retiring"]
  /\ UNCHANGED <<memberStopping, assigned, started, born, asked, epochs, scopeVars,
                 childFailures, stopCalls>>

\* The owner gives up: an epoch the child still belongs to is aborted, a
\* replacement it had published is withdrawn, and disposal follows.
GiveUp(c) ==
  /\ stage' = [stage EXCEPT ![c] = "disposing"]
  /\ epochs' = [e \in DOMAIN epochs |->
                  IF e = RecoveryOf(c)
                  THEN [Aborted(epochs, e)[e] EXCEPT !.live = @ \ {c}]
                  ELSE epochs[e]]

\* The old generation is drained and disposed.  The owner of a FailureGroup
\* also waits for the siblings it stops.  A failed or late disposal gives up.
RetireGeneration(c) ==
  /\ stage[c] = "retiring"
  /\ groupOwner = c => siblings \cap Present = {}
  /\ \/ /\ plan[c] = "cohort"
        /\ stage' = [stage EXCEPT ![c] = "arrive0"]
        /\ UNCHANGED epochs
     \/ /\ plan[c] = "single"
        /\ stage' = [stage EXCEPT ![c] = "rebuilding"]
        /\ UNCHANGED epochs
     \/ GiveUp(c)
  /\ UNCHANGED <<plan, memberStopping, assigned, started, born, asked, scopeVars,
                 childFailures, stopCalls>>

Steps == <<"arrive0", "arrive1", "arrive2">>
Waits == <<"wait0", "wait1", "wait2">>

\* Recovery::arrive under the epoch's lock.  A late arrival aborts the epoch;
\* so does one out of its phase.  The last arrival of a phase opens it, the
\* last publication commits.
Arrive(c, s) ==
  LET e == assigned[c]
      next == [epochs[e].next EXCEPT ![c] = @ + 1]
      last == \A m \in epochs[e].members : next[m] > epochs[e].phase IN
  /\ stage[c] = Steps[s + 1]
  /\ \/ /\ epochs[e].error \/ epochs[e].phase # s \/ epochs[e].next[c] # s
        /\ GiveUp(c)
     \/ ~epochs[e].error /\ GiveUp(c)          \* past the deadline
     \/ /\ ~epochs[e].error /\ epochs[e].phase = s /\ epochs[e].next[c] = s
        /\ stage' = [stage EXCEPT ![c] = Waits[s + 1]]
        /\ epochs' = [epochs EXCEPT
             ![e].next = next,
             ![e].phase = IF last THEN @ + 1 ELSE @,
             ![e].committed = last /\ s = 2,
             ![e].publications = IF last /\ s = 2 THEN epochs[e].members ELSE @]
  /\ UNCHANGED <<plan, memberStopping, assigned, started, born, asked, scopeVars,
                 childFailures, stopCalls>>

\* A waiter sees the next phase, or the abort.  (The waiters of the last phase
\* are passed by the publications of the commit.)
PassBarrier(c, s) ==
  LET e == assigned[c] IN
  /\ stage[c] = Waits[s + 1]
  /\ \/ /\ epochs[e].error
        /\ stage' = [stage EXCEPT ![c] = "disposing"]
        /\ epochs' = [epochs EXCEPT ![e].live = @ \ {c}]
     \/ /\ ~epochs[e].error /\ s < 2 /\ epochs[e].phase > s
        /\ stage' = [stage EXCEPT ![c] = IF s = 0 THEN "preparing" ELSE "publishing"]
        /\ UNCHANGED epochs
  /\ UNCHANGED <<plan, memberStopping, assigned, started, born, asked, scopeVars,
                 childFailures, stopCalls>>

\* The deadline passes while some member is between two barriers.
ExpireEpoch(e) ==
  /\ ~epochs[e].committed /\ ~epochs[e].error
  /\ \E c \in epochs[e].members :
       stage[c] \in {"preparing", "publishing", "wait0", "wait1", "wait2"}
  /\ epochs' = Aborted(epochs, e)
  /\ UNCHANGED <<stage, plan, memberStopping, assigned, started, born, asked, scopeVars,
                 childFailures, stopCalls>>

\* The replacement's construction succeeds or fails.
PrepareMember(c) ==
  /\ stage[c] = "preparing"
  /\ \/ stage' = [stage EXCEPT ![c] = "arrive1"] /\ UNCHANGED epochs
     \/ GiveUp(c)
  /\ UNCHANGED <<plan, memberStopping, assigned, started, born, asked, scopeVars,
                 childFailures, stopCalls>>

\* spawn_at_internal for a cohort: the registry takes the replacement only
\* while the epoch is alive and the child is not stopping.
PublishMember(c) ==
  LET e == assigned[c] IN
  /\ stage[c] = "publishing"
  /\ \/ /\ ~epochs[e].error /\ ~memberStopping[c]
        /\ stage' = [stage EXCEPT ![c] = "arrive2"]
        /\ born' = [born EXCEPT ![c] = e]
        /\ started' = [started EXCEPT ![c] = FALSE]
        /\ epochs' = [epochs EXCEPT ![e].live = @ \cup {c}]
     \/ GiveUp(c) /\ UNCHANGED <<born, started>>
  /\ UNCHANGED <<plan, memberStopping, assigned, asked, scopeVars, childFailures, stopCalls>>

\* The publication closure of one member, run by the committing arrival.  A
\* stop that found the commit already made owns the replacement itself.
RunPublication(e, m) ==
  /\ m \in epochs[e].publications
  /\ epochs' = [epochs EXCEPT ![e].publications = @ \ {m}]
  /\ stage' = [stage EXCEPT ![m] =
                 IF @ # "wait2" THEN @ ELSE IF memberStopping[m] THEN "stopping" ELSE "up"]
  /\ UNCHANGED <<plan, memberStopping, assigned, started, born, asked, scopeVars,
                 childFailures, stopCalls>>

\* Faulty: an aborted epoch is released at once.
ReleaseCohortEarly(e) ==
  /\ ~epochs[e].released
  /\ (epochs[e].committed /\ epochs[e].publications = {}) \/ epochs[e].error
  /\ locked = NoChild
  /\ epochs' = [epochs EXCEPT ![e].released = TRUE]
  /\ assigned' = [c \in Child |-> IF assigned[c] = e THEN 0 ELSE assigned[c]]
  /\ groupActive' = FALSE
  /\ UNCHANGED <<stage, plan, memberStopping, started, born, asked, groupOwner, siblings,
                 locked, scopeClosed, childFailures, stopCalls>>

\* release clears the assignments and reopens admission: in the middle of a commit,
\* or when the last member of an aborted epoch has been disposed.
ReleaseCohort(e) ==
  /\ ~epochs[e].released
  /\ \/ epochs[e].committed /\ epochs[e].publications = {}
     \/ epochs[e].error /\ epochs[e].finished = epochs[e].members
  /\ locked = NoChild
  /\ epochs' = [epochs EXCEPT ![e].released = TRUE]
  /\ assigned' = [c \in Child |-> IF assigned[c] = e THEN 0 ELSE assigned[c]]
  /\ groupActive' = FALSE
  /\ UNCHANGED <<stage, plan, memberStopping, started, born, asked, groupOwner, siblings,
                 locked, scopeClosed, childFailures, stopCalls>>

\* The commit ends: the gate opens.
ActivateCohort(e) ==
  /\ epochs[e].committed /\ epochs[e].released /\ epochs[e].progress # "active"
  /\ epochs' = [epochs EXCEPT ![e].progress = "active"]
  /\ UNCHANGED <<stage, plan, memberStopping, assigned, started, born, asked, scopeVars,
                 childFailures, stopCalls>>

\* initialize_and_start: a replacement first waits for its epoch's activation.
InitializeChild(c) ==
  /\ stage[c] \in {"arrive2", "wait2", "up"} /\ ~started[c]
  /\ epochs[born[c]].progress = "active"
  /\ started' = [started EXCEPT ![c] = TRUE]
  /\ UNCHANGED <<stage, plan, memberStopping, assigned, born, asked, epochs, scopeVars,
                 childFailures, stopCalls>>

\* A restart of the one child: the registry refuses its replacement when the
\* child was stopped or has been drawn into an epoch meanwhile.
RebuildSingle(c) ==
  /\ stage[c] = "rebuilding"
  /\ \/ /\ RecoveryOf(c) = 0 /\ ~memberStopping[c]
        /\ stage' = [stage EXCEPT ![c] = "up"]
        /\ born' = [born EXCEPT ![c] = 0]
        /\ UNCHANGED epochs
     \/ GiveUp(c) /\ UNCHANGED born
  /\ UNCHANGED <<plan, memberStopping, assigned, started, asked, scopeVars, childFailures,
                 stopCalls>>

-----------------------------------------------------------------------------
\* request_stop_matching: cancel_recovery first; a stop that finds the epoch
\* committed, or the child running, owns the generation, any other leaves the
\* rest to the task that owns the transition.
StopEffect(c) ==
  /\ memberStopping' = [memberStopping EXCEPT ![c] = TRUE]
  /\ epochs' = Aborted(epochs, assigned[c])
  /\ stage' = [stage EXCEPT ![c] =
       IF @ = "up" \/ (@ = "wait2" /\ epochs[assigned[c]].committed) THEN "stopping" ELSE @]
  /\ asked' = [asked EXCEPT ![c] = FALSE]
  /\ UNCHANGED <<plan, assigned, started, born, scopeVars, childFailures>>

\* Somebody stops one child.
StopChild(c) ==
  /\ c \in Present /\ ~memberStopping[c] /\ stopCalls < MaxStopCalls
  /\ stopCalls' = stopCalls + 1
  /\ StopEffect(c)

\* The owner of a FailureGroup, or the join of a closed scope, stops a child.
StopOwned(c) ==
  /\ c \in Present /\ ~memberStopping[c]
  /\ \/ scopeClosed /\ locked = NoChild
     \/ c \in siblings /\ groupOwner # NoChild /\ stage[groupOwner] = "retiring"
  /\ StopEffect(c)
  /\ UNCHANGED stopCalls

\* ChildScope::close: paired with registration by the active_recovery lock,
\* it aborts the epoch registered last.
CloseChildren ==
  /\ ~scopeClosed
  /\ scopeClosed' = TRUE
  /\ epochs' = Aborted(epochs, LastEpoch)
  /\ UNCHANGED <<stage, plan, memberStopping, assigned, started, born, asked, groupActive,
                 groupOwner, siblings, locked, childFailures, stopCalls>>

\* Faulty: the epoch gets no receipt.
FinishChildSilent(c) ==
  /\ stage[c] \in {"disposing", "stopping"}
  /\ locked = NoChild
  /\ stage' = [stage EXCEPT ![c] = "gone"]
  /\ epochs' = Aborted(epochs, RecoveryOf(c))
  /\ UNCHANGED <<plan, memberStopping, assigned, started, born, asked, scopeVars,
                 childFailures, stopCalls>>

\* ChildLifetime::finish_actual: the child leaves the scope; an epoch it still
\* belongs to is aborted and gets this member's disposal receipt.
FinishChild(c) ==
  LET e == RecoveryOf(c) IN
  /\ stage[c] \in {"disposing", "stopping"}
  /\ locked = NoChild
  /\ stage' = [stage EXCEPT ![c] = "gone"]
  /\ epochs' = IF e = 0 THEN epochs
               ELSE [Aborted(epochs, e) EXCEPT ![e].finished = @ \cup {c}]
  /\ UNCHANGED <<plan, memberStopping, assigned, started, born, asked, scopeVars,
                 childFailures, stopCalls>>

\* Drop for FailureGroup, at the end of its owner's retirement.
DropGroup ==
  /\ groupOwner # NoChild /\ stage[groupOwner] = "gone"
  /\ groupOwner' = NoChild
  /\ siblings' = {}
  /\ groupActive' = FALSE
  /\ UNCHANGED <<stage, plan, memberStopping, assigned, started, born, asked, epochs,
                 locked, scopeClosed, childFailures, stopCalls>>

-----------------------------------------------------------------------------
\* What the task that owns the child's transition does next.
OwnerStep(c) ==
  \/ RetireAsked(c) \/ RegisterCohort(c) \/ CallsDone(c) \/ RetireGeneration(c)
  \/ \E choice \in RecoveryChoices : Decide(c, choice)
  \/ \E m \in Child : CallMember(c, m)
  \/ \E s \in 0..2 : Arrive(c, s) \/ PassBarrier(c, s)
  \/ PrepareMember(c) \/ PublishMember(c) \/ RebuildSingle(c)
  \/ InitializeChild(c) \/ FinishChild(c)

CommitStep(e) ==
  \/ \E m \in Child : RunPublication(e, m)
  \/ ReleaseCohort(e) \/ ActivateCohort(e)

CohortNext ==
  \/ \E c \in Child : SpawnChild(c) \/ FailChild(c) \/ StopChild(c) \/ StopOwned(c)
  \/ \E c \in Child : OwnerStep(c)
  \/ \E e \in DOMAIN epochs : CommitStep(e) \/ ExpireEpoch(e)
  \/ CloseChildren \/ DropGroup

\* Every spawned task keeps running; user code returns.
CohortFairness ==
  /\ \A c \in Child :
       WF_<<stage, started, epochs>>(OwnerStep(c)) /\ WF_memberStopping(StopOwned(c))
  /\ \A e \in 1..MaxEpochs : WF_epochs(e \in DOMAIN epochs /\ CommitStep(e))
  /\ WF_groupOwner(DropGroup)

CohortSpec == CohortInit /\ [][CohortNext]_cohortVars /\ CohortFairness
-----------------------------------------------------------------------------
(* Properties *)

\* "Scheduling alone never permits a member to execute before every sibling has
\* published": a replacement runs only if its epoch holds one of every member and
\* was not aborted, whatever stops, expires or closes between the three barriers
\* (Recovery::arrive, activation, abort).
AllOrNone ==
  \A c \in Child : \A e \in DOMAIN epochs :
    (stage[c] \notin {"gone", "disposing"} /\ born[c] = e /\ started[c]) =>
      epochs[e].live = epochs[e].members /\ ~epochs[e].error

\* "Abort never proves disposal": new children are refused exactly while one
\* cohort operation is under way, and one at a time is; until an aborted epoch has
\* the receipt of every member, the scope has no other child (retired_after_abort,
\* ChildScope::spawn, Drop for FailureGroup).
AdmissionExact ==
  LET open == {e \in DOMAIN epochs : ~epochs[e].released} IN
  /\ groupActive <=> (open # {} \/ groupOwner # NoChild)
  /\ open # {} => groupOwner = NoChild
  /\ \A e \in open : e = LastEpoch
  /\ \A e \in DOMAIN epochs :
       LET undisposed == epochs[e].members \ epochs[e].finished IN
       ~epochs[e].committed /\ undisposed # {} => groupActive /\ Present \subseteq undisposed

\* Every cohort operation ends, so that the scope admits children again, and a
\* child that was told to stop goes, even when the epoch it is in commits at the
\* same time ("a stop racing after the commit vote must still own the new
\* generation") and when children wait for each other.
CohortEnds ==
  /\ []<>~groupActive
  /\ \A c \in Child : []<>(memberStopping[c] => stage[c] = "gone")
=============================================================================
