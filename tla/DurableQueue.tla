----------------------------- MODULE DurableQueue ----------------------------
(***************************************************************************)
(* What durable delivery promises: one queue that only grows, applied in   *)
(* order and each element once, with every confirmed submission at the     *)
(* place its caller was told.                                              *)
(***************************************************************************)
EXTENDS Integers, SequencesExt

CONSTANTS Caller,       \* the calls that submit
          Submission    \* what each of them submits

VARIABLES log,      \* what will be applied, in order
          applied,  \* how many of them are
          told      \* the place each caller was told, or 0

QueueInit == log = <<>> /\ applied = 0 /\ told = [c \in Caller |-> 0]

\* Submissions take the next places, several at once when they share a sync.
\* A caller learns a place only if it holds what that caller submitted.
Submit ==
    /\ IsPrefix(log, log')
    /\ \A c \in Caller : told'[c] # told[c] =>
         /\ told[c] = 0
         /\ told'[c] \in DOMAIN log'
         /\ log'[told'[c]] = Submission[c]
    /\ UNCHANGED applied

ApplyNext ==
    /\ applied < Len(log)
    /\ applied' = applied + 1
    /\ UNCHANGED <<log, told>>

QueueSpec == QueueInit /\ [][Submit \/ ApplyNext]_<<log, applied, told>>
=============================================================================
