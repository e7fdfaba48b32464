---------------------------- MODULE MCSharedPool ----------------------------
(***************************************************************************)
(* Small instances of SharedPool.  A behaviour has some mailboxes that get *)
(* messages, or more of them that are only scheduled and descheduled, so   *)
(* that several wait for room in the ready queue at a time.                *)
(***************************************************************************)
EXTENDS SharedPool

CONSTANT Extra      \* mailboxes left out of the behaviours with messages

VARIABLE quiet      \* mailboxes are only scheduled, for the whole behaviour

Interchangeable ==
    Permutations(Mailbox \ Extra) \cup Permutations(Extra) \cup Permutations(Producer)
        \cup Permutations(Job)

TurnsInit == quiet \in BOOLEAN /\ PoolInit

TurnsNext ==
    /\ PoolNext
    /\ IF quiet THEN pushes' = 0 /\ sealed' = {} /\ ~stopping'
                ELSE \A m \in Extra : m \notin queue'.registered \cup sealed' /\ Held(m)' = 0
    /\ UNCHANGED quiet

TurnsSpec == TurnsInit /\ [][TurnsNext]_<<vars, quiet>>
=============================================================================
