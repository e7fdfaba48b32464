---------------------------- MODULE DurableRaft ----------------------------
(***************************************************************************)
(* DurableRaft (crates/parrot-remote/src/raft/storage.rs), the disk-backed *)
(* owner of a core on every member.                                        *)
(*                                                                         *)
(* The owner calls one method of the core and then finish, which publishes *)
(* the persistent fields and only then lets the queued RPCs and the newly  *)
(* committed entries escape.  The pair is one step here, with every        *)
(* outcome of the publication.  What becomes of the escaping RPCs is left  *)
(* to the modules that extend this one.                                    *)
(***************************************************************************)
EXTENDS RaftCore

CONSTANT MaxFaults  \* bound on crashes and failed publications together

ASSUME FaultsNat == MaxFaults \in Nat

VARIABLES
    node,   \* node[i]: the core of the owner running on i
    up,     \* up[i]: the owner is open (neither failed nor crashed)
    disk,   \* disk[i]: the raft.state snapshot a reopening owner would load
    faults  \* crashes and failed publications so far

ownerVars == <<node, up, disk, faults>>

\* validate: what a snapshot must satisfy to be published or loaded.
ValidSnapshot(s) ==
    /\ Len(s.log) <= MaxLog
    /\ s.commit <= Len(s.log)
    /\ s.term = 0 => s.vote = None
    /\ \A k \in DOMAIN s.log :
          /\ s.log[k].term # 0
          /\ s.log[k].term <= s.term
          /\ k > 1 => s.log[k-1].term <= s.log[k].term

\* open on an existing snapshot: volatile fields are fresh and the whole
\* committed prefix is handed to a fresh state machine.
Recovered(s) ==
    [NewCore EXCEPT !.term = s.term, !.vote = s.vote, !.log = s.log,
                    !.commit = s.commit, !.applied = SubSeq(s.log, 1, s.commit)]

\* finish after a method returned r, when the publication succeeds (or there
\* is nothing new to publish).
Published(i, r) ==
    /\ ValidSnapshot(Snapshot(r.n))
    /\ node' = [node EXCEPT ![i] = r.n]
    /\ disk' = [disk EXCEPT ![i] = Snapshot(r.n)]
    /\ UNCHANGED <<up, faults>>

\* finish when validation or the publication fails, or the process dies in
\* it: the owner is closed, nothing escapes, and of a valid snapshot the
\* rename may or may not have taken effect.
PublishFailed(i, r) ==
    LET s == Snapshot(r.n)
    IN  /\ s # disk[i]
        /\ ValidSnapshot(s) => faults < MaxFaults
        /\ faults' = faults + 1
        /\ \E d \in {disk[i]} \cup {t \in {s} : ValidSnapshot(t)} :
              disk' = [disk EXCEPT ![i] = d]
        /\ node' = [node EXCEPT ![i] = NewCore]
        /\ up' = [up EXCEPT ![i] = FALSE]

\* The process dies between two calls.
Crash(i) ==
    /\ up[i] /\ faults < MaxFaults
    /\ faults' = faults + 1
    /\ up' = [up EXCEPT ![i] = FALSE]
    /\ node' = [node EXCEPT ![i] = NewCore]
    /\ UNCHANGED disk

\* A new owner opens the directory.
Reopen(i) ==
    /\ ~up[i]
    /\ ValidSnapshot(disk[i])
    /\ up' = [up EXCEPT ![i] = TRUE]
    /\ node' = [node EXCEPT ![i] = Recovered(disk[i])]
    /\ UNCHANGED <<disk, faults>>

-----------------------------------------------------------------------------
(* The calls an open owner admits, as guards *)

\* propose: refused on a full log and on a member that does not lead.
MayPropose(i) ==
    /\ up[i]
    /\ node[i].role = Leader
    /\ LastIndex(node[i]) < MaxLog

\* step: a malformed RPC, and an append that would not fit the log's capacity,
\* are refused before the core sees them.
MayStep(i, m) ==
    /\ up[i]
    /\ ValidShape(m)
    /\ m.type = "AppendEntries" /\ m.term >= node[i].term /\ AppendFits(node[i], m)
          => Len(AppendedLog(node[i], m)) <= MaxLog

\* Every member's first open, on an empty directory.
OwnersInit ==
    /\ node = [i \in Server |-> NewCore]
    /\ up = [i \in Server |-> TRUE]
    /\ disk = [i \in Server |-> Snapshot(NewCore)]
    /\ faults = 0

-----------------------------------------------------------------------------
(* What the owners keep, however their RPCs travel *)

IsLeader(i) == up[i] /\ node[i].role = Leader

\* A member's durable term never goes back and its vote in a term never
\* changes once cast (observe_term, start_election, step_request_vote, open).
TermsAdvance ==
    [][\A i \in Server :
          /\ disk[i].term <= disk'[i].term
          /\ disk[i].term = disk'[i].term /\ disk[i].vote # None
                => disk'[i].vote = disk[i].vote]_ownerVars

Committed(i) == Prefix(disk[i].log, disk[i].commit)

\* Logs that agree on the term at an index agree up to that index, on disk,
\* through truncations, partial batches and restarts (step_append, append_plan).
LogMatching ==
    \A i, j \in Server :
        \A k \in DOMAIN disk[i].log \cap DOMAIN disk[j].log :
            disk[i].log[k].term = disk[j].log[k].term
                => Prefix(disk[i].log, k) = Prefix(disk[j].log, k)

\* No two members commit different entries at an index
\* (advance_commit, step_append).
CommitsAgree ==
    \A i, j \in Server :
        \A k \in 1..Smaller(disk[i].commit, disk[j].commit) :
            disk[i].log[k] = disk[j].log[k]

\* What a member committed stays committed and unchanged, across failed
\* publications and reopens too (append_plan, finish, open).
CommitsStay ==
    [][\A i \in Server :
          /\ disk[i].commit <= disk'[i].commit
          /\ Committed(i) = Prefix(disk'[i].log, disk[i].commit)]_ownerVars

\* A leader holds every entry committed by a member of its own or an earlier
\* term (the up-to-date check of step_request_vote, the current-term check of
\* advance_commit).
LeaderCompleteness ==
    \A i, j \in Server :
        IsLeader(i) /\ disk[j].term <= node[i].term =>
            /\ disk[j].commit <= LastIndex(node[i])
            /\ Prefix(node[i].log, disk[j].commit) = Committed(j)

\* The logs of a group agree: where they have the same term, on what is committed,
\* and with every leader on what any member committed before, through truncations,
\* lost and partial batches and restarts (append_plan, advance_commit, up_to_date).
LogsAgree == LogMatching /\ CommitsAgree /\ LeaderCompleteness

\* What a leader counts toward a commit is on the follower's disk: the match
\* index it keeps for a follower of its term never exceeds the common prefix,
\* whatever stale answers arrive (step_append_resp, sent_upper).
MatchIsHeld ==
    \A i, j \in Server :
        IsLeader(i) /\ i # j /\ disk[j].term = node[i].term =>
            LET k == node[i].match[j]
            IN  k <= Len(disk[j].log) /\ Prefix(disk[j].log, k) = Prefix(node[i].log, k)

\* The state machine gets each committed entry once and in order, and every
\* index used to slice the log is inside it (send_append, advance_commit and
\* step_append would panic otherwise).
AppliedInOrder ==
    \A i \in Server : up[i] =>
        LET n == node[i]
        IN  /\ Snapshot(n) = disk[i]
            /\ n.commit <= Len(n.log)
            /\ n.applied = Prefix(n.log, n.commit)
            /\ n.role = Leader =>
                  \A p \in Peers(i) : n.match[p] < n.next[p] /\ n.next[p] <= Len(n.log) + 1
=============================================================================
