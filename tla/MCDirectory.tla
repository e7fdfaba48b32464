---------------------------- MODULE MCDirectory -----------------------------
(***************************************************************************)
(* Small instances of Directory.  A run starts at a state the operators of *)
(* RaftCore compute from the first open of an empty group along a fixed    *)
(* script with every RPC since lost, so that the bounds are spent on what  *)
(* happens next.                                                           *)
(***************************************************************************)
EXTENDS Directory, TLC

CONSTANTS n1, n2, n3, r1, r2, d, e1, e2
CONSTANT MaxFlight  \* RPCs in the transport at a time, in all links together

Fresh == [i \in Server |-> NewCore]

Ticked(s, i) == [s EXCEPT ![i] = Tick(s[i], i).n]

Delivered(s, m) == [s EXCEPT ![m.to] = Step(s[m.to], m.to, m).n]

Proposed(s, i, c) == [s EXCEPT ![i] = Propose(s[i], i, c).n]

\* i stands and wins with the vote of v.
Elected(s, i, v) ==
    LET stood == Ticked(s, i)
        voted == Delivered(stood, RequestVote(i, v, stood[i]))
    IN  Delivered(voted, RequestVoteResp(v, i, voted[v], TRUE))

\* All owners open at s, with this many of the faults already behind them.
StartAt(s, spent) ==
    /\ node = s
    /\ disk = [i \in Server |-> Snapshot(s[i])]
    /\ up = [i \in Server |-> TRUE]
    /\ faults = spent
    /\ flight = {}
    /\ reads = {} /\ answers = {} /\ served = {} /\ learned = 0

\* n1 leads term 1; n3 has heard nothing yet.
FirstLeader == Elected(Fresh, n1, n2)

\* n1 appended r1 in term 1 and n3, elected in term 2 by n2, another command
\* under the same identity: nothing of either reached another log.
Rivals ==
    LET first == Proposed(FirstLeader, n1, Request(r1, Upsert(d, e1)))
    IN  Proposed(Elected(Ticked(first, n3), n3, n2), n3, Request(r1, Upsert(d, e2)))

\* n1 heard of term 2, was then elected in term 3 by n2 and is about to
\* replicate r1, an entry of term 1 that the log of n3 would replace.
Returned ==
    LET deposed == Delivered(Rivals, RequestVote(n3, n1, Ticked(Ticked(Fresh, n3), n3)[n3]))
    IN  Elected(deposed, n1, n2)

\* As Returned, after n3 refused its vote to n1 and took over term 3 from it.
Refused == Delivered(Returned, RequestVote(n1, n3, Returned[n1]))

\* n1 leads term t, and all know it.
Leads(s, t) ==
    LET won == Elected([s EXCEPT ![n1].term = t - 1], n1, n2)
    IN  Delivered(Delivered(won, AppendEntries(n1, n2, won[n1])),
                  AppendEntries(n1, n3, won[n1]))

\* n1 leads term 3 and r1 is in its log and in that of n2; n1 has not yet heard
\* that n2 took it.
Replicated ==
    LET asked == Proposed(Leads(Fresh, 3), n1, Request(r1, Upsert(d, e1)))
    IN  Delivered(asked, AppendEntries(n1, n2, asked[n1]))

Bounded(ops, plain) == DirNext(ops, plain) /\ Cardinality(flight') <= MaxFlight

DirectoryInit ==
    \/ StartAt(Replicated, MaxFaults)
    \/ StartAt(Refused, MaxFaults)
    \/ StartAt(Leads(Fresh, MaxTerm), 0)

DirectorySpec ==
    DirectoryInit /\ [][Bounded({Upsert(d, e1), Upsert(d, e2)}, {})]_dirVars

FairSpec ==
    /\ StartAt(Refused, MaxFaults)
    /\ [][Bounded({Upsert(d, e1)}, {Remove(d)})]_dirVars
    /\ DirFairness(r1, Upsert(d, e1))

\* n1, in term 3, gets the request of term 1 applied over the entry that the
\* log of n3 holds in its place (submit_request, send_append, step_append_resp).
OldRequestApplies == RetryApplies(n1, r1, Upsert(d, e1))
=============================================================================
