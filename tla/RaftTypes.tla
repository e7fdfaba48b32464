----------------------------- MODULE RaftTypes -----------------------------
(***************************************************************************)
(* What a Raft group is made of: its constants, the fields of a core       *)
(* (RaftNode, crates/parrot-remote/src/raft/mod.rs), of a snapshot         *)
(* (raft/storage.rs) and of the RPCs, and what can be read off them.       *)
(***************************************************************************)
EXTENDS Integers, Sequences, FiniteSets

CONSTANTS
    Server,     \* the fixed member set of the group
    Cmd,        \* commands a host proposes
    None,       \* Option::None of voted_for and leader_hint
    MaxTerm,    \* the last term, u64::MAX in the code (checked_add stops there)
    MaxLog,     \* MAX_ENTRIES, the capacity of a member's log
    MaxBatch    \* entries one AppendEntries carries (1024 entries / 3 MiB)

ASSUME RaftConstants ==
    /\ IsFiniteSet(Server)
    /\ None \notin Server
    /\ MaxTerm \in Nat /\ MaxLog \in Nat
    /\ MaxBatch \in Nat \ {0}

Follower  == "Follower"
Candidate == "Candidate"
Leader    == "Leader"

-----------------------------------------------------------------------------
(* Reading a core *)

Peers(i) == Server \ {i}

TermAt(log, k) == IF k = 0 THEN 0 ELSE log[k].term

LastIndex(n) == Len(n.log)

LastTerm(n) == TermAt(n.log, Len(n.log))

Smaller(a, b) == IF a < b THEN a ELSE b

Larger(a, b) == IF a > b THEN a ELSE b

\* A strict majority of the members, also when their number is even.
QuorumSize == Cardinality(Server) \div 2 + 1

\* Members known to hold the leader's log up to index k.
Holding(n, i, k) ==
    {p \in Server : IF p = i THEN LastIndex(n) >= k
                             ELSE Smaller(n.match[p], LastIndex(n)) >= k}

\* The persistent fields, as published to raft.state.
Snapshot(n) == [term |-> n.term, vote |-> n.vote, log |-> n.log, commit |-> n.commit]

Prefix(s, k) == SubSeq(s, 1, k)

-----------------------------------------------------------------------------
(* Types *)

Term == 0..MaxTerm

Entry == [term : Term, cmd : Cmd]

Core ==
    [term : Term, vote : Server \cup {None}, log : Seq(Entry), commit : Nat,
     applied : Seq(Entry), role : {Follower, Candidate, Leader},
     hint : Server \cup {None}, votes : SUBSET Server,
     next : [Server -> Nat], match : [Server -> Nat], sent : [Server -> Nat]]

Saved == [term : Term, vote : Server \cup {None}, log : Seq(Entry), commit : Nat]

VoteRequests ==
    [type : {"RequestVote"}, from : Server, to : Server, term : Term,
     lastIndex : Nat, lastTerm : Term]

VoteReplies ==
    [type : {"RequestVoteResp"}, from : Server, to : Server, term : Term,
     granted : BOOLEAN]

AppendRequests ==
    [type : {"AppendEntries"}, from : Server, to : Server, term : Term,
     prevIndex : Nat, prevTerm : Term, entries : Seq(Entry), commit : Nat]

AppendReplies ==
    [type : {"AppendEntriesResp"}, from : Server, to : Server, term : Term,
     success : BOOLEAN, match : Nat]

Message == VoteRequests \cup VoteReplies \cup AppendRequests \cup AppendReplies

IsVote(m) == m.type = "RequestVoteResp" /\ m.granted

IsAppend(m) == m.type = "AppendEntries"

\* What one core keeps by itself: types, the committed prefix as the applied
\* sequence, and on a leader a quorum of votes and next indexes inside the log.
CoreInv(n) ==
    /\ n \in Core
    /\ n.commit <= Len(n.log)
    /\ n.applied = Prefix(n.log, n.commit)
    /\ n.role = Leader =>
          /\ Cardinality(n.votes) >= QuorumSize
          /\ \A p \in Server : n.match[p] < n.next[p] /\ n.next[p] <= Len(n.log) + 1
=============================================================================
