-------------------------------- MODULE Dedup --------------------------------
(***************************************************************************)
(* The bounded deduplication table of one receiver (DedupTable,            *)
(* crates/parrot-remote/src/durable/dedup.rs): per sender a contiguous     *)
(* watermark and the completed sequences above it.  A permit borrows the   *)
(* table while the business runs, so permits do not overlap.               *)
(***************************************************************************)
EXTENDS Naturals, FiniteSets

CONSTANTS
    Sender,
    MaxSeq,     \* the largest sequence, u64::MAX in the code
    Fits(_)     \* a set of senders within max_senders and max_sender_bytes

CONSTANT MaxPending     \* max_pending_sequences

ASSUME DedupBounds == MaxSeq \in Nat /\ MaxPending \in Nat \ {0}

VARIABLES
    known,      \* the senders in the table
    watermark,  \* watermark[s]: everything up to it is completed
    gaps,       \* gaps[s]: completed sequences above it
    pending,    \* pending_sequences: the gaps of all senders
    permit,     \* the reservation under way, or NoPermit
    handled     \* history: the sequences of s whose business succeeded

dedupVars == <<known, watermark, gaps, pending, permit, handled>>

NoPermit == <<>>

Duplicate(s, q) == q <= watermark[s] \/ q \in gaps[s]

\* begin: capacity is reserved before the business runs.  A duplicate or a
\* refusal changes nothing.
BeginPermit(s, q) ==
    /\ permit = NoPermit /\ ~Duplicate(s, q)
    /\ s \notin known => Fits(known \cup {s})
    /\ q # watermark[s] + 1 => pending < MaxPending
    /\ permit' = <<s, q>>
    /\ UNCHANGED <<known, watermark, gaps, pending, handled>>

\* Dropping a permit, after an error or a panic, marks nothing.
DropPermit ==
    /\ permit # NoPermit
    /\ permit' = NoPermit
    /\ UNCHANGED <<known, watermark, gaps, pending, handled>>

\* Faulty: the watermark jumps to the highest gap.
FillToHighest(s, q) ==
    \E w \in {q} \cup gaps[s] :
        /\ w >= q /\ \A g \in gaps[s] : g <= w
        /\ watermark' = [watermark EXCEPT ![s] = w]
        /\ gaps' = [gaps EXCEPT ![s] = {}]
        /\ pending' = pending - (w - q)

\* The next contiguous sequence advances the watermark over the gaps that
\* follow it.
Fill(s, q) ==
    \E w \in {q} \cup gaps[s] :
        /\ (q + 1)..w \subseteq gaps[s] /\ w >= q /\ w + 1 \notin gaps[s]
        /\ watermark' = [watermark EXCEPT ![s] = w]
        /\ gaps' = [gaps EXCEPT ![s] = @ \ ((q + 1)..w)]
        /\ pending' = pending - (w - q)

\* commit
CommitPermit(s, q) ==
    /\ permit = <<s, q>>
    /\ known' = known \cup {s}
    /\ IF q = watermark[s] + 1
       THEN Fill(s, q)
       ELSE /\ gaps' = [gaps EXCEPT ![s] = @ \cup {q}]
            /\ pending' = pending + 1
            /\ UNCHANGED watermark
    /\ permit' = NoPermit
    /\ handled' = [handled EXCEPT ![s] = @ \cup {q}]

-----------------------------------------------------------------------------
DedupInit ==
    /\ known = {} /\ pending = 0 /\ permit = NoPermit
    /\ watermark = [s \in Sender |-> 0]
    /\ gaps = [s \in Sender |-> {}] /\ handled = [s \in Sender |-> {}]

DedupNext ==
    \/ DropPermit
    \/ \E s \in Sender, q \in 1..MaxSeq : BeginPermit(s, q) \/ CommitPermit(s, q)

DedupSpec == DedupInit /\ [][DedupNext]_dedupVars

-----------------------------------------------------------------------------
(* Properties *)

\* The type invariant; the watermark is maximal.
DedupTypeOK ==
    /\ known \subseteq Sender
    /\ watermark \in [Sender -> 0..MaxSeq]
    /\ gaps \in [Sender -> SUBSET (1..MaxSeq)]
    /\ permit \in {NoPermit} \cup (Sender \X (1..MaxSeq))
    /\ handled \in [Sender -> SUBSET (1..MaxSeq)]
    /\ \A s \in Sender : \A g \in gaps[s] : g > watermark[s] + 1
    /\ \A s \in Sender \ known : watermark[s] = 0 /\ gaps[s] = {}

\* The watermark and the gaps say exactly what was handled, in whatever order
\* it was, and however the watermark has run over the gaps (commit): nothing
\* handled is forgotten and nothing else is taken for a duplicate.
RemembersHandled ==
    \A s \in Sender : handled[s] = (1..watermark[s]) \cup gaps[s]

Pending == {p \in Sender \X (1..MaxSeq) : p[2] \in gaps[p[1]]}

\* The budget counts exactly the gaps that exist and is never exceeded: filling
\* a gap gives its place back, however many it fills at once (begin, commit).
BudgetExact ==
    /\ pending = Cardinality(Pending) /\ pending <= MaxPending
    /\ \A s \in Sender, q \in 1..MaxSeq :
          permit = <<s, q>> /\ q # watermark[s] + 1 => pending < MaxPending

\* "Never evicts completed history": a permit is never given for what was
\* handled before, so a replay at any later time has no effect (begin).
HandledOnce ==
    [][permit' # permit /\ permit' # NoPermit => permit'[2] \notin handled[permit'[1]]]_dedupVars
==============================================================================
