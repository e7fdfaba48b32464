----------------------------- MODULE WireMirror -----------------------------
(***************************************************************************)
(* Mirror policies of a node (crates/parrot-remote/src/mirror.rs) for one  *)
(* source: the registry names the current entry, and every entry it ever   *)
(* had is a generation with a queue, a worker and the encoders that copy   *)
(* messages into it.  Encoders run without a lock, a worker may be dropped *)
(* at any moment, and an entry is closed when both are done.  A step is    *)
(* one critical section of the registry or of an entry's admission lock.   *)
(***************************************************************************)
EXTENDS Naturals, FiniteSets

CONSTANTS
    Copier,         \* threads that offer messages
    MaxEntries,     \* bound on the entries ever made
    Workers,        \* the worker permits of the registry, 64 in the code
    Slots,          \* the capacity of an entry
    MaxOffers       \* bound on the messages offered

ASSUME MirrorBounds == IsFiniteSet(Copier) /\ MaxEntries \in Nat

Gen == 1..MaxEntries

NoGen == 0

VARIABLES
    registry,       \* whether it is open, and the current entry
    entriesMade,    \* the number of entries made
    entry,          \* entry[g]: see NewEntry
    copying,        \* copying[c]: the entry c encodes for, and where c is
    finishing,      \* entries whose permit was taken and that are not yet announced
    offers          \* the number of messages offered

mirrorVars == <<registry, entriesMade, entry, copying, finishing, offers>>

\* Entry and its Worker: the jobs queued, the one the worker has, the encoders and
\* the permit of Admission, whether the worker is about to finish, the cancel token,
\* the closed receipt, and the counters of jobs taken in and of jobs that ended.
NewEntry ==
    [queued |-> 0, active |-> FALSE, encoders |-> 0, workerDone |-> FALSE, permit |-> TRUE,
     finish |-> FALSE, cancelled |-> FALSE, closed |-> FALSE, enqueued |-> 0, ended |-> 0]

NoCopy == [gen |-> NoGen, at |-> "idle"]

Entries == 1..entriesMade

Encoding(g) == {c \in Copier : copying[c].gen = g /\ copying[c].at = "encode"}

\* The slots taken: by jobs, and by encoders that have not yet let theirs go.
Taken(g) ==
    entry[g].queued + (IF entry[g].active THEN 1 ELSE 0) + Cardinality(Encoding(g))

Permits == Workers - Cardinality({g \in Entries : ~entry[g].closed})

Cancels(f, g) == IF g = NoGen THEN f ELSE [f EXCEPT ![g].cancelled = TRUE]

-----------------------------------------------------------------------------
(* The registry *)

\* register: a new entry takes the place of the current one, which is cancelled.
Register ==
    /\ registry.open /\ entriesMade < MaxEntries /\ Permits > 0
    /\ entriesMade' = entriesMade + 1
    /\ entry' = [Cancels(entry, registry.current) EXCEPT ![entriesMade + 1] = NewEntry]
    /\ registry' = [registry EXCEPT !.current = entriesMade + 1]
    /\ UNCHANGED <<copying, finishing, offers>>

\* replace_group: only a group whose entry is still the current one.
ReplaceGroup(g) ==
    /\ registry.open /\ entriesMade < MaxEntries /\ Permits > 0
    /\ registry.current = g /\ (g # NoGen => ~entry[g].closed)
    /\ entriesMade' = entriesMade + 1
    /\ entry' = [Cancels(entry, g) EXCEPT ![entriesMade + 1] = NewEntry]
    /\ registry' = [registry EXCEPT !.current = entriesMade + 1]
    /\ UNCHANGED <<copying, finishing, offers>>

\* WireMirrorGroup::cancel, also from its drop.
CancelGroup(g) ==
    /\ entry' = Cancels(entry, g)
    /\ registry' = [registry EXCEPT !.current = IF @ = g THEN NoGen ELSE @]
    /\ UNCHANGED <<entriesMade, copying, finishing, offers>>

\* WireMirrorHandle::close leaves the policy registered.
CloseHandle(g) ==
    /\ ~entry[g].cancelled
    /\ entry' = Cancels(entry, g)
    /\ UNCHANGED <<registry, entriesMade, copying, finishing, offers>>

\* close of the registry.
CloseRegistry ==
    /\ registry.open
    /\ registry' = [open |-> FALSE, current |-> NoGen]
    /\ entry' = Cancels(entry, registry.current)
    /\ UNCHANGED <<entriesMade, copying, finishing, offers>>

-----------------------------------------------------------------------------
(* Offers *)

Offers == offers < MaxOffers /\ offers' = offers + 1

\* offer, of an encoded message, to the current entry.
Offer ==
    /\ Offers
    /\ LET g == registry.current IN
        /\ registry.open /\ g # NoGen
        /\ ~entry[g].cancelled /\ Taken(g) < Slots
        /\ entry' = [entry EXCEPT ![g].queued = @ + 1, ![g].enqueued = @ + 1]
    /\ UNCHANGED <<registry, entriesMade, copying, finishing>>

\* offer_local, through the handle of any entry: a slot first,
OfferLocal(c, g) ==
    /\ Offers /\ copying[c] = NoCopy
    /\ ~entry[g].cancelled /\ Taken(g) < Slots
    /\ copying' = [copying EXCEPT ![c] = [gen |-> g, at |-> "encode"]]
    /\ entry' = [entry EXCEPT ![g].encoders = @ + 1]
    /\ UNCHANGED <<registry, entriesMade, finishing>>

\* Faulty: the encoder does not look at the cancellation again.
AdmitCopyBlind(c) ==
    LET g == copying[c].gen IN
    /\ copying[c].at = "encode"
    /\ copying' = [copying EXCEPT ![c].at = "encoded"]
    /\ entry' = [entry EXCEPT ![g].queued = @ + 1, ![g].enqueued = @ + 1]
    /\ UNCHANGED <<registry, entriesMade, finishing, offers>>

\* then the message is encoded and queued, unless the entry was cancelled,
AdmitCopy(c) ==
    LET g == copying[c].gen IN
    /\ copying[c].at = "encode" /\ ~entry[g].cancelled
    /\ copying' = [copying EXCEPT ![c].at = "encoded"]
    /\ entry' = [entry EXCEPT ![g].queued = @ + 1, ![g].enqueued = @ + 1]
    /\ UNCHANGED <<registry, entriesMade, finishing, offers>>

\* or the copy fails, is too large or comes too late, and its slot is let go.
DropCopy(c) ==
    /\ copying[c].at = "encode"
    /\ copying' = [copying EXCEPT ![c].at = "encoded"]
    /\ UNCHANGED <<registry, entriesMade, entry, finishing, offers>>

\* The encoder is counted out,
EncoderLeaves(c) ==
    /\ copying[c].at = "encoded"
    /\ copying' = [copying EXCEPT ![c].at = "finish"]
    /\ entry' = [entry EXCEPT ![copying[c].gen].encoders = @ - 1]
    /\ UNCHANGED <<registry, entriesMade, finishing, offers>>

\* finish: whoever comes last takes the permit.
Retirable(g) == entry[g].permit /\ entry[g].workerDone /\ entry[g].encoders = 0

FinishEntry(f, g) ==
    /\ entry' = IF Retirable(g) THEN [f EXCEPT ![g].permit = FALSE] ELSE f
    /\ finishing' = IF Retirable(g) THEN finishing \cup {g} ELSE finishing

\* Faulty: only the worker closes its entry.
EncoderFinishSilent(c) ==
    /\ copying[c].at = "finish"
    /\ copying' = [copying EXCEPT ![c] = NoCopy]
    /\ UNCHANGED <<registry, entriesMade, entry, finishing, offers>>

EncoderFinish(c) ==
    /\ copying[c].at = "finish"
    /\ FinishEntry(entry, copying[c].gen)
    /\ copying' = [copying EXCEPT ![c] = NoCopy]
    /\ UNCHANGED <<registry, entriesMade, offers>>

-----------------------------------------------------------------------------
(* The worker of an entry *)

\* It receives a job; the cancellation comes first.
Receive(g) ==
    /\ ~entry[g].workerDone /\ ~entry[g].active /\ ~entry[g].cancelled /\ entry[g].queued > 0
    /\ entry' = [entry EXCEPT ![g].queued = @ - 1, ![g].active = TRUE]
    /\ UNCHANGED <<registry, entriesMade, copying, finishing, offers>>

\* The job is delivered, fails, times out or is cancelled.
Settle(g) ==
    /\ entry[g].active
    /\ entry' = [entry EXCEPT ![g].active = FALSE, ![g].ended = @ + 1]
    /\ UNCHANGED <<registry, entriesMade, copying, finishing, offers>>

\* Its drop, after its loop has ended or with the runtime: what is left counts as
\* cancelled,
WorkerDrop(g) ==
    /\ ~entry[g].workerDone
    /\ entry' = [entry EXCEPT ![g].cancelled = TRUE, ![g].workerDone = TRUE, ![g].finish = TRUE,
                              ![g].active = FALSE, ![g].queued = 0,
                              ![g].ended = @ + entry[g].queued + (IF entry[g].active THEN 1 ELSE 0)]
    /\ UNCHANGED <<registry, entriesMade, copying, finishing, offers>>

\* and it calls finish.
WorkerFinish(g) ==
    /\ entry[g].finish
    /\ FinishEntry([entry EXCEPT ![g].finish = FALSE], g)
    /\ UNCHANGED <<registry, entriesMade, copying, offers>>

\* The receipt is published and the permit returned.
Announce(g) ==
    /\ g \in finishing
    /\ finishing' = finishing \ {g}
    /\ entry' = [entry EXCEPT ![g].closed = TRUE]
    /\ UNCHANGED <<registry, entriesMade, copying, offers>>

-----------------------------------------------------------------------------
MirrorInit ==
    /\ registry = [open |-> TRUE, current |-> NoGen] /\ entriesMade = 0
    /\ entry = [g \in Gen |-> NewEntry] /\ copying = [c \in Copier |-> NoCopy]
    /\ finishing = {} /\ offers = 0

Encoder(c) == AdmitCopy(c) \/ DropCopy(c) \/ EncoderLeaves(c) \/ EncoderFinish(c)

\* A cancelled worker ends its loop; a delivery has a deadline.
Retires(g) == Settle(g) \/ (entry[g].cancelled /\ WorkerDrop(g)) \/ WorkerFinish(g) \/ Announce(g)

MirrorNext ==
    \/ Register \/ CloseRegistry \/ Offer
    \/ \E g \in Entries \cup {NoGen} : ReplaceGroup(g)
    \/ \E g \in Entries :
          \/ CancelGroup(g) \/ CloseHandle(g) \/ Receive(g) \/ Settle(g)
          \/ WorkerDrop(g) \/ WorkerFinish(g) \/ Announce(g)
          \/ \E c \in Copier : OfferLocal(c, g)
    \/ \E c \in Copier : Encoder(c)

\* Encoders end, and the runtime runs the workers.
MirrorFairness ==
    /\ \A c \in Copier : WF_copying(Encoder(c))
    /\ \A g \in Gen : WF_entry(g \in Entries /\ Retires(g))

MirrorSpec == MirrorInit /\ [][MirrorNext]_mirrorVars /\ MirrorFairness

-----------------------------------------------------------------------------
(* Properties *)

\* "After wait_closed, enqueued equals delivered + failed + timed_out +
\* cancelled": an entry that is closed has no job, no encoder and a balanced
\* account, although its worker may have been dropped in the middle of a
\* delivery and while encoders ran (Entry::finish, Drop for Worker).
ReceiptBalances ==
    \A g \in Entries : entry[g].closed =>
        /\ entry[g].enqueued = entry[g].ended /\ entry[g].queued = 0 /\ ~entry[g].active
        /\ \A c \in Copier : copying[c].gen = g => copying[c].at = "finish"

\* A cancelled entry is closed in the end, whoever of its worker and its encoders
\* ends last (finish), so that close of a group returns.
CancelledRetires == \A g \in Gen : []<>(entry[g].cancelled => entry[g].closed)
=============================================================================
