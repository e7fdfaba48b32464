-------------------------------- MODULE Inbox --------------------------------
(***************************************************************************)
(* The transactional receiver of one durable stream.  Its state and the    *)
(* highest sequence applied are one snapshot file, replaced atomically:    *)
(* written beside the old one, synced, renamed over it, and the directory  *)
(* synced, before the message is answered.                                 *)
(*                                                                         *)
(* A snapshot is [mark, state]: the stream's watermark and the business    *)
(* state, kept as the sequence of message bodies it was made from.         *)
(***************************************************************************)
EXTENDS Integers, Sequences

CONSTANTS NoMsg, NoFile

VARIABLES store,  \* phase, saved (the snapshot in memory), cur (the message), failed inside phase
          files   \* main, next: what the process sees; kept: main as synced

inboxVars == <<store, files>>

Snapshot(n, state) == [mark |-> n, state |-> state]
File(snap, sure) == [snap |-> snap, sure |-> sure]
EmptySnapshot == Snapshot(0, <<>>)

InboxInit ==
    /\ store = [phase |-> "idle", saved |-> EmptySnapshot, cur |-> NoMsg]
    /\ files = [main |-> File(EmptySnapshot, TRUE), next |-> NoFile, kept |-> EmptySnapshot]

Settled == [store EXCEPT !.phase = "idle", !.cur = NoMsg]

-----------------------------------------------------------------------------
(* Store::apply, one message at a time *)

Duplicate(m) == m.seq <= store.saved.mark
Fits(m) == m.seq = store.saved.mark + 1

\* At or below the watermark: answered without being applied.
SkipDuplicate(m) ==
    /\ store.phase = "idle"
    /\ Duplicate(m)
    /\ UNCHANGED inboxVars

\* A gap, or a business transition that fails: answered with an error.
Refuse(m) ==
    /\ store.phase = "idle"
    /\ ~Duplicate(m)
    /\ UNCHANGED inboxVars

\* Faulty: only a repetition of the very last message is recognised.
TransitionAgain(m) ==
    /\ store.phase = "idle"
    /\ m.seq # store.saved.mark
    /\ store' = [store EXCEPT !.phase = "written", !.cur = m]
    /\ files' = [files EXCEPT !.next =
                   File(Snapshot(m.seq, Append(store.saved.state, m.body)), FALSE)]
\* The next message of the stream: the new snapshot is written beside the old.
Transition(m) ==
    /\ store.phase = "idle"
    /\ Fits(m)
    /\ store' = [store EXCEPT !.phase = "written", !.cur = m]
    /\ files' = [files EXCEPT !.next =
                   File(Snapshot(m.seq, Append(store.saved.state, m.body)), FALSE)]

SnapshotSync ==
    /\ store.phase = "written"
    /\ files' = [files EXCEPT !.next.sure = TRUE]
    /\ store' = [store EXCEPT !.phase = "synced"]

Rename ==
    /\ store.phase = "synced"
    /\ files' = [files EXCEPT !.main = files.next, !.next = NoFile]
    /\ store' = [store EXCEPT !.phase = "renamed"]

Commit ==
    /\ store.phase = "renamed"
    /\ files' = [files EXCEPT !.kept = files.main.snap]
    /\ store' = [Settled EXCEPT !.saved = files.main.snap]

-----------------------------------------------------------------------------
(* Failures and reopening *)

\* A file operation of the write fails: the worker stops.
WriteFails ==
    /\ store.phase \in {"written", "synced", "renamed"}
    /\ store' = [Settled EXCEPT !.phase = "closed"]
    /\ UNCHANGED files

InboxDies ==
    /\ store.phase # "closed"
    /\ store' = [Settled EXCEPT !.phase = "closed"]
    /\ UNCHANGED files

\* After a power loss the name "inbox.state" is the old file or the new one.
InboxLosesPower ==
    /\ store.phase # "closed"
    /\ store' = [Settled EXCEPT !.phase = "closed"]
    /\ \E m \in {files.main, File(files.kept, TRUE)} :
         files' = [files EXCEPT !.main = m, !.kept = m.snap]

\* Faulty: what an interrupted writer renamed is trusted without a sync.
ReopenUnsynced ==
    /\ store.phase = "closed"
    /\ store' = [Settled EXCEPT !.saved = files.main.snap]
    /\ files' = [files EXCEPT !.next = NoFile]

\* Reopening drops an abandoned new snapshot and syncs the file and its name.
Reopen ==
    /\ store.phase = "closed"
    /\ store' = [Settled EXCEPT !.saved = files.main.snap]
    /\ files' = [main |-> File(files.main.snap, TRUE), next |-> NoFile,
                 kept |-> files.main.snap]
=============================================================================
