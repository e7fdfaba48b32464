--------------------------- MODULE MailboxProofs ---------------------------
(***************************************************************************)
(* Proofs about the way of a message to an actor, for any number of        *)
(* mailboxes, threads and producers: the slot of a mailbox in the ready    *)
(* queue (ScheduleSlot) and the two lanes of a mailbox (MpscMailbox).      *)
(***************************************************************************)
EXTENDS ScheduleSlot, MpscMailbox, TLAPS

-----------------------------------------------------------------------------
(* The ready queue *)

\* What the closing of the queue leaves behind, and who installs a hook.
ClosingOK ==
    /\ closed => stopping /\ registered = {}
    /\ \A m \in Mailbox : drained[m] > 0 => closed
    /\ closed => \A m \in Mailbox : waiting[m] = 0
    /\ \A m \in registered \ hooked : \E t \in Thread : At(t, "hooking", m)

SlotInv == SlotTypeOK /\ OneOwner /\ ClosingOK /\ NoLostWake

-----------------------------------------------------------------------------
(* Types *)

\* The initial state has the types.
LEMMA SlotTypeInit == SlotInit => SlotTypeOK
<1>1. Idle \in Hand
  BY Zenon DEF Hand
<1>2. 0 \in Nat /\ 0 \in 0..Capacity
  BY CapacityPos
<1> QED
  BY <1>1, <1>2, Zenon DEF SlotInit, SlotTypeOK

\* Every step keeps the types.
LEMMA SlotTypeNext == SlotTypeOK /\ [SlotNext]_slotVars => SlotTypeOK'
<1> USE SMTT(60)
<1> SUFFICES ASSUME SlotTypeOK, [SlotNext]_slotVars PROVE SlotTypeOK'
  OBVIOUS
<1> USE CapacityPos DEF SlotTypeOK
<1>1. CASE Stop
  BY <1>1, Zenon DEF Stop
<1>2. CASE Close
  BY <1>2, Zenon DEF Close
<1>3. ASSUME NEW m \in Mailbox, Retire(m) \/ Deschedule(m) \/ ReleaseDrained(m)
      PROVE SlotTypeOK'
  BY <1>3 DEF Retire, Deschedule, ReleaseDrained, ForceRelease
<1>4. ASSUME NEW m \in Mailbox, NEW t \in Thread,
             Push(t, m) \/ Ignore(t, m) \/ TryEnqueue(t, m) \/ EnqueueRegistered(t, m)
      PROVE SlotTypeOK'
  BY <1>4 DEF Push, Ignore, TryEnqueue, EnqueueRegistered, Moves, Rests, Hand, Idle, ForceRelease
<1>5. ASSUME NEW m \in Mailbox, NEW t \in Thread,
             Take(t, m) \/ Pop(t, m) \/ Finish(t, m) \/ Release(t, m) \/ Abandon(t, m)
      PROVE SlotTypeOK'
  <2>1. CASE Take(t, m) \/ Pop(t, m) \/ Abandon(t, m)
    BY <2>1 DEF Take, Pop, Abandon, Moves, Rests, Hand, Idle, ForceRelease
  <2>2. CASE Finish(t, m)
    BY <2>2 DEF Finish, Finished, Hand
  <2>3. CASE Release(t, m)
    BY <2>3 DEF Release, Finished, Moves, Rests, Hand, Idle
  <2> QED
    BY <1>5, <2>1, <2>2, <2>3, Zenon
<1>6. ASSUME NEW m \in Mailbox, NEW t \in Thread, Schedule(t, m) \/ InstallHook(t, m)
      PROVE SlotTypeOK'
  BY <1>6 DEF Schedule, InstallHook, Moves, Hand
<1>7. CASE UNCHANGED slotVars
  BY <1>7, Zenon DEF slotVars
<1> QED
  BY <1>1, <1>2, <1>3, <1>4, <1>5, <1>6, <1>7, Zenon DEF SlotNext

-----------------------------------------------------------------------------
(* One owner *)

\* OneOwner, for one mailbox.
Single(m) ==
    /\ waiting[m] + drained[m] <= 1
    /\ \A t \in Thread : Holds(t, m) => waiting[m] + drained[m] = 0
    /\ \A t, u \in Thread : Holds(t, m) /\ Holds(u, m) => t = u
    /\ m \in owned <=> (waiting[m] + drained[m] = 1 \/ \E t \in Thread : Holds(t, m))

\* A mailbox a step leaves alone.
LEMMA OtherSingle ==
    ASSUME NEW n \in Mailbox, Single(n),
           waiting'[n] = waiting[n], drained'[n] = drained[n],
           n \in owned' <=> n \in owned,
           \A u \in Thread : Holds(u, n)' <=> Holds(u, n)
    PROVE  Single(n)'
BY Zenon DEF Single

\* At first no mailbox has an owner.
LEMMA OwnerInit == SlotInit => OneOwner
<1> SUFFICES ASSUME SlotInit PROVE OneOwner
  OBVIOUS
<1>1. \A t \in Thread, m \in Mailbox : ~Holds(t, m)
  BY Zenon DEF SlotInit, Holds, Idle
<1>2. \A m \in Mailbox : waiting[m] = 0 /\ drained[m] = 0 /\ m \notin owned
  BY Zenon DEF SlotInit
<1>3. ASSUME NEW m \in Mailbox PROVE Single(m)
  BY <1>1, <1>2 DEF Single
<1> QED
  BY <1>3, Zenon DEF OneOwner, Single

\* Every step keeps a mailbox in one hand (try_enqueue, release, force_release).
LEMMA OwnerNext == SlotTypeOK /\ OneOwner /\ ClosingOK /\ [SlotNext]_slotVars => OneOwner'
<1> USE SMTT(60)
<1> SUFFICES ASSUME SlotTypeOK, OneOwner, ClosingOK, [SlotNext]_slotVars PROVE OneOwner'
  OBVIOUS
<1>a. \A n \in Mailbox : Single(n)
  BY Zenon DEF OneOwner, Single
<1>b. SUFFICES \A n \in Mailbox : Single(n)'
  BY Zenon DEF OneOwner, Single
<1>c. /\ \A n \in Mailbox : waiting[n] \in Nat /\ drained[n] \in Nat
      /\ waiting \in [Mailbox -> Nat] /\ drained \in [Mailbox -> Nat]
      /\ hand \in [Thread -> Hand]
  BY Zenon DEF SlotTypeOK
<1>1. CASE Stop \/ UNCHANGED slotVars
  BY <1>1, <1>a DEF Stop, slotVars, Single, Holds
<1>2. CASE Close
  BY <1>2, <1>a, <1>c DEF Close, ClosingOK, Single, Holds
<1>3. ASSUME NEW m \in Mailbox, Retire(m) PROVE \A n \in Mailbox : Single(n)'
  BY <1>3, <1>a DEF Retire, Single, Holds
<1>4. ASSUME NEW m \in Mailbox, Deschedule(m) PROVE \A n \in Mailbox : Single(n)'
  BY <1>4, <1>a, <1>c DEF Deschedule, ForceRelease, Single, Holds
<1>5. ASSUME NEW m \in Mailbox, ReleaseDrained(m) PROVE \A n \in Mailbox : Single(n)'
  BY <1>5, <1>a, <1>c DEF ReleaseDrained, ForceRelease, Single, Holds
<1>6. ASSUME NEW m \in Mailbox, NEW t \in Thread, Push(t, m)
      PROVE \A n \in Mailbox : Single(n)'
  <2>1. \A n \in Mailbox, u \in Thread : Holds(u, n)' <=> Holds(u, n)
    BY <1>6, <1>c DEF Push, Moves, Holds, Idle
  <2> QED
    BY <1>6, <1>a, <2>1, OtherSingle, Zenon DEF Push
<1>7. ASSUME NEW m \in Mailbox, NEW t \in Thread, Ignore(t, m)
      PROVE \A n \in Mailbox : Single(n)'
  BY <1>7, <1>a, <1>c DEF Ignore, At, Rests, Single, Holds, Idle
<1>8. ASSUME NEW m \in Mailbox, NEW t \in Thread, TryEnqueue(t, m)
      PROVE \A n \in Mailbox : Single(n)'
  <2>1. ASSUME NEW n \in Mailbox, n # m PROVE Single(n)'
    <3>1. \A u \in Thread : Holds(u, n)' <=> Holds(u, n)
      BY <1>8, <1>c, <2>1 DEF TryEnqueue, At, Moves, Rests, Holds, Idle
    <3>2. waiting'[n] = waiting[n] /\ drained'[n] = drained[n] /\ (n \in owned' <=> n \in owned)
      BY <1>8, <1>c, <2>1, Zenon DEF TryEnqueue, At, Moves, Rests
    <3> QED
      BY <1>a, <3>1, <3>2, OtherSingle, Zenon
  <2>2. /\ \A u \in Thread \ {t} : Holds(u, m)' <=> Holds(u, m)
        /\ ~Holds(t, m) /\ (Holds(t, m)' <=> m \notin owned)
    BY <1>8, <1>c DEF TryEnqueue, At, Moves, Rests, Holds, Idle
  <2>3. Single(m)
    BY <1>a, Zenon
  <2>4. Single(m)'
    BY <1>8, <1>c, <2>2, <2>3 DEF TryEnqueue, At, Moves, Rests, Single
  <2> QED
    BY <2>1, <2>4, Zenon
<1>9. ASSUME NEW m \in Mailbox, NEW t \in Thread, EnqueueRegistered(t, m)
      PROVE \A n \in Mailbox : Single(n)'
  <2>1. ASSUME NEW n \in Mailbox, n # m PROVE Single(n)'
    <3>1. \A u \in Thread : Holds(u, n)' <=> Holds(u, n)
      BY <1>9, <1>c, <2>1 DEF EnqueueRegistered, ForceRelease, At, Rests, Holds, Idle
    <3>2. waiting'[n] = waiting[n] /\ drained'[n] = drained[n] /\ (n \in owned' <=> n \in owned)
      BY <1>9, <1>c, <2>1, Zenon DEF EnqueueRegistered, ForceRelease, At, Rests
    <3> QED
      BY <1>a, <3>1, <3>2, OtherSingle, Zenon
  <2>2. /\ \A u \in Thread \ {t} : Holds(u, m)' <=> Holds(u, m)
        /\ Holds(t, m) /\ ~Holds(t, m)'
    BY <1>9, <1>c DEF EnqueueRegistered, ForceRelease, At, Rests, Holds, Idle
  <2>3. Single(m)
    BY <1>a, Zenon
  <2>4. Single(m)'
    BY <1>9, <1>c, <2>2, <2>3 DEF EnqueueRegistered, ForceRelease, At, Rests, Single
  <2> QED
    BY <2>1, <2>4, Zenon
<1>10. ASSUME NEW m \in Mailbox, NEW t \in Thread, Take(t, m)
      PROVE \A n \in Mailbox : Single(n)'
  <2>1. ASSUME NEW n \in Mailbox, n # m PROVE Single(n)'
    <3>1. \A u \in Thread : Holds(u, n)' <=> Holds(u, n)
      BY <1>10, <1>c, <2>1 DEF Take, Moves, Holds, Idle
    <3>2. waiting'[n] = waiting[n] /\ drained'[n] = drained[n] /\ (n \in owned' <=> n \in owned)
      BY <1>10, <1>c, <2>1, Zenon DEF Take, Moves
    <3> QED
      BY <1>a, <3>1, <3>2, OtherSingle, Zenon
  <2>2. /\ \A u \in Thread \ {t} : Holds(u, m)' <=> Holds(u, m)
        /\ ~Holds(t, m) /\ Holds(t, m)'
    BY <1>10, <1>c DEF Take, Moves, Holds, Idle
  <2>3. Single(m)
    BY <1>a, Zenon
  <2>4. Single(m)'
    <3>1. waiting[m] = 1 /\ drained[m] = 0 /\ waiting'[m] = 0 /\ drained'[m] = 0
      BY <1>10, <1>c, <2>3 DEF Take, Single
    <3>2. m \in owned' /\ \A u \in Thread : ~Holds(u, m)
      BY <1>10, <2>3, <3>1 DEF Take, Single
    <3> QED
      BY <2>2, <3>1, <3>2 DEF Single
  <2> QED
    BY <2>1, <2>4, Zenon
<1>11. ASSUME NEW m \in Mailbox, NEW t \in Thread, Pop(t, m)
      PROVE \A n \in Mailbox : Single(n)'
  BY <1>11, <1>a DEF Pop, Single, Holds
<1>12. ASSUME NEW m \in Mailbox, NEW t \in Thread, Finish(t, m)
      PROVE \A n \in Mailbox : Single(n)'
  BY <1>12, <1>a, <1>c DEF Finish, Finished, At, Single, Holds
<1>13. ASSUME NEW m \in Mailbox, NEW t \in Thread, Release(t, m)
      PROVE \A n \in Mailbox : Single(n)'
  <2>1. ASSUME NEW n \in Mailbox, n # m PROVE Single(n)'
    <3>1. \A u \in Thread : Holds(u, n)' <=> Holds(u, n)
      BY <1>13, <1>c, <2>1 DEF Release, Finished, Moves, Rests, Holds, Idle
    <3>2. waiting'[n] = waiting[n] /\ drained'[n] = drained[n] /\ (n \in owned' <=> n \in owned)
      BY <1>13, <1>c, <2>1, Zenon DEF Release, Finished, Moves, Rests
    <3> QED
      BY <1>a, <3>1, <3>2, OtherSingle, Zenon
  <2>2. /\ \A u \in Thread \ {t} : Holds(u, m)' <=> Holds(u, m)
        /\ Holds(t, m) /\ (Holds(t, m)' <=> m \in owned')
    <3>1. Holds(t, m)
      BY <1>13, <1>c DEF Release, Finished, Holds
    <3>2. m \in owned
      BY <1>a, <3>1, Zenon DEF Single
    <3> QED
      BY <1>13, <1>c, <3>1, <3>2 DEF Release, Finished, Moves, Rests, Holds, Idle
  <2>3. Single(m)
    BY <1>a, Zenon
  <2>4. Single(m)'
    BY <1>13, <1>c, <2>2, <2>3 DEF Release, Finished, Moves, Rests, Single
  <2> QED
    BY <2>1, <2>4, Zenon
<1>14. ASSUME NEW m \in Mailbox, NEW t \in Thread, Abandon(t, m)
      PROVE \A n \in Mailbox : Single(n)'
  <2>1. ASSUME NEW n \in Mailbox, n # m PROVE Single(n)'
    <3>1. \A u \in Thread : Holds(u, n)' <=> Holds(u, n)
      BY <1>14, <1>c, <2>1 DEF Abandon, ForceRelease, At, Rests, Holds, Idle
    <3>2. waiting'[n] = waiting[n] /\ drained'[n] = drained[n] /\ (n \in owned' <=> n \in owned)
      BY <1>14, <1>c, <2>1, Zenon DEF Abandon, ForceRelease, At, Rests
    <3> QED
      BY <1>a, <3>1, <3>2, OtherSingle, Zenon
  <2>2. /\ \A u \in Thread \ {t} : Holds(u, m)' <=> Holds(u, m)
        /\ Holds(t, m) /\ ~Holds(t, m)'
    BY <1>14, <1>c DEF Abandon, ForceRelease, At, Rests, Holds, Idle
  <2>3. Single(m)
    BY <1>a, Zenon
  <2>4. Single(m)'
    BY <1>14, <1>c, <2>2, <2>3 DEF Abandon, ForceRelease, At, Rests, Single
  <2> QED
    BY <2>1, <2>4, Zenon
<1>15. ASSUME NEW m \in Mailbox, NEW t \in Thread, Schedule(t, m) \/ InstallHook(t, m)
      PROVE \A n \in Mailbox : Single(n)'
  BY <1>15, <1>a, <1>c DEF Schedule, InstallHook, At, Moves, Single, Holds, Idle
<1> QED
  BY <1>1, <1>2, <1>3, <1>4, <1>5, <1>6, <1>7, <1>8, <1>9, <1>10, <1>11, <1>12, <1>13, <1>14,
     <1>15, Zenon DEF SlotNext

-----------------------------------------------------------------------------
(* Closing, and the installation of hooks *)

\* At first the queue is open and nothing is drained.
LEMMA ClosingInit == SlotInit => ClosingOK
<1> SUFFICES ASSUME SlotInit PROVE ClosingOK
  OBVIOUS
<1>1. ~closed /\ registered = {} /\ \A m \in Mailbox : drained[m] = 0
  BY Zenon DEF SlotInit
<1> QED
  BY <1>1 DEF ClosingOK

\* Every step keeps what shutdown drained apart from the queue (close).
LEMMA ClosingNext == SlotTypeOK /\ ClosingOK /\ [SlotNext]_slotVars => ClosingOK'
<1> USE SMTT(60)
<1> SUFFICES ASSUME SlotTypeOK, ClosingOK, [SlotNext]_slotVars PROVE ClosingOK'
  OBVIOUS
<1>c. /\ waiting \in [Mailbox -> Nat] /\ drained \in [Mailbox -> Nat]
      /\ hand \in [Thread -> Hand] /\ registered \subseteq Mailbox
  BY Zenon DEF SlotTypeOK
<1>1. CASE Stop \/ Close \/ UNCHANGED slotVars
  BY <1>1, <1>c DEF Stop, Close, slotVars, ClosingOK, At
<1>2. ASSUME NEW m \in Mailbox, Retire(m) \/ Deschedule(m) \/ ReleaseDrained(m)
      PROVE ClosingOK'
  BY <1>2, <1>c DEF Retire, Deschedule, ReleaseDrained, ClosingOK, At
<1>3. ASSUME NEW m \in Mailbox, NEW t \in Thread,
             \/ Push(t, m) \/ Ignore(t, m) \/ TryEnqueue(t, m) \/ EnqueueRegistered(t, m)
             \/ Take(t, m) \/ Pop(t, m) \/ Finish(t, m) \/ Release(t, m) \/ Abandon(t, m)
      PROVE ClosingOK'
  <2>1. /\ registered' = registered /\ hooked' = hooked /\ closed' = closed
        /\ stopping' = stopping /\ drained' = drained
    BY <1>3, Zenon DEF Push, Ignore, TryEnqueue, EnqueueRegistered, Take, Pop, Finish, Release, Abandon
  <2>2. closed => waiting' = waiting
    <3>1. CASE Take(t, m)
      BY <3>1, <1>c DEF Take, ClosingOK
    <3>2. CASE EnqueueRegistered(t, m)
      BY <3>2, Zenon DEF EnqueueRegistered
    <3> QED
      BY <1>3, <3>1, <3>2, Zenon DEF Push, Ignore, TryEnqueue, Pop, Finish, Release, Abandon
  <2>3. ASSUME NEW n, NEW u \in Thread, At(u, "hooking", n) PROVE At(u, "hooking", n)'
    BY <1>3, <1>c, <2>3 DEF Push, Ignore, TryEnqueue, EnqueueRegistered, Take, Pop, Finish,
                      Release, Abandon, At, Moves, Rests, Idle, Finished
  <2> QED
    BY <2>1, <2>2, <2>3, Zenon DEF ClosingOK
<1>4. ASSUME NEW m \in Mailbox, NEW t \in Thread, Schedule(t, m) PROVE ClosingOK'
  <2>1. ASSUME NEW n, NEW u \in Thread, At(u, "hooking", n) PROVE At(u, "hooking", n)'
    BY <1>4, <1>c, <2>1 DEF Schedule, At, Moves, Idle
  <2>2. At(t, "hooking", m)'
    BY <1>4, <1>c, Zenon DEF Schedule, At, Moves
  <2> QED
    BY <1>4, <2>1, <2>2, Zenon DEF Schedule, ClosingOK
<1>5. ASSUME NEW m \in Mailbox, NEW t \in Thread, InstallHook(t, m) PROVE ClosingOK'
  <2>1. ASSUME NEW n, NEW u \in Thread, At(u, "hooking", n), n # m PROVE At(u, "hooking", n)'
    BY <1>5, <1>c, <2>1 DEF InstallHook, At, Moves
  <2> QED
    BY <1>5, <2>1, Zenon DEF InstallHook, ClosingOK
<1> QED
  BY <1>1, <1>2, <1>3, <1>4, <1>5, Zenon DEF SlotNext

-----------------------------------------------------------------------------
(* No lost wake *)

\* Somebody will look at m.
Attended(m) ==
    \/ \E t \in Thread : At(t, "hooking", m) \/ At(t, "woken", m)
    \/ m \in owned /\ (m \in wake \/ \A t \in Thread : hand[t] # Finished(m, FALSE))

\* While t holds the slot of m, no other thread is about to release it.
LEMMA HolderAlone ==
    ASSUME OneOwner, NEW m \in Mailbox, NEW t \in Thread, Holds(t, m)
    PROVE  m \in owned /\ \A u \in Thread \ {t} : \A more : hand[u] # Finished(m, more)
BY DEF OneOwner, Holds, Finished

\* At first there are no messages.
LEMMA WakeInit == SlotInit => NoLostWake
BY Zenon DEF SlotInit, NoLostWake

\* No step leaves an accepted message without somebody who will look (try_enqueue, release).
LEMMA WakeNext == SlotTypeOK /\ OneOwner /\ ClosingOK /\ NoLostWake /\ [SlotNext]_slotVars
                    => NoLostWake'
<1> USE SMTT(60)
<1> SUFFICES ASSUME SlotTypeOK, OneOwner, ClosingOK, NoLostWake, [SlotNext]_slotVars
             PROVE  NoLostWake'
  OBVIOUS
<1> SUFFICES ASSUME NEW n \in Mailbox, n \in registered', n \notin retired',
                    messages'[n] > 0, ~stopping'
             PROVE  Attended(n)'
  <2>1. registered' \subseteq Mailbox
    BY SlotTypeNext, Zenon DEF SlotTypeOK
  <2> QED
    BY <2>1, Zenon DEF NoLostWake, Attended
<1>a. n \in registered /\ n \notin retired /\ messages[n] > 0 /\ ~stopping => Attended(n)
  BY Zenon DEF NoLostWake, Attended
<1>c. /\ messages \in [Mailbox -> 0..Capacity] /\ hand \in [Thread -> Hand]
  BY Zenon DEF SlotTypeOK
<1>1. CASE Stop \/ Close
  BY <1>1, Zenon DEF Stop, Close
<1>2. CASE UNCHANGED slotVars
  BY <1>2, <1>a, Zenon DEF slotVars, Attended, At
<1>3. ASSUME NEW m \in Mailbox, Retire(m) PROVE Attended(n)'
  BY <1>3, <1>a, Zenon DEF Retire, Attended, At
<1>4. ASSUME NEW m \in Mailbox, Deschedule(m) PROVE Attended(n)'
  BY <1>4, <1>a, Zenon DEF Deschedule, ForceRelease, Attended, At
<1>5. ASSUME NEW m \in Mailbox, ReleaseDrained(m) PROVE Attended(n)'
  BY <1>5, Zenon DEF ReleaseDrained, ClosingOK
<1>6. ASSUME NEW m \in Mailbox, NEW t \in Thread, Push(t, m) PROVE Attended(n)'
  <2>1. CASE n = m /\ m \in hooked
    BY <1>6, <1>c, <2>1, Zenon DEF Push, Moves, Attended, At
  <2>2. CASE n = m /\ m \notin hooked
    BY <1>6, <2>2, Zenon DEF Push, ClosingOK, Attended, At
  <2>3. CASE n # m
    BY <1>6, <1>a, <1>c, <2>3 DEF Push, Moves, Attended, At, Idle, Finished
  <2> QED
    BY <2>1, <2>2, <2>3, Zenon
<1>7. ASSUME NEW m \in Mailbox, NEW t \in Thread, Ignore(t, m) PROVE Attended(n)'
  BY <1>7, Zenon DEF Ignore
<1>8. ASSUME NEW m \in Mailbox, NEW t \in Thread, TryEnqueue(t, m) PROVE Attended(n)'
  <2>1. CASE n # m
    BY <1>8, <1>a, <1>c, <2>1 DEF TryEnqueue, Moves, Rests, Attended, At, Idle, Finished
  <2>2. CASE n = m /\ m \in owned
    BY <1>8, <2>2, Zenon DEF TryEnqueue, Attended
  <2>3. CASE n = m /\ m \notin owned
    <3>1. \A u \in Thread : hand[u] # Finished(m, FALSE)
      BY <2>3 DEF OneOwner, Holds, Finished
    <3> QED
      BY <1>8, <1>c, <2>3, <3>1 DEF TryEnqueue, Moves, Attended, Finished
  <2> QED
    BY <2>1, <2>2, <2>3, Zenon
<1>9. ASSUME NEW m \in Mailbox, NEW t \in Thread, EnqueueRegistered(t, m) PROVE Attended(n)'
  <2>1. CASE n # m
    BY <1>9, <1>a, <1>c, <2>1
       DEF EnqueueRegistered, ForceRelease, Rests, Attended, At, Idle, Finished
  <2>2. CASE n = m
    <3>1. Holds(t, m)
      BY <1>9 DEF EnqueueRegistered, At, Holds
    <3>2. owned' = owned
      BY <1>9, <2>2, Zenon DEF EnqueueRegistered, ClosingOK
    <3> QED
      BY <1>9, <1>c, <2>2, <3>1, <3>2, HolderAlone, Zenon
         DEF EnqueueRegistered, Rests, Attended, Idle, Finished
  <2> QED
    BY <2>1, <2>2, Zenon
<1>10. ASSUME NEW m \in Mailbox, NEW t \in Thread, Take(t, m) PROVE Attended(n)'
  <2>1. CASE n # m
    BY <1>10, <1>a, <1>c, <2>1 DEF Take, Moves, Attended, At, Idle, Finished
  <2>2. CASE n = m
    <3>1. Holds(t, m)'
      BY <1>10, <1>c, Zenon DEF Take, Moves, Holds
    <3>2. OneOwner'
      BY OwnerNext, Zenon
    <3>3. m \in owned' /\ \A u \in Thread \ {t} : hand'[u] # Finished(m, FALSE)
      BY <3>1, <3>2 DEF OneOwner, Holds, Finished
    <3> QED
      BY <1>10, <1>c, <2>2, <3>3, Zenon DEF Take, Moves, Attended, Finished
  <2> QED
    BY <2>1, <2>2, Zenon
<1>11. ASSUME NEW m \in Mailbox, NEW t \in Thread, Pop(t, m) PROVE Attended(n)'
  BY <1>11, <1>a, <1>c, Zenon DEF Pop, Attended, At
<1>12. ASSUME NEW m \in Mailbox, NEW t \in Thread, Finish(t, m) PROVE Attended(n)'
  <2>1. CASE n # m
    BY <1>12, <1>a, <1>c, <2>1 DEF Finish, Attended, At, Finished
  <2>2. CASE n = m
    <3>1. Holds(t, m)
      BY <1>12 DEF Finish, At, Holds
    <3>2. hand'[t] = Finished(m, TRUE)
      BY <1>12, <1>c, <2>2, Zenon DEF Finish
    <3>3. m \in owned' /\ \A u \in Thread \ {t} : hand'[u] # Finished(m, FALSE)
      BY <1>12, <1>c, <3>1, HolderAlone, Zenon DEF Finish
    <3>4. hand'[t] # Finished(m, FALSE)
      BY <3>2, Finished(m, TRUE).more # Finished(m, FALSE).more, Zenon DEF Finished
    <3> QED
      BY <2>2, <3>3, <3>4, Zenon DEF Attended
  <2> QED
    BY <2>1, <2>2, Zenon
<1>13. ASSUME NEW m \in Mailbox, NEW t \in Thread, Release(t, m) PROVE Attended(n)'
  <2>1. PICK more \in BOOLEAN :
            /\ hand[t] = Finished(m, more)
            /\ \/ (more \/ m \in wake) /\ Moves(t, "claimed", m) /\ owned' = owned
               \/ ~more /\ m \notin wake /\ Rests(t) /\ owned' = owned \ {m}
            /\ wake' = wake \ {m}
    BY <1>13, Zenon DEF Release
  <2>2. Attended(n)
    BY <1>13, <1>a DEF Release
  <2>3. CASE n # m
    BY <1>c, <2>1, <2>2, <2>3 DEF Moves, Rests, Attended, At, Idle, Finished
  <2>4. CASE n = m /\ (more \/ m \in wake)
    <3>1. Holds(t, m)
      BY <2>1 DEF Finished, Holds
    <3>2. m \in owned' /\ \A u \in Thread \ {t} : hand'[u] # Finished(m, FALSE)
      BY <1>c, <2>1, <2>4, <3>1, HolderAlone, Zenon DEF Moves
    <3>3. hand'[t] = [at |-> "claimed", box |-> m]
      BY <1>c, <2>1, <2>4 DEF Moves
    <3>4. hand'[t] # Finished(m, FALSE)
      BY <3>3 DEF Finished
    <3> QED
      BY <2>4, <3>2, <3>4, Zenon DEF Attended
  <2>5. CASE n = m /\ ~more /\ m \notin wake
    <3>1. PICK u \in Thread : At(u, "hooking", m) \/ At(u, "woken", m)
      BY <2>1, <2>2, <2>5, Zenon DEF Attended
    <3>2. u # t
      BY <2>1, <3>1 DEF At, Finished
    <3>3. hand'[u] = hand[u]
      BY <1>c, <2>1, <3>2, Zenon DEF Moves, Rests
    <3> QED
      BY <2>5, <3>1, <3>3, Zenon DEF Attended, At
  <2> QED
    BY <2>3, <2>4, <2>5, Zenon
<1>14. ASSUME NEW m \in Mailbox, NEW t \in Thread, Abandon(t, m) PROVE Attended(n)'
  BY <1>14, <1>a, <1>c DEF Abandon, ForceRelease, Rests, Attended, At, Idle, Finished
<1>15. ASSUME NEW m \in Mailbox, NEW t \in Thread, Schedule(t, m) PROVE Attended(n)'
  <2>1. CASE n # m
    BY <1>15, <1>a, <1>c, <2>1 DEF Schedule, Moves, Attended, At, Idle, Finished
  <2>2. CASE n = m
    BY <1>15, <1>c, <2>2, Zenon DEF Schedule, Moves, Attended, At
  <2> QED
    BY <2>1, <2>2, Zenon
<1>16. ASSUME NEW m \in Mailbox, NEW t \in Thread, InstallHook(t, m) PROVE Attended(n)'
  <2>1. CASE n # m
    BY <1>16, <1>a, <1>c, <2>1 DEF InstallHook, Moves, Attended, At, Finished
  <2>2. CASE n = m
    BY <1>16, <1>c, <2>2, Zenon DEF InstallHook, Moves, Attended, At
  <2> QED
    BY <2>1, <2>2, Zenon
<1> QED
  BY <1>1, <1>2, <1>3, <1>4, <1>5, <1>6, <1>7, <1>8, <1>9, <1>10, <1>11, <1>12, <1>13, <1>14,
     <1>15, <1>16, Zenon DEF SlotNext

-----------------------------------------------------------------------------
(* Theorems *)

\* The inductive invariant holds throughout.
LEMMA SlotInvariance == SlotSpec => []SlotInv
<1>1. SlotInit => SlotInv
  BY SlotTypeInit, OwnerInit, ClosingInit, WakeInit, Zenon DEF SlotInv
<1>2. SlotInv /\ [SlotNext]_slotVars => SlotInv'
  BY SlotTypeNext, OwnerNext, ClosingNext, WakeNext, Zenon DEF SlotInv
<1> QED
  BY <1>1, <1>2, PTL DEF SlotSpec

\* The slot protocol is type correct; no mailbox exceeds its capacity.
THEOREM SlotTypes == SlotSpec => []SlotTypeOK
BY SlotInvariance, PTL DEF SlotInv

\* For every set of mailboxes and threads: the slot of a mailbox is in one
\* place, so no actor ever runs in two jobs of the pool.
THEOREM SingleOwnership == SlotSpec => []OneOwner
BY SlotInvariance, PTL DEF SlotInv

\* For every set of mailboxes and threads: a message accepted by a live,
\* registered mailbox always has somebody who will look at it.
THEOREM WakesAreKept == SlotSpec => []NoLostWake
BY SlotInvariance, PTL DEF SlotInv

-----------------------------------------------------------------------------
(* The mailbox *)

\* A message of the high lane.
HighItem == [frontier : Nat, arrival : Nat]

\* Two lanes n and h with r messages taken out of n and a arrivals: both are in
\* the order of arrival, and the frontier of a high message says which of the
\* normal ones arrived before it.
LaneInv(n, h, r, a) ==
    /\ n \in Seq(Nat) /\ h \in Seq(HighItem) /\ r \in Nat /\ a \in Nat
    /\ \A j \in 1..Len(n) : n[j] < a /\ \A k \in 1..Len(n) : j < k => n[j] < n[k]
    /\ \A j \in 1..Len(h) : h[j].arrival < a /\ \A k \in 1..Len(h) : j < k =>
          h[j].arrival < h[k].arrival /\ h[j].frontier <= h[k].frontier
    /\ \A k \in 1..Len(h) :
          /\ r <= h[k].frontier /\ h[k].frontier <= r + Len(n)
          /\ \A j \in 1..Len(n) : n[j] < h[k].arrival <=> r + j <= h[k].frontier

\* The lanes fit, and close empties a mailbox only after it was sealed.
RoomInv ==
    /\ Held <= LaneCapacity
    /\ closing \in {"open", "sealed", "told", "drained"} /\ sealed \in BOOLEAN
    /\ closing # "open" => sealed
    /\ closing = "drained" => normal = <<>> /\ high = <<>>

\* The inductive invariant of the mailbox.
MailInv == LaneInv(normal, high, removed, arrivals) /\ RoomInv

\* A sequence without its head.
LEMMA TailFacts ==
    ASSUME NEW S, NEW s \in Seq(S), s # <<>>
    PROVE  /\ Tail(s) \in Seq(S) /\ Len(Tail(s)) = Len(s) - 1 /\ Len(s) \in Nat /\ Len(s) > 0
           /\ \A k \in 1..Len(Tail(s)) : k + 1 \in 1..Len(s) /\ Tail(s)[k] = s[k + 1]
           /\ Head(s) = s[1]
    OBVIOUS

\* A sequence with one more element.
LEMMA AppendFacts ==
    ASSUME NEW S, NEW s \in Seq(S), NEW e \in S
    PROVE  /\ Append(s, e) \in Seq(S) /\ Len(Append(s, e)) = Len(s) + 1 /\ Len(s) \in Nat
           /\ \A k \in 1..Len(s) : Append(s, e)[k] = s[k]
           /\ Append(s, e)[Len(s) + 1] = e
    OBVIOUS

\* What the lanes hold.
LEMMA LaneTypes ==
    ASSUME NEW n, NEW h, NEW r, NEW a, LaneInv(n, h, r, a)
    PROVE  /\ Len(n) \in Nat /\ Len(h) \in Nat
           /\ \A j \in 1..Len(n) : n[j] \in Nat
           /\ \A k \in 1..Len(h) : h[k].arrival \in Nat /\ h[k].frontier \in Nat
<1>1. n \in Seq(Nat) /\ h \in Seq(HighItem)
    BY Zenon DEF LaneInv
<1>2. \A k \in 1..Len(h) : h[k] \in HighItem
    BY <1>1
<1> QED BY <1>1, <1>2 DEF HighItem

\* A normal message arrives: it is behind every frontier (enqueue).
LEMMA NormalArrives ==
    ASSUME NEW n, NEW h, NEW r, NEW a, LaneInv(n, h, r, a)
    PROVE  LaneInv(Append(n, a), h, r, a + 1)
<1> USE SMTT(60)
<1>1. /\ n \in Seq(Nat) /\ h \in Seq(HighItem) /\ r \in Nat /\ a \in Nat
      /\ Len(n) \in Nat /\ Len(h) \in Nat /\ \A j \in 1..Len(n) : n[j] \in Nat
      /\ \A k \in 1..Len(h) : h[k].arrival \in Nat /\ h[k].frontier \in Nat
    <2>1. n \in Seq(Nat) /\ h \in Seq(HighItem) /\ r \in Nat /\ a \in Nat
        BY Zenon DEF LaneInv
    <2> QED BY <2>1, LaneTypes, Zenon
<1>2. \A j \in 1..Len(n) : n[j] < a /\ \A k \in 1..Len(n) : j < k => n[j] < n[k]
    BY Zenon DEF LaneInv
<1>3. \A j \in 1..Len(h) : h[j].arrival < a /\ \A k \in 1..Len(h) : j < k =>
          h[j].arrival < h[k].arrival /\ h[j].frontier <= h[k].frontier
    BY Zenon DEF LaneInv
<1>4. \A k \in 1..Len(h) :
          /\ r <= h[k].frontier /\ h[k].frontier <= r + Len(n)
          /\ \A j \in 1..Len(n) : n[j] < h[k].arrival <=> r + j <= h[k].frontier
    BY Zenon DEF LaneInv
<1>5. PICK m : m = Append(n, a)
    BY Zenon
<1>6. /\ m \in Seq(Nat) /\ Len(m) = Len(n) + 1 /\ m[Len(n) + 1] = a
      /\ \A k \in 1..Len(n) : m[k] = n[k]
    BY <1>1, <1>5, AppendFacts
<1>7. \A j \in 1..Len(m) : (j \in 1..Len(n) /\ m[j] = n[j]) \/ (j = Len(n) + 1 /\ m[j] = a)
    BY <1>1, <1>6
<1>8. \A j \in 1..Len(m) : m[j] < a + 1 /\ \A k \in 1..Len(m) : j < k => m[j] < m[k]
    <2> TAKE j \in 1..Len(m)
    <2>1. m[j] < a + 1
        <3>1. CASE j \in 1..Len(n) /\ m[j] = n[j]
            BY <3>1, <1>1, <1>2
        <3>2. CASE m[j] = a
            BY <3>2, <1>1
        <3> QED BY <3>1, <3>2, <1>7, Zenon
    <2>2. ASSUME NEW k \in 1..Len(m), j < k PROVE m[j] < m[k]
        <3>1. j \in 1..Len(n) /\ m[j] = n[j]
            BY <2>2, <1>1, <1>6, <1>7
        <3> QED BY <2>2, <3>1, <1>2, <1>7, Zenon
    <2> QED BY <2>1, <2>2
<1>9. ASSUME NEW k \in 1..Len(h), NEW j \in 1..Len(m)
      PROVE  m[j] < h[k].arrival <=> r + j <= h[k].frontier
    <2>1. CASE j \in 1..Len(n)
        BY <2>1, <1>4, <1>6, Zenon
    <2>2. CASE j = Len(n) + 1
        <3>1. ~(m[j] < h[k].arrival)
            BY <2>2, <1>1, <1>3, <1>6
        <3>2. ~(r + j <= h[k].frontier)
            BY <2>2, <1>1, <1>4
        <3> QED BY <3>1, <3>2, Zenon
    <2> QED BY <2>1, <2>2, <1>7, Zenon
<1>10. \A k \in 1..Len(h) : r <= h[k].frontier /\ h[k].frontier <= r + Len(m) /\ h[k].arrival < a + 1
    BY <1>1, <1>3, <1>4, <1>6
<1>11. a + 1 \in Nat
    BY <1>1
<1>12. LaneInv(m, h, r, a + 1)
    BY <1>1, <1>3, <1>6, <1>8, <1>9, <1>10, <1>11, Zenon DEF LaneInv
<1> QED BY <1>5, <1>12, Zenon

\* A high message arrives: its frontier is past the whole normal lane (enqueue).
LEMMA HighArrives ==
    ASSUME NEW n, NEW h, NEW r, NEW a, LaneInv(n, h, r, a)
    PROVE  LaneInv(n, Append(h, [frontier |-> r + Len(n), arrival |-> a]), r, a + 1)
<1> USE SMTT(60)
<1>1. /\ n \in Seq(Nat) /\ h \in Seq(HighItem) /\ r \in Nat /\ a \in Nat
      /\ Len(n) \in Nat /\ Len(h) \in Nat /\ \A j \in 1..Len(n) : n[j] \in Nat
      /\ \A k \in 1..Len(h) : h[k].arrival \in Nat /\ h[k].frontier \in Nat
    <2>1. n \in Seq(Nat) /\ h \in Seq(HighItem) /\ r \in Nat /\ a \in Nat
        BY Zenon DEF LaneInv
    <2> QED BY <2>1, LaneTypes, Zenon
<1>2. \A j \in 1..Len(n) : n[j] < a /\ \A k \in 1..Len(n) : j < k => n[j] < n[k]
    BY Zenon DEF LaneInv
<1>3. \A j \in 1..Len(h) : h[j].arrival < a /\ \A k \in 1..Len(h) : j < k =>
          h[j].arrival < h[k].arrival /\ h[j].frontier <= h[k].frontier
    BY Zenon DEF LaneInv
<1>4. \A k \in 1..Len(h) :
          /\ r <= h[k].frontier /\ h[k].frontier <= r + Len(n)
          /\ \A j \in 1..Len(n) : n[j] < h[k].arrival <=> r + j <= h[k].frontier
    BY Zenon DEF LaneInv
<1>5. PICK e : e = [frontier |-> r + Len(n), arrival |-> a]
    BY Zenon
<1>6. e \in HighItem /\ e.frontier = r + Len(n) /\ e.arrival = a
    BY <1>1, <1>5 DEF HighItem
<1>7. PICK g : g = Append(h, e)
    BY Zenon
<1>8. /\ g \in Seq(HighItem) /\ Len(g) = Len(h) + 1 /\ g[Len(h) + 1] = e
      /\ \A k \in 1..Len(h) : g[k] = h[k]
    BY <1>1, <1>6, <1>7, AppendFacts
<1>9. \A k \in 1..Len(g) : (k \in 1..Len(h) /\ g[k] = h[k]) \/ (k = Len(h) + 1 /\ g[k] = e)
    BY <1>1, <1>8
<1>10. \A j \in 1..Len(g) : g[j].arrival < a + 1 /\ \A k \in 1..Len(g) : j < k =>
          g[j].arrival < g[k].arrival /\ g[j].frontier <= g[k].frontier
    <2> TAKE j \in 1..Len(g)
    <2>1. g[j].arrival < a + 1
        BY <1>1, <1>3, <1>6, <1>9
    <2>2. ASSUME NEW k \in 1..Len(g), j < k
          PROVE  g[j].arrival < g[k].arrival /\ g[j].frontier <= g[k].frontier
        <3>1. j \in 1..Len(h) /\ g[j] = h[j]
            BY <2>2, <1>1, <1>8, <1>9
        <3>2. h[j].arrival < a /\ h[j].frontier <= r + Len(n)
            BY <3>1, <1>3, <1>4, Zenon
        <3> QED BY <2>2, <3>1, <3>2, <1>3, <1>6, <1>9, Zenon
    <2> QED BY <2>1, <2>2
<1>11. \A k \in 1..Len(g) :
          /\ r <= g[k].frontier /\ g[k].frontier <= r + Len(n)
          /\ \A j \in 1..Len(n) : n[j] < g[k].arrival <=> r + j <= g[k].frontier
    <2> TAKE k \in 1..Len(g)
    <2>1. CASE k \in 1..Len(h) /\ g[k] = h[k]
        BY <2>1, <1>4, Zenon
    <2>2. CASE g[k] = e
        <3>1. \A j \in 1..Len(n) : n[j] < a /\ r + j <= r + Len(n)
            BY <1>1, <1>2
        <3> QED BY <2>2, <3>1, <1>1, <1>6
    <2> QED BY <2>1, <2>2, <1>9
<1>12. \A j \in 1..Len(n) : n[j] < a + 1
    BY <1>1, <1>2
<1>13. a + 1 \in Nat
    BY <1>1
<1>14. LaneInv(n, g, r, a + 1)
    BY <1>1, <1>2, <1>8, <1>10, <1>11, <1>12, <1>13, Zenon DEF LaneInv
<1> QED BY <1>5, <1>7, <1>14, Zenon

\* The front of the high lane leaves, popped or evicted.
LEMMA HighLeaves ==
    ASSUME NEW n, NEW h, NEW r, NEW a, LaneInv(n, h, r, a), h # <<>>
    PROVE  LaneInv(n, Tail(h), r, a)
<1> USE SMTT(60)
<1>1. /\ n \in Seq(Nat) /\ h \in Seq(HighItem) /\ r \in Nat /\ a \in Nat
      /\ Len(n) \in Nat /\ Len(h) \in Nat /\ \A j \in 1..Len(n) : n[j] \in Nat
      /\ \A k \in 1..Len(h) : h[k].arrival \in Nat /\ h[k].frontier \in Nat
    <2>1. n \in Seq(Nat) /\ h \in Seq(HighItem) /\ r \in Nat /\ a \in Nat
        BY Zenon DEF LaneInv
    <2> QED BY <2>1, LaneTypes, Zenon
<1>2. \A j \in 1..Len(n) : n[j] < a /\ \A k \in 1..Len(n) : j < k => n[j] < n[k]
    BY Zenon DEF LaneInv
<1>3. \A j \in 1..Len(h) : h[j].arrival < a /\ \A k \in 1..Len(h) : j < k =>
          h[j].arrival < h[k].arrival /\ h[j].frontier <= h[k].frontier
    BY Zenon DEF LaneInv
<1>4. \A k \in 1..Len(h) :
          /\ r <= h[k].frontier /\ h[k].frontier <= r + Len(n)
          /\ \A j \in 1..Len(n) : n[j] < h[k].arrival <=> r + j <= h[k].frontier
    BY Zenon DEF LaneInv
<1>5. PICK g : g = Tail(h)
    BY Zenon
<1>6. /\ g \in Seq(HighItem) /\ Len(g) = Len(h) - 1
      /\ \A k \in 1..Len(g) : k + 1 \in 1..Len(h) /\ g[k] = h[k + 1]
    BY <1>1, <1>5, TailFacts
<1>7. \A j \in 1..Len(g) : g[j].arrival < a /\ \A k \in 1..Len(g) : j < k =>
          g[j].arrival < g[k].arrival /\ g[j].frontier <= g[k].frontier
    <2> TAKE j \in 1..Len(g)
    <2>1. ASSUME NEW k \in 1..Len(g), j < k
          PROVE  g[j].arrival < g[k].arrival /\ g[j].frontier <= g[k].frontier
        <3>1. j + 1 < k + 1
            BY <2>1
        <3> QED BY <3>1, <1>3, <1>6, Zenon
    <2> QED BY <2>1, <1>3, <1>6, Zenon
<1>8. \A k \in 1..Len(g) :
          /\ r <= g[k].frontier /\ g[k].frontier <= r + Len(n)
          /\ \A j \in 1..Len(n) : n[j] < g[k].arrival <=> r + j <= g[k].frontier
    BY <1>4, <1>6, Zenon
<1>9. LaneInv(n, g, r, a)
    BY <1>1, <1>2, <1>6, <1>7, <1>8, Zenon DEF LaneInv
<1> QED BY <1>5, <1>9, Zenon

\* The front of the normal lane leaves, and is no younger than a high message
\* still there (pop_item takes it only when there is none, enqueue by the frontier).
LEMMA NormalLeaves ==
    ASSUME NEW n, NEW h, NEW r, NEW a, LaneInv(n, h, r, a), n # <<>>,
           h # <<>> => Head(h).frontier # r
    PROVE  LaneInv(Tail(n), h, r + 1, a)
<1> USE SMTT(60)
<1>1. /\ n \in Seq(Nat) /\ h \in Seq(HighItem) /\ r \in Nat /\ a \in Nat
      /\ Len(n) \in Nat /\ Len(h) \in Nat /\ \A j \in 1..Len(n) : n[j] \in Nat
      /\ \A k \in 1..Len(h) : h[k].arrival \in Nat /\ h[k].frontier \in Nat
    <2>1. n \in Seq(Nat) /\ h \in Seq(HighItem) /\ r \in Nat /\ a \in Nat
        BY Zenon DEF LaneInv
    <2> QED BY <2>1, LaneTypes, Zenon
<1>2. \A j \in 1..Len(n) : n[j] < a /\ \A k \in 1..Len(n) : j < k => n[j] < n[k]
    BY Zenon DEF LaneInv
<1>3. \A j \in 1..Len(h) : h[j].arrival < a /\ \A k \in 1..Len(h) : j < k =>
          h[j].arrival < h[k].arrival /\ h[j].frontier <= h[k].frontier
    BY Zenon DEF LaneInv
<1>4. \A k \in 1..Len(h) :
          /\ r <= h[k].frontier /\ h[k].frontier <= r + Len(n)
          /\ \A j \in 1..Len(n) : n[j] < h[k].arrival <=> r + j <= h[k].frontier
    BY Zenon DEF LaneInv
<1>5. PICK m : m = Tail(n)
    BY Zenon
<1>6. /\ m \in Seq(Nat) /\ Len(m) = Len(n) - 1
      /\ \A k \in 1..Len(m) : k + 1 \in 1..Len(n) /\ m[k] = n[k + 1]
    BY <1>1, <1>5, TailFacts, Zenon
<1>7. ASSUME NEW k \in 1..Len(h) PROVE r + 1 <= h[k].frontier /\ h[k].frontier <= r + 1 + Len(m)
    <2>1. h # <<>> /\ Head(h) = h[1] /\ 1 \in 1..Len(h)
        BY <1>1, TailFacts
    <2>2. r <= h[1].frontier /\ h[1].frontier # r
        BY <2>1, <1>4, Zenon
    <2>3. h[1].frontier <= h[k].frontier
        BY <2>1, <1>1, <1>3
    <2> QED BY <2>1, <2>2, <2>3, <1>1, <1>4, <1>6
<1>8. \A j \in 1..Len(m) : m[j] < a /\ \A k \in 1..Len(m) : j < k => m[j] < m[k]
    <2> TAKE j \in 1..Len(m)
    <2>1. ASSUME NEW k \in 1..Len(m), j < k PROVE m[j] < m[k]
        <3>1. j + 1 < k + 1
            BY <2>1
        <3> QED BY <3>1, <1>2, <1>6, Zenon
    <2> QED BY <2>1, <1>2, <1>6
<1>9. ASSUME NEW k \in 1..Len(h), NEW j \in 1..Len(m)
      PROVE  m[j] < h[k].arrival <=> r + 1 + j <= h[k].frontier
    <2>1. n[j + 1] < h[k].arrival <=> r + (j + 1) <= h[k].frontier
        BY <1>4, <1>6, Zenon
    <2>2. m[j] = n[j + 1] /\ r + (j + 1) = r + 1 + j
        BY <1>1, <1>6
    <2> QED BY <2>1, <2>2, Zenon
<1>10. LaneInv(m, h, r + 1, a)
    BY <1>1, <1>3, <1>6, <1>7, <1>8, <1>9 DEF LaneInv
<1> QED BY <1>5, <1>10, Zenon

\* A high message that arrived before all normal ones that are left is the oldest.
LEMMA OldestHigh ==
    ASSUME NEW n, NEW h, NEW r, NEW a, LaneInv(n, h, r, a), h # <<>>, Head(h).frontier = r
    PROVE  /\ \A j \in 1..Len(n) : h[1].arrival <= n[j]
           /\ \A k \in 1..Len(h) : h[1].arrival <= h[k].arrival
<1> USE SMTT(60)
<1>1. /\ n \in Seq(Nat) /\ h \in Seq(HighItem) /\ r \in Nat /\ a \in Nat
      /\ Len(n) \in Nat /\ Len(h) \in Nat /\ \A j \in 1..Len(n) : n[j] \in Nat
      /\ \A k \in 1..Len(h) : h[k].arrival \in Nat /\ h[k].frontier \in Nat
    <2>1. n \in Seq(Nat) /\ h \in Seq(HighItem) /\ r \in Nat /\ a \in Nat
        BY Zenon DEF LaneInv
    <2> QED BY <2>1, LaneTypes, Zenon
<1>2. \A j \in 1..Len(n) : n[j] < a /\ \A k \in 1..Len(n) : j < k => n[j] < n[k]
    BY Zenon DEF LaneInv
<1>3. \A j \in 1..Len(h) : h[j].arrival < a /\ \A k \in 1..Len(h) : j < k =>
          h[j].arrival < h[k].arrival /\ h[j].frontier <= h[k].frontier
    BY Zenon DEF LaneInv
<1>4. \A k \in 1..Len(h) :
          /\ r <= h[k].frontier /\ h[k].frontier <= r + Len(n)
          /\ \A j \in 1..Len(n) : n[j] < h[k].arrival <=> r + j <= h[k].frontier
    BY Zenon DEF LaneInv
<1>5. Head(h) = h[1] /\ 1 \in 1..Len(h)
    BY <1>1, TailFacts
<1>6. ASSUME NEW j \in 1..Len(n) PROVE h[1].arrival <= n[j]
    <2>1. ~(r + j <= h[1].frontier)
        BY <1>1, <1>5
    <2>2. ~(n[j] < h[1].arrival)
        BY <2>1, <1>4, <1>5, Zenon
    <2>3. n[j] \in Nat /\ h[1].arrival \in Nat
        BY <1>1, <1>5, Zenon
    <2> QED BY <2>2, <2>3
<1>7. ASSUME NEW k \in 1..Len(h) PROVE h[1].arrival <= h[k].arrival
    BY <1>1, <1>3, <1>5
<1> QED BY <1>6, <1>7

\* Otherwise the front of the normal lane is.
LEMMA OldestNormal ==
    ASSUME NEW n, NEW h, NEW r, NEW a, LaneInv(n, h, r, a), n # <<>>,
           h # <<>> => Head(h).frontier # r
    PROVE  /\ \A j \in 1..Len(n) : n[1] <= n[j]
           /\ \A k \in 1..Len(h) : n[1] <= h[k].arrival
<1> USE SMTT(60)
<1>1. /\ n \in Seq(Nat) /\ h \in Seq(HighItem) /\ r \in Nat /\ a \in Nat
      /\ Len(n) \in Nat /\ Len(h) \in Nat /\ \A j \in 1..Len(n) : n[j] \in Nat
      /\ \A k \in 1..Len(h) : h[k].arrival \in Nat /\ h[k].frontier \in Nat
    <2>1. n \in Seq(Nat) /\ h \in Seq(HighItem) /\ r \in Nat /\ a \in Nat
        BY Zenon DEF LaneInv
    <2> QED BY <2>1, LaneTypes, Zenon
<1>2. \A j \in 1..Len(n) : n[j] < a /\ \A k \in 1..Len(n) : j < k => n[j] < n[k]
    BY Zenon DEF LaneInv
<1>3. \A j \in 1..Len(h) : h[j].arrival < a /\ \A k \in 1..Len(h) : j < k =>
          h[j].arrival < h[k].arrival /\ h[j].frontier <= h[k].frontier
    BY Zenon DEF LaneInv
<1>4. \A k \in 1..Len(h) :
          /\ r <= h[k].frontier /\ h[k].frontier <= r + Len(n)
          /\ \A j \in 1..Len(n) : n[j] < h[k].arrival <=> r + j <= h[k].frontier
    BY Zenon DEF LaneInv
<1>5. 1 \in 1..Len(n)
    BY <1>1, TailFacts
<1>6. ASSUME NEW j \in 1..Len(n) PROVE n[1] <= n[j]
    BY <1>1, <1>2, <1>5
<1>7. ASSUME NEW k \in 1..Len(h) PROVE n[1] <= h[k].arrival
    <2>1. h # <<>> /\ Head(h) = h[1] /\ 1 \in 1..Len(h)
        BY <1>1, TailFacts
    <2>2. r <= h[1].frontier /\ h[1].frontier # r
        BY <2>1, <1>4, Zenon
    <2>3. h[1].frontier <= h[k].frontier
        BY <2>1, <1>1, <1>3
    <2>4. r + 1 <= h[k].frontier
        BY <2>1, <2>2, <2>3, <1>1
    <2>5. n[1] < h[k].arrival
        BY <2>4, <1>4, <1>5, Zenon
    <2>6. n[1] \in Nat /\ h[k].arrival \in Nat
        BY <1>1, <1>5, Zenon
    <2> QED BY <2>5, <2>6
<1> QED BY <1>6, <1>7, Zenon

\* The end of enqueue: the arrival is appended to lanes that are in order.
LEMMA AppendedOK ==
    ASSUME NEW n, NEW h, NEW r, NEW urgent, LaneInv(n, h, r, arrivals),
           Appended(n, h, r, urgent), removed' = r, arrivals' = arrivals + 1
    PROVE  /\ LaneInv(normal, high, removed, arrivals)'
           /\ Held' = Len(n) + Len(h) + 1
           /\ \A j \in 1..Len(n) : n[j] \in Arrivals'
           /\ \A k \in 1..Len(h) : h[k].arrival \in Arrivals'
<1> USE SMTT(60)
<1>1. n \in Seq(Nat) /\ h \in Seq(HighItem) /\ r \in Nat /\ arrivals \in Nat
    BY Zenon DEF LaneInv
<1>2. Len(n) \in Nat /\ Len(h) \in Nat
    BY <1>1
<1>3. CASE urgent
    <2>1. PICK e : e = [frontier |-> r + Len(n), arrival |-> arrivals]
        BY Zenon
    <2>2. high' = Append(h, e) /\ normal' = n /\ e \in HighItem
        BY <2>1, <1>1, <1>2, <1>3 DEF Appended, HighItem
    <2>3. LaneInv(n, Append(h, e), r, arrivals + 1)
        BY <2>1, HighArrives, Zenon
    <2>4. Len(high') = Len(h) + 1 /\ \A k \in 1..Len(h) : k \in 1..Len(high') /\ high'[k] = h[k]
        BY <2>2, <1>1, <1>2, AppendFacts
    <2>5. Held' = Len(n) + Len(h) + 1
        BY <2>2, <2>4, <1>2 DEF Held
    <2>6. \A j \in 1..Len(n) : n[j] \in Arrivals'
        BY <2>2, Zenon DEF Arrivals
    <2>7. \A k \in 1..Len(h) : h[k].arrival \in Arrivals'
        BY <2>4, Zenon DEF Arrivals
    <2> QED BY <2>2, <2>3, <2>5, <2>6, <2>7, Zenon
<1>4. CASE ~urgent
    <2>2. normal' = Append(n, arrivals) /\ high' = h
        BY <1>4, Zenon DEF Appended
    <2>3. LaneInv(Append(n, arrivals), h, r, arrivals + 1)
        BY NormalArrives, Zenon
    <2>4. /\ Len(normal') = Len(n) + 1
          /\ \A k \in 1..Len(n) : k \in 1..Len(normal') /\ normal'[k] = n[k]
        BY <2>2, <1>1, <1>2, AppendFacts
    <2>5. Held' = Len(n) + Len(h) + 1
        BY <2>2, <2>4, <1>2 DEF Held
    <2>6. \A j \in 1..Len(n) : n[j] \in Arrivals'
        BY <2>4, Zenon DEF Arrivals
    <2>7. \A k \in 1..Len(h) : h[k].arrival \in Arrivals'
        BY <2>2, Zenon DEF Arrivals
    <2> QED BY <2>2, <2>3, <2>5, <2>6, <2>7, Zenon
<1> QED BY <1>3, <1>4, Zenon

\* The critical section of enqueue keeps the lanes in order and evicts the oldest.
LEMMA AdmitOK ==
    ASSUME MailInv, NEW p \in Producer, Admit(p)
    PROVE  /\ MailInv'
           /\ arrivals' > arrivals =>
                 \A gone \in Arrivals \ Arrivals' : \A kept \in Arrivals : gone <= kept
<1> USE SMTT(60)
<1>1. LaneInv(normal, high, removed, arrivals) /\ RoomInv
    BY Zenon DEF MailInv
<1>2. /\ normal \in Seq(Nat) /\ high \in Seq(HighItem) /\ removed \in Nat /\ arrivals \in Nat
      /\ Len(normal) \in Nat /\ Len(high) \in Nat
    BY <1>1 DEF LaneInv
<1>3. LaneCapacity \in Nat /\ LaneCapacity > 0 /\ Len(normal) + Len(high) <= LaneCapacity
    BY <1>1, MailboxBounds DEF RoomInv, Held
<1>4. UNCHANGED <<sealed, closing>> /\ (~sealed => closing = "open")
    BY <1>1, Zenon DEF Admit, RoomInv
<1>5. CASE UNCHANGED <<normal, high, removed, arrivals>>
    BY <1>1, <1>2, <1>4, <1>5 DEF MailInv, RoomInv, Held
<1>6. ASSUME ~sealed, NEW n, NEW h, NEW r, NEW urgent, LaneInv(n, h, r, arrivals),
             Appended(n, h, r, urgent), removed' = r, arrivals' = arrivals + 1,
             Len(n) + Len(h) < LaneCapacity
      PROVE  MailInv'
    <2>1. LaneInv(normal, high, removed, arrivals)' /\ Held' = Len(n) + Len(h) + 1
        BY <1>6, AppendedOK, Zenon
    <2>2. Len(n) \in Nat /\ Len(h) \in Nat
        BY <1>6, LaneTypes, Zenon
    <2>3. Held' <= LaneCapacity
        BY <2>1, <2>2, <1>3, <1>6
    <2> QED BY <2>1, <2>3, <1>1, <1>4, <1>6, Zenon DEF MailInv, RoomInv
<1>7. ASSUME NEW urgent, ~sealed, Full, EvictOldest(urgent), arrivals' = arrivals + 1
      PROVE  /\ MailInv'
             /\ \A gone \in Arrivals \ Arrivals' : \A kept \in Arrivals : gone <= kept
    <2>1. CASE high # <<>> /\ Head(high).frontier = removed
        <3>1. PICK n, h, r : n = normal /\ h = Tail(high) /\ r = removed
            BY Zenon
        <3>2. Appended(n, h, r, urgent) /\ removed' = r
            BY <2>1, <3>1, <1>7, Zenon DEF EvictOldest
        <3>3. LaneInv(n, h, r, arrivals)
            BY <2>1, <3>1, <1>1, HighLeaves, Zenon
        <3>4. /\ Len(h) = Len(high) - 1
              /\ \A k \in 1..Len(h) : h[k] = high[k + 1]
            BY <2>1, <3>1, <1>2, TailFacts, Zenon
        <3>5. Len(n) + Len(h) < LaneCapacity
            <4>1. Len(normal) + (Len(high) - 1) < LaneCapacity
                BY <1>2, <1>3
            <4> QED BY <3>1, <3>4, <4>1, Zenon
        <3>6. MailInv'
            BY <3>2, <3>3, <3>5, <1>6, <1>7, Zenon
        <3>7. /\ \A j \in 1..Len(n) : n[j] \in Arrivals'
              /\ \A k \in 1..Len(h) : h[k].arrival \in Arrivals'
            BY <3>2, <3>3, <1>7, AppendedOK, Zenon
        <3>8. ASSUME NEW gone \in Arrivals \ Arrivals' PROVE gone = high[1].arrival
            <4>1. PICK k \in 1..Len(high) : gone = high[k].arrival
                BY <3>1, <3>7, Zenon DEF Arrivals
            <4>2. ASSUME k # 1 PROVE FALSE
                <5>1. k - 1 \in 1..Len(h) /\ (k - 1) + 1 = k
                    BY <3>4, <4>2, <1>2
                <5>2. h[k - 1] = high[k]
                    BY <3>4, <5>1, Zenon
                <5> QED BY <3>7, <4>1, <5>1, <5>2, Zenon
            <4> QED BY <4>1, <4>2, Zenon
        <3>9. \A kept \in Arrivals : high[1].arrival <= kept
            BY <2>1, <1>1, OldestHigh, Zenon DEF Arrivals
        <3> QED BY <3>6, <3>8, <3>9, Zenon
    <2>2. CASE ~(high # <<>> /\ Head(high).frontier = removed)
        <3>1. PICK n, h, r : n = Tail(normal) /\ h = high /\ r = removed + 1
            BY Zenon
        <3>2. Appended(n, h, r, urgent) /\ removed' = r
            BY <2>2, <3>1, <1>7, Zenon DEF EvictOldest
        <3>3. normal # <<>>
            <4> SUFFICES ASSUME normal = <<>> PROVE FALSE
                OBVIOUS
            <4>1. Len(normal) = 0 /\ Len(high) > 0 /\ high # <<>>
                BY <1>2, <1>3, <1>7 DEF Full, Held
            <4>2. Head(high) = high[1] /\ 1 \in 1..Len(high)
                BY <4>1, <1>2, TailFacts
            <4>3. removed <= high[1].frontier /\ high[1].frontier <= removed + Len(normal)
                BY <4>2, <1>1, Zenon DEF LaneInv
            <4>4. high[1].frontier \in Nat
                BY <4>2, <1>1, LaneTypes, Zenon
            <4> QED BY <2>2, <4>1, <4>2, <4>3, <4>4, <1>2
        <3>4. LaneInv(n, h, r, arrivals)
            BY <2>2, <3>1, <3>3, <1>1, NormalLeaves, Zenon
        <3>5. /\ Len(n) = Len(normal) - 1
              /\ \A k \in 1..Len(n) : n[k] = normal[k + 1]
            BY <3>1, <3>3, <1>2, TailFacts, Zenon
        <3>6. Len(n) + Len(h) < LaneCapacity
            <4>1. (Len(normal) - 1) + Len(high) < LaneCapacity
                BY <1>2, <1>3
            <4> QED BY <3>1, <3>5, <4>1, Zenon
        <3>7. MailInv'
            BY <3>2, <3>4, <3>6, <1>6, <1>7, Zenon
        <3>8. /\ \A j \in 1..Len(n) : n[j] \in Arrivals'
              /\ \A k \in 1..Len(h) : h[k].arrival \in Arrivals'
            BY <3>2, <3>4, <1>7, AppendedOK, Zenon
        <3>9. ASSUME NEW gone \in Arrivals \ Arrivals' PROVE gone = normal[1]
            <4>1. PICK k \in 1..Len(normal) : gone = normal[k]
                BY <3>1, <3>8, Zenon DEF Arrivals
            <4>2. ASSUME k # 1 PROVE FALSE
                <5>1. k - 1 \in 1..Len(n) /\ (k - 1) + 1 = k
                    BY <3>5, <4>2, <1>2
                <5>2. n[k - 1] = normal[k]
                    BY <3>5, <5>1, Zenon
                <5> QED BY <3>8, <4>1, <5>1, <5>2, Zenon
            <4> QED BY <4>1, <4>2, Zenon
        <3>10. \A kept \in Arrivals : normal[1] <= kept
            BY <2>2, <3>3, <1>1, OldestNormal, Zenon DEF Arrivals
        <3> QED BY <3>7, <3>9, <3>10, Zenon
    <2> QED BY <2>1, <2>2, Zenon
<1>8. ASSUME NEW urgent, ~sealed, ~Full, Appended(normal, high, removed, urgent),
             UNCHANGED removed, arrivals' = arrivals + 1
      PROVE  /\ MailInv'
             /\ \A gone \in Arrivals \ Arrivals' : \A kept \in Arrivals : gone <= kept
    <2>1. PICK n, h, r : n = normal /\ h = high /\ r = removed
        BY Zenon
    <2>2. LaneInv(n, h, r, arrivals) /\ Appended(n, h, r, urgent) /\ removed' = r
        BY <2>1, <1>1, <1>8, Zenon
    <2>3. Len(n) + Len(h) < LaneCapacity
        BY <2>1, <1>2, <1>3, <1>8 DEF Full, Held
    <2>4. MailInv'
        BY <2>2, <2>3, <1>6, <1>8, Zenon
    <2>5. /\ \A j \in 1..Len(n) : n[j] \in Arrivals'
          /\ \A k \in 1..Len(h) : h[k].arrival \in Arrivals'
        BY <2>2, <1>8, AppendedOK, Zenon
    <2>6. Arrivals \subseteq Arrivals'
        BY <2>1, <2>5, Zenon DEF Arrivals
    <2> QED BY <2>4, <2>6, Zenon
<1>9. PICK urgent : urgent = send[p].urgent
    BY Zenon
<1>10. \/ UNCHANGED <<normal, high, removed, arrivals>>
       \/ ~sealed /\ Full /\ EvictOldest(urgent) /\ arrivals' = arrivals + 1
       \/ /\ ~sealed /\ ~Full /\ Appended(normal, high, removed, urgent)
          /\ UNCHANGED removed /\ arrivals' = arrivals + 1
    BY <1>9, Zenon DEF Admit
<1>11. arrivals' = arrivals => ~(arrivals' > arrivals)
    BY <1>2
<1> QED BY <1>5, <1>7, <1>8, <1>10, <1>11, Zenon

\* And so does every step.
LEMMA MailboxStep ==
    ASSUME MailInv, [MailboxNext]_mailVars
    PROVE  /\ MailInv'
           /\ arrivals' > arrivals =>
                 \A gone \in Arrivals \ Arrivals' : \A kept \in Arrivals : gone <= kept
<1> USE SMTT(60)
<1>1. LaneInv(normal, high, removed, arrivals) /\ RoomInv
    BY Zenon DEF MailInv
<1>2. /\ normal \in Seq(Nat) /\ high \in Seq(HighItem) /\ removed \in Nat /\ arrivals \in Nat
      /\ Len(normal) \in Nat /\ Len(high) \in Nat
    BY <1>1 DEF LaneInv
<1>3. arrivals' = arrivals => ~(arrivals' > arrivals)
    BY <1>2
<1>4. LaneCapacity \in Nat /\ LaneCapacity > 0 /\ Len(normal) + Len(high) <= LaneCapacity
    BY <1>1, MailboxBounds DEF RoomInv, Held
<1>5. CASE UNCHANGED <<normal, high, removed, arrivals, sealed, closing>>
    BY <1>1, <1>3, <1>5, Zenon DEF MailInv, RoomInv, Held
<1>6. ASSUME NEW p \in Producer, Admit(p)
      PROVE  /\ MailInv'
             /\ arrivals' > arrivals =>
                   \A gone \in Arrivals \ Arrivals' : \A kept \in Arrivals : gone <= kept
    BY <1>6, AdmitOK, Zenon
<1>7. CASE PopItem
    <2>1. UNCHANGED <<sealed, closing, arrivals>> /\ closing # "drained"
        <3>1. closing = "drained" => Held = 0
            BY <1>1 DEF RoomInv, Held
        <3> QED BY <3>1, <1>7 DEF PopItem
    <2>2. CASE high # <<>> /\ high' = Tail(high) /\ UNCHANGED <<normal, removed>>
        <3>1. LaneInv(normal, high, removed, arrivals)'
            BY <2>1, <2>2, <1>1, HighLeaves, Zenon
        <3>2. Len(high') = Len(high) - 1
            BY <2>2, <1>2, TailFacts, Zenon
        <3>3. Held' <= LaneCapacity
            BY <2>2, <3>2, <1>2, <1>4 DEF Held
        <3> QED BY <2>1, <3>1, <3>3, <1>1, <1>3, Zenon DEF MailInv, RoomInv
    <2>3. CASE high = <<>> /\ normal' = Tail(normal) /\ removed' = removed + 1 /\ UNCHANGED high
        <3>0. normal # <<>>
            BY <2>3, <1>7 DEF PopItem, Held
        <3>1. LaneInv(normal, high, removed, arrivals)'
            BY <2>1, <2>3, <3>0, <1>1, NormalLeaves, Zenon
        <3>2. Len(normal') = Len(normal) - 1
            BY <2>3, <3>0, <1>2, TailFacts, Zenon
        <3>3. Held' <= LaneCapacity
            BY <2>3, <3>2, <1>2, <1>4 DEF Held
        <3> QED BY <2>1, <3>1, <3>3, <1>1, <1>3, Zenon DEF MailInv, RoomInv
    <2> QED BY <2>2, <2>3, <1>7, Zenon DEF PopItem
<1>8. CASE Seal
    <2>1. UNCHANGED <<normal, high, removed, arrivals>> /\ sealed' = TRUE /\ closing' = "sealed"
        BY <1>8, Zenon DEF Seal
    <2> QED BY <2>1, <1>1, <1>3, Zenon DEF MailInv, RoomInv, Held
<1>9. CASE NotifySealed
    <2>1. /\ UNCHANGED <<normal, high, removed, arrivals, sealed>>
          /\ closing = "sealed" /\ closing' = "told"
        BY <1>9, Zenon DEF NotifySealed
    <2> QED BY <2>1, <1>1, <1>3, Zenon DEF MailInv, RoomInv, Held
<1>10. CASE Drain
    <2>1. /\ normal' = <<>> /\ high' = <<>> /\ closing = "told" /\ closing' = "drained"
          /\ UNCHANGED <<removed, arrivals, sealed>>
        BY <1>10, Zenon DEF Drain
    <2>2. LaneInv(<<>>, <<>>, removed, arrivals) /\ Len(<<>>) = 0
        BY <1>2 DEF LaneInv
    <2>3. Held' <= LaneCapacity
        BY <2>1, <2>2, <1>4 DEF Held
    <2> QED BY <2>1, <2>2, <2>3, <1>1, <1>3, Zenon DEF MailInv, RoomInv
<1> QED BY <1>5, <1>6, <1>7, <1>8, <1>9, <1>10, Zenon
    DEF MailboxNext, mailVars, NotifyPopped, Retry, Begin

\* The invariant holds throughout.
LEMMA LanesKept == MailboxSpec => []MailInv
<1>1. MailboxInit => MailInv
    <2> SUFFICES ASSUME MailboxInit PROVE MailInv
        OBVIOUS
    <2>1. LaneInv(<<>>, <<>>, 0, 0) /\ Len(<<>>) = 0
        BY DEF LaneInv
    <2>2. LaneInv(normal, high, removed, arrivals)
        BY <2>1, Zenon DEF MailboxInit
    <2>3. Held = 0
        BY <2>1 DEF MailboxInit, Held
    <2>4. Held <= LaneCapacity
        BY <2>3, MailboxBounds
    <2>5. /\ closing \in {"open", "sealed", "told", "drained"} /\ sealed \in BOOLEAN
          /\ closing = "open" /\ closing # "drained"
        BY Zenon DEF MailboxInit
    <2> QED BY <2>2, <2>4, <2>5, Zenon DEF MailInv, RoomInv
<1>2. MailInv /\ [MailboxNext]_mailVars => MailInv'
    BY MailboxStep, Zenon
<1> QED BY <1>1, <1>2, PTL DEF MailboxSpec

\* For any number of producers and any capacity: the lanes never hold more than the
\* capacity, and nothing once close has emptied them (enqueue, close).
THEOREM RoomAlwaysKept == MailboxSpec => []RoomKept
<1>1. MailInv => RoomKept
    <2> SUFFICES ASSUME MailInv PROVE RoomKept
        OBVIOUS
    <2>1. RoomInv /\ Len(<<>>) = 0
        BY Zenon DEF MailInv
    <2> QED BY <2>1 DEF RoomInv, RoomKept, Held
<1> QED BY <1>1, LanesKept, PTL

\* "Delivery priority must not redefine oldest", for any number of producers and
\* any capacity: the message enqueue drops is the oldest of both lanes, which only
\* the frontiers tell (enqueue).
THEOREM OldestAlwaysEvicted == MailboxSpec => EvictsOldest
<1>1. MailInv /\ [MailboxNext]_mailVars =>
         [arrivals' > arrivals =>
             \A gone \in Arrivals \ Arrivals' : \A kept \in Arrivals : gone <= kept]_mailVars
    BY MailboxStep, Zenon
<1> QED BY <1>1, LanesKept, PTL DEF MailboxSpec, EvictsOldest
=============================================================================
