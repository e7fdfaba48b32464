---------------------------- MODULE TableProofs ----------------------------
(***************************************************************************)
(* Proofs about the tables of a node that outlive the actors and calls     *)
(* they are about, for any number of those: the two ends of watches        *)
(* (DeathWatch), the deduplication table of the durable inbox (Dedup), the *)
(* service table (Receptionist) and the mirrors of a source (WireMirror).  *)
(***************************************************************************)
EXTENDS DeathWatch, Dedup, Receptionist, WireMirror, FiniteSetTheorems, TLAPS

-----------------------------------------------------------------------------
(* Watches *)

Made == DOMAIN made

Unlinked(e) == \E u \in unlinking : u[1] = e

WatchTypeOK ==
    /\ \E n \in Nat : Made = 1..n
    /\ made \in [Made -> Actor \X Actor]
    /\ incoming \in [Actor -> [Actor -> Made \cup {NoEdge}]]
    /\ outgoing \in [Actor -> [Actor -> Made \cup {NoEdge}]]
    /\ lifecycle \in [Actor -> {"open", "suspended", "closed"}]
    /\ gone \subseteq {a \in Actor : lifecycle[a] = "closed"}
    /\ unlinking \subseteq Made \X {"cancel", "target", "watcher"}
    /\ delivering \subseteq Made /\ cancelled \subseteq Made
    /\ told \subseteq Made /\ failures \subseteq Made /\ dropped \subseteq Made

\* An end is held in the place of its subscription; an unlink that has only the
\* watcher's end left has removed the target's.
EndsPlaced ==
    /\ \A t, w \in Actor : incoming[t][w] # NoEdge =>
          Target(incoming[t][w]) = t /\ Watcher(incoming[t][w]) = w
    /\ \A t, w \in Actor : outgoing[w][t] # NoEdge =>
          Target(outgoing[w][t]) = t /\ Watcher(outgoing[w][t]) = w
    /\ \A e \in Made : <<e, "watcher">> \in unlinking => incoming[Target(e)][Watcher(e)] # e

\* Deliveries are of targets that are gone; what is being removed or was cancelled
\* was given up by its watcher or lost its target; and until then the target has it.
EndsAccounted ==
    /\ \A e \in delivering \cup told \cup failures \cup dropped : Target(e) \in gone
    /\ delivering \cap (told \cup failures \cup dropped) = {}
    /\ \A e \in Made : Unlinked(e) \/ e \in cancelled =>
          /\ e \in ended \/ Target(e) \in gone
          /\ e \in delivering => e \in ended
    /\ \A e \in Made \ ended :
          Target(e) \notin gone => incoming[Target(e)][Watcher(e)] = e

WatchInv == WatchTypeOK /\ EndsPlaced /\ EndsAccounted /\ EndsAgree /\ WatchersHear

\* The inductive invariant.
LEMMA SubscriptionsKept == WatchSpec => []WatchInv
<1> USE DEF WatchInv, Made, NoEdge
<1>1. WatchInit => WatchInv
  <2> SUFFICES ASSUME WatchInit PROVE WatchInv
    OBVIOUS
  <2> USE DEF WatchInit
  <2>1. Made = 1..0
    OBVIOUS
  <2>2. WatchTypeOK
    BY <2>1 DEF WatchTypeOK, NoEdges
  <2> QED
    BY <2>1, <2>2 DEF EndsPlaced, EndsAccounted, EndsAgree, WatchersHear, NoEdges, Unlinked
<1>2. WatchInv /\ [WatchNext]_watchVars => WatchInv'
  <2> SUFFICES ASSUME WatchInv, [WatchNext]_watchVars PROVE WatchInv'
    OBVIOUS
  <2>1. ASSUME NEW t \in Actor, NEW w \in Actor, Watch(t, w) PROVE WatchInv'
    <3>1. PICK n \in Nat : Made = 1..n
      BY Zenon DEF WatchTypeOK
    <3>2. PICK e \in Nat : e = n + 1 /\ e = Cardinality(Made) + 1
      <4>1. Cardinality(1..n) = n
        BY FS_Interval
      <4> QED BY <3>1, <4>1
    <3>3. /\ made' = [d \in 1..e |-> IF d = e THEN <<t, w>> ELSE made[d]]
          /\ incoming' = [incoming EXCEPT ![t][w] = e]
          /\ outgoing' = [outgoing EXCEPT ![w][t] = e]
          /\ t # w /\ incoming[t][w] = NoEdge /\ lifecycle[t] = "open"
          /\ UNCHANGED <<lifecycle, gone, cancelled, unlinking, delivering, told, failures, dropped, ended>>
      BY <2>1, <3>2, Zenon DEF Watch, outcomes
    <3>4. /\ Made' = Made \cup {e} /\ e \notin Made /\ e # NoEdge /\ Made' = 1..(n + 1)
          /\ made'[e] = <<t, w>> /\ \A d \in Made : made'[d] = made[d] /\ d # e
      BY <3>1, <3>2, <3>3
    <3>5. /\ \A x, y \in Actor : incoming'[x][y] = IF x = t /\ y = w THEN e ELSE incoming[x][y]
          /\ \A x, y \in Actor : outgoing'[y][x] = IF x = t /\ y = w THEN e ELSE outgoing[y][x]
          /\ incoming' \in [Actor -> [Actor -> Made' \cup {NoEdge}]]
          /\ outgoing' \in [Actor -> [Actor -> Made' \cup {NoEdge}]]
      BY <3>3, <3>4 DEF WatchTypeOK
    <3>6. \A d \in Made : Target(d)' = Target(d) /\ Watcher(d)' = Watcher(d)
      BY <3>4, Zenon DEF Target, Watcher
    <3>7. Target(e)' = t /\ Watcher(e)' = w
      BY <3>4 DEF Target, Watcher
    <3>8. made \in [Made -> Actor \X Actor] /\ made' \in [Made' -> Actor \X Actor]
      BY <3>1, <3>2, <3>3, <3>4, Zenon DEF WatchTypeOK
    <3>9. /\ unlinking' = unlinking /\ unlinking \subseteq (Made \X {"cancel", "target", "watcher"})
          /\ delivering' = delivering /\ delivering \subseteq Made
          /\ cancelled' = cancelled /\ cancelled \subseteq Made
          /\ told' = told /\ told \subseteq Made /\ failures' = failures /\ failures \subseteq Made
          /\ dropped' = dropped /\ dropped \subseteq Made
          /\ gone' = gone /\ ended' = ended /\ lifecycle' = lifecycle
          /\ lifecycle \in [Actor -> {"open", "suspended", "closed"}]
          /\ gone \subseteq {a \in Actor : lifecycle[a] = "closed"} /\ t \notin gone
      BY <3>3, Zenon DEF WatchTypeOK
    <3>10. \A d : Busy(d)' = Busy(d) /\ Unlinked(d)' = Unlinked(d)
      BY <3>9, Zenon DEF Busy, Unlinked
    <3>11. ~Busy(e) /\ ~Unlinked(e) /\ e \notin delivering \cup told \cup failures \cup dropped \cup cancelled
      BY <3>4, <3>9, Zenon DEF Busy, Unlinked
    <3>12. \A d \in Made : Target(d) \in Actor /\ Watcher(d) \in Actor
      BY <3>8, Zenon DEF Target, Watcher
    <3>13. incoming \in [Actor -> [Actor -> Made \cup {NoEdge}]]
           /\ outgoing \in [Actor -> [Actor -> Made \cup {NoEdge}]]
      BY Zenon DEF WatchTypeOK
    <3> HIDE DEF Made
    <3>14. WatchTypeOK'
      <4>1. \E k \in Nat : Made' = 1..k
        BY <3>4
      <4>2. unlinking' \subseteq (Made' \X {"cancel", "target", "watcher"})
        BY <3>4, <3>9, Zenon
      <4> QED
        BY <4>1, <4>2, <3>4, <3>5, <3>8, <3>9, Zenon DEF WatchTypeOK
    <3>15. EndsPlaced'
      <4>1. ASSUME NEW x \in Actor, NEW y \in Actor
            PROVE  /\ incoming'[x][y] # NoEdge =>
                         Target(incoming[x][y])' = x /\ Watcher(incoming[x][y])' = y
                   /\ outgoing'[y][x] # NoEdge =>
                         Target(outgoing[y][x])' = x /\ Watcher(outgoing[y][x])' = y
        <5>1. incoming[x][y] \in Made \cup {NoEdge} /\ outgoing[y][x] \in Made \cup {NoEdge}
          BY <3>13, Zenon
        <5>2. /\ incoming[x][y] # NoEdge =>
                     made[incoming[x][y]][1] = x /\ made[incoming[x][y]][2] = y
              /\ outgoing[y][x] # NoEdge =>
                     made[outgoing[y][x]][1] = x /\ made[outgoing[y][x]][2] = y
          BY Zenon DEF EndsPlaced, Target, Watcher
        <5> QED BY <3>4, <3>5, <5>1, <5>2 DEF Target, Watcher
      <4>2. ASSUME NEW d \in Made', <<d, "watcher">> \in unlinking'
            PROVE  incoming'[Target(d)'][Watcher(d)'] # d
        <5>1. d \in Made
          BY <4>2, <3>9, Zenon
        <5>2. incoming[Target(d)][Watcher(d)] # d
          BY <4>2, <5>1, <3>9, Zenon DEF EndsPlaced
        <5>3. incoming'[Target(d)][Watcher(d)] \in {e, incoming[Target(d)][Watcher(d)]}
          BY <5>1, <3>5, <3>12, Zenon
        <5> QED BY <5>1, <5>2, <5>3, <3>4, <3>6, Zenon
      <4> QED BY <4>1, <4>2, Zenon DEF EndsPlaced
    <3>16. EndsAccounted'
      BY <3>3, <3>4, <3>5, <3>6, <3>7, <3>9, <3>10, <3>11, <3>12, <3>13 DEF EndsAccounted
    <3>17. EndsAgree'
      BY <3>5, <3>9, <3>10, <3>11 DEF EndsAgree
    <3>18. WatchersHear'
      BY <3>4, <3>6, <3>7, <3>9, Zenon DEF WatchersHear, Made
    <3> QED BY <3>14, <3>15, <3>16, <3>17, <3>18, Zenon
  <2>2. \A t, w \in Actor :
          /\ incoming[t][w] \in Made \cup {NoEdge} /\ outgoing[w][t] \in Made \cup {NoEdge}
          /\ incoming[t][w] # NoEdge => Target(incoming[t][w]) = t /\ Watcher(incoming[t][w]) = w
          /\ outgoing[w][t] # NoEdge => Target(outgoing[w][t]) = t /\ Watcher(outgoing[w][t]) = w
    BY DEF WatchTypeOK, EndsPlaced, Target, Watcher
  <2>3. \A d \in Made : Target(d) \in Actor /\ Watcher(d) \in Actor
    BY Zenon DEF WatchTypeOK, Target, Watcher
  <2>4. ASSUME NEW S \in SUBSET Made, made' = made, Unlinks(S) PROVE
            /\ unlinking' \subseteq (Made' \X {"cancel", "target", "watcher"})
            /\ \A d : Unlinked(d)' <=> Unlinked(d) \/ d \in S
            /\ \A d : <<d, "watcher">> \in unlinking' <=> <<d, "watcher">> \in unlinking
            /\ Made' = Made /\ \A d : Target(d)' = Target(d) /\ Watcher(d)' = Watcher(d)
    <3>1. Made' = Made /\ \A d : Target(d)' = Target(d) /\ Watcher(d)' = Watcher(d)
      BY <2>4, Zenon DEF Target, Watcher
    <3>2. unlinking' = unlinking \cup {<<d, "cancel">> : d \in S}
      BY <2>4, Zenon DEF Unlinks
    <3>3. unlinking \subseteq (Made \X {"cancel", "target", "watcher"})
      BY Zenon DEF WatchTypeOK
    <3> HIDE DEF Made
    <3>4. unlinking' \subseteq (Made' \X {"cancel", "target", "watcher"})
      BY <3>1, <3>2, <3>3
    <3>5. \A d : <<d, "watcher">> \in unlinking' <=> <<d, "watcher">> \in unlinking
      BY <3>2, Zenon
    <3>6. \A d : Unlinked(d)' <=> Unlinked(d) \/ d \in S
      <4>1. \A d \in S : <<d, "cancel">>[1] = d
        OBVIOUS
      <4> QED BY <3>2, <4>1, Zenon DEF Unlinked
    <3> QED BY <3>1, <3>4, <3>5, <3>6, Zenon
  <2> HIDE DEF Made
  <2>5. \A d : Busy(d) <=> d \in delivering \/ Unlinked(d)
    BY Zenon DEF Busy, Unlinked
  <2>6. \A d : Busy(d)' <=> d \in delivering' \/ Unlinked(d)'
    BY Zenon DEF Busy, Unlinked
  <2>7. ASSUME NEW t \in Actor, NEW w \in Actor, Unwatch(t, w) PROVE WatchInv'
    <3>0. PICK e : e = outgoing[w][t]
      OBVIOUS
    <3>1. /\ e \in Made /\ e # NoEdge /\ outgoing' = [outgoing EXCEPT ![w][t] = NoEdge] /\ ended' = ended \cup {e}
          /\ UNCHANGED <<incoming, lifecycle, gone, made, cancelled, delivering, told, failures, dropped>>
          /\ Unlinks({e})
      BY <2>2, <2>7, <3>0, Zenon DEF Unwatch, outcomes
    <3>2. /\ unlinking' \subseteq (Made' \X {"cancel", "target", "watcher"})
          /\ \A d : Unlinked(d)' <=> Unlinked(d) \/ d \in {e}
          /\ \A d : <<d, "watcher">> \in unlinking' <=> <<d, "watcher">> \in unlinking
          /\ Made' = Made /\ \A d : Target(d)' = Target(d) /\ Watcher(d)' = Watcher(d)
      BY <2>4, <3>1, Zenon
    <3>3. /\ outgoing' \in [Actor -> [Actor -> Made \cup {NoEdge}]]
          /\ \A x, y \in Actor : outgoing'[y][x] = IF x = t /\ y = w THEN NoEdge ELSE outgoing[y][x]
      BY <3>1, Zenon DEF WatchTypeOK
    <3>4. WatchTypeOK'
      BY <3>1, <3>2, <3>3, Zenon DEF WatchTypeOK
    <3>5. EndsPlaced'
      <4>1. ASSUME NEW x \in Actor, NEW y \in Actor
            PROVE  /\ incoming'[x][y] # NoEdge =>
                         Target(incoming[x][y])' = x /\ Watcher(incoming[x][y])' = y
                   /\ outgoing'[y][x] # NoEdge =>
                         Target(outgoing[y][x])' = x /\ Watcher(outgoing[y][x])' = y
        BY <3>1, <3>3 DEF EndsPlaced, Target, Watcher
      <4>2. \A d \in Made' : <<d, "watcher">> \in unlinking' => incoming'[Target(d)'][Watcher(d)'] # d
        BY <3>1, <3>2, Zenon DEF EndsPlaced
      <4> QED BY <4>1, <4>2, Zenon DEF EndsPlaced
    <3>6. EndsAccounted'
      BY <3>1, <3>2, Zenon DEF EndsAccounted, WatchTypeOK
    <3>7. EndsAgree'
      BY <2>2, <2>5, <2>6, <3>0, <3>1, <3>2, <3>3 DEF EndsAgree
    <3>8. WatchersHear'
      BY <3>1, <3>2, Zenon DEF WatchersHear, Made
    <3> QED BY <3>4, <3>5, <3>6, <3>7, <3>8, Zenon
  <2>8. ASSUME NEW a \in Actor, NEW st \in {"suspended", "closed"}, lifecycle[a] # "closed",
               Leaves(a, st) PROVE WatchInv'
    <3>0. PICK S : S = Edges(outgoing[a])
      OBVIOUS
    <3>1. /\ S \subseteq Made /\ \A x \in Actor : outgoing[a][x] # NoEdge => outgoing[a][x] \in S
      BY <2>2, <3>0 DEF Edges
    <3>2. /\ lifecycle' = [lifecycle EXCEPT ![a] = st] /\ outgoing' = [outgoing EXCEPT ![a] = NoEdges]
          /\ UNCHANGED <<incoming, gone, made, cancelled, delivering, told, failures, dropped>>
          /\ Unlinks(S) /\ ended' = ended \cup S
      BY <2>8, <3>0, Zenon DEF Leaves, outcomes
    <3>3. /\ unlinking' \subseteq (Made' \X {"cancel", "target", "watcher"})
          /\ \A d : Unlinked(d)' <=> Unlinked(d) \/ d \in S
          /\ \A d : <<d, "watcher">> \in unlinking' <=> <<d, "watcher">> \in unlinking
          /\ Made' = Made /\ \A d : Target(d)' = Target(d) /\ Watcher(d)' = Watcher(d)
      BY <2>4, <3>1, <3>2, Zenon
    <3>4. /\ outgoing' \in [Actor -> [Actor -> Made \cup {NoEdge}]]
          /\ \A x, y \in Actor : outgoing'[y][x] = IF y = a THEN NoEdge ELSE outgoing[y][x]
      BY <3>2, Zenon DEF WatchTypeOK, NoEdges
    <3>5. /\ lifecycle' \in [Actor -> {"open", "suspended", "closed"}]
          /\ gone \subseteq {x \in Actor : lifecycle'[x] = "closed"}
      BY <2>8, <3>2, Zenon DEF WatchTypeOK
    <3>6. WatchTypeOK'
      BY <3>2, <3>3, <3>4, <3>5, Zenon DEF WatchTypeOK
    <3>7. EndsPlaced'
      BY <3>2, <3>3, <3>4, Zenon DEF EndsPlaced
    <3>8. EndsAccounted'
      BY <3>2, <3>3, Zenon DEF EndsAccounted, WatchTypeOK
    <3>9. EndsAgree'
      BY <2>2, <2>5, <2>6, <3>1, <3>2, <3>3, <3>4 DEF EndsAgree
    <3>10. WatchersHear'
      BY <3>2, <3>3, Zenon DEF WatchersHear, Made
    <3> QED BY <3>6, <3>7, <3>8, <3>9, <3>10, Zenon
  <2>9. ASSUME NEW a \in Actor, ResumeWatch(a) PROVE WatchInv'
    <3>1. /\ lifecycle[a] = "suspended" /\ lifecycle' = [lifecycle EXCEPT ![a] = "open"]
          /\ UNCHANGED <<incoming, outgoing, gone, made, cancelled, unlinking, delivering, told,
                         failures, dropped, ended>>
      BY <2>9, Zenon DEF ResumeWatch, outcomes
    <3>2. /\ lifecycle' \in [Actor -> {"open", "suspended", "closed"}]
          /\ gone \subseteq {x \in Actor : lifecycle'[x] = "closed"}
      BY <3>1, Zenon DEF WatchTypeOK
    <3>3. WatchTypeOK'
      BY <3>1, <3>2, Zenon DEF WatchTypeOK, Made
    <3> QED BY <3>1, <3>3 DEF EndsPlaced, EndsAccounted, EndsAgree, WatchersHear, Made, Busy, Unlinked,
                              Target, Watcher
  <2>10. 0 \notin Made
    BY DEF WatchTypeOK
  <2>11. ASSUME NEW t \in Actor, Terminated(t) PROVE WatchInv'
    <3>1. PICK S : S = Edges(incoming[t])
      OBVIOUS
    <3>2. /\ t \notin gone /\ lifecycle[t] = "closed"
          /\ gone' = gone \cup {t} /\ delivering' = delivering \cup S
          /\ incoming' = [incoming EXCEPT ![t] = NoEdges]
          /\ UNCHANGED <<outgoing, lifecycle, made, cancelled, unlinking, told, failures, dropped, ended>>
      BY <2>11, <3>1, Zenon DEF Terminated, outcomes
    <3>3. /\ Made' = Made
          /\ \A d : Target(d)' = Target(d) /\ Watcher(d)' = Watcher(d) /\ (Unlinked(d)' <=> Unlinked(d))
      BY <3>2, Zenon DEF Made, Target, Watcher, Unlinked
    <3>4. /\ S \subseteq Made /\ \A d \in S : Target(d) = t
          /\ \A w \in Actor : incoming[t][w] # NoEdge => incoming[t][w] \in S
      BY <2>2, <3>1 DEF Edges
    <3>5. /\ incoming' \in [Actor -> [Actor -> Made \cup {NoEdge}]]
          /\ \A x, y \in Actor : incoming'[x][y] = IF x = t THEN NoEdge ELSE incoming[x][y]
      BY <3>2, Zenon DEF WatchTypeOK, NoEdges
    <3>6. WatchTypeOK'
      BY <3>2, <3>3, <3>4, <3>5, Zenon DEF WatchTypeOK
    <3>7. EndsPlaced'
      <4>1. ASSUME NEW x \in Actor, NEW y \in Actor
            PROVE  /\ incoming'[x][y] # NoEdge =>
                         Target(incoming[x][y])' = x /\ Watcher(incoming[x][y])' = y
                   /\ outgoing'[y][x] # NoEdge =>
                         Target(outgoing[y][x])' = x /\ Watcher(outgoing[y][x])' = y
        BY <3>2, <3>5 DEF EndsPlaced, Target, Watcher
      <4>2. \A d \in Made' : <<d, "watcher">> \in unlinking' => incoming'[Target(d)'][Watcher(d)'] # d
        BY <2>3, <2>10, <3>2, <3>3, <3>5 DEF EndsPlaced
      <4> QED BY <4>1, <4>2, Zenon DEF EndsPlaced
    <3>8. EndsAccounted'
      BY <2>3, <3>2, <3>3, <3>4, <3>5 DEF EndsAccounted, WatchTypeOK
    <3>9. EndsAgree'
      BY <2>2, <2>5, <2>6, <3>2, <3>3, <3>4, <3>5 DEF EndsAgree
    <3>10. WatchersHear'
      <4>1. ASSUME NEW d \in Made \ ended, Target(d) = t PROVE d \in S
        BY <4>1, <2>3, <2>10, <3>2, <3>4 DEF EndsAccounted
      <4>2. \A d \in dropped, c \in S : Target(c) # Target(d)
        <5>1. \A d \in dropped : Target(d) \in gone
          BY Zenon DEF EndsAccounted
        <5> QED BY <3>2, <3>4, <5>1, Zenon
      <4>3. \A d \in dropped, c \in delivering' : Target(c) # Target(d)
        BY <4>2, <3>2, Zenon DEF WatchersHear
      <4>4. \A d \in Made \ ended :
               Target(d) \in gone' => d \in told \cup failures \cup dropped \cup delivering'
        BY <4>1, <3>2, Zenon DEF WatchersHear, Made
      <4> QED BY <4>3, <4>4, <3>2, <3>3, Zenon DEF WatchersHear, Made
    <3> QED BY <3>6, <3>7, <3>8, <3>9, <3>10, Zenon
  <2>12. ASSUME NEW t \in Actor, AbandonWatch(t) PROVE WatchInv'
    <3>1. PICK S : S = Edges(incoming[t])
      OBVIOUS
    <3>2. /\ t \notin gone /\ lifecycle[t] = "closed"
          /\ gone' = gone \cup {t} /\ failures' = failures \cup S /\ Unlinks(S)
          /\ incoming' = [incoming EXCEPT ![t] = NoEdges]
          /\ UNCHANGED <<outgoing, lifecycle, made, cancelled, delivering, told, dropped, ended>>
      BY <2>12, <3>1, Zenon DEF AbandonWatch
    <3>4. /\ S \subseteq Made /\ \A d \in S : Target(d) = t
          /\ \A w \in Actor : incoming[t][w] # NoEdge => incoming[t][w] \in S
      BY <2>2, <3>1 DEF Edges
    <3>3. /\ unlinking' \subseteq (Made' \X {"cancel", "target", "watcher"})
          /\ \A d : Unlinked(d)' <=> Unlinked(d) \/ d \in S
          /\ \A d : <<d, "watcher">> \in unlinking' <=> <<d, "watcher">> \in unlinking
          /\ Made' = Made /\ \A d : Target(d)' = Target(d) /\ Watcher(d)' = Watcher(d)
      BY <2>4, <3>2, <3>4, Zenon
    <3>5. /\ incoming' \in [Actor -> [Actor -> Made \cup {NoEdge}]]
          /\ \A x, y \in Actor : incoming'[x][y] = IF x = t THEN NoEdge ELSE incoming[x][y]
      BY <3>2, Zenon DEF WatchTypeOK, NoEdges
    <3>6. WatchTypeOK'
      BY <3>2, <3>3, <3>4, <3>5, Zenon DEF WatchTypeOK
    <3>7. EndsPlaced'
      <4>1. ASSUME NEW x \in Actor, NEW y \in Actor
            PROVE  /\ incoming'[x][y] # NoEdge =>
                         Target(incoming[x][y])' = x /\ Watcher(incoming[x][y])' = y
                   /\ outgoing'[y][x] # NoEdge =>
                         Target(outgoing[y][x])' = x /\ Watcher(outgoing[y][x])' = y
        BY <3>2, <3>5 DEF EndsPlaced, Target, Watcher
      <4>2. \A d \in Made' : <<d, "watcher">> \in unlinking' => incoming'[Target(d)'][Watcher(d)'] # d
        BY <2>3, <2>10, <3>2, <3>3, <3>5 DEF EndsPlaced
      <4> QED BY <4>1, <4>2, Zenon DEF EndsPlaced
    <3>8. EndsAccounted'
      BY <2>3, <3>2, <3>3, <3>4, <3>5 DEF EndsAccounted, WatchTypeOK
    <3>9. EndsAgree'
      BY <2>2, <2>5, <2>6, <3>2, <3>3, <3>4, <3>5 DEF EndsAgree
    <3>10. WatchersHear'
      <4>1. ASSUME NEW d \in Made \ ended, Target(d) = t PROVE d \in S
        BY <4>1, <2>3, <2>10, <3>2, <3>4 DEF EndsAccounted
      <4>2. told \cap S = {} /\ dropped \cap S = {}
        BY <3>2, <3>4, Zenon DEF EndsAccounted
      <4> QED BY <4>1, <4>2, <3>2, <3>3, Zenon DEF WatchersHear, Made
    <3> QED BY <3>6, <3>7, <3>8, <3>9, <3>10, Zenon
  <2>13. ASSUME NEW e, Cancel(e) PROVE WatchInv'
    <3>1. /\ <<e, "cancel">> \in unlinking /\ cancelled' = cancelled \cup {e}
          /\ unlinking' = (unlinking \ {<<e, "cancel">>}) \cup {<<e, "target">>}
          /\ UNCHANGED <<incoming, outgoing, lifecycle, gone, made, delivering, told, failures, dropped, ended>>
      BY <2>13, Zenon DEF Cancel, outcomes
    <3>2. e \in Made /\ Unlinked(e)
      BY <3>1, Zenon DEF WatchTypeOK, Unlinked
    <3>3. /\ Made' = Made /\ \A d : Target(d)' = Target(d) /\ Watcher(d)' = Watcher(d)
          /\ unlinking' \subseteq (Made \X {"cancel", "target", "watcher"})
          /\ \A d : <<d, "watcher">> \in unlinking' <=> <<d, "watcher">> \in unlinking
      BY <3>1, <3>2 DEF Made, Target, Watcher, WatchTypeOK
    <3>4. \A d : Unlinked(d)' <=> Unlinked(d)
      <4>1. <<e, "cancel">>[1] = e /\ <<e, "target">>[1] = e
        OBVIOUS
      <4>2. \A u : u \in unlinking' <=> (u \in unlinking /\ u # <<e, "cancel">>) \/ u = <<e, "target">>
        BY <3>1, Zenon
      <4> QED BY <3>1, <4>1, <4>2, Zenon DEF Unlinked
    <3>5. WatchTypeOK'
      BY <3>1, <3>2, <3>3, Zenon DEF WatchTypeOK
    <3>6. EndsPlaced'
      BY <3>1, <3>3 DEF EndsPlaced, Target, Watcher
    <3>7. EndsAccounted'
      BY <3>1, <3>2, <3>3, <3>4, Zenon DEF EndsAccounted
    <3>8. EndsAgree'
      BY <2>5, <2>6, <3>1, <3>4, Zenon DEF EndsAgree
    <3> QED BY <3>1, <3>3, <3>5, <3>6, <3>7, <3>8, Zenon DEF WatchersHear, Made
  <2>14. ASSUME NEW e, UnlinkTarget(e) PROVE WatchInv'
    <3>1. /\ <<e, "target">> \in unlinking
          /\ incoming' = [incoming EXCEPT ![Target(e)][Watcher(e)] = IF @ = e THEN NoEdge ELSE @]
          /\ unlinking' = (unlinking \ {<<e, "target">>}) \cup {<<e, "watcher">>}
          /\ UNCHANGED <<outgoing, lifecycle, gone, made, cancelled, delivering, told, failures, dropped, ended>>
      BY <2>14, Zenon DEF UnlinkTarget, outcomes
    <3>2. e \in Made /\ Unlinked(e)
      BY <3>1, Zenon DEF WatchTypeOK, Unlinked
    <3>3. /\ Made' = Made /\ \A d : Target(d)' = Target(d) /\ Watcher(d)' = Watcher(d)
          /\ unlinking' \subseteq (Made \X {"cancel", "target", "watcher"})
          /\ \A d : <<d, "watcher">> \in unlinking' <=> <<d, "watcher">> \in unlinking \/ d = e
      BY <3>1, <3>2 DEF Made, Target, Watcher, WatchTypeOK
    <3>4. \A d : Unlinked(d)' <=> Unlinked(d)
      <4>1. <<e, "target">>[1] = e /\ <<e, "watcher">>[1] = e
        OBVIOUS
      <4>2. \A u : u \in unlinking' <=> (u \in unlinking /\ u # <<e, "target">>) \/ u = <<e, "watcher">>
        BY <3>1, Zenon
      <4> QED BY <3>1, <4>1, <4>2, Zenon DEF Unlinked
    <3>5. Target(e) \in Actor /\ Watcher(e) \in Actor
      BY <2>3, <3>2, Zenon
    <3>6. incoming' \in [Actor -> [Actor -> Made \cup {NoEdge}]]
      BY <3>1, <3>5 DEF WatchTypeOK
    <3>7. \A x, y \in Actor :
             incoming'[x][y] = IF x = Target(e) /\ y = Watcher(e) /\ incoming[x][y] = e
                               THEN NoEdge ELSE incoming[x][y]
      BY <3>1, <3>5, Zenon DEF WatchTypeOK
    <3>8. WatchTypeOK'
      BY <3>1, <3>3, <3>6, Zenon DEF WatchTypeOK
    <3>9. EndsPlaced'
      <4>1. ASSUME NEW x \in Actor, NEW y \in Actor
            PROVE  /\ incoming'[x][y] # NoEdge =>
                         Target(incoming[x][y])' = x /\ Watcher(incoming[x][y])' = y
                   /\ outgoing'[y][x] # NoEdge =>
                         Target(outgoing[y][x])' = x /\ Watcher(outgoing[y][x])' = y
        <5>1. /\ incoming'[x][y] # NoEdge => incoming'[x][y] = incoming[x][y]
              /\ made' = made /\ outgoing' = outgoing
          BY <3>1, <3>7
        <5> QED BY <5>1 DEF EndsPlaced, Target, Watcher
      <4>2. \A d \in Made' : <<d, "watcher">> \in unlinking' => incoming'[Target(d)'][Watcher(d)'] # d
        BY <2>3, <2>10, <3>2, <3>3, <3>5, <3>7 DEF EndsPlaced
      <4> QED BY <4>1, <4>2, Zenon DEF EndsPlaced
    <3>10. EndsAccounted'
      BY <2>3, <3>1, <3>2, <3>3, <3>4, <3>7 DEF EndsAccounted
    <3>11. EndsAgree'
      BY <2>2, <2>5, <2>6, <3>1, <3>2, <3>4, <3>7 DEF EndsAgree
    <3> QED BY <3>1, <3>3, <3>8, <3>9, <3>10, <3>11, Zenon DEF WatchersHear, Made
  <2>15. ASSUME NEW e, UnlinkWatcher(e) PROVE WatchInv'
    <3>1. /\ <<e, "watcher">> \in unlinking
          /\ outgoing' = [outgoing EXCEPT ![Watcher(e)][Target(e)] = IF @ = e THEN NoEdge ELSE @]
          /\ unlinking' = unlinking \ {<<e, "watcher">>}
          /\ UNCHANGED <<incoming, lifecycle, gone, made, cancelled, delivering, told, failures, dropped, ended>>
      BY <2>15, Zenon DEF UnlinkWatcher, outcomes
    <3>2. e \in Made
      BY <3>1, Zenon DEF WatchTypeOK
    <3>3. /\ Made' = Made /\ \A d : Target(d)' = Target(d) /\ Watcher(d)' = Watcher(d)
          /\ unlinking' \subseteq (Made \X {"cancel", "target", "watcher"})
          /\ \A d : <<d, "watcher">> \in unlinking' => <<d, "watcher">> \in unlinking
      BY <3>1, <3>2, Zenon DEF Made, Target, Watcher, WatchTypeOK
    <3>4. /\ \A d : Unlinked(d)' => Unlinked(d)
          /\ \A d : Unlinked(d) /\ d # e => Unlinked(d)'
      BY <3>1 DEF Unlinked
    <3>5. Target(e) \in Actor /\ Watcher(e) \in Actor /\ incoming[Target(e)][Watcher(e)] # e
      BY <2>3, <3>1, <3>2, Zenon DEF EndsPlaced
    <3>6. outgoing' \in [Actor -> [Actor -> Made \cup {NoEdge}]]
      BY <3>1, <3>5 DEF WatchTypeOK
    <3>7. \A x, y \in Actor :
             outgoing'[y][x] = IF x = Target(e) /\ y = Watcher(e) /\ outgoing[y][x] = e
                               THEN NoEdge ELSE outgoing[y][x]
      BY <3>1, <3>5, Zenon DEF WatchTypeOK
    <3>8. WatchTypeOK'
      BY <3>1, <3>3, <3>6, Zenon DEF WatchTypeOK
    <3>9. EndsPlaced'
      <4>1. ASSUME NEW x \in Actor, NEW y \in Actor
            PROVE  /\ incoming'[x][y] # NoEdge =>
                         Target(incoming[x][y])' = x /\ Watcher(incoming[x][y])' = y
                   /\ outgoing'[y][x] # NoEdge =>
                         Target(outgoing[y][x])' = x /\ Watcher(outgoing[y][x])' = y
        <5>1. /\ outgoing'[y][x] # NoEdge => outgoing'[y][x] = outgoing[y][x]
              /\ made' = made /\ incoming' = incoming
          BY <3>1, <3>7
        <5> QED BY <5>1 DEF EndsPlaced, Target, Watcher
      <4>2. \A d \in Made' : <<d, "watcher">> \in unlinking' => incoming'[Target(d)'][Watcher(d)'] # d
        BY <3>1, <3>3, Zenon DEF EndsPlaced
      <4> QED BY <4>1, <4>2, Zenon DEF EndsPlaced
    <3>10. EndsAccounted'
      BY <3>1, <3>3, <3>4, Zenon DEF EndsAccounted
    <3>11. EndsAgree'
      <4>1. \A x, y \in Actor : incoming[x][y] # e \/ incoming[x][y] = NoEdge
        BY <2>2, <3>5
      <4>2. \A x, y \in Actor : outgoing'[y][x] # e
        BY <2>2, <2>10, <3>2, <3>7
      <4>3. \A d : d # e /\ ~Busy(d)' => ~Busy(d)
        BY <2>5, <2>6, <3>1, <3>4, Zenon
      <4> QED BY <2>10, <3>1, <3>2, <3>7, <4>1, <4>2, <4>3 DEF EndsAgree
    <3> QED BY <3>1, <3>3, <3>8, <3>9, <3>10, <3>11, Zenon DEF WatchersHear, Made
  <2>16. ASSUME NEW S, DeliveriesEnd(S),
                \/ told' = told \cup S /\ failures' = failures /\ dropped' = dropped
                \/ told' = told /\ failures' = failures \cup S /\ dropped' = dropped
                \/ S \subseteq cancelled /\ told' = told /\ failures' = failures /\ dropped' = dropped
                \/ /\ \E t : S = {e \in delivering : Target(e) = t}
                   /\ told' = told /\ failures' = failures /\ dropped' = dropped \cup S
         PROVE  WatchInv'
    <3>1. /\ S \subseteq delivering /\ delivering' = delivering \ S /\ Unlinks(S)
          /\ UNCHANGED <<incoming, outgoing, lifecycle, gone, made, cancelled, ended>>
      BY <2>16, Zenon DEF DeliveriesEnd
    <3>2. S \in SUBSET Made
      BY <3>1, Zenon DEF WatchTypeOK
    <3>3. /\ unlinking' \subseteq (Made' \X {"cancel", "target", "watcher"})
          /\ \A d : Unlinked(d)' <=> Unlinked(d) \/ d \in S
          /\ \A d : <<d, "watcher">> \in unlinking' <=> <<d, "watcher">> \in unlinking
          /\ Made' = Made /\ \A d : Target(d)' = Target(d) /\ Watcher(d)' = Watcher(d)
      BY <2>4, <3>1, <3>2, Zenon
    <3>4. \A e \in S : /\ e \notin told /\ e \notin failures /\ e \notin dropped /\ Target(e) \in gone
                       /\ e \in cancelled => e \in ended
      BY <3>1, <3>2, Zenon DEF EndsAccounted
    <3>5. WatchTypeOK'
      BY <2>16, <3>1, <3>2, <3>3, Zenon DEF WatchTypeOK
    <3>6. EndsPlaced'
      BY <3>1, <3>3 DEF EndsPlaced, Target, Watcher
    <3>7. EndsAccounted'
      BY <2>16, <3>1, <3>2, <3>3, <3>4, Zenon DEF EndsAccounted
    <3>8. EndsAgree'
      BY <2>5, <2>6, <3>1, <3>3, Zenon DEF EndsAgree
    <3>9. WatchersHear'
      <4>1. \A e \in dropped', d \in delivering' : Target(d) # Target(e)
        BY <2>16, <3>1, Zenon DEF WatchersHear
      <4> QED BY <2>16, <3>1, <3>3, <3>4, <4>1, Zenon DEF WatchersHear, Made
    <3> QED BY <3>5, <3>6, <3>7, <3>8, <3>9, Zenon
  <2>17. CASE UNCHANGED watchVars
    BY <2>17 DEF watchVars, outcomes, WatchTypeOK, EndsPlaced, EndsAccounted, EndsAgree, WatchersHear, Made, Busy,
                 Unlinked, Target, Watcher
  <2>18. ASSUME NEW e, Told(e) \/ DeliveryFailed(e) \/ DeliveryCancelled(e) PROVE WatchInv'
    BY <2>16, <2>18, Zenon DEF Told, DeliveryFailed, DeliveryCancelled, outcomes
  <2>19. ASSUME NEW t, NotificationDropped(t) PROVE WatchInv'
    BY <2>16, <2>19, Zenon DEF NotificationDropped
  <2> QED
    BY <2>1, <2>7, <2>8, <2>9, <2>11, <2>12, <2>13, <2>14, <2>15, <2>17, <2>18, <2>19, Zenon
       DEF WatchNext, SuspendWatch, CloseWatch
<1> QED BY <1>1, <1>2, PTL DEF WatchSpec

\* "Pointer checks protect a replacement edge created between removal and
\* cleanup", for any number of actors and subscriptions (unlink, DeliveryGuard).
THEOREM EndsAlwaysAgree == WatchSpec => []EndsAgree
BY SubscriptionsKept, PTL DEF WatchInv

\* No watcher that wants its subscription misses the end of its target without a
\* failure being counted, unless the target's whole notification was dropped with
\* the future that makes it; and none hears of it twice (terminated_checked, abandon).
THEOREM WatchersAlwaysHear == WatchSpec => []WatchersHear
BY SubscriptionsKept, PTL DEF WatchInv

-----------------------------------------------------------------------------
(* The deduplication table *)

\* A permit is for a sequence that is not a duplicate.
PermitFresh ==
    \A s \in Sender, q \in 1..MaxSeq : permit = <<s, q>> => ~Duplicate(s, q)

DedupInv == DedupTypeOK /\ RemembersHandled /\ PermitFresh

\* The walk over the gaps (commit): the new watermark and the remaining gaps
\* cover the old ones and the sequence that was filled, and nothing else.
LEMMA FillCovers ==
    ASSUME NEW q \in Nat \ {0}, NEW G \in SUBSET Nat, NEW w \in Nat, w >= q,
           (q + 1)..w \subseteq G, w + 1 \notin G, \A g \in G : g > q
    PROVE  /\ (1..w) \cup (G \ ((q + 1)..w)) = (1..(q - 1)) \cup G \cup {q}
           /\ \A g \in G \ ((q + 1)..w) : g > w + 1
  OBVIOUS

\* The inductive invariant: a permit under way stays a fresh one, since the
\* borrow keeps everybody else off the table (begin, commit, drop).
LEMMA TableInvariant == DedupSpec => []DedupInv
<1>1. DedupInit => DedupInv
  BY DedupBounds DEF DedupInit, DedupInv, DedupTypeOK, RemembersHandled, PermitFresh, NoPermit
<1>2. DedupInv /\ [DedupNext]_dedupVars => DedupInv'
  <2> SUFFICES ASSUME DedupInv, [DedupNext]_dedupVars PROVE DedupInv'
    OBVIOUS
  <2> USE DedupBounds DEF DedupInv
  <2>1. CASE UNCHANGED dedupVars
    BY <2>1, Zenon DEF dedupVars, DedupTypeOK, RemembersHandled, PermitFresh, Duplicate
  <2>2. CASE DropPermit
    BY <2>2, Zenon DEF DropPermit, DedupTypeOK, RemembersHandled, PermitFresh, NoPermit
  <2>3. ASSUME NEW s \in Sender, NEW q \in 1..MaxSeq, BeginPermit(s, q) PROVE DedupInv'
    BY <2>3, Zenon DEF BeginPermit, DedupTypeOK, RemembersHandled, PermitFresh, Duplicate
  <2>4. ASSUME NEW s \in Sender, NEW q \in 1..MaxSeq, CommitPermit(s, q) PROVE DedupInv'
    <3>1. ~Duplicate(s, q) /\ permit' = NoPermit
      BY <2>4, Zenon DEF CommitPermit, PermitFresh
    <3>2. PermitFresh'
      BY <3>1, Zenon DEF PermitFresh, NoPermit
    <3>3. CASE q = watermark[s] + 1
      <4>1. PICK w \in {q} \cup gaps[s] :
               /\ (q + 1)..w \subseteq gaps[s] /\ w >= q /\ w + 1 \notin gaps[s]
               /\ watermark' = [watermark EXCEPT ![s] = w]
               /\ gaps' = [gaps EXCEPT ![s] = @ \ ((q + 1)..w)]
        BY <2>4, <3>3, Zenon DEF CommitPermit, Fill
      <4>2. /\ q \in Nat \ {0} /\ w \in 1..MaxSeq /\ gaps[s] \in SUBSET Nat
            /\ \A g \in gaps[s] : g > q
        BY <3>3, <4>1 DEF DedupTypeOK
      <4>3. /\ (1..w) \cup (gaps[s] \ ((q + 1)..w)) = (1..(q - 1)) \cup gaps[s] \cup {q}
            /\ \A g \in gaps[s] \ ((q + 1)..w) : g > w + 1
        BY <4>1, <4>2, FillCovers
      <4>4. DedupTypeOK'
        BY <2>4, <3>1, <4>1, <4>2, <4>3 DEF DedupTypeOK, CommitPermit
      <4>5. RemembersHandled'
        <5>1. handled[s] = (1..(q - 1)) \cup gaps[s]
          BY <3>3 DEF RemembersHandled, DedupTypeOK
        <5>2. handled' = [handled EXCEPT ![s] = @ \cup {q}]
          BY <2>4, Zenon DEF CommitPermit
        <5> QED
          BY <4>1, <4>3, <5>1, <5>2, Zenon DEF RemembersHandled, DedupTypeOK
      <4> QED
        BY <3>2, <4>4, <4>5, Zenon
    <3>4. CASE q # watermark[s] + 1
      <4>1. q > watermark[s] + 1
        BY <3>1, <3>4 DEF Duplicate, DedupTypeOK
      <4> QED
        BY <2>4, <3>1, <3>2, <3>4, <4>1 DEF CommitPermit, DedupTypeOK, RemembersHandled
    <3> QED
      BY <3>3, <3>4, Zenon
  <2> QED
    BY <2>1, <2>2, <2>3, <2>4, Zenon DEF DedupNext
<1> QED
  BY <1>1, <1>2, PTL DEF DedupSpec

\* A table keeps its type and remembers exactly what was handled, for any
\* number of senders, any limits and any order of the sequences (commit).
THEOREM Remembers == DedupSpec => [](DedupTypeOK /\ RemembersHandled)
<1>1. DedupInv => DedupTypeOK /\ RemembersHandled
  BY Zenon DEF DedupInv
<1> QED
  BY <1>1, TableInvariant, PTL

\* No permit is ever given for what was handled before, for any number of
\* senders, any limits and any order of the sequences (begin).
THEOREM NeverTwice == DedupSpec => HandledOnce
<1>1. /\ DedupTypeOK /\ RemembersHandled
      /\ [DedupNext]_dedupVars
      => [permit' # permit /\ permit' # NoPermit => permit'[2] \notin handled[permit'[1]]]_dedupVars
  <2> SUFFICES ASSUME DedupTypeOK, RemembersHandled, DedupNext,
                      permit' # permit, permit' # NoPermit
               PROVE  permit'[2] \notin handled[permit'[1]]
    OBVIOUS
  <2>1. PICK s \in Sender, q \in 1..MaxSeq : BeginPermit(s, q)
    BY Zenon DEF DedupNext, DropPermit, CommitPermit
  <2> QED
    BY <2>1, DedupBounds DEF BeginPermit, Duplicate, RemembersHandled, DedupTypeOK
<1> QED
  BY <1>1, Remembers, PTL DEF DedupSpec, HandledOnce

\* The places the walk gives back.
LEMMA FilledPlaces ==
    ASSUME NEW s, NEW q \in Nat, NEW w \in Nat, w >= q
    PROVE  /\ IsFiniteSet({s} \X ((q + 1)..w))
           /\ Cardinality({s} \X ((q + 1)..w)) = w - q
<1> USE SMTT(60)
<1>1. IsFiniteSet({s}) /\ Cardinality({s}) = 1
  BY FS_Singleton, Zenon
<1>2. IsFiniteSet((q + 1)..w) /\ Cardinality((q + 1)..w) = w - q
  <2>1. q + 1 \in Int /\ w \in Int
    OBVIOUS
  <2>2. IsFiniteSet((q + 1)..w)
        /\ Cardinality((q + 1)..w) = IF q + 1 > w THEN 0 ELSE w - (q + 1) + 1
    BY <2>1, FS_Interval, Zenon
  <2> QED
    BY <2>2
<1> QED
  BY <1>1, <1>2, FS_Product

BudgetInv == BudgetExact /\ IsFiniteSet(Pending)

\* The budget counts the gaps that exist and is never exceeded, so that places
\* do not leak, for any number of senders and any limits (begin, commit).
THEOREM Budget == DedupSpec => []BudgetExact
<1>1. DedupInit => BudgetInv
  <2> SUFFICES ASSUME DedupInit PROVE BudgetInv
    OBVIOUS
  <2>1. Pending = {}
    BY Zenon DEF DedupInit, Pending
  <2> QED
    BY <2>1, FS_EmptySet, DedupBounds DEF DedupInit, BudgetInv, BudgetExact, NoPermit
<1>2. DedupInv /\ BudgetInv /\ [DedupNext]_dedupVars => BudgetInv'
  <2> SUFFICES ASSUME DedupInv, BudgetInv, [DedupNext]_dedupVars PROVE BudgetInv'
    OBVIOUS
  <2> USE DedupBounds DEF DedupInv
  <2>0. pending \in Nat /\ Cardinality(Pending) = pending /\ IsFiniteSet(Pending)
    BY FS_CardinalityType, Zenon DEF BudgetInv, BudgetExact
  <2>1. CASE UNCHANGED dedupVars
    BY <2>1, Zenon DEF dedupVars, BudgetInv, BudgetExact, Pending
  <2>2. CASE DropPermit
    BY <2>2, Zenon DEF DropPermit, BudgetInv, BudgetExact, Pending, NoPermit
  <2>3. ASSUME NEW s \in Sender, NEW q \in 1..MaxSeq, BeginPermit(s, q) PROVE BudgetInv'
    BY <2>3, Zenon DEF BeginPermit, BudgetInv, BudgetExact, Pending
  <2>4. ASSUME NEW s \in Sender, NEW q \in 1..MaxSeq, CommitPermit(s, q) PROVE BudgetInv'
    <3>1. permit = <<s, q>> /\ permit' = NoPermit
      BY <2>4, Zenon DEF CommitPermit
    <3>2. CASE q = watermark[s] + 1
      <4>1. PICK w \in {q} \cup gaps[s] :
               /\ (q + 1)..w \subseteq gaps[s] /\ w >= q
               /\ gaps' = [gaps EXCEPT ![s] = @ \ ((q + 1)..w)]
               /\ pending' = pending - (w - q)
        BY <2>4, <3>2, Zenon DEF CommitPermit, Fill
      <4>2. w \in 1..MaxSeq /\ w \in Nat /\ q \in Nat
        BY <4>1 DEF DedupTypeOK
      <4> DEFINE R == {s} \X ((q + 1)..w)
      <4>3. IsFiniteSet(R) /\ Cardinality(R) = w - q
        BY <4>1, <4>2, FilledPlaces, Zenon
      <4>4. R \subseteq Pending /\ Pending' = Pending \ R
        BY <4>1, <4>2, Zenon DEF Pending, DedupTypeOK
      <4> HIDE DEF R
      <4>5. /\ IsFiniteSet(Pending \ R)
            /\ Cardinality(Pending \ R) = Cardinality(Pending) - Cardinality(Pending \cap R)
        BY <2>0, FS_Difference, Zenon
      <4>6. Pending \cap R = R
        BY <4>4, Zenon
      <4>7. Cardinality(Pending') = pending' /\ IsFiniteSet(Pending')
        BY <2>0, <4>1, <4>2, <4>3, <4>4, <4>5, <4>6, Zenon
      <4>8. pending' <= MaxPending
        BY <2>0, <4>1, <4>2 DEF BudgetInv, BudgetExact
      <4> QED
        BY <3>1, <4>7, <4>8, Zenon DEF BudgetInv, BudgetExact, NoPermit
    <3>3. CASE q # watermark[s] + 1
      <4>1. gaps' = [gaps EXCEPT ![s] = @ \cup {q}] /\ pending' = pending + 1
        BY <2>4, <3>3, Zenon DEF CommitPermit
      <4>2. Pending' = Pending \cup {<<s, q>>}
        BY <4>1 DEF Pending, DedupTypeOK
      <4>3. <<s, q>> \notin Pending
        BY <3>1, Zenon DEF Pending, PermitFresh, Duplicate
      <4>4. pending < MaxPending
        BY <3>1, <3>3, Zenon DEF BudgetInv, BudgetExact
      <4>5. /\ IsFiniteSet(Pending \cup {<<s, q>>})
            /\ Cardinality(Pending \cup {<<s, q>>}) = Cardinality(Pending) + 1
        BY <2>0, <4>3, FS_AddElement, Zenon
      <4> QED
        BY <2>0, <3>1, <4>1, <4>2, <4>4, <4>5 DEF BudgetInv, BudgetExact, NoPermit
    <3> QED
      BY <3>2, <3>3, Zenon
  <2> QED
    BY <2>1, <2>2, <2>3, <2>4, Zenon DEF DedupNext
<1>3. BudgetInv => BudgetExact
  BY Zenon DEF BudgetInv
<1> QED
  BY <1>1, <1>2, <1>3, TableInvariant, PTL DEF DedupSpec

-----------------------------------------------------------------------------
(* The service table *)

\* The types of the table and of the scopes.
RecTypeOK ==
    /\ owners \in [LocalPath -> Scope \cup {NoOwner}]
    /\ holder \in [LocalPath -> Scope \cup {NoOwner, Manual}]
    /\ phase \in [Scope -> {"live", "closed", "retired"}]
    /\ bindings \in [Scope -> SUBSET LocalPath]
    /\ cleaning \in [Scope -> SUBSET LocalPath]

\* The last registrant of a path that wants it owns it, and is no retired scope;
\* a scope has cleanups under way only after it retired.
HoldersOwn ==
    /\ \A p \in LocalPath : holder[p] # NoOwner =>
          owners[p] = (IF holder[p] = Manual THEN NoOwner ELSE holder[p])
    /\ \A s \in Scope :
          /\ phase[s] = "retired" => \A p \in LocalPath : holder[p] # s
          /\ phase[s] # "retired" => cleaning[s] = {}

\* The inductive invariant of the table.
RecInv == RecTypeOK /\ HoldersOwn /\ OwnedIsServed

\* It holds throughout.
LEMMA RegistrationsKept == RecSpec => []RecInv
<1> USE PathsApart DEF RecInv
<1>1. RecInit => RecInv
    BY DEF RecInit, RecTypeOK, HoldersOwn, OwnedIsServed, NoOwner
<1>2. RecInv /\ [RecNext]_recVars => RecInv'
  <2> SUFFICES ASSUME RecInv, [RecNext]_recVars PROVE RecInv'
    OBVIOUS
  <2> USE DEF RecTypeOK, HoldersOwn, OwnedIsServed
  <2>1. CASE UNCHANGED recVars
    BY <2>1, Zenon DEF recVars
  <2>2. CASE Subscribe
    BY <2>2, Zenon DEF Subscribe
  <2>3. CASE Consume
    BY <2>3, Zenon DEF Consume
  <2>4. ASSUME NEW S \in SUBSET PeerPath, MergeSync(S) PROVE RecInv'
    BY <2>4, Zenon DEF MergeSync
  <2>5. ASSUME NEW p \in LocalPath, RegisterManual(p) PROVE RecInv'
    BY <2>5 DEF RegisterManual, Adds, NoOwner, Manual
  <2>6. ASSUME NEW p \in LocalPath, DeregisterManual(p) PROVE RecInv'
    BY <2>6 DEF DeregisterManual, Removes
  <2>7. ASSUME NEW s \in Scope, CloseScope(s) PROVE RecInv'
    BY <2>7, Zenon DEF CloseScope
  <2>8. ASSUME NEW s \in Scope, RetireScope(s) PROVE RecInv'
    BY <2>8 DEF RetireScope, NoOwner, Manual
  <2>9. ASSUME NEW p \in LocalPath, NEW s \in Scope, Publish(p, s) PROVE RecInv'
    BY <2>9 DEF Publish, Adds, NoOwner, Manual
  <2>10. ASSUME NEW p \in LocalPath, NEW s \in Scope, Withdraw(p, s) PROVE RecInv'
    BY <2>10 DEF Withdraw, Removes, NoOwner, Manual
  <2>11. ASSUME NEW p \in LocalPath, NEW s \in Scope, Cleanup(s, p) PROVE RecInv'
    BY <2>11 DEF Cleanup, Removes, NoOwner, Manual
  <2> QED
    BY <2>1, <2>2, <2>3, <2>4, <2>5, <2>6, <2>7, <2>8, <2>9, <2>10, <2>11, Zenon DEF RecNext
<1> QED BY <1>1, <1>2, PTL DEF RecSpec

\* "Delayed old calls cannot erase a replacement generation", for any number of
\* paths and generations: a registration lives as long as its last registrant wants
\* it, and no longer than its generation (register_scoped, deregister_scoped, retire).
THEOREM OwnedAlwaysServed == RecSpec => []OwnedIsServed
<1>1. RecInv => OwnedIsServed
    BY Zenon DEF RecInv
<1> QED BY <1>1, RegistrationsKept, PTL

\* The paths of the table, and the events about them.
Path == LocalPath \cup PeerPath

Event == {"registered", "unregistered"} \X Path

\* Events one after the other lead where the first and then the others lead
\* (broadcast, once for each event).
LEMMA LeadsOn ==
    ASSUME NEW v, NEW q \in Seq(Event), NEW E, NEW e \in Seq(Event), NEW F,
           Leads(v, q, E), Leads(E, e, F)
    PROVE  Leads(v, q \o e, F)
<1> USE SMTT(60)
<1> DEFINE c == q \o e
<1>1. /\ Len(q) \in Nat /\ Len(e) \in Nat /\ Len(c) = Len(q) + Len(e)
      /\ \A k \in 1..Len(q) : c[k] = q[k]
      /\ \A k \in 1..Len(e) : c[Len(q) + k] = e[k]
    OBVIOUS
<1> HIDE DEF c
<1>2. ASSUME NEW p \in Path
      PROVE  /\ About(c, p) = {} => (p \in F <=> p \in v)
             /\ \A k \in About(c, p) : (\A j \in About(c, p) : j <= k) =>
                   (p \in F <=> c[k][1] = "registered")
    <2>1. \A k \in About(q, p) : k \in About(c, p) /\ c[k] = q[k] /\ k \in Nat /\ k <= Len(q)
        BY <1>1 DEF About
    <2>2. \A k \in About(e, p) : Len(q) + k \in About(c, p) /\ c[Len(q) + k] = e[k]
                                 /\ k \in Nat /\ k > 0
        BY <1>1 DEF About
    <2>3. ASSUME NEW k \in About(c, p), k \notin About(q, p)
          PROVE  \E j \in About(e, p) : k = Len(q) + j
        <3>1. k \in 1..Len(c) /\ c[k][2] = p
            BY DEF About
        <3>2. k > Len(q)
            BY <1>1, <2>3, <3>1 DEF About
        <3>3. k - Len(q) \in 1..Len(e) /\ k = Len(q) + (k - Len(q))
            BY <1>1, <3>1, <3>2
        <3>4. e[k - Len(q)] = c[k]
            BY <1>1, <3>3
        <3> QED BY <3>1, <3>3, <3>4 DEF About
    <2>4. /\ About(q, p) = {} => (p \in E <=> p \in v)
          /\ \A k \in About(q, p) : (\A j \in About(q, p) : j <= k) =>
                (p \in E <=> q[k][1] = "registered")
        BY Zenon DEF Leads, Path
    <2>5. /\ About(e, p) = {} => (p \in F <=> p \in E)
          /\ \A k \in About(e, p) : (\A j \in About(e, p) : j <= k) =>
                (p \in F <=> e[k][1] = "registered")
        BY Zenon DEF Leads, Path
    <2>6. CASE About(e, p) = {}
        <3>1. About(c, p) = About(q, p)
            BY <2>1, <2>3, <2>6, Zenon
        <3> QED BY <2>1, <2>4, <2>5, <2>6, <3>1, Zenon
    <2>7. CASE About(e, p) # {}
        <3>1. About(c, p) # {}
            BY <2>2, <2>7, Zenon
        <3>2. ASSUME NEW k \in About(c, p), \A j \in About(c, p) : j <= k
              PROVE  p \in F <=> c[k][1] = "registered"
            <4>1. PICK i \in About(e, p) : Len(q) + i <= k
                BY <2>2, <2>7, <3>2, Zenon
            <4>2. k \notin About(q, p)
                BY <1>1, <2>1, <2>2, <4>1
            <4>3. PICK j \in About(e, p) : k = Len(q) + j
                BY <2>3, <4>2, Zenon
            <4>4. ASSUME NEW l \in About(e, p) PROVE l <= j
                <5>1. Len(q) + l <= Len(q) + j
                    BY <2>2, <3>2, <4>3, Zenon
                <5> QED BY <5>1, <1>1, <2>2, <4>3
            <4> QED BY <2>2, <2>5, <4>3, <4>4, Zenon
        <3> QED BY <3>1, <3>2, Zenon
    <2> QED BY <2>6, <2>7, Zenon
<1> QED BY <1>2, Zenon DEF Leads, Path, c

\* The consumer takes one event (the receiving end of the stream).
LEMMA LeadsAfter ==
    ASSUME NEW v, NEW q \in Seq(Event), NEW E, q # <<>>, Leads(v, q, E)
    PROVE  Leads(Seen(v, Head(q)), Tail(q), E)
<1> USE SMTT(60)
<1> DEFINE h == Head(q)
           r == Tail(q)
           w == Seen(v, h)
<1>1. /\ Len(q) \in Nat /\ Len(q) > 0 /\ h = q[1] /\ h \in Event
      /\ Len(r) = Len(q) - 1 /\ \A k \in 1..Len(r) : r[k] = q[k + 1]
    OBVIOUS
<1>2. /\ h[1] = "registered" => w = v \cup {h[2]}
      /\ h[1] # "registered" => w = v \ {h[2]}
    BY Zenon DEF Seen
<1> HIDE DEF h, r, w
<1>3. ASSUME NEW p \in Path
      PROVE  /\ About(r, p) = {} => (p \in E <=> p \in w)
             /\ \A k \in About(r, p) : (\A j \in About(r, p) : j <= k) =>
                   (p \in E <=> r[k][1] = "registered")
    <2>1. \A k \in About(r, p) : k + 1 \in About(q, p) /\ r[k] = q[k + 1] /\ k \in Nat /\ k > 0
        BY <1>1 DEF About
    <2>2. ASSUME NEW k \in About(q, p), k # 1 PROVE k - 1 \in About(r, p) /\ k \in Nat
        <3>1. k \in 1..Len(q) /\ q[k][2] = p
            BY DEF About
        <3>2. k - 1 \in 1..Len(r) /\ (k - 1) + 1 = k
            BY <1>1, <2>2, <3>1
        <3> QED BY <1>1, <3>1, <3>2 DEF About
    <2>3. 1 \in About(q, p) <=> h[2] = p
        BY <1>1 DEF About
    <2>4. /\ About(q, p) = {} => (p \in E <=> p \in v)
          /\ \A k \in About(q, p) : (\A j \in About(q, p) : j <= k) =>
                (p \in E <=> q[k][1] = "registered")
        BY Zenon DEF Leads, Path
    <2>5. ASSUME About(r, p) = {} PROVE p \in E <=> p \in w
        <3>1. \A k \in About(q, p) : k = 1
            BY <2>2, <2>5, Zenon
        <3>2. CASE h[2] = p
            <4>1. \A j \in About(q, p) : j <= 1
                BY <3>1
            <4>2. p \in E <=> h[1] = "registered"
                BY <1>1, <2>3, <2>4, <3>2, <4>1, Zenon
            <4> QED BY <1>2, <3>2, <4>2, Zenon
        <3>3. CASE h[2] # p
            <4>1. p \in E <=> p \in v
                BY <2>3, <2>4, <3>1, <3>3, Zenon
            <4> QED BY <1>2, <3>3, <4>1, Zenon
        <3> QED BY <3>2, <3>3, Zenon
    <2>6. ASSUME NEW k \in About(r, p), \A j \in About(r, p) : j <= k
          PROVE  p \in E <=> r[k][1] = "registered"
        <3>1. ASSUME NEW j \in About(q, p) PROVE j <= k + 1
            <4>1. CASE j = 1
                BY <2>1, <4>1
            <4>2. CASE j # 1
                <5>1. j - 1 <= k /\ j \in Nat
                    BY <2>2, <2>6, <4>2, Zenon
                <5> QED BY <5>1, <2>1
            <4> QED BY <4>1, <4>2, Zenon
        <3> QED BY <2>1, <2>4, <3>1, Zenon
    <2> QED BY <2>5, <2>6, Zenon
<1> QED BY <1>3, Zenon DEF Leads, Path, h, r, w

\* One event for each path of a set (subscribe, merge_sync).
LEMMA EventsLead ==
    ASSUME NEW v, NEW S \in SUBSET Path
    PROVE  /\ \A e \in Events("registered", S) : e \in Seq(Event) /\ Leads(v, e, v \cup S)
           /\ \A e \in Events("unregistered", S) : e \in Seq(Event) /\ Leads(v, e, v \ S)
<1> USE SMTT(60)
<1>1. Cardinality(S) \in Nat
    BY PathsApart, FS_Subset, FS_CardinalityType, Zenon DEF Path
<1>2. ASSUME NEW kind \in {"registered", "unregistered"}, NEW e \in Events(kind, S)
      PROVE  /\ e \in Seq(Event)
             /\ \A p \in Path : /\ About(e, p) = {} => p \notin S
                               /\ \A k \in About(e, p) : p \in S /\ e[k][1] = kind
    <2>1. /\ e \in [1..Cardinality(S) -> {<<kind, p>> : p \in S}]
          /\ \A p \in S : \E k \in 1..Cardinality(S) : e[k] = <<kind, p>>
        BY <1>2, Zenon DEF Events
    <2>2. {<<kind, p>> : p \in S} \subseteq Event
        BY DEF Event
    <2>3. e \in Seq(Event) /\ Len(e) = Cardinality(S)
        BY <1>1, <2>1, <2>2
    <2>4. \A k \in 1..Len(e) : \E p \in S : e[k] = <<kind, p>>
        BY <2>1, <2>3, Zenon
    <2>5. ASSUME NEW p \in Path, p \in S PROVE About(e, p) # {}
        <3>1. PICK k \in 1..Len(e) : e[k] = <<kind, p>>
            BY <2>1, <2>3, <2>5, Zenon
        <3> QED BY <3>1 DEF About
    <2>6. ASSUME NEW p \in Path, NEW k \in About(e, p) PROVE p \in S /\ e[k][1] = kind
        BY <2>4 DEF About
    <2> QED BY <2>3, <2>5, <2>6, Zenon
<1>3. ASSUME NEW e \in Events("registered", S) PROVE Leads(v, e, v \cup S)
    <2>1. \A p \in Path : /\ About(e, p) = {} => p \notin S
                          /\ \A k \in About(e, p) : p \in S /\ e[k][1] = "registered"
        BY <1>2, Zenon
    <2> QED BY <2>1, Zenon DEF Leads, Path
<1>4. ASSUME NEW e \in Events("unregistered", S) PROVE Leads(v, e, v \ S)
    <2>1. \A p \in Path : /\ About(e, p) = {} => p \notin S
                          /\ \A k \in About(e, p) : p \in S /\ e[k][1] = "unregistered"
        BY <1>2, Zenon
    <2> QED BY <2>1 DEF Leads, Path
<1> QED BY <1>2, <1>3, <1>4, Zenon

\* One event (register, deregister).
LEMMA EventLeads ==
    ASSUME NEW v, NEW p \in Path
    PROVE  /\ <<Up(p)>> \in Seq(Event) /\ Leads(v, <<Up(p)>>, v \cup {p})
           /\ <<Down(p)>> \in Seq(Event) /\ Leads(v, <<Down(p)>>, v \ {p})
<1> USE SMTT(60)
<1>1. Up(p) \in Event /\ Down(p) \in Event /\ Up(p)[1] = "registered" /\ Up(p)[2] = p
        /\ Down(p)[1] = "unregistered" /\ Down(p)[2] = p
    BY DEF Event, Up, Down
<1>2. \A x \in Event : <<x>> \in Seq(Event) /\ Len(<<x>>) = 1 /\ <<x>>[1] = x /\ 1..1 = {1}
    OBVIOUS
<1>3. ASSUME NEW x \in Event, x[2] = p
      PROVE  \A a \in Path : /\ a # p => About(<<x>>, a) = {}
                             /\ a = p => About(<<x>>, a) = {1}
    BY <1>2, <1>3 DEF About
<1>4. ASSUME NEW x \in Event, x[2] = p, NEW E, \A a \in Path : a # p => (a \in E <=> a \in v),
             p \in E <=> x[1] = "registered"
      PROVE  Leads(v, <<x>>, E)
    <2>1. PICK s : s = <<x>>
        BY Zenon
    <2>2. /\ s[1] = x
          /\ \A a \in Path : (a # p => About(s, a) = {}) /\ (a = p => About(s, a) = {1})
        BY <1>2, <1>3, <1>4, <2>1, Zenon
    <2>3. ASSUME NEW a \in Path
          PROVE  /\ About(s, a) = {} => (a \in E <=> a \in v)
                 /\ \A k \in About(s, a) : (\A j \in About(s, a) : j <= k) =>
                       (a \in E <=> s[k][1] = "registered")
        <3>1. CASE a = p
            <4>1. About(s, a) # {} /\ \A k \in About(s, a) : s[k] = x
                BY <2>2, <3>1, Zenon
            <4> QED BY <1>4, <3>1, <4>1, Zenon
        <3>2. CASE a # p
            BY <1>4, <2>2, <3>2, Zenon
        <3> QED BY <3>1, <3>2, Zenon
    <2>4. Leads(v, s, E)
        BY <2>3, Zenon DEF Leads, Path
    <2> QED BY <2>1, <2>4, Zenon
<1>5. Leads(v, <<Up(p)>>, v \cup {p})
    BY <1>1, <1>4, Zenon
<1>6. Leads(v, <<Down(p)>>, v \ {p})
    BY <1>1, <1>4, Zenon
<1> QED BY <1>1, <1>2, <1>5, <1>6, Zenon

\* The inductive invariant of the stream.
StreamInv ==
    /\ entries \subseteq Path
    /\ "queue" \in DOMAIN stream /\ "fed" \in DOMAIN stream
    /\ stream.fed => stream.queue \in Seq(Event) /\ Leads(view, stream.queue, entries)

\* A change of the table, broadcast to the stream (broadcast).
LEMMA BroadcastKeeps ==
    ASSUME StreamInv, NEW e \in Seq(Event), NEW F \in SUBSET Path, Leads(entries, e, F),
           entries' = F, view' = view, Broadcast(e)
    PROVE  StreamInv'
<1> USE SMTT(60)
<1>1. stream' = Fed(stream, e)
    BY Zenon DEF Broadcast
<1>2. CASE ~stream.fed
    <2>1. stream' = stream
        BY <1>1, <1>2, Zenon DEF Fed
    <2> QED BY <1>2, <2>1, Zenon DEF StreamInv
<1>3. CASE stream.fed
    <2>1. PICK c : c = stream.queue \o e
        BY Zenon
    <2>2. stream' = [stream EXCEPT !.queue = Prefix(c, stream.room), !.fed = Len(c) <= stream.room]
        BY <1>1, <1>3, <2>1, Zenon DEF Fed
    <2>3. /\ "queue" \in DOMAIN stream' /\ "fed" \in DOMAIN stream'
          /\ stream'.queue = Prefix(c, stream.room) /\ stream'.fed = (Len(c) <= stream.room)
        BY <2>2, Zenon DEF StreamInv
    <2>4. c \in Seq(Event)
        BY <1>3, <2>1 DEF StreamInv
    <2>5. Leads(view, c, F)
        BY <1>3, <2>1, LeadsOn, Zenon DEF StreamInv
    <2>6. stream'.fed => stream'.queue = c
        BY <2>3, Zenon DEF Prefix
    <2> QED BY <2>3, <2>4, <2>5, <2>6, Zenon DEF StreamInv
<1> QED BY <1>2, <1>3, Zenon

\* It holds throughout.
LEMMA StreamKept == RecSpec => []StreamInv
<1>1. RecInit => StreamInv
    BY DEF RecInit, StreamInv, NoStream
<1>2. StreamInv /\ [RecNext]_recVars => StreamInv'
    <2> SUFFICES ASSUME StreamInv, [RecNext]_recVars PROVE StreamInv'
        BY Zenon
    <2>0. \A p \in LocalPath : p \in Path /\ entries \cup {p} \in SUBSET Path
                               /\ entries \ {p} \in SUBSET Path
        BY DEF StreamInv, Path
    <2>1. ASSUME UNCHANGED <<entries, stream, view>> PROVE StreamInv'
        BY <2>1, Zenon DEF StreamInv
    <2>2. CASE Subscribe
        <3>1. PICK q \in Events("registered", entries) :
                 stream' = [queue |-> q, room |-> Cardinality(entries) + Buffer, fed |-> TRUE]
            BY <2>2, Zenon DEF Subscribe
        <3>2. entries' = entries /\ view' = {}
            BY <2>2, Zenon DEF Subscribe
        <3>3. q \in Seq(Event) /\ Leads({}, q, {} \cup entries)
            BY <3>1, EventsLead, Zenon DEF StreamInv
        <3>4. {} \cup entries = entries
            BY Zenon
        <3>5. stream'.queue = q /\ "queue" \in DOMAIN stream' /\ "fed" \in DOMAIN stream'
            BY <3>1, Zenon
        <3> QED BY <3>2, <3>3, <3>4, <3>5, Zenon DEF StreamInv
    <2>3. CASE Consume
        <3>1. /\ stream.queue # <<>> /\ view' = Seen(view, Head(stream.queue)) /\ entries' = entries
              /\ stream' = [stream EXCEPT !.queue = Tail(stream.queue)]
            BY <2>3, Zenon DEF Consume
        <3>2. /\ "queue" \in DOMAIN stream' /\ "fed" \in DOMAIN stream'
              /\ stream'.queue = Tail(stream.queue) /\ stream'.fed = stream.fed
            BY <3>1, Zenon DEF StreamInv
        <3>3. ASSUME stream.fed
              PROVE  Tail(stream.queue) \in Seq(Event) /\ Leads(view', Tail(stream.queue), entries)
            <4>1. stream.queue \in Seq(Event) /\ Leads(view, stream.queue, entries)
                BY <3>3, Zenon DEF StreamInv
            <4>2. Tail(stream.queue) \in Seq(Event)
                BY <3>1, <4>1
            <4> QED BY <3>1, <4>1, <4>2, LeadsAfter, Zenon
        <3> QED BY <3>1, <3>2, <3>3, Zenon DEF StreamInv
    <2>4. ASSUME NEW S \in SUBSET PeerPath, MergeSync(S) PROVE StreamInv'
        <3> DEFINE G == (entries \cap PeerPath) \ S
                   C == S \ entries
        <3>1. PICK g \in Events("unregistered", G), c \in Events("registered", C) : Broadcast(g \o c)
            BY <2>4, Zenon DEF MergeSync
        <3>2. G \in SUBSET Path /\ C \in SUBSET Path /\ (entries \ PeerPath) \cup S \in SUBSET Path
            BY DEF StreamInv, Path
        <3>3. g \in Seq(Event) /\ Leads(entries, g, entries \ G)
            BY <3>1, <3>2, EventsLead, Zenon
        <3>4. c \in Seq(Event) /\ Leads(entries \ G, c, (entries \ G) \cup C)
            BY <3>1, <3>2, EventsLead, Zenon
        <3>5. (entries \ G) \cup C = (entries \ PeerPath) \cup S
            OBVIOUS
        <3> HIDE DEF G, C
        <3>6. g \o c \in Seq(Event)
            BY <3>3, <3>4
        <3>7. Leads(entries, g \o c, (entries \ PeerPath) \cup S)
            BY <3>3, <3>4, <3>5, LeadsOn, Zenon
        <3>8. entries' = (entries \ PeerPath) \cup S /\ view' = view
            BY <2>4, Zenon DEF MergeSync
        <3> QED BY <3>1, <3>2, <3>6, <3>7, <3>8, BroadcastKeeps, Zenon
    <2>5. ASSUME NEW p \in LocalPath, NEW who, Adds(p, who), view' = view PROVE StreamInv'
        <3>1. entries' = entries \cup {p} /\ Broadcast(<<Up(p)>>)
            BY <2>5, Zenon DEF Adds
        <3> QED BY <2>0, <2>5, <3>1, EventLeads, BroadcastKeeps, Zenon
    <2>6. ASSUME NEW p \in LocalPath, Removes(p), view' = view PROVE StreamInv'
        <3>1. entries' = entries \ {p} /\ Broadcast(<<Down(p)>>)
            BY <2>6, Zenon DEF Removes
        <3> QED BY <2>0, <2>6, <3>1, EventLeads, BroadcastKeeps, Zenon
    <2>7. ASSUME NEW p \in LocalPath, RegisterManual(p) \/ DeregisterManual(p) PROVE StreamInv'
        BY <2>5, <2>6, <2>7, Zenon DEF RegisterManual, DeregisterManual
    <2>8. ASSUME NEW s \in Scope, CloseScope(s) \/ RetireScope(s) PROVE StreamInv'
        BY <2>1, <2>8, Zenon DEF CloseScope, RetireScope
    <2>9. ASSUME NEW p \in LocalPath, NEW s \in Scope, Publish(p, s) PROVE StreamInv'
        BY <2>5, <2>9, Zenon DEF Publish
    <2>10. ASSUME NEW p \in LocalPath, NEW s \in Scope, Withdraw(p, s) \/ Cleanup(s, p)
           PROVE  StreamInv'
        BY <2>1, <2>6, <2>10, Zenon DEF Withdraw, Cleanup
    <2>11. CASE UNCHANGED recVars
        BY <2>1, <2>11, Zenon DEF recVars
    <2> QED BY <2>2, <2>3, <2>4, <2>7, <2>8, <2>9, <2>10, <2>11, Zenon DEF RecNext
<1> QED BY <1>1, <1>2, PTL DEF RecSpec

\* For any number of paths, generations and events, and any room: the events of an
\* open stream lead from what its consumer has seen to the table (subscribe,
\* broadcast, merge_sync).
THEOREM StreamAlwaysFollows == RecSpec => []StreamFollows
<1>1. StreamInv => StreamFollows
    BY Zenon DEF StreamInv, StreamFollows
<1> QED BY <1>1, StreamKept, PTL

-----------------------------------------------------------------------------
(* Mirrors *)

\* The values an entry may have.
EntryState ==
    [queued : Nat, active : BOOLEAN, encoders : Int, workerDone : BOOLEAN, permit : BOOLEAN,
     finish : BOOLEAN, cancelled : BOOLEAN, closed : BOOLEAN, enqueued : Nat, ended : Nat]

\* The registry, the entries and the copiers name entries that were made.
MirrorTypeOK ==
    /\ entriesMade \in 0..MaxEntries
    /\ registry \in [open : BOOLEAN, current : Entries \cup {NoGen}]
    /\ entry \in [Gen -> EntryState]
    /\ copying \in [Copier -> [gen : Entries \cup {NoGen}, at : {"idle", "encode", "encoded", "finish"}]]
    /\ \A c \in Copier : copying[c].gen = NoGen <=> copying[c].at = "idle"
    /\ finishing \subseteq Entries

\* The jobs an entry still has.
Jobs(e) == e.queued + (IF e.active THEN 1 ELSE 0)

\* An entry's account: what it took in has ended, is queued or is with the worker;
\* a worker that is done left nothing; the permit is taken only then and when no
\* encoder is counted; and only then is the entry closed.
Balanced(e) ==
    /\ e.enqueued = e.ended + Jobs(e)
    /\ e.workerDone => e.cancelled /\ e.queued = 0 /\ ~e.active
    /\ ~e.permit => e.workerDone /\ e.encoders = 0
    /\ e.closed => ~e.permit

\* Who has taken a slot through the handle of entry g and is not yet counted out.
Copying(g) == {c \in Copier : copying[c].gen = g /\ copying[c].at \in {"encode", "encoded"}}

\* The inductive invariant: the count of encoders is the number of copiers in the
\* entry, so that nobody can queue a job after the permit was taken.
MirrorInv ==
    /\ MirrorTypeOK
    /\ \A g \in Entries : Balanced(entry[g]) /\ entry[g].encoders = Cardinality(Copying(g))
    /\ \A g \in finishing : ~entry[g].permit

\* What the actions need of a sound state.
LEMMA MirrorFacts ==
    ASSUME MirrorInv
    PROVE  /\ MaxEntries \in Nat /\ entriesMade \in Nat /\ Entries \subseteq Gen /\ NoGen \notin Gen
           /\ Gen \subseteq Nat
           /\ \A g \in Entries : /\ entry[g] \in EntryState /\ Balanced(entry[g])
                                 /\ entry[g].encoders = Cardinality(Copying(g))
           /\ \A g : IsFiniteSet(Copying(g)) /\ Cardinality(Copying(g)) \in Nat
<1> USE SMTT(60)
<1>1. MaxEntries \in Nat /\ entriesMade \in 0..MaxEntries
    BY MirrorBounds, Zenon DEF MirrorInv, MirrorTypeOK
<1>2. Entries \subseteq Gen /\ NoGen \notin Gen /\ Gen \subseteq Nat
    BY <1>1 DEF Entries, Gen, NoGen
<1>3. \A g : IsFiniteSet(Copying(g)) /\ Cardinality(Copying(g)) \in Nat
    <2> TAKE g
    <2>1. Copying(g) \in SUBSET Copier
        BY Zenon DEF Copying
    <2> QED BY <2>1, MirrorBounds, FS_Subset, FS_CardinalityType, Zenon
<1>4. \A g \in Entries : /\ entry[g] \in EntryState /\ Balanced(entry[g])
                         /\ entry[g].encoders = Cardinality(Copying(g))
    BY <1>2, Zenon DEF MirrorInv, MirrorTypeOK
<1> QED BY <1>1, <1>2, <1>3, <1>4

\* A step that makes no entry and moves no encoder keeps the invariant when it
\* keeps the entries' accounts.
LEMMA AccountsKept ==
    ASSUME MirrorInv, UNCHANGED <<copying, entriesMade>>,
           registry' \in [open : BOOLEAN, current : Entries \cup {NoGen}],
           entry' \in [Gen -> EntryState], finishing' \subseteq Entries,
           \A g \in Entries : Balanced(entry'[g]) /\ entry'[g].encoders = entry[g].encoders,
           \A g \in finishing' : ~entry'[g].permit
    PROVE  MirrorInv'
<1>1. Entries' = Entries /\ \A g : Copying(g)' = Copying(g)
    BY Zenon DEF Entries, Copying
<1>2. MirrorTypeOK'
    BY <1>1, Zenon DEF MirrorInv, MirrorTypeOK
<1>3. \A g \in Entries' : Balanced(entry'[g]) /\ entry'[g].encoders = Cardinality(Copying(g)')
    BY <1>1, MirrorFacts, Zenon
<1> QED BY <1>2, <1>3, Zenon DEF MirrorInv, Balanced, Jobs

\* One entry changes, to a record given by its fields.
LEMMA EntryChanged ==
    ASSUME MirrorInv, UNCHANGED <<copying, entriesMade>>,
           registry' \in [open : BOOLEAN, current : Entries \cup {NoGen}],
           NEW g \in Entries, NEW e \in EntryState, entry' = [entry EXCEPT ![g] = e],
           Balanced(e), e.encoders = entry[g].encoders, entry[g].permit = FALSE => e.permit = FALSE,
           finishing' \subseteq finishing \cup {g}, g \in finishing' => ~e.permit
    PROVE  MirrorInv'
<1>1. g \in Gen /\ entry \in [Gen -> EntryState] /\ finishing \subseteq Entries /\ Entries \subseteq Gen
    BY MirrorFacts, Zenon DEF MirrorInv, MirrorTypeOK
<1>2. entry'[g] = e /\ \A k \in Gen : k # g => entry'[k] = entry[k]
    BY <1>1, Zenon
<1>3. entry' \in [Gen -> EntryState]
    BY <1>1, Zenon
<1>4. \A k \in Entries : Balanced(entry'[k]) /\ entry'[k].encoders = entry[k].encoders
    BY <1>1, <1>2, MirrorFacts, Zenon
<1>5. \A k \in finishing' : ~entry'[k].permit
    BY <1>1, <1>2, Zenon DEF MirrorInv
<1> QED BY <1>1, <1>3, <1>4, <1>5, AccountsKept, Zenon

\* A cancellation, of an entry or of none, leaves every account as it is.
LEMMA CancelKeeps ==
    ASSUME MirrorInv, NEW g \in Entries \cup {NoGen}, NEW f, f = Cancels(entry, g)
    PROVE  /\ f \in [Gen -> EntryState]
           /\ \A k \in Entries : /\ Balanced(f[k]) /\ f[k].encoders = entry[k].encoders
                                 /\ f[k].permit = entry[k].permit
<1> USE SMTT(60)
<1>1. entry \in [Gen -> EntryState] /\ Entries \subseteq Gen /\ NoGen \notin Gen
    BY MirrorFacts, Zenon DEF MirrorInv, MirrorTypeOK
<1>2. CASE g = NoGen
    BY <1>1, <1>2, MirrorFacts, Zenon DEF Cancels
<1>3. CASE g # NoGen
    <2>1. g \in Gen /\ f = [entry EXCEPT ![g].cancelled = TRUE]
        BY <1>1, <1>3, Zenon DEF Cancels
    <2>2. PICK e : e = [entry[g] EXCEPT !.cancelled = TRUE]
        BY Zenon
    <2>3. /\ e \in EntryState /\ e.encoders = entry[g].encoders /\ e.permit = entry[g].permit
          /\ e.enqueued = entry[g].enqueued /\ e.ended = entry[g].ended /\ e.queued = entry[g].queued
          /\ e.active = entry[g].active /\ e.workerDone = entry[g].workerDone
          /\ e.closed = entry[g].closed /\ e.cancelled
        BY <1>1, <2>1, <2>2, Zenon DEF EntryState
    <2>4. g \in Entries => Balanced(e)
        BY <2>3, MirrorFacts DEF Balanced, Jobs
    <2>5. f[g] = e /\ \A k \in Gen : k # g => f[k] = entry[k]
        BY <1>1, <2>1, <2>2, Zenon
    <2>6. f \in [Gen -> EntryState]
        BY <1>1, <2>1, <2>2, <2>3, Zenon
    <2> QED BY <1>1, <2>3, <2>4, <2>5, <2>6, MirrorFacts, Zenon
<1> QED BY <1>2, <1>3, Zenon

\* register and replace_group make an entry, that nobody copies into yet.
LEMMA EntryMade ==
    ASSUME MirrorInv, entriesMade < MaxEntries, entriesMade' = entriesMade + 1,
           NEW f, f = Cancels(entry, registry.current),
           entry' = [f EXCEPT ![entriesMade + 1] = NewEntry],
           registry' = [registry EXCEPT !.current = entriesMade + 1],
           UNCHANGED <<copying, finishing>>
    PROVE  MirrorInv'
<1> USE SMTT(60)
<1>1. /\ registry \in [open : BOOLEAN, current : Entries \cup {NoGen}] /\ finishing \subseteq Entries
      /\ copying \in [Copier -> [gen : Entries \cup {NoGen},
                                at : {"idle", "encode", "encoded", "finish"}]]
      /\ \A c \in Copier : copying[c].gen = NoGen <=> copying[c].at = "idle"
    BY Zenon DEF MirrorInv, MirrorTypeOK
<1>2. registry.current \in Entries \cup {NoGen}
    BY <1>1, Zenon
<1>3. /\ f \in [Gen -> EntryState]
      /\ \A k \in Entries : /\ Balanced(f[k]) /\ f[k].encoders = entry[k].encoders
                            /\ f[k].permit = entry[k].permit
    BY <1>2, CancelKeeps, Zenon
<1>4. PICK n : n = entriesMade + 1
    BY Zenon
<1>5. /\ n \in Gen /\ n \notin Entries /\ Entries' = Entries \cup {n} /\ Entries \subseteq Gen
      /\ entriesMade' \in 0..MaxEntries /\ NoGen \notin Entries'
    BY <1>4, MirrorFacts DEF Entries, Gen, NoGen
<1>6. NewEntry \in EntryState /\ Balanced(NewEntry) /\ NewEntry.encoders = 0
    BY DEF NewEntry, EntryState, Balanced, Jobs
<1>7. /\ entry' \in [Gen -> EntryState] /\ entry'[n] = NewEntry
      /\ \A k \in Entries : entry'[k] = f[k]
    BY <1>3, <1>4, <1>5, <1>6, Zenon
<1>8. MirrorTypeOK'
    <2>1. registry' \in [open : BOOLEAN, current : Entries' \cup {NoGen}]
        BY <1>1, <1>4, <1>5, Zenon
    <2>2. copying' \in [Copier -> [gen : Entries' \cup {NoGen},
                                  at : {"idle", "encode", "encoded", "finish"}]]
        BY <1>1, <1>5, Zenon
    <2> QED BY <1>1, <1>5, <1>7, <2>1, <2>2, Zenon DEF MirrorTypeOK
<1>9. \A g \in Entries' : Balanced(entry'[g]) /\ entry'[g].encoders = Cardinality(Copying(g)')
    <2> TAKE g \in Entries'
    <2>1. Copying(g)' = Copying(g)
        BY Zenon DEF Copying
    <2>2. CASE g \in Entries
        BY <1>3, <1>7, <2>1, <2>2, MirrorFacts
    <2>3. CASE g = n
        <3>1. Copying(g) = {}
            BY <1>1, <1>5, <2>3, Zenon DEF Copying
        <3> QED BY <1>6, <1>7, <2>1, <2>3, <3>1, FS_EmptySet, Zenon
    <2> QED BY <1>5, <2>2, <2>3, Zenon
<1>10. \A g \in finishing' : ~entry'[g].permit
    BY <1>1, <1>3, <1>7 DEF MirrorInv
<1> QED BY <1>8, <1>9, <1>10, Zenon DEF MirrorInv, Balanced, Jobs

\* The calls on the registry, its groups and its handles.
LEMMA RegistryStep ==
    ASSUME MirrorInv,
           \/ Register \/ CloseRegistry
           \/ \E g \in Entries \cup {NoGen} : ReplaceGroup(g)
           \/ \E g \in Entries : CancelGroup(g) \/ CloseHandle(g)
    PROVE  MirrorInv'
<1> USE SMTT(60)
<1>1. /\ registry \in [open : BOOLEAN, current : Entries \cup {NoGen}] /\ finishing \subseteq Entries
      /\ \A g \in finishing : ~entry[g].permit
    BY Zenon DEF MirrorInv, MirrorTypeOK
<1>2. CASE Register \/ \E g \in Entries \cup {NoGen} : ReplaceGroup(g)
    <2>1. PICK f : f = Cancels(entry, registry.current)
        BY Zenon
    <2> QED BY <1>2, <2>1, EntryMade, Zenon DEF Register, ReplaceGroup
<1>3. ASSUME NEW g \in Entries \cup {NoGen}, entry' = Cancels(entry, g),
             registry' \in [open : BOOLEAN, current : Entries \cup {NoGen}],
             UNCHANGED <<entriesMade, copying, finishing>>
      PROVE  MirrorInv'
    <2>1. PICK f : f = Cancels(entry, g)
        BY Zenon
    <2>2. /\ f \in [Gen -> EntryState]
          /\ \A k \in Entries : /\ Balanced(f[k]) /\ f[k].encoders = entry[k].encoders
                                /\ f[k].permit = entry[k].permit
        BY <2>1, CancelKeeps, Zenon
    <2>3. entry' = f
        BY <1>3, <2>1, Zenon
    <2> QED BY <1>1, <1>3, <2>2, <2>3, AccountsKept, Zenon
<1>4. CASE CloseRegistry
    BY <1>1, <1>3, <1>4, Zenon DEF CloseRegistry
<1>5. CASE \E g \in Entries : CancelGroup(g) \/ CloseHandle(g)
    <2>1. PICK g \in Entries : CancelGroup(g) \/ CloseHandle(g)
        BY <1>5, Zenon
    <2> QED BY <1>1, <1>3, <2>1, Zenon DEF CancelGroup, CloseHandle
<1> QED BY <1>2, <1>4, <1>5, Zenon

\* finish takes the permit only of an entry whose worker and encoders are done.
LEMMA FinishKeeps ==
    ASSUME MirrorInv, NEW g \in Entries, NEW f \in EntryState, Balanced(f),
           f.encoders = entry[g].encoders, f.permit = entry[g].permit, f.workerDone = entry[g].workerDone,
           FinishEntry([entry EXCEPT ![g] = f], g)
    PROVE  \E e \in EntryState :
              /\ entry' = [entry EXCEPT ![g] = e] /\ Balanced(e) /\ e.encoders = entry[g].encoders
              /\ entry[g].permit = FALSE => e.permit = FALSE
              /\ finishing' \subseteq finishing \cup {g} /\ (g \in finishing' => ~e.permit)
<1> USE SMTT(60)
<1>1. g \in Gen /\ entry \in [Gen -> EntryState] /\ \A k \in finishing : ~entry[k].permit
    BY MirrorFacts, Zenon DEF MirrorInv, MirrorTypeOK
<1>2. CASE Retirable(g)
    <2>1. PICK e : e = [f EXCEPT !.permit = FALSE]
        BY Zenon
    <2>2. /\ e \in EntryState /\ e.encoders = f.encoders /\ e.permit = FALSE
          /\ e.enqueued = f.enqueued /\ e.ended = f.ended /\ e.queued = f.queued
          /\ e.active = f.active /\ e.workerDone = f.workerDone
          /\ e.closed = f.closed /\ e.cancelled = f.cancelled
        BY <2>1, Zenon DEF EntryState
    <2>3. Balanced(e)
        BY <1>2, <2>2, Zenon DEF Balanced, Jobs, Retirable
    <2>4. entry' = [entry EXCEPT ![g] = e] /\ finishing' = finishing \cup {g}
        BY <1>1, <1>2, <2>1, Zenon DEF FinishEntry
    <2> QED BY <2>2, <2>3, <2>4, Zenon
<1>3. CASE ~Retirable(g)
    BY <1>1, <1>3, Zenon DEF FinishEntry
<1> QED BY <1>2, <1>3, Zenon

\* Offers of encoded messages, and the worker.
LEMMA WorkerStep ==
    ASSUME MirrorInv, NEW g \in Entries,
           \/ Offer /\ g = registry.current
           \/ Receive(g) \/ Settle(g) \/ WorkerDrop(g) \/ WorkerFinish(g) \/ Announce(g)
    PROVE  MirrorInv'
<1> USE SMTT(60)
<1>1. /\ registry \in [open : BOOLEAN, current : Entries \cup {NoGen}] /\ finishing \subseteq Entries
      /\ \A k \in finishing : ~entry[k].permit
      /\ g \in Gen /\ entry \in [Gen -> EntryState]
    BY MirrorFacts, Zenon DEF MirrorInv, MirrorTypeOK
<1>2. PICK d : d = entry[g]
    BY Zenon
<1>3. d \in EntryState /\ Balanced(d)
    BY <1>2, MirrorFacts, Zenon
<1>4. CASE Offer /\ g = registry.current
    <2>1. PICK e : e = [d EXCEPT !.queued = @ + 1, !.enqueued = @ + 1]
        BY Zenon
    <2>2. /\ e \in EntryState /\ e.encoders = d.encoders /\ e.permit = d.permit
          /\ e.enqueued = d.enqueued + 1 /\ e.ended = d.ended /\ e.queued = d.queued + 1
          /\ e.active = d.active /\ e.workerDone = d.workerDone
          /\ e.closed = d.closed /\ e.cancelled = d.cancelled
        <3>1. d.queued + 1 \in Nat /\ d.enqueued + 1 \in Nat
            BY <1>3 DEF EntryState
        <3> QED BY <1>3, <2>1, <3>1, Zenon DEF EntryState
    <2>3. ~d.cancelled /\ entry' = [entry EXCEPT ![g] = e]
        BY Zenon, <1>1, <1>2, <1>4, <2>1 DEF Offer
    <2>4. Balanced(e)
        BY <1>3, <2>2, <2>3 DEF Balanced, Jobs, EntryState
    <2>5. UNCHANGED <<copying, entriesMade>> /\ registry' = registry /\ finishing' = finishing
        BY <1>4, Zenon DEF Offer
    <2> QED BY <1>1, <1>2, <2>2, <2>3, <2>4, <2>5, EntryChanged, Zenon
<1>5. CASE Receive(g)
    <2>1. PICK e : e = [d EXCEPT !.queued = @ - 1, !.active = TRUE]
        BY Zenon
    <2>2. d.queued > 0 /\ ~d.active /\ ~d.workerDone /\ entry' = [entry EXCEPT ![g] = e]
        BY Zenon, <1>1, <1>2, <1>5, <2>1 DEF Receive
    <2>3. /\ e \in EntryState /\ e.encoders = d.encoders /\ e.permit = d.permit
          /\ e.enqueued = d.enqueued /\ e.ended = d.ended /\ e.queued = d.queued - 1
          /\ e.active = TRUE /\ e.workerDone = d.workerDone
          /\ e.closed = d.closed /\ e.cancelled = d.cancelled
        <3>1. d.queued - 1 \in Nat
            BY <1>3, <2>2 DEF EntryState
        <3> QED BY <1>3, <2>1, <3>1, Zenon DEF EntryState
    <2>4. Balanced(e)
        BY <1>3, <2>2, <2>3 DEF Balanced, Jobs, EntryState
    <2>5. UNCHANGED <<copying, entriesMade>> /\ registry' = registry /\ finishing' = finishing
        BY <1>5, Zenon DEF Receive
    <2> QED BY <1>1, <1>2, <2>2, <2>3, <2>4, <2>5, EntryChanged, Zenon
<1>6. CASE Settle(g)
    <2>1. PICK e : e = [d EXCEPT !.active = FALSE, !.ended = @ + 1]
        BY Zenon
    <2>2. d.active /\ entry' = [entry EXCEPT ![g] = e]
        BY Zenon, <1>1, <1>2, <1>6, <2>1 DEF Settle
    <2>3. /\ e \in EntryState /\ e.encoders = d.encoders /\ e.permit = d.permit
          /\ e.enqueued = d.enqueued /\ e.ended = d.ended + 1 /\ e.queued = d.queued
          /\ e.active = FALSE /\ e.workerDone = d.workerDone
          /\ e.closed = d.closed /\ e.cancelled = d.cancelled
        <3>1. d.ended + 1 \in Nat
            BY <1>3 DEF EntryState
        <3> QED BY <1>3, <2>1, <3>1, Zenon DEF EntryState
    <2>4. Balanced(e)
        BY <1>3, <2>2, <2>3 DEF Balanced, Jobs, EntryState
    <2>5. UNCHANGED <<copying, entriesMade>> /\ registry' = registry /\ finishing' = finishing
        BY <1>6, Zenon DEF Settle
    <2> QED BY <1>1, <1>2, <2>2, <2>3, <2>4, <2>5, EntryChanged, Zenon
<1>7. CASE WorkerDrop(g)
    <2>1. PICK e : e = [d EXCEPT !.cancelled = TRUE, !.workerDone = TRUE, !.finish = TRUE,
                                 !.active = FALSE, !.queued = 0,
                                 !.ended = @ + d.queued + (IF d.active THEN 1 ELSE 0)]
        BY Zenon
    <2>2. ~d.workerDone /\ entry' = [entry EXCEPT ![g] = e]
        BY Zenon, <1>1, <1>2, <1>7, <2>1 DEF WorkerDrop
    <2>3. /\ e \in EntryState /\ e.encoders = d.encoders /\ e.permit = d.permit
          /\ e.enqueued = d.enqueued /\ e.ended = d.ended + Jobs(d) /\ e.queued = 0
          /\ e.active = FALSE /\ e.workerDone /\ e.closed = d.closed /\ e.cancelled
        <3>1. 0 \in Nat /\ d.ended + d.queued + (IF d.active THEN 1 ELSE 0) \in Nat
              /\ d.ended + d.queued + (IF d.active THEN 1 ELSE 0) = d.ended + Jobs(d)
            BY <1>3 DEF EntryState, Jobs
        <3> QED BY <1>3, <2>1, <3>1, Zenon DEF EntryState
    <2>4. Balanced(e)
        BY <1>3, <2>2, <2>3 DEF Balanced, Jobs, EntryState
    <2>5. UNCHANGED <<copying, entriesMade>> /\ registry' = registry /\ finishing' = finishing
        BY <1>7, Zenon DEF WorkerDrop
    <2> QED BY <1>1, <1>2, <2>2, <2>3, <2>4, <2>5, EntryChanged, Zenon
<1>8. CASE WorkerFinish(g)
    <2>1. PICK f : f = [d EXCEPT !.finish = FALSE]
        BY Zenon
    <2>2. /\ f \in EntryState /\ f.encoders = d.encoders /\ f.permit = d.permit
          /\ f.enqueued = d.enqueued /\ f.ended = d.ended /\ f.queued = d.queued
          /\ f.active = d.active /\ f.workerDone = d.workerDone
          /\ f.closed = d.closed /\ f.cancelled = d.cancelled
        BY <1>3, <2>1, Zenon DEF EntryState
    <2>3. Balanced(f)
        BY <1>3, <2>2, Zenon DEF Balanced, Jobs
    <2>4. [entry EXCEPT ![g].finish = FALSE] = [entry EXCEPT ![g] = f]
        BY <1>1, <1>2, <2>1, Zenon
    <2>5. FinishEntry([entry EXCEPT ![g] = f], g) /\ UNCHANGED <<registry, entriesMade, copying, offers>>
        BY <1>8, <2>4, Zenon DEF WorkerFinish
    <2>6. PICK e \in EntryState :
              /\ entry' = [entry EXCEPT ![g] = e] /\ Balanced(e) /\ e.encoders = entry[g].encoders
              /\ entry[g].permit = FALSE => e.permit = FALSE
              /\ finishing' \subseteq finishing \cup {g} /\ (g \in finishing' => ~e.permit)
        BY <1>2, <2>2, <2>3, <2>5, FinishKeeps, Zenon
    <2> QED BY <1>1, <2>5, <2>6, EntryChanged, Zenon
<1>9. CASE Announce(g)
    <2>1. PICK e : e = [d EXCEPT !.closed = TRUE]
        BY Zenon
    <2>2. /\ e \in EntryState /\ e.encoders = d.encoders /\ e.permit = d.permit
          /\ e.enqueued = d.enqueued /\ e.ended = d.ended /\ e.queued = d.queued
          /\ e.active = d.active /\ e.workerDone = d.workerDone
          /\ e.closed /\ e.cancelled = d.cancelled
        BY <1>3, <2>1, Zenon DEF EntryState
    <2>3. g \in finishing /\ entry' = [entry EXCEPT ![g] = e] /\ finishing' = finishing \ {g}
        BY <1>1, <1>2, <1>9, <2>1, Zenon DEF Announce
    <2>4. Balanced(e) /\ ~d.permit
        BY <1>1, <1>2, <1>3, <2>2, <2>3, Zenon DEF Balanced, Jobs
    <2>5. UNCHANGED <<copying, entriesMade>> /\ registry' = registry
        BY <1>9, Zenon DEF Announce
    <2> QED BY <1>1, <1>2, <2>2, <2>3, <2>4, <2>5, EntryChanged, Zenon
<1> QED BY <1>4, <1>5, <1>6, <1>7, <1>8, <1>9, Zenon

\* A copier moves, and with it at most the encoders of one entry.
LEMMA CopierMoved ==
    ASSUME MirrorInv, UNCHANGED <<entriesMade, registry>>, finishing' \subseteq Entries,
           NEW c \in Copier, NEW p \in [gen : Entries \cup {NoGen},
                                        at : {"idle", "encode", "encoded", "finish"}],
           p.gen = NoGen <=> p.at = "idle", copying' = [copying EXCEPT ![c] = p],
           entry' \in [Gen -> EntryState],
           \A g \in Entries : Balanced(entry'[g]) /\ entry'[g].encoders = Cardinality(Copying(g)'),
           \A g \in finishing' : ~entry'[g].permit
    PROVE  MirrorInv'
<1> USE SMTT(60)
<1>1. Entries' = Entries
    BY Zenon DEF Entries
<1>2. MirrorTypeOK'
    <2>1. /\ registry \in [open : BOOLEAN, current : Entries \cup {NoGen}]
          /\ entriesMade \in 0..MaxEntries
          /\ copying \in [Copier -> [gen : Entries \cup {NoGen},
                                    at : {"idle", "encode", "encoded", "finish"}]]
          /\ \A k \in Copier : copying[k].gen = NoGen <=> copying[k].at = "idle"
        BY Zenon DEF MirrorInv, MirrorTypeOK
    <2>2. /\ copying' \in [Copier -> [gen : Entries \cup {NoGen},
                                     at : {"idle", "encode", "encoded", "finish"}]]
          /\ copying'[c] = p /\ \A k \in Copier : k # c => copying'[k] = copying[k]
        BY <2>1, Zenon
    <2>3. \A k \in Copier : copying'[k].gen = NoGen <=> copying'[k].at = "idle"
        BY <2>1, <2>2, Zenon
    <2> QED BY <1>1, <2>1, <2>2, <2>3, Zenon DEF MirrorTypeOK
<1> QED BY <1>1, <1>2, Zenon DEF MirrorInv, Balanced, Jobs

\* Who is busy after copier c has moved to p.
LEMMA CopyingAfter ==
    ASSUME MirrorInv, NEW c \in Copier, NEW p, copying' = [copying EXCEPT ![c] = p]
    PROVE  /\ \A g : c \in Copying(g)' <=> p.gen = g /\ p.at \in {"encode", "encoded"}
           /\ \A g : Copying(g)' \ {c} = Copying(g) \ {c}
<1>1. copying'[c] = p /\ \A k \in Copier : k # c => copying'[k] = copying[k]
    BY Zenon DEF MirrorInv, MirrorTypeOK
<1> QED BY <1>1, Zenon DEF Copying

\* The same encoders are counted when c stays busy, or stays out.
LEMMA CopyingSame ==
    ASSUME MirrorInv, NEW c \in Copier, NEW p, copying' = [copying EXCEPT ![c] = p],
           \A g \in Entries : c \in Copying(g) <=> p.gen = g /\ p.at \in {"encode", "encoded"}
    PROVE  \A g \in Entries : Copying(g)' = Copying(g)
<1> TAKE g \in Entries
<1>1. c \in Copying(g)' <=> c \in Copying(g)
    BY CopyingAfter, Zenon
<1>2. Copying(g)' \ {c} = Copying(g) \ {c}
    BY CopyingAfter, Zenon
<1>3. \A S, T : S \ {c} = T \ {c} /\ (c \in S <=> c \in T) => S = T
    OBVIOUS
<1> QED BY <1>1, <1>2, <1>3, Zenon

\* The encoders: offer_local, the copy, and its end.
LEMMA EncoderStep ==
    ASSUME MirrorInv, NEW c \in Copier, Encoder(c) \/ \E g \in Entries : OfferLocal(c, g)
    PROVE  MirrorInv'
<1> USE SMTT(60)
<1>1. /\ finishing \subseteq Entries /\ \A k \in finishing : ~entry[k].permit
      /\ entry \in [Gen -> EntryState] /\ Entries \subseteq Gen
      /\ copying[c] \in [gen : Entries \cup {NoGen}, at : {"idle", "encode", "encoded", "finish"}]
      /\ copying[c].gen = NoGen <=> copying[c].at = "idle"
      /\ copying \in [Copier -> [gen : Entries \cup {NoGen},
                                at : {"idle", "encode", "encoded", "finish"}]]
      /\ NoGen \notin Entries
    BY MirrorFacts, Zenon DEF MirrorInv, MirrorTypeOK
<1>2. PICK q : q = copying[c]
    BY Zenon
<1>3. \A g : c \in Copying(g) <=> q.gen = g /\ q.at \in {"encode", "encoded"}
    BY <1>2, Zenon DEF Copying
<1>4. ASSUME NEW g \in Entries, OfferLocal(c, g) PROVE MirrorInv'
    <2>1. PICK p : p = [gen |-> g, at |-> "encode"]
        BY Zenon
    <2>2. PICK e : e = [entry[g] EXCEPT !.encoders = @ + 1]
        BY Zenon
    <2>3. /\ ~entry[g].cancelled /\ copying' = [copying EXCEPT ![c] = p] /\ q = NoCopy
          /\ entry' = [entry EXCEPT ![g] = e] /\ UNCHANGED <<registry, entriesMade, finishing>>
        BY <1>1, <1>2, <1>4, <2>1, <2>2, Zenon DEF OfferLocal
    <2>4. /\ entry[g] \in EntryState /\ Balanced(entry[g]) /\ g \in Gen
          /\ entry[g].encoders = Cardinality(Copying(g)) /\ IsFiniteSet(Copying(g))
        BY <1>1, MirrorFacts, Zenon
    <2>5. /\ e \in EntryState /\ e.encoders = entry[g].encoders + 1 /\ e.permit = entry[g].permit
          /\ e.enqueued = entry[g].enqueued /\ e.ended = entry[g].ended /\ e.queued = entry[g].queued
          /\ e.active = entry[g].active /\ e.workerDone = entry[g].workerDone
          /\ e.closed = entry[g].closed /\ e.cancelled = entry[g].cancelled
        <3>1. entry[g].encoders + 1 \in Int
            BY <2>4 DEF EntryState
        <3> QED BY <2>2, <2>4, <3>1, Zenon DEF EntryState
    <2>6. Balanced(e) /\ e.permit
        BY <2>3, <2>4, <2>5, Zenon DEF Balanced, Jobs, EntryState
    <2>7. \A k \in Entries : c \notin Copying(k)
        BY <1>1, <1>3, <2>3, Zenon DEF NoCopy
    <2>8. Copying(g)' = Copying(g) \cup {c} /\ \A k \in Entries : k # g => Copying(k)' = Copying(k)
        <3>1. p.gen = g /\ p.at = "encode"
            BY <2>1, Zenon
        <3>2. /\ \A k : c \in Copying(k)' <=> p.gen = k /\ p.at \in {"encode", "encoded"}
              /\ \A k : Copying(k)' \ {c} = Copying(k) \ {c}
            BY <2>3, CopyingAfter, Zenon
        <3>3. \A S, T : S \ {c} = T \ {c} /\ c \in S => S = T \cup {c}
            OBVIOUS
        <3>4. \A S, T : S \ {c} = T \ {c} /\ c \notin S /\ c \notin T => S = T
            OBVIOUS
        <3>5. c \in Copying(g)' /\ \A k \in Entries : k # g => c \notin Copying(k)'
            BY <3>1, <3>2, Zenon
        <3>6. Copying(g)' = Copying(g) \cup {c}
            BY <3>2, <3>3, <3>5, Zenon
        <3>7. \A k \in Entries : k # g => Copying(k)' = Copying(k)
            BY <2>7, <3>2, <3>4, <3>5, Zenon
        <3> QED BY <3>6, <3>7, Zenon
    <2>9. Cardinality(Copying(g)') = Cardinality(Copying(g)) + 1
        BY <2>4, <2>7, <2>8, FS_AddElement, Zenon
    <2>10. entry' \in [Gen -> EntryState] /\ entry'[g] = e /\ \A k \in Entries : k # g => entry'[k] = entry[k]
        BY <1>1, <2>3, <2>4, <2>5, Zenon
    <2>11. \A k \in Entries : Balanced(entry'[k]) /\ entry'[k].encoders = Cardinality(Copying(k)')
        BY <2>4, <2>5, <2>6, <2>8, <2>9, <2>10, MirrorFacts, Zenon
    <2>12. \A k \in finishing' : ~entry'[k].permit
        BY <1>1, <2>3, <2>4, <2>5, <2>10, Zenon
    <2>13. /\ p \in [gen : Entries \cup {NoGen}, at : {"idle", "encode", "encoded", "finish"}]
           /\ p.gen = NoGen <=> p.at = "idle"
        BY <1>1, <2>1, Zenon
    <2> QED BY <1>1, <2>3, <2>10, <2>11, <2>12, <2>13, CopierMoved, Zenon
<1>5. ASSUME q.at # "idle" PROVE q.gen \in Entries /\ q.gen \in Gen
    BY <1>1, <1>2, <1>5, Zenon
<1>6. ASSUME NEW p, p = [q EXCEPT !.at = "encoded"], q.at = "encode",
             copying' = [copying EXCEPT ![c] = p]
      PROVE  /\ \A k \in Entries : Copying(k)' = Copying(k)
             /\ p \in [gen : Entries \cup {NoGen}, at : {"idle", "encode", "encoded", "finish"}]
             /\ p.gen = NoGen <=> p.at = "idle"
    <2>1. p.gen = q.gen /\ p.at = "encoded"
        BY <1>1, <1>2, <1>6, Zenon
    <2>2. /\ p \in [gen : Entries \cup {NoGen}, at : {"idle", "encode", "encoded", "finish"}]
          /\ p.gen = NoGen <=> p.at = "idle"
        BY <1>1, <1>2, <1>6, Zenon
    <2>3. \A k \in Entries : c \in Copying(k) <=> p.gen = k /\ p.at \in {"encode", "encoded"}
        BY <1>3, <1>6, <2>1, Zenon
    <2> QED BY <1>6, <2>2, <2>3, CopyingSame, Zenon
<1>7. CASE AdmitCopy(c)
    <2>1. PICK g : g = q.gen
        BY Zenon
    <2>2. PICK p : p = [q EXCEPT !.at = "encoded"]
        BY Zenon
    <2>3. PICK e : e = [entry[g] EXCEPT !.queued = @ + 1, !.enqueued = @ + 1]
        BY Zenon
    <2>4. q.at = "encode" /\ g \in Entries /\ g \in Gen
        BY <1>2, <1>5, <1>7, <2>1, Zenon DEF AdmitCopy
    <2>5. /\ ~entry[g].cancelled /\ copying' = [copying EXCEPT ![c] = p]
          /\ entry' = [entry EXCEPT ![g] = e] /\ UNCHANGED <<registry, entriesMade, finishing>>
        BY <1>1, <1>2, <1>7, <2>1, <2>2, <2>3, Zenon DEF AdmitCopy
    <2>6. entry[g] \in EntryState /\ Balanced(entry[g])
        BY <2>4, MirrorFacts, Zenon
    <2>7. /\ e \in EntryState /\ e.encoders = entry[g].encoders /\ e.permit = entry[g].permit
          /\ e.enqueued = entry[g].enqueued + 1 /\ e.ended = entry[g].ended
          /\ e.queued = entry[g].queued + 1
          /\ e.active = entry[g].active /\ e.workerDone = entry[g].workerDone
          /\ e.closed = entry[g].closed /\ e.cancelled = entry[g].cancelled
        <3>1. entry[g].queued + 1 \in Nat /\ entry[g].enqueued + 1 \in Nat
            BY <2>6 DEF EntryState
        <3> QED BY <2>3, <2>6, <3>1, Zenon DEF EntryState
    <2>8. Balanced(e)
        BY <2>5, <2>6, <2>7 DEF Balanced, Jobs, EntryState
    <2>9. /\ entry' \in [Gen -> EntryState] /\ entry'[g] = e
          /\ \A k \in Entries : k # g => entry'[k] = entry[k]
        BY <1>1, <2>4, <2>5, <2>7, Zenon
    <2>10. /\ \A k \in Entries : Copying(k)' = Copying(k)
           /\ p \in [gen : Entries \cup {NoGen}, at : {"idle", "encode", "encoded", "finish"}]
           /\ p.gen = NoGen <=> p.at = "idle"
        BY <1>6, <2>2, <2>4, <2>5, Zenon
    <2>11. \A k \in Entries : Balanced(entry'[k]) /\ entry'[k].encoders = Cardinality(Copying(k)')
        BY <2>7, <2>8, <2>9, <2>10, MirrorFacts, Zenon
    <2>12. \A k \in finishing' : ~entry'[k].permit
        BY <1>1, <2>5, <2>7, <2>9, Zenon
    <2> QED BY <1>1, <2>5, <2>9, <2>10, <2>11, <2>12, CopierMoved, Zenon
<1>8. CASE DropCopy(c)
    <2>1. PICK p : p = [q EXCEPT !.at = "encoded"]
        BY Zenon
    <2>2. /\ q.at = "encode" /\ copying' = [copying EXCEPT ![c] = p]
          /\ UNCHANGED <<registry, entriesMade, entry, finishing>>
        BY <1>1, <1>2, <1>8, <2>1, Zenon DEF DropCopy
    <2>3. /\ \A k \in Entries : Copying(k)' = Copying(k)
          /\ p \in [gen : Entries \cup {NoGen}, at : {"idle", "encode", "encoded", "finish"}]
          /\ p.gen = NoGen <=> p.at = "idle"
        BY <1>6, <2>1, <2>2, Zenon
    <2>4. \A k \in Entries : Balanced(entry'[k]) /\ entry'[k].encoders = Cardinality(Copying(k)')
        BY <2>2, <2>3, MirrorFacts, Zenon
    <2> QED BY <1>1, <2>2, <2>3, <2>4, CopierMoved, Zenon
<1>9. CASE EncoderLeaves(c)
    <2>1. PICK g : g = q.gen
        BY Zenon
    <2>2. PICK p : p = [q EXCEPT !.at = "finish"]
        BY Zenon
    <2>3. PICK e : e = [entry[g] EXCEPT !.encoders = @ - 1]
        BY Zenon
    <2>4. q.at = "encoded" /\ g \in Entries /\ g \in Gen
        BY <1>2, <1>5, <1>9, <2>1, Zenon DEF EncoderLeaves
    <2>5. /\ copying' = [copying EXCEPT ![c] = p]
          /\ entry' = [entry EXCEPT ![g] = e] /\ UNCHANGED <<registry, entriesMade, finishing>>
        BY <1>1, <1>2, <1>9, <2>1, <2>2, <2>3, Zenon DEF EncoderLeaves
    <2>6. /\ entry[g] \in EntryState /\ Balanced(entry[g])
          /\ entry[g].encoders = Cardinality(Copying(g)) /\ IsFiniteSet(Copying(g))
          /\ Cardinality(Copying(g)) \in Nat
        BY <2>4, MirrorFacts, Zenon
    <2>7. /\ e \in EntryState /\ e.encoders = entry[g].encoders - 1 /\ e.permit = entry[g].permit
          /\ e.enqueued = entry[g].enqueued /\ e.ended = entry[g].ended
          /\ e.queued = entry[g].queued
          /\ e.active = entry[g].active /\ e.workerDone = entry[g].workerDone
          /\ e.closed = entry[g].closed /\ e.cancelled = entry[g].cancelled
        <3>1. entry[g].encoders - 1 \in Int
            BY <2>6 DEF EntryState
        <3> QED BY <2>3, <2>6, <3>1, Zenon DEF EntryState
    <2>8. c \in Copying(g) /\ \A k \in Entries : k # g => c \notin Copying(k)
        BY <1>3, <2>1, <2>4, Zenon
    <2>9. Copying(g)' = Copying(g) \ {c} /\ \A k \in Entries : k # g => Copying(k)' = Copying(k)
        <3>1. p.gen = g /\ p.at = "finish"
            BY <1>1, <1>2, <2>1, <2>2, Zenon
        <3>2. /\ \A k : c \in Copying(k)' <=> p.gen = k /\ p.at \in {"encode", "encoded"}
              /\ \A k : Copying(k)' \ {c} = Copying(k) \ {c}
            BY <2>5, CopyingAfter, Zenon
        <3>3. \A S, T : S \ {c} = T \ {c} /\ c \notin S => S = T \ {c}
            OBVIOUS
        <3>4. \A T : c \notin T => T \ {c} = T
            OBVIOUS
        <3>5. \A k : c \notin Copying(k)'
            BY <3>1, <3>2, Zenon
        <3>6. \A k : Copying(k)' = Copying(k) \ {c}
            BY <3>2, <3>3, <3>5, Zenon
        <3> QED BY <2>8, <3>4, <3>6, Zenon
    <2>10. Cardinality(Copying(g)') = Cardinality(Copying(g)) - 1 /\ Cardinality(Copying(g)) # 0
        <3>1. Cardinality(Copying(g) \ {c}) = Cardinality(Copying(g)) - 1
            BY <2>6, <2>8, FS_RemoveElement, Zenon
        <3>2. Cardinality(Copying(g)) # 0
            BY <2>6, <2>8, FS_EmptySet, Zenon
        <3> QED BY <2>9, <3>1, <3>2, Zenon
    <2>11. Balanced(e)
        BY <2>6, <2>7, <2>10, Zenon DEF Balanced, Jobs, EntryState
    <2>12. /\ entry' \in [Gen -> EntryState] /\ entry'[g] = e
           /\ \A k \in Entries : k # g => entry'[k] = entry[k]
        BY <1>1, <2>4, <2>5, <2>7, Zenon
    <2>13. \A k \in Entries : Balanced(entry'[k]) /\ entry'[k].encoders = Cardinality(Copying(k)')
        BY <2>6, <2>7, <2>9, <2>10, <2>11, <2>12, MirrorFacts, Zenon
    <2>14. \A k \in finishing' : ~entry'[k].permit
        BY <1>1, <2>5, <2>7, <2>12, Zenon
    <2>15. /\ p \in [gen : Entries \cup {NoGen}, at : {"idle", "encode", "encoded", "finish"}]
           /\ p.gen = NoGen <=> p.at = "idle"
        BY <1>1, <1>2, <2>2, <2>4, Zenon
    <2> QED BY <1>1, <2>5, <2>12, <2>13, <2>14, <2>15, CopierMoved, Zenon
<1>10. CASE EncoderFinish(c)
    <2>1. PICK g : g = q.gen
        BY Zenon
    <2>2. q.at = "finish" /\ g \in Entries /\ g \in Gen
        BY <1>2, <1>5, <1>10, <2>1, Zenon DEF EncoderFinish
    <2>3. /\ FinishEntry(entry, g) /\ copying' = [copying EXCEPT ![c] = NoCopy]
          /\ UNCHANGED <<registry, entriesMade>>
        BY <1>2, <1>10, <2>1, Zenon DEF EncoderFinish
    <2>4. entry[g] \in EntryState /\ Balanced(entry[g]) /\ [entry EXCEPT ![g] = entry[g]] = entry
        BY <1>1, <2>2, MirrorFacts, Zenon
    <2>5. PICK e \in EntryState :
              /\ entry' = [entry EXCEPT ![g] = e] /\ Balanced(e) /\ e.encoders = entry[g].encoders
              /\ entry[g].permit = FALSE => e.permit = FALSE
              /\ finishing' \subseteq finishing \cup {g} /\ (g \in finishing' => ~e.permit)
        BY <2>2, <2>3, <2>4, FinishKeeps, Zenon
    <2>6. /\ entry' \in [Gen -> EntryState] /\ entry'[g] = e
          /\ \A k \in Entries : k # g => entry'[k] = entry[k]
        BY <1>1, <2>2, <2>5, Zenon
    <2>7. /\ NoCopy \in [gen : Entries \cup {NoGen}, at : {"idle", "encode", "encoded", "finish"}]
          /\ NoCopy.gen = NoGen /\ NoCopy.at = "idle"
        BY Zenon DEF NoCopy
    <2>8. \A k \in Entries : Copying(k)' = Copying(k)
        <3>1. \A k \in Entries : c \in Copying(k) <=> NoCopy.gen = k /\ NoCopy.at \in {"encode", "encoded"}
            BY <1>3, <2>2, <2>7, Zenon
        <3> QED BY <2>3, <3>1, CopyingSame, Zenon
    <2>9. \A k \in Entries : Balanced(entry'[k]) /\ entry'[k].encoders = Cardinality(Copying(k)')
        BY <2>5, <2>6, <2>8, MirrorFacts, Zenon
    <2>10. finishing' \subseteq Entries /\ \A k \in finishing' : ~entry'[k].permit
        BY <1>1, <2>2, <2>5, <2>6, Zenon
    <2> QED BY <2>3, <2>6, <2>7, <2>9, <2>10, CopierMoved, Zenon
<1> QED BY <1>4, <1>7, <1>8, <1>9, <1>10, Zenon DEF Encoder

\* The invariant holds throughout.
LEMMA MirrorAccounts == MirrorSpec => []MirrorInv
<1>1. ASSUME MirrorInit PROVE MirrorInv
    <2>1. entriesMade \in 0..MaxEntries /\ Entries = {}
        BY <1>1, MirrorBounds DEF MirrorInit, Entries
    <2>2. NewEntry \in EntryState
        BY DEF NewEntry, EntryState
    <2>3. MirrorTypeOK
        BY <1>1, <2>1, <2>2, Zenon DEF MirrorInit, MirrorTypeOK, NoCopy
    <2> QED BY <1>1, <2>1, <2>3, Zenon DEF MirrorInit, MirrorInv
<1>2. ASSUME MirrorInv, [MirrorNext]_mirrorVars PROVE MirrorInv'
    <2>1. CASE UNCHANGED mirrorVars
        <3>1. UNCHANGED <<entry, finishing, copying, registry, entriesMade>>
            BY <2>1, Zenon DEF mirrorVars
        <3> QED BY <1>2, <3>1, AccountsKept, MirrorFacts, Zenon DEF MirrorInv, MirrorTypeOK
    <2>2. CASE Offer
        <3>1. registry.current \in Entries
            BY <1>2, <2>2, Zenon DEF Offer, MirrorInv, MirrorTypeOK
        <3> QED BY <1>2, <2>2, <3>1, WorkerStep, Zenon
    <2> QED BY <1>2, <2>1, <2>2, RegistryStep, WorkerStep, EncoderStep, Zenon DEF MirrorNext
<1> QED BY <1>1, <1>2, PTL DEF MirrorSpec

\* "After wait_closed, enqueued equals delivered + failed + timed_out + cancelled",
\* for any number of copiers, entries and messages (Entry::finish, Drop for Worker).
THEOREM ReceiptsAlwaysBalance == MirrorSpec => []ReceiptBalances
<1>1. ASSUME MirrorInv PROVE ReceiptBalances
    <2> SUFFICES ASSUME NEW g \in Entries, entry[g].closed
                 PROVE  /\ entry[g].enqueued = entry[g].ended /\ entry[g].queued = 0 /\ ~entry[g].active
                        /\ \A c \in Copier : copying[c].gen = g => copying[c].at = "finish"
        BY Zenon DEF ReceiptBalances
    <2>1. /\ entry[g] \in EntryState /\ Balanced(entry[g])
          /\ entry[g].encoders = Cardinality(Copying(g)) /\ IsFiniteSet(Copying(g)) /\ g # NoGen
        BY <1>1, MirrorFacts, Zenon
    <2>2. /\ entry[g].enqueued = entry[g].ended /\ entry[g].queued = 0 /\ ~entry[g].active
          /\ entry[g].encoders = 0
        BY <2>1 DEF Balanced, Jobs, EntryState
    <2>3. Copying(g) = {}
        BY <2>1, <2>2, FS_EmptySet, Zenon
    <2>4. ASSUME NEW c \in Copier, copying[c].gen = g PROVE copying[c].at = "finish"
        <3>1. copying[c].at \in {"idle", "encode", "encoded", "finish"} /\ copying[c].at # "idle"
            BY <1>1, <2>1, <2>4, Zenon DEF MirrorInv, MirrorTypeOK
        <3>2. copying[c].at \notin {"encode", "encoded"}
            BY <2>3, <2>4, Zenon DEF Copying
        <3> QED BY <3>1, <3>2, Zenon
    <2> QED BY <2>2, <2>4, Zenon
<1> QED BY <1>1, MirrorAccounts, PTL
=============================================================================
