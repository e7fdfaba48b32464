--------------------------- MODULE RaftCoreProofs ---------------------------
(***************************************************************************)
(* What every method of the core keeps, for a core of any group: the       *)
(* lemmas the proofs about the group (RaftProofs) rest on.                 *)
(***************************************************************************)
EXTENDS RaftInv, RaftHistoryProofs, FiniteSetTheorems

-----------------------------------------------------------------------------
(* Facts about numbers, sets and sequences *)

\* A nonempty set of naturals has a least element (the first change of a batch).
LEMMA LeastElement ==
    ASSUME NEW T, T \subseteq Nat, T # {}
    PROVE  \E k \in T : \A l \in T : k <= l
<1> USE SMTT(60)
<1> DEFINE Less == {ss \in Nat \X Nat : ss[1] < ss[2]}
<1>1. Less = OpToRel(<, Nat)
    BY Zenon DEF OpToRel
<1>2. PICK k \in T : \A l \in T : <<l, k>> \notin Less
    <2> HIDE DEF Less
    <2> QED BY <1>1, NatLessThanWellFounded, WFMin, Zenon
<1>3. \A l \in T : ~(l < k)
    <2> TAKE l \in T
    <2>1. l < k => <<l, k>> \in Less
        <3>1. l \in Nat /\ k \in Nat
            OBVIOUS
        <3> QED BY <3>1, Zenon
    <2> QED BY <2>1, <1>2, Zenon
<1> QED BY <1>3

\* A nonempty set of naturals up to b has a greatest element (the majority
\* index that advance_commit picks).
LEMMA GreatestElement ==
    ASSUME NEW b \in Nat, NEW T, T \subseteq 0..b, T # {}
    PROVE  \E k \in T : \A l \in T : l <= k
<1> USE SMTT(60)
<1> DEFINE D == {b - k : k \in T}
<1>1. D \subseteq Nat /\ D # {}
    <2>1. \A k \in T : b - k \in Nat
        OBVIOUS
    <2> QED BY <2>1, Zenon
<1>2. PICK d \in D : \A e \in D : d <= e
    BY <1>1, LeastElement, Zenon
<1>3. PICK k \in T : d = b - k
    BY <1>2, Zenon
<1>4. \A l \in T : l <= k
    <2> TAKE l \in T
    <2>1. b - l \in D
        OBVIOUS
    <2> QED BY <2>1, <1>2, <1>3
<1> QED BY <1>4, Zenon

\* Two majorities of the members share a member (quorum).
LEMMA QuorumsMeet ==
    ASSUME NEW P \in SUBSET Server, NEW Q \in SUBSET Server,
           Cardinality(P) >= QuorumSize, Cardinality(Q) >= QuorumSize
    PROVE  P \cap Q # {}
<1> USE SMTT(60)
<1>1. /\ IsFiniteSet(P) /\ IsFiniteSet(Q) /\ IsFiniteSet(P \cup Q)
      /\ Cardinality(P \cup Q) <= Cardinality(Server)
      /\ Cardinality(P \cup Q) = Cardinality(P) + Cardinality(Q) - Cardinality(P \cap Q)
    <2>1. IsFiniteSet(P) /\ IsFiniteSet(Q)
        BY RaftConstants, FS_Subset, Zenon
    <2>2. P \cup Q \in SUBSET Server
        OBVIOUS
    <2> QED BY <2>1, <2>2, RaftConstants, FS_Subset, FS_Union, Zenon
<1>2. /\ Cardinality(Server) \in Nat /\ Cardinality(P) \in Nat
      /\ Cardinality(Q) \in Nat
    BY <1>1, RaftConstants, FS_CardinalityType, Zenon
<1>3. SUFFICES ASSUME P \cap Q = {} PROVE FALSE
    OBVIOUS
<1>4. Cardinality(P \cap Q) = 0
    BY <1>3, FS_EmptySet, Zenon
<1> QED BY <1>1, <1>2, <1>4 DEF QuorumSize

\* The concatenation of two sequences, element by element.
LEMMA ConcatOK ==
    ASSUME NEW S, NEW A \in Seq(S), NEW B \in Seq(S), NEW L, L = A \o B
    PROVE  /\ L \in Seq(S) /\ Len(L) = Len(A) + Len(B)
           /\ \A l \in 1..(Len(A) + Len(B)) : L[l] = IF l <= Len(A) THEN A[l] ELSE B[l - Len(A)]
OBVIOUS

\* The window of a batch that starts at next index a of a log of length k.
LEMMA WindowOK ==
    ASSUME NEW a \in Nat, NEW b \in Nat, NEW k \in Nat, NEW c \in Nat, c < a, a <= k + 1
    PROVE  /\ a - 1 \in 0..k
           /\ Smaller((a - 1) + b, k) \in Nat /\ Smaller((a - 1) + b, k) <= k
BY DEF Smaller

\* Match index b and next index a after an answer that acknowledges index c.
LEMMA AcknowledgedOK ==
    ASSUME NEW a \in Nat, NEW b \in Nat, NEW c \in Nat, NEW k \in Nat, b < a, a <= k + 1, c <= k
    PROVE  /\ Larger(b, c) \in Nat /\ Larger(a, c + 1) \in Nat
           /\ Larger(b, c) < Larger(a, c + 1) /\ Larger(a, c + 1) <= k + 1
BY DEF Larger

\* A sequence is given by its length and its elements.
LEMMA SeqSame ==
    ASSUME NEW S, NEW s \in Seq(S), NEW t \in Seq(S), Len(s) = Len(t),
           \A k \in 1..Len(s) : s[k] = t[k]
    PROVE  s = t
<1>1. s \in [1..Len(s) -> S] /\ t \in [1..Len(t) -> S]
    OBVIOUS
<1> QED BY <1>1

\* The prefix up to a and the slice after it make up the prefix up to b.
LEMMA SlicesMeet ==
    ASSUME NEW S, NEW s \in Seq(S), NEW a \in Nat, NEW b \in Nat, a <= b, b <= Len(s)
    PROVE  Prefix(s, a) \o SubSeq(s, a + 1, b) = Prefix(s, b)
<1> USE SMTT(60)
<1> DEFINE x == Prefix(s, a)
           y == SubSeq(s, a + 1, b)
           z == Prefix(s, b)
<1>1. x \in Seq(S) /\ Len(x) = a /\ \A k \in 1..a : x[k] = s[k]
    BY DEF Prefix
<1>2. y \in Seq(S) /\ Len(y) = b - a /\ \A k \in 1..(b - a) : y[k] = s[a + k]
    OBVIOUS
<1>3. z \in Seq(S) /\ Len(z) = b /\ \A k \in 1..b : z[k] = s[k]
    BY DEF Prefix
<1> HIDE DEF x, y, z
<1>4. PICK w : w = x \o y
    BY Zenon
<1>5. /\ w \in Seq(S) /\ Len(w) = Len(x) + Len(y)
      /\ \A l \in 1..(Len(x) + Len(y)) : w[l] = IF l <= Len(x) THEN x[l] ELSE y[l - Len(x)]
    <2>1. x \in Seq(S) /\ y \in Seq(S)
        BY <1>1, <1>2, Zenon
    <2> QED BY <2>1, <1>4, ConcatOK
<1>6. Len(w) = b /\ \A k \in 1..b : w[k] = IF k <= a THEN x[k] ELSE y[k - a]
    BY <1>1, <1>2, <1>5
<1>7. ASSUME NEW k \in 1..b PROVE w[k] = z[k]
    <2>1. CASE k <= a
        BY <2>1, <1>1, <1>3, <1>6
    <2>2. CASE ~(k <= a)
        <3>1. k - a \in 1..(b - a) /\ a + (k - a) = k
            BY <2>2
        <3>2. y[k - a] = s[a + (k - a)]
            BY <3>1, <1>2, Zenon
        <3> QED BY <2>2, <3>1, <3>2, <1>3, <1>6, Zenon
    <2> QED BY <2>1, <2>2, Zenon
<1>8. w = z
    BY <1>3, <1>5, <1>6, <1>7, SeqSame, Zenon
<1> QED BY <1>4, <1>8, Zenon DEF x, y, z

\* Sequences with a common prefix agree on every shorter prefix.
LEMMA PrefixEqual ==
    ASSUME NEW S, NEW s \in Seq(S), NEW t \in Seq(S), NEW k \in Nat,
           k <= Len(s), k <= Len(t), \A l \in 1..k : s[l] = t[l]
    PROVE  Prefix(s, k) = Prefix(t, k)
<1>1. /\ Prefix(s, k) \in Seq(S) /\ Prefix(t, k) \in Seq(S)
      /\ Len(Prefix(s, k)) = k /\ Len(Prefix(t, k)) = k
      /\ \A l \in 1..k : Prefix(s, k)[l] = s[l] /\ Prefix(t, k)[l] = t[l]
    BY SliceOK DEF Prefix
<1> QED BY <1>1, SeqSame, Zenon

-----------------------------------------------------------------------------
(* The contract every method of the core keeps *)

\* A call that sends nothing and keeps term, vote and the committed prefix.
LEMMA QuietStep ==
    ASSUME NEW n, CoreInv(n), NEW i \in Server, NEW g, CoreInv(g),
           g.term = n.term, g.vote = n.vote, g.commit = n.commit,
           Prefix(g.log, n.commit) = Prefix(n.log, n.commit),
           NEW V, g.role # Follower => n.role # Follower /\ g.votes \subseteq n.votes \cup V
    PROVE  Contract(n, i, Quiet(g), V)
<1>1. n.term \in Nat /\ n.commit \in Nat
    BY CoreTypes, Zenon
<1>2. Quiet(g).n = g /\ Quiet(g).out = {}
    BY Zenon DEF Quiet
<1> HIDE DEF Quiet
<1>3. n.term <= g.term /\ n.commit <= g.commit
    BY <1>1
<1> QED BY <1>2, <1>3, Zenon DEF Contract

\* A quiet call followed by one that counts no votes.
LEMMA Compose ==
    ASSUME NEW n, CoreInv(n), NEW i \in Server, NEW V, NEW n1, NEW r,
           Contract(n, i, Quiet(n1), V), Contract(n1, i, r, {})
    PROVE  Contract(n, i, r, V)
<1> USE SMTT(60)
<1>1. CoreInv(n1) /\ CoreInv(r.n)
    BY Zenon DEF Contract, Quiet
<1>2. /\ n.term \in Nat /\ n1.term \in Nat /\ r.n.term \in Nat
      /\ n.commit \in Nat /\ n1.commit \in Nat /\ r.n.commit \in Nat
      /\ n.log \in Seq(Entry) /\ n1.log \in Seq(Entry) /\ r.n.log \in Seq(Entry)
      /\ Len(n.log) \in Nat /\ Len(n1.log) \in Nat /\ Len(r.n.log) \in Nat
      /\ n.commit <= Len(n.log) /\ n1.commit <= Len(n1.log) /\ r.n.commit <= Len(r.n.log)
    BY <1>1, CoreTypes, Zenon
<1>3. Prefix(r.n.log, n.commit) = Prefix(n.log, n.commit)
    <2>1. /\ n.commit <= n1.commit /\ n1.commit <= r.n.commit
          /\ Prefix(n1.log, n.commit) = Prefix(n.log, n.commit)
          /\ Prefix(r.n.log, n1.commit) = Prefix(n1.log, n1.commit)
        BY Zenon DEF Contract, Quiet
    <2>2. \A l \in 1..n.commit : r.n.log[l] = n1.log[l]
        <3> TAKE l \in 1..n.commit
        <3>1. l \in 1..n1.commit
            BY <1>2, <2>1
        <3>2. /\ Prefix(r.n.log, n1.commit)[l] = r.n.log[l]
              /\ Prefix(n1.log, n1.commit)[l] = n1.log[l]
            BY <3>1, <1>2, <2>1, SliceOK, SeqTypes DEF Prefix
        <3> QED BY <3>2, <2>1, Zenon
    <2>3. n.commit <= Len(r.n.log) /\ n.commit <= Len(n1.log)
        BY <2>1, <1>2
    <2>4. Prefix(r.n.log, n.commit) = Prefix(n1.log, n.commit)
        BY <2>2, <2>3, <1>2, PrefixEqual, Zenon
    <2> QED BY <2>4, <2>1, Zenon
<1>4. /\ n.term <= n1.term /\ n1.term <= r.n.term
      /\ n.commit <= n1.commit /\ n1.commit <= r.n.commit
      /\ n.term = n1.term => n.vote \in {None, n1.vote}
      /\ n1.term = r.n.term => n1.vote \in {None, r.n.vote}
    BY Zenon DEF Contract, Quiet
<1>5. /\ n.term <= r.n.term /\ n.commit <= r.n.commit
      /\ n.term = r.n.term => n.vote \in {None, r.n.vote}
    BY <1>2, <1>4
<1>6. ASSUME r.n.role # Follower
      PROVE  \/ n.role # Follower /\ r.n.term = n.term /\ r.n.votes \subseteq n.votes \cup V
             \/ r.n.term > n.term /\ r.n.vote = i /\ r.n.votes \subseteq {i}
    <2>1. \/ n1.role # Follower /\ r.n.term = n1.term /\ r.n.votes \subseteq n1.votes
          \/ r.n.term > n1.term /\ r.n.vote = i /\ r.n.votes \subseteq {i}
        BY <1>6, Zenon DEF Contract
    <2>2. n1.role # Follower =>
            \/ n.role # Follower /\ n1.term = n.term /\ n1.votes \subseteq n.votes \cup V
            \/ n1.term > n.term /\ n1.vote = i /\ n1.votes \subseteq {i}
        BY Zenon DEF Contract, Quiet
    <2>3. i # None
        BY RaftConstants, Zenon
    <2> QED BY <2>1, <2>2, <2>3, <1>2, <1>4
<1> QED BY <1>1, <1>3, <1>5, <1>6, Zenon DEF Contract

\* A leader's send_append changes nothing but its sent windows.
LEMMA SendAppendOK ==
    ASSUME NEW n, CoreInv(n), n.role = Leader, NEW i \in Server,
           NEW P \in SUBSET Server, NEW r, r = SendAppend(n, i, P)
    PROVE  Contract(n, i, r, {}) /\ r.n.role = Leader /\ r.n.term = n.term
<1> USE SMTT(60)
<1>1. /\ n \in Core /\ n.log \in Seq(Entry) /\ n.commit \in Nat /\ n.term \in Term
      /\ n.next \in [Server -> Nat] /\ n.sent \in [Server -> Nat]
      /\ n.match \in [Server -> Nat] /\ Len(n.log) \in Nat
    BY CoreTypes, Zenon
<1>2. \A p \in Server : /\ AppendEntries(i, p, n) \in AppendRequests
                        /\ AppendEntries(i, p, n).from = i
                        /\ AppendEntries(i, p, n).term = n.term
                        /\ IsAppend(AppendEntries(i, p, n))
                        /\ ~IsVote(AppendEntries(i, p, n))
    <2> TAKE p \in Server
    <2> DEFINE prev == n.next[p] - 1
               upto == Smaller(prev + MaxBatch, LastIndex(n))
    <2>0. /\ n.match[p] \in Nat /\ n.next[p] \in Nat
          /\ n.match[p] < n.next[p] /\ n.next[p] <= Len(n.log) + 1
        BY <1>1, Zenon DEF CoreInv
    <2>1. prev \in 0..Len(n.log) /\ upto \in Nat /\ upto <= Len(n.log)
        BY <2>0, <1>1, RaftConstants, WindowOK, Zenon DEF LastIndex
    <2> HIDE DEF prev, upto
    <2>2. SubSeq(n.log, prev + 1, upto) \in Seq(Entry)
        <3>1. prev + 1 \in Nat /\ prev + 1 >= 1
            BY <2>1
        <3> QED BY <2>1, <3>1, <1>1, SliceOK, Zenon
    <2>3. TermAt(n.log, prev) \in Term
        BY <2>1, <1>1, TermAtOK, Zenon
    <2> QED BY <2>1, <2>2, <2>3, <1>1
            DEF AppendEntries, AppendRequests, IsAppend, IsVote, prev, upto
<1>3. r.n.sent \in [Server -> Nat]
    <2>1. \A p \in Server : /\ AppendEntries(i, p, n).prevIndex \in Nat
                            /\ AppendEntries(i, p, n).entries \in Seq(Entry)
        BY <1>2, Zenon DEF AppendRequests
    <2>2. \A p \in Server :
            AppendEntries(i, p, n).prevIndex + Len(AppendEntries(i, p, n).entries) \in Nat
        BY <2>1, SeqTypes
    <2> QED BY <2>2, <1>1, Zenon DEF SendAppend, Core
<1>4. r.n = [n EXCEPT !.sent = r.n.sent]
    BY <1>1, Zenon DEF SendAppend, Core
<1>5. CoreInv(r.n) /\ r.n.term = n.term /\ r.n.vote = n.vote /\ r.n.log = n.log
      /\ r.n.commit = n.commit /\ r.n.votes = n.votes /\ r.n.role = Leader
    <2> QED BY <1>1, <1>3, <1>4, Zenon DEF CoreInv, Core
<1>6. \A m \in r.out : \E p \in Server : m = AppendEntries(i, p, n)
    BY Zenon DEF SendAppend
<1>7. r.out \subseteq Message
    BY <1>2, <1>6, Zenon DEF Message
<1> QED
    <2>1. n.term <= r.n.term /\ n.commit <= r.n.commit
        BY <1>5, CoreTypes
    <2> QED BY <2>1, <1>2, <1>5, <1>6, <1>7, Zenon DEF Contract

\* Committing further hands over exactly the entries in between.
LEMMA CommitToOK ==
    ASSUME NEW n, CoreInv(n), NEW i \in Server, NEW k \in Nat,
           n.commit <= k, k <= Len(n.log), NEW c, c = CommitTo(n, k)
    PROVE  Contract(n, i, Quiet(c), {}) /\ c.role = n.role
<1> USE SMTT(60)
<1>1. /\ n \in Core /\ n.log \in Seq(Entry) /\ n.commit \in Nat /\ Len(n.log) \in Nat
      /\ n.applied = Prefix(n.log, n.commit) /\ n.term \in Nat
    BY CoreTypes, Zenon
<1>2. Len(n.applied) = n.commit
    BY <1>1, SliceOK DEF Prefix
<1>3. n.applied \o SubSeq(n.log, Len(n.applied) + 1, k) = Prefix(n.log, k)
    <2>1. Prefix(n.log, n.commit) \o SubSeq(n.log, n.commit + 1, k) = Prefix(n.log, k)
        BY <1>1, SlicesMeet, Zenon
    <2> QED BY <1>1, <1>2, <2>1, Zenon
<1>4. Prefix(n.log, k) \in Seq(Entry)
    BY <1>1, SliceOK DEF Prefix
<1>5. c = [n EXCEPT !.commit = k, !.applied = Prefix(n.log, k)]
    BY <1>1, <1>3, Zenon DEF CommitTo
<1>6. /\ CoreInv(c) /\ c.term = n.term /\ c.vote = n.vote /\ c.votes = n.votes
      /\ c.role = n.role /\ c.commit = k /\ c.log = n.log
    BY <1>1, <1>4, <1>5, Zenon DEF CoreInv, Core
<1> QED BY <1>1, <1>6 DEF Contract, Quiet

\* The element at the position the code computes exists, lies inside the log, and
\* is held by a majority, also in a group of even size (advance_commit).
LEMMA MajorityIndexOK ==
    ASSUME NEW n, CoreInv(n), NEW i \in Server
    PROVE  /\ MajorityIndex(n, i) \in 0..Len(n.log)
           /\ Cardinality(Holding(n, i, MajorityIndex(n, i))) >= QuorumSize
<1> USE SMTT(60)
<1> DEFINE L == Len(n.log)
           N == Cardinality(Server)
           at == N - QuorumSize
           Below(k) == {p \in Server : HeldBy(n, i, p) < k}
           UpTo(k) == {p \in Server : HeldBy(n, i, p) <= k}
           T == {k \in 0..L : Cardinality(UpTo(k)) > at}
<1>1. L \in Nat /\ n.match \in [Server -> Nat]
    BY CoreTypes, Zenon
<1>2. N \in Nat /\ N # 0 /\ IsFiniteSet(Server)
    BY RaftConstants, FS_CardinalityType, FS_EmptySet, Zenon
<1>3. at \in Nat /\ N > at /\ N - at = QuorumSize
    BY <1>2 DEF QuorumSize
<1>4. \A p \in Server : HeldBy(n, i, p) \in 0..L
    BY <1>1 DEF HeldBy, Smaller, LastIndex
<1>5. \A k : /\ Below(k) \in SUBSET Server /\ UpTo(k) \in SUBSET Server
             /\ \A p \in Server : p \in Below(k) <=> HeldBy(n, i, p) < k
             /\ \A p \in Server : p \in UpTo(k) <=> HeldBy(n, i, p) <= k
    BY Zenon
<1> HIDE DEF Below, UpTo
<1>6. \A k : Cardinality(Below(k)) \in Nat /\ Cardinality(UpTo(k)) \in Nat
    <2> TAKE k
    <2>1. IsFiniteSet(Below(k)) /\ IsFiniteSet(UpTo(k))
        BY <1>2, <1>5, FS_Subset, Zenon
    <2> QED BY <2>1, FS_CardinalityType, Zenon
<1>7. L \in T
    <2>1. UpTo(L) = Server
        <3>1. \A p \in Server : p \in UpTo(L)
            BY <1>1, <1>4, <1>5
        <3> QED BY <3>1, <1>5, Zenon
    <2>2. Cardinality(UpTo(L)) > at /\ L \in 0..L
        BY <1>1, <1>3, <2>1
    <2> QED BY <2>2, Zenon
<1>8. PICK k \in T : \A l \in T : k <= l
    <2>1. T \subseteq Nat /\ T # {}
        BY <1>1, <1>7
    <2> QED BY <2>1, LeastElement, Zenon
<1>9. Cardinality(Below(k)) <= at
    <2>1. CASE k = 0
        <3>1. \A p \in Server : p \notin Below(k)
            <4>1. \A p \in Server : ~(HeldBy(n, i, p) < k)
                BY <1>1, <1>4, <2>1
            <4> QED BY <1>5, <4>1, Zenon
        <3>2. Below(k) = {}
            BY <3>1, <1>5, Zenon
        <3>3. Cardinality(Below(k)) = 0
            BY <3>2, FS_EmptySet, Zenon
        <3> QED BY <3>3, <1>3
    <2>2. CASE k # 0
        <3>1. k \in 0..L /\ k - 1 \in 0..L /\ ~(k <= k - 1)
            BY <1>1, <1>8, <2>2
        <3>2. k - 1 \notin T
            BY <1>8, <3>1, Zenon
        <3>3. UpTo(k - 1) = Below(k)
            <4>1. \A p \in Server : p \in UpTo(k - 1) <=> p \in Below(k)
                <5>1. \A p \in Server : HeldBy(n, i, p) <= k - 1 <=> HeldBy(n, i, p) < k
                    BY <1>1, <1>4, <3>1
                <5> QED BY <1>5, <5>1, Zenon
            <4> QED BY <4>1, <1>5, Zenon
        <3>4. ~(Cardinality(UpTo(k - 1)) > at)
            BY <3>1, <3>2, Zenon
        <3>5. Cardinality(UpTo(k - 1)) \in Nat
            BY <1>6, Zenon
        <3> QED BY <1>3, <3>3, <3>4, <3>5
    <2> QED BY <2>1, <2>2, Zenon
<1>10. PICK m : m = MajorityIndex(n, i)
    OBVIOUS
<1>11. m \in 0..L /\ Cardinality(Below(m)) <= at
    <2>1. \E j \in 0..LastIndex(n) : Cardinality(Below(j)) <= at /\ Cardinality(UpTo(j)) > at
        BY <1>8, <1>9, Zenon DEF LastIndex
    <2> QED BY <1>10, <2>1, Zenon DEF MajorityIndex, SortedIndex, LastIndex, Below, UpTo
<1>12. Holding(n, i, m) = Server \ Below(m)
    <2>1. \A p \in Server : p \in Holding(n, i, m) <=> ~(HeldBy(n, i, p) < m)
        BY <1>1, <1>11 DEF Holding, HeldBy, Smaller, LastIndex
    <2>2. Holding(n, i, m) \subseteq Server
        BY Zenon DEF Holding
    <2>3. \A p \in Server : p \in Holding(n, i, m) <=> p \notin Below(m)
        BY <1>5, <2>1, Zenon
    <2> QED BY <2>2, <2>3, Zenon
<1>13. Cardinality(Server \ Below(m)) = N - Cardinality(Below(m))
    <2>1. Server \cap Below(m) = Below(m)
        BY <1>5, Zenon
    <2>2. Cardinality(Server \ Below(m)) = N - Cardinality(Server \cap Below(m))
        BY <1>2, FS_Difference, Zenon
    <2> QED BY <2>1, <2>2, Zenon
<1>14. Cardinality(Holding(n, i, m)) >= QuorumSize
    <2>1. Cardinality(Below(m)) \in Nat
        BY <1>6, Zenon
    <2>2. Cardinality(Holding(n, i, m)) = N - Cardinality(Below(m))
        BY <1>12, <1>13, Zenon
    <2>3. QuorumSize \in Nat
        BY <1>2 DEF QuorumSize
    <2> QED BY <1>2, <1>3, <1>11, <2>1, <2>2, <2>3
<1> QED BY <1>10, <1>11, <1>14, Zenon

\* advance_commit on a leader.
LEMMA AdvanceCommitOK ==
    ASSUME NEW n, CoreInv(n), n.role = Leader, NEW i \in Server,
           NEW r, r = AdvanceCommit(n, i)
    PROVE  Contract(n, i, r, {})
<1> USE SMTT(60)
<1> DEFINE k == MajorityIndex(n, i)
           c == CommitTo(n, k)
<1>1. k \in Nat /\ k <= Len(n.log) /\ n.commit \in Nat /\ n.term \in Nat /\ Len(n.log) \in Nat
    BY MajorityIndexOK, CoreTypes
<1>2. CASE k > n.commit /\ TermAt(n.log, k) = n.term
    <2>1. Contract(n, i, Quiet(c), {}) /\ c.role = Leader
        BY <1>1, <1>2, CommitToOK
    <2>2. CoreInv(c)
        BY <2>1, Zenon DEF Contract, Quiet
    <2>3. r = SendAppend(c, i, Peers(i))
        BY <1>2, Zenon DEF AdvanceCommit, BroadcastAppend
    <2>4. Contract(c, i, r, {})
        <3>1. Peers(i) \in SUBSET Server
            BY Zenon DEF Peers
        <3> HIDE DEF c
        <3> QED BY <2>1, <2>2, <2>3, <3>1, SendAppendOK, Zenon
    <2> HIDE DEF c
    <2> QED BY <2>1, <2>4, Compose
<1>3. CASE ~(k > n.commit /\ TermAt(n.log, k) = n.term)
    <2>1. r = Quiet(n)
        BY <1>3, Zenon DEF AdvanceCommit
    <2> QED BY <2>1, <1>1 DEF Contract, Quiet
<1> QED BY <1>2, <1>3, Zenon

\* propose on a leader: the log grows by one entry of its term.
LEMMA ProposeOK ==
    ASSUME NEW n, CoreInv(n), n.role = Leader, NEW i \in Server, NEW c \in Cmd,
           NEW r, r = Propose(n, i, c)
    PROVE  Contract(n, i, r, {})
<1> USE SMTT(60)
<1> DEFINE e == [term |-> n.term, cmd |-> c]
           g == [n EXCEPT !.log = Append(n.log, e)]
           s == SendAppend(g, i, Peers(i))
<1>1. /\ n \in Core /\ n.log \in Seq(Entry) /\ n.commit \in Nat /\ Len(n.log) \in Nat
      /\ n.commit <= Len(n.log) /\ n.term \in Nat /\ n.next \in [Server -> Nat]
      /\ n.applied = Prefix(n.log, n.commit)
    BY CoreTypes, Zenon
<1>2. e \in Entry
    BY CoreTypes DEF Entry
<1>3. /\ Append(n.log, e) \in Seq(Entry) /\ Len(Append(n.log, e)) = Len(n.log) + 1
      /\ \A l \in 1..Len(n.log) : Append(n.log, e)[l] = n.log[l]
    <2> HIDE DEF e
    <2> QED BY <1>1, <1>2, SeqAppended
<1>4. Prefix(Append(n.log, e), n.commit) = Prefix(n.log, n.commit)
    <2> HIDE DEF e
    <2>1. /\ n.commit <= Len(Append(n.log, e))
          /\ \A l \in 1..n.commit : Append(n.log, e)[l] = n.log[l]
        BY <1>1, <1>3
    <2> QED BY <1>1, <1>3, <2>1, PrefixEqual, Zenon
<1>5. /\ CoreInv(g) /\ g.term = n.term /\ g.vote = n.vote /\ g.votes = n.votes
      /\ g.role = Leader /\ g.commit = n.commit /\ Prefix(g.log, n.commit) = Prefix(n.log, n.commit)
    <2> HIDE DEF e
    <2>1. g \in Core /\ g.log = Append(n.log, e) /\ g.commit = n.commit
          /\ g.applied = n.applied /\ g.role = Leader /\ g.votes = n.votes
          /\ g.next = n.next /\ g.match = n.match /\ g.term = n.term /\ g.vote = n.vote
        BY <1>1, <1>3, Zenon DEF Core
    <2>2. \A p \in Server : n.match[p] < n.next[p] /\ n.next[p] <= Len(n.log) + 1
        BY DEF CoreInv
    <2>3. \A p \in Server : g.match[p] < g.next[p] /\ g.next[p] <= Len(g.log) + 1
        BY <1>1, <1>3, <2>1, <2>2
    <2>4. Cardinality(g.votes) >= QuorumSize
        BY <2>1, Zenon DEF CoreInv
    <2>5. g.commit <= Len(g.log) /\ g.applied = Prefix(g.log, g.commit)
        BY <1>1, <1>3, <1>4, <2>1
    <2> HIDE DEF g
    <2> QED BY <2>1, <2>3, <2>4, <2>5, <1>4, Zenon DEF CoreInv
<1>6. Contract(n, i, Quiet(g), {})
    <2> HIDE DEF g
    <2> QED BY <1>1, <1>5 DEF Contract, Quiet
<1>7. Contract(g, i, s, {}) /\ s.n.role = Leader
    <2>1. Peers(i) \in SUBSET Server
        BY Zenon DEF Peers
    <2> HIDE DEF g
    <2> QED BY <1>5, <2>1, SendAppendOK, Zenon
<1>8. Contract(n, i, s, {})
    <2> HIDE DEF g, s
    <2> QED BY <1>6, <1>7, Compose, Zenon
<1>9. CASE Peers(i) # {}
    BY <1>8, <1>9, Zenon DEF Propose, BroadcastAppend
<1>10. CASE Peers(i) = {}
    <2>1. s.out = {}
        BY <1>10, Zenon DEF SendAppend
    <2>2. r = AdvanceCommit(s.n, i)
        BY <1>10 DEF Propose, BroadcastAppend
    <2> HIDE DEF g, s
    <2>3. Contract(n, i, Quiet(s.n), {}) /\ CoreInv(s.n)
        BY <1>8, <2>1, Zenon DEF Contract, Quiet
    <2>4. Contract(s.n, i, r, {})
        BY <1>7, <2>2, <2>3, AdvanceCommitOK, Zenon
    <2> QED BY <2>3, <2>4, Compose, Zenon
<1> QED BY <1>9, <1>10, Zenon

\* observe_term: a newer term makes a follower without a vote.
LEMMA ObserveTermOK ==
    ASSUME NEW n, CoreInv(n), NEW i \in Server, NEW t \in Term,
           NEW o, o = ObserveTerm(n, t)
    PROVE  /\ Contract(n, i, Quiet(o), {})
           /\ CoreInv(o) /\ o.log = n.log /\ o.commit = n.commit
           /\ o.term = IF t > n.term THEN t ELSE n.term
           /\ o.term = n.term => o = n
           /\ t > n.term => o.role = Follower
<1> USE SMTT(60)
<1>1. n \in Core /\ n.term \in Nat /\ n.commit \in Nat
    BY CoreTypes, Zenon
<1>2. t \in Nat
    BY RaftConstants DEF Term
<1>3. CASE t <= n.term
    <2>1. o = n
        BY <1>3, Zenon DEF ObserveTerm
    <2> QED BY <1>1, <1>2, <1>3, <2>1 DEF Contract, Quiet
<1>4. CASE t > n.term
    <2>1. o = [n EXCEPT !.term = t, !.role = Follower, !.vote = None,
                        !.hint = None, !.votes = {},
                        !.next = NoNext, !.match = NoIndex, !.sent = NoIndex]
        BY <1>1, <1>2, <1>4 DEF ObserveTerm
    <2>2. NoNext \in [Server -> Nat] /\ NoIndex \in [Server -> Nat]
        BY Zenon DEF NoNext, NoIndex
    <2>3. /\ o \in Core /\ o.term = t /\ o.role = Follower /\ o.log = n.log
          /\ o.commit = n.commit /\ o.applied = n.applied
        BY <1>1, <2>1, <2>2, Zenon DEF Core
    <2>4. Follower # Leader
        BY Zenon DEF Follower, Leader
    <2>5. CoreInv(o)
        BY <2>3, <2>4, Zenon DEF CoreInv
    <2> QED BY <1>1, <1>2, <1>4, <2>3, <2>5 DEF Contract, Quiet
<1> QED BY <1>1, <1>2, <1>3, <1>4

\* become_leader on a candidate with a quorum of votes.
LEMMA BecomeLeaderOK ==
    ASSUME NEW n, CoreInv(n), n.role = Candidate, NEW i \in Server,
           Cardinality(n.votes) >= QuorumSize, NEW r, r = BecomeLeader(n, i)
    PROVE  Contract(n, i, r, {}) /\ r.n.term = n.term
<1> USE SMTT(60)
<1> DEFINE b == [n EXCEPT !.role = Leader, !.hint = i,
                          !.next = [p \in Server |-> LastIndex(n) + 1],
                          !.match = NoIndex, !.sent = NoIndex]
<1>1. /\ n \in Core /\ n.term \in Nat /\ n.commit \in Nat /\ Len(n.log) \in Nat
      /\ n.commit <= Len(n.log) /\ n.applied = Prefix(n.log, n.commit)
    BY CoreTypes, Zenon
<1>2. NoIndex \in [Server -> Nat] /\ [p \in Server |-> LastIndex(n) + 1] \in [Server -> Nat]
    BY <1>1 DEF NoIndex, LastIndex
<1>3. /\ b \in Core /\ b.log = n.log /\ b.commit = n.commit /\ b.applied = n.applied
      /\ b.role = Leader /\ b.votes = n.votes /\ b.term = n.term /\ b.vote = n.vote
      /\ b.next = [p \in Server |-> LastIndex(n) + 1] /\ b.match = NoIndex
    BY <1>1, <1>2, Zenon DEF Core
<1>4. \A p \in Server : b.match[p] < b.next[p] /\ b.next[p] <= Len(b.log) + 1
    BY <1>1, <1>3 DEF NoIndex, LastIndex
<1>5. Candidate # Follower /\ Leader # Follower
    BY Zenon DEF Candidate, Follower, Leader
<1>6. CoreInv(b)
    <2> HIDE DEF b
    <2> QED BY <1>1, <1>3, <1>4, Zenon DEF CoreInv
<1>7. Contract(n, i, Quiet(b), {})
    <2> HIDE DEF b
    <2> QED BY <1>1, <1>3, <1>5, <1>6 DEF Contract, Quiet
<1>8. r = SendAppend(b, i, Peers(i))
    BY Zenon DEF BecomeLeader, BroadcastAppend
<1>9. Contract(b, i, r, {}) /\ r.n.term = b.term
    <2>1. Peers(i) \in SUBSET Server
        BY Zenon DEF Peers
    <2> HIDE DEF b
    <2> QED BY <1>3, <1>6, <1>8, <2>1, SendAppendOK
<1> HIDE DEF b
<1> QED BY <1>3, <1>7, <1>9, Compose, Zenon

\* What is queued before the votes are counted stays queued.
LEMMA WinIfQuorumOK ==
    ASSUME NEW n, CoreInv(n), NEW i \in Server, NEW V, NEW c, NEW out,
           Contract(n, i, [n |-> c, out |-> out], V), c.role = Candidate,
           NEW r, r = WinIfQuorum(c, i, out)
    PROVE  Contract(n, i, r, V)
<1> USE SMTT(60)
<1>1. CoreInv(c)
    BY Zenon DEF Contract
<1>2. CASE Cardinality(c.votes) >= QuorumSize
    <2> DEFINE won == BecomeLeader(c, i)
    <2>1. r = [n |-> won.n, out |-> out \cup won.out]
        BY <1>2, Zenon DEF WinIfQuorum
    <2>2. Contract(c, i, won, {}) /\ won.n.term = c.term
        BY <1>1, <1>2, BecomeLeaderOK, Zenon
    <2>3. Contract(n, i, Quiet(c), V)
        BY Zenon DEF Contract, Quiet
    <2> HIDE DEF won
    <2>4. Contract(n, i, won, V)
        BY <2>2, <2>3, Compose, Zenon
    <2>5. \A m \in out : /\ m \in Message /\ m.from = i /\ m.term = won.n.term
                         /\ ~IsAppend(m) /\ (IsVote(m) => m.to = won.n.vote)
        <3>1. Candidate # Leader
            BY Zenon DEF Candidate, Leader
        <3>2. c.vote \in {None, won.n.vote}
            BY <2>2, Zenon DEF Contract
        <3>3. \A m \in out : /\ m \in Message /\ m.from = i /\ m.term = c.term
                             /\ ~IsAppend(m) /\ (IsVote(m) => m.to = c.vote)
            BY <3>1, Zenon DEF Contract
        <3>4. \A m \in Message : m.to \in Server
            BY Zenon DEF Message, VoteRequests, VoteReplies, AppendRequests, AppendReplies
        <3> QED BY <3>2, <3>3, <3>4, <2>2, RaftConstants, Zenon
    <2> QED BY <2>1, <2>4, <2>5 DEF Contract
<1>3. CASE ~(Cardinality(c.votes) >= QuorumSize)
    BY <1>3, Zenon DEF WinIfQuorum
<1> QED BY <1>2, <1>3, Zenon

\* start_election: a candidate of the next term with its own vote.
LEMMA StartElectionOK ==
    ASSUME NEW n, CoreInv(n), NEW i \in Server, NEW r, r = StartElection(n, i)
    PROVE  Contract(n, i, r, {})
<1> USE SMTT(60)
<1> DEFINE c == [n EXCEPT !.term = n.term + 1, !.role = Candidate, !.vote = i,
                          !.hint = None, !.votes = {i}]
           out == {RequestVote(i, p, c) : p \in Peers(i)}
<1>1. /\ n \in Core /\ n.term \in Nat /\ n.term <= MaxTerm /\ n.commit \in Nat
      /\ Len(n.log) \in Nat /\ n.log \in Seq(Entry)
    BY CoreTypes, Zenon
<1>2. CASE n.term = MaxTerm
    <2>1. r = Quiet(n)
        BY <1>2, Zenon DEF StartElection
    <2> QED BY <1>1, <2>1 DEF Contract, Quiet
<1>3. CASE n.term # MaxTerm
    <2>1. n.term + 1 \in Term
        BY <1>1, <1>3, RaftConstants DEF Term
    <2>2. /\ c \in Core /\ c.term = n.term + 1 /\ c.role = Candidate /\ c.vote = i
          /\ c.votes = {i} /\ c.log = n.log /\ c.commit = n.commit /\ c.applied = n.applied
        BY <1>1, <2>1, Zenon DEF Core
    <2>3. Candidate # Leader
        BY Zenon DEF Candidate, Leader
    <2>4. CoreInv(c)
        <3> HIDE DEF c
        <3> QED BY <2>2, <2>3, Zenon DEF CoreInv
    <2>5. r = WinIfQuorum(c, i, out)
        BY <1>3 DEF StartElection
    <2>6. \A m \in out : m \in Message /\ m.from = i /\ m.term = c.term /\ ~IsVote(m) /\ ~IsAppend(m)
        <3> HIDE DEF c
        <3>1. TermAt(c.log, Len(c.log)) \in Term /\ Len(c.log) \in Nat /\ c.term \in Term
            BY <2>1, <2>2, <1>1, TermAtOK
        <3>2. \A p \in Peers(i) : RequestVote(i, p, c) \in VoteRequests
            BY <3>1, Zenon DEF RequestVote, VoteRequests, LastIndex, LastTerm, Peers
        <3>3. \A p \in Peers(i) : /\ RequestVote(i, p, c).from = i
                                  /\ RequestVote(i, p, c).term = c.term
                                  /\ RequestVote(i, p, c).type = "RequestVote"
            BY Zenon DEF RequestVote
        <3> QED BY <3>2, <3>3, Zenon DEF Message, IsVote, IsAppend
    <2>7. Contract(n, i, [n |-> c, out |-> out], {})
        <3> HIDE DEF c, out
        <3> QED BY <1>1, <2>2, <2>4, <2>6 DEF Contract
    <2> HIDE DEF c, out
    <2> QED BY <2>2, <2>5, <2>7, WinIfQuorumOK, Zenon
<1> QED BY <1>2, <1>3, Zenon

\* tick, on every role.
LEMMA TickOK ==
    ASSUME NEW n, CoreInv(n), NEW i \in Server, NEW r, r = Tick(n, i)
    PROVE  Contract(n, i, r, {})
<1>1. Peers(i) \in SUBSET Server
    BY Zenon DEF Peers
<1>2. CASE n.role = Leader
    BY <1>1, <1>2, SendAppendOK, Zenon DEF Tick, BroadcastAppend
<1>3. CASE n.role # Leader
    BY <1>3, StartElectionOK, Zenon DEF Tick
<1> QED BY <1>2, <1>3, Zenon

\* step_request_vote: a grant is the vote of the core it is sent with.
LEMMA StepRequestVoteOK ==
    ASSUME NEW n, CoreInv(n), NEW i \in Server, NEW m \in VoteRequests,
           NEW r, r = StepRequestVote(n, i, m)
    PROVE  Contract(n, i, r, {})
<1> USE SMTT(60)
<1>1. m.from \in Server /\ m.term \in Term /\ m.term \in Nat
    BY RaftConstants DEF VoteRequests, Term
<1>2. n.term \in Nat /\ n.term \in Term /\ n.commit \in Nat
    BY CoreTypes, Zenon
<1>3. \A k, g : /\ RequestVoteResp(i, m.from, k, g).from = i
                /\ RequestVoteResp(i, m.from, k, g).term = k.term
                /\ RequestVoteResp(i, m.from, k, g).to = m.from
                /\ RequestVoteResp(i, m.from, k, g).granted = g
                /\ RequestVoteResp(i, m.from, k, g).type = "RequestVoteResp"
    BY Zenon DEF RequestVoteResp
<1>4. \A k, g : k.term \in Term /\ g \in BOOLEAN => RequestVoteResp(i, m.from, k, g) \in Message
    BY <1>1, Zenon DEF RequestVoteResp, VoteReplies, Message
<1>5. CASE m.term < n.term
    <2>1. r = [n |-> n, out |-> {RequestVoteResp(i, m.from, n, FALSE)}]
        BY <1>5, Zenon DEF StepRequestVote
    <2>2. \A q \in r.out : /\ q \in Message /\ q.from = i /\ q.term = n.term
                           /\ ~IsVote(q) /\ ~IsAppend(q)
        <3> DEFINE q == RequestVoteResp(i, m.from, n, FALSE)
        <3>1. q \in Message
            BY <1>1, <1>2, Zenon DEF RequestVoteResp, VoteReplies, Message
        <3>2. q.from = i /\ q.term = n.term /\ ~q.granted /\ q.type = "RequestVoteResp"
            BY Zenon DEF RequestVoteResp
        <3>3. r.out = {q}
            BY <2>1
        <3> HIDE DEF q
        <3> QED BY <3>1, <3>2, <3>3, Zenon DEF IsVote, IsAppend
    <2>3. r.n = n
        BY <2>1
    <2> QED BY <1>2, <2>2, <2>3 DEF Contract
<1>6. CASE ~(m.term < n.term)
    <2> DEFINE o == ObserveTerm(n, m.term)
               upToDate == \/ m.lastTerm > LastTerm(o)
                           \/ m.lastTerm = LastTerm(o) /\ m.lastIndex >= LastIndex(o)
               grant == upToDate /\ o.vote \in {None, m.from}
               v == IF grant THEN [o EXCEPT !.vote = m.from] ELSE o
    <2>1. r = [n |-> v, out |-> {RequestVoteResp(i, m.from, o, grant)}]
        BY <1>6, Zenon DEF StepRequestVote
    <2>2. grant \in BOOLEAN
        OBVIOUS
    <2>3. Contract(n, i, Quiet(o), {}) /\ CoreInv(o)
        BY <1>1, ObserveTermOK, Zenon
    <2> HIDE DEF o, grant
    <2>4. o \in Core /\ o.term \in Nat /\ o.term \in Term /\ o.commit \in Nat
        BY <2>3, CoreTypes, Zenon
    <2>5. /\ CoreInv(v) /\ v.term = o.term /\ v.role = o.role /\ v.votes = o.votes
          /\ v.log = o.log /\ v.commit = o.commit
          /\ v.vote = IF grant THEN m.from ELSE o.vote
        <3>1. v \in Core /\ v.term = o.term /\ v.role = o.role /\ v.votes = o.votes
              /\ v.log = o.log /\ v.commit = o.commit /\ v.applied = o.applied
              /\ v.next = o.next /\ v.match = o.match
              /\ v.vote = IF grant THEN m.from ELSE o.vote
            BY <1>1, <2>4, Zenon DEF Core
        <3> HIDE DEF v
        <3> QED BY <3>1, <2>3 DEF CoreInv
    <2>6. o.vote \in {None, v.vote}
        BY <2>5, Zenon DEF grant
    <2> HIDE DEF v
    <2>7. Contract(o, i, r, {})
        BY <2>1, <2>2, <2>4, <2>5, <2>6, <1>3, <1>4 DEF Contract, IsVote, IsAppend
    <2> QED BY <2>3, <2>7, Compose, Zenon
<1> QED BY <1>5, <1>6, Zenon

\* step_vote_resp: a candidate counts a vote granted in its own term.
LEMMA StepVoteRespOK ==
    ASSUME NEW n, CoreInv(n), NEW i \in Server, NEW m \in VoteReplies,
           NEW r, r = StepVoteResp(n, i, m)
    PROVE  Contract(n, i, r, {v \in {m.from} : IsVote(m) /\ m.term = n.term})
<1> USE SMTT(60)
<1> DEFINE V == {v \in {m.from} : IsVote(m) /\ m.term = n.term}
<1>1. m.from \in Server /\ m.term \in Term /\ m.term \in Nat /\ m.type = "RequestVoteResp"
    BY RaftConstants DEF VoteReplies, Term
<1>2. n \in Core /\ n.term \in Nat /\ n.commit \in Nat /\ n.votes \in SUBSET Server
    BY CoreTypes, Zenon
<1>3. CASE m.term > n.term
    <2>1. r = Quiet(ObserveTerm(n, m.term))
        BY <1>3, Zenon DEF StepVoteResp
    <2>2. Contract(n, i, r, {})
        BY <1>1, <2>1, ObserveTermOK
    <2> QED BY <2>2, Zenon DEF Contract
<1>4. CASE ~(m.term > n.term) /\ (n.role # Candidate \/ m.term # n.term \/ ~m.granted)
    <2>1. r = Quiet(n)
        BY <1>4, Zenon DEF StepVoteResp
    <2> QED BY <2>1, QuietStep, Zenon
<1>5. CASE ~(m.term > n.term) /\ ~(n.role # Candidate \/ m.term # n.term \/ ~m.granted)
    <2> DEFINE c == [n EXCEPT !.votes = n.votes \cup {m.from}]
    <2>1. r = WinIfQuorum(c, i, {})
        BY <1>2, <1>5, Zenon DEF StepVoteResp
    <2>2. V = {m.from}
        BY <1>1, <1>5, Zenon DEF IsVote
    <2>3. /\ c \in Core /\ c.term = n.term /\ c.role = Candidate /\ c.vote = n.vote
          /\ c.votes = n.votes \cup {m.from} /\ c.log = n.log /\ c.commit = n.commit
          /\ c.applied = n.applied
        BY <1>1, <1>2, <1>5, Zenon DEF Core
    <2>4. Candidate # Leader /\ Candidate # Follower
        BY Zenon DEF Candidate, Leader, Follower
    <2> HIDE DEF c, V
    <2>5. CoreInv(c)
        BY <2>3, <2>4 DEF CoreInv
    <2>6. Contract(n, i, [n |-> c, out |-> {}], V)
        <3>1. Contract(n, i, Quiet(c), V)
            BY <1>5, <2>2, <2>3, <2>4, <2>5, QuietStep, Zenon
        <3> QED BY <3>1, Zenon DEF Quiet
    <2>7. Contract(n, i, r, V)
        BY <2>1, <2>3, <2>6, WinIfQuorumOK
    <2> QED BY <2>7, Zenon DEF V
<1> QED BY <1>3, <1>4, <1>5, Zenon

\* append_plan and the truncation after it: the log ends no earlier than the
\* batch, and the committed prefix stays as it is.
LEMMA AppendedLogOK ==
    ASSUME NEW n, CoreInv(n), NEW m \in AppendRequests, AppendFits(n, m),
           NEW L, L = AppendedLog(n, m)
    PROVE  /\ L \in Seq(Entry)
           /\ m.prevIndex + Len(m.entries) <= Len(L)
           /\ n.commit <= Len(L)
           /\ \A l \in 1..n.commit : L[l] = n.log[l]
<1> USE SMTT(60)
<1> DEFINE prev == m.prevIndex
           E == m.entries
<1>1. /\ n.log \in Seq(Entry) /\ Len(n.log) \in Nat /\ n.commit \in Nat
      /\ n.commit <= Len(n.log)
    BY CoreTypes, Zenon
<1>2. prev \in Nat /\ E \in Seq(Entry)
    BY Zenon DEF AppendRequests
<1>3. Len(E) \in Nat /\ DOMAIN E = 1..Len(E)
    BY <1>2, SeqTypes, Zenon
<1>4. prev <= Len(n.log)
    BY Zenon DEF AppendFits, LastIndex
<1>5. \A k \in 1..Len(E) : prev + k <= n.commit => n.log[prev + k] = E[k]
    BY <1>3, Zenon DEF AppendFits
<1>6. \A k \in 1..Len(E) : k \in Changes(n, m) <=>
            prev + k > Len(n.log) \/ n.log[prev + k].term # E[k].term
    BY <1>3, Zenon DEF Changes, LastIndex
<1>7. Changes(n, m) \subseteq 1..Len(E)
    BY <1>3, Zenon DEF Changes
<1> HIDE DEF prev, E
<1>8. CASE Changes(n, m) = {}
    <2>1. L = n.log
        BY <1>8, Zenon DEF AppendedLog
    <2>2. prev + Len(E) <= Len(n.log)
        <3>1. CASE Len(E) = 0
            BY <3>1, <1>1, <1>2, <1>4
        <3>2. CASE Len(E) # 0
            <4>1. Len(E) \in 1..Len(E)
                BY <3>2, <1>3
            <4> QED BY <4>1, <1>1, <1>2, <1>3, <1>6, <1>8
        <3> QED BY <3>1, <3>2, Zenon
    <2> QED BY <2>1, <2>2, <1>1 DEF prev, E
<1>9. CASE Changes(n, m) # {}
    <2> DEFINE first == CHOOSE k \in Changes(n, m) : \A l \in Changes(n, m) : k <= l
               A == SubSeq(n.log, 1, prev + first - 1)
               B == SubSeq(E, first, Len(E))
    <2>1. first \in Changes(n, m) /\ \A l \in Changes(n, m) : first <= l
        <3>1. Changes(n, m) \subseteq Nat
            BY <1>3, <1>7
        <3> QED BY <3>1, <1>9, LeastElement, Zenon
    <2>2. L = A \o B
        BY <1>9, Zenon DEF AppendedLog, prev, E
    <2> HIDE DEF first
    <2>3. first \in Nat /\ first >= 1 /\ first <= Len(E)
        BY <2>1, <1>3, <1>7
    <2>4. prev + first - 1 \in Nat /\ prev + first - 1 <= Len(n.log)
        <3>1. CASE first = 1
            BY <3>1, <1>1, <1>2, <1>4
        <3>2. CASE first # 1
            <4>1. first - 1 \in 1..Len(E) /\ first - 1 \notin Changes(n, m)
                BY <3>2, <2>1, <2>3, <1>3
            <4>2. ~(prev + (first - 1) > Len(n.log))
                BY <4>1, <1>6, Zenon
            <4> QED BY <4>2, <2>3, <1>1, <1>2
        <3> QED BY <3>1, <3>2, Zenon
    <2>5. /\ A \in Seq(Entry) /\ Len(A) = prev + first - 1
          /\ \A l \in 1..(prev + first - 1) : A[l] = n.log[l]
        BY <2>4, <1>1, SliceOK
    <2>6. B \in Seq(Entry) /\ Len(B) = Len(E) - first + 1
        BY <2>3, <1>2, <1>3, SliceOK
    <2> HIDE DEF A, B
    <2>7. /\ L \in Seq(Entry) /\ Len(L) = Len(A) + Len(B)
          /\ \A l \in 1..(Len(A) + Len(B)) : L[l] = IF l <= Len(A) THEN A[l] ELSE B[l - Len(A)]
        <3>1. A \in Seq(Entry) /\ B \in Seq(Entry)
            BY <2>5, <2>6, Zenon
        <3> QED BY <3>1, <2>2, ConcatOK
    <2>8. ~(prev + first <= n.commit)
        <3> SUFFICES ASSUME prev + first <= n.commit PROVE FALSE
            OBVIOUS
        <3>1. first \in 1..Len(E)
            BY <2>3, <1>3
        <3>2. n.log[prev + first] = E[first]
            BY <3>1, <1>5, Zenon
        <3>3. ~(prev + first > Len(n.log))
            BY <1>1, <1>2, <2>3
        <3> QED BY <3>1, <3>2, <3>3, <2>1, <1>6, Zenon
    <2>9. n.commit <= Len(A)
        BY <2>8, <2>5, <2>3, <1>1, <1>2
    <2>10. prev + Len(E) = Len(L)
        BY <2>5, <2>6, <2>7, <2>3, <1>2, <1>3
    <2>11. n.commit <= Len(L)
        BY <2>9, <2>5, <2>6, <2>7, <2>3, <1>1, <1>2, <1>3
    <2>12. \A l \in 1..n.commit : L[l] = n.log[l]
        <3> TAKE l \in 1..n.commit
        <3>1. l \in 1..Len(A) /\ l \in 1..(Len(A) + Len(B))
            BY <2>9, <2>5, <2>6, <2>3, <1>1, <1>2, <1>3
        <3> QED BY <3>1, <2>5, <2>7
    <2> QED BY <2>7, <2>10, <2>11, <2>12, <1>1, <1>2, <1>3 DEF prev, E
<1> QED BY <1>8, <1>9, Zenon

\* An answer to an append, sent with the core it describes.
LEMMA AppendReplyOK ==
    ASSUME NEW n, NEW i \in Server, NEW c, Contract(n, i, Quiet(c), {}), CoreInv(c),
           NEW p \in Server, NEW f, f.term = c.term,
           NEW b \in BOOLEAN, NEW k \in Nat,
           NEW r, r = [n |-> c, out |-> {AppendEntriesResp(i, p, f, b, k)}]
    PROVE  Contract(n, i, r, {})
<1> USE SMTT(60)
<1> DEFINE q == AppendEntriesResp(i, p, f, b, k)
<1>1. c.term \in Term
    BY CoreTypes, Zenon
<1>2. q \in AppendReplies /\ q.from = i /\ q.term = c.term /\ q.type = "AppendEntriesResp"
    BY <1>1, Zenon DEF AppendEntriesResp, AppendReplies
<1>3. q \in Message /\ ~IsVote(q) /\ ~IsAppend(q)
    <2> HIDE DEF q
    <2> QED BY <1>2 DEF Message, IsVote, IsAppend
<1>4. r.n = c /\ r.out = {q}
    OBVIOUS
<1> HIDE DEF q
<1> QED BY <1>2, <1>3, <1>4 DEF Contract, Quiet

\* step_append: refusal, or the kept log and the commit index the leader named.
LEMMA StepAppendOK ==
    ASSUME NEW n, CoreInv(n), NEW i \in Server, NEW m \in AppendRequests,
           NEW r, r = StepAppend(n, i, m)
    PROVE  Contract(n, i, r, {})
<1> USE SMTT(60)
<1> DEFINE o == ObserveTerm(n, m.term)
           f == [o EXCEPT !.role = Follower, !.hint = m.from]
           matched == m.prevIndex + Len(m.entries)
           kept == [f EXCEPT !.log = AppendedLog(f, m)]
           commit == Smaller(m.commit, matched)
           c == IF commit > f.commit THEN CommitTo(kept, commit) ELSE kept
<1>1. /\ m.from \in Server /\ m.term \in Term /\ m.prevIndex \in Nat
      /\ m.entries \in Seq(Entry) /\ m.commit \in Nat /\ Len(m.entries) \in Nat
    BY SeqTypes, Zenon DEF AppendRequests
<1>2. matched \in Nat /\ commit \in Nat /\ commit <= matched
    BY <1>1 DEF Smaller
<1>3. n.term \in Nat /\ m.term \in Nat /\ Len(n.log) \in Nat /\ n.commit \in Nat
    BY <1>1, RaftConstants, CoreTypes DEF Term
<1>4. CASE m.term < n.term
    <2>1. r = [n |-> n, out |-> {AppendEntriesResp(i, m.from, n, FALSE, Len(n.log))}]
        BY <1>4 DEF StepAppend, LastIndex
    <2>2. Contract(n, i, Quiet(n), {})
        BY QuietStep
    <2> QED BY <2>1, <2>2, <1>1, <1>3, AppendReplyOK, Zenon
<1>5. CASE ~(m.term < n.term)
    <2>1. Contract(n, i, Quiet(o), {}) /\ CoreInv(o)
        BY <1>1, ObserveTermOK
    <2> HIDE DEF o
    <2>2. o \in Core /\ o.term \in Nat /\ o.commit \in Nat
        BY <2>1, CoreTypes
    <2>3. /\ f \in Core /\ f.term = o.term /\ f.vote = o.vote /\ f.log = o.log
          /\ f.commit = o.commit /\ f.applied = o.applied /\ f.role = Follower
        BY <1>1, <2>2, Zenon DEF Core
    <2>4. Follower # Leader
        BY DEF Follower, Leader
    <2>5. CoreInv(f) /\ Contract(o, i, Quiet(f), {})
        <3> HIDE DEF f
        <3>1. CoreInv(f)
            BY <2>1, <2>3, <2>4, Zenon DEF CoreInv
        <3> QED BY <2>1, <2>3, <3>1, QuietStep
    <2>6. Contract(n, i, Quiet(f), {})
        <3> HIDE DEF f
        <3> QED BY <2>1, <2>5, Compose
    <2>7. f \in Core /\ Len(f.log) \in Nat /\ f.commit \in Nat /\ f.term \in Nat
          /\ f.log \in Seq(Entry) /\ f.commit <= Len(f.log)
          /\ f.applied = Prefix(f.log, f.commit)
        <3> HIDE DEF f
        <3> QED BY <2>5, CoreTypes, Zenon
    <2>8. CASE ~AppendFits(f, m)
        <3>1. r = [n |-> f, out |-> {AppendEntriesResp(i, m.from, f, FALSE, Len(f.log))}]
            BY <1>5, <2>8 DEF StepAppend, LastIndex, o
        <3> HIDE DEF f
        <3> QED BY <3>1, <2>5, <2>6, <2>7, <1>1, AppendReplyOK, Zenon
    <2>9. CASE AppendFits(f, m)
        <3>1. r = [n |-> c, out |-> {AppendEntriesResp(i, m.from, f, TRUE, matched)}]
            BY <1>5, <2>9, Zenon DEF StepAppend, o
        <3> HIDE DEF f
        <3> DEFINE L == AppendedLog(f, m)
        <3>2. /\ L \in Seq(Entry) /\ matched <= Len(L) /\ f.commit <= Len(L)
              /\ \A l \in 1..f.commit : L[l] = f.log[l]
            BY <2>5, <2>9, AppendedLogOK
        <3> HIDE DEF L
        <3>3. Prefix(L, f.commit) = Prefix(f.log, f.commit)
            BY <3>2, <2>7, PrefixEqual, Zenon
        <3>4. /\ kept \in Core /\ kept.log = L /\ kept.commit = f.commit /\ kept.role = Follower
              /\ kept.applied = f.applied /\ kept.term = f.term /\ kept.vote = f.vote
            BY <2>3, <2>7, <3>2, Zenon DEF Core, L
        <3> HIDE DEF kept
        <3>5. CoreInv(kept)
            BY <2>4, <2>7, <3>2, <3>3, <3>4 DEF CoreInv
        <3>6. Contract(f, i, Quiet(kept), {})
            BY <2>3, <2>5, <3>3, <3>4, <3>5, QuietStep, Zenon
        <3>7. Contract(n, i, Quiet(kept), {})
            BY <2>6, <3>6, Compose
        <3>8. Contract(n, i, Quiet(c), {}) /\ CoreInv(c) /\ c.term = f.term
            <4>1. CASE commit > f.commit
                <5>1. commit <= Len(kept.log) /\ kept.commit <= commit
                    <6>1. Len(L) \in Nat
                        BY <3>2, SeqTypes, Zenon
                    <6> HIDE DEF matched, commit
                    <6> QED BY <4>1, <6>1, <1>2, <2>7, <3>2, <3>4
                <5>2. c = CommitTo(kept, commit)
                    BY <4>1
                <5>3. c.term = kept.term
                    <6> HIDE DEF c
                    <6> QED BY <5>2, <3>4 DEF CommitTo, Core
                <5> HIDE DEF c, commit
                <5>4. Contract(kept, i, Quiet(c), {})
                    BY <5>1, <5>2, <1>2, <3>5, CommitToOK, Zenon
                <5>5. CoreInv(c)
                    BY <5>4 DEF Contract, Quiet
                <5> QED BY <5>3, <5>4, <5>5, <3>4, <3>7, Compose
            <4>2. CASE ~(commit > f.commit)
                BY <4>2, <3>4, <3>5, <3>7
            <4> QED BY <4>1, <4>2, Zenon
        <3> HIDE DEF c, matched
        <3> QED BY <3>1, <3>8, <1>1, <1>2, AppendReplyOK, Zenon
    <2> QED BY <2>8, <2>9, Zenon
<1> QED BY <1>4, <1>5, Zenon

\* The index a refused append is retried from.
LEMMA RetryOK ==
    ASSUME NEW a \in Nat, NEW b \in Nat, NEW k \in Nat, b < a, a <= k + 1
    PROVE  LET c == Larger(a - 1, b + 1) IN c \in Nat /\ b < c /\ c <= k + 1
BY DEF Larger

\* step_append_resp: an accepted answer moves match and next up together, a
\* refusal moves next down to no less than the acknowledged prefix.
LEMMA StepAppendRespOK ==
    ASSUME NEW n, CoreInv(n), NEW i \in Server, NEW m \in AppendReplies,
           NEW r, r = StepAppendResp(n, i, m)
    PROVE  Contract(n, i, r, {})
<1> USE SMTT(60)
<1> DEFINE p == m.from
           retry == Larger(n.next[p] - 1, n.match[p] + 1)
           ma == Larger(n.match[p], m.match)
           ne == Larger(n.next[p], m.match + 1)
           g == [n EXCEPT !.match[p] = ma, !.next[p] = ne]
           h == [n EXCEPT !.next[p] = retry]
<1>1. p \in Server /\ m.term \in Term /\ m.match \in Nat
    BY Zenon DEF AppendReplies
<1>2. /\ n \in Core /\ n.term \in Nat /\ m.term \in Nat /\ n.commit \in Nat /\ Len(n.log) \in Nat
      /\ n.next \in [Server -> Nat] /\ n.match \in [Server -> Nat] /\ n.commit <= Len(n.log)
      /\ n.applied = Prefix(n.log, n.commit)
    BY <1>1, RaftConstants, CoreTypes DEF Term
<1>3. CASE m.term > n.term
    <2>1. r = Quiet(ObserveTerm(n, m.term))
        BY <1>3, Zenon DEF StepAppendResp
    <2> QED BY <2>1, <1>1, ObserveTermOK
<1>4. ASSUME r = Quiet(n) PROVE Contract(n, i, r, {})
    BY <1>4, QuietStep, Zenon
<1>5. CASE ~(m.term > n.term) /\ (n.role # Leader \/ m.term # n.term)
    BY <1>4, <1>5 DEF StepAppendResp
<1>6. CASE ~(m.term > n.term) /\ ~(n.role # Leader \/ m.term # n.term)
    <2>0. Leader # Follower
        BY Zenon DEF Leader, Follower
    <2>1. \A s \in Server : n.match[s] < n.next[s] /\ n.next[s] <= Len(n.log) + 1
        BY <1>6 DEF CoreInv
    <2>2. Cardinality(n.votes) >= QuorumSize
        BY <1>6 DEF CoreInv
    <2>3. /\ n.match[p] \in Nat /\ n.next[p] \in Nat
          /\ n.match[p] < n.next[p] /\ n.next[p] <= Len(n.log) + 1
        BY <1>1, <1>2, <2>1, Zenon
    <2>4. CASE m.success /\ ~(m.match > LastIndex(n) \/ m.match > n.sent[p])
        <3>1. r = AdvanceCommit(g, i)
            BY <1>6, <2>4, Zenon DEF StepAppendResp
        <3>2. ma \in Nat /\ ne \in Nat /\ ma < ne /\ ne <= Len(n.log) + 1
            <4>1. m.match <= Len(n.log)
                BY <1>1, <1>2, <2>4 DEF LastIndex
            <4> HIDE DEF p
            <4> QED BY <1>1, <1>2, <2>3, <4>1, AcknowledgedOK, Zenon
        <3> HIDE DEF ma, ne, p
        <3>3. /\ g \in Core /\ g.log = n.log /\ g.commit = n.commit /\ g.role = Leader
              /\ g.applied = n.applied /\ g.term = n.term /\ g.vote = n.vote /\ g.votes = n.votes
              /\ g.match = [n.match EXCEPT ![p] = ma] /\ g.next = [n.next EXCEPT ![p] = ne]
            BY <1>1, <1>2, <1>6, <3>2, Zenon DEF Core
        <3> HIDE DEF g
        <3>4. \A s \in Server : g.match[s] < g.next[s] /\ g.next[s] <= Len(g.log) + 1
            BY <1>2, <2>1, <3>2, <3>3, Zenon
        <3>5. CoreInv(g)
            BY <1>2, <2>2, <3>3, <3>4 DEF CoreInv
        <3>6. Contract(n, i, Quiet(g), {})
            BY <1>6, <2>0, <3>3, <3>5, QuietStep, Zenon
        <3>7. Contract(g, i, r, {})
            BY <3>1, <3>3, <3>5, AdvanceCommitOK
        <3> QED BY <3>6, <3>7, Compose
    <2>5. CASE m.success /\ (m.match > LastIndex(n) \/ m.match > n.sent[p])
        BY <1>4, <1>6, <2>5, Zenon DEF StepAppendResp
    <2>6. CASE ~m.success /\ retry >= n.next[p]
        BY <1>4, <1>6, <2>6, Zenon DEF StepAppendResp
    <2>7. CASE ~m.success /\ ~(retry >= n.next[p])
        <3>1. r = SendAppend(h, i, {p})
            BY <1>6, <2>7 DEF StepAppendResp
        <3>2. retry \in Nat /\ n.match[p] < retry /\ retry <= Len(n.log) + 1
            BY <1>2, <2>3, RetryOK, Zenon
        <3> HIDE DEF retry, p
        <3>3. /\ h \in Core /\ h.log = n.log /\ h.commit = n.commit /\ h.role = Leader
              /\ h.applied = n.applied /\ h.term = n.term /\ h.vote = n.vote /\ h.votes = n.votes
              /\ h.match = n.match /\ h.next = [n.next EXCEPT ![p] = retry]
            BY <1>1, <1>2, <1>6, <3>2, Zenon DEF Core
        <3> HIDE DEF h
        <3>4. \A s \in Server : h.match[s] < h.next[s] /\ h.next[s] <= Len(h.log) + 1
            BY <1>2, <2>1, <3>2, <3>3
        <3>5. CoreInv(h)
            BY <1>2, <2>2, <3>3, <3>4, Zenon DEF CoreInv
        <3>6. Contract(n, i, Quiet(h), {})
            BY <1>6, <2>0, <3>3, <3>5, QuietStep
        <3>7. Contract(h, i, r, {})
            <4>1. {p} \in SUBSET Server
                BY <1>1
            <4> QED BY <3>1, <3>3, <3>5, <4>1, SendAppendOK, Zenon
        <3> QED BY <3>6, <3>7, Compose, Zenon
    <2> QED BY <2>4, <2>5, <2>6, <2>7
<1> QED BY <1>3, <1>5, <1>6, Zenon

\* step keeps the contract, whatever RPC arrives.
LEMMA StepOK ==
    ASSUME NEW n, CoreInv(n), NEW i \in Server, NEW m \in Message,
           NEW r, r = Step(n, i, m)
    PROVE  Contract(n, i, r, {v \in {m.from} : IsVote(m) /\ m.term = n.term})
<1> USE SMTT(60)
<1> DEFINE V == {v \in {m.from} : IsVote(m) /\ m.term = n.term}
<1>1. ASSUME Contract(n, i, r, {}) PROVE Contract(n, i, r, V)
    BY <1>1, Zenon DEF Contract
<1>2. CASE m \in VoteRequests
    <2>1. m.type = "RequestVote"
        BY <1>2, Zenon DEF VoteRequests
    <2>2. r = StepRequestVote(n, i, m)
        BY <2>1, Zenon DEF Step
    <2> QED BY <1>1, <1>2, <2>2, StepRequestVoteOK
<1>3. CASE m \in VoteReplies
    <2>1. m.type = "RequestVoteResp"
        BY <1>3 DEF VoteReplies
    <2>2. r = StepVoteResp(n, i, m)
        BY <2>1, Zenon DEF Step
    <2> QED BY <1>3, <2>2, StepVoteRespOK
<1>4. CASE m \in AppendRequests
    <2>1. m.type = "AppendEntries"
        BY <1>4 DEF AppendRequests
    <2>2. r = StepAppend(n, i, m)
        BY <2>1 DEF Step
    <2> QED BY <1>1, <1>4, <2>2, StepAppendOK, Zenon
<1>5. CASE m \in AppendReplies
    <2>1. m.type = "AppendEntriesResp"
        BY <1>5, Zenon DEF AppendReplies
    <2>2. r = StepAppendResp(n, i, m)
        BY <2>1 DEF Step
    <2> QED BY <1>1, <1>5, <2>2, StepAppendRespOK, Zenon
<1> QED BY <1>2, <1>3, <1>4, <1>5 DEF Message

-----------------------------------------------------------------------------
(* The log a batch leaves *)

\* The log that append_plan computes has that shape.
LEMMA AppendedShape ==
    ASSUME NEW n, CoreInv(n), NEW m \in AppendRequests, AppendFits(n, m),
           NEW X, X = AppendedLog(n, m)
    PROVE  Shaped(n, m, X)
<1> USE SMTT(60)
<1> DEFINE prev == m.prevIndex
           E == m.entries
<1>1. n.log \in Seq(Entry) /\ Len(n.log) \in Nat
    BY CoreTypes, Zenon
<1>2. prev \in Nat /\ E \in Seq(Entry)
    BY Zenon DEF AppendRequests
<1>3. Len(E) \in Nat /\ DOMAIN E = 1..Len(E)
    BY <1>2, SeqTypes, Zenon
<1>4. prev <= Len(n.log) /\ TermAt(n.log, prev) = m.prevTerm
    BY DEF AppendFits, LastIndex
<1>5. \A k \in 1..Len(E) : prev + k <= Len(n.log) /\ n.log[prev + k].term = E[k].term
                              => n.log[prev + k] = E[k]
    BY <1>3 DEF AppendFits, LastIndex
<1>6. \A k \in 1..Len(E) : k \in Changes(n, m) <=>
            prev + k > Len(n.log) \/ n.log[prev + k].term # E[k].term
    BY <1>3, Zenon DEF Changes, LastIndex
<1>7. Changes(n, m) \subseteq 1..Len(E)
    BY <1>3, Zenon DEF Changes
<1>8. \A k \in 1..Len(E) : k \notin Changes(n, m) =>
            prev + k <= Len(n.log) /\ n.log[prev + k] = E[k]
    BY <1>1, <1>2, <1>3, <1>5, <1>6
<1>9. X \in Seq(Entry) /\ prev + Len(E) <= Len(X) /\ Len(X) \in Nat
    BY AppendedLogOK, SeqTypes, Zenon
<1> HIDE DEF prev, E
<1>10. /\ \A l \in 1..prev : X[l] = n.log[l]
       /\ \A k \in 1..Len(E) : X[prev + k] = E[k]
       /\ X = n.log \/ Len(X) = prev + Len(E)
    <2>1. CASE Changes(n, m) = {}
        <3>1. X = n.log
            BY <2>1, Zenon DEF AppendedLog
        <3> QED BY <2>1, <3>1, <1>8
    <2>2. CASE Changes(n, m) # {}
        <3> DEFINE first == CHOOSE k \in Changes(n, m) : \A l \in Changes(n, m) : k <= l
                   A == SubSeq(n.log, 1, prev + first - 1)
                   B == SubSeq(E, first, Len(E))
        <3>1. first \in Changes(n, m) /\ \A l \in Changes(n, m) : first <= l
            <4>1. Changes(n, m) \subseteq Nat
                BY <1>3, <1>7
            <4> QED BY <4>1, <2>2, LeastElement, Zenon
        <3>2. X = A \o B
            BY <2>2, Zenon DEF AppendedLog, prev, E
        <3> HIDE DEF first
        <3>3. first \in Nat /\ first >= 1 /\ first <= Len(E)
            BY <3>1, <1>3, <1>7
        <3>4. \A k \in 1..Len(E) : k < first => prev + k <= Len(n.log) /\ n.log[prev + k] = E[k]
            BY <3>1, <3>3, <1>3, <1>8
        <3>5. prev + first - 1 \in Nat /\ prev + first - 1 <= Len(n.log)
            <4>1. CASE first = 1
                BY <4>1, <1>1, <1>2, <1>4
            <4>2. CASE first # 1
                <5>1. first - 1 \in 1..Len(E) /\ first - 1 < first
                    BY <4>2, <3>3, <1>3
                <5>2. prev + (first - 1) <= Len(n.log)
                    BY <5>1, <3>4, Zenon
                <5> QED BY <5>2, <3>3, <1>1, <1>2
            <4> QED BY <4>1, <4>2, Zenon
        <3>6. /\ A \in Seq(Entry) /\ Len(A) = prev + first - 1
              /\ \A l \in 1..(prev + first - 1) : A[l] = n.log[l]
            BY <3>5, <1>1, SliceOK
        <3>7. /\ B \in Seq(Entry) /\ Len(B) = Len(E) - first + 1
              /\ \A l \in 1..(Len(E) - first + 1) : B[l] = E[first + l - 1]
            BY <3>3, <1>2, <1>3, SliceOK
        <3> HIDE DEF A, B
        <3>8. /\ X \in Seq(Entry) /\ Len(X) = Len(A) + Len(B)
              /\ \A l \in 1..(Len(A) + Len(B)) : X[l] = IF l <= Len(A) THEN A[l] ELSE B[l - Len(A)]
            <4>1. A \in Seq(Entry) /\ B \in Seq(Entry)
                BY <3>6, <3>7, Zenon
            <4> QED BY <4>1, <3>2, ConcatOK
        <3>9. Len(X) = prev + Len(E)
            BY <3>3, <3>6, <3>7, <3>8, <1>2, <1>3
        <3>10. \A l \in 1..prev : X[l] = n.log[l]
            <4> TAKE l \in 1..prev
            <4>1. l \in 1..(prev + first - 1) /\ l \in 1..(Len(A) + Len(B)) /\ l <= Len(A)
                BY <3>3, <3>6, <3>7, <1>2, <1>3
            <4> QED BY <4>1, <3>6, <3>8, Zenon
        <3>11. \A k \in 1..Len(E) : X[prev + k] = E[k]
            <4> TAKE k \in 1..Len(E)
            <4>0. k \in Nat /\ k >= 1 /\ k <= Len(E)
                BY <1>3
            <4>1. CASE k < first
                <5>1. /\ prev + k \in 1..(prev + first - 1)
                      /\ prev + k \in 1..(Len(A) + Len(B)) /\ prev + k <= Len(A)
                    BY <4>0, <4>1, <3>3, <3>6, <3>7, <1>2, <1>3
                <5> QED BY <5>1, <4>1, <3>4, <3>6, <3>8
            <4>2. CASE ~(k < first)
                <5>1. /\ prev + k \in 1..(Len(A) + Len(B)) /\ ~(prev + k <= Len(A))
                      /\ (prev + k) - Len(A) = k - first + 1
                      /\ k - first + 1 \in 1..(Len(E) - first + 1)
                      /\ first + (k - first + 1) - 1 = k
                    BY <4>0, <4>2, <3>3, <3>6, <3>7, <1>2, <1>3
                <5> QED BY <5>1, <3>7, <3>8, Zenon
            <4> QED BY <4>1, <4>2, Zenon
        <3> QED BY <3>9, <3>10, <3>11, Zenon
    <2> QED BY <2>1, <2>2, Zenon
<1>11. ASSUME NEW l \in 1..Len(n.log),
              \A k \in 1..Len(E) : prev + k <= l => n.log[prev + k].term = E[k].term
       PROVE  l <= Len(X) /\ \A j \in 1..l : X[j] = n.log[j]
    <2>0. l \in Nat /\ l <= Len(n.log)
        BY <1>1
    <2>1. CASE l <= prev + Len(E)
        <3>1. ASSUME NEW j \in 1..l, j > prev PROVE X[j] = n.log[j]
            <4>1. j - prev \in 1..Len(E) /\ prev + (j - prev) = j /\ j <= l /\ j <= Len(n.log)
                BY <2>0, <2>1, <3>1, <1>1, <1>2, <1>3
            <4>2. n.log[j].term = E[j - prev].term
                BY <4>1, <1>11, Zenon
            <4>3. n.log[j] = E[j - prev]
                BY <4>1, <4>2, <1>5
            <4> QED BY <4>1, <4>3, <1>10
        <3>2. ASSUME NEW j \in 1..l, ~(j > prev) PROVE X[j] = n.log[j]
            BY <3>2, <2>0, <1>2, <1>10
        <3> QED BY <2>0, <2>1, <3>1, <3>2, <1>2, <1>3, <1>9
    <2>2. CASE ~(l <= prev + Len(E))
        <3>1. Changes(n, m) = {}
            BY <2>0, <2>2, <1>1, <1>2, <1>3, <1>6, <1>7, <1>11
        <3>2. X = n.log
            BY <3>1, Zenon DEF AppendedLog
        <3> QED BY <2>0, <3>2, Zenon
    <2> QED BY <2>1, <2>2, Zenon
<1> QED BY <1>4, <1>9, <1>10, <1>11 DEF Shaped, prev, E
=============================================================================
