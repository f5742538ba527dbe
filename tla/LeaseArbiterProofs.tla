------------------------- MODULE LeaseArbiterProofs -------------------------
(***************************************************************************)
(* What the fold of decide_lease computes, for threads of every length.    *)
(* The library's induction theorems take an operator as a parameter, so    *)
(* each induction is an argument by a least counterexample (NatMin).       *)
(***************************************************************************)
EXTENDS LeaseArbiter, TLAPS, WellFoundedInduction

\* Two readers of one comment agree on everything but updated_at.
SameKey(a, b) ==
  /\ a.login = b.login
  /\ a.session = b.session
  /\ a.action = b.action

Agree(t, u, n) == \A i \in 1..n : SameKey(t[i], u[i])

\* Every non-empty set of naturals has a least element.
LEMMA NatMin ==
  ASSUME NEW T \in SUBSET Nat, T # {}
  PROVE  \E m \in T : \A k \in T : m <= k
<1>1. PICK m \in T : \A k \in T : <<k, m>> \notin OpToRel(<, Nat)
  BY WFMin, NatLessThanWellFounded
<1>2. \A k \in T : ~(k < m)
  BY <1>1 DEF OpToRel
<1>3. QED
  BY <1>2

\* A non-empty set of naturals up to n has a greatest element.
LEMMA NatMax ==
  ASSUME NEW n \in Nat, NEW T \in SUBSET (1..n), T # {}
  PROVE  \E m \in T : \A k \in T : k <= m
<1> DEFINE D == {n - k : k \in T}
<1>1. D \in SUBSET Nat /\ D # {}
  <2>1. \A k \in T : k \in 1..n /\ n - k \in Nat
    OBVIOUS
  <2>2. D \in SUBSET Nat
    BY <2>1
  <2>3. PICK k \in T : TRUE
    OBVIOUS
  <2>4. n - k \in D
    OBVIOUS
  <2>5. QED
    BY <2>2, <2>4
<1>2. PICK d \in D : \A e \in D : d <= e
  BY <1>1, NatMin
<1>3. PICK m \in T : d = n - m
  OBVIOUS
<1>4. \A k \in T : n - m <= n - k
  BY <1>2, <1>3
<1>5. QED
  BY <1>4

\* The loop has a value for every prefix: the recursion of HolderAfter is met.
LEMMA HolderAfterDef ==
  ASSUME NEW t \in Seq(Comment)
  PROVE  HolderAfter(t) =
           [n \in 0..Len(t) |-> IF n = 0 THEN NoWorker
                                ELSE NextHolder(HolderAfter(t)[n-1], t[n])]
<1> DEFINE IsFold(f, m) ==
      f = [n \in 0..m |-> IF n = 0 THEN NoWorker ELSE NextHolder(f[n-1], t[n])]
<1> DEFINE Bad == {m \in 0..Len(t) : ~ \E f : IsFold(f, m)}
<1>1. Bad = {}
  <2>1. SUFFICES ASSUME Bad # {} PROVE FALSE
    OBVIOUS
  <2>2. PICK m \in Bad : \A k \in Bad : m <= k
    <3>1. Bad \in SUBSET Nat
      OBVIOUS
    <3> HIDE DEF Bad
    <3>2. QED
      BY <2>1, <3>1, NatMin
  <2>3. m # 0
    <3>1. IsFold([n \in 0..0 |-> NoWorker], 0)
      OBVIOUS
    <3>2. QED
      BY <3>1
  <2>4. PICK f : IsFold(f, m-1)
    <3>1. m-1 \in 0..Len(t) /\ m-1 \notin Bad
      BY <2>2, <2>3
    <3>2. QED
      BY <3>1
  <2> DEFINE g == [n \in 0..m |-> IF n = m THEN NextHolder(f[m-1], t[m]) ELSE f[n]]
  <2>5. ASSUME NEW n \in 0..m
        PROVE  g[n] = IF n = 0 THEN NoWorker ELSE NextHolder(g[n-1], t[n])
    <3>1. CASE n = m
      BY <3>1, <2>3
    <3>2. CASE n # m
      <4>1. n \in 0..(m-1) /\ g[n] = f[n]
        BY <3>2
      <4>2. f[n] = IF n = 0 THEN NoWorker ELSE NextHolder(f[n-1], t[n])
        BY <2>4, <4>1
      <4>3. n # 0 => g[n-1] = f[n-1]
        BY <3>2
      <4>4. QED
        BY <4>1, <4>2, <4>3
    <3>3. QED
      BY <3>1, <3>2
  <2>6. IsFold(g, m)
    <3>1. g = [n \in 0..m |-> g[n]]
      OBVIOUS
    <3> HIDE DEF g
    <3>2. QED
      BY <3>1, <2>5
  <2>7. QED
    BY <2>6
<1>2. \E f : IsFold(f, Len(t))
  BY <1>1
<1>3. HolderAfter(t) = CHOOSE f : IsFold(f, Len(t))
  BY DEF HolderAfter
<1>4. IsFold(HolderAfter(t), Len(t))
  <2> HIDE DEF IsFold
  <2>1. QED
    BY <1>2, <1>3
<1>5. QED
  BY <1>4

\* One comment moves the loop's holder by NextHolder.
LEMMA HolderAfterStep ==
  ASSUME NEW t \in Seq(Comment)
  PROVE  /\ HolderAfter(t)[0] = NoWorker
         /\ \A n \in 1..Len(t) :
              HolderAfter(t)[n] = NextHolder(HolderAfter(t)[n-1], t[n])
<1>1. \A n \in 0..Len(t) : HolderAfter(t)[n] =
        IF n = 0 THEN NoWorker ELSE NextHolder(HolderAfter(t)[n-1], t[n])
  <2> DEFINE h == HolderAfter(t)
  <2>1. h = [n \in 0..Len(t) |-> IF n = 0 THEN NoWorker ELSE NextHolder(h[n-1], t[n])]
    BY HolderAfterDef
  <2> HIDE DEF h
  <2>2. \A n \in 0..Len(t) : h[n] = IF n = 0 THEN NoWorker ELSE NextHolder(h[n-1], t[n])
    BY <2>1
  <2>3. QED
    BY <2>2 DEF h
<1>2. QED
  BY <1>1

\* The fold reads no stamps and nothing beyond the prefix: two threads that
\* agree on the first n comments have the same holder after them.
LEMMA HolderAfterPrefix ==
  ASSUME NEW t \in Seq(Comment), NEW u \in Seq(Comment),
         NEW n \in Nat, n <= Len(t), n <= Len(u), Agree(t, u, n)
  PROVE  HolderAfter(t)[n] = HolderAfter(u)[n]
<1> DEFINE Bad == {k \in 0..n : HolderAfter(t)[k] # HolderAfter(u)[k]}
<1>1. Bad = {}
  <2>1. SUFFICES ASSUME Bad # {} PROVE FALSE
    OBVIOUS
  <2>2. PICK m \in Bad : \A k \in Bad : m <= k
    <3>1. Bad \in SUBSET Nat
      OBVIOUS
    <3> HIDE DEF Bad
    <3>2. QED
      BY <2>1, <3>1, NatMin
  <2>3. m # 0
    BY <2>2, HolderAfterStep
  <2>4. m \in 1..n /\ m-1 \in 0..n /\ m-1 \notin Bad
    BY <2>2, <2>3
  <2>5. HolderAfter(t)[m-1] = HolderAfter(u)[m-1]
    BY <2>4
  <2>6. SameKey(t[m], u[m])
    BY <2>4 DEF Agree
  <2>7. /\ HolderAfter(t)[m] = NextHolder(HolderAfter(t)[m-1], t[m])
        /\ HolderAfter(u)[m] = NextHolder(HolderAfter(u)[m-1], u[m])
    BY <2>4, HolderAfterStep
  <2>8. HolderAfter(t)[m] = HolderAfter(u)[m]
    BY <2>5, <2>6, <2>7 DEF NextHolder, SameKey, WorkerOf
  <2>9. QED
    BY <2>2, <2>8
<1>2. QED
  BY <1>1

\* A lease is lost only to a release by its own login: over any stretch of the
\* thread without one, the holder stays.
LEMMA HeldUntilReleased ==
  ASSUME NEW t \in Seq(Comment),
         NEW i \in 0..Len(t), NEW j \in i..Len(t),
         NEW w, w # NoWorker, HolderAfter(t)[i] = w,
         \A k \in i+1 .. j : ~(t[k].action = "release" /\ t[k].login = w[1])
  PROVE  HolderAfter(t)[j] = w
<1> DEFINE Bad == {k \in i..j : HolderAfter(t)[k] # w}
<1>1. Bad = {}
  <2>1. SUFFICES ASSUME Bad # {} PROVE FALSE
    OBVIOUS
  <2>2. PICK m \in Bad : \A k \in Bad : m <= k
    <3>1. Bad \in SUBSET Nat
      OBVIOUS
    <3> HIDE DEF Bad
    <3>2. QED
      BY <2>1, <3>1, NatMin
  <2>3. m \in i+1 .. j /\ m \in 1..Len(t) /\ m-1 \in i..j /\ m-1 \notin Bad
    BY <2>2
  <2>4. HolderAfter(t)[m-1] = w
    BY <2>3
  <2>5. HolderAfter(t)[m] = NextHolder(w, t[m])
    BY <2>3, <2>4, HolderAfterStep
  <2>6. HolderAfter(t)[m] = w
    BY <2>3, <2>5 DEF NextHolder
  <2>7. QED
    BY <2>2, <2>6
<1>2. QED
  BY <1>1

\* A worker with a comment among the first n has a latest one there.
LEMMA LatestByWorkerType ==
  ASSUME NEW t, NEW n \in Nat, NEW w, CommentsOf(t, n, w) # {}
  PROVE  /\ LatestByWorker(t, n, w) \in CommentsOf(t, n, w)
         /\ \A j \in CommentsOf(t, n, w) : j <= LatestByWorker(t, n, w)
<1>1. CommentsOf(t, n, w) \in SUBSET (1..n)
  BY DEF CommentsOf
<1>2. \E m \in CommentsOf(t, n, w) : \A k \in CommentsOf(t, n, w) : k <= m
  BY <1>1, NatMax
<1>3. QED
  BY <1>2 DEF LatestByWorker

\* A decision for "claimed" names the fold's holder; any decision that names a
\* worker does so as "claimed" or "reclaimed".
LEMMA DecideClaimed ==
  ASSUME NEW t, NEW n, NEW now,
         Decide(t, n, now).holder # NoWorker
  PROVE  /\ Decide(t, n, now).reason \in {"claimed", "reclaimed"}
         /\ Decide(t, n, now).reason = "claimed" =>
              HolderAfter(t)[n] = Decide(t, n, now).holder
  BY DEF Decide

-----------------------------------------------------------------------------
(* Who can be the holder.                                                  *)

\* w has claimed among the first n comments of t.
Claimant(t, n, w) == \E i \in 1..n : t[i].action = "claim" /\ WorkerOf(t[i]) = w

LEMMA HolderClaimed ==
  ASSUME NEW t \in Seq(Comment), NEW n \in 0..Len(t), HolderAfter(t)[n] # NoWorker
  PROVE  Claimant(t, n, HolderAfter(t)[n])
<1> DEFINE Bad == {k \in 0..n : /\ HolderAfter(t)[k] # NoWorker
                                /\ ~Claimant(t, k, HolderAfter(t)[k])}
<1>1. Bad = {}
  <2>1. SUFFICES ASSUME Bad # {} PROVE FALSE
    OBVIOUS
  <2>2. PICK m \in Bad : \A k \in Bad : m <= k
    <3>1. Bad \in SUBSET Nat
      OBVIOUS
    <3> HIDE DEF Bad
    <3>2. QED
      BY <2>1, <3>1, NatMin
  <2>3. m # 0
    BY <2>2, HolderAfterStep
  <2>4. m \in 1..Len(t) /\ m-1 \in 0..n /\ m-1 \notin Bad
    BY <2>2, <2>3
  <2>5. HolderAfter(t)[m] = NextHolder(HolderAfter(t)[m-1], t[m])
    BY <2>4, HolderAfterStep
  <2>6. CASE t[m].action = "claim" /\ WorkerOf(t[m]) = HolderAfter(t)[m]
    BY <2>2, <2>4, <2>6 DEF Claimant
  <2>7. CASE HolderAfter(t)[m] = HolderAfter(t)[m-1]
    <3>1. Claimant(t, m-1, HolderAfter(t)[m])
      BY <2>2, <2>4, <2>7
    <3>2. Claimant(t, m, HolderAfter(t)[m])
      BY <2>4, <3>1 DEF Claimant
    <3>3. QED
      BY <2>2, <3>2
  <2>8. QED
    BY <2>2, <2>5, <2>6, <2>7 DEF NextHolder
<1>2. QED
  BY <1>1

\* Also a lease that is passed on goes to somebody who claimed.
LEMMA DecidedClaimed ==
  ASSUME NEW t \in Seq(Comment), NEW n \in 0..Len(t), NEW at,
         Decide(t, n, at).holder # NoWorker
  PROVE  Claimant(t, n, Decide(t, n, at).holder)
<1> DEFINE next == Successors(t, n, HolderAfter(t)[n], at)
<1>1. CASE Decide(t, n, at).holder = HolderAfter(t)[n]
  BY <1>1, HolderClaimed
<1>2. CASE next # {} /\ Decide(t, n, at).holder
                          = WorkerOf(t[CHOOSE i \in next : \A j \in next : i <= j])
  <2>1. next \in SUBSET Nat /\ next \subseteq 1..n /\ \A i \in next : t[i].action = "claim"
    BY DEF Successors
  <2> HIDE DEF next
  <2>2. \E i \in next : \A j \in next : i <= j
    BY <1>2, <2>1, NatMin
  <2>3. PICK i \in next : Decide(t, n, at).holder = WorkerOf(t[i])
    BY <1>2, <2>2
  <2>4. QED
    BY <2>1, <2>3 DEF Claimant
<1>3. QED
  BY <1>1, <1>2 DEF Decide
=============================================================================
