----------------------------- MODULE LoopProofs -----------------------------
(***************************************************************************)
(* The loop of decide_lease computes the declarative decision, for threads *)
(* of every length, any logins, sessions, stamps and clocks: what the      *)
(* protocol is modelled and proved with is what the code does.             *)
(***************************************************************************)
EXTENDS ArbiterLoop, LeaseArbiterProofs

-----------------------------------------------------------------------------
(* One more comment.                                                       *)

Same(t, u, n) == \A i \in 1..n : t[i] = u[i]

Claimants(t) == {w \in Worker : Claims(t, Len(t), w) # {}}
Workers(t) == {WorkerOf(t[i]) : i \in 1..Len(t)}

LEMMA CommentsOfAppend ==
  ASSUME NEW t \in Seq(Comment), NEW c \in Comment, NEW w
  PROVE  LET u == Append(t, c)  n == Len(t) IN
         /\ Len(u) = n + 1 /\ u \in Seq(Comment) /\ u[n + 1] = c /\ Same(u, t, n)
         /\ CommentsOf(u, n + 1, w)
              = CommentsOf(t, n, w) \cup (IF WorkerOf(c) = w THEN {n + 1} ELSE {})
         /\ Claims(u, n + 1, w)
              = Claims(t, n, w) \cup (IF WorkerOf(c) = w /\ c.action = "claim"
                                      THEN {n + 1} ELSE {})
<1> DEFINE u == Append(t, c)
<1> DEFINE n == Len(t)
<1>1. /\ n \in Nat /\ Len(u) = n + 1 /\ u \in Seq(Comment)
      /\ u[n + 1] = c /\ \A i \in 1..n : u[i] = t[i]
  OBVIOUS
<1> HIDE DEF u, n
<1>2. \A i : i \in 1..(n + 1) <=> i \in 1..n \/ i = n + 1
  BY <1>1
<1>3. CommentsOf(u, n + 1, w)
        = CommentsOf(t, n, w) \cup (IF WorkerOf(c) = w THEN {n + 1} ELSE {})
  BY <1>1, <1>2 DEF CommentsOf
<1>4. Claims(u, n + 1, w) = {i \in CommentsOf(u, n + 1, w) : u[i].action = "claim"}
  BY DEF Claims
<1>5. \A i \in CommentsOf(t, n, w) : u[i] = t[i] /\ i \in 1..n
  BY <1>1 DEF CommentsOf
<1>6. Claims(u, n + 1, w)
        = Claims(t, n, w) \cup (IF WorkerOf(c) = w /\ c.action = "claim"
                                THEN {n + 1} ELSE {})
  BY <1>1, <1>3, <1>4, <1>5 DEF Claims
<1>7. QED
  BY <1>1, <1>3, <1>6 DEF Same, u, n

\* A worker that comments is remembered by that comment, the others by theirs.
LEMMA LatestAppend ==
  ASSUME NEW t \in Seq(Comment), NEW c \in Comment, NEW w
  PROVE  LatestByWorker(Append(t, c), Len(t) + 1, w)
           = IF w = WorkerOf(c) THEN Len(t) + 1 ELSE LatestByWorker(t, Len(t), w)
<1> DEFINE S == CommentsOf(Append(t, c), Len(t) + 1, w)
<1>1. S = CommentsOf(t, Len(t), w) \cup (IF WorkerOf(c) = w THEN {Len(t) + 1} ELSE {})
  BY CommentsOfAppend
<1>2. CommentsOf(t, Len(t), w) \subseteq 1..Len(t) /\ Len(t) \in Nat
  BY DEF CommentsOf
<1>3. LatestByWorker(Append(t, c), Len(t) + 1, w)
        = CHOOSE i \in S : \A j \in S : j <= i
  BY DEF LatestByWorker
<1> HIDE DEF S
<1>4. CASE w = WorkerOf(c)
  <2>1. Len(t) + 1 \in S /\ \A j \in S : j \in Nat /\ j <= Len(t) + 1
    BY <1>1, <1>2, <1>4
  <2>2. \A i \in S : (\A j \in S : j <= i) => i = Len(t) + 1
    BY <2>1
  <2>3. QED
    BY <1>3, <1>4, <2>1, <2>2
<1>5. CASE w # WorkerOf(c)
  BY <1>1, <1>3, <1>5 DEF LatestByWorker
<1>6. QED
  BY <1>4, <1>5

\* First claims stay; a worker's first one is the newest comment of all.
LEMMA FirstClaimAppend ==
  ASSUME NEW t \in Seq(Comment), NEW c \in Comment, NEW w
  PROVE  LET u == Append(t, c)  n == Len(t) IN
         /\ Claims(t, n, w) # {} =>
              /\ Claims(u, n + 1, w) # {}
              /\ FirstClaim(u, n + 1, w) = FirstClaim(t, n, w)
              /\ FirstClaim(t, n, w) \in Claims(t, n, w)
              /\ FirstClaim(t, n, w) \in 1..n
         /\ Claims(t, n, w) = {} /\ Claims(u, n + 1, w) # {} =>
              /\ c.action = "claim" /\ WorkerOf(c) = w
              /\ FirstClaim(u, n + 1, w) = n + 1
<1> DEFINE u == Append(t, c)
<1> DEFINE n == Len(t)
<1> DEFINE S == Claims(t, n, w)
<1> DEFINE T == Claims(u, n + 1, w)
<1>1. T = S \cup (IF WorkerOf(c) = w /\ c.action = "claim" THEN {n + 1} ELSE {})
  BY CommentsOfAppend
<1>2. S \subseteq 1..n /\ n \in Nat
  BY DEF CommentsOf, Claims
<1>3. /\ FirstClaim(u, n + 1, w) = CHOOSE i \in T : \A j \in T : i <= j
      /\ FirstClaim(t, n, w) = CHOOSE i \in S : \A j \in S : i <= j
  BY DEF FirstClaim
<1> HIDE DEF u, n, S, T
<1>4. ASSUME S # {}
      PROVE  /\ T # {} /\ FirstClaim(u, n + 1, w) = FirstClaim(t, n, w)
             /\ FirstClaim(t, n, w) \in S
  <2>1. S \in SUBSET Nat
    BY <1>2
  <2>2. PICK m \in S : \A j \in S : m <= j
    BY <1>4, <2>1, NatMin
  <2>3. \A i \in S : (\A j \in S : i <= j) => i = m
    BY <2>1, <2>2
  <2>4. FirstClaim(t, n, w) = m
    BY <1>3, <2>2, <2>3
  <2>5. m \in T /\ \A j \in T : m <= j /\ j \in Nat
    BY <1>1, <1>2, <2>2
  <2>6. \A i \in T : (\A j \in T : i <= j) => i = m
    BY <2>5
  <2>7. FirstClaim(u, n + 1, w) = m
    BY <1>3, <2>5, <2>6
  <2>8. QED
    BY <2>2, <2>4, <2>5, <2>7
<1>5. ASSUME S = {}, T # {}
      PROVE  /\ c.action = "claim" /\ WorkerOf(c) = w
             /\ FirstClaim(u, n + 1, w) = n + 1
  <2>1. c.action = "claim" /\ WorkerOf(c) = w /\ T = {n + 1}
    BY <1>1, <1>5
  <2>2. QED
    BY <1>2, <1>3, <2>1
<1>6. QED
  BY <1>2, <1>4, <1>5 DEF u, n, S, T

LEMMA HolderAppend ==
  ASSUME NEW t \in Seq(Comment), NEW c \in Comment
  PROVE  /\ \A k \in 0..Len(t) : HolderAfter(Append(t, c))[k] = HolderAfter(t)[k]
         /\ HolderAfter(Append(t, c))[Len(t) + 1]
              = NextHolder(HolderAfter(t)[Len(t)], c)
<1> DEFINE u == Append(t, c)
<1>1. Len(u) = Len(t) + 1 /\ u \in Seq(Comment) /\ u[Len(t) + 1] = c /\ Len(t) \in Nat
      /\ \A i \in 1..Len(t) : u[i] = t[i]
  OBVIOUS
<1> HIDE DEF u
<1>2. ASSUME NEW k \in 0..Len(t) PROVE HolderAfter(u)[k] = HolderAfter(t)[k]
  <2>1. Agree(u, t, k)
    BY <1>1 DEF Agree, SameKey
  <2>2. k \in Nat /\ k <= Len(u) /\ k <= Len(t)
    BY <1>1
  <2>3. QED
    BY <1>1, <2>1, <2>2, HolderAfterPrefix
<1>3. Len(t) + 1 \in 1..Len(u) /\ (Len(t) + 1) - 1 = Len(t) /\ Len(t) \in 0..Len(t)
  BY <1>1
<1>4. HolderAfter(u)[Len(t) + 1] = NextHolder(HolderAfter(u)[Len(t)], c)
  BY <1>1, <1>3, HolderAfterStep
<1>5. QED
  BY <1>2, <1>3, <1>4 DEF u

-----------------------------------------------------------------------------
(* The invariant of the loop.                                              *)

LoopTypeOK ==
  /\ ordered \in Seq(Comment)
  /\ claimOrder \in Seq(Worker)
  /\ superseded \in Seq(Login)

HolderIsFold == holder = HolderAfter(ordered)[Len(ordered)]

LatestKnown ==
  latest = [w \in Workers(ordered) |-> ordered[LatestByWorker(ordered, Len(ordered), w)]]

\* claim_order names the claimants and nobody else; a worker stands in it after
\* everyone whose first claim is older (it may stand there twice: a claim of a
\* free lease is appended without a look).
Listed(t, order) == Range(order) = Claimants(t)
ByFirstClaim(t, order) ==
  \A i \in 1..Len(order) : \A w \in Claimants(t) :
    FirstClaim(t, Len(t), w) < FirstClaim(t, Len(t), order[i])
      => \E j \in 1..(i - 1) : order[j] = w

\* The logins that lost a claim, and superseded in the order they first did.
Lost(t) == {t[j].login : j \in LostClaims(t)}
ByFirstLoss(t, logins) ==
  \A i, j \in 1..Len(logins) :
    i < j => FirstLoss(t, logins[i]) < FirstLoss(t, logins[j])

LoopInv ==
  /\ LoopTypeOK
  /\ HolderIsFold
  /\ LatestKnown
  /\ Listed(ordered, claimOrder)
  /\ ByFirstClaim(ordered, claimOrder)
  /\ Range(superseded) = Lost(ordered)
  /\ ByFirstLoss(ordered, superseded)

\* One iteration reads a comment and nothing else.
LEMMA IterateReads ==
  ASSUME Next
  PROVE  \E c \in Comment : Iterate(c) /\ ordered' = Append(ordered, c)
<1>1. PICK c \in [ login : Login, session : Session \cup {NoSession},
                   action : {"claim", "heartbeat", "release"}, stamp : Stamps ] : Iterate(c)
  BY DEF Next
<1>2. c \in Comment
  BY LoopAssumption DEF Comment
<1>3. QED
  BY <1>1, <1>2 DEF Iterate

LEMMA AppendIs ==
  ASSUME NEW S, NEW seq \in Seq(S), NEW x \in S
  PROVE  LET u == Append(seq, x) IN
         /\ u \in Seq(S) /\ Len(u) = Len(seq) + 1 /\ Len(seq) \in Nat
         /\ u[Len(seq) + 1] = x /\ \A i \in 1..Len(seq) : u[i] = seq[i]
OBVIOUS

\* What AppendNew leaves: the same sequence, or one with the new value at its end.
LEMMA AppendNewRange ==
  ASSUME NEW S, NEW seq \in Seq(S), NEW x \in S
  PROVE  /\ AppendNew(seq, x) \in Seq(S)
         /\ Range(AppendNew(seq, x)) = Range(seq) \cup {x}
         /\ \/ AppendNew(seq, x) = seq
            \/ AppendNew(seq, x) = Append(seq, x) /\ x \notin Range(seq)
<1>1. \A s \in Seq(S) : DOMAIN s = 1..Len(s)
  OBVIOUS
<1>2. Append(seq, x) \in Seq(S) /\ Range(Append(seq, x)) = Range(seq) \cup {x}
  <2> DEFINE u == Append(seq, x)
  <2>1. /\ u \in Seq(S) /\ Len(u) = Len(seq) + 1 /\ Len(seq) \in Nat
        /\ u[Len(seq) + 1] = x /\ \A i \in 1..Len(seq) : u[i] = seq[i]
    OBVIOUS
  <2> HIDE DEF u
  <2>2. DOMAIN u = 1..(Len(seq) + 1) /\ DOMAIN seq = 1..Len(seq)
    BY <1>1, <2>1
  <2>3. \A i : i \in 1..(Len(seq) + 1) <=> i \in 1..Len(seq) \/ i = Len(seq) + 1
    BY <2>1
  <2>4. Range(u) = Range(seq) \cup {x}
    BY <2>1, <2>2, <2>3 DEF Range
  <2>5. QED
    BY <2>1, <2>4 DEF u
<1>3. Contains(seq, x) <=> x \in Range(seq)
  BY <1>1 DEF Contains, Range
<1>4. QED
  BY <1>2, <1>3 DEF AppendNew

LEMMA ClaimantsAppend ==
  ASSUME NEW t \in Seq(Comment), NEW c \in Comment
  PROVE  /\ Claimants(Append(t, c))
              = Claimants(t) \cup (IF c.action = "claim" THEN {WorkerOf(c)} ELSE {})
         /\ Workers(Append(t, c)) = Workers(t) \cup {WorkerOf(c)}
<1> DEFINE u == Append(t, c)
<1>1. /\ Len(u) = Len(t) + 1 /\ Len(t) \in Nat /\ u[Len(t) + 1] = c
      /\ \A i \in 1..Len(t) : u[i] = t[i]
  OBVIOUS
<1>2. \A w : Claims(u, Len(t) + 1, w)
               = Claims(t, Len(t), w) \cup (IF WorkerOf(c) = w /\ c.action = "claim"
                                            THEN {Len(t) + 1} ELSE {})
  BY CommentsOfAppend
<1>3. WorkerOf(c) \in Worker
  BY DEF Comment, WorkerOf, Worker
<1> HIDE DEF u
<1>4. Claimants(u) = Claimants(t) \cup (IF c.action = "claim" THEN {WorkerOf(c)} ELSE {})
  BY <1>1, <1>2, <1>3 DEF Claimants
<1>5. \A i : i \in 1..(Len(t) + 1) <=> i \in 1..Len(t) \/ i = Len(t) + 1
  BY <1>1
<1>6. Workers(u) = Workers(t) \cup {WorkerOf(c)}
  BY <1>1, <1>5 DEF Workers
<1>7. QED
  BY <1>4, <1>6 DEF u

Meets(t, c) == c.action = "claim" /\ HolderAfter(t)[Len(t)] \notin {NoWorker, WorkerOf(c)}

LEMMA LostAppend ==
  ASSUME NEW t \in Seq(Comment), NEW c \in Comment
  PROVE  /\ LostClaims(t) \subseteq 1..Len(t)
         /\ LostClaims(Append(t, c))
              = LostClaims(t) \cup (IF Meets(t, c) THEN {Len(t) + 1} ELSE {})
         /\ Lost(Append(t, c)) = Lost(t) \cup (IF Meets(t, c) THEN {c.login} ELSE {})
<1> DEFINE u == Append(t, c)
<1> DEFINE Met(v, j) == /\ v[j].action = "claim"
                        /\ HolderAfter(v)[j - 1] \notin {NoWorker, WorkerOf(v[j])}
<1>1. /\ Len(u) = Len(t) + 1 /\ Len(t) \in Nat /\ u[Len(t) + 1] = c
      /\ \A i \in 1..Len(t) : u[i] = t[i]
  OBVIOUS
<1>2. \A k \in 0..Len(t) : HolderAfter(u)[k] = HolderAfter(t)[k]
  BY HolderAppend
<1> HIDE DEF u
<1>3. \A j \in 1..Len(t) : Met(u, j) = Met(t, j)
  BY <1>1, <1>2
<1>4. Met(u, Len(t) + 1) = Meets(t, c)
  <2>1. (Len(t) + 1) - 1 = Len(t) /\ Len(t) \in 0..Len(t)
    BY <1>1
  <2>2. QED
    BY <1>1, <1>2, <2>1 DEF Meets
<1>5. LostClaims(u) = {j \in 1..Len(u) : Met(u, j)} /\ LostClaims(t) = {j \in 1..Len(t) : Met(t, j)}
  BY DEF LostClaims
<1>6. \A j : j \in 1..Len(u) <=> j \in 1..Len(t) \/ j = Len(t) + 1
  BY <1>1
<1> HIDE DEF Met
<1>7. LostClaims(u) = LostClaims(t) \cup (IF Met(u, Len(t) + 1) THEN {Len(t) + 1} ELSE {})
  BY <1>1, <1>3, <1>5, <1>6
<1>8. \A j \in LostClaims(t) : j \in 1..Len(t) /\ u[j] = t[j]
  BY <1>1, <1>5
<1>9. Lost(u) = Lost(t) \cup (IF Met(u, Len(t) + 1) THEN {c.login} ELSE {})
  BY <1>1, <1>7, <1>8 DEF Lost
<1>10. QED
  BY <1>4, <1>7, <1>8, <1>9 DEF u

\* First losses stay; a login's first one is the newest comment of all.
LEMMA FirstLossAppend ==
  ASSUME NEW t \in Seq(Comment), NEW c \in Comment, NEW login
  PROVE  LET u == Append(t, c) IN
         /\ login \in Lost(t) =>
              FirstLoss(u, login) = FirstLoss(t, login) /\ FirstLoss(t, login) \in 1..Len(t)
         /\ login \notin Lost(t) /\ login \in Lost(u) => FirstLoss(u, login) = Len(t) + 1
<1> DEFINE u == Append(t, c)
<1> DEFINE S == LossesOf(t, login)
<1> DEFINE T == LossesOf(u, login)
<1>1. /\ Len(t) \in Nat /\ u[Len(t) + 1] = c /\ \A i \in 1..Len(t) : u[i] = t[i]
  OBVIOUS
<1>2. LostClaims(t) \subseteq 1..Len(t)
      /\ LostClaims(u) = LostClaims(t) \cup (IF Meets(t, c) THEN {Len(t) + 1} ELSE {})
  BY LostAppend
<1> HIDE DEF u
<1>3. S \subseteq 1..Len(t)
      /\ T = S \cup (IF Meets(t, c) /\ c.login = login THEN {Len(t) + 1} ELSE {})
  BY <1>1, <1>2 DEF LossesOf
<1>4. (login \in Lost(t) <=> S # {}) /\ (login \in Lost(u) <=> T # {})
  BY DEF Lost, LossesOf
<1>5. /\ FirstLoss(t, login) = CHOOSE j \in S : \A k \in S : j <= k
      /\ FirstLoss(u, login) = CHOOSE j \in T : \A k \in T : j <= k
  BY DEF FirstLoss
<1> HIDE DEF S, T
<1>6. ASSUME S # {}
      PROVE  FirstLoss(u, login) = FirstLoss(t, login) /\ FirstLoss(t, login) \in 1..Len(t)
  <2>1. S \in SUBSET Nat
    BY <1>3
  <2>2. PICK m \in S : \A k \in S : m <= k
    BY <1>6, <2>1, NatMin
  <2>3. \A j \in S : (\A k \in S : j <= k) => j = m
    BY <2>1, <2>2
  <2>4. FirstLoss(t, login) = m
    BY <1>5, <2>2, <2>3
  <2>5. m \in T /\ \A k \in T : m <= k /\ k \in Nat
    BY <1>1, <1>3, <2>2
  <2>6. \A j \in T : (\A k \in T : j <= k) => j = m
    BY <2>5
  <2>7. FirstLoss(u, login) = m
    BY <1>5, <2>5, <2>6
  <2>8. QED
    BY <1>3, <2>2, <2>4, <2>7
<1>7. ASSUME S = {}, T # {} PROVE FirstLoss(u, login) = Len(t) + 1
  <2>1. T = {Len(t) + 1}
    BY <1>3, <1>7
  <2>2. QED
    BY <1>1, <1>5, <2>1
<1>8. QED
  BY <1>4, <1>6, <1>7 DEF u

\* superseded holds the losers in order: who loses anew goes to its end.
LEMMA LossesKept ==
  ASSUME NEW t \in Seq(Comment), NEW c \in Comment, NEW s \in Seq(Login), NEW r,
         Range(s) = Lost(t), ByFirstLoss(t, s),
         r = IF Meets(t, c) THEN AppendNew(s, c.login) ELSE s
  PROVE  /\ r \in Seq(Login)
         /\ Range(r) = Lost(Append(t, c))
         /\ ByFirstLoss(Append(t, c), r)
<1> DEFINE u == Append(t, c)
<1>1. c.login \in Login
  BY DEF Comment
<1>2. /\ AppendNew(s, c.login) \in Seq(Login)
      /\ Range(AppendNew(s, c.login)) = Range(s) \cup {c.login}
      /\ \/ AppendNew(s, c.login) = s
         \/ AppendNew(s, c.login) = Append(s, c.login) /\ c.login \notin Range(s)
  BY <1>1, AppendNewRange
<1>3. Lost(u) = Lost(t) \cup (IF Meets(t, c) THEN {c.login} ELSE {})
  BY LostAppend
<1>4. r \in Seq(Login) /\ Range(r) = Lost(u)
  BY <1>2, <1>3
<1>5. /\ Len(s) \in Nat /\ Len(t) \in Nat
      /\ \A i \in 1..Len(s) : s[i] \in Lost(t)
  BY DEF Range
<1>6. \A i \in 1..Len(s) : /\ FirstLoss(u, s[i]) = FirstLoss(t, s[i])
                           /\ FirstLoss(t, s[i]) \in 1..Len(t)
  BY <1>5, FirstLossAppend
<1>7. ByFirstLoss(u, s)
  BY <1>6 DEF ByFirstLoss
<1>8. ASSUME r = Append(s, c.login), c.login \notin Range(s)
      PROVE  ByFirstLoss(u, r)
  <2>1. Len(r) = Len(s) + 1 /\ r[Len(s) + 1] = c.login /\ \A i \in 1..Len(s) : r[i] = s[i]
    BY <1>1, <1>8, AppendIs
  <2>2. c.login \in Lost(u) /\ c.login \notin Lost(t)
    <3>1. Len(s) + 1 \in 1..Len(r)
      BY <1>5, <2>1
    <3>2. c.login \in Range(r)
      BY <1>4, <2>1, <3>1 DEF Range
    <3>3. QED
      BY <1>4, <1>8, <3>2
  <2>3. FirstLoss(u, c.login) = Len(t) + 1
    BY <2>2, FirstLossAppend
  <2> HIDE DEF u
  <2>4. ASSUME NEW i \in 1..Len(r), NEW j \in 1..Len(r), i < j
        PROVE  FirstLoss(u, r[i]) < FirstLoss(u, r[j])
    <3>1. i \in 1..Len(s) /\ (j \in 1..Len(s) \/ j = Len(s) + 1)
      BY <1>5, <2>1, <2>4
    <3>2. CASE j \in 1..Len(s)
      BY <1>7, <2>1, <2>4, <3>1, <3>2 DEF ByFirstLoss
    <3>3. CASE j = Len(s) + 1
      BY <1>5, <1>6, <2>1, <2>3, <3>1, <3>3
    <3>4. QED
      BY <3>1, <3>2, <3>3
  <2>5. QED
    BY <2>4 DEF ByFirstLoss
<1>9. r = s \/ (r = Append(s, c.login) /\ c.login \notin Range(s))
  BY <1>2
<1>10. QED
  BY <1>4, <1>7, <1>8, <1>9

\* claim_order stays in order where a comment adds nobody to it, and where a
\* claim puts its worker at the end, whether or not it stood there before.
LEMMA OrderKept ==
  ASSUME NEW t \in Seq(Comment), NEW c \in Comment, NEW o \in Seq(Worker), NEW p,
         Listed(t, o), ByFirstClaim(t, o),
         \/ p = o /\ (c.action # "claim" \/ WorkerOf(c) \in Range(o))
         \/ p = Append(o, WorkerOf(c)) /\ c.action = "claim"
  PROVE  p \in Seq(Worker) /\ Listed(Append(t, c), p) /\ ByFirstClaim(Append(t, c), p)
<1> DEFINE u == Append(t, c)
<1>1. Len(u) = Len(t) + 1 /\ Len(t) \in Nat /\ WorkerOf(c) \in Worker
  BY DEF Comment, WorkerOf, Worker
<1>2. Claimants(u) = Claimants(t) \cup (IF c.action = "claim" THEN {WorkerOf(c)} ELSE {})
  BY ClaimantsAppend
<1>3. \A w : /\ Claims(t, Len(t), w) # {} =>
                  /\ Claims(u, Len(u), w) # {}
                  /\ FirstClaim(u, Len(u), w) = FirstClaim(t, Len(t), w)
                  /\ FirstClaim(t, Len(t), w) \in 1..Len(t)
             /\ Claims(t, Len(t), w) = {} /\ Claims(u, Len(u), w) # {} =>
                  FirstClaim(u, Len(u), w) = Len(t) + 1
  BY <1>1, FirstClaimAppend
<1>4. \A w \in Claimants(t) : /\ FirstClaim(u, Len(u), w) = FirstClaim(t, Len(t), w)
                              /\ FirstClaim(t, Len(t), w) \in 1..Len(t)
  BY <1>3 DEF Claimants
<1>5. \A w \in Claimants(u) : \/ w \in Claimants(t)
                              \/ FirstClaim(u, Len(u), w) = Len(t) + 1
  BY <1>3 DEF Claimants
<1>6. \A i \in 1..Len(o) : o[i] \in Claimants(t)
  BY DEF Listed, Range
<1> HIDE DEF u
<1>7. /\ p \in Seq(Worker) /\ Listed(u, p)
      /\ \A i \in 1..Len(o) : i \in 1..Len(p) /\ p[i] = o[i]
      /\ \A i \in 1..Len(p) :
           \/ i \in 1..Len(o)
           \/ i = Len(o) + 1 /\ p[i] = WorkerOf(c) /\ c.action = "claim"
  <2>1. CASE p = o /\ (c.action # "claim" \/ WorkerOf(c) \in Range(o))
    <3>1. Claimants(u) = Claimants(t)
      BY <1>2, <2>1 DEF Listed
    <3>2. QED
      BY <2>1, <3>1 DEF Listed
  <2>2. CASE p = Append(o, WorkerOf(c)) /\ c.action = "claim"
    <3>1. /\ p \in Seq(Worker) /\ Len(p) = Len(o) + 1 /\ Len(o) \in Nat
          /\ p[Len(o) + 1] = WorkerOf(c) /\ \A i \in 1..Len(o) : p[i] = o[i]
          /\ DOMAIN p = 1..(Len(o) + 1) /\ DOMAIN o = 1..Len(o)
      BY <1>1, <2>2
    <3>2. \A i : i \in 1..(Len(o) + 1) <=> i \in 1..Len(o) \/ i = Len(o) + 1
      BY <3>1
    <3>3. Range(p) = Range(o) \cup {WorkerOf(c)}
      BY <3>1, <3>2 DEF Range
    <3>4. Listed(u, p)
      BY <1>2, <2>2, <3>3 DEF Listed
    <3>5. QED
      BY <2>2, <3>1, <3>2, <3>4
  <2>3. QED
    BY <2>1, <2>2
<1>8. ASSUME NEW i \in 1..Len(p), NEW w \in Claimants(u),
             FirstClaim(u, Len(u), w) < FirstClaim(u, Len(u), p[i])
      PROVE  \E j \in 1..(i - 1) : p[j] = w
  <2>1. CASE i \in 1..Len(o)
    <3>1. FirstClaim(u, Len(u), p[i]) = FirstClaim(t, Len(t), o[i]) /\ o[i] \in Claimants(t)
      BY <1>4, <1>6, <1>7, <2>1
    <3>2. w \in Claimants(t)
      BY <1>1, <1>4, <1>5, <1>8, <3>1
    <3>3. FirstClaim(t, Len(t), w) < FirstClaim(t, Len(t), o[i])
      BY <1>4, <1>8, <3>1, <3>2
    <3>4. PICK j \in 1..(i - 1) : o[j] = w
      BY <2>1, <3>2, <3>3 DEF ByFirstClaim
    <3>5. j \in 1..Len(o) /\ Len(o) \in Nat
      BY <1>7, <2>1
    <3>6. p[j] = o[j]
      BY <1>7, <3>5
    <3>7. QED
      BY <3>4, <3>6
  <2>2. CASE i = Len(o) + 1 /\ p[i] = WorkerOf(c) /\ c.action = "claim"
    <3>1. w # WorkerOf(c)
      BY <1>1, <1>4, <1>5, <1>8, <2>2
    <3>2. w \in Range(o)
      BY <1>2, <3>1 DEF Listed
    <3>3. PICK j \in 1..Len(o) : o[j] = w
      BY <3>2 DEF Range
    <3>4. QED
      BY <1>7, <2>2, <3>3
  <2>3. QED
    BY <1>7, <2>1, <2>2
<1>9. QED
  BY <1>7, <1>8 DEF ByFirstClaim, u

-----------------------------------------------------------------------------
(* The invariant holds.                                                    *)

LEMMA LoopStarts == Init => LoopInv
<1> SUFFICES ASSUME Init PROVE LoopInv
  OBVIOUS
<1>1. ordered = <<>> /\ claimOrder = <<>> /\ superseded = <<>> /\ holder = NoWorker
  BY DEF Init
<1>2. Len(<<>>) = 0 /\ DOMAIN <<>> = {} /\ \A i : i \notin 1..0
  OBVIOUS
<1>3. LoopTypeOK
  BY <1>1 DEF LoopTypeOK
<1>4. HolderIsFold
  BY <1>1, <1>2, <1>3, HolderAfterStep DEF HolderIsFold, LoopTypeOK
<1>5. Workers(ordered) = {} /\ Claimants(ordered) = {} /\ Lost(ordered) = {}
  BY <1>1, <1>2 DEF Workers, Claimants, Claims, CommentsOf, Lost, LostClaims
<1>6. LatestKnown
  BY <1>5 DEF LatestKnown, Init
<1>7. Range(claimOrder) = {} /\ Range(superseded) = {}
  BY <1>1, <1>2 DEF Range
<1>8. QED
  BY <1>1, <1>2, <1>3, <1>4, <1>5, <1>6, <1>7 DEF LoopInv, Listed, ByFirstClaim, ByFirstLoss

\* latest_by_worker of one comment more.
LEMMA LatestStep ==
  ASSUME LoopInv, NEW c \in Comment, Remember(c), ordered' = Append(ordered, c)
  PROVE  LatestKnown'
<1> DEFINE u == Append(ordered, c)
<1>1. ordered \in Seq(Comment) /\ LatestKnown
  BY DEF LoopInv, LoopTypeOK
<1>2. /\ Len(u) = Len(ordered) + 1 /\ u[Len(ordered) + 1] = c /\ Len(ordered) \in Nat
      /\ \A i \in 1..Len(ordered) : u[i] = ordered[i]
  BY <1>1
<1>3. Workers(u) = Workers(ordered) \cup {WorkerOf(c)}
  BY <1>1, ClaimantsAppend
<1>4. \A w : LatestByWorker(u, Len(u), w)
        = IF w = WorkerOf(c) THEN Len(ordered) + 1 ELSE LatestByWorker(ordered, Len(ordered), w)
  BY <1>1, <1>2, LatestAppend
<1>5. \A w \in Workers(ordered) : LatestByWorker(ordered, Len(ordered), w) \in 1..Len(ordered)
  BY <1>2, LatestByWorkerType DEF Workers, CommentsOf
<1>6. DOMAIN latest = Workers(ordered)
      /\ \A w \in Workers(ordered) :
           latest[w] = ordered[LatestByWorker(ordered, Len(ordered), w)]
  BY <1>1 DEF LatestKnown
<1>7. ordered' = u
  OBVIOUS
<1> HIDE DEF u
<1>8. latest' = [w \in Workers(u) |-> IF w = WorkerOf(c) THEN c ELSE latest[w]]
  BY <1>3, <1>6 DEF Remember
<1>9. \A w \in Workers(u) : (IF w = WorkerOf(c) THEN c ELSE latest[w])
                              = u[LatestByWorker(u, Len(u), w)]
  BY <1>2, <1>3, <1>4, <1>5, <1>6
<1>10. latest' = [w \in Workers(u) |-> u[LatestByWorker(u, Len(u), w)]]
  BY <1>8, <1>9
<1>11. QED
  BY <1>7, <1>10 DEF LatestKnown

\* What the four branches have in common, once each has said what it does to the
\* holder, to claim_order and to superseded.
LEMMA LoopIterates ==
  ASSUME LoopInv, NEW c \in Comment, Iterate(c), ordered' = Append(ordered, c)
  PROVE  LoopInv'
<1> DEFINE u == Append(ordered, c)
<1>1. /\ ordered \in Seq(Comment) /\ claimOrder \in Seq(Worker) /\ superseded \in Seq(Login)
      /\ holder = HolderAfter(ordered)[Len(ordered)]
      /\ Listed(ordered, claimOrder) /\ ByFirstClaim(ordered, claimOrder)
      /\ Range(superseded) = Lost(ordered) /\ ByFirstLoss(ordered, superseded)
  BY DEF LoopInv, LoopTypeOK, HolderIsFold
<1>2. c.login \in Login /\ WorkerOf(c) \in Worker /\ WorkerOf(c) # NoWorker
      /\ c.action \in {"claim", "heartbeat", "release"} /\ WorkerOf(c)[1] = c.login
  BY ArbiterAssumption DEF Comment, WorkerOf, Worker
<1>3. u \in Seq(Comment) /\ Len(u) = Len(ordered) + 1
  BY <1>1
<1>4. HolderAfter(u)[Len(ordered) + 1] = NextHolder(holder, c)
  BY <1>1, HolderAppend
<1>5. Meets(ordered, c) <=> c.action = "claim" /\ holder \notin {NoWorker, WorkerOf(c)}
  BY <1>1 DEF Meets
<1>6. holder # NoWorker => holder \in Range(claimOrder)
  <2>1. ASSUME holder # NoWorker PROVE Claims(ordered, Len(ordered), holder) # {}
                                       /\ holder \in Worker
    <3>1. PICK i \in 1..Len(ordered) : ordered[i].action = "claim" /\ WorkerOf(ordered[i]) = holder
      BY <1>1, <2>1, HolderClaimed DEF Claimant
    <3>2. ordered[i] \in Comment
      BY <1>1
    <3>3. QED
      BY <3>1, <3>2 DEF Claims, CommentsOf, Comment, WorkerOf, Worker
  <2>2. QED
    BY <1>1, <2>1 DEF Listed, Claimants
<1>7. ordered' = u
  OBVIOUS
<1> HIDE DEF u
<1>8. /\ holder' = NextHolder(holder, c)
      /\ \/ claimOrder' = claimOrder /\ (c.action # "claim" \/ WorkerOf(c) \in Range(claimOrder))
         \/ claimOrder' = Append(claimOrder, WorkerOf(c)) /\ c.action = "claim"
      /\ superseded' = IF Meets(ordered, c) THEN AppendNew(superseded, c.login) ELSE superseded
  <2>1. CASE ClaimFree(c)
    BY <1>1, <1>2, <1>5, <2>1 DEF ClaimFree, NextHolder
  <2>2. CASE ClaimHeld(c)
    <3>1. /\ AppendNew(claimOrder, WorkerOf(c)) = claimOrder => WorkerOf(c) \in Range(claimOrder)
          /\ \/ AppendNew(claimOrder, WorkerOf(c)) = claimOrder
             \/ AppendNew(claimOrder, WorkerOf(c)) = Append(claimOrder, WorkerOf(c))
      BY <1>1, <1>2, AppendNewRange
    <3>2. QED
      BY <1>5, <2>2, <3>1 DEF ClaimHeld, NextHolder
  <2>3. CASE ReleaseHeld(c)
    BY <1>1, <1>2, <1>5, <2>3 DEF ReleaseHeld, ByHolder, NextHolder
  <2>4. CASE Ignored(c)
    BY <1>1, <1>2, <1>5, <1>6, <2>4 DEF Ignored, ByHolder, NextHolder
  <2>5. QED
    BY <2>1, <2>2, <2>3, <2>4 DEF Iterate
<1>9. claimOrder' \in Seq(Worker) /\ Listed(u, claimOrder') /\ ByFirstClaim(u, claimOrder')
  BY <1>1, <1>8, OrderKept DEF u
<1>10. superseded' \in Seq(Login) /\ Range(superseded') = Lost(u) /\ ByFirstLoss(u, superseded')
  BY <1>1, <1>8, LossesKept DEF u
<1>11. LoopTypeOK'
  BY <1>3, <1>7, <1>9, <1>10 DEF LoopTypeOK
<1>12. HolderIsFold'
  BY <1>3, <1>4, <1>7, <1>8 DEF HolderIsFold
<1>13. LatestKnown'
  BY LatestStep DEF Iterate
<1>14. QED
  BY <1>7, <1>9, <1>10, <1>11, <1>12, <1>13 DEF LoopInv

\* After every comment the loop's variables say what the fold says of the thread
\* so far: the holder, who claimed in which order, who lost, who was heard last.
THEOREM LoopInvariant == Spec => []LoopInv
<1>1. LoopInv /\ [Next]_vars => LoopInv'
  <2>1. ASSUME LoopInv, Next PROVE LoopInv'
    BY <2>1, IterateReads, LoopIterates
  <2>2. ASSUME LoopInv, UNCHANGED vars PROVE LoopInv'
    BY <2>2 DEF LoopInv, LoopTypeOK, HolderIsFold, LatestKnown, vars
  <2>3. QED
    BY <2>1, <2>2
<1>2. QED
  BY <1>1, LoopStarts, PTL DEF Spec

-----------------------------------------------------------------------------
(* The answer.                                                             *)

\* _fresh asks latest_by_worker, which knows every worker it is asked about.
LEMMA FreshIsFresh ==
  ASSUME LoopInv, NEW w, CommentsOf(ordered, Len(ordered), w) # {}, NEW now
  PROVE  Fresh(w, now) = FreshWorker(ordered, Len(ordered), w, now)
<1>1. LatestKnown /\ w \in Workers(ordered)
  BY DEF LoopInv, CommentsOf, Workers
<1>2. latest[w] = ordered[LatestByWorker(ordered, Len(ordered), w)]
  BY <1>1 DEF LatestKnown
<1>3. QED
  BY <1>2 DEF Fresh, FreshWorker

FirstOf(w) == FirstClaim(ordered, Len(ordered), w)

\* The first fresh worker in claim_order is the fresh one that claimed first.
LEMMA FirstHeir ==
  ASSUME LoopInv, NEW now
  PROVE  LET next == Successors(ordered, Len(ordered), holder, now)
             n    == CHOOSE i \in next : \A j \in next : i <= j
             k    == CHOOSE i \in Heirs(now) : \A j \in Heirs(now) : i <= j
         IN  /\ Heirs(now) = {} <=> next = {}
             /\ Heirs(now) # {} => claimOrder[k] = WorkerOf(ordered[n])
<1> DEFINE next == Successors(ordered, Len(ordered), holder, now)
<1> DEFINE heirs == Heirs(now)
<1>1. /\ ordered \in Seq(Comment) /\ claimOrder \in Seq(Worker)
      /\ Range(claimOrder) = Claimants(ordered) /\ Len(ordered) \in Nat
      /\ ByFirstClaim(ordered, claimOrder)
  BY DEF LoopInv, LoopTypeOK, Listed
<1>2. ASSUME NEW w \in Claimants(ordered)
      PROVE  /\ FirstOf(w) \in 1..Len(ordered)
             /\ WorkerOf(ordered[FirstOf(w)]) = w
             /\ ordered[FirstOf(w)].action = "claim"
             /\ Fresh(w, now) = FreshWorker(ordered, Len(ordered), w, now)
  <2> DEFINE S == Claims(ordered, Len(ordered), w)
  <2>1. S # {} /\ S \in SUBSET Nat /\ S \subseteq CommentsOf(ordered, Len(ordered), w)
    BY <1>1 DEF Claimants, Claims, CommentsOf
  <2>2. FirstOf(w) = CHOOSE i \in S : \A j \in S : i <= j
    BY DEF FirstOf, FirstClaim
  <2> HIDE DEF S
  <2>3. \E i \in S : \A j \in S : i <= j
    BY <2>1, NatMin
  <2>4. FirstOf(w) \in S
    BY <2>2, <2>3
  <2>5. Fresh(w, now) = FreshWorker(ordered, Len(ordered), w, now)
    BY <2>1, FreshIsFresh
  <2>6. QED
    BY <2>4, <2>5 DEF S, Claims, CommentsOf
<1>3. next = {FirstOf(w) : w \in {v \in Claimants(ordered) : v # holder /\ Fresh(v, now)}}
  <2>1. ASSUME NEW i \in next
        PROVE  /\ i = FirstOf(WorkerOf(ordered[i])) /\ WorkerOf(ordered[i]) \in Claimants(ordered)
               /\ WorkerOf(ordered[i]) # holder /\ Fresh(WorkerOf(ordered[i]), now)
    <3>1. /\ i \in 1..Len(ordered) /\ ordered[i].action = "claim"
          /\ i = FirstOf(WorkerOf(ordered[i])) /\ WorkerOf(ordered[i]) # holder
          /\ FreshWorker(ordered, Len(ordered), WorkerOf(ordered[i]), now)
      BY DEF Successors, FirstOf
    <3>2. ordered[i] \in Comment
      BY <1>1, <3>1
    <3>3. WorkerOf(ordered[i]) \in Claimants(ordered)
      BY <3>1, <3>2 DEF Claimants, Claims, CommentsOf, Comment, WorkerOf, Worker
    <3>4. QED
      BY <1>2, <3>1, <3>3
  <2>2. ASSUME NEW w \in Claimants(ordered), w # holder, Fresh(w, now)
        PROVE  FirstOf(w) \in next
    BY <1>2, <2>2 DEF Successors, FirstOf
  <2> HIDE DEF next
  <2>3. QED
    BY <2>1, <2>2
<1>4. heirs = {i \in 1..Len(claimOrder) : claimOrder[i] # holder /\ Fresh(claimOrder[i], now)}
  BY <1>1 DEF Heirs
<1>5. next \in SUBSET Nat /\ heirs \in SUBSET Nat
  BY <1>2, <1>3, <1>4
<1> HIDE DEF next, heirs
<1>6. heirs = {} <=> next = {}
  <2>1. \A i \in heirs : claimOrder[i] \in Claimants(ordered) /\ FirstOf(claimOrder[i]) \in next
    BY <1>1, <1>3, <1>4 DEF Range
  <2>2. \A i \in next : \E j \in heirs : TRUE
    BY <1>1, <1>3, <1>4 DEF Range
  <2>3. QED
    BY <2>1, <2>2
<1> DEFINE n == CHOOSE i \in next : \A j \in next : i <= j
<1> DEFINE k == CHOOSE i \in heirs : \A j \in heirs : i <= j
<1>7. ASSUME heirs # {}
      PROVE  claimOrder[k] = WorkerOf(ordered[n])
  <2>1. n \in next /\ \A j \in next : n <= j
    <3>1. \E i \in next : \A j \in next : i <= j
      BY <1>5, <1>6, <1>7, NatMin
    <3>2. QED
      BY <3>1
  <2>2. k \in heirs /\ \A j \in heirs : k <= j
    <3>1. \E i \in heirs : \A j \in heirs : i <= j
      BY <1>5, <1>7, NatMin
    <3>2. QED
      BY <3>1
  <2> HIDE DEF n, k
  <2>3. PICK v \in Claimants(ordered) : n = FirstOf(v) /\ v # holder /\ Fresh(v, now)
    BY <1>3, <2>1
  <2>4. claimOrder[k] \in Claimants(ordered) /\ FirstOf(claimOrder[k]) \in next
        /\ k \in 1..Len(claimOrder)
    BY <1>1, <1>3, <1>4, <2>2 DEF Range
  <2>5. ~(FirstOf(v) < FirstOf(claimOrder[k]))
    <3>1. SUFFICES ASSUME FirstOf(v) < FirstOf(claimOrder[k]) PROVE FALSE
      OBVIOUS
    <3>2. PICK j \in 1..(k - 1) : claimOrder[j] = v
      BY <1>1, <2>3, <2>4, <3>1 DEF ByFirstClaim, FirstOf
    <3>3. j \in heirs /\ j < k
      BY <1>1, <1>4, <2>3, <2>4, <3>2
    <3>4. QED
      BY <1>5, <2>2, <3>3
  <2>6. FirstOf(claimOrder[k]) = n
    BY <1>2, <2>1, <2>3, <2>4, <2>5
  <2>7. QED
    BY <1>2, <2>4, <2>6
<1>8. QED
  BY <1>6, <1>7 DEF n, k, next, heirs

Step(seq, x, kept, i) ==
  IF i = 0 THEN <<>> ELSE IF seq[i] = x THEN kept[i-1] ELSE Append(kept[i-1], seq[i])

\* The filter has a value for every prefix.
LEMMA KeptDef ==
  ASSUME NEW S, NEW seq \in Seq(S), NEW x
  PROVE  Kept(seq, x) = [i \in 0..Len(seq) |-> Step(seq, x, Kept(seq, x), i)]
<1> DEFINE IsKept(f, m) == f = [i \in 0..m |-> Step(seq, x, f, i)]
<1> DEFINE Bad == {m \in 0..Len(seq) : ~ \E f : IsKept(f, m)}
<1>1. Bad = {}
  <2>1. SUFFICES ASSUME Bad # {} PROVE FALSE
    OBVIOUS
  <2>2. PICK m \in Bad : \A k \in Bad : m <= k
    <3>1. Bad \in SUBSET Nat
      OBVIOUS
    <3> HIDE DEF Bad
    <3>2. QED
      BY <2>1, <3>1, NatMin
  <2>3. m # 0
    <3>1. IsKept([i \in 0..0 |-> <<>>], 0)
      BY DEF Step
    <3>2. QED
      BY <3>1
  <2>4. PICK f : IsKept(f, m-1)
    <3>1. m-1 \in 0..Len(seq) /\ m-1 \notin Bad
      BY <2>2, <2>3
    <3>2. QED
      BY <3>1
  <2> DEFINE g == [i \in 0..m |-> IF i = m THEN Step(seq, x, f, m) ELSE f[i]]
  <2>5. ASSUME NEW i \in 0..m
        PROVE  g[i] = Step(seq, x, g, i)
    <3>1. i # 0 => g[i-1] = f[i-1]
      BY <2>3
    <3>2. Step(seq, x, g, i) = Step(seq, x, f, i)
      BY <3>1 DEF Step
    <3>3. CASE i = m
      BY <3>2, <3>3
    <3>4. CASE i # m
      <4>1. i \in 0..(m-1) /\ g[i] = f[i]
        BY <3>4
      <4>2. f[i] = Step(seq, x, f, i)
        BY <2>4, <4>1
      <4>3. QED
        BY <3>2, <4>1, <4>2
    <3>5. QED
      BY <3>3, <3>4
  <2>6. IsKept(g, m)
    <3>1. g = [i \in 0..m |-> g[i]]
      OBVIOUS
    <3> HIDE DEF g
    <3>2. QED
      BY <3>1, <2>5
  <2>7. QED
    BY <2>6
<1>2. \E f : IsKept(f, Len(seq))
  BY <1>1
<1>3. Kept(seq, x) = CHOOSE f : IsKept(f, Len(seq))
  BY DEF Kept, Step
<1>4. IsKept(Kept(seq, x), Len(seq))
  <2> HIDE DEF IsKept
  <2>1. QED
    BY <1>2, <1>3
<1>5. QED
  BY <1>4

\* What is left of the first n of a list without a login: every other entry, in
\* the same order.
Holds(t, y) == \E i \in 1..Len(t) : t[i] = y
InOrder(seq, t, n) ==
  \A i, j \in 1..Len(t) : i < j =>
    \E k, l \in 1..n : k < l /\ t[i] = seq[k] /\ t[j] = seq[l]
Filtered(S, seq, x, t, n) ==
  /\ t \in Seq(S)
  /\ \A y : Holds(t, y) <=> y # x /\ \E i \in 1..n : seq[i] = y
  /\ InOrder(seq, t, n)

LEMMA FilterMore ==
  ASSUME NEW S, NEW seq \in Seq(S), NEW x, NEW n \in 1..Len(seq), NEW t,
         Filtered(S, seq, x, t, n-1)
  PROVE  Filtered(S, seq, x, IF seq[n] = x THEN t ELSE Append(t, seq[n]), n)
<1>1. /\ t \in Seq(S) /\ Len(t) \in Nat /\ n \in Nat /\ seq[n] \in S
      /\ \A y : Holds(t, y) <=> y # x /\ \E i \in 1..(n-1) : seq[i] = y
      /\ InOrder(seq, t, n-1)
  BY DEF Filtered
<1>2. \A i : i \in 1..n <=> i \in 1..(n-1) \/ i = n
  BY <1>1
<1>3. InOrder(seq, t, n)
  BY <1>1, <1>2 DEF InOrder
<1>4. CASE seq[n] = x
  BY <1>1, <1>2, <1>3, <1>4 DEF Filtered
<1>5. CASE seq[n] # x
  <2> DEFINE u == Append(t, seq[n])
  <2>1. /\ u \in Seq(S) /\ Len(u) = Len(t) + 1 /\ u[Len(t) + 1] = seq[n]
        /\ \A i \in 1..Len(t) : u[i] = t[i]
    BY <1>1
  <2> HIDE DEF u
  <2>2. \A i : i \in 1..Len(u) <=> i \in 1..Len(t) \/ i = Len(t) + 1
    BY <1>1, <2>1
  <2>3. \A y : Holds(u, y) <=> Holds(t, y) \/ y = seq[n]
    BY <2>1, <2>2 DEF Holds
  <2>4. \A y : Holds(u, y) <=> y # x /\ \E i \in 1..n : seq[i] = y
    BY <1>1, <1>2, <1>5, <2>3
  <2>5. ASSUME NEW i \in 1..Len(u), NEW j \in 1..Len(u), i < j
        PROVE  \E k, l \in 1..n : k < l /\ u[i] = seq[k] /\ u[j] = seq[l]
    <3>1. i \in 1..Len(t) /\ u[i] = t[i] /\ (j \in 1..Len(t) \/ j = Len(t) + 1)
      BY <1>1, <2>1, <2>5
    <3>2. CASE j \in 1..Len(t)
      BY <1>3, <2>1, <2>5, <3>1, <3>2 DEF InOrder
    <3>3. CASE j = Len(t) + 1
      <4>1. Holds(t, t[i])
        BY <3>1 DEF Holds
      <4>2. PICK k \in 1..(n-1) : seq[k] = t[i]
        BY <1>1, <4>1
      <4>3. k \in 1..n /\ n \in 1..n /\ k < n
        BY <1>1
      <4>4. QED
        BY <2>1, <3>1, <3>3, <4>2, <4>3
    <3>4. QED
      BY <3>1, <3>2, <3>3
  <2>6. InOrder(seq, u, n)
    BY <2>5 DEF InOrder
  <2>7. Filtered(S, seq, x, u, n)
    BY <2>1, <2>4, <2>6 DEF Filtered
  <2>8. QED
    BY <1>5, <2>7 DEF u
<1>6. QED
  BY <1>4, <1>5

LEMMA WithoutKeeps ==
  ASSUME NEW S, NEW seq \in Seq(S), NEW x
  PROVE  Filtered(S, seq, x, Without(seq, x), Len(seq))
<1> DEFINE kept == Kept(seq, x)
<1> DEFINE Bad == {n \in 0..Len(seq) : ~Filtered(S, seq, x, kept[n], n)}
<1>1. \A n \in 0..Len(seq) : kept[n] = Step(seq, x, kept, n)
  <2>1. kept = [i \in 0..Len(seq) |-> Step(seq, x, kept, i)]
    BY KeptDef
  <2> HIDE DEF kept
  <2>2. QED
    BY <2>1
<1> HIDE DEF kept
<1>2. Len(seq) \in Nat
  OBVIOUS
<1>3. Bad = {}
  <2>1. SUFFICES ASSUME Bad # {} PROVE FALSE
    OBVIOUS
  <2>2. PICK m \in Bad : \A k \in Bad : m <= k
    <3>1. Bad \in SUBSET Nat
      OBVIOUS
    <3> HIDE DEF Bad
    <3>2. QED
      BY <2>1, <3>1, NatMin
  <2>3. m \in 0..Len(seq) /\ ~Filtered(S, seq, x, kept[m], m)
    BY <2>2
  <2>4. m # 0
    <3>1. SUFFICES ASSUME m = 0 PROVE FALSE
      OBVIOUS
    <3>2. kept[0] = <<>>
      BY <1>1, <1>2 DEF Step
    <3>3. <<>> \in Seq(S) /\ Len(<<>>) = 0 /\ \A i : i \notin 1..0
      OBVIOUS
    <3>4. QED
      BY <2>3, <3>1, <3>2, <3>3 DEF Filtered, Holds, InOrder
  <2>5. m \in 1..Len(seq) /\ m-1 \in 0..Len(seq) /\ m-1 \notin Bad
    BY <1>2, <2>2, <2>3, <2>4
  <2>6. Filtered(S, seq, x, kept[m-1], m-1)
    BY <2>5
  <2>7. kept[m] = IF seq[m] = x THEN kept[m-1] ELSE Append(kept[m-1], seq[m])
    BY <1>1, <2>3, <2>4 DEF Step
  <2>8. Filtered(S, seq, x, kept[m], m)
    BY <2>5, <2>6, <2>7, FilterMore
  <2>9. QED
    BY <2>3, <2>8
<1>4. QED
  BY <1>2, <1>3 DEF Without, kept

LEMMA AnswerDecides ==
  ASSUME LoopInv, NEW now
  PROVE  /\ Answer(now).holder = Decide(ordered, Len(ordered), now).holder
         /\ Answer(now).reason = Decide(ordered, Len(ordered), now).reason
<1>1. holder = HolderAfter(ordered)[Len(ordered)] /\ ordered \in Seq(Comment)
  BY DEF LoopInv, HolderIsFold, LoopTypeOK
<1>2. holder # NoWorker => Fresh(holder, now) = FreshWorker(ordered, Len(ordered), holder, now)
  <2>1. ASSUME holder # NoWorker PROVE CommentsOf(ordered, Len(ordered), holder) # {}
    BY <1>1, <2>1, HolderClaimed DEF Claimant, CommentsOf
  <2>2. QED
    BY <2>1, FreshIsFresh
<1> DEFINE next == Successors(ordered, Len(ordered), holder, now)
<1>3. /\ Heirs(now) = {} <=> next = {}
      /\ Heirs(now) # {} =>
           claimOrder[CHOOSE i \in Heirs(now) : \A j \in Heirs(now) : i <= j]
             = WorkerOf(ordered[CHOOSE i \in next : \A j \in next : i <= j])
  BY FirstHeir
<1>4. QED
  BY <1>1, <1>2, <1>3 DEF Answer, Told, Decide

\* The loop of decide_lease decides what Decide says, for every thread and clock.
THEOREM LoopIsDecide == Spec => []LoopDecides
<1>1. LoopInv => LoopDecides
  BY AnswerDecides DEF LoopDecides
<1>2. QED
  BY <1>1, LoopInvariant, PTL

\* The answer's superseded list holds the logins that lost a claim, in the order
\* they first did, and not the heir's.
THEOREM SupersededIsLost == Spec => []SupersededLost
<1>1. ASSUME LoopInv, NEW now \in Clock
      PROVE  LET told == Answer(now)
                 heir == IF told.reason = "reclaimed" THEN {told.holder[1]} ELSE {}
             IN  /\ Range(told.superseded) = Lost(ordered) \ heir
                 /\ ByFirstLoss(ordered, told.superseded)
  <2> DEFINE told == Answer(now)
  <2> DEFINE heir == IF told.reason = "reclaimed" THEN {told.holder[1]} ELSE {}
  <2>1. /\ superseded \in Seq(Login) /\ Range(superseded) = Lost(ordered)
        /\ ByFirstLoss(ordered, superseded)
    BY <1>1 DEF LoopInv, LoopTypeOK
  <2>2. \/ told.reason # "reclaimed" /\ told.superseded = superseded
        \/ told.reason = "reclaimed" /\ told.superseded = Without(superseded, told.holder[1])
    BY DEF Answer, Told
  <2> HIDE DEF told
  <2>3. CASE told.reason # "reclaimed" /\ told.superseded = superseded
    <3>1. heir = {}
      BY <2>3
    <3> HIDE DEF heir
    <3>2. Range(told.superseded) = Lost(ordered) \ heir /\ ByFirstLoss(ordered, told.superseded)
      BY <2>1, <2>3, <3>1
    <3>3. QED
      BY <3>2 DEF heir, told
  <2>4. CASE told.reason = "reclaimed" /\ told.superseded = Without(superseded, told.holder[1])
    <3> DEFINE left == told.superseded
    <3>1. Filtered(Login, superseded, told.holder[1], left, Len(superseded))
      BY <2>1, <2>4, WithoutKeeps
    <3>2. left \in Seq(Login) /\ InOrder(superseded, left, Len(superseded))
          /\ \A y : Holds(left, y)
               <=> y # told.holder[1] /\ \E i \in 1..Len(superseded) : superseded[i] = y
      BY <3>1 DEF Filtered
    <3>3. DOMAIN left = 1..Len(left) /\ DOMAIN superseded = 1..Len(superseded)
      BY <2>1, <3>2
    <3>4. Range(left) = Range(superseded) \ {told.holder[1]}
      <4>1. \A y : y \in Range(left) <=> Holds(left, y)
        BY <3>3 DEF Range, Holds
      <4>2. \A y : y \in Range(superseded) <=> \E i \in 1..Len(superseded) : superseded[i] = y
        BY <3>3 DEF Range
      <4> HIDE DEF left
      <4>3. \A y : y \in Range(left) <=> y \in Range(superseded) /\ y # told.holder[1]
        BY <3>2, <4>1, <4>2, Zenon
      <4>4. QED
        BY <4>3
    <3>5. Len(superseded) \in Nat
      BY <2>1
    <3>6. ByFirstLoss(ordered, left)
      BY <2>1, <3>2 DEF ByFirstLoss, InOrder
    <3>7. heir = {told.holder[1]}
      BY <2>4
    <3> HIDE DEF heir
    <3>8. Range(told.superseded) = Lost(ordered) \ heir /\ ByFirstLoss(ordered, told.superseded)
      BY <2>1, <3>4, <3>6, <3>7
    <3>9. QED
      BY <3>8 DEF heir, told
  <2>5. QED
    BY <2>2, <2>3, <2>4 DEF told
<1>2. LoopInv => SupersededLost
  BY <1>1 DEF SupersededLost, Lost, ByFirstLoss
<1>3. QED
  BY <1>2, LoopInvariant, PTL
=============================================================================
