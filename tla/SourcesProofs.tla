--------------------------- MODULE SourcesProofs ---------------------------
(***************************************************************************)
(* What the scanners make of a text of any length, in any of the three     *)
(* provers' languages: the tokens they blank, the lines they read nothing  *)
(* from, and the scopes they put the declarations in.                      *)
(***************************************************************************)
EXTENDS Sources, FiniteSetTheorems, WellFoundedInduction, TLAPS

\* What a file of any kit may hold, and the parts a token may belong to.
Tokens ==
  (UNION {k.tokens : k \in Kits})
    \cup {"sp", "nl", "kw", "f", "w", "v", "let", ":=", "where", "|", "=>", ".", "by", "..", "cmd",
          "module", "section", "locale", "begin", "end", "in", "-", "A", "B", "<o>", "<c>"}
Parts == {"head", "stmt", "proof", "after"}

LEMMA RealTokens == \A tok \in Tokens : tok # None
<1>1. ASSUME NEW k \in Kits, NEW tok \in k.tokens PROVE tok # None
  BY KitsAssumption
<1>2. \A tok \in UNION {k.tokens : k \in Kits} : tok # None
  BY <1>1
<1>3. QED
  BY <1>2 DEF Tokens, None

-----------------------------------------------------------------------------
(* Least positions, and recursions along a text.                           *)

LEMMA LeastNat ==
  ASSUME NEW T \in SUBSET Nat, T # {}
  PROVE  \E m \in T : \A k \in T : m <= k
<1>1. PICK m \in T : \A k \in T : <<k, m>> \notin OpToRel(<, Nat)
  BY WFMin, NatLessThanWellFounded
<1>2. \A k \in T : ~(k < m)
  BY <1>1 DEF OpToRel
<1>3. QED
  BY <1>2

LEMMA MinIs ==
  ASSUME NEW T \in SUBSET Nat, T # {}
  PROVE  Min(T) \in T /\ \A k \in T : Min(T) <= k
<1>1. \E m \in T : \A k \in T : m =< k
  BY LeastNat
<1>2. QED
  BY <1>1 DEF Min

Steps(f, a, b, v0, step) ==
  \A k \in a..b : f[k] = IF k = a THEN v0 ELSE step[<<f[k - 1], k>>]

\* A state per position, each from the one before: there is such a function.
LEMMA StepDef ==
  ASSUME NEW a \in Nat, NEW b \in Nat, NEW V, NEW v0 \in V,
         NEW step \in [V \X (a..b) -> V]
  PROVE  \E f : f \in [a..b -> V] /\ Steps(f, a, b, v0, step)
<1> DEFINE Is(f, m) == /\ f \in [a..m -> V]
                       /\ \A k \in a..m : f[k] = IF k = a THEN v0 ELSE step[<<f[k - 1], k>>]
<1> DEFINE Bad == {m \in a..b : ~ \E f : Is(f, m)}
<1>1. Bad = {}
  <2>1. SUFFICES ASSUME Bad # {} PROVE FALSE
    OBVIOUS
  <2>2. PICK m \in Bad : \A k \in Bad : m <= k
    <3>1. Bad \in SUBSET Nat
      OBVIOUS
    <3> HIDE DEF Bad
    <3>2. QED
      BY <2>1, <3>1, LeastNat
  <2>3. m \in a..b /\ ~ \E f : Is(f, m)
    OBVIOUS
  <2>4. m # a
    <3>1. Is([k \in a..a |-> v0], a)
      OBVIOUS
    <3>2. QED
      BY <2>3, <3>1
  <2>5. PICK f : Is(f, m - 1)
    <3>1. m - 1 \in a..b /\ m - 1 \notin Bad
      <4> HIDE DEF Bad, Is
      <4>1. QED
        BY <2>2, <2>3, <2>4
    <3> HIDE DEF Is
    <3>2. \E f : Is(f, m - 1)
      BY <3>1
    <3> HIDE DEF Bad
    <3>3. QED
      BY <3>1, <3>2
  <2> DEFINE g == [k \in a..m |-> IF k = m THEN step[<<f[m - 1], m>>] ELSE f[k]]
  <2>6. f[m - 1] \in V /\ step[<<f[m - 1], m>>] \in V
    BY <2>3, <2>4, <2>5
  <2>7. \A k \in a..(m - 1) : g[k] = f[k] /\ f[k] \in V
    BY <2>3, <2>4, <2>5
  <2>8. g[m] = step[<<f[m - 1], m>>]
    BY <2>3
  <2>9. g \in [a..m -> V]
    <3>2. g = [k \in a..m |-> g[k]]
      OBVIOUS
    <3> HIDE DEF g
    <3>1. \A k \in a..m : g[k] \in V
      <4>1. \A k \in a..m : k = m \/ k \in a..(m - 1)
        BY <2>3
      <4>2. QED
        BY <2>6, <2>7, <2>8, <4>1
    <3>3. QED
      BY <3>1, <3>2
  <2>10. \A k \in a..m : g[k] = IF k = a THEN v0 ELSE step[<<g[k - 1], k>>]
    <3> SUFFICES ASSUME NEW k \in a..m
                 PROVE  g[k] = IF k = a THEN v0 ELSE step[<<g[k - 1], k>>]
      OBVIOUS
    <3> HIDE DEF g
    <3>1. CASE k = m
      <4>1. m - 1 \in a..(m - 1)
        BY <2>3, <2>4
      <4>2. g[m - 1] = f[m - 1]
        BY <2>7, <4>1
      <4>3. QED
        BY <2>4, <2>8, <3>1, <4>2
    <3>2. CASE k # m
      <4>1. k \in a..(m - 1) /\ (k # a => k - 1 \in a..(m - 1))
        BY <2>3, <3>2
      <4>2. g[k] = f[k] /\ (k # a => g[k - 1] = f[k - 1])
        BY <2>7, <4>1
      <4>3. f[k] = IF k = a THEN v0 ELSE step[<<f[k - 1], k>>]
        BY <2>5, <4>1
      <4>4. QED
        BY <4>2, <4>3
    <3>3. QED
      BY <3>1, <3>2
  <2>11. Is(g, m)
    BY <2>9, <2>10
  <2>12. QED
    BY <2>3, <2>11
<1>2. CASE a <= b
  <2>1. b \in a..b
    BY <1>2
  <2>2. b \notin Bad
    BY <1>1
  <2>3. QED
    BY <2>1, <2>2 DEF Steps
<1>3. CASE a > b
  <2>1. a..b = {}
    BY <1>3
  <2>2. [k \in a..b |-> v0] \in [a..b -> V]
    OBVIOUS
  <2>3. QED
    BY <2>1, <2>2 DEF Steps
<1>4. QED
  BY <1>2, <1>3

Jumps(f, N, next, B) == f = [i \in 1..(N + 1) |-> IF i > N THEN {} ELSE f[next[i]] \cup B[i]]

\* The same, where what a position gets depends on one further on.
LEMMA JumpDef ==
  ASSUME NEW N \in Nat, NEW next, NEW B,
         \A i \in 1..N : next[i] \in (i + 1)..(N + 1)
  PROVE  \E f : Jumps(f, N, next, B)
<1> DEFINE Is(f, m) ==
      f = [i \in m..(N + 1) |-> IF i > N THEN {} ELSE f[next[i]] \cup B[i]]
<1> DEFINE Bad == {m \in 0..N : ~ \E f : Is(f, N + 1 - m)}
<1>1. Bad = {}
  <2>1. SUFFICES ASSUME Bad # {} PROVE FALSE
    OBVIOUS
  <2>2. PICK m \in Bad : \A k \in Bad : m <= k
    <3>1. Bad \in SUBSET Nat
      OBVIOUS
    <3> HIDE DEF Bad
    <3>2. QED
      BY <2>1, <3>1, LeastNat
  <2>3. m \in 0..N /\ ~ \E f : Is(f, N + 1 - m)
    OBVIOUS
  <2>4. m # 0
    <3> DEFINE e == [i \in (N + 1)..(N + 1) |-> {}]
    <3>1. Is(e, N + 1)
      <4>0. e = [i \in (N + 1)..(N + 1) |-> e[i]]
        OBVIOUS
      <4>1. \A i \in (N + 1)..(N + 1) : e[i] = {}
        OBVIOUS
      <4>2. \A i \in (N + 1)..(N + 1) : i > N
        OBVIOUS
      <4> HIDE DEF e
      <4>3. ASSUME NEW i \in (N + 1)..(N + 1)
            PROVE  e[i] = IF i > N THEN {} ELSE e[next[i]] \cup B[i]
        BY <4>1, <4>2
      <4>4. QED
        BY <4>0, <4>3
    <3>2. \E f : Is(f, N + 1)
      BY <3>1
    <3>3. m = 0 => N + 1 - m = N + 1
      OBVIOUS
    <3> HIDE DEF Is
    <3>4. QED
      BY <2>3, <3>2, <3>3
  <2> DEFINE j == N + 1 - m
  <2>5. j \in 1..N
    BY <2>3, <2>4
  <2>6. PICK f : Is(f, j + 1)
    <3>1. m - 1 \in 0..N /\ m - 1 \notin Bad /\ N + 1 - (m - 1) = j + 1
      <4> HIDE DEF Bad, Is
      <4>1. QED
        BY <2>2, <2>3, <2>4
    <3> HIDE DEF Is
    <3>2. \E f : Is(f, N + 1 - (m - 1))
      BY <3>1
    <3> HIDE DEF Bad
    <3>3. QED
      BY <3>1, <3>2
  <2>7. ~ \E h : Is(h, j)
    BY <2>3
  <2> HIDE DEF j
  <2> DEFINE g == [i \in j..(N + 1) |-> IF i = j THEN f[next[j]] \cup B[j] ELSE f[i]]
  <2>8. \A i \in (j + 1)..(N + 1) : f[i] = IF i > N THEN {} ELSE f[next[i]] \cup B[i]
    BY <2>6
  <2>9. \A i \in (j + 1)..(N + 1) : g[i] = f[i]
    BY <2>5
  <2>10. ASSUME NEW i \in j..(N + 1)
         PROVE  g[i] = IF i > N THEN {} ELSE g[next[i]] \cup B[i]
    <3>1. i \in 1..N => next[i] \in (j + 1)..(N + 1)
      BY <2>5
    <3>2. CASE i = j
      <4>1. g[i] = f[next[i]] \cup B[i]
        BY <2>5, <3>2
      <4>2. g[next[i]] = f[next[i]]
        BY <2>5, <2>9, <3>1, <3>2
      <4> HIDE DEF g
      <4>3. QED
        BY <2>5, <3>2, <4>1, <4>2
    <3>3. CASE i # j
      <4>1. i \in (j + 1)..(N + 1)
        BY <2>5, <3>3
      <4>2. g[i] = f[i] /\ (i \in 1..N => g[next[i]] = f[next[i]])
        BY <2>9, <3>1, <4>1
      <4>3. i > N \/ i \in 1..N
        BY <2>5
      <4> HIDE DEF g
      <4>4. QED
        BY <2>8, <4>1, <4>2, <4>3
    <3>4. QED
      BY <3>2, <3>3
  <2>11. Is(g, j)
    <3>1. g = [i \in j..(N + 1) |-> g[i]]
      OBVIOUS
    <3> HIDE DEF g
    <3>2. QED
      BY <2>10, <3>1
  <2>12. QED
    BY <2>7, <2>11
<1>2. N \in 0..N /\ N + 1 - N = 1
  OBVIOUS
<1>3. N \notin Bad
  BY <1>1
<1>4. QED
  BY <1>2, <1>3 DEF Jumps

-----------------------------------------------------------------------------
(* Where a span ends.                                                      *)

Up(n, open, close, tok) == IF tok = open THEN n + 1 ELSE IF tok = close THEN n - 1 ELSE n

\* The depth of a nesting goes up with every open and down with every close.
Depths(g, t, i, N, open, close) ==
  \A k \in i..N : g[k] = IF k = i THEN 1 ELSE Up(g[k - 1], open, close, t[k])

LEMMA DepthDef ==
  ASSUME NEW t, NEW i \in Nat, NEW N \in Nat, NEW open, NEW close
  PROVE  \E g : g \in [i..N -> Int] /\ Depths(g, t, i, N, open, close)
<1> DEFINE Z == Int
<1> DEFINE one == 1
<1> DEFINE step == [z \in Z \X (i..N) |-> Up(z[1], open, close, t[z[2]])]
<1>1. step \in [Z \X (i..N) -> Z]
  <2>1. \A z \in Z \X (i..N) : Up(z[1], open, close, t[z[2]]) \in Z
    BY DEF Up
  <2>2. QED
    BY <2>1
<1>2. \A n \in Z, k \in i..N : step[<<n, k>>] = Up(n, open, close, t[k])
  OBVIOUS
<1>3. one \in Z
  OBVIOUS
<1> HIDE DEF step, Z, one
<1>5. PICK g : g \in [i..N -> Z] /\ Steps(g, i, N, one, step)
  BY <1>1, <1>3, StepDef
<1>6. ASSUME NEW k \in i..N
      PROVE  g[k] = IF k = i THEN one ELSE Up(g[k - 1], open, close, t[k])
  <2>1. CASE k = i
    BY <1>5, <2>1 DEF Steps
  <2>2. CASE k # i
    <3>1. k - 1 \in i..N
      BY <2>2
    <3>2. g[k] = step[<<g[k - 1], k>>] /\ g[k - 1] \in Z
      BY <1>5, <2>2, <3>1 DEF Steps
    <3>3. QED
      BY <1>2, <2>2, <3>2
  <2>3. QED
    BY <2>1, <2>2
<1>7. QED
  BY <1>5, <1>6 DEF Z, one, Depths

Nested(D, t, i, N, open, close, n) ==
  /\ Depths(D, t, i, N, open, close)
  /\ \A k \in i..N : D[k] \in Int
  /\ \/ n = N + 1 /\ \A k \in i..N : D[k] # 0
     \/ /\ n - 1 \in i..N /\ n \in Nat /\ D[n - 1] = 0
        /\ \A k \in i..(n - 2) : D[k] # 0

LEMMA NestDef ==
  ASSUME NEW t \in Seq(Tokens), NEW i \in 1..Len(t), NEW open, NEW close, NEW n,
         n = NestEnd(t, i, open, close)
  PROVE  \E D : Nested(D, t, i, Len(t), open, close, n)
<1> DEFINE N == Len(t)
<1> DEFINE Is(f) == f = [k \in i..N |->
        IF k = i THEN 1
        ELSE IF t[k] = open THEN f[k - 1] + 1
        ELSE IF t[k] = close THEN f[k - 1] - 1 ELSE f[k - 1]]
<1>0. N \in Nat /\ i \in Nat /\ i <= N
  OBVIOUS
<1> HIDE DEF N
<1>1. PICK g : g \in [i..N -> Int] /\ Depths(g, t, i, N, open, close)
  BY <1>0, DepthDef
<1>2. \E f : Is(f)
  <2>1. g = [k \in i..N |-> g[k]]
    BY <1>1
  <2>2. Is(g)
    BY <1>1, <2>1 DEF Up, Depths
  <2>3. QED
    BY <2>2
<1> DEFINE D == CHOOSE f : Is(f)
<1>3. Is(D)
  <2> HIDE DEF Is
  <2>1. QED
    BY <1>2
<1> DEFINE closed == {k \in i..N : D[k] = 0}
<1>4. n = IF closed = {} THEN N + 1 ELSE Min(closed) + 1
  BY DEF NestEnd, N
<1> HIDE DEF D
<1>5. \A k \in i..N : D[k] = IF k = i THEN 1 ELSE Up(D[k - 1], open, close, t[k])
  BY <1>3 DEF Up
<1>51. Depths(D, t, i, N, open, close)
  BY <1>5 DEF Depths
<1>6. \A k \in i..N : D[k] \in Int
  <2> DEFINE Bad == {k \in i..N : D[k] \notin Int}
  <2>1. SUFFICES ASSUME Bad # {} PROVE FALSE
    OBVIOUS
  <2>2. PICK m \in Bad : \A k \in Bad : m <= k
    <3>1. Bad \in SUBSET Nat
      BY <1>0
    <3> HIDE DEF Bad
    <3>2. QED
      BY <2>1, <3>1, LeastNat
  <2>3. m # i
    BY <1>5
  <2>4. m - 1 \in i..N /\ m - 1 \notin Bad
    BY <1>0, <2>2, <2>3
  <2>5. D[m - 1] \in Int /\ D[m] = Up(D[m - 1], open, close, t[m])
    BY <1>5, <2>3, <2>4
  <2>6. QED
    BY <2>5 DEF Up
<1>7. CASE closed = {}
  BY <1>0, <1>4, <1>51, <1>6, <1>7 DEF N, Nested
<1>8. CASE closed # {}
  <2> DEFINE c == Min(closed)
  <2>1. c \in closed /\ \A k \in closed : c <= k
    <3>1. closed \in SUBSET Nat
      BY <1>0
    <3> HIDE DEF closed
    <3>2. QED
      BY <1>8, <3>1, MinIs
  <2>2. n = c + 1
    BY <1>4, <1>8
  <2> HIDE DEF c
  <2>3. c \in i..N /\ D[c] = 0 /\ \A k \in i..(c - 1) : D[k] # 0
    BY <1>0, <2>1
  <2>4. n - 1 = c /\ n - 2 = c - 1 /\ n \in Nat
    BY <1>0, <2>2, <2>3
  <2>5. n - 1 \in i..N /\ D[n - 1] = 0 /\ \A k \in i..(n - 2) : D[k] # 0
    BY <2>3, <2>4
  <2>6. QED
    BY <1>51, <1>6, <2>4, <2>5 DEF N, Nested
<1>9. QED
  BY <1>7, <1>8

LEMMA NestRange ==
  ASSUME NEW t \in Seq(Tokens), NEW i \in 1..Len(t), NEW open, NEW close
  PROVE  NestEnd(t, i, open, close) \in (i + 1)..(Len(t) + 1)
<1> DEFINE n == NestEnd(t, i, open, close)
<1>1. PICK D : Nested(D, t, i, Len(t), open, close, n)
  BY NestDef, Zenon
<1> HIDE DEF n
<1>2. n \in (i + 1)..(Len(t) + 1)
  BY <1>1 DEF Nested
<1>3. QED
  BY <1>2 DEF n

\* A span ends before n: the lexer is in it until then, and afterwards in code.
Leaves(w, u, i, n, N) ==
  /\ \A k \in i..(n - 2) : w[k] = u
  /\ n = N + 1 \/ w[n - 1] = "code"

InNest(t, i, open, close, u, w, d) ==
  /\ w[i] = u
  /\ d[i] = 1
  /\ \A k \in (i + 1)..Len(t) : w[k - 1] = u =>
       /\ d[k] = Up(d[k - 1], open, close, t[k])
       /\ w[k] = IF d[k] = 0 THEN "code" ELSE u

\* A lexer that is in a nesting from i on, one token at a time, leaves it where
\* NestEnd says, or never.
LEMMA NestSpan ==
  ASSUME NEW t \in Seq(Tokens), NEW i \in 1..Len(t), NEW open, NEW close,
         NEW u, u # "code", NEW w, NEW d, InNest(t, i, open, close, u, w, d),
         NEW n, n = NestEnd(t, i, open, close)
  PROVE  Leaves(w, u, i, n, Len(t))
<1> DEFINE N == Len(t)
<1>0. N \in Nat /\ i \in Nat /\ i <= N
  OBVIOUS
<1>9. PICK D : Nested(D, t, i, N, open, close, n)
  BY NestDef, Zenon
<1>1. /\ \A k \in i..N : D[k] = IF k = i THEN 1 ELSE Up(D[k - 1], open, close, t[k])
      /\ \/ n = N + 1 /\ \A k \in i..N : D[k] # 0
         \/ /\ n - 1 \in i..N /\ n \in Nat /\ D[n - 1] = 0
            /\ \A k \in i..(n - 2) : D[k] # 0
  BY <1>9 DEF Nested, Depths
<1> HIDE DEF N, Leaves
<1>02. w[i] = u /\ d[i] = 1
  BY DEF InNest
<1>2. \A k \in (i + 1)..N : w[k - 1] = u =>
        /\ d[k] = Up(d[k - 1], open, close, t[k])
        /\ w[k] = IF d[k] = 0 THEN "code" ELSE u
  BY DEF N, InNest
<1>3. ASSUME NEW c \in i..N, \A j \in i..c : D[j] # 0
      PROVE  \A k \in i..c : w[k] = u /\ d[k] = D[k]
  <2> DEFINE Bad == {k \in i..c : ~(w[k] = u /\ d[k] = D[k])}
  <2>1. SUFFICES ASSUME Bad # {} PROVE FALSE
    OBVIOUS
  <2>2. PICK m \in Bad : \A k \in Bad : m <= k
    <3>1. Bad \in SUBSET Nat
      BY <1>0
    <3> HIDE DEF Bad
    <3>2. QED
      BY <2>1, <3>1, LeastNat
  <2>3. m # i
    BY <1>0, <1>02, <1>1
  <2>4. m - 1 \in i..c /\ m - 1 \notin Bad /\ m \in (i + 1)..N /\ m \in i..c /\ m \in i..N
    BY <1>0, <2>2, <2>3
  <2>5. w[m - 1] = u /\ d[m - 1] = D[m - 1]
    BY <2>4
  <2>6. D[m] = Up(D[m - 1], open, close, t[m])
    BY <1>1, <2>3, <2>4
  <2>7. d[m] = D[m] /\ w[m] = IF d[m] = 0 THEN "code" ELSE u
    BY <1>2, <2>4, <2>5, <2>6
  <2>8. D[m] # 0
    BY <1>3, <2>4
  <2>9. QED
    BY <2>2, <2>7, <2>8
<1>4. CASE n = N + 1 /\ \A k \in i..N : D[k] # 0
  <2>1. N \in i..N
    BY <1>0
  <2>2. \A k \in i..N : w[k] = u
    BY <1>3, <1>4, <2>1
  <2>3. n - 2 = N - 1 /\ n - 1 = N
    BY <1>0, <1>4
  <2>4. QED
    BY <1>0, <1>4, <2>1, <2>2, <2>3 DEF N, Leaves
<1>5. CASE /\ n - 1 \in i..N /\ n \in Nat /\ D[n - 1] = 0
           /\ \A k \in i..(n - 2) : D[k] # 0
  <2>1. n - 1 # i
    BY <1>0, <1>1, <1>5
  <2>2. n - 2 \in i..N /\ n - 1 \in (i + 1)..N /\ n - 2 \in i..(n - 2) /\ (n - 1) - 1 = n - 2
    BY <1>0, <1>5, <2>1
  <2>3. \A k \in i..(n - 2) : w[k] = u /\ d[k] = D[k]
    BY <1>3, <1>5, <2>2
  <2>4. D[n - 1] = Up(D[n - 2], open, close, t[n - 1])
    BY <1>1, <1>5, <2>1, <2>2
  <2>5. d[n - 1] = D[n - 1] /\ w[n - 1] = IF d[n - 1] = 0 THEN "code" ELSE u
    BY <1>2, <2>2, <2>3, <2>4
  <2>6. QED
    BY <1>0, <1>5, <2>2, <2>3, <2>5 DEF N, Leaves
<1>6. QED
  BY <1>1, <1>4, <1>5

\* A backslash escapes the token after it, unless it is escaped itself.
Escapes(E, t, i, N) ==
  \A k \in i..N : E[k] = (k > i /\ ~E[k - 1] /\ t[k] = "esc" /\ k < N)

LEMMA EscapeDef ==
  ASSUME NEW t, NEW i \in Nat, NEW N \in Nat
  PROVE  \E E : Escapes(E, t, i, N)
<1> DEFINE Escape(b, k) == ~b /\ t[k] = "esc" /\ k < N
<1> DEFINE step == [z \in BOOLEAN \X (i..N) |-> Escape(z[1], z[2])]
<1>1. step \in [BOOLEAN \X (i..N) -> BOOLEAN]
  <2>1. \A z \in BOOLEAN \X (i..N) : Escape(z[1], z[2]) \in BOOLEAN
    OBVIOUS
  <2> HIDE DEF Escape
  <2>2. QED
    BY <2>1
<1>2. \A b \in BOOLEAN, k \in i..N : step[<<b, k>>] = Escape(b, k)
  <2> HIDE DEF Escape
  <2>1. QED
    OBVIOUS
<1> HIDE DEF step
<1>3. PICK E : E \in [i..N -> BOOLEAN] /\ Steps(E, i, N, FALSE, step)
  BY <1>1, StepDef, Zenon
<1>4. ASSUME NEW k \in i..N
      PROVE  E[k] = (k > i /\ ~E[k - 1] /\ t[k] = "esc" /\ k < N)
  <2>1. CASE k = i
    <3>1. E[k] = FALSE
      BY <1>3, <2>1, Zenon DEF Steps
    <3>2. ~(k > i)
      BY <2>1
    <3>3. QED
      BY <3>1, <3>2, Zenon
  <2>2. CASE k # i
    <3>1. k - 1 \in i..N /\ k > i
      BY <2>2
    <3>2. E[k] = step[<<E[k - 1], k>>] /\ E[k - 1] \in BOOLEAN
      BY <1>3, <2>2, <3>1, Zenon DEF Steps
    <3>3. E[k] = Escape(E[k - 1], k)
      <4> HIDE DEF Escape
      <4>1. QED
        BY <1>2, <3>2, Zenon
    <3>4. QED
      BY <3>1, <3>3, Zenon
  <2>3. QED
    BY <2>1, <2>2
<1>5. QED
  BY <1>4, Zenon DEF Escapes

Quoted(E, t, i, N, n) ==
  /\ Escapes(E, t, i, N)
  /\ \/ n = N + 1 /\ \A k \in (i + 1)..N : t[k] = "str" => E[k - 1]
     \/ /\ n - 1 \in (i + 1)..N /\ n \in Nat /\ t[n - 1] = "str" /\ ~E[n - 2]
        /\ \A k \in (i + 1)..(n - 2) : t[k] = "str" => E[k - 1]

LEMMA StringDef ==
  ASSUME NEW t \in Seq(Tokens), NEW i \in 1..Len(t), NEW n, n = StringEnd(t, i)
  PROVE  \E E : Quoted(E, t, i, Len(t), n)
<1> DEFINE N == Len(t)
<1> DEFINE Is(f) == f = [k \in i..N |-> k > i /\ ~f[k - 1] /\ t[k] = "esc" /\ k < N]
<1>0. N \in Nat /\ i \in Nat /\ i <= N
  OBVIOUS
<1> HIDE DEF N
<1>1. PICK e : Escapes(e, t, i, N)
  BY <1>0, EscapeDef
<1>2. \E f : Is(f)
  <2> DEFINE g == [k \in i..N |-> e[k]]
  <2>1. g = [k \in i..N |-> g[k]] /\ \A k \in i..N : g[k] = e[k]
    OBVIOUS
  <2> HIDE DEF g
  <2>2. ASSUME NEW k \in i..N PROVE g[k] = (k > i /\ ~g[k - 1] /\ t[k] = "esc" /\ k < N)
    <3>1. e[k] = (k > i /\ ~e[k - 1] /\ t[k] = "esc" /\ k < N)
      BY <1>1, Zenon DEF Escapes
    <3>2. k > i => k - 1 \in i..N
      BY <1>0
    <3>3. g[k] = e[k] /\ (k > i => g[k - 1] = e[k - 1])
      BY <2>1, <3>2
    <3>4. QED
      BY <3>1, <3>3, Zenon
  <2>3. Is(g)
    BY <2>1, <2>2, Zenon
  <2> HIDE DEF Is
  <2>4. QED
    BY <2>3
<1> DEFINE E == CHOOSE f : Is(f)
<1>3. Is(E)
  <2> HIDE DEF Is
  <2>1. QED
    BY <1>2
<1> DEFINE closed == {k \in (i + 1)..N : t[k] = "str" /\ ~E[k - 1]}
<1>4. n = IF closed = {} THEN N + 1 ELSE Min(closed) + 1
  BY DEF StringEnd, N
<1> HIDE DEF E
<1>5. Escapes(E, t, i, N)
  <2>1. \A k \in i..N : E[k] = (k > i /\ ~E[k - 1] /\ t[k] = "esc" /\ k < N)
    BY <1>3, Zenon
  <2>2. QED
    BY <2>1 DEF Escapes
<1> HIDE DEF Is
<1>6. CASE closed = {}
  <2>1. \A k \in (i + 1)..N : t[k] = "str" => E[k - 1]
    BY <1>6
  <2>2. n = N + 1
    BY <1>4, <1>6
  <2>3. QED
    BY <1>5, <2>1, <2>2 DEF N, Quoted
<1>7. CASE closed # {}
  <2> DEFINE c == Min(closed)
  <2>1. c \in closed /\ \A k \in closed : c <= k
    <3>1. closed \in SUBSET Nat
      BY <1>0
    <3> HIDE DEF closed
    <3>2. QED
      BY <1>7, <3>1, MinIs
  <2>2. n = c + 1
    BY <1>4, <1>7
  <2> HIDE DEF c
  <2>3. c \in (i + 1)..N /\ t[c] = "str" /\ ~E[c - 1]
    BY <2>1
  <2>4. ASSUME NEW k \in (i + 1)..(c - 1), t[k] = "str" PROVE E[k - 1]
    <3>1. k \in (i + 1)..N /\ ~(c <= k)
      BY <1>0, <2>3
    <3>2. QED
      BY <2>1, <2>4, <3>1
  <2>5. n - 1 = c /\ n - 2 = c - 1 /\ n \in Nat
    BY <1>0, <2>2, <2>3
  <2>6. QED
    BY <1>5, <2>3, <2>4, <2>5 DEF N, Quoted
<1>8. QED
  BY <1>6, <1>7

LEMMA StringRange ==
  ASSUME NEW t \in Seq(Tokens), NEW i \in 1..Len(t)
  PROVE  StringEnd(t, i) \in (i + 1)..(Len(t) + 1)
<1> DEFINE n == StringEnd(t, i)
<1>1. PICK E : Quoted(E, t, i, Len(t), n)
  BY StringDef, Zenon
<1> HIDE DEF n
<1>2. n \in (i + 1)..(Len(t) + 1)
  BY <1>1 DEF Quoted
<1>3. QED
  BY <1>2 DEF n

InString(t, i, w, q) ==
  /\ w[i] = "string"
  /\ q[i] = FALSE
  /\ \A k \in (i + 1)..Len(t) : w[k - 1] = "string" =>
       /\ w[k] = IF q[k - 1] \/ t[k] # "str" THEN "string" ELSE "code"
       /\ q[k] = (~q[k - 1] /\ t[k] = "esc")

\* A lexer that is in a string from i on leaves it where StringEnd says, or never.
LEMMA StringSpan ==
  ASSUME NEW t \in Seq(Tokens), NEW i \in 1..Len(t), NEW w, NEW q, InString(t, i, w, q),
         NEW n, n = StringEnd(t, i)
  PROVE  Leaves(w, "string", i, n, Len(t))
<1> DEFINE N == Len(t)
<1>0. N \in Nat /\ i \in Nat /\ i <= N
  OBVIOUS
<1>1. PICK E : Quoted(E, t, i, N, n)
  BY StringDef, Zenon
<1> HIDE DEF N, Leaves
<1>02. w[i] = "string" /\ q[i] = FALSE
  BY Zenon DEF InString
<1>2. \A k \in (i + 1)..N : w[k - 1] = "string" =>
        /\ w[k] = IF q[k - 1] \/ t[k] # "str" THEN "string" ELSE "code"
        /\ q[k] = (~q[k - 1] /\ t[k] = "esc")
  BY Zenon DEF N, InString
<1>3. ASSUME NEW c \in i..N, \A j \in (i + 1)..c : t[j] = "str" => E[j - 1]
      PROVE  \A k \in i..c : w[k] = "string" /\ (k < N => q[k] = E[k])
  <2> DEFINE Ok(k) == w[k] = "string" /\ (k < N => q[k] = E[k])
  <2> DEFINE Bad == {k \in i..c : ~Ok(k)}
  <2>1. SUFFICES ASSUME Bad # {} PROVE FALSE
    OBVIOUS
  <2>2. PICK m \in Bad : \A k \in Bad : m <= k
    <3>1. Bad \in SUBSET Nat
      BY <1>0
    <3> HIDE DEF Bad
    <3>2. QED
      BY <2>1, <3>1, LeastNat
  <2>3. m # i
    <3>1. E[i] = FALSE
      <4>1. E[i] = (i > i /\ ~E[i - 1] /\ t[i] = "esc" /\ i < N) /\ ~(i > i)
        <5>1. i \in i..N /\ ~(i > i)
          BY <1>0
        <5>2. QED
          BY <1>1, <5>1, Zenon DEF Quoted, Escapes
      <4>2. QED
        BY <4>1, Zenon
    <3>2. Ok(i)
      BY <1>02, <3>1, Zenon
    <3>3. QED
      BY <2>2, <3>2, Zenon
  <2>4. /\ m - 1 \in i..c /\ m - 1 \notin Bad /\ m \in (i + 1)..N /\ m \in (i + 1)..c /\ m \in i..N
        /\ m - 1 < N /\ m > i
    BY <1>0, <2>2, <2>3
  <2>5. w[m - 1] = "string" /\ q[m - 1] = E[m - 1]
    <3>1. Ok(m - 1)
      BY <2>4, Zenon
    <3>2. QED
      BY <2>4, <3>1, Zenon
  <2>6. w[m] = IF q[m - 1] \/ t[m] # "str" THEN "string" ELSE "code"
    BY <1>2, <2>4, <2>5, Zenon
  <2>7. q[m] = (~q[m - 1] /\ t[m] = "esc")
    BY <1>2, <2>4, <2>5, Zenon
  <2>8. E[m] = (m > i /\ ~E[m - 1] /\ t[m] = "esc" /\ m < N)
    BY <1>1, <2>4, Zenon DEF Quoted, Escapes
  <2>9. t[m] = "str" => E[m - 1]
    BY <1>3, <2>4
  <2>10. w[m] = "string"
    BY <2>5, <2>6, <2>9, Zenon
  <2>11. m < N => q[m] = E[m]
    BY <2>4, <2>5, <2>7, <2>8, Zenon
  <2>12. Ok(m)
    BY <2>10, <2>11, Zenon
  <2> HIDE DEF Ok
  <2>13. QED
    BY <2>2, <2>12
<1>4. CASE n = N + 1 /\ \A k \in (i + 1)..N : t[k] = "str" => E[k - 1]
  <2>1. N \in i..N
    BY <1>0
  <2>2. \A k \in i..N : w[k] = "string"
    BY <1>3, <1>4, <2>1, Zenon
  <2>3. n - 2 = N - 1 /\ n - 1 = N
    BY <1>0, <1>4
  <2>4. QED
    BY <1>0, <1>4, <2>1, <2>2, <2>3 DEF N, Leaves
<1>5. CASE /\ n - 1 \in (i + 1)..N /\ n \in Nat /\ t[n - 1] = "str" /\ ~E[n - 2]
           /\ \A k \in (i + 1)..(n - 2) : t[k] = "str" => E[k - 1]
  <2>2. n - 2 \in i..N /\ n - 1 \in (i + 1)..N /\ n - 2 \in i..(n - 2) /\ (n - 1) - 1 = n - 2 /\ n - 2 < N
    BY <1>0, <1>5
  <2>3. \A k \in i..(n - 2) : w[k] = "string" /\ (k < N => q[k] = E[k])
    BY <1>3, <1>5, <2>2, Zenon
  <2>4. w[n - 2] = "string" /\ q[n - 2] = E[n - 2]
    BY <2>2, <2>3, Zenon
  <2>5. w[n - 1] = IF q[n - 2] \/ t[n - 1] # "str" THEN "string" ELSE "code"
    BY <1>2, <2>2, <2>4, Zenon
  <2>6. w[n - 1] = "code"
    BY <1>5, <2>4, <2>5, Zenon
  <2>7. n \in (i + 1)..(N + 1)
    BY <1>0, <1>5
  <2>8. \A k \in i..(n - 2) : w[k] = "string"
    BY <2>3, Zenon
  <2>9. QED
    BY <2>6, <2>7, <2>8, Zenon DEF N, Leaves
<1>6. QED
  BY <1>1, <1>4, <1>5, Zenon DEF Quoted

LEMMA LineDef ==
  ASSUME NEW t \in Seq(Tokens), NEW i \in 1..Len(t), NEW n, n = LineEnd(t, i)
  PROVE  /\ n \in i..(Len(t) + 1)
         /\ n = Len(t) + 1 \/ t[n] = "nl"
         /\ \A k \in i..(n - 1) : t[k] # "nl"
<1> DEFINE N == Len(t)
<1> DEFINE T == {k \in i..N : t[k] = "nl"} \cup {N + 1}
<1>0. N \in Nat /\ i \in Nat /\ i <= N
  OBVIOUS
<1>1. n = Min(T)
  BY DEF LineEnd
<1> HIDE DEF N
<1>2. T \in SUBSET Nat /\ T # {}
  BY <1>0
<1>3. n \in T /\ \A k \in T : n <= k
  <2> HIDE DEF T
  <2>1. QED
    BY <1>1, <1>2, MinIs
<1>4. n \in i..(N + 1) /\ (n = N + 1 \/ t[n] = "nl")
  BY <1>0, <1>3
<1>5. ASSUME NEW k \in i..(n - 1), t[k] = "nl" PROVE FALSE
  <2>1. k \in T /\ ~(n <= k)
    BY <1>0, <1>4, <1>5
  <2>2. QED
    BY <1>3, <2>1
<1>6. QED
  BY <1>4, <1>5 DEF N

\* A lexer that is in a line comment from i on leaves it at the end of the line.
LEMMA LineSpan ==
  ASSUME NEW t \in Seq(Tokens), NEW i \in 1..Len(t), NEW w, w[i] = "line", t[i] # "nl",
         \A k \in (i + 1)..Len(t) : w[k - 1] = "line" =>
           w[k] = IF t[k] = "nl" THEN "code" ELSE "line",
         NEW n, n = LineEnd(t, i)
  PROVE  /\ n \in (i + 1)..(Len(t) + 1)
         /\ n = Len(t) + 1 \/ t[n] = "nl"
         /\ \A k \in i..(n - 1) : w[k] = "line"
<1> DEFINE N == Len(t)
<1>0. N \in Nat /\ i \in Nat /\ i <= N
  OBVIOUS
<1>1. n \in i..(N + 1) /\ (n = N + 1 \/ t[n] = "nl") /\ \A k \in i..(n - 1) : t[k] # "nl"
  BY LineDef, Zenon
<1>2. \A k \in (i + 1)..N : w[k - 1] = "line" => w[k] = IF t[k] = "nl" THEN "code" ELSE "line"
  OBVIOUS
<1> HIDE DEF N
<1>3. n # i
  BY <1>0, <1>1
<1> DEFINE Bad == {k \in i..(n - 1) : w[k] # "line"}
<1>4. ASSUME Bad # {} PROVE FALSE
  <2>1. PICK m \in Bad : \A k \in Bad : m <= k
    <3>1. Bad \in SUBSET Nat
      BY <1>0, <1>1
    <3> HIDE DEF Bad
    <3>2. QED
      BY <1>4, <3>1, LeastNat
  <2>2. m # i
    OBVIOUS
  <2>3. m - 1 \in i..(n - 1) /\ m - 1 \notin Bad /\ m \in (i + 1)..N /\ m \in i..(n - 1)
    BY <1>0, <1>1, <2>1, <2>2
  <2>4. w[m - 1] = "line" /\ t[m] # "nl"
    BY <1>1, <2>3
  <2>5. QED
    BY <1>2, <2>1, <2>3, <2>4
<1>5. \A k \in i..(n - 1) : w[k] = "line"
  BY <1>4
<1>6. QED
  BY <1>0, <1>1, <1>3, <1>5 DEF N

-----------------------------------------------------------------------------
(* The prover's lexer, and what strip_comments jumps over.                 *)

Where == {"code", "string", "comment", "line", "verbatim"}

\* The marks of a grammar are told apart, but for those it has not.
LEMMA Grammar ==
  ASSUME NEW p \in DOMAIN Syntax, NEW x, x = Syntax[p]
  PROVE  /\ x.open \notin {None, "str", "nl", "esc", x.line, x.vopen, x.close}
         /\ x.line \notin {"str", "nl", "esc"}
         /\ x.vopen \notin {"str", "nl", "esc"}
         /\ x.vopen = x.line \/ x.vopen = x.vclose => x.vopen = None
  BY DEF Syntax, None

\* w, d and q are where the lexer is after each token, how deep, and whether the
\* next token is escaped.
Turn(x, w, d, q, t, k) ==
  /\ w[k] \in Where
  /\ w[k - 1] = "code" =>
       /\ w[k] = IF t[k] = x.open THEN "comment" ELSE
                 IF t[k] = x.line THEN "line" ELSE
                 IF t[k] = x.vopen THEN "verbatim" ELSE
                 IF t[k] = "str" THEN "string" ELSE "code"
       /\ d[k] = 1
       /\ q[k] = FALSE
  /\ w[k - 1] = "string" =>
       /\ w[k] = IF q[k - 1] \/ t[k] # "str" THEN "string" ELSE "code"
       /\ q[k] = (~q[k - 1] /\ t[k] = "esc")
  /\ w[k - 1] = "line" => w[k] = IF t[k] = "nl" THEN "code" ELSE "line"
  /\ w[k - 1] = "comment" =>
       /\ d[k] = Up(d[k - 1], x.open, x.close, t[k])
       /\ w[k] = IF d[k] = 0 THEN "code" ELSE "comment"
  /\ w[k - 1] = "verbatim" =>
       /\ d[k] = Up(d[k - 1], x.vopen, x.vclose, t[k])
       /\ w[k] = IF d[k] = 0 THEN "code" ELSE "verbatim"
Track(x, w, d, q, t) ==
  /\ w[0] = "code"
  /\ \A k \in 1..Len(t) : Turn(x, w, d, q, t, k)

Commented(x, w, t, k) ==
  \/ w[k - 1] \in {"comment", "line"}
  \/ w[k - 1] = "code" /\ t[k] \in {x.open, x.line}

\* Where the scanner looks for a span: in code, or at the end of a line comment.
Start(w, t, i) == w[i - 1] = "code" \/ (w[i - 1] = "line" /\ t[i] = "nl")

LEMMA NextRange ==
  ASSUME NEW t \in Seq(Tokens), NEW i \in 1..Len(t), NEW p \in DOMAIN Syntax, NEW x, x = Syntax[p]
  PROVE  Lexeme(t, i, x).next \in (i + 1)..(Len(t) + 1)
<1> DEFINE N == Len(t)
<1>1. NestEnd(t, i, x.open, x.close) \in (i + 1)..(N + 1)
  BY NestRange, Zenon
<1>2. NestEnd(t, i, x.vopen, x.vclose) \in (i + 1)..(N + 1)
  BY NestRange, Zenon
<1>3. StringEnd(t, i) \in (i + 1)..(N + 1)
  BY StringRange, Zenon
<1>4. i + 1 \in (i + 1)..(N + 1)
  OBVIOUS
<1>5. t[i] = x.line => LineEnd(t, i) \in (i + 1)..(N + 1)
  <2> DEFINE n == LineEnd(t, i)
  <2>1. /\ n \in i..(N + 1)
        /\ n = N + 1 \/ t[n] = "nl"
    BY LineDef, Zenon
  <2>2. x.line # "nl"
    BY Grammar
  <2> HIDE DEF n
  <2>3. t[i] = x.line => n \in (i + 1)..(N + 1)
    BY <2>1, <2>2
  <2>4. QED
    BY <2>3 DEF n
<1> HIDE DEF N
<1>6. Lexeme(t, i, x).next \in (i + 1)..(N + 1)
  BY <1>1, <1>2, <1>3, <1>4, <1>5 DEF Lexeme, Span
<1>7. QED
  BY <1>6 DEF N

Reads(x, w, t, i, n, b) ==
  /\ n = Len(t) + 1 \/ Start(w, t, n)
  /\ \A k \in i..(n - 1) : t[k] # "nl" => (Commented(x, w, t, k) <=> b = TRUE)

\* From where it looks for one, the scanner finds a span that the lexer reads as a
\* comment altogether or not at all, and goes on where it may look again.
LEMMA SpanRead ==
  ASSUME NEW t \in Seq(Tokens), NEW i \in 1..Len(t), NEW p \in DOMAIN Syntax, NEW x, x = Syntax[p],
         NEW w, NEW d, NEW q, Track(x, w, d, q, t), t[i] # None, Start(w, t, i),
         NEW n, n = Lexeme(t, i, x).next, NEW b, b = Lexeme(t, i, x).blank
  PROVE  Reads(x, w, t, i, n, b)
<1> DEFINE N == Len(t)
<1>0. N \in Nat /\ i \in Nat /\ i <= N
  OBVIOUS
<1>00. "comment" # "code" /\ "verbatim" # "code"
  OBVIOUS
<1>1. \A k \in 1..N : Turn(x, w, d, q, t, k)
  BY Zenon DEF Track
<1>2. n \in (i + 1)..(N + 1)
  BY NextRange, Zenon
<1>3. /\ x.open \notin {None, "str", "nl", "esc", x.line, x.vopen, x.close}
      /\ x.line \notin {"str", "nl", "esc"}
      /\ x.vopen \notin {"str", "nl", "esc"}
      /\ x.vopen = x.line \/ x.vopen = x.vclose => x.vopen = None
  BY Grammar, Zenon
<1>4. Turn(x, w, d, q, t, i)
  BY <1>0, <1>1
<1>5. \A k \in (i + 1)..N : Turn(x, w, d, q, t, k)
  BY <1>0, <1>1
<1>6. \A k \in i..(n - 1) : k = i \/ k - 1 \in i..(n - 2)
  BY <1>0, <1>2
<1>7. CASE w[i - 1] = "line" /\ t[i] = "nl"
  <2>1. n = i + 1
    BY <1>3, <1>7 DEF Lexeme, Span
  <2>2. w[n - 1] = "code"
    BY <1>0, <1>4, <1>7, <2>1 DEF Turn
  <2>3. \A k \in i..(n - 1) : k = i
    BY <2>1
  <2>4. QED
    BY <1>7, <2>2, <2>3, Zenon DEF Start, Reads
<1>8. CASE w[i - 1] = "code" /\ t[i] = x.open
  <2>1. n = NestEnd(t, i, x.open, x.close) /\ b = TRUE
    BY <1>3, <1>8 DEF Lexeme, Span
  <2>2. w[i] = "comment" /\ d[i] = 1
    BY <1>4, <1>8 DEF Turn
  <2>3. \A k \in (i + 1)..N : w[k - 1] = "comment" =>
          /\ d[k] = Up(d[k - 1], x.open, x.close, t[k])
          /\ w[k] = IF d[k] = 0 THEN "code" ELSE "comment"
    BY <1>5, Zenon DEF Turn
  <2>4. /\ \A k \in i..(n - 2) : w[k] = "comment"
        /\ n = N + 1 \/ w[n - 1] = "code"
    <3>1. InNest(t, i, x.open, x.close, "comment", w, d)
      BY <2>2, <2>3, Zenon DEF InNest
    <3>2. Leaves(w, "comment", i, n, Len(t))
      BY <1>00, <2>1, <3>1, NestSpan, Zenon
    <3>3. QED
      BY <3>2, Zenon DEF Leaves
  <2>5. \A k \in i..(n - 1) : Commented(x, w, t, k)
    BY <1>6, <1>8, <2>4 DEF Commented
  <2>6. QED
    BY <2>1, <2>4, <2>5, Zenon DEF Start, Reads
<1>9. CASE w[i - 1] = "code" /\ t[i] = x.line
  <2>1. n = LineEnd(t, i) /\ b = TRUE
    BY <1>3, <1>9 DEF Lexeme, Span
  <2>2. w[i] = "line" /\ t[i] # "nl"
    BY <1>3, <1>4, <1>9 DEF Turn
  <2>3. \A k \in (i + 1)..N : w[k - 1] = "line" => w[k] = IF t[k] = "nl" THEN "code" ELSE "line"
    BY <1>5, Zenon DEF Turn
  <2>4. /\ n = N + 1 \/ t[n] = "nl"
        /\ \A k \in i..(n - 1) : w[k] = "line"
    BY <2>1, <2>2, <2>3, LineSpan
  <2>5. n - 1 \in i..(n - 1) /\ \A k \in i..(n - 2) : k \in i..(n - 1)
    BY <1>0, <1>2
  <2>6. \A k \in i..(n - 1) : Commented(x, w, t, k)
    BY <1>6, <1>9, <2>4, <2>5 DEF Commented
  <2>7. QED
    BY <2>1, <2>4, <2>5, <2>6 DEF Start, Reads
<1>10. CASE w[i - 1] = "code" /\ t[i] = x.vopen
  <2>1. n = NestEnd(t, i, x.vopen, x.vclose) /\ b = FALSE /\ t[i] # x.open /\ t[i] # x.line
    BY <1>3, <1>10 DEF Lexeme, Span
  <2>2. w[i] = "verbatim" /\ d[i] = 1
    BY <1>4, <1>10, <2>1 DEF Turn
  <2>3. \A k \in (i + 1)..N : w[k - 1] = "verbatim" =>
          /\ d[k] = Up(d[k - 1], x.vopen, x.vclose, t[k])
          /\ w[k] = IF d[k] = 0 THEN "code" ELSE "verbatim"
    BY <1>5, Zenon DEF Turn
  <2>4. /\ \A k \in i..(n - 2) : w[k] = "verbatim"
        /\ n = N + 1 \/ w[n - 1] = "code"
    <3>1. InNest(t, i, x.vopen, x.vclose, "verbatim", w, d)
      BY <2>2, <2>3, Zenon DEF InNest
    <3>2. Leaves(w, "verbatim", i, n, Len(t))
      BY <1>00, <2>1, <3>1, NestSpan, Zenon
    <3>3. QED
      BY <3>2, Zenon DEF Leaves
  <2>5. \A k \in i..(n - 1) : ~Commented(x, w, t, k)
    BY <1>6, <1>10, <2>1, <2>4 DEF Commented
  <2>6. QED
    BY <2>1, <2>4, <2>5, Zenon DEF Start, Reads
<1>11. CASE w[i - 1] = "code" /\ t[i] = "str"
  <2>1. n = StringEnd(t, i) /\ b = FALSE /\ t[i] # x.open /\ t[i] # x.line /\ t[i] # x.vopen
    BY <1>3, <1>11 DEF Lexeme, Span
  <2>2. w[i] = "string"
    BY <1>4, <1>11, <2>1 DEF Turn
  <2>22. q[i] = FALSE
    BY <1>4, <1>11, Zenon DEF Turn
  <2>3. \A k \in (i + 1)..N : w[k - 1] = "string" =>
          /\ w[k] = IF q[k - 1] \/ t[k] # "str" THEN "string" ELSE "code"
          /\ q[k] = (~q[k - 1] /\ t[k] = "esc")
    BY <1>5, Zenon DEF Turn
  <2>4. /\ \A k \in i..(n - 2) : w[k] = "string"
        /\ n = N + 1 \/ w[n - 1] = "code"
    <3>1. InString(t, i, w, q)
      BY <2>2, <2>22, <2>3, Zenon DEF InString
    <3>2. Leaves(w, "string", i, n, Len(t))
      BY <2>1, <3>1, StringSpan, Zenon
    <3>3. QED
      BY <3>2, Zenon DEF Leaves
  <2>5. \A k \in i..(n - 1) : ~Commented(x, w, t, k)
    BY <1>6, <1>11, <2>1, <2>4 DEF Commented
  <2>6. QED
    BY <2>1, <2>4, <2>5, Zenon DEF Start, Reads
<1>12. CASE w[i - 1] = "code" /\ t[i] \notin {x.open, x.line, x.vopen, "str"}
  <2>1. n = i + 1 /\ b = FALSE
    BY <1>12 DEF Lexeme, Span
  <2>2. w[n - 1] = "code"
    BY <1>0, <1>4, <1>12, <2>1 DEF Turn
  <2>3. \A k \in i..(n - 1) : k = i
    BY <2>1
  <2>4. QED
    <3>1. ~Commented(x, w, t, i)
      BY <1>12 DEF Commented
    <3>2. QED
      BY <2>1, <2>2, <2>3, <3>1, Zenon DEF Start, Reads
<1>13. QED
  BY <1>7, <1>8, <1>9, <1>10, <1>11, <1>12 DEF Start

\* strip_comments blanks what the lexer reads as a comment.
LEMMA StripIs ==
  ASSUME NEW t \in Seq(Tokens), NEW p \in DOMAIN Syntax, NEW x, x = Syntax[p],
         NEW w, NEW d, NEW q, Track(x, w, d, q, t), \A k \in 1..Len(t) : t[k] # None,
         NEW C, \A k \in 1..Len(t) : t[k] # "nl" => (k \in C <=> Commented(x, w, t, k))
  PROVE  StripComments(t, x) = Blank(t, C)
<1> DEFINE N == Len(t)
<1> DEFINE next == [i \in 1..N |-> Lexeme(t, i, x).next]
<1> DEFINE B == [i \in 1..N |-> IF Lexeme(t, i, x).blank THEN i..(Lexeme(t, i, x).next - 1) ELSE {}]
<1> DEFINE At(f, i) ==
      IF i > N THEN {}
      ELSE LET s == Lexeme(t, i, x)
           IN  f[s.next] \cup (IF s.blank THEN i..(s.next - 1) ELSE {})
<1> DEFINE Is(f) == f = [i \in 1..(N + 1) |-> At(f, i)]
<1>0. N \in Nat
  OBVIOUS
<1>1. \A i \in 1..N : next[i] = Lexeme(t, i, x).next /\ next[i] \in (i + 1)..(N + 1)
  <2>1. \A i \in 1..N : next[i] = Lexeme(t, i, x).next
    OBVIOUS
  <2>2. \A i \in 1..N : Lexeme(t, i, x).next \in (i + 1)..(N + 1)
    BY NextRange, Zenon
  <2>3. QED
    BY <2>1, <2>2
<1>2. \A i \in 1..N : B[i] = IF Lexeme(t, i, x).blank THEN i..(Lexeme(t, i, x).next - 1) ELSE {}
  OBVIOUS
<1> HIDE DEF next, B, N
<1>3. \E f : Jumps(f, N, next, B)
  <2>1. \A i \in 1..N : next[i] \in (i + 1)..(N + 1)
    BY <1>1
  <2>2. QED
    BY <1>0, <2>1, JumpDef, Zenon
<1>4. \E f : Is(f)
  <2>1. PICK f : f = [i \in 1..(N + 1) |-> IF i > N THEN {} ELSE f[next[i]] \cup B[i]]
    BY <1>3 DEF Jumps
  <2>2. \A i \in 1..(N + 1) : i > N \/ i \in 1..N
    BY <1>0
  <2>3. ASSUME NEW i \in 1..(N + 1)
        PROVE  f[i] = IF i > N THEN {}
                      ELSE LET s == Lexeme(t, i, x)
                           IN  f[s.next] \cup (IF s.blank THEN i..(s.next - 1) ELSE {})
    <3>1. f[i] = IF i > N THEN {} ELSE f[next[i]] \cup B[i]
      BY <2>1
    <3>2. CASE i > N
      BY <3>1, <3>2
    <3>3. CASE i \in 1..N /\ ~(i > N)
      <4>1. f[i] = f[next[i]] \cup B[i]
        BY <3>1, <3>3
      <4>2. next[i] = Lexeme(t, i, x).next
        BY <1>1, <3>3
      <4>3. B[i] = IF Lexeme(t, i, x).blank THEN i..(Lexeme(t, i, x).next - 1) ELSE {}
        BY <1>2, <3>3
      <4>4. QED
        BY <3>3, <4>1, <4>2, <4>3, Zenon
    <3>4. QED
      BY <2>2, <3>2, <3>3
  <2>4. f = [i \in 1..(N + 1) |-> f[i]]
    BY <2>1
  <2>5. Is(f)
    BY <2>3, <2>4, Zenon
  <2> HIDE DEF Is
  <2>6. QED
    BY <2>5
<1> DEFINE from == CHOOSE f : Is(f)
<1>5. Is(from)
  <2> HIDE DEF Is
  <2>1. QED
    BY <1>4
<1>6. StripComments(t, x) = Blank(t, from[1])
  BY DEF StripComments, N
<1> HIDE DEF from
<1> HIDE DEF At
<1>7. \A i \in 1..(N + 1) : from[i] = At(from, i)
  BY <1>5, Zenon
<1>8. from[N + 1] = {}
  <2>1. N + 1 \in 1..(N + 1) /\ N + 1 > N
    BY <1>0
  <2>2. At(from, N + 1) = {}
    BY <2>1, Zenon DEF At
  <2>3. QED
    BY <1>7, <2>1, <2>2, Zenon
<1>9. \A i \in 1..N : from[i] = from[next[i]] \cup B[i]
  <2> SUFFICES ASSUME NEW i \in 1..N PROVE from[i] = from[next[i]] \cup B[i]
    OBVIOUS
  <2>1. i \in 1..(N + 1) /\ ~(i > N)
    BY <1>0
  <2>2. QED
    BY <1>1, <1>2, <1>7, <2>1, Zenon DEF At
<1> HIDE DEF Is
<1> DEFINE Right(i) == /\ from[i] \subseteq i..N
                       /\ \A k \in i..N : t[k] # "nl" => (k \in from[i] <=> Commented(x, w, t, k))
<1>10. \A i \in 1..(N + 1) : i = N + 1 \/ Start(w, t, i) => Right(i)
  <2> DEFINE Bad == {m \in 0..N : ~(N + 1 - m = N + 1 \/ Start(w, t, N + 1 - m) => Right(N + 1 - m))}
  <2>1. Bad = {}
    <3>1. SUFFICES ASSUME Bad # {} PROVE FALSE
      OBVIOUS
    <3>2. PICK m \in Bad : \A k \in Bad : m <= k
      <4>1. Bad \in SUBSET Nat
        OBVIOUS
      <4> HIDE DEF Bad
      <4>2. QED
        BY <3>1, <4>1, LeastNat
    <3> DEFINE i == N + 1 - m
    <3>3. m \in 0..N /\ (i = N + 1 \/ Start(w, t, i)) /\ ~Right(i)
      OBVIOUS
    <3>4. i \in 1..(N + 1)
      BY <1>0, <3>3
    <3>5. i # N + 1
      <4>1. Right(N + 1)
        BY <1>0, <1>8
      <4>2. QED
        BY <3>3, <4>1, Zenon
    <3>6. i \in 1..N /\ Start(w, t, i)
      BY <1>0, <3>3, <3>4, <3>5
    <3> DEFINE n == next[i]
    <3>7. n \in (i + 1)..(N + 1) /\ n = Lexeme(t, i, x).next
      BY <1>1, <3>6
    <3>8. /\ n = N + 1 \/ Start(w, t, n)
          /\ \A k \in i..(n - 1) : t[k] # "nl" =>
               (Commented(x, w, t, k) <=> Lexeme(t, i, x).blank = TRUE)
      <4>1. t[i] # None /\ i \in 1..Len(t) /\ N = Len(t)
        BY <3>6 DEF N
      <4> HIDE DEF i, N
      <4>2. QED
        <5>1. Reads(x, w, t, i, n, Lexeme(t, i, x).blank)
          BY <3>6, <3>7, <4>1, SpanRead, Zenon
        <5>2. QED
          BY <4>1, <5>1, Zenon DEF Reads
    <3>9. N + 1 - n \in 0..N /\ N + 1 - n \notin Bad /\ N + 1 - (N + 1 - n) = n
      <4>1. N + 1 - n \in 0..N /\ ~(m <= N + 1 - n) /\ N + 1 - (N + 1 - n) = n
        BY <1>0, <3>3, <3>6, <3>7
      <4> HIDE DEF Bad
      <4>2. QED
        BY <3>2, <4>1
    <3>10. Right(n)
      <4> DEFINE Fine(j) == j = N + 1 \/ Start(w, t, j) => Right(j)
      <4>1. Fine(N + 1 - (N + 1 - n))
        <5> HIDE DEF Right, n
        <5>1. QED
          BY <3>9
      <4>2. Fine(n)
        <5> HIDE DEF Fine
        <5>1. QED
          BY <3>9, <4>1
      <4>3. QED
        BY <3>8, <4>2, Zenon
    <3>11. from[i] = from[n] \cup B[i]
      BY <1>9, <3>6
    <3>12. Lexeme(t, i, x).blank \in BOOLEAN
      <4> HIDE DEF i
      <4>1. QED
        BY DEF Lexeme, Span
    <3>13. B[i] = IF Lexeme(t, i, x).blank THEN i..(n - 1) ELSE {}
      BY <1>2, <3>6, <3>7, Zenon
    <3> HIDE DEF n, i
    <3>14. from[i] \subseteq i..N
      BY <1>0, <3>6, <3>7, <3>10, <3>11, <3>13
    <3>15. ASSUME NEW k \in i..N, t[k] # "nl"
           PROVE  k \in from[i] <=> Commented(x, w, t, k)
      <4>1. CASE k \in i..(n - 1)
        <5>1. k \notin from[n]
          BY <1>0, <3>6, <3>7, <3>10, <4>1
        <5>2. k \in B[i] <=> Lexeme(t, i, x).blank = TRUE
          BY <3>12, <3>13, <4>1
        <5>3. QED
          BY <3>8, <3>11, <3>15, <4>1, <5>1, <5>2
      <4>2. CASE k \in n..N
        <5>1. k \notin B[i]
          BY <1>0, <3>6, <3>7, <3>13, <4>2
        <5>2. QED
          BY <3>10, <3>11, <3>15, <4>2, <5>1
      <4>3. QED
        BY <1>0, <3>6, <3>7, <4>1, <4>2
    <3>16. QED
      BY <3>3, <3>14, <3>15
  <2>2. ASSUME NEW i \in 1..(N + 1), i = N + 1 \/ Start(w, t, i) PROVE Right(i)
    <3>1. N + 1 - i \in 0..N /\ N + 1 - (N + 1 - i) = i
      BY <1>0
    <3>2. N + 1 - i \notin Bad
      BY <2>1
    <3> DEFINE Fine(j) == j = N + 1 \/ Start(w, t, j) => Right(j)
    <3>3. Fine(N + 1 - (N + 1 - i))
      <4> HIDE DEF Right
      <4>1. QED
        BY <3>1, <3>2
    <3>4. Fine(i)
      <4> HIDE DEF Fine
      <4>1. QED
        BY <3>1, <3>3
    <3>5. QED
      BY <2>2, <3>4, Zenon
  <2>3. QED
    BY <2>2
<1>11. Right(1)
  <2>1. Start(w, t, 1)
    <3>1. w[0] = "code"
      BY Zenon DEF Track
    <3>2. 1 - 1 = 0
      OBVIOUS
    <3>3. QED
      BY <3>1, <3>2, Zenon DEF Start
  <2>2. 1 \in 1..(N + 1)
    BY <1>0
  <2> HIDE DEF Right
  <2>3. QED
    BY <1>10, <2>1, <2>2
<1>12. \A k \in 1..N : t[k] # "nl" => (k \in from[1] <=> k \in C)
  BY <1>11 DEF N
<1>13. Blank(t, from[1]) = Blank(t, C)
  BY <1>12 DEF Blank, N
<1>14. QED
  BY <1>6, <1>13

-----------------------------------------------------------------------------
(* The author's lexer.                                                     *)

Modes == [string : BOOLEAN, skip : BOOLEAN, comment : Nat, quoted : BOOLEAN, line : BOOLEAN,
          cartouche : Nat, bracket : Int, part : Parts]
Kind(m) == IF m.string THEN "string" ELSE
           IF m.comment > 0 THEN "comment" ELSE
           IF m.line THEN "line" ELSE
           IF m.cartouche > 0 THEN "verbatim" ELSE "code"
Depth(m) == IF m.comment > 0 THEN m.comment ELSE m.cartouche

\* The lexer is in one thing at a time.
ModeOK(m) ==
  /\ m \in Modes
  /\ m.skip => m.string
  /\ m.string => m.comment = 0 /\ ~m.line /\ m.cartouche = 0
  /\ m.line => m.comment = 0 /\ m.cartouche = 0
  /\ m.comment = 0 \/ m.cartouche = 0

Turns(x, m, n, tok) ==
  /\ Kind(m) = "code" =>
       /\ Kind(n) = IF tok = x.open THEN "comment" ELSE
                    IF tok = x.line THEN "line" ELSE
                    IF tok = x.vopen THEN "verbatim" ELSE
                    IF tok = "str" THEN "string" ELSE "code"
       /\ Kind(n) \in {"comment", "verbatim"} => Depth(n) = 1
       /\ ~n.skip
  /\ Kind(m) = "string" =>
       /\ Kind(n) = IF m.skip \/ tok # "str" THEN "string" ELSE "code"
       /\ n.skip <=> (~m.skip /\ tok = "esc")
  /\ Kind(m) = "line" => Kind(n) = IF tok = "nl" THEN "code" ELSE "line"
  /\ Kind(m) = "comment" =>
       /\ Depth(n) = Up(Depth(m), x.open, x.close, tok)
       /\ Kind(n) = IF Depth(n) = 0 THEN "code" ELSE "comment"
  /\ Kind(m) = "verbatim" =>
       /\ Depth(n) = Up(Depth(m), x.vopen, x.vclose, tok)
       /\ Kind(n) = IF Depth(n) = 0 THEN "code" ELSE "verbatim"

LEMMA LexedTurns ==
  ASSUME prover \in DOMAIN Syntax, NEW x, x = Syntax[prover], NEW m, ModeOK(m),
         NEW tok, tok # None, ~Strays(m, tok), NEW n, n = Lexed(m, tok)
  PROVE  ModeOK(n) /\ Turns(x, m, n, tok)
<1>0. /\ x.open \notin {None, "str", "nl", "esc", x.line, x.vopen, x.close}
      /\ x.line \notin {"str", "nl", "esc"}
      /\ x.vopen \notin {"str", "nl", "esc"}
      /\ x.vopen = x.line \/ x.vopen = x.vclose => x.vopen = None
  BY Grammar
<1>1. m \in Modes
  BY DEF ModeOK
<1>2. CASE m.string
  <2> DEFINE s == m.skip \/ tok # "str"
  <2> DEFINE e == ~m.skip /\ tok = "esc"
  <2>1. n = [m EXCEPT !.string = s, !.skip = e]
    <3>1. e <=> ~m.skip /\ tok = "esc" /\ prover # "rocq"
      BY <1>2 DEF Strays
    <3>2. n = [m EXCEPT !.string = s, !.skip = ~m.skip /\ tok = "esc" /\ prover # "rocq"]
      <4>1. ~(m.comment > 0) /\ ~m.line /\ ~(m.cartouche > 0)
        BY <1>2 DEF ModeOK
      <4>2. QED
        BY <1>2, <4>1 DEF Lexed
    <3>3. e = (~m.skip /\ tok = "esc" /\ prover # "rocq")
      BY <3>1
    <3> HIDE DEF s, e
    <3>4. QED
      BY <3>2, <3>3
  <2>2. s \in BOOLEAN /\ e \in BOOLEAN /\ (e => s)
    OBVIOUS
  <2>3. (s <=> m.skip \/ tok # "str") /\ (e <=> ~m.skip /\ tok = "esc")
    OBVIOUS
  <2> HIDE DEF s, e
  <2>4. /\ n \in Modes /\ n.string = s /\ n.skip = e /\ n.comment = m.comment
        /\ n.line = m.line /\ n.cartouche = m.cartouche
    BY <1>1, <2>1, <2>2 DEF Modes
  <2>5. m.comment = 0 /\ ~m.line /\ m.cartouche = 0
    BY <1>2 DEF ModeOK
  <2>6. ModeOK(n)
    BY <2>2, <2>4, <2>5 DEF ModeOK
  <2>7. Kind(m) = "string" /\ Kind(n) = IF s THEN "string" ELSE "code"
    BY <1>2, <2>4, <2>5 DEF Kind
  <2>8. Turns(x, m, n, tok)
    BY <2>3, <2>4, <2>7 DEF Turns
  <2>9. QED
    BY <2>6, <2>8
<1>3. CASE ~m.string /\ m.comment > 0
  <2> DEFINE c == Up(m.comment, x.open, x.close, tok)
  <2> DEFINE q == m.quoted # (tok = "str")
  <2>0. q \in BOOLEAN
    OBVIOUS
  <2>1. n = [m EXCEPT !.quoted = q, !.comment = c]
    <3> DEFINE d == IF prover = "rocq" /\ m.quoted THEN m.comment
                    ELSE Up(m.comment, x.open, x.close, tok)
    <3>1. d = c
      <4>1. CASE prover = "rocq" /\ m.quoted
        <5>1. x.open = "(*" /\ x.close = "*)"
          BY <4>1 DEF Syntax
        <5>2. tok # x.open /\ tok # x.close
          BY <1>3, <4>1, <5>1 DEF Strays
        <5>3. QED
          BY <4>1, <5>2 DEF Up
      <4>2. QED
        BY <4>1
    <3>2. n = [m EXCEPT !.quoted = q, !.comment = d]
      <4>1. ~m.line /\ ~(m.cartouche > 0)
        BY <1>3 DEF ModeOK
      <4>2. QED
        BY <1>3, <4>1 DEF Lexed, Up
    <3> HIDE DEF q, c, d
    <3>3. QED
      BY <3>1, <3>2
  <2>2. c \in Nat
    BY <1>1, <1>3 DEF Modes, Up
  <2> HIDE DEF c, q
  <2>4. /\ n \in Modes /\ n.string = m.string /\ n.skip = m.skip /\ n.comment = c
        /\ n.line = m.line /\ n.cartouche = m.cartouche
    BY <1>1, <2>0, <2>1, <2>2 DEF Modes
  <2>5. ~m.line /\ m.cartouche = 0 /\ ~m.skip /\ m.comment \in Nat
    BY <1>1, <1>3 DEF ModeOK, Modes
  <2>6. ModeOK(n)
    BY <1>3, <2>2, <2>4, <2>5 DEF ModeOK
  <2>7. /\ Kind(m) = "comment" /\ Depth(m) = m.comment /\ Depth(n) = c
        /\ Kind(n) = IF c = 0 THEN "code" ELSE "comment"
    BY <1>3, <2>2, <2>4, <2>5 DEF Kind, Depth
  <2>8. Turns(x, m, n, tok)
    BY <2>7 DEF Turns, c
  <2>9. QED
    BY <2>6, <2>8
<1>4. CASE ~m.string /\ ~(m.comment > 0) /\ m.line
  <2> DEFINE l == tok # "nl"
  <2>1. n = [m EXCEPT !.line = l]
    <3>1. ~(m.cartouche > 0)
      BY <1>4 DEF ModeOK
    <3>2. QED
      BY <1>4, <3>1 DEF Lexed
  <2>2. l \in BOOLEAN /\ (l <=> tok # "nl")
    OBVIOUS
  <2> HIDE DEF l
  <2>4. /\ n \in Modes /\ n.string = m.string /\ n.skip = m.skip /\ n.comment = m.comment
        /\ n.line = l /\ n.cartouche = m.cartouche
    BY <1>1, <2>1, <2>2 DEF Modes
  <2>5. m.cartouche = 0 /\ ~m.skip /\ m.comment = 0
    BY <1>1, <1>4 DEF ModeOK, Modes
  <2>6. ModeOK(n)
    BY <1>4, <2>2, <2>4, <2>5 DEF ModeOK
  <2>7. Kind(m) = "line" /\ Kind(n) = IF l THEN "line" ELSE "code"
    BY <1>4, <2>2, <2>4, <2>5 DEF Kind
  <2>8. Turns(x, m, n, tok)
    BY <2>2, <2>7 DEF Turns
  <2>9. QED
    BY <2>6, <2>8
<1>5. CASE ~m.string /\ ~(m.comment > 0) /\ ~m.line /\ m.cartouche > 0
  <2> DEFINE c == Up(m.cartouche, x.vopen, x.vclose, tok)
  <2>1. n = [m EXCEPT !.cartouche = c]
    BY <1>5 DEF Lexed, Up
  <2>2. c \in Nat
    BY <1>1, <1>5 DEF Modes, Up
  <2> HIDE DEF c
  <2>4. /\ n \in Modes /\ n.string = m.string /\ n.skip = m.skip /\ n.comment = m.comment
        /\ n.line = m.line /\ n.cartouche = c
    BY <1>1, <2>1, <2>2 DEF Modes
  <2>5. m.comment = 0 /\ ~m.skip /\ m.cartouche \in Nat
    BY <1>1, <1>5 DEF ModeOK, Modes
  <2>6. ModeOK(n)
    BY <1>5, <2>2, <2>4, <2>5 DEF ModeOK
  <2>7. /\ Kind(m) = "verbatim" /\ Depth(m) = m.cartouche /\ Depth(n) = c
        /\ Kind(n) = IF c = 0 THEN "code" ELSE "verbatim"
    BY <1>5, <2>2, <2>4, <2>5 DEF Kind, Depth
  <2>8. Turns(x, m, n, tok)
    BY <2>7 DEF Turns, c
  <2>9. QED
    BY <2>6, <2>8
<1>6. CASE ~m.string /\ ~(m.comment > 0) /\ ~m.line /\ ~(m.cartouche > 0)
  <2> DEFINE s == tok = "str"
  <2> DEFINE l == tok = x.line
  <2> DEFINE o == IF tok = x.open THEN 1 ELSE 0
  <2> DEFINE v == IF tok = x.vopen THEN 1 ELSE 0
  <2> DEFINE b == Up(m.bracket, "(", ")", tok)
  <2>1. n = [m EXCEPT !.string = s, !.line = l, !.comment = o, !.cartouche = v, !.bracket = b]
    BY <1>6 DEF Lexed, Up
  <2>2. /\ s \in BOOLEAN /\ l \in BOOLEAN /\ o \in Nat /\ v \in Nat
    OBVIOUS
  <2>3. b \in Int
    BY <1>1 DEF Modes, Up
  <2>4. /\ s <=> tok = "str"
        /\ l <=> tok = x.line
        /\ o = IF tok = x.open THEN 1 ELSE 0
        /\ v = IF tok = x.vopen THEN 1 ELSE 0
    OBVIOUS
  <2> HIDE DEF s, l, o, v, b
  <2>5. /\ n \in Modes /\ n.string = s /\ n.skip = m.skip /\ n.comment = o
        /\ n.line = l /\ n.cartouche = v
    BY <1>1, <2>1, <2>2, <2>3 DEF Modes
  <2>6. ~m.skip
    BY <1>6 DEF ModeOK
  <2>7. ModeOK(n)
    BY <1>0, <2>2, <2>4, <2>5, <2>6 DEF ModeOK
  <2>8. /\ Kind(m) = "code"
        /\ Kind(n) = IF tok = x.open THEN "comment" ELSE
                     IF tok = x.line THEN "line" ELSE
                     IF tok = x.vopen THEN "verbatim" ELSE
                     IF tok = "str" THEN "string" ELSE "code"
        /\ Kind(n) \in {"comment", "verbatim"} => Depth(n) = 1
    BY <1>0, <1>6, <2>4, <2>5 DEF Kind, Depth
  <2>9. Turns(x, m, n, tok)
    BY <2>5, <2>6, <2>8 DEF Turns
  <2>10. QED
    BY <2>7, <2>9
<1>7. QED
  BY <1>2, <1>3, <1>4, <1>5, <1>6

-----------------------------------------------------------------------------
(* The text, its labels and the lexer's way through it.                    *)

\* What the author means by the k-th token.
Meaning(x, w, t, k) ==
  IF w[k - 1] = "string" THEN "string" ELSE
  IF w[k - 1] = "verbatim" THEN "verbatim" ELSE
  IF w[k - 1] = "code" /\ t[k] \notin {x.open, x.line} THEN "code" ELSE "comment"

\* The lexer has come to the mode m; the prose that stands between scopes is
\* labelled without its cartouche.
Reached(m, w, d, q, n) ==
  /\ w[n] = Kind(m)
  /\ Kind(m) \in {"comment", "verbatim"} => d[n] = Depth(m)
  /\ Kind(m) = "string" => q[n] = m.skip
Named(x, job, w, t, k, lex) ==
  \/ lex = Meaning(x, w, t, k)
  \/ job = "scope" /\ lex # "comment" /\ Meaning(x, w, t, k) # "comment"
Tracked(x, job, t, m, l, w, d, q) ==
  /\ Track(x, w, d, q, t)
  /\ Reached(m, w, d, q, Len(t))
  /\ \A k \in 1..Len(t) : Named(x, job, w, t, k, l[k].lex)

AsBefore(w, d, q, t, k, v, e, r, u, j) ==
  /\ v[j] = w[k] /\ v[j - 1] = w[k - 1]
  /\ u[j] = t[k] /\ e[j] = d[k] /\ r[j] = q[k]
  /\ w[k - 1] \in {"comment", "verbatim"} => e[j - 1] = d[k - 1]
  /\ w[k - 1] = "string" => r[j - 1] = q[k - 1]

LEMMA TurnSame ==
  ASSUME NEW x, NEW w, NEW d, NEW q, NEW t, NEW k, Turn(x, w, d, q, t, k),
         NEW v, NEW e, NEW r, NEW u, NEW j, AsBefore(w, d, q, t, k, v, e, r, u, j)
  PROVE  Turn(x, v, e, r, u, j)
<1>0. /\ v[j] = w[k] /\ v[j - 1] = w[k - 1] /\ u[j] = t[k] /\ e[j] = d[k] /\ r[j] = q[k]
      /\ w[k - 1] \in {"comment", "verbatim"} => e[j - 1] = d[k - 1]
      /\ w[k - 1] = "string" => r[j - 1] = q[k - 1]
  BY Zenon DEF AsBefore
<1>1. w[k - 1] = "comment" => e[j - 1] = d[k - 1]
  BY <1>0
<1>2. w[k - 1] = "verbatim" => e[j - 1] = d[k - 1]
  BY <1>0
<1>3. v[j] \in Where
  BY <1>0, Zenon DEF Turn
<1>4. v[j - 1] = "code" =>
       /\ v[j] = IF u[j] = x.open THEN "comment" ELSE
                 IF u[j] = x.line THEN "line" ELSE
                 IF u[j] = x.vopen THEN "verbatim" ELSE
                 IF u[j] = "str" THEN "string" ELSE "code"
       /\ e[j] = 1
       /\ r[j] = FALSE
  BY <1>0, Zenon DEF Turn
<1>5. v[j - 1] = "string" =>
       /\ v[j] = IF r[j - 1] \/ u[j] # "str" THEN "string" ELSE "code"
       /\ r[j] = (~r[j - 1] /\ u[j] = "esc")
  BY <1>0, Zenon DEF Turn
<1>6. v[j - 1] = "line" => v[j] = IF u[j] = "nl" THEN "code" ELSE "line"
  BY <1>0, Zenon DEF Turn
<1>7. v[j - 1] = "comment" =>
       /\ e[j] = Up(e[j - 1], x.open, x.close, u[j])
       /\ v[j] = IF e[j] = 0 THEN "code" ELSE "comment"
  BY <1>0, <1>1, Zenon DEF Turn
<1>8. v[j - 1] = "verbatim" =>
       /\ e[j] = Up(e[j - 1], x.vopen, x.vclose, u[j])
       /\ v[j] = IF e[j] = 0 THEN "code" ELSE "verbatim"
  BY <1>0, <1>2, Zenon DEF Turn
<1>9. QED
  BY <1>3, <1>4, <1>5, <1>6, <1>7, <1>8, Zenon DEF Turn

\* More tokens, that the lexer takes from the mode it had come to.
LEMMA TrackMore ==
  ASSUME NEW x, NEW job, NEW t \in Seq(Tokens), NEW u \in Seq(Tokens), NEW m, NEW n,
         NEW l, NEW o, \A k \in 1..Len(t) : o[k] = l[k],
         NEW w, NEW d, NEW q, Tracked(x, job, t, m, l, w, d, q),
         NEW v, NEW e, NEW r, Reached(m, v, e, r, 0), Reached(n, v, e, r, Len(u)),
         \A j \in 1..Len(u) : Turn(x, v, e, r, u, j),
         \A j \in 1..Len(u) : Named(x, job, v, u, j, o[Len(t) + j].lex)
  PROVE  \E w2, d2, q2 : Tracked(x, job, t \o u, n, o, w2, d2, q2)
<1> DEFINE N == Len(t)
<1> DEFINE L == Len(u)
<1> DEFINE s == t \o u
<1>0. N \in Nat /\ L \in Nat
  OBVIOUS
<1>1. /\ Len(s) = N + L
      /\ \A k \in 1..N : s[k] = t[k]
      /\ \A j \in 1..L : s[N + j] = u[j]
  OBVIOUS
<1>2. /\ w[0] = "code"
      /\ \A k \in 1..N : Turn(x, w, d, q, t, k)
      /\ Reached(m, w, d, q, N)
      /\ \A k \in 1..N : Named(x, job, w, t, k, l[k].lex)
  BY Zenon DEF Tracked, Track
<1>3. \A j \in 1..L : Turn(x, v, e, r, u, j) /\ Named(x, job, v, u, j, o[N + j].lex)
  BY Zenon
<1>4. Reached(n, v, e, r, L) /\ \A k \in 1..N : o[k] = l[k]
  BY Zenon
<1> HIDE DEF s, N, L
<1> DEFINE w2 == [k \in 0..(N + L) |-> IF k <= N THEN w[k] ELSE v[k - N]]
<1> DEFINE d2 == [k \in 0..(N + L) |-> IF k <= N THEN d[k] ELSE e[k - N]]
<1> DEFINE q2 == [k \in 0..(N + L) |-> IF k <= N THEN q[k] ELSE r[k - N]]
<1>5. \A k \in 0..N : w2[k] = w[k] /\ d2[k] = d[k]
  BY <1>0
<1>6. \A k \in 0..N : q2[k] = q[k]
  <2>1. \A k \in 0..N : k \in 0..(N + L) /\ k <= N
    BY <1>0
  <2>2. QED
    BY <2>1
<1>7. ASSUME NEW j \in 1..L PROVE w2[N + j] = v[j] /\ d2[N + j] = e[j] /\ q2[N + j] = r[j]
  <2> DEFINE i == N + j
  <2>1. i \in 0..(N + L) /\ ~(i <= N) /\ i - N = j
    BY <1>0
  <2> HIDE DEF i
  <2>2. w2[i] = v[i - N] /\ d2[i] = e[i - N] /\ q2[i] = r[i - N]
    BY <2>1, Zenon
  <2> HIDE DEF w2, d2, q2
  <2>3. w2[i] = v[j] /\ d2[i] = e[j] /\ q2[i] = r[j]
    BY <2>1, <2>2, Zenon
  <2>4. QED
    BY <2>3 DEF i
<1> HIDE DEF w2, d2, q2
\* Where the two parts meet, they agree in what the mode m needs.
<1>9. ASSUME NEW j \in 0..L
      PROVE  /\ w2[N + j] = v[j]
             /\ v[j] \in {"comment", "verbatim"} => d2[N + j] = e[j]
             /\ v[j] = "string" => q2[N + j] = r[j]
  <2>1. CASE j = 0
    <3>1. N + j = N /\ N \in 0..N
      BY <1>0, <2>1
    <3>2. w2[N] = w[N] /\ d2[N] = d[N] /\ q2[N] = q[N]
      BY <1>5, <1>6, <3>1
    <3>3. /\ w[N] = Kind(m) /\ v[0] = Kind(m)
          /\ Kind(m) \in {"comment", "verbatim"} => d[N] = e[0]
          /\ Kind(m) = "string" => q[N] = r[0]
      <4>1. Kind(m) \in {"comment", "verbatim"} => d[N] = Depth(m) /\ e[0] = Depth(m)
        BY <1>2, Zenon DEF Reached
      <4>2. Kind(m) = "string" => q[N] = m.skip /\ r[0] = m.skip
        BY <1>2, Zenon DEF Reached
      <4>3. w[N] = Kind(m) /\ v[0] = Kind(m)
        BY <1>2, Zenon DEF Reached
      <4>4. QED
        BY <4>1, <4>2, <4>3, Zenon
    <3>4. QED
      BY <2>1, <3>1, <3>2, <3>3, Zenon
  <2>2. CASE j # 0
    <3>1. j \in 1..L
      BY <1>0, <2>2
    <3>2. QED
      BY <1>7, <3>1, Zenon
  <2>3. QED
    BY <2>1, <2>2
<1>10. ASSUME NEW k \in 1..N PROVE Turn(x, w2, d2, q2, s, k) /\ Named(x, job, w2, s, k, o[k].lex)
  <2>1. k \in 0..N /\ k - 1 \in 0..N
    BY <1>0
  <2>2. /\ w2[k] = w[k] /\ w2[k - 1] = w[k - 1] /\ d2[k] = d[k] /\ d2[k - 1] = d[k - 1]
        /\ s[k] = t[k] /\ o[k] = l[k]
    BY <1>1, <1>4, <1>5, <2>1
  <2>3. q2[k] = q[k] /\ q2[k - 1] = q[k - 1]
    BY <1>6, <2>1
  <2>4. Turn(x, w, d, q, t, k) /\ Named(x, job, w, t, k, l[k].lex)
    BY <1>2
  <2>5. Turn(x, w2, d2, q2, s, k)
    <3>1. AsBefore(w, d, q, t, k, w2, d2, q2, s, k)
      BY <2>2, <2>3, Zenon DEF AsBefore
    <3>2. QED
      BY <2>4, <3>1, TurnSame, Zenon
  <2>6. Named(x, job, w2, s, k, o[k].lex)
    BY <2>2, <2>4, Zenon DEF Named, Meaning
  <2>7. QED
    BY <2>5, <2>6
<1>11. ASSUME NEW j \in 1..L
       PROVE  Turn(x, w2, d2, q2, s, N + j) /\ Named(x, job, w2, s, N + j, o[N + j].lex)
  <2>1. j \in 0..L /\ j - 1 \in 0..L /\ (N + j) - 1 = N + (j - 1)
    BY <1>0
  <2>2. s[N + j] = u[j] /\ w2[N + j] = v[j] /\ d2[N + j] = e[j] /\ q2[N + j] = r[j]
    BY <1>1, <1>7, Zenon
  <2>3. /\ w2[(N + j) - 1] = v[j - 1]
        /\ v[j - 1] \in {"comment", "verbatim"} => d2[(N + j) - 1] = e[j - 1]
        /\ v[j - 1] = "string" => q2[(N + j) - 1] = r[j - 1]
    BY <1>9, <2>1, Zenon
  <2>4. Turn(x, v, e, r, u, j) /\ Named(x, job, v, u, j, o[N + j].lex)
    BY <1>3
  <2>5. Turn(x, w2, d2, q2, s, N + j)
    <3>1. AsBefore(v, e, r, u, j, w2, d2, q2, s, N + j)
      BY <2>2, <2>3, Zenon DEF AsBefore
    <3>2. QED
      BY <2>4, <3>1, TurnSame, Zenon
  <2>6. Named(x, job, w2, s, N + j, o[N + j].lex)
    <3>1. Meaning(x, w2, s, N + j) = Meaning(x, v, u, j)
      BY <2>2, <2>3, Zenon DEF Meaning
    <3>2. QED
      BY <2>4, <3>1, Zenon DEF Named
  <2>7. QED
    BY <2>5, <2>6
<1>12. ASSUME NEW k \in 1..(N + L)
       PROVE  Turn(x, w2, d2, q2, s, k) /\ Named(x, job, w2, s, k, o[k].lex)
  <2>1. CASE k \in 1..N
    BY <1>10, <2>1
  <2>2. CASE k \notin 1..N
    <3>1. k - N \in 1..L /\ N + (k - N) = k
      BY <1>0, <2>2
    <3>2. Turn(x, w2, d2, q2, s, N + (k - N)) /\ Named(x, job, w2, s, N + (k - N), o[N + (k - N)].lex)
      BY <1>11, <3>1, Zenon
    <3>3. QED
      BY <3>1, <3>2, Zenon
  <2>3. QED
    BY <2>1, <2>2
<1>13. w2[0] = "code"
  BY <1>0, <1>2, <1>5
<1>14. Reached(n, w2, d2, q2, N + L)
  <2>1. L \in 0..L
    BY <1>0
  <2>2. QED
    BY <1>4, <1>9, <2>1, Zenon DEF Reached
<1>15. Tracked(x, job, s, n, o, w2, d2, q2)
  BY <1>1, <1>12, <1>13, <1>14, Zenon DEF Tracked, Track
<1>16. QED
  BY <1>15 DEF s

-----------------------------------------------------------------------------
(* What is written.                                                        *)

Labels == [lex : {"string", "verbatim", "code", "comment"}, part : Parts]
TextInv ==
  /\ kit \in Kits
  /\ text \in Seq(Tokens)
  /\ label \in Seq(Labels) /\ Len(label) = Len(text)
  /\ ModeOK(mode)
  /\ kit.job = "scope" => Kind(mode) = "code" /\ scopes \in Seq([kind : {"module", "section"}, name : {"A", "B"}])
  /\ \E w, d, q : Tracked(Syntax[prover], kit.job, text, mode, label, w, d, q)

\* The tokens that no grammar takes for code.
Marks == {None, "str", "--", "/-", "(*", "<o>"}

LEMMA MarksAll ==
  ASSUME NEW p \in DOMAIN Syntax, NEW x, x = Syntax[p]
  PROVE  x.open \in Marks /\ x.line \in Marks /\ x.vopen \in Marks
  BY DEF Syntax, None, Marks

LEMMA CodeMode == ModeOK(Code) /\ Kind(Code) = "code"
<1> DEFINE no == FALSE
<1> DEFINE s == "stmt"
<1>1. no \in BOOLEAN /\ ~no /\ s \in Parts
  BY DEF Parts
<1>2. Code = [string |-> no, skip |-> no, comment |-> 0, quoted |-> no, line |-> no,
              cartouche |-> 0, bracket |-> 0, part |-> s]
  BY DEF Code
<1> HIDE DEF no, s
<1>3. /\ Code \in Modes
      /\ Code.string = no /\ Code.skip = no /\ Code.line = no
      /\ Code.comment = 0 /\ Code.cartouche = 0
  BY <1>1, <1>2 DEF Modes
<1>4. QED
  BY <1>1, <1>3 DEF ModeOK, Kind

LEMMA InCodeKind == ASSUME NEW m, ModeOK(m), InCode(m) PROVE Kind(m) = "code"
  BY DEF InCode, Kind, ModeOK, Modes

\* Plain tokens leave the lexer in code.
LEMMA PlainTracks ==
  ASSUME NEW p \in DOMAIN Syntax, NEW x, x = Syntax[p], NEW job, NEW t \in Seq(Tokens),
         NEW u \in Seq(Tokens), \A j \in 1..Len(u) : u[j] \notin Marks,
         NEW m, NEW n, Kind(m) = "code", Kind(n) = "code",
         NEW l, NEW o, \A k \in 1..Len(t) : o[k] = l[k],
         \A j \in 1..Len(u) : o[Len(t) + j].lex = "code",
         NEW w, NEW d, NEW q, Tracked(x, job, t, m, l, w, d, q)
  PROVE  \E w2, d2, q2 : Tracked(x, job, t \o u, n, o, w2, d2, q2)
<1> DEFINE v == [j \in 0..Len(u) |-> "code"]
<1> DEFINE e == [j \in 0..Len(u) |-> 1]
<1> DEFINE r == [j \in 0..Len(u) |-> FALSE]
<1>1. \A j \in 0..Len(u) : v[j] = "code" /\ e[j] = 1
  OBVIOUS
<1>2. \A j \in 0..Len(u) : r[j] = FALSE
  BY Zenon
<1> HIDE DEF v, e, r
<1>3. "code" \in Where /\ "code" \notin {"string", "line", "comment", "verbatim"}
  BY DEF Where
<1>4. ASSUME NEW j \in 1..Len(u)
      PROVE  Turn(x, v, e, r, u, j) /\ Named(x, job, v, u, j, o[Len(t) + j].lex)
  <2>1. j \in 0..Len(u) /\ j - 1 \in 0..Len(u)
    OBVIOUS
  <2>2. v[j] = "code" /\ e[j] = 1 /\ v[j - 1] = "code"
    BY <1>1, <2>1
  <2>3. r[j] = FALSE
    BY <1>2, <2>1, Zenon
  <2>4. u[j] # x.open /\ u[j] # x.line /\ u[j] # x.vopen /\ u[j] # "str"
    BY MarksAll DEF Marks
  <2>5. Turn(x, v, e, r, u, j)
    BY <1>3, <2>2, <2>3, <2>4, Zenon DEF Turn
  <2>6. Meaning(x, v, u, j) = "code"
    BY <2>2, <2>4 DEF Meaning
  <2>7. QED
    BY <2>5, <2>6, Zenon DEF Named
<1>5. Reached(m, v, e, r, 0) /\ Reached(n, v, e, r, Len(u))
  <2>1. 0 \in 0..Len(u) /\ Len(u) \in 0..Len(u)
    OBVIOUS
  <2>2. v[0] = "code" /\ v[Len(u)] = "code"
    BY <1>1, <2>1
  <2>3. QED
    BY <1>3, <2>2 DEF Reached
<1>6. QED
  BY <1>4, <1>5, TrackMore, Zenon

LEMMA NothingTracked ==
  ASSUME NEW x, NEW job, NEW m, Kind(m) = "code", NEW l
  PROVE  \E w, d, q : Tracked(x, job, <<>>, m, l, w, d, q)
<1> DEFINE w == [k \in {0} |-> "code"]
<1>1. w[0] = "code"
  OBVIOUS
<1>2. 1..Len(<<>>) = {} /\ Len(<<>>) = 0
  OBVIOUS
<1> HIDE DEF w
<1>3. "code" \notin {"string", "comment", "verbatim"}
  OBVIOUS
<1>4. Tracked(x, job, <<>>, m, l, w, w, w)
  BY <1>1, <1>2, <1>3 DEF Tracked, Track, Reached
<1>5. QED
  BY <1>4

LEMMA TypeStep ==
  ASSUME TextInv, kit.job # "scope", NEW tok \in Tokens, ~Strays(mode, tok), Type(tok)
  PROVE  TextInv'
<1> DEFINE x == Syntax[prover]
<1> DEFINE u == <<tok>>
<1>0. prover \in DOMAIN Syntax
  BY KitsAssumption DEF TextInv, prover
<1>1. /\ text' = Append(text, tok) /\ label' = Append(label, Means(mode, tok))
      /\ mode' = Lexed(mode, tok) /\ kit' = kit /\ scopes' = scopes
  BY DEF Type
<1>2. text \in Seq(Tokens) /\ label \in Seq(Labels) /\ Len(label) = Len(text) /\ ModeOK(mode)
  BY DEF TextInv
<1>3. text' = text \o u
  BY <1>1, <1>2
<1>4. text' \in Seq(Tokens)
  BY <1>1, <1>2
<1>5. ModeOK(mode') /\ Turns(x, mode, mode', tok)
  <2>1. tok # None
    BY RealTokens
  <2>2. QED
    BY <1>0, <1>1, <1>2, <2>1, LexedTurns
<1>6. Means(mode, tok) \in Labels
  <2>1. mode.part \in Parts
    BY <1>2 DEF ModeOK, Modes
  <2>2. mode.string \in BOOLEAN
    BY <1>2 DEF ModeOK, Modes
  <2> DEFINE l == CASE mode.string        -> "string"
                    [] mode.cartouche > 0 -> "verbatim"
                    [] InCode(mode) /\ tok \notin {x.open, x.line} -> "code"
                    [] OTHER -> "comment"
  <2>3. l \in {"string", "verbatim", "code", "comment"}
    OBVIOUS
  <2>4. Means(mode, tok) = [lex |-> l, part |-> mode.part]
    BY DEF Means
  <2> HIDE DEF l
  <2>5. QED
    BY <2>1, <2>3, <2>4 DEF Labels
<1>7. /\ label' \in Seq(Labels) /\ Len(label') = Len(text')
      /\ \A k \in 1..Len(text) : label'[k] = label[k]
      /\ label'[Len(text) + 1] = Means(mode, tok)
  BY <1>1, <1>2, <1>6
<1>8. PICK w, d, q : Tracked(x, kit.job, text, mode, label, w, d, q)
  BY Zenon DEF TextInv
<1> DEFINE v == [j \in 0..1 |-> IF j = 0 THEN Kind(mode) ELSE Kind(mode')]
<1> DEFINE e == [j \in 0..1 |-> IF j = 0 THEN Depth(mode)
                                ELSE IF Kind(mode) = "code" THEN 1 ELSE Depth(mode')]
<1> DEFINE r == [j \in 0..1 |-> IF j = 0 THEN mode.skip ELSE mode'.skip]
<1>9. v[0] = Kind(mode) /\ v[1] = Kind(mode') /\ e[0] = Depth(mode)
  OBVIOUS
<1>10. e[1] = IF Kind(mode) = "code" THEN 1 ELSE Depth(mode')
  OBVIOUS
<1>11. r[0] = mode.skip /\ r[1] = mode'.skip
  <2>1. 0 \in 0..1 /\ 1 \in 0..1 /\ 1 # 0
    OBVIOUS
  <2>2. QED
    BY <2>1, Zenon
<1> HIDE DEF v, e, r, x
<1>12. \A j \in 1..Len(u) : j = 1
  OBVIOUS
<1>13. u[1] = tok /\ Len(u) = 1
  OBVIOUS
<1> HIDE DEF u
<1>14. Reached(mode, v, e, r, 0)
  BY <1>9, <1>11, Zenon DEF Reached
<1>15. Reached(mode', v, e, r, Len(u))
  <2>1. Kind(mode') \in {"comment", "verbatim"} => e[1] = Depth(mode')
    BY <1>5, <1>10 DEF Turns
  <2>2. QED
    BY <1>9, <1>11, <1>13, <2>1, Zenon DEF Reached
<1>16. Turn(x, v, e, r, u, 1)
  <2>0. 1 - 1 = 0
    OBVIOUS
  <2>1. Kind(mode') \in Where
    BY DEF Kind, Where
  <2>2. mode.skip \in BOOLEAN /\ mode'.skip \in BOOLEAN
    BY <1>5, <1>2 DEF ModeOK, Modes
  <2>3. Kind(mode) = "code" => r[1] = FALSE
    <3>1. Kind(mode) = "code" => ~mode'.skip
      BY <1>5, Zenon DEF Turns
    <3>2. QED
      BY <1>11, <2>2, <3>1, Zenon
  <2>4. Kind(mode) = "string" => r[1] = (~r[0] /\ tok = "esc")
    <3>1. Kind(mode) = "string" => (mode'.skip <=> (~mode.skip /\ tok = "esc"))
      BY <1>5, Zenon DEF Turns
    <3>2. QED
      BY <1>11, <2>2, <3>1, Zenon
  <2>5. Kind(mode) = "code" =>
          /\ v[1] = IF tok = x.open THEN "comment" ELSE
                    IF tok = x.line THEN "line" ELSE
                    IF tok = x.vopen THEN "verbatim" ELSE
                    IF tok = "str" THEN "string" ELSE "code"
          /\ e[1] = 1
    BY <1>5, <1>9, <1>10, Zenon DEF Turns
  <2>6. Kind(mode) = "string" => v[1] = IF r[0] \/ tok # "str" THEN "string" ELSE "code"
    BY <1>5, <1>9, <1>11, Zenon DEF Turns
  <2>7. Kind(mode) = "line" => v[1] = IF tok = "nl" THEN "code" ELSE "line"
    BY <1>5, <1>9, Zenon DEF Turns
  <2>8. "comment" # "code" /\ "verbatim" # "code"
    OBVIOUS
  <2>9. Kind(mode) = "comment" =>
          /\ e[1] = Up(e[0], x.open, x.close, tok)
          /\ v[1] = IF e[1] = 0 THEN "code" ELSE "comment"
    BY <1>5, <1>9, <1>10, <2>8, Zenon DEF Turns
  <2>10. Kind(mode) = "verbatim" =>
          /\ e[1] = Up(e[0], x.vopen, x.vclose, tok)
          /\ v[1] = IF e[1] = 0 THEN "code" ELSE "verbatim"
    BY <1>5, <1>9, <1>10, <2>8, Zenon DEF Turns
  <2>11. QED
    BY <1>9, <1>13, <2>0, <2>1, <2>3, <2>4, <2>5, <2>6, <2>7, <2>9, <2>10, Zenon DEF Turn
<1>17. Means(mode, tok).lex = Meaning(x, v, u, 1)
  <2>1. v[1 - 1] = Kind(mode)
    BY <1>9
  <2>2. Meaning(x, v, u, 1) =
          IF Kind(mode) = "string" THEN "string" ELSE
          IF Kind(mode) = "verbatim" THEN "verbatim" ELSE
          IF Kind(mode) = "code" /\ tok \notin {x.open, x.line} THEN "code" ELSE "comment"
    BY <1>13, <2>1, Zenon DEF Meaning
  <2>3. mode \in Modes
    BY <1>2 DEF ModeOK
  <2>4. mode.string => mode.cartouche = 0 /\ Kind(mode) = "string"
    BY <1>2 DEF ModeOK, Kind
  <2>5. mode.cartouche > 0 <=> Kind(mode) = "verbatim"
    BY <1>2, <2>3 DEF ModeOK, Modes, Kind
  <2>6. InCode(mode) <=> Kind(mode) = "code"
    BY <1>2, <2>3 DEF ModeOK, Modes, Kind, InCode
  <2>7. mode.string <=> Kind(mode) = "string"
    BY <2>3 DEF Kind, Modes
  <2>8. Means(mode, tok).lex =
          CASE mode.string        -> "string"
            [] mode.cartouche > 0 -> "verbatim"
            [] InCode(mode) /\ tok \notin {x.open, x.line} -> "code"
            [] OTHER -> "comment"
    BY DEF Means, x
  <2>9. QED
    BY <2>2, <2>4, <2>5, <2>6, <2>7, <2>8
<1>18. \E w2, d2, q2 : Tracked(x, kit.job, text \o u, mode', label', w2, d2, q2)
  <2>1. u \in Seq(Tokens)
    BY DEF u
  <2>2. \A j \in 1..Len(u) : Turn(x, v, e, r, u, j)
    BY <1>12, <1>16, Zenon
  <2>3. \A j \in 1..Len(u) : Named(x, kit.job, v, u, j, label'[Len(text) + j].lex)
    BY <1>7, <1>12, <1>17, Zenon DEF Named
  <2>4. \A k \in 1..Len(text) : label'[k] = label[k]
    BY <1>7
  <2>5. QED
    BY <1>2, <1>8, <1>14, <1>15, <2>1, <2>2, <2>3, <2>4, TrackMore, Zenon
<1>19. prover' = prover
  BY <1>1 DEF prover
<1>20. QED
  BY <1>1, <1>3, <1>4, <1>5, <1>7, <1>18, <1>19, Zenon DEF TextInv, x

PlainTokens == Tokens \ Marks
Scopes == Seq([kind : {"module", "section"}, name : {"A", "B"}])

\* A phrase of the grammar leaves the lexer in code.
LEMMA PhraseStep ==
  ASSUME TextInv, NEW toks \in Seq(PlainTokens), NEW part \in Parts, Phrase(toks, part),
         kit' = kit, ModeOK(mode'), Kind(mode) = "code", Kind(mode') = "code",
         kit.job = "scope" => scopes' \in Scopes
  PROVE  TextInv'
<1>0. prover \in DOMAIN Syntax
  BY KitsAssumption DEF TextInv, prover
<1>1. /\ text' = text \o toks
      /\ label' = label \o [k \in DOMAIN toks |-> [lex |-> "code", part |-> part]]
  BY DEF Phrase
<1>2. text \in Seq(Tokens) /\ label \in Seq(Labels) /\ Len(label) = Len(text)
  BY DEF TextInv
<1>3. toks \in Seq(Tokens) /\ \A j \in 1..Len(toks) : toks[j] \notin Marks
  BY DEF PlainTokens
<1> DEFINE name == [lex |-> "code", part |-> part]
<1> DEFINE names == [k \in DOMAIN toks |-> name]
<1>4. name \in Labels /\ name.lex = "code"
  BY DEF Labels
<1> HIDE DEF name
<1>5. /\ names \in Seq(Labels) /\ Len(names) = Len(toks)
      /\ \A j \in 1..Len(toks) : names[j] = name
  BY <1>3, <1>4
<1>6. label' = label \o names
  BY <1>1 DEF name
<1> HIDE DEF names
<1>7. text' \in Seq(Tokens) /\ Len(text') = Len(text) + Len(toks)
  BY <1>1, <1>2, <1>3
<1>8. /\ label' \in Seq(Labels) /\ Len(label') = Len(text')
      /\ \A k \in 1..Len(text) : label'[k] = label[k]
  BY <1>2, <1>3, <1>5, <1>6, <1>7
<1>9. \A j \in 1..Len(toks) : label'[Len(text) + j].lex = "code"
  <2>1. ASSUME NEW j \in 1..Len(toks) PROVE label'[Len(text) + j] = names[j]
    BY <1>2, <1>3, <1>5, <1>6
  <2>2. QED
    BY <1>4, <1>5, <2>1
<1>10. PICK w, d, q : Tracked(Syntax[prover], kit.job, text, mode, label, w, d, q)
  BY Zenon DEF TextInv
<1> DEFINE x == Syntax[prover]
<1>11. x = Syntax[prover]
  OBVIOUS
<1> HIDE DEF x
<1>12. Tracked(x, kit.job, text, mode, label, w, d, q)
  BY <1>10, <1>11, Zenon
<1>13. \E w2, d2, q2 : Tracked(x, kit.job, text \o toks, mode', label', w2, d2, q2)
  BY <1>0, <1>2, <1>3, <1>8, <1>9, <1>11, <1>12, PlainTracks, Zenon
<1>14. prover' = prover /\ kit' \in Kits
  BY DEF prover, TextInv
<1>15. \E w2, d2, q2 : Tracked(Syntax[prover'], kit'.job, text', mode', label', w2, d2, q2)
  BY <1>1, <1>11, <1>13, <1>14, Zenon
<1>16. kit'.job = "scope" => Kind(mode') = "code" /\ scopes' \in Scopes
  OBVIOUS
<1>17. QED
  BY <1>7, <1>8, <1>14, <1>15, <1>16, Zenon DEF TextInv, Scopes

Extends(r, s, t, S) ==
  /\ r \in Seq(S) /\ Len(r) = Len(s) + Len(t)
  /\ \A k \in 1..Len(s) : r[k] = s[k]
  /\ \A j \in 1..Len(t) : r[Len(s) + j] = t[j]
LEMMA Concat ==
  ASSUME NEW S, NEW s \in Seq(S), NEW t \in Seq(S)
  PROVE  Extends(s \o t, s, t, S)
  BY DEF Extends
LEMMA Regroup ==
  ASSUME NEW S, NEW s \in Seq(S), NEW t \in Seq(S), NEW u \in Seq(S)
  PROVE  (s \o t) \o u = s \o (t \o u)
  OBVIOUS

\* A cartouche, as the lexer reads it.
Prose == <<"cmd", "<o>", "nl", "end", "nl", "<c>", "nl">>
LEMMA ProseStep ==
  ASSUME TextInv, WriteProse
  PROVE  TextInv'
<1> DEFINE x == Syntax[prover]
<1> DEFINE u == Prose
<1> DEFINE name == [lex |-> "code", part |-> "stmt"]
<1> DEFINE names == [k \in DOMAIN u |-> name]
<1>1. /\ text' = text \o u /\ label' = label \o names
      /\ kit' = kit /\ mode' = mode /\ scopes' = scopes
      /\ kit.job = "scope" /\ prover = "isabelle"
  BY Zenon DEF WriteProse, Phrase, Scoping, Prose
<1>2. /\ text \in Seq(Tokens) /\ label \in Seq(Labels) /\ Len(label) = Len(text)
      /\ ModeOK(mode) /\ Kind(mode) = "code" /\ kit \in Kits /\ scopes \in Scopes
  BY <1>1 DEF TextInv, Scopes
<1>3. x.open = "(*" /\ x.line = None /\ x.vopen = "<o>" /\ x.vclose = "<c>"
  BY <1>1 DEF Syntax
<1>4. u \in Seq(Tokens) /\ Len(u) = 7
  <2>1. "cmd" \in Tokens /\ "<o>" \in Tokens /\ "nl" \in Tokens /\ "end" \in Tokens /\ "<c>" \in Tokens
    BY DEF Tokens
  <2>2. QED
    BY <2>1 DEF Prose
<1>5. u[1] = "cmd" /\ u[2] = "<o>" /\ u[3] = "nl" /\ u[4] = "end" /\ u[5] = "nl" /\ u[6] = "<c>" /\ u[7] = "nl"
  BY DEF Prose
<1>6. name \in Labels /\ name.lex = "code"
  BY DEF Labels, Parts
<1> HIDE DEF name, u, x
<1>7. /\ names \in Seq(Labels) /\ Len(names) = 7
      /\ \A j \in 1..7 : names[j] = name
  BY <1>4, <1>6
<1> HIDE DEF names
<1>8. /\ text' \in Seq(Tokens) /\ label' \in Seq(Labels) /\ Len(label') = Len(text')
      /\ \A k \in 1..Len(text) : label'[k] = label[k]
      /\ \A j \in 1..7 : label'[Len(text) + j] = names[j]
  <2>0. text' = text \o u /\ label' = label \o names
    BY <1>1
  <2>1. text \in Seq(Tokens) /\ u \in Seq(Tokens) /\ label \in Seq(Labels) /\ names \in Seq(Labels)
    BY <1>2, <1>4, <1>7
  <2>2. Extends(text \o u, text, u, Tokens) /\ Extends(label \o names, label, names, Labels)
    BY <2>1, Concat, Zenon
  <2>3. Extends(text', text, u, Tokens) /\ Extends(label', label, names, Labels)
    BY <2>0, <2>2, Zenon
  <2>4. Len(label) = Len(text) /\ Len(names) = 7 /\ Len(u) = 7
    BY <1>2, <1>4, <1>7
  <2>5. QED
    BY <2>3, <2>4, Zenon DEF Extends
<1>9. \A j \in 1..7 : label'[Len(text) + j].lex = "code"
  BY <1>6, <1>7, <1>8
<1> DEFINE v == [j \in 0..7 |-> IF j \in 2..5 THEN "verbatim" ELSE "code"]
<1> DEFINE e == [j \in 0..7 |-> IF j = 6 THEN 0 ELSE 1]
<1> DEFINE r == [j \in 0..7 |-> FALSE]
<1>10. /\ v[0] = "code" /\ v[1] = "code" /\ v[2] = "verbatim" /\ v[3] = "verbatim"
       /\ v[4] = "verbatim" /\ v[5] = "verbatim" /\ v[6] = "code" /\ v[7] = "code"
  OBVIOUS
<1>11. e[1] = 1 /\ e[2] = 1 /\ e[3] = 1 /\ e[4] = 1 /\ e[5] = 1 /\ e[6] = 0 /\ e[7] = 1
  OBVIOUS
<1>12. \A j \in 0..7 : r[j] = FALSE
  BY Zenon
<1> HIDE DEF v, e, r
<1>13. ASSUME NEW j \in 1..7, v[j - 1] = "code", v[j] = "code", e[j] = 1, u[j] \notin Marks
       PROVE  Turn(x, v, e, r, u, j) /\ Meaning(x, v, u, j) # "comment"
  <2>1. u[j] # x.open /\ u[j] # x.line /\ u[j] # x.vopen /\ u[j] # "str"
    BY <1>3, <1>13 DEF Marks
  <2>2. r[j] = FALSE
    <3>1. j \in 0..7
      BY <1>13
    <3>2. QED
      BY <1>12, <3>1, Zenon
  <2>3. "code" \in Where /\ "code" \notin {"string", "line", "comment", "verbatim"}
    BY DEF Where
  <2>4. Turn(x, v, e, r, u, j)
    BY <1>13, <2>1, <2>2, <2>3, Zenon DEF Turn
  <2>5. QED
    BY <1>13, <2>1, <2>4 DEF Meaning
<1>14. ASSUME NEW j \in 1..7, v[j - 1] = "verbatim",
              e[j] = Up(e[j - 1], "<o>", "<c>", u[j]), v[j] = IF e[j] = 0 THEN "code" ELSE "verbatim"
       PROVE  Turn(x, v, e, r, u, j) /\ Meaning(x, v, u, j) # "comment"
  <2>1. v[j] \in Where
    BY <1>14 DEF Where
  <2>2. "verbatim" \notin {"string", "line", "comment", "code"}
    OBVIOUS
  <2>3. Turn(x, v, e, r, u, j)
    BY <1>3, <1>14, <2>1, <2>2, Zenon DEF Turn
  <2>4. QED
    BY <1>14, <2>3 DEF Meaning
<1>15. Turn(x, v, e, r, u, 2) /\ Meaning(x, v, u, 2) # "comment"
  <2>1. r[2] = FALSE
    <3>1. 2 \in 0..7
      OBVIOUS
    <3>2. QED
      BY <1>12, <3>1, Zenon
  <2>2. "code" \notin {"string", "line", "comment", "verbatim"} /\ "verbatim" \in Where
    BY DEF Where
  <2>3. v[2 - 1] = "code" /\ u[2] # x.open /\ u[2] # x.line /\ u[2] = x.vopen
    BY <1>3, <1>5, <1>10 DEF None
  <2>4. Turn(x, v, e, r, u, 2)
    BY <1>10, <1>11, <2>1, <2>2, <2>3, Zenon DEF Turn
  <2>5. QED
    BY <2>3, <2>4 DEF Meaning
<1>16. ASSUME NEW j \in 1..7
       PROVE  Turn(x, v, e, r, u, j) /\ Meaning(x, v, u, j) # "comment"
  <2>1. CASE j \in {1, 7}
    <3>1. v[j - 1] = "code" /\ v[j] = "code" /\ e[j] = 1 /\ u[j] \notin Marks
      BY <1>5, <1>10, <1>11, <2>1 DEF Marks, None
    <3>2. QED
      BY <1>13, <3>1, Zenon
  <2>2. CASE j \in 3..6
    <3>1. v[j - 1] = "verbatim" /\ e[j] = Up(e[j - 1], "<o>", "<c>", u[j])
      BY <1>5, <1>10, <1>11, <2>2 DEF Up
    <3>2. v[j] = IF e[j] = 0 THEN "code" ELSE "verbatim"
      BY <1>10, <1>11, <2>2
    <3>3. QED
      BY <1>14, <3>1, <3>2, Zenon
  <2>3. CASE j = 2
    BY <1>15, <2>3
  <2>4. QED
    BY <2>1, <2>2, <2>3
<1>17. Reached(mode, v, e, r, 0) /\ Reached(mode', v, e, r, Len(u))
  BY <1>1, <1>2, <1>4, <1>10 DEF Reached
<1>18. \A j \in 1..Len(u) : Named(x, kit.job, v, u, j, label'[Len(text) + j].lex)
  <2>1. "code" # "comment"
    OBVIOUS
  <2>2. QED
    BY <1>1, <1>4, <1>9, <1>16, <2>1, Zenon DEF Named
<1>19. \A j \in 1..Len(u) : Turn(x, v, e, r, u, j)
  BY <1>4, <1>16, Zenon
<1>20. PICK w, d, q : Tracked(x, kit.job, text, mode, label, w, d, q)
  BY Zenon DEF TextInv, x
<1>21. \E w2, d2, q2 : Tracked(x, kit.job, text \o u, mode', label', w2, d2, q2)
  <2>1. \A k \in 1..Len(text) : label'[k] = label[k]
    BY <1>8
  <2>2. QED
    BY <1>2, <1>4, <1>17, <1>18, <1>19, <1>20, <2>1, TrackMore, Zenon
<1>22. prover' = prover
  BY <1>1 DEF prover
<1>23. \E w2, d2, q2 : Tracked(Syntax[prover'], kit'.job, text', mode', label', w2, d2, q2)
  BY <1>1, <1>21, <1>22, Zenon DEF x
<1>24. QED
  BY <1>1, <1>2, <1>8, <1>23, Zenon DEF TextInv, Scopes

LEMMA InitTracked == ASSUME Init PROVE TextInv
<1> DEFINE x == Syntax[prover]
<1> DEFINE u == <<"kw", "f">>
<1>1. /\ kit \in Kits /\ mode = Code /\ scopes = <<>>
      /\ text = (IF kit.job = "statement" THEN u ELSE <<>>)
      /\ label = [k \in DOMAIN text |-> [lex |-> "code", part |-> "head"]]
  BY Zenon DEF Init
<1>2. ModeOK(mode) /\ Kind(mode) = "code" /\ scopes \in Scopes
  BY <1>1, CodeMode DEF Scopes
<1>3. u \in Seq(Tokens) /\ Len(u) = 2 /\ \A j \in 1..Len(u) : u[j] \notin Marks
  <2>1. "kw" \in Tokens /\ "f" \in Tokens
    BY DEF Tokens
  <2>2. "kw" \notin Marks /\ "f" \notin Marks
    BY DEF Marks, None
  <2>3. QED
    BY <2>1, <2>2
<1>4. <<>> \in Seq(Tokens) /\ Len(<<>>) = 0 /\ <<>> \o u = u
  BY <1>3
<1> DEFINE name == [lex |-> "code", part |-> "head"]
<1>5. name \in Labels /\ name.lex = "code"
  BY DEF Labels, Parts
<1>6. label = [k \in DOMAIN text |-> name]
  BY <1>1
<1> HIDE DEF x, u, name
<1>7. text \in Seq(Tokens)
  BY <1>1, <1>3, <1>4
<1>8. /\ label \in Seq(Labels) /\ Len(label) = Len(text)
      /\ \A k \in 1..Len(text) : label[k].lex = "code"
  BY <1>5, <1>6, <1>7
<1>9. prover \in DOMAIN Syntax
  BY <1>1, KitsAssumption DEF prover
<1>10. \E w, d, q : Tracked(x, kit.job, <<>>, mode, label, w, d, q)
  BY <1>2, NothingTracked, Zenon
<1>11. \E w, d, q : Tracked(x, kit.job, text, mode, label, w, d, q)
  <2>1. CASE kit.job = "statement"
    <3>1. PICK w, d, q : Tracked(x, kit.job, <<>>, mode, label, w, d, q)
      BY <1>10, Zenon
    <3>2. text = u
      BY <1>1, <2>1
    <3>3. \A k \in 1..Len(<<>>) : label[k] = label[k]
      OBVIOUS
    <3>4. \A j \in 1..Len(u) : label[Len(<<>>) + j].lex = "code"
      BY <1>3, <1>4, <1>8, <3>2
    <3>5. x = Syntax[prover]
      BY DEF x
    <3>6. \E w2, d2, q2 : Tracked(x, kit.job, <<>> \o u, mode, label, w2, d2, q2)
      BY <1>2, <1>3, <1>4, <1>9, <3>1, <3>3, <3>4, <3>5, PlainTracks, Zenon
    <3>7. QED
      BY <1>4, <3>2, <3>6, Zenon
  <2>2. CASE kit.job # "statement"
    BY <1>1, <1>10, <2>2
  <2>3. QED
    BY <2>1, <2>2
<1>12. QED
  BY <1>1, <1>2, <1>7, <1>8, <1>11, Zenon DEF TextInv, x, Scopes

LEMMA Plains ==
  {"kw", "f", "w", "nl", "let", ":=", "where", "|", "=>", ".", "by", "..", "cmd",
   "module", "section", "locale", "begin", "end", "in", "-", "A", "B"} \subseteq PlainTokens
  BY DEF PlainTokens, Tokens, Marks, None

LEMMA StatementStep ==
  ASSUME TextInv, ~strayed', Write \/ WriteInside \/ WriteStatement \/ WriteProof
  PROVE  TextInv'
<1>1. kit \in Kits /\ kit.tokens \subseteq Tokens
  BY DEF TextInv, Tokens
<1>2. ASSUME NEW tok \in Tokens, kit.job # "scope", Type(tok) PROVE TextInv'
  <2>1. ~Strays(mode, tok)
    BY <1>2 DEF Type
  <2>2. QED
    BY <1>2, <2>1, TypeStep
<1>3. CASE Write
  <2>1. kit.job = "lex" /\ \E tok \in kit.tokens : Type(tok)
    BY <1>3 DEF Write
  <2>2. QED
    BY <1>1, <1>2, <2>1
<1>4. CASE WriteInside
  <2>1. kit.job = "statement" /\ \E tok \in kit.tokens : Type(tok)
    BY <1>4 DEF WriteInside, Writing
  <2>2. QED
    BY <1>1, <1>2, <2>1
<1>5. CASE WriteStatement
  <2>1. kit.job = "statement" /\ \E tok \in kit.tokens : Type(tok)
    BY <1>5 DEF WriteStatement, Writing
  <2>2. QED
    BY <1>1, <1>2, <2>1
<1>6. CASE WriteProof
  <2>1. kit.job = "statement" /\ \E tok \in {"w", "nl"} : Type(tok)
    BY <1>6 DEF WriteProof, Writing
  <2>2. "w" \in Tokens /\ "nl" \in Tokens
    BY DEF Tokens
  <2>3. QED
    BY <1>2, <2>1, <2>2
<1>7. QED
  BY <1>3, <1>4, <1>5, <1>6

LEMMA PartKind ==
  ASSUME NEW m, ModeOK(m), NEW p \in Parts, NEW n, n = [m EXCEPT !.part = p]
  PROVE  ModeOK(n) /\ Kind(n) = Kind(m)
<1>1. /\ n \in Modes /\ n.string = m.string /\ n.skip = m.skip /\ n.comment = m.comment
      /\ n.line = m.line /\ n.cartouche = m.cartouche
  BY DEF ModeOK, Modes
<1>2. QED
  BY <1>1 DEF ModeOK, Kind

LEMMA DeclarationStep ==
  ASSUME TextInv, WriteLet \/ EndStatement \/ NextCommand
  PROVE  TextInv'
<1>0. /\ kit' = kit /\ ModeOK(mode) /\ InCode(mode) /\ kit.job # "scope" /\ kit \in Kits
  BY DEF TextInv, WriteLet, EndStatement, NextCommand, Writing
<1>1. Kind(mode) = "code" /\ prover \in DOMAIN Syntax
  BY <1>0, InCodeKind, KitsAssumption DEF prover
<1>2. "stmt" \in Parts /\ "proof" \in Parts /\ "after" \in Parts
  BY DEF Parts
<1>3. CASE WriteLet
  <2>1. Phrase(<<"let", "w", ":=">>, "stmt") /\ mode' = mode
    BY <1>3 DEF WriteLet
  <2>2. <<"let", "w", ":=">> \in Seq(PlainTokens)
    BY Plains
  <2>3. QED
    BY <1>0, <1>1, <1>2, <2>1, <2>2, PhraseStep, Zenon
<1>4. CASE EndStatement
  <2>1. PICK end \in Ends[prover] : Phrase(end, "proof")
    BY <1>4, Zenon DEF EndStatement
  <2>2. mode' = [mode EXCEPT !.part = "proof"]
    BY <1>4, Zenon DEF EndStatement
  <2>3. ModeOK(mode') /\ Kind(mode') = "code"
    BY <1>0, <1>1, <1>2, <2>2, PartKind, Zenon
  <2>4. end \in Seq(PlainTokens)
    <3>1. /\ <<":=">> \in Seq(PlainTokens) /\ <<"where">> \in Seq(PlainTokens)
          /\ <<"nl", "|", "w", "=>">> \in Seq(PlainTokens) /\ <<".", "nl">> \in Seq(PlainTokens)
          /\ <<"by">> \in Seq(PlainTokens) /\ <<"..", "nl">> \in Seq(PlainTokens)
      BY Plains
    <3>2. end \in {<<":=">>, <<"where">>, <<"nl", "|", "w", "=>">>, <<".", "nl">>,
                   <<"by">>, <<"..", "nl">>}
      BY <1>1, <2>1 DEF Ends, Syntax
    <3>3. QED
      BY <3>1, <3>2, Zenon
  <2>5. QED
    BY <1>0, <1>1, <1>2, <2>1, <2>3, <2>4, PhraseStep, Zenon
<1>5. CASE NextCommand
  <2>1. PICK next \in {<<"nl", "kw", "w">>, <<"nl", "cmd", "w">>} : Phrase(next, "after")
    BY <1>5, Zenon DEF NextCommand
  <2>2. mode' = [mode EXCEPT !.part = "after"]
    BY <1>5, Zenon DEF NextCommand
  <2>3. ModeOK(mode') /\ Kind(mode') = "code"
    BY <1>0, <1>1, <1>2, <2>2, PartKind, Zenon
  <2>4. next \in Seq(PlainTokens)
    <3>1. <<"nl", "kw", "w">> \in Seq(PlainTokens) /\ <<"nl", "cmd", "w">> \in Seq(PlainTokens)
      BY Plains
    <3>2. QED
      BY <2>1, <3>1, Zenon
  <2>5. QED
    BY <1>0, <1>1, <1>2, <2>1, <2>3, <2>4, PhraseStep, Zenon
<1>6. QED
  BY <1>3, <1>4, <1>5

LEMMA LastFront ==
  ASSUME NEW S, NEW s \in Seq(S), s # <<>>
  PROVE  Last(s) \in S /\ Front(s) \in Seq(S)
  BY DEF Last, Front

LEMMA ScopesStep ==
  ASSUME TextInv, OpenScope \/ DeclareLocale \/ CloseScope \/ Declare \/ DeclareIn
  PROVE  TextInv'
<1>0. kit.job = "scope" /\ kit' = kit /\ mode' = mode
  BY Zenon DEF OpenScope, DeclareLocale, CloseScope, Declare, DeclareIn, Scoping
<1>1. ModeOK(mode) /\ Kind(mode) = "code" /\ scopes \in Scopes
  BY <1>0 DEF TextInv, Scopes
<1>2. "stmt" \in Parts
  BY DEF Parts
<1>3. ASSUME NEW toks \in Seq(PlainTokens), Phrase(toks, "stmt"), scopes' \in Scopes
      PROVE  TextInv'
  BY <1>0, <1>1, <1>2, <1>3, PhraseStep, Zenon
<1>4. \A name \in Names : name \in {"A", "B"} /\ name \in PlainTokens
  BY Plains DEF Names
<1>5. ASSUME NEW name \in Names, NEW kind \in {"module", "section"},
             scopes' = Append(scopes, [kind |-> kind, name |-> name])
      PROVE  scopes' \in Scopes
  BY <1>1, <1>4, <1>5 DEF Scopes
<1>6. CASE OpenScope
  <2>1. PICK name \in Names, kind \in {"module", "section"} :
          /\ Phrase(IF prover # "isabelle" THEN <<kind, name, "nl">>
                    ELSE IF kind = "module" THEN <<"module", name, "nl", "begin", "nl">>
                    ELSE <<"section", "begin", "nl">>, "stmt")
          /\ scopes' = Append(scopes, [kind |-> kind, name |-> name])
    BY <1>6, Zenon DEF OpenScope
  <2> DEFINE line == IF prover # "isabelle" THEN <<kind, name, "nl">>
                     ELSE IF kind = "module" THEN <<"module", name, "nl", "begin", "nl">>
                     ELSE <<"section", "begin", "nl">>
  <2>2. line \in Seq(PlainTokens)
    <3>1. name \in PlainTokens /\ kind \in PlainTokens /\ "nl" \in PlainTokens
          /\ "module" \in PlainTokens /\ "begin" \in PlainTokens /\ "section" \in PlainTokens
      BY <1>4, Plains
    <3>2. /\ <<kind, name, "nl">> \in Seq(PlainTokens)
          /\ <<"module", name, "nl", "begin", "nl">> \in Seq(PlainTokens)
          /\ <<"section", "begin", "nl">> \in Seq(PlainTokens)
      BY <3>1
    <3> DEFINE one == <<kind, name, "nl">>
    <3> DEFINE two == <<"module", name, "nl", "begin", "nl">>
    <3> DEFINE three == <<"section", "begin", "nl">>
    <3>3. one \in Seq(PlainTokens) /\ two \in Seq(PlainTokens) /\ three \in Seq(PlainTokens)
      BY <3>2
    <3>4. line = IF prover # "isabelle" THEN one ELSE IF kind = "module" THEN two ELSE three
      OBVIOUS
    <3> HIDE DEF line, one, two, three
    <3>5. line = one \/ line = two \/ line = three
      BY <3>4
    <3>6. QED
      BY <3>3, <3>5, Zenon
  <2>3. scopes' \in Scopes
    BY <1>5, <2>1
  <2>4. Phrase(line, "stmt")
    BY <2>1, Zenon
  <2> HIDE DEF line
  <2>5. QED
    BY <1>3, <2>2, <2>3, <2>4, Zenon
<1>7. CASE DeclareLocale
  <2>1. PICK name \in Names, body \in BOOLEAN :
          /\ Phrase(<<"locale", name>> \o (IF body THEN <<"begin", "nl">> ELSE <<"nl">>), "stmt")
          /\ scopes' = IF body THEN Append(scopes, [kind |-> "module", name |-> name]) ELSE scopes
    BY <1>7, Zenon DEF DeclareLocale
  <2> DEFINE end == IF body THEN <<"begin", "nl">> ELSE <<"nl">>
  <2>2. end \in Seq(PlainTokens)
    <3>1. <<"begin", "nl">> \in Seq(PlainTokens) /\ <<"nl">> \in Seq(PlainTokens)
      BY Plains
    <3>2. QED
      BY <3>1, Zenon
  <2>3. <<"locale", name>> \in Seq(PlainTokens)
    BY <1>4, Plains
  <2>4. Phrase(<<"locale", name>> \o end, "stmt")
    BY <2>1, Zenon
  <2> HIDE DEF end
  <2>5. <<"locale", name>> \o end \in Seq(PlainTokens)
    BY <2>2, <2>3, Concat, Zenon DEF Extends
  <2>6. scopes' \in Scopes
    <3>1. CASE body
      <4>1. scopes' = Append(scopes, [kind |-> "module", name |-> name])
        BY <2>1, <3>1
      <4>2. QED
        BY <1>5, <4>1
    <3>2. CASE ~body
      BY <1>1, <2>1, <3>2
    <3>3. QED
      BY <3>1, <3>2
  <2>7. QED
    BY <1>3, <2>4, <2>5, <2>6, Zenon
<1>8. CASE CloseScope
  <2> DEFINE line == IF prover = "isabelle" THEN <<"end", "nl">> ELSE <<"end", Last(scopes).name, "nl">>
  <2>1. scopes # <<>> /\ Phrase(line, "stmt") /\ scopes' = Front(scopes)
    BY <1>8, Zenon DEF CloseScope
  <2>2. Last(scopes).name \in {"A", "B"} /\ scopes' \in Scopes
    <3> DEFINE Scope == [kind : {"module", "section"}, name : {"A", "B"}]
    <3>1. \A e \in Scope : e.name \in {"A", "B"}
      OBVIOUS
    <3>2. scopes \in Seq(Scope)
      BY <1>1 DEF Scopes
    <3>3. Scopes = Seq(Scope)
      BY DEF Scopes
    <3> HIDE DEF Scope
    <3>4. Last(scopes) \in Scope /\ Front(scopes) \in Seq(Scope)
      BY <2>1, <3>2, LastFront, Zenon
    <3>5. QED
      BY <2>1, <3>1, <3>3, <3>4, Zenon
  <2>3. line \in Seq(PlainTokens)
    <3>1. Last(scopes).name \in PlainTokens /\ "end" \in PlainTokens /\ "nl" \in PlainTokens
      BY <2>2, Plains
    <3>2. <<"end", "nl">> \in Seq(PlainTokens) /\ <<"end", Last(scopes).name, "nl">> \in Seq(PlainTokens)
      BY <3>1
    <3>3. QED
      BY <3>2, Zenon
  <2> HIDE DEF line
  <2>4. QED
    BY <1>3, <2>1, <2>2, <2>3, Zenon
<1>9. CASE Declare
  <2>1. Phrase(<<"kw", "f", "nl">>, "stmt") /\ scopes' = scopes
    BY <1>9 DEF Declare
  <2>2. <<"kw", "f", "nl">> \in Seq(PlainTokens)
    BY Plains
  <2>3. QED
    BY <1>1, <1>3, <2>1, <2>2, Zenon
<1>10. CASE DeclareIn
  <2>1. PICK name \in Names \cup {"-"} : Phrase(<<"kw", "in", name, "f", "nl">>, "stmt")
    BY <1>10, Zenon DEF DeclareIn
  <2>2. scopes' = scopes
    BY <1>10 DEF DeclareIn
  <2>3. <<"kw", "in", name, "f", "nl">> \in Seq(PlainTokens)
    BY <1>4, Plains
  <2>4. QED
    BY <1>1, <1>3, <2>1, <2>2, <2>3, Zenon
<1>11. QED
  BY <1>6, <1>7, <1>8, <1>9, <1>10

\* Only in a Rocq file that holds any text does Rocq read otherwise than the gate;
\* until it does, the lexer's way through the text, and what it makes of each token,
\* are there.
StrayInv ==
  /\ strayed \in BOOLEAN
  /\ strayed => kit.job = "lex" /\ prover = "rocq"
  /\ ~strayed => TextInv
TextRead == kit.job # "lex" \/ prover # "rocq" => TextInv

LEMMA KitKept == ASSUME [Next]_vars PROVE kit' = kit /\ prover' = prover
<1>1. kit' = kit
  BY Zenon DEF Next, Write, WriteInside, WriteStatement, WriteLet, EndStatement, WriteProof, NextCommand,
               Type, OpenScope, DeclareLocale, CloseScope, Declare, DeclareIn, WriteProse, vars
<1>2. QED
  BY <1>1 DEF prover

LEMMA TypedStray ==
  ASSUME strayed \in BOOLEAN, NEW tok, Type(tok)
  PROVE  /\ strayed' \in BOOLEAN
         /\ strayed => strayed'
         /\ ~Strays(mode, tok) => strayed' = strayed
         /\ prover # "rocq" => strayed' = strayed
BY DEF Type, Strays

LEMMA StraySteps ==
  ASSUME StrayInv, [Next]_vars
  PROVE  /\ strayed' \in BOOLEAN
         /\ strayed => strayed'
         /\ strayed' => strayed \/ (kit.job = "lex" /\ prover = "rocq")
<1>1. strayed \in BOOLEAN
  BY DEF StrayInv
<1>2. CASE Write
  <2>1. PICK tok : Type(tok) /\ kit.job = "lex"
    BY <1>2 DEF Write
  <2>2. QED
    BY <1>1, <2>1, TypedStray
<1>3. CASE WriteInside
  <2>1. PICK tok : ~Strays(mode, tok) /\ Type(tok)
    BY <1>3 DEF WriteInside
  <2>2. QED
    BY <1>1, <2>1, TypedStray
<1>4. CASE WriteStatement
  <2>1. PICK tok : InCode(mode) /\ Type(tok)
    BY <1>4 DEF WriteStatement
  <2>2. ~Strays(mode, tok)
    BY <2>1 DEF InCode, Strays
  <2>3. QED
    BY <1>1, <2>1, <2>2, TypedStray
<1>5. CASE WriteProof
  <2>1. PICK tok \in {"w", "nl"} : Type(tok)
    BY <1>5 DEF WriteProof
  <2>2. ~Strays(mode, tok)
    BY <2>1 DEF Strays
  <2>3. QED
    BY <1>1, <2>1, <2>2, TypedStray
<1>6. CASE \/ WriteLet \/ EndStatement \/ NextCommand \/ OpenScope \/ DeclareLocale \/ CloseScope
          \/ Declare \/ DeclareIn \/ WriteProse
  <2>1. strayed' = strayed
    BY <1>6, Zenon DEF WriteLet, EndStatement, NextCommand, OpenScope, DeclareLocale, CloseScope,
                       Declare, DeclareIn, WriteProse, Phrase
  <2>2. QED
    BY <1>1, <2>1
<1>7. CASE UNCHANGED vars
  BY <1>1, <1>7 DEF vars
<1>8. QED
  BY <1>2, <1>3, <1>4, <1>5, <1>6, <1>7 DEF Next

LEMMA TextStep ==
  ASSUME TextInv, ~strayed', [Next]_vars
  PROVE  TextInv'
<1>1. CASE Write \/ WriteInside \/ WriteStatement \/ WriteProof
  BY <1>1, StatementStep
<1>2. CASE WriteLet \/ EndStatement \/ NextCommand
  BY <1>2, DeclarationStep
<1>3. CASE OpenScope \/ DeclareLocale \/ CloseScope \/ Declare \/ DeclareIn
  BY <1>3, ScopesStep
<1>4. CASE WriteProse
  BY <1>4, ProseStep
<1>5. CASE UNCHANGED vars
  BY <1>5 DEF TextInv, vars, prover
<1>6. QED
  BY <1>1, <1>2, <1>3, <1>4, <1>5 DEF Next

\* Until Rocq strays from what strip_comments knows of it, the author's mode and
\* labels are what a lexer of one token at a time says; only its lex texts stray.
THEOREM TextsTracked == Spec => []StrayInv
<1>1. ASSUME Init PROVE StrayInv
  <2>1. strayed = FALSE
    BY <1>1 DEF Init
  <2>2. QED
    BY <1>1, <2>1, InitTracked DEF StrayInv
<1>2. ASSUME StrayInv, [Next]_vars PROVE StrayInv'
  <2>1. kit' = kit /\ prover' = prover
    BY <1>2, KitKept
  <2>2. /\ strayed' \in BOOLEAN
        /\ strayed' => kit.job = "lex" /\ prover = "rocq"
        /\ ~strayed' => ~strayed
    BY <1>2, StraySteps DEF StrayInv
  <2>3. ~strayed' => TextInv'
    BY <1>2, <2>2, TextStep DEF StrayInv
  <2>4. QED
    BY <2>1, <2>2, <2>3 DEF StrayInv
<1>3. QED
  BY <1>1, <1>2, PTL DEF Spec

\* Texts of scopes and statements are read so whatever they hold.
THEOREM TextsRead == Spec => []TextRead
<1>1. StrayInv => TextRead
  BY DEF StrayInv, TextRead
<1>2. QED
  BY <1>1, TextsTracked, PTL

-----------------------------------------------------------------------------
(* strip_comments.                                                         *)

\* The tokens labelled comments are the ones that the lexer takes for comments.
LEMMA CommentedMeant ==
  ASSUME TextInv, NEW x, NEW w, NEW d, NEW q, Track(x, w, d, q, text),
         NEW job, \A k \in 1..Len(text) : Named(x, job, w, text, k, label[k].lex)
  PROVE  \A k \in 1..Len(text) : k \in Meant("comment") <=> Commented(x, w, text, k)
<1>1. text \in Seq(Tokens) /\ label \in Seq(Labels) /\ Len(label) = Len(text)
  BY DEF TextInv
<1> SUFFICES ASSUME NEW k \in 1..Len(text)
             PROVE  k \in Meant("comment") <=> Commented(x, w, text, k)
  OBVIOUS
<1>2. k \in Meant("comment") <=> label[k].lex = "comment"
  BY <1>1 DEF Meant
<1>3. label[k].lex = "comment" <=> Meaning(x, w, text, k) = "comment"
  BY Zenon DEF Named
<1>4. w[k - 1] \in Where
  <2>1. CASE k = 1
    <3>1. w[1 - 1] = "code"
      BY DEF Track
    <3>2. QED
      BY <2>1, <3>1 DEF Where
  <2>2. CASE k # 1
    <3>1. k - 1 \in 1..Len(text)
      BY <1>1, <2>2
    <3>2. QED
      BY <3>1, Zenon DEF Track, Turn
  <2>3. QED
    BY <2>1, <2>2
<1>5. Meaning(x, w, text, k) = "comment" <=> Commented(x, w, text, k)
  BY <1>4 DEF Meaning, Commented, Where
<1>6. QED
  BY <1>2, <1>3, <1>5

\* A text of any length loses what the lexer takes for comments and nothing else.
LEMMA TrackedBlanked ==
  ASSUME TextInv
  PROVE  CommentsRead
<1> DEFINE x == Syntax[prover]
<1> DEFINE C == Meant("comment")
<1>1. text \in Seq(Tokens) /\ prover \in DOMAIN Syntax /\ x = Syntax[prover]
  BY KitsAssumption DEF TextInv, prover
<1>2. PICK w, d, q : Tracked(x, kit.job, text, mode, label, w, d, q)
  BY Zenon DEF TextInv
<1>3. \A k \in 1..Len(text) : text[k] # None
  BY <1>1, RealTokens
<1>4. Track(x, w, d, q, text) /\ \A k \in 1..Len(text) : Named(x, kit.job, w, text, k, label[k].lex)
  BY <1>2, Zenon DEF Tracked
<1> HIDE DEF x
<1>5. \A k \in 1..Len(text) : k \in C <=> Commented(x, w, text, k)
  BY <1>4, CommentedMeant, Zenon
<1> HIDE DEF C
<1>6. StripComments(text, x) = Blank(text, C)
  BY <1>1, <1>3, <1>4, <1>5, StripIs, Zenon
<1>7. QED
  BY <1>6 DEF CommentsRead, C, x

\* CommentsBlanked, for texts of every length in the three languages: those of Lean
\* and Isabelle all, those of Rocq that hold nothing which only Rocq reads in its way.
THEOREM BlankedComments ==
  Spec => [](CommentsBlanked /\ (prover # "rocq" => CommentsRead))
<1>1. StrayInv => CommentsBlanked /\ (prover # "rocq" => CommentsRead)
  BY TrackedBlanked DEF StrayInv, CommentsBlanked
<1>2. QED
  BY <1>1, TextsTracked, PTL

-----------------------------------------------------------------------------
(* _scan_line.                                                             *)

Walked(W, t) ==
  /\ W[0] = [quote |-> FALSE, depth |-> 0, skip |-> FALSE]
  /\ \A k \in 1..Len(t) : W[k] = WalkStep(t, k, W[k - 1])

Walks == [quote : BOOLEAN, depth : Nat, skip : BOOLEAN]

LEMMA WalkClosed ==
  ASSUME NEW t, NEW k, NEW w \in Walks
  PROVE  WalkStep(t, k, w) \in Walks
<1>1. w.quote \in BOOLEAN /\ w.skip \in BOOLEAN /\ w.depth \in Nat
  BY DEF Walks
<1> DEFINE quote == w.skip \/ t[k] # "str"
<1> DEFINE skip == Skips(t, k, w)
<1> DEFINE opened == w.depth = 0 /\ t[k] = "str"
<1> DEFINE depth == IF t[k] = "<o>" THEN w.depth + 1
                      ELSE IF t[k] = "<c>" /\ w.depth > 0 THEN w.depth - 1 ELSE w.depth
<1> DEFINE no == FALSE
<1>2. quote \in BOOLEAN /\ opened \in BOOLEAN /\ depth \in Nat /\ no \in BOOLEAN
  BY <1>1
<1>3. skip \in BOOLEAN
  BY DEF Skips
<1>4. WalkStep(t, k, w) = IF w.quote THEN [w EXCEPT !.quote = quote, !.skip = skip]
                            ELSE [quote |-> opened, skip |-> no, depth |-> depth]
  BY DEF WalkStep
<1> HIDE DEF quote, skip, opened, depth, no
<1>5. [w EXCEPT !.quote = quote, !.skip = skip] \in Walks
  BY <1>2, <1>3 DEF Walks
<1>6. [quote |-> opened, skip |-> no, depth |-> depth] \in Walks
  BY <1>2 DEF Walks
<1>7. QED
  BY <1>4, <1>5, <1>6, Zenon

LEMMA WalkDef ==
  ASSUME NEW t \in Seq(Tokens)
  PROVE  Walked(Walk(t), t)
<1> DEFINE N == Len(t)
<1> DEFINE V == [quote : BOOLEAN, depth : Nat, skip : BOOLEAN]
<1> DEFINE v0 == [quote |-> FALSE, depth |-> 0, skip |-> FALSE]
<1> DEFINE step == [z \in V \X (0..N) |-> WalkStep(t, z[2], z[1])]
<1> DEFINE Is(f) == f = [k \in 0..N |-> IF k = 0 THEN v0 ELSE WalkStep(t, k, f[k - 1])]
<1>0. N \in Nat /\ 0 \in Nat
  OBVIOUS
<1>1. v0 \in V
  <2> DEFINE no == FALSE
  <2>1. no \in BOOLEAN
    OBVIOUS
  <2>2. v0 = [quote |-> no, depth |-> 0, skip |-> no]
    OBVIOUS
  <2> HIDE DEF no, v0
  <2>3. QED
    BY <2>1, <2>2
<1>2. ASSUME NEW w \in V, NEW k \in 0..N PROVE WalkStep(t, k, w) \in V
  BY <1>2, WalkClosed DEF Walks
<1>3. step \in [V \X (0..N) -> V]
  <2> HIDE DEF V
  <2>1. \A z \in V \X (0..N) : WalkStep(t, z[2], z[1]) \in V
    BY <1>2
  <2>2. QED
    BY <2>1
<1>4. \A w \in V, k \in 0..N : step[<<w, k>>] = WalkStep(t, k, w)
  <2> HIDE DEF V
  <2>1. QED
    OBVIOUS
<1> HIDE DEF step, V, v0, N
<1>5. PICK e : e \in [0..N -> V] /\ Steps(e, 0, N, v0, step)
  BY <1>0, <1>1, <1>3, StepDef, Zenon
<1>6. ASSUME NEW k \in 0..N PROVE e[k] = IF k = 0 THEN v0 ELSE WalkStep(t, k, e[k - 1])
  <2>1. e[k] = IF k = 0 THEN v0 ELSE step[<<e[k - 1], k>>]
    BY <1>5, Zenon DEF Steps
  <2>2. k # 0 => k - 1 \in 0..N
    BY <1>0
  <2>3. k # 0 => e[k - 1] \in V
    BY <1>5, <2>2
  <2>4. k # 0 => step[<<e[k - 1], k>>] = WalkStep(t, k, e[k - 1])
    BY <1>4, <2>3, Zenon
  <2>5. QED
    BY <2>1, <2>4, Zenon
<1>7. Is(e)
  <2>1. e = [k \in 0..N |-> e[k]]
    BY <1>5
  <2>2. QED
    BY <1>6, <2>1, Zenon
<1>8. Walk(t) = CHOOSE f : Is(f)
  BY Zenon DEF Walk, N, v0
<1>9. Is(Walk(t))
  <2> HIDE DEF Is
  <2>1. QED
    BY <1>7, <1>8, Zenon
<1> DEFINE W == Walk(t)
<1>10. Is(W)
  BY <1>9
<1> HIDE DEF W
<1>11. \A k \in 0..N : W[k] = IF k = 0 THEN v0 ELSE WalkStep(t, k, W[k - 1])
  BY <1>10, Zenon
<1>12. W[0] = v0
  <2>1. 0 \in 0..N
    BY <1>0
  <2>2. QED
    BY <1>11, <2>1, Zenon
<1>13. \A k \in 1..N : W[k] = WalkStep(t, k, W[k - 1])
  <2>1. \A k \in 1..N : k \in 0..N /\ k # 0
    BY <1>0
  <2>2. QED
    BY <1>11, <2>1, Zenon
<1>14. Walked(W, t)
  BY <1>12, <1>13, Zenon DEF Walked, v0, N
<1>15. QED
  BY <1>14 DEF W

\* What is left of a token when its comments are blanked.
LEMMA BlankIs ==
  ASSUME NEW t \in Seq(Tokens), NEW C, NEW b, b = Blank(t, C)
  PROVE  /\ b \in Seq(Tokens) /\ Len(b) = Len(t)
         /\ \A k \in 1..Len(t) : b[k] = IF k \in C /\ t[k] # "nl" THEN "sp" ELSE t[k]
<1>1. "sp" \in Tokens
  BY DEF Tokens
<1>2. \A k \in 1..Len(t) : (IF k \in C /\ t[k] # "nl" THEN "sp" ELSE t[k]) \in Tokens
  BY <1>1
<1>3. QED
  BY <1>2 DEF Blank

\* The walk over the blanked text stands in a string or a cartouche where the
\* lexer does.  At the end of a line they may differ on an escape.
Agree(W, w, d, q, t, k) ==
  /\ W[k] \in Walks
  /\ W[k].quote <=> w[k] = "string"
  /\ W[k].depth = IF w[k] = "verbatim" THEN d[k] ELSE 0
  /\ w[k] = "verbatim" => d[k] \in Nat /\ d[k] > 0
  /\ w[k] = "string" /\ k < Len(t) /\ t[k + 1] # "nl" => (W[k].skip <=> q[k])

LEMMA AgreeStep ==
  ASSUME NEW t \in Seq(Tokens), \A k \in 1..Len(t) : t[k] # None,
         NEW x, x = Syntax["isabelle"], NEW w, NEW d, NEW q,
         NEW C, NEW b, b = Blank(t, C), NEW W,
         NEW k \in 1..Len(t), Turn(x, w, d, q, t, k), w[k - 1] \in Where,
         k \in C <=> Commented(x, w, t, k),
         W[k] = WalkStep(b, k, W[k - 1]), Agree(W, w, d, q, t, k - 1)
  PROVE  Agree(W, w, d, q, t, k)
<1> DEFINE N == Len(t)
<1>0. N \in Nat /\ k \in 1..N /\ k - 1 < N /\ (k - 1) + 1 = k
  OBVIOUS
<1>1. x.open = "(*" /\ x.line = None /\ x.vopen = "<o>" /\ x.vclose = "<c>" /\ t[k] # None
  BY DEF Syntax
<1>2. /\ b \in Seq(Tokens) /\ Len(b) = N
      /\ \A j \in 1..N : b[j] = IF j \in C /\ t[j] # "nl" THEN "sp" ELSE t[j]
  BY BlankIs
<1>3. b[k] = IF k \in C /\ t[k] # "nl" THEN "sp" ELSE t[k]
  BY <1>2
<1> DEFINE m == W[k - 1]
<1> DEFINE n == W[k]
<1>13. m \in Walks /\ n \in Walks
  <2>1. m \in Walks
    BY Zenon DEF Agree
  <2>2. QED
    BY <2>1, WalkClosed
<1>4. /\ m.quote <=> w[k - 1] = "string"
      /\ m.depth = IF w[k - 1] = "verbatim" THEN d[k - 1] ELSE 0
      /\ w[k - 1] = "verbatim" => d[k - 1] \in Nat /\ d[k - 1] > 0
      /\ w[k - 1] = "string" /\ t[k] # "nl" => (m.skip <=> q[k - 1])
  BY <1>0, Zenon DEF Agree
<1>5. n = WalkStep(b, k, m)
  OBVIOUS
<1> HIDE DEF N, m, n
<1>6. ~m.quote => /\ n.quote <=> (m.depth = 0 /\ b[k] = "str")
                  /\ n.depth = IF b[k] = "<o>" THEN m.depth + 1
                               ELSE IF b[k] = "<c>" /\ m.depth > 0 THEN m.depth - 1
                               ELSE m.depth
                  /\ n.skip = FALSE
  BY <1>5 DEF WalkStep
<1> DEFINE Agrees == /\ n.quote <=> w[k] = "string"
                     /\ n.depth = IF w[k] = "verbatim" THEN d[k] ELSE 0
                     /\ w[k] = "verbatim" => d[k] \in Nat /\ d[k] > 0
                     /\ w[k] = "string" /\ k < N /\ t[k + 1] # "nl" => (n.skip <=> q[k])
<1>7. ASSUME w[k - 1] = "code" PROVE Agrees
  <2>1. /\ w[k] = IF t[k] = "(*" THEN "comment" ELSE
                  IF t[k] = "<o>" THEN "verbatim" ELSE
                  IF t[k] = "str" THEN "string" ELSE "code"
        /\ d[k] = 1
    BY <1>1, <1>7 DEF Turn
  <2>2. q[k] = FALSE
    BY <1>7, Zenon DEF Turn
  <2>3. k \in C <=> t[k] = "(*"
    BY <1>1, <1>7 DEF Commented
  <2>4. ~m.quote /\ m.depth = 0
    BY <1>4, <1>7
  <2>5. b[k] = IF t[k] = "(*" THEN "sp" ELSE t[k]
    BY <1>3, <2>3
  <2>6. n.skip = FALSE
    BY <1>6, <2>4, Zenon
  <2>7. n.skip <=> q[k]
    BY <2>2, <2>6, Zenon
  <2>8. (n.quote <=> b[k] = "str") /\ n.depth = IF b[k] = "<o>" THEN 1 ELSE 0
    BY <1>6, <2>4
  <2>9. n.quote <=> w[k] = "string"
    BY <2>1, <2>5, <2>8
  <2>10. n.depth = IF w[k] = "verbatim" THEN d[k] ELSE 0
    BY <2>1, <2>5, <2>8
  <2>11. w[k] = "verbatim" => d[k] \in Nat /\ d[k] > 0
    BY <2>1
  <2>12. QED
    BY <2>7, <2>9, <2>10, <2>11, Zenon
<1>8. ASSUME w[k - 1] = "string" PROVE Agrees
  <2>1. w[k] = IF q[k - 1] \/ t[k] # "str" THEN "string" ELSE "code"
    BY <1>8, Zenon DEF Turn
  <2>2. q[k] <=> (~q[k - 1] /\ t[k] = "esc")
    <3>1. q[k] = (~q[k - 1] /\ t[k] = "esc")
      BY <1>8, Zenon DEF Turn
    <3>2. QED
      BY <3>1, Zenon
  <2>3. b[k] = t[k]
    <3>1. k \notin C
      BY <1>8 DEF Commented
    <3>2. QED
      BY <1>3, <3>1
  <2>4. m.quote /\ m.depth = 0 /\ (t[k] # "nl" => (m.skip <=> q[k - 1]))
    BY <1>4, <1>8
  <2>5. /\ n.quote <=> (m.skip \/ b[k] # "str")
        /\ n.skip <=> (~m.skip /\ b[k] = "esc" /\ k + 1 < LineEnd(b, k))
        /\ n.depth = m.depth
    <3>1. n = [m EXCEPT !.quote = m.skip \/ b[k] # "str", !.skip = Skips(b, k, m)]
      BY <1>5, <2>4 DEF WalkStep
    <3>2. QED
      BY <1>13, <3>1 DEF Walks, Skips
  <2>6. n.quote <=> w[k] = "string"
    BY <2>1, <2>3, <2>4, <2>5
  <2>7. ASSUME k < N, t[k + 1] # "nl" PROVE n.skip <=> q[k]
    <3>1. CASE t[k] = "esc"
      <4>1. k + 1 < LineEnd(b, k)
        <5>1. k + 1 \in 1..N /\ k \in 1..N
          BY <1>0, <2>7
        <5>2. b[k + 1] # "nl" /\ b[k] # "nl"
          BY <1>2, <2>3, <2>7, <3>1, <5>1
        <5>3. LineEnd(b, k) \in k..(N + 1) /\ (LineEnd(b, k) = N + 1 \/ b[LineEnd(b, k)] = "nl")
          BY <1>2, <5>1, LineDef
        <5>4. QED
          BY <1>0, <2>7, <5>2, <5>3
      <4>2. QED
        BY <2>2, <2>3, <2>4, <2>5, <3>1, <4>1
    <3>2. CASE t[k] # "esc"
      BY <2>2, <2>3, <2>5, <3>2
    <3>3. QED
      BY <3>1, <3>2
  <2>8. w[k] # "verbatim" /\ n.depth = 0
    BY <2>1, <2>4, <2>5
  <2>9. QED
    BY <2>6, <2>7, <2>8, Zenon
<1>9. ASSUME w[k - 1] \in {"comment", "line"} PROVE Agrees
  <2>1. w[k] \in {"comment", "line", "code"}
    BY <1>9 DEF Turn
  <2>2. k \in C
    BY <1>9 DEF Commented
  <2>3. b[k] \in {"sp", "nl"}
    BY <1>3, <2>2
  <2>4. ~m.quote /\ m.depth = 0
    BY <1>4, <1>9
  <2>5. ~n.quote /\ n.depth = 0
    BY <1>6, <2>3, <2>4
  <2>6. w[k] # "string" /\ w[k] # "verbatim"
    BY <2>1
  <2>7. QED
    BY <2>5, <2>6, Zenon
<1>10. ASSUME w[k - 1] = "verbatim" PROVE Agrees
  <2>1. d[k] = Up(d[k - 1], "<o>", "<c>", t[k]) /\ w[k] = IF d[k] = 0 THEN "code" ELSE "verbatim"
    BY <1>1, <1>10 DEF Turn
  <2>2. b[k] = t[k]
    <3>1. k \notin C
      BY <1>10 DEF Commented
    <3>2. QED
      BY <1>3, <3>1
  <2>3. ~m.quote /\ m.depth = d[k - 1] /\ d[k - 1] \in Nat /\ d[k - 1] > 0
    BY <1>4, <1>10
  <2>4. d[k] \in Nat
    BY <2>1, <2>3 DEF Up
  <2>5. ~n.quote
    BY <1>6, <2>2, <2>3
  <2>6. n.depth = d[k]
    <3>1. n.depth = IF t[k] = "<o>" THEN d[k - 1] + 1
                    ELSE IF t[k] = "<c>" THEN d[k - 1] - 1 ELSE d[k - 1]
      BY <1>6, <2>2, <2>3
    <3>2. QED
      BY <2>1, <3>1 DEF Up
  <2>7. w[k] # "string" /\ n.depth = IF w[k] = "verbatim" THEN d[k] ELSE 0
    BY <2>1, <2>6
  <2>8. w[k] = "verbatim" => d[k] > 0
    BY <2>1, <2>4
  <2>9. QED
    BY <2>4, <2>5, <2>7, <2>8, Zenon
<1>11. Agrees
  BY <1>7, <1>8, <1>9, <1>10 DEF Where
<1>12. QED
  BY <1>11, <1>13, Zenon DEF Agree, n, N

LEMMA AgreeAll ==
  ASSUME NEW t \in Seq(Tokens), \A k \in 1..Len(t) : t[k] # None,
         NEW x, x = Syntax["isabelle"], NEW w, NEW d, NEW q, Track(x, w, d, q, t),
         NEW C, \A k \in 1..Len(t) : k \in C <=> Commented(x, w, t, k),
         NEW b, b = Blank(t, C)
  PROVE  \A k \in 0..Len(t) : Agree(Walk(b), w, d, q, t, k) /\ w[k] \in Where
<1> DEFINE N == Len(t)
<1> DEFINE W == Walk(b)
<1> DEFINE Good(k) == Agree(W, w, d, q, t, k) /\ w[k] \in Where
<1>0. N \in Nat
  OBVIOUS
<1>1. b \in Seq(Tokens) /\ Len(b) = N
  BY BlankIs
<1>2. Walked(W, b)
  BY <1>1, WalkDef
<1>3. W[0] = [quote |-> FALSE, depth |-> 0, skip |-> FALSE] /\ w[0] = "code"
  BY <1>2, Zenon DEF Walked, Track
<1>4. Good(0)
  <2> DEFINE no == FALSE
  <2>1. no \in BOOLEAN /\ ~no
    OBVIOUS
  <2>2. W[0] = [quote |-> no, depth |-> 0, skip |-> no]
    BY <1>3
  <2> HIDE DEF no, W
  <2>3. W[0] \in Walks /\ ~W[0].quote /\ W[0].depth = 0
    BY <2>1, <2>2 DEF Walks
  <2>4. w[0] \in Where /\ w[0] # "string" /\ w[0] # "verbatim"
    BY <1>3 DEF Where
  <2>5. QED
    BY <2>3, <2>4, Zenon DEF Agree
<1>5. ASSUME NEW k \in 1..N, Good(k - 1) PROVE Good(k)
  <2>1. Turn(x, w, d, q, t, k) /\ (k \in C <=> Commented(x, w, t, k))
    BY Zenon DEF Track
  <2>2. W[k] = WalkStep(b, k, W[k - 1])
    BY <1>1, <1>2, Zenon DEF Walked
  <2> HIDE DEF W
  <2>3. Agree(W, w, d, q, t, k)
    BY <1>5, <2>1, <2>2, AgreeStep, Zenon DEF N
  <2>4. w[k] \in Where
    BY <2>1, Zenon DEF Turn
  <2>5. QED
    BY <2>3, <2>4
<1> HIDE DEF Good, N
<1> DEFINE Bad == {k \in 0..N : ~Good(k)}
<1>6. Bad = {}
  <2>1. SUFFICES ASSUME Bad # {} PROVE FALSE
    OBVIOUS
  <2>2. PICK m \in Bad : \A k \in Bad : m <= k
    <3>1. Bad \in SUBSET Nat
      BY <1>0
    <3> HIDE DEF Bad
    <3>2. QED
      BY <2>1, <3>1, LeastNat
  <2>3. m \in 0..N /\ ~Good(m)
    OBVIOUS
  <2>4. m \in 1..N
    BY <1>0, <1>4, <2>3
  <2>5. m - 1 \in 0..N /\ ~(m <= m - 1)
    BY <1>0, <2>4
  <2>6. Good(m - 1)
    BY <2>2, <2>5
  <2>7. QED
    BY <1>5, <2>3, <2>4, <2>6
<1>7. \A k \in 0..N : Good(k)
  BY <1>6
<1>8. QED
  BY <1>7, Zenon DEF Good, N

\* At the end of a line the lexer stays in a string or a cartouche.
Inside(u) == u \in {"string", "verbatim"}
LEMMA LineStays ==
  ASSUME NEW x, x = Syntax["isabelle"], NEW w, NEW d, NEW q, NEW t, NEW k,
         Turn(x, w, d, q, t, k), t[k] = "nl", w[k - 1] \in Where,
         NEW W, Agree(W, w, d, q, t, k - 1)
  PROVE  Inside(w[k]) <=> Inside(w[k - 1])
<1> USE DEF Inside
<1>7. w[k - 1] = "verbatim" => d[k - 1] \in Nat /\ d[k - 1] > 0
  BY Zenon DEF Agree
<1>0. x.open = "(*" /\ x.line = None /\ x.vopen = "<o>" /\ x.vclose = "<c>"
  BY DEF Syntax
<1>1. CASE w[k - 1] = "code"
  <2>1. w[k] = IF t[k] = "(*" THEN "comment" ELSE
               IF t[k] = None THEN "line" ELSE
               IF t[k] = "<o>" THEN "verbatim" ELSE
               IF t[k] = "str" THEN "string" ELSE "code"
    BY <1>0, <1>1, Zenon DEF Turn
  <2>2. QED
    BY <1>1, <2>1 DEF None
<1>2. CASE w[k - 1] = "string"
  <2>1. t[k] # "str" => w[k] = "string"
    BY <1>2, Zenon DEF Turn
  <2>2. QED
    BY <1>2, <2>1
<1>3. CASE w[k - 1] = "line"
  <2>1. w[k] = "code"
    BY <1>3, Zenon DEF Turn
  <2>2. QED
    BY <1>3, <2>1
<1>4. CASE w[k - 1] = "comment"
  <2>1. w[k] = IF d[k] = 0 THEN "code" ELSE "comment"
    BY <1>4, Zenon DEF Turn
  <2>2. QED
    BY <1>4, <2>1
<1>5. CASE w[k - 1] = "verbatim"
  <2>1. d[k] = Up(d[k - 1], "<o>", "<c>", t[k]) /\ w[k] = IF d[k] = 0 THEN "code" ELSE "verbatim"
    BY <1>0, <1>5, Zenon DEF Turn
  <2>2. d[k] = d[k - 1]
    BY <2>1 DEF Up
  <2>3. QED
    BY <1>5, <1>7, <2>1, <2>2
<1>6. QED
  BY <1>1, <1>2, <1>3, <1>4, <1>5 DEF Where

LEMMA TrackedContinuation ==
  ASSUME TextInv
  PROVE  ContinuationInside
<1> SUFFICES ASSUME kit.job # "scope", prover = "isabelle"
             PROVE  Continuation(StripComments(text, Syntax[prover]), prover) =
                      {s \in LineStarts(StripComments(text, Syntax[prover])) :
                         /\ ~IsBlank(StripComments(text, Syntax[prover]), s) /\ s > 1
                         /\ label[s - 1].lex \in {"string", "verbatim"}}
  BY Zenon DEF ContinuationInside
<1> DEFINE x == Syntax[prover]
<1> DEFINE C == Meant("comment")
<1> DEFINE b == StripComments(text, Syntax[prover])
<1>1. text \in Seq(Tokens) /\ x = Syntax["isabelle"] /\ b = Blank(text, C)
  BY TrackedBlanked DEF TextInv, CommentsRead
<1>2. \A k \in 1..Len(text) : text[k] # None
  BY <1>1, RealTokens
<1> HIDE DEF b
<1>11. PICK w, d, q : Tracked(x, kit.job, text, mode, label, w, d, q)
  BY Zenon DEF TextInv
<1> HIDE DEF x
<1>3. Track(x, w, d, q, text) /\ \A k \in 1..Len(text) : label[k].lex = Meaning(x, w, text, k)
  BY <1>11, Zenon DEF Tracked, Named
<1>4. \A k \in 1..Len(text) : k \in C <=> Commented(x, w, text, k)
  <2>1. Track(x, w, d, q, text) /\ \A k \in 1..Len(text) : Named(x, kit.job, w, text, k, label[k].lex)
    BY <1>11, Zenon DEF Tracked
  <2>2. QED
    BY <2>1, CommentedMeant, Zenon
<1> HIDE DEF C
<1>5. \A k \in 0..Len(text) : Agree(Walk(b), w, d, q, text, k) /\ w[k] \in Where
  BY <1>1, <1>2, <1>3, <1>4, AgreeAll, Zenon
<1>6. /\ b \in Seq(Tokens) /\ Len(b) = Len(text)
      /\ \A k \in 1..Len(text) : b[k] = "nl" => text[k] = "nl"
  BY <1>1, BlankIs
<1>7. ASSUME NEW s \in LineStarts(b)
      PROVE  ~Outside(Walk(b)[s - 1]) <=> s > 1 /\ label[s - 1].lex \in {"string", "verbatim"}
  <2>1. s \in 1..Len(text) /\ (s = 1 \/ b[s - 1] = "nl")
    BY <1>6 DEF LineStarts
  <2>2. s - 1 \in 0..Len(text)
    BY <2>1
  <2>3. Agree(Walk(b), w, d, q, text, s - 1) /\ w[s - 1] \in Where
    BY <1>5, <2>2, Zenon
  <2>4. ~Outside(Walk(b)[s - 1]) <=> w[s - 1] \in {"string", "verbatim"}
    <3> DEFINE W == Walk(b)[s - 1]
    <3>1. /\ W.quote <=> w[s - 1] = "string"
          /\ W.depth = IF w[s - 1] = "verbatim" THEN d[s - 1] ELSE 0
          /\ w[s - 1] = "verbatim" => d[s - 1] \in Nat /\ d[s - 1] > 0
      BY <2>3, Zenon DEF Agree
    <3> HIDE DEF W
    <3>2. ~Outside(W) <=> w[s - 1] \in {"string", "verbatim"}
      BY <3>1 DEF Outside
    <3>3. QED
      BY <3>2 DEF W
  <2>5. CASE s = 1
    <3>1. w[1 - 1] = "code"
      BY <1>3 DEF Track
    <3>2. QED
      BY <2>4, <2>5, <3>1
  <2>6. CASE s # 1
    <3> DEFINE k == s - 1
    <3>1. k \in 1..Len(text) /\ k - 1 \in 0..Len(text) /\ s > 1
      BY <2>1, <2>6
    <3>2. text[k] = "nl"
      BY <1>6, <2>1, <2>6, <3>1
    <3>3. Turn(x, w, d, q, text, k) /\ label[k].lex = Meaning(x, w, text, k)
      BY <1>3, <3>1, Zenon DEF Track
    <3>4. Agree(Walk(b), w, d, q, text, k - 1) /\ w[k - 1] \in Where
      BY <1>5, <3>1, Zenon
    <3>5. ~Outside(Walk(b)[k]) <=> Inside(w[k])
      BY <2>4 DEF Inside
    <3> HIDE DEF k
    <3>6. Inside(w[k]) <=> Inside(w[k - 1])
      BY <1>1, <3>2, <3>3, <3>4, LineStays, Zenon
    <3>7. label[k].lex \in {"string", "verbatim"} <=> Inside(w[k - 1])
      BY <3>3 DEF Meaning, Inside
    <3>8. ~Outside(Walk(b)[k]) <=> label[k].lex \in {"string", "verbatim"}
      BY <3>5, <3>6, <3>7, Zenon
    <3>9. QED
      BY <3>1, <3>8, Zenon DEF k
  <2>7. QED
    BY <2>5, <2>6
<1>8. Continuation(b, prover) = {s \in LineStarts(b) : ~IsBlank(b, s) /\ ~Outside(Walk(b)[s - 1])}
  BY Zenon DEF Continuation
<1> DEFINE Left == {s \in LineStarts(b) : ~IsBlank(b, s) /\ ~Outside(Walk(b)[s - 1])}
<1> DEFINE Right == {s \in LineStarts(b) : /\ ~IsBlank(b, s) /\ s > 1
                                            /\ label[s - 1].lex \in {"string", "verbatim"}}
<1>9. Left = Right
  <2>1. \A s \in LineStarts(b) : s \in Left <=> s \in Right
    BY <1>7, Zenon
  <2>2. QED
    BY <2>1, Zenon
<1>10. QED
  BY <1>8, <1>9, Zenon DEF b

\* ContinuationInside, for Isabelle texts of every length.
THEOREM ContinuationsInside == Spec => []ContinuationInside
<1>1. TextRead => ContinuationInside
  <2>1. CASE prover = "isabelle"
    BY <2>1, TrackedContinuation DEF TextRead
  <2>2. CASE prover # "isabelle"
    BY <2>2 DEF ContinuationInside
  <2>3. QED
    BY <2>1, <2>2
<1>2. QED
  BY <1>1, TextsRead, PTL

-----------------------------------------------------------------------------
(* _blank_isabelle_comments.                                               *)

\* A recursion along a text with a depth beside the position.
Leaps(f, N, next, B) ==
  f = [z \in (1..(N + 1)) \X Nat |-> IF z[1] > N THEN {} ELSE f[next[z]] \cup B[z]]

LEMMA LeapDef ==
  ASSUME NEW N \in Nat, NEW next, NEW B,
         \A z \in (1..N) \X Nat : next[z] \in ((z[1] + 1)..(N + 1)) \X Nat
  PROVE  \E f : Leaps(f, N, next, B)
<1> DEFINE From(m) == (m..(N + 1)) \X Nat
<1> DEFINE Is(f, m) == f = [z \in From(m) |-> IF z[1] > N THEN {} ELSE f[next[z]] \cup B[z]]
<1> DEFINE Bad == {m \in 0..N : ~ \E f : Is(f, N + 1 - m)}
<1>1. Bad = {}
  <2>1. SUFFICES ASSUME Bad # {} PROVE FALSE
    OBVIOUS
  <2>2. PICK m \in Bad : \A k \in Bad : m <= k
    <3>1. Bad \in SUBSET Nat
      OBVIOUS
    <3> HIDE DEF Bad
    <3>2. QED
      BY <2>1, <3>1, LeastNat
  <2>3. m \in 0..N /\ ~ \E f : Is(f, N + 1 - m)
    OBVIOUS
  <2>4. m # 0
    <3> DEFINE e == [z \in From(N + 1) |-> {}]
    <3>1. Is(e, N + 1)
      <4>0. e = [z \in From(N + 1) |-> e[z]]
        OBVIOUS
      <4>1. \A z \in From(N + 1) : e[z] = {} /\ z[1] > N
        OBVIOUS
      <4> HIDE DEF e, From
      <4>2. QED
        BY <4>0, <4>1
    <3>2. \E f : Is(f, N + 1)
      BY <3>1
    <3>3. m = 0 => N + 1 - m = N + 1
      OBVIOUS
    <3> HIDE DEF Is
    <3>4. QED
      BY <2>3, <3>2, <3>3
  <2> DEFINE j == N + 1 - m
  <2>5. j \in 1..N
    BY <2>3, <2>4
  <2>6. PICK f : Is(f, j + 1)
    <3>1. m - 1 \in 0..N /\ m - 1 \notin Bad /\ N + 1 - (m - 1) = j + 1
      <4> HIDE DEF Bad, Is
      <4>1. QED
        BY <2>2, <2>3, <2>4
    <3> HIDE DEF Is
    <3>2. \E f : Is(f, N + 1 - (m - 1))
      BY <3>1
    <3> HIDE DEF Bad
    <3>3. QED
      BY <3>1, <3>2
  <2>7. ~ \E h : Is(h, j)
    BY <2>3
  <2> HIDE DEF j
  <2> DEFINE g == [z \in From(j) |-> IF z[1] = j THEN f[next[z]] \cup B[z] ELSE f[z]]
  <2>8. \A z \in From(j + 1) : f[z] = IF z[1] > N THEN {} ELSE f[next[z]] \cup B[z]
    <3> HIDE DEF From
    <3>1. QED
      BY <2>6
  <2>9. \A z \in From(j + 1) : z \in From(j) /\ z[1] # j
    BY <2>5
  <2>10. \A z \in From(j) : /\ z[1] \in j..(N + 1)
                            /\ z[1] # j => z \in From(j + 1)
                            /\ ~(z[1] > N) => z \in (1..N) \X Nat
    BY <2>5
  <2>11. \A z \in From(j) : ~(z[1] > N) => next[z] \in From(j + 1)
    BY <2>5, <2>10
  <2> HIDE DEF From
  <2>12. \A z \in From(j + 1) : g[z] = f[z]
    BY <2>9
  <2>13. ASSUME NEW z \in From(j)
         PROVE  g[z] = IF z[1] > N THEN {} ELSE g[next[z]] \cup B[z]
    <3>1. ~(z[1] > N) => g[next[z]] = f[next[z]]
      BY <2>11, <2>12
    <3>2. CASE z[1] = j
      <4>1. g[z] = f[next[z]] \cup B[z] /\ ~(z[1] > N)
        BY <2>5, <3>2
      <4> HIDE DEF g
      <4>2. QED
        BY <3>1, <4>1
    <3>3. CASE z[1] # j
      <4>1. z \in From(j + 1)
        BY <2>10, <3>3
      <4>2. g[z] = f[z]
        BY <2>12, <4>1
      <4> HIDE DEF g
      <4>3. QED
        BY <2>8, <3>1, <4>1, <4>2
    <3>4. QED
      BY <3>2, <3>3
  <2>14. Is(g, j)
    <3>1. g = [z \in From(j) |-> g[z]]
      OBVIOUS
    <3> HIDE DEF g
    <3>2. QED
      BY <2>13, <3>1
  <2>15. QED
    BY <2>7, <2>14
<1>2. N \in 0..N /\ N + 1 - N = 1
  OBVIOUS
<1>3. \E f : Is(f, 1)
  <2>1. N \in 0..N
    OBVIOUS
  <2>2. \E f : Is(f, N + 1 - N)
    <3> HIDE DEF Is
    <3>1. QED
      BY <1>1, <2>1
  <2> HIDE DEF Is
  <2>3. QED
    BY <1>2, <2>2
<1>4. QED
  BY <1>3, Zenon DEF Leaps

\* A nesting that is not closed yet is at least one deep.
LEMMA DepthPositive ==
  ASSUME NEW t, NEW i \in Nat, NEW N \in Nat, NEW open, NEW close, NEW D,
         Depths(D, t, i, N, open, close), \A k \in i..N : D[k] \in Int,
         NEW c \in i..N, \A j \in i..c : D[j] # 0
  PROVE  \A k \in i..c : D[k] >= 1
<1> DEFINE Bad == {k \in i..c : ~(D[k] >= 1)}
<1>1. SUFFICES ASSUME Bad # {} PROVE FALSE
  OBVIOUS
<1>2. PICK m \in Bad : \A k \in Bad : m <= k
  <2>1. Bad \in SUBSET Nat
    OBVIOUS
  <2> HIDE DEF Bad
  <2>2. QED
    BY <1>1, <2>1, LeastNat
<1>3. m \in i..c /\ ~(D[m] >= 1)
  OBVIOUS
<1>4. D[i] = 1
  BY <1>3 DEF Depths
<1>5. m # i
  BY <1>3, <1>4
<1>6. m - 1 \in i..c /\ m \in i..N /\ ~(m <= m - 1)
  BY <1>3, <1>5
<1>7. m - 1 \notin Bad
  <2> HIDE DEF Bad
  <2>1. QED
    BY <1>2, <1>6
<1>8. D[m - 1] >= 1 /\ D[m - 1] \in Int
  BY <1>6, <1>7
<1>9. D[m] = Up(D[m - 1], open, close, t[m])
  BY <1>5, <1>6 DEF Depths
<1>10. D[m] >= 0 /\ D[m] \in Int /\ D[m] # 0
  BY <1>3, <1>8, <1>9 DEF Up
<1>11. QED
  BY <1>3, <1>10

\* A nesting that opens inside another one closes no later.
LEMMA InnerEnd ==
  ASSUME NEW t \in Seq(Tokens), NEW o \in 1..Len(t), NEW open, NEW close, open # close,
         NEW n, n = NestEnd(t, o, open, close),
         NEW p \in 1..Len(t), p > o, p < n, t[p] = open,
         NEW e, e = NestEnd(t, p, open, close)
  PROVE  e <= n
<1> DEFINE N == Len(t)
<1>0. N \in Nat /\ o \in Nat /\ o <= N /\ p \in Nat /\ p <= N
  OBVIOUS
<1>1. e \in (p + 1)..(N + 1)
  BY NestRange, Zenon
<1>2. PICK D : Nested(D, t, o, N, open, close, n)
  BY NestDef, Zenon
<1>3. PICK E : Nested(E, t, p, N, open, close, e)
  BY NestDef, Zenon
<1> HIDE DEF N
<1>4. CASE n = N + 1
  BY <1>0, <1>1, <1>4
<1>5. CASE /\ n - 1 \in o..N /\ n \in Nat /\ D[n - 1] = 0
           /\ \A k \in o..(n - 2) : D[k] # 0
  <2>0. /\ Depths(D, t, o, N, open, close) /\ \A k \in o..N : D[k] \in Int
        /\ Depths(E, t, p, N, open, close) /\ \A k \in p..N : E[k] \in Int
    BY <1>2, <1>3 DEF Nested
  <2>1. n - 2 \in o..N /\ n - 1 \in p..N /\ n - 1 > o
    BY <1>0, <1>5
  <2>2. \A k \in o..(n - 2) : D[k] >= 1
    BY <1>0, <1>5, <2>0, <2>1, DepthPositive
  <2>3. p # n - 1
    <3>1. SUFFICES ASSUME p = n - 1 PROVE FALSE
      OBVIOUS
    <3>2. D[n - 1] = Up(D[(n - 1) - 1], open, close, t[n - 1]) /\ (n - 1) - 1 = n - 2
      <4>1. n - 1 \in o..N /\ n - 1 # o /\ (n - 1) - 1 = n - 2
        BY <1>0, <1>5, <2>1
      <4>2. \A k \in o..N : D[k] = IF k = o THEN 1 ELSE Up(D[k - 1], open, close, t[k])
        BY <2>0, Zenon DEF Depths
      <4>3. QED
        BY <4>1, <4>2, Zenon
    <3>3. D[n - 2] >= 1 /\ D[n - 2] \in Int
      BY <1>5, <2>0, <2>1, <2>2
    <3>4. D[n - 1] = D[n - 2] + 1
      BY <3>1, <3>2 DEF Up
    <3>5. QED
      BY <1>5, <3>3, <3>4
  <2>4. p \in o..(n - 2) /\ D[p] >= 1 /\ D[p] \in Int
    BY <1>0, <1>5, <2>0, <2>1, <2>2, <2>3
  <2>5. SUFFICES ASSUME e > n PROVE FALSE
    BY <1>0, <1>1, <1>5
  <2>6. \A k \in p..(n - 1) : E[k] # 0
    <3>1. \A k \in p..(n - 1) : k \in p..N /\ k \in p..(e - 2)
      BY <1>0, <1>1, <1>5, <2>5
    <3>2. \/ \A k \in p..N : E[k] # 0
          \/ \A k \in p..(e - 2) : E[k] # 0
      BY <1>3 DEF Nested
    <3>3. QED
      BY <3>1, <3>2
  <2>7. \A k \in p..(n - 1) : E[k] >= 1
    BY <1>0, <2>0, <2>1, <2>6, DepthPositive
  <2> DEFINE Bad == {k \in p..(n - 1) : E[k] # (D[k] - D[p]) + 1}
  <2>8. Bad = {}
    <3>1. SUFFICES ASSUME Bad # {} PROVE FALSE
      OBVIOUS
    <3>2. PICK m \in Bad : \A k \in Bad : m <= k
      <4>1. Bad \in SUBSET Nat
        BY <1>0
      <4> HIDE DEF Bad
      <4>2. QED
        BY <3>1, <4>1, LeastNat
    <3>3. m \in p..(n - 1) /\ E[m] # (D[m] - D[p]) + 1
      OBVIOUS
    <3>4. E[p] = 1
      BY <1>0, <2>0 DEF Depths
    <3>5. m # p
      BY <2>4, <3>3, <3>4
    <3>6. m - 1 \in p..(n - 1) /\ m \in p..N /\ m \in o..N /\ m # o /\ m - 1 \in o..N /\ ~(m <= m - 1)
      BY <1>0, <1>5, <3>3, <3>5
    <3>7. m - 1 \notin Bad
      <4> HIDE DEF Bad
      <4>1. QED
        BY <3>2, <3>6
    <3>8. E[m - 1] = (D[m - 1] - D[p]) + 1
      BY <3>6, <3>7
    <3>9. D[m] = Up(D[m - 1], open, close, t[m]) /\ E[m] = Up(E[m - 1], open, close, t[m])
      BY <2>0, <3>5, <3>6 DEF Depths
    <3>10. D[m - 1] \in Int
      BY <2>0, <3>6
    <3>11. QED
      BY <2>4, <3>3, <3>8, <3>9, <3>10 DEF Up
  <2>9. n - 1 \in p..(n - 1) /\ n - 1 \notin Bad
    BY <1>0, <2>1, <2>8
  <2>10. E[n - 1] = (D[n - 1] - D[p]) + 1 /\ E[n - 1] >= 1
    BY <2>7, <2>9
  <2>11. QED
    BY <1>5, <2>4, <2>10
<1>6. QED
  BY <1>2, <1>4, <1>5 DEF Nested

\* The mark of a marginal comment, white space, and the cartouche.
Cartouche(t, m, o) ==
  /\ o \in (m + 1)..Len(t) /\ t[o] = "<o>"
  /\ \A k \in (m + 1)..(o - 1) : t[k] \in Space

LEMMA MarginalIs ==
  ASSUME NEW t \in Seq(Tokens), NEW m \in 1..Len(t)
  PROVE  \/ MarginalEnd(t, m) = 0
         \/ \E o : Cartouche(t, m, o) /\ MarginalEnd(t, m) = NestEnd(t, o, "<o>", "<c>")
<1> DEFINE N == Len(t)
<1> DEFINE T == {k \in (m + 1)..(N + 1) : k > N \/ t[k] \notin Space}
<1> DEFINE o == Min(T)
<1>0. N \in Nat /\ m \in Nat /\ m <= N
  OBVIOUS
<1>1. MarginalEnd(t, m) = IF o <= N /\ t[o] = "<o>" THEN NestEnd(t, o, "<o>", "<c>") ELSE 0
  BY DEF MarginalEnd
<1> HIDE DEF N
<1>2. T \in SUBSET Nat /\ T # {}
  <2>1. N + 1 \in T
    BY <1>0
  <2>2. T \in SUBSET Nat
    BY <1>0
  <2> HIDE DEF T
  <2>3. QED
    BY <2>1, <2>2
<1>3. o \in T /\ \A k \in T : o <= k
  <2> HIDE DEF T
  <2>1. QED
    BY <1>2, MinIs
<1> HIDE DEF o
<1>4. o \in (m + 1)..(N + 1) /\ \A k \in (m + 1)..(o - 1) : t[k] \in Space
  <2>1. o \in (m + 1)..(N + 1)
    BY <1>3
  <2>2. ASSUME NEW k \in (m + 1)..(o - 1), t[k] \notin Space PROVE FALSE
    <3>1. k \in T /\ ~(o <= k)
      BY <1>0, <2>1, <2>2
    <3>2. QED
      BY <1>3, <3>1
  <2>3. QED
    BY <2>1, <2>2
<1>5. CASE o <= N /\ t[o] = "<o>"
  <2>1. Cartouche(t, m, o)
    BY <1>0, <1>4, <1>5 DEF Cartouche, N
  <2>2. QED
    BY <1>1, <1>5, <2>1, Zenon
<1>6. QED
  BY <1>1, <1>5, Zenon

\* It lies within the cartouche of any marginal comment that it stands in.
LEMMA MarginalInside ==
  ASSUME NEW t \in Seq(Tokens), NEW m \in 1..Len(t), NEW o, Cartouche(t, m, o),
         NEW n, n = NestEnd(t, o, "<o>", "<c>"),
         NEW p \in 1..Len(t), p > m, p < n, t[p] = "<m>"
  PROVE  MarginalEnd(t, p) <= n
<1> DEFINE N == Len(t)
<1>0. N \in Nat /\ m \in Nat /\ p \in Nat /\ p <= N
  OBVIOUS
<1>1. /\ o \in (m + 1)..N /\ t[o] = "<o>"
      /\ \A k \in (m + 1)..(o - 1) : t[k] \in Space
  BY DEF Cartouche
<1>2. n \in (o + 1)..(N + 1)
  <2>1. o \in 1..Len(t)
    BY <1>0, <1>1
  <2>2. QED
    BY <2>1, NestRange, Zenon
<1>3. p > o
  <2>1. p \notin (m + 1)..(o - 1)
    BY <1>1 DEF Space
  <2>2. p # o
    BY <1>1
  <2>3. QED
    BY <1>0, <1>1, <2>1, <2>2
<1>4. CASE MarginalEnd(t, p) = 0
  BY <1>0, <1>1, <1>2, <1>4
<1>5. ASSUME NEW c, Cartouche(t, p, c), MarginalEnd(t, p) = NestEnd(t, c, "<o>", "<c>")
      PROVE  MarginalEnd(t, p) <= n
  <2>1. c \in (p + 1)..N /\ t[c] = "<o>" /\ \A k \in (p + 1)..(c - 1) : t[k] \in Space
    BY <1>5 DEF Cartouche
  <2>2. c \in 1..N /\ o \in 1..N /\ c > o
    BY <1>0, <1>1, <1>3, <2>1
  <2>3. CASE c < n
    <3>1. "<o>" # "<c>"
      OBVIOUS
    <3>2. NestEnd(t, c, "<o>", "<c>") <= n
      BY <2>1, <2>2, <2>3, <3>1, InnerEnd
    <3>3. QED
      BY <1>5, <3>2
  <2>4. CASE ~(c < n)
    <3>1. n - 1 \in p..(c - 1) /\ n - 1 \in o..N /\ n # N + 1 /\ n - 1 # o
      BY <1>0, <1>1, <1>2, <1>3, <2>1, <2>4
    <3>2. t[n - 1] \in Space \/ t[n - 1] = "<m>"
      <4>1. n - 1 = p \/ n - 1 \in (p + 1)..(c - 1)
        BY <1>0, <2>1, <3>1
      <4>2. QED
        BY <2>1, <4>1
    <3>3. PICK D : Nested(D, t, o, N, "<o>", "<c>", n)
      BY <2>2, NestDef, Zenon
    <3>4. /\ Depths(D, t, o, N, "<o>", "<c>") /\ D[n - 1] = 0
          /\ \A k \in o..(n - 2) : D[k] # 0
      BY <3>1, <3>3 DEF Nested
    <3>5. D[n - 1] = Up(D[(n - 1) - 1], "<o>", "<c>", t[n - 1]) /\ (n - 1) - 1 = n - 2
      BY <1>2, <3>1, <3>4 DEF Depths
    <3>6. D[n - 1] = D[n - 2]
      BY <3>2, <3>5 DEF Up, Space
    <3>7. n - 2 \in o..(n - 2)
      BY <1>0, <1>1, <1>2, <3>1
    <3>8. QED
      BY <3>4, <3>6, <3>7
  <2>5. QED
    BY <2>3, <2>4
<1>6. QED
  BY <1>4, <1>5, MarginalIs, Zenon

\* Where the lexer stands before i, at depth e in a cartouche or in code.
Stands(w, d, i, e) ==
  \/ e = 0 /\ w[i - 1] = "code"
  \/ e \in Nat /\ e > 0 /\ w[i - 1] = "verbatim" /\ d[i - 1] = e
After(e, tok) ==
  IF tok = "<o>" THEN e + 1 ELSE IF tok = "<c>" /\ e > 0 THEN e - 1 ELSE e

LEMMA IsaStep ==
  ASSUME NEW x, x = Syntax["isabelle"], NEW w, NEW d, NEW q, NEW t, NEW k \in Nat,
         Turn(x, w, d, q, t, k), t[k] # None, NEW e \in Nat, Stands(w, d, k, e),
         e = 0 => t[k] \notin {"str", "(*"}
  PROVE  Stands(w, d, k + 1, After(e, t[k]))
<1>1. x.open = "(*" /\ x.line = None /\ x.vopen = "<o>" /\ x.vclose = "<c>"
  BY DEF Syntax
<1>2. (k + 1) - 1 = k
  OBVIOUS
<1>3. CASE e = 0
  <2>1. w[k - 1] = "code" /\ t[k] \notin {"str", "(*"}
    BY <1>3 DEF Stands
  <2>2. w[k] = (IF t[k] = "<o>" THEN "verbatim" ELSE "code") /\ d[k] = 1
    BY <1>1, <2>1 DEF Turn
  <2>3. After(e, t[k]) = IF t[k] = "<o>" THEN 1 ELSE 0
    BY <1>3 DEF After
  <2>4. QED
    BY <1>2, <2>2, <2>3 DEF Stands
<1>4. CASE e # 0
  <2>1. w[k - 1] = "verbatim" /\ d[k - 1] = e
    BY <1>4 DEF Stands
  <2>2. d[k] = Up(e, "<o>", "<c>", t[k]) /\ w[k] = (IF d[k] = 0 THEN "code" ELSE "verbatim")
    BY <1>1, <2>1 DEF Turn
  <2>3. After(e, t[k]) = d[k] /\ d[k] \in Nat
    BY <1>4, <2>2 DEF After, Up
  <2>4. QED
    BY <1>2, <2>2, <2>3 DEF Stands
<1>5. QED
  BY <1>3, <1>4

\* The texts of Isabelle and how the lexer reads them.
IsaTrack(t, w, d, q) ==
  /\ t \in Seq(Tokens)
  /\ \A k \in 1..Len(t) : t[k] # None /\ Turn(Syntax["isabelle"], w, d, q, t, k)

LEMMA PlainRun ==
  ASSUME NEW t, NEW w, NEW d, NEW q, IsaTrack(t, w, d, q),
         NEW i \in 1..Len(t), NEW j \in 1..Len(t), NEW e \in Nat, Stands(w, d, i, e), i <= j,
         \A k \in i..(j - 1) : t[k] \in Space \cup {"<m>"}
  PROVE  Stands(w, d, j, e)
<1> DEFINE Bad == {k \in i..j : ~Stands(w, d, k, e)}
<1>0. i \in Nat /\ j \in Nat /\ \A k \in i..j : k \in 1..Len(t) /\ k \in Nat
  <2>1. Len(t) \in Nat
    BY DEF IsaTrack
  <2>2. QED
    BY <2>1
<1>1. SUFFICES ASSUME Bad # {} PROVE FALSE
  <2>1. j \in i..j
    BY <1>0
  <2>2. QED
    BY <2>1
<1>2. PICK m \in Bad : \A k \in Bad : m <= k
  <2>1. Bad \in SUBSET Nat
    BY <1>0
  <2> HIDE DEF Bad
  <2>2. QED
    BY <1>1, <2>1, LeastNat
<1>3. m \in i..j /\ ~Stands(w, d, m, e)
  OBVIOUS
<1>4. m # i
  BY <1>3
<1>5. m - 1 \in i..j /\ m - 1 \in i..(j - 1) /\ ~(m <= m - 1) /\ (m - 1) + 1 = m
  BY <1>0, <1>3, <1>4
<1>6. m - 1 \notin Bad
  <2> HIDE DEF Bad
  <2>1. QED
    BY <1>2, <1>5
<1>7. Stands(w, d, m - 1, e)
  BY <1>5, <1>6
<1>8. /\ t[m - 1] \in Space \cup {"<m>"} /\ m - 1 \in Nat
      /\ t[m - 1] # None /\ Turn(Syntax["isabelle"], w, d, q, t, m - 1)
  BY <1>0, <1>5, Zenon DEF IsaTrack
<1>9. After(e, t[m - 1]) = e /\ t[m - 1] \notin {"str", "(*"}
  BY <1>8 DEF After, Space
<1>10. Stands(w, d, (m - 1) + 1, After(e, t[m - 1]))
  BY <1>7, <1>8, <1>9, IsaStep
<1>11. QED
  BY <1>3, <1>5, <1>9, <1>10

\* After a cartouche the lexer is as deep as before it.
LEMMA CartoucheRun ==
  ASSUME NEW t, NEW w, NEW d, NEW q, IsaTrack(t, w, d, q),
         NEW o \in 1..Len(t), t[o] = "<o>", NEW e \in Nat, Stands(w, d, o, e),
         NEW n, n = NestEnd(t, o, "<o>", "<c>")
  PROVE  n = Len(t) + 1 \/ Stands(w, d, n, e)
<1> DEFINE N == Len(t)
<1>0. t \in Seq(Tokens) /\ N \in Nat /\ o \in Nat /\ o <= N
  BY DEF IsaTrack
<1>1. n \in (o + 1)..(N + 1)
  BY <1>0, NestRange, Zenon
<1>2. PICK D : Nested(D, t, o, N, "<o>", "<c>", n)
  BY <1>0, NestDef, Zenon
<1>3. \A k \in 1..N : t[k] # None /\ Turn(Syntax["isabelle"], w, d, q, t, k)
  BY DEF IsaTrack
<1> HIDE DEF N
<1>4. SUFFICES ASSUME n # N + 1 PROVE Stands(w, d, n, e)
  BY DEF N
<1>5. /\ Depths(D, t, o, N, "<o>", "<c>") /\ \A k \in o..N : D[k] \in Int
      /\ n - 1 \in o..N /\ n \in Nat /\ D[n - 1] = 0 /\ \A k \in o..(n - 2) : D[k] # 0
  BY <1>2, <1>4 DEF Nested
<1>6. D[o] = 1
  BY <1>0, <1>5 DEF Depths
<1>7. n - 2 \in o..N
  <2>1. n - 1 # o
    BY <1>5, <1>6
  <2>2. QED
    BY <1>0, <1>1, <1>5, <2>1
<1>8. \A k \in o..(n - 2) : D[k] >= 1
  BY <1>0, <1>5, <1>7, DepthPositive
<1> DEFINE Bad == {k \in o..(n - 1) : ~Stands(w, d, k + 1, e + D[k])}
<1>9. Bad = {}
  <2>1. SUFFICES ASSUME Bad # {} PROVE FALSE
    OBVIOUS
  <2>2. PICK m \in Bad : \A k \in Bad : m <= k
    <3>1. Bad \in SUBSET Nat
      BY <1>0
    <3> HIDE DEF Bad
    <3>2. QED
      BY <2>1, <3>1, LeastNat
  <2>3. m \in o..(n - 1) /\ ~Stands(w, d, m + 1, e + D[m])
    OBVIOUS
  <2>4. m \in 1..N /\ m \in Nat /\ m \in o..N
    BY <1>0, <1>5, <2>3
  <2>5. m # o
    <3>1. SUFFICES ASSUME m = o PROVE FALSE
      OBVIOUS
    <3>2. After(e, t[o]) = e + D[o]
      BY <1>6 DEF After
    <3>3. Stands(w, d, o + 1, After(e, t[o]))
      <4>1. Turn(Syntax["isabelle"], w, d, q, t, o) /\ t[o] # None /\ t[o] \notin {"str", "(*"}
        BY <1>3, <2>4, <3>1
      <4>2. QED
        BY <1>0, <4>1, IsaStep
    <3>4. QED
      BY <2>3, <3>1, <3>2, <3>3
  <2>6. m - 1 \in o..(n - 2) /\ m - 1 \in o..(n - 1) /\ m - 1 \in o..N /\ ~(m <= m - 1) /\ (m - 1) + 1 = m
    BY <1>0, <1>5, <2>3, <2>5
  <2>7. m - 1 \notin Bad
    <3> HIDE DEF Bad
    <3>1. QED
      BY <2>2, <2>6
  <2>8. Stands(w, d, m, e + D[m - 1])
    BY <2>6, <2>7
  <2>9. D[m - 1] >= 1 /\ D[m - 1] \in Int
    BY <1>5, <1>8, <2>6
  <2>10. D[m] = Up(D[m - 1], "<o>", "<c>", t[m])
    BY <1>5, <2>4, <2>5 DEF Depths
  <2>11. After(e + D[m - 1], t[m]) = e + D[m] /\ e + D[m - 1] \in Nat /\ e + D[m - 1] # 0
    <3>1. ASSUME NEW f \in Int, f >= 1, NEW tok
          PROVE  /\ e + f \in Nat /\ e + f > 0 /\ e + f # 0
                 /\ After(e + f, tok) = e + Up(f, "<o>", "<c>", tok)
      <4>1. e + f \in Nat /\ e + f > 0 /\ e + f # 0
        BY <3>1
      <4>2. CASE tok = "<o>"
        BY <3>1, <4>2 DEF After, Up
      <4>3. CASE tok = "<c>"
        BY <3>1, <4>1, <4>3 DEF After, Up
      <4>4. CASE tok \notin {"<o>", "<c>"}
        BY <3>1, <4>4 DEF After, Up
      <4>5. QED
        BY <4>1, <4>2, <4>3, <4>4
    <3>2. QED
      BY <2>9, <2>10, <3>1
  <2>12. Stands(w, d, m + 1, After(e + D[m - 1], t[m]))
    <3>1. Turn(Syntax["isabelle"], w, d, q, t, m) /\ t[m] # None
      BY <1>3, <2>4
    <3>2. QED
      BY <2>4, <2>8, <2>11, <3>1, IsaStep
  <2>13. QED
    BY <2>3, <2>11, <2>12
<1>10. n - 1 \in o..(n - 1) /\ (n - 1) + 1 = n
  BY <1>0, <1>5
<1>11. Stands(w, d, n, e + D[n - 1])
  <2>1. n - 1 \notin Bad
    BY <1>9
  <2>2. QED
    BY <1>10, <2>1
<1>12. QED
  BY <1>5, <1>11

LEMMA MarginalRange ==
  ASSUME NEW t \in Seq(Tokens), NEW m \in 1..Len(t)
  PROVE  MarginalEnd(t, m) = 0 \/ MarginalEnd(t, m) \in (m + 1)..(Len(t) + 1)
<1>1. ASSUME NEW o, Cartouche(t, m, o), MarginalEnd(t, m) = NestEnd(t, o, "<o>", "<c>")
      PROVE  MarginalEnd(t, m) \in (m + 1)..(Len(t) + 1)
  <2>1. o \in (m + 1)..Len(t) /\ o \in 1..Len(t)
    BY <1>1 DEF Cartouche
  <2>2. NestEnd(t, o, "<o>", "<c>") \in (o + 1)..(Len(t) + 1)
    BY <2>1, NestRange, Zenon
  <2>3. QED
    BY <1>1, <2>1, <2>2
<1>2. QED
  BY <1>1, MarginalIs, Zenon

LEMMA LeapRange ==
  ASSUME NEW t \in Seq(Tokens), NEW i \in 1..Len(t), NEW e \in Nat
  PROVE  /\ IsaLexeme(t, i, e).next \in (i + 1)..(Len(t) + 1)
         /\ IsaLexeme(t, i, e).blank \in BOOLEAN
         /\ Deeper(t, i, e) \in Nat
<1> DEFINE N == Len(t)
<1>1. NestEnd(t, i, "(*", "*)") \in (i + 1)..(N + 1)
  BY NestRange, Zenon
<1>2. StringEnd(t, i) \in (i + 1)..(N + 1)
  BY StringRange, Zenon
<1>3. i + 1 \in (i + 1)..(N + 1)
  OBVIOUS
<1>4. Marginal(t, i, e) > 0 => Marginal(t, i, e) \in (i + 1)..(N + 1)
  <2>1. MarginalEnd(t, i) = 0 \/ MarginalEnd(t, i) \in (i + 1)..(N + 1)
    BY MarginalRange, Zenon
  <2>2. QED
    BY <2>1 DEF Marginal
<1> HIDE DEF N
<1>5. IsaLexeme(t, i, e).next \in (i + 1)..(N + 1) /\ IsaLexeme(t, i, e).blank \in BOOLEAN
  BY <1>1, <1>2, <1>3, <1>4 DEF IsaLexeme, Span
<1>6. Deeper(t, i, e) \in Nat
  BY DEF Deeper
<1>7. QED
  BY <1>5, <1>6 DEF N

\* A marginal comment that the lexer meets in code or in a cartouche, and the
\* tokens of those that begin at i or later.
Mark(w, t, m) == t[m] = "<m>" /\ w[m - 1] \in {"code", "verbatim"}
Marked(w, t, i, k) == \E m \in i..k : Mark(w, t, m) /\ k < MarginalEnd(t, m)

LeapReads(w, d, t, i, n, e, b) ==
  /\ n = Len(t) + 1 \/ Stands(w, d, n, e)
  /\ \A k \in i..(n - 1) : t[k] # "nl" =>
       (Commented(Syntax["isabelle"], w, t, k) \/ Marked(w, t, i, k) <=> b = TRUE)
  /\ \A m \in i..(n - 1) : Mark(w, t, m) => MarginalEnd(t, m) <= n

\* From where the lexer stands in code or in a cartouche, Isabelle's blanker finds
\* a span that is a comment or part of a marginal one altogether, or not at all, and
\* goes on where it may look again, at the lexer's depth.
LEMMA LeapRead ==
  ASSUME NEW t, NEW w, NEW d, NEW q, IsaTrack(t, w, d, q),
         NEW i \in 1..Len(t), NEW e \in Nat, Stands(w, d, i, e),
         NEW n, n = IsaLexeme(t, i, e).next, NEW b, b = IsaLexeme(t, i, e).blank,
         NEW f, f = Deeper(t, i, e)
  PROVE  LeapReads(w, d, t, i, n, f, b)
<1> DEFINE N == Len(t)
<1> DEFINE x == Syntax["isabelle"]
<1>0. t \in Seq(Tokens) /\ N \in Nat /\ i \in Nat /\ i <= N
  BY DEF IsaTrack
<1>1. \A k \in 1..N : t[k] # None /\ Turn(x, w, d, q, t, k)
  BY DEF IsaTrack
<1>2. n \in (i + 1)..(N + 1)
  BY <1>0, LeapRange, Zenon
<1>3. x.open = "(*" /\ x.close = "*)" /\ x.line = None /\ x.vopen = "<o>" /\ x.vclose = "<c>"
  BY DEF Syntax
<1>4. w[i - 1] \in {"code", "verbatim"} /\ (e = 0 => w[i - 1] = "code") /\ (e # 0 => w[i - 1] = "verbatim")
  BY DEF Stands
<1>5. \A k \in i..(n - 1) : k = i \/ (k - 1 \in i..(n - 2) /\ k # i)
  BY <1>0, <1>2
<1>6. t[i] # None /\ Turn(x, w, d, q, t, i)
  BY <1>0, <1>1
<1>7. \A k \in (i + 1)..N : Turn(x, w, d, q, t, k)
  BY <1>0, <1>1
<1>8. MarginalEnd(t, i) = 0 \/ MarginalEnd(t, i) \in (i + 1)..(N + 1)
  BY <1>0, MarginalRange, Zenon
<1> HIDE DEF x, N
<1>9. CASE Marginal(t, i, e) > 0
  <2>1. t[i] = "<m>" /\ n = MarginalEnd(t, i) /\ MarginalEnd(t, i) # 0 /\ b = TRUE /\ f = e
    <3>1. t[i] = "<m>" /\ Marginal(t, i, e) = MarginalEnd(t, i)
      BY <1>9 DEF Marginal
    <3>2. MarginalEnd(t, i) # 0
      <4>1. MarginalEnd(t, i) > 0
        BY <1>9, <3>1
      <4>2. QED
        BY <4>1
    <3>3. n = Marginal(t, i, e) /\ b = TRUE
      BY <1>9 DEF IsaLexeme, Span
    <3>4. f = e
      BY <1>9, <3>1 DEF Deeper
    <3>5. QED
      BY <3>1, <3>2, <3>3, <3>4
  <2>2. PICK o : Cartouche(t, i, o) /\ MarginalEnd(t, i) = NestEnd(t, o, "<o>", "<c>")
    BY <1>0, <2>1, MarginalIs, Zenon
  <2>3. o \in (i + 1)..N /\ t[o] = "<o>" /\ \A k \in (i + 1)..(o - 1) : t[k] \in Space
    BY <2>2 DEF Cartouche, N
  <2>4. o \in 1..N /\ i <= o /\ \A k \in i..(o - 1) : t[k] \in Space \cup {"<m>"}
    <3>1. o \in 1..N /\ i <= o
      BY <1>0, <2>3
    <3>2. \A k \in i..(o - 1) : k = i \/ k \in (i + 1)..(o - 1)
      BY <1>0, <2>3
    <3>3. QED
      BY <2>1, <2>3, <3>1, <3>2
  <2>5. Stands(w, d, o, e)
    BY <2>4, PlainRun DEF N
  <2>6. n = Len(t) + 1 \/ Stands(w, d, n, f)
    BY <2>1, <2>2, <2>3, <2>4, <2>5, CartoucheRun DEF N
  <2>7. Mark(w, t, i)
    BY <1>4, <2>1 DEF Mark
  <2>8. \A k \in i..(n - 1) : Marked(w, t, i, k)
    <3>1. \A k \in i..(n - 1) : i \in i..k /\ k < n
      BY <1>0, <1>2
    <3>2. QED
      BY <2>1, <2>7, <3>1, Zenon DEF Marked
  <2>9. \A m \in i..(n - 1) : Mark(w, t, m) => MarginalEnd(t, m) <= n
    <3> SUFFICES ASSUME NEW m \in i..(n - 1), Mark(w, t, m) PROVE MarginalEnd(t, m) <= n
      OBVIOUS
    <3>1. t[m] = "<m>"
      BY DEF Mark
    <3>2. CASE m = i
      BY <1>2, <2>1, <3>2
    <3>3. CASE m # i
      <4>1. m \in 1..N /\ m > i /\ m < n
        BY <1>0, <1>2, <3>3
      <4>2. i \in 1..Len(t) /\ m \in 1..Len(t) /\ n = NestEnd(t, o, "<o>", "<c>")
        BY <2>1, <2>2, <4>1 DEF N
      <4>3. QED
        BY <1>0, <2>2, <3>1, <4>1, <4>2, MarginalInside
    <3>4. QED
      BY <3>2, <3>3
  <2>10. QED
    BY <2>1, <2>6, <2>8, <2>9, Zenon DEF LeapReads
<1>10. CASE ~(Marginal(t, i, e) > 0) /\ (e # 0 \/ t[i] \notin {"str", "(*"})
  <2>1. n = i + 1 /\ b = FALSE /\ f = After(e, t[i])
    <3>1. IsaLexeme(t, i, e) = Span(FALSE, i + 1)
      BY <1>10 DEF IsaLexeme
    <3>2. f = After(e, t[i])
      BY <1>10 DEF Deeper, After
    <3>3. n = i + 1 /\ b = FALSE
      BY <3>1 DEF Span
    <3>4. QED
      BY <3>2, <3>3
  <2>2. Stands(w, d, i + 1, f)
    <3>1. Stands(w, d, i + 1, After(e, t[i]))
      BY <1>0, <1>6, <1>10, IsaStep DEF x
    <3>2. QED
      BY <2>1, <3>1
  <2>3. \A k \in i..(n - 1) : k = i
    BY <1>0, <2>1
  <2>4. Mark(w, t, i) => MarginalEnd(t, i) = 0
    BY <1>8, <1>10 DEF Mark, Marginal
  <2>5. ~Commented(x, w, t, i)
    BY <1>3, <1>4, <1>6, <1>10 DEF Commented
  <2>6. ~Marked(w, t, i, i)
    <3>1. SUFFICES ASSUME NEW m \in i..i, Mark(w, t, m), i < MarginalEnd(t, m) PROVE FALSE
      BY DEF Marked
    <3>2. m = i
      BY <1>0
    <3>3. QED
      BY <1>0, <2>4, <3>1, <3>2
  <2>7. Mark(w, t, i) => MarginalEnd(t, i) <= n
    BY <1>0, <2>1, <2>4
  <2>8. QED
    BY <2>1, <2>2, <2>3, <2>5, <2>6, <2>7, Zenon DEF LeapReads, x
<1>11. CASE ~(Marginal(t, i, e) > 0) /\ e = 0 /\ t[i] = "str"
  <2>1. n = StringEnd(t, i) /\ b = FALSE /\ f = 0
    BY <1>11 DEF IsaLexeme, Deeper, Span
  <2>2. w[i] = "string"
    BY <1>3, <1>4, <1>6, <1>11 DEF Turn
  <2>3. q[i] = FALSE
    BY <1>4, <1>6, <1>11, Zenon DEF Turn
  <2>4. \A k \in (i + 1)..N : w[k - 1] = "string" =>
          /\ w[k] = IF q[k - 1] \/ t[k] # "str" THEN "string" ELSE "code"
          /\ q[k] = (~q[k - 1] /\ t[k] = "esc")
    BY <1>7, Zenon DEF Turn
  <2>5. /\ \A k \in i..(n - 2) : w[k] = "string"
        /\ n = N + 1 \/ w[n - 1] = "code"
    <3>1. InString(t, i, w, q)
      BY <2>2, <2>3, <2>4, Zenon DEF InString, N
    <3>2. Leaves(w, "string", i, n, Len(t))
      BY <1>0, <2>1, <3>1, StringSpan, Zenon
    <3>3. QED
      BY <3>2, Zenon DEF Leaves, N
  <2>6. \A k \in i..(n - 1) : ~Commented(x, w, t, k) /\ ~Mark(w, t, k)
    <3> SUFFICES ASSUME NEW k \in i..(n - 1) PROVE ~Commented(x, w, t, k) /\ ~Mark(w, t, k)
      OBVIOUS
    <3>1. k = i \/ w[k - 1] = "string"
      BY <1>5, <2>5
    <3>2. QED
      BY <1>3, <1>4, <1>6, <1>11, <3>1 DEF Commented, Mark
  <2>7. \A k \in i..(n - 1) : ~Marked(w, t, i, k)
    <3>1. \A k \in i..(n - 1) : \A m \in i..k : m \in i..(n - 1)
      BY <1>0, <1>2
    <3>2. QED
      BY <2>6, <3>1, Zenon DEF Marked
  <2>8. n = N + 1 \/ Stands(w, d, n, f)
    BY <2>1, <2>5 DEF Stands
  <2>9. QED
    BY <2>1, <2>6, <2>7, <2>8, Zenon DEF LeapReads, x, N
<1>12. CASE ~(Marginal(t, i, e) > 0) /\ e = 0 /\ t[i] = "(*"
  <2>1. n = NestEnd(t, i, "(*", "*)") /\ b = TRUE /\ f = 0
    BY <1>12 DEF IsaLexeme, Deeper, Span
  <2>2. w[i] = "comment" /\ d[i] = 1
    BY <1>3, <1>4, <1>6, <1>12 DEF Turn
  <2>3. \A k \in (i + 1)..N : w[k - 1] = "comment" =>
          /\ d[k] = Up(d[k - 1], "(*", "*)", t[k])
          /\ w[k] = IF d[k] = 0 THEN "code" ELSE "comment"
    <3> SUFFICES ASSUME NEW k \in (i + 1)..N, w[k - 1] = "comment"
                 PROVE  /\ d[k] = Up(d[k - 1], "(*", "*)", t[k])
                        /\ w[k] = IF d[k] = 0 THEN "code" ELSE "comment"
      OBVIOUS
    <3>1. d[k] = Up(d[k - 1], x.open, x.close, t[k]) /\ w[k] = IF d[k] = 0 THEN "code" ELSE "comment"
      BY <1>7 DEF Turn
    <3>2. QED
      BY <1>3, <3>1
  <2>4. /\ \A k \in i..(n - 2) : w[k] = "comment"
        /\ n = N + 1 \/ w[n - 1] = "code"
    <3>1. InNest(t, i, "(*", "*)", "comment", w, d)
      BY <2>2, <2>3, Zenon DEF InNest, N
    <3>2. "comment" # "code"
      OBVIOUS
    <3>3. Leaves(w, "comment", i, n, Len(t))
      BY <1>0, <2>1, <3>1, <3>2, NestSpan, Zenon
    <3>4. QED
      BY <3>3, Zenon DEF Leaves, N
  <2>5. \A k \in i..(n - 1) : Commented(x, w, t, k) /\ ~Mark(w, t, k)
    <3> SUFFICES ASSUME NEW k \in i..(n - 1) PROVE Commented(x, w, t, k) /\ ~Mark(w, t, k)
      OBVIOUS
    <3>1. k = i \/ w[k - 1] = "comment"
      BY <1>5, <2>4
    <3>2. QED
      BY <1>3, <1>4, <1>12, <3>1 DEF Commented, Mark
  <2>6. n = N + 1 \/ Stands(w, d, n, f)
    BY <2>1, <2>4 DEF Stands
  <2>7. QED
    BY <2>1, <2>5, <2>6, Zenon DEF LeapReads, x, N
<1>13. QED
  BY <1>9, <1>10, <1>11, <1>12

\* Isabelle's blanker blanks what the lexer reads as a comment or as marginal.
LEMMA LeapsIs ==
  ASSUME NEW t, NEW w, NEW d, NEW q, IsaTrack(t, w, d, q), w[0] = "code",
         NEW C, \A k \in 1..Len(t) : t[k] # "nl" =>
           (k \in C <=> Commented(Syntax["isabelle"], w, t, k) \/ Marked(w, t, 1, k))
  PROVE  BlankIsabelleComments(t) = Blank(t, C)
<1> DEFINE N == Len(t)
<1> DEFINE L(z) == IsaLexeme(t, z[1], z[2])
<1> DEFINE Next2(z) == <<L(z).next, Deeper(t, z[1], z[2])>>
<1> DEFINE next == [z \in (1..N) \X Nat |-> Next2(z)]
<1> DEFINE B == [z \in (1..N) \X Nat |-> IF L(z).blank THEN z[1]..(L(z).next - 1) ELSE {}]
<1> DEFINE At(f, z) ==
      IF z[1] > N THEN {}
      ELSE LET s == IsaLexeme(t, z[1], z[2])
           IN  f[<<s.next, Deeper(t, z[1], z[2])>>]
               \cup (IF s.blank THEN z[1]..(s.next - 1) ELSE {})
<1> DEFINE Is(f) == f = [z \in (1..(N + 1)) \X Nat |-> At(f, z)]
<1>0. t \in Seq(Tokens) /\ N \in Nat
  BY DEF IsaTrack
<1>1. \A i \in 1..N, e \in Nat : /\ IsaLexeme(t, i, e).next \in (i + 1)..(N + 1)
                                 /\ IsaLexeme(t, i, e).blank \in BOOLEAN
                                 /\ Deeper(t, i, e) \in Nat
  BY <1>0, LeapRange, Zenon
<1>2. \A z \in (1..N) \X Nat :
        /\ next[z] = Next2(z) /\ next[z] \in ((z[1] + 1)..(N + 1)) \X Nat
        /\ B[z] = IF L(z).blank THEN z[1]..(L(z).next - 1) ELSE {}
  <2> SUFFICES ASSUME NEW z \in (1..N) \X Nat
               PROVE  /\ next[z] = Next2(z) /\ next[z] \in ((z[1] + 1)..(N + 1)) \X Nat
                      /\ B[z] = IF L(z).blank THEN z[1]..(L(z).next - 1) ELSE {}
    OBVIOUS
  <2>1. next[z] = Next2(z) /\ B[z] = IF L(z).blank THEN z[1]..(L(z).next - 1) ELSE {}
    OBVIOUS
  <2>2. z[1] \in 1..N /\ z[2] \in Nat
    OBVIOUS
  <2>3. L(z).next \in (z[1] + 1)..(N + 1) /\ Deeper(t, z[1], z[2]) \in Nat
    BY <1>1, <2>2
  <2> HIDE DEF next, B, N
  <2>4. Next2(z) \in ((z[1] + 1)..(N + 1)) \X Nat
    <3> HIDE DEF L
    <3>1. QED
      BY <2>3
  <2>5. QED
    BY <2>1, <2>4
<1> HIDE DEF next, B, N
<1>3. \E f : Leaps(f, N, next, B)
  <2>1. \A z \in (1..N) \X Nat : next[z] \in ((z[1] + 1)..(N + 1)) \X Nat
    BY <1>2
  <2>2. QED
    BY <1>0, <2>1, LeapDef, Zenon
<1>4. \E f : Is(f)
  <2>1. PICK f : f = [z \in (1..(N + 1)) \X Nat |-> IF z[1] > N THEN {} ELSE f[next[z]] \cup B[z]]
    BY <1>3 DEF Leaps
  <2>2. \A z \in (1..(N + 1)) \X Nat : z[1] > N \/ (z \in (1..N) \X Nat /\ ~(z[1] > N))
    BY <1>0
  <2>3. ASSUME NEW z \in (1..(N + 1)) \X Nat
        PROVE  f[z] = At(f, z)
    <3>1. f[z] = IF z[1] > N THEN {} ELSE f[next[z]] \cup B[z]
      BY <2>1
    <3>2. CASE z[1] > N
      BY <3>1, <3>2, Zenon
    <3>3. CASE z \in (1..N) \X Nat /\ ~(z[1] > N)
      <4>1. f[z] = f[next[z]] \cup B[z]
        BY <3>1, <3>3
      <4>2. next[z] = Next2(z)
        BY <1>2, <3>3, Zenon
      <4>3. B[z] = IF L(z).blank THEN z[1]..(L(z).next - 1) ELSE {}
        BY <1>2, <3>3, Zenon
      <4>4. QED
        BY <3>3, <4>1, <4>2, <4>3, Zenon
    <3>4. QED
      BY <2>2, <3>2, <3>3, Zenon
  <2> HIDE DEF At
  <2>4. f = [z \in (1..(N + 1)) \X Nat |-> f[z]]
    BY <2>1
  <2>5. Is(f)
    BY <2>3, <2>4, Zenon
  <2> HIDE DEF Is
  <2>6. QED
    BY <2>5
<1> DEFINE from == CHOOSE f : Is(f)
<1>5. Is(from)
  <2> HIDE DEF Is
  <2>1. QED
    BY <1>4
<1>6. BlankIsabelleComments(t) = Blank(t, from[<<1, 0>>])
  BY DEF BlankIsabelleComments, N
<1> HIDE DEF from
<1> HIDE DEF At
<1>7. \A z \in (1..(N + 1)) \X Nat : from[z] = At(from, z)
  BY <1>5, Zenon
<1> HIDE DEF Is
<1>8. \A e \in Nat : from[<<N + 1, e>>] = {}
  <2> SUFFICES ASSUME NEW e \in Nat PROVE from[<<N + 1, e>>] = {}
    OBVIOUS
  <2> DEFINE z == <<N + 1, e>>
  <2>1. z \in (1..(N + 1)) \X Nat /\ z[1] > N
    BY <1>0
  <2> HIDE DEF z
  <2>2. At(from, z) = {}
    BY <2>1, Zenon DEF At
  <2>3. from[z] = {}
    BY <1>7, <2>1, <2>2, Zenon
  <2>4. QED
    BY <2>3 DEF z
<1>9. \A i \in 1..N, e \in Nat :
        from[<<i, e>>] =
          from[<<IsaLexeme(t, i, e).next, Deeper(t, i, e)>>]
          \cup (IF IsaLexeme(t, i, e).blank THEN i..(IsaLexeme(t, i, e).next - 1) ELSE {})
  <2> SUFFICES ASSUME NEW i \in 1..N, NEW e \in Nat
               PROVE  from[<<i, e>>] =
                        from[<<IsaLexeme(t, i, e).next, Deeper(t, i, e)>>]
                        \cup (IF IsaLexeme(t, i, e).blank
                              THEN i..(IsaLexeme(t, i, e).next - 1) ELSE {})
    OBVIOUS
  <2> DEFINE z == <<i, e>>
  <2>1. z \in (1..(N + 1)) \X Nat /\ ~(z[1] > N) /\ z[1] = i /\ z[2] = e
    BY <1>0
  <2> HIDE DEF z
  <2>2. from[z] = At(from, z)
    BY <1>7, <2>1, Zenon
  <2>3. At(from, z) =
          from[<<IsaLexeme(t, i, e).next, Deeper(t, i, e)>>]
          \cup (IF IsaLexeme(t, i, e).blank THEN i..(IsaLexeme(t, i, e).next - 1) ELSE {})
    BY <2>1, Zenon DEF At
  <2>4. QED
    BY <2>2, <2>3, Zenon DEF z
<1> DEFINE Read(i, k) == Commented(Syntax["isabelle"], w, t, k) \/ Marked(w, t, i, k)
<1> DEFINE Right(i, e) ==
      /\ from[<<i, e>>] \subseteq i..N
      /\ \A k \in i..N : t[k] # "nl" => (k \in from[<<i, e>>] <=> Read(i, k))
<1> DEFINE Fine(i) == \A e \in Nat : i = N + 1 \/ Stands(w, d, i, e) => Right(i, e)
<1>10. ASSUME NEW i \in 1..N, \A j \in (i + 1)..(N + 1) : Fine(j)
       PROVE  Fine(i)
  <2> SUFFICES ASSUME NEW e \in Nat, i = N + 1 \/ Stands(w, d, i, e) PROVE Right(i, e)
    OBVIOUS
  <2>0. Stands(w, d, i, e)
    BY <1>0
  <2> DEFINE n == IsaLexeme(t, i, e).next
  <2> DEFINE f == Deeper(t, i, e)
  <2> DEFINE b == IsaLexeme(t, i, e).blank
  <2>1. n \in (i + 1)..(N + 1) /\ f \in Nat /\ b \in BOOLEAN
    BY <1>1
  <2>2. from[<<i, e>>] = from[<<n, f>>] \cup (IF b THEN i..(n - 1) ELSE {})
    BY <1>9, Zenon
  <2>3. LeapReads(w, d, t, i, n, f, b)
    <3>1. i \in 1..Len(t)
      BY DEF N
    <3>2. QED
      BY <2>0, <3>1, LeapRead, Zenon
  <2> HIDE DEF n, f, b
  <2>4. n = N + 1 \/ Stands(w, d, n, f)
    BY <2>3, Zenon DEF LeapReads, N
  <2>5. \A k \in i..(n - 1) : t[k] # "nl" => (Read(i, k) <=> b = TRUE)
    BY <2>3, Zenon DEF LeapReads
  <2>6. \A m \in i..(n - 1) : Mark(w, t, m) => MarginalEnd(t, m) <= n
    BY <2>3, Zenon DEF LeapReads
  <2>7. Right(n, f)
    <3> HIDE DEF Right
    <3>1. Fine(n)
      BY <1>10, <2>1
    <3>2. QED
      BY <2>1, <2>4, <3>1
  <2>8. \A k \in n..N : Read(i, k) <=> Read(n, k)
    <3> SUFFICES ASSUME NEW k \in n..N PROVE Marked(w, t, i, k) <=> Marked(w, t, n, k)
      OBVIOUS
    <3>1. ASSUME Marked(w, t, n, k) PROVE Marked(w, t, i, k)
      <4>1. \A m \in n..k : m \in i..k
        BY <2>1
      <4>2. QED
        BY <3>1, <4>1, Zenon DEF Marked
    <3>2. ASSUME Marked(w, t, i, k) PROVE Marked(w, t, n, k)
      <4>1. PICK m \in i..k : Mark(w, t, m) /\ k < MarginalEnd(t, m)
        BY <3>2 DEF Marked
      <4>2. m \in i..(n - 1) \/ m \in n..k
        BY <2>1
      <4>3. m \notin i..(n - 1)
        <5>1. SUFFICES ASSUME m \in i..(n - 1) PROVE FALSE
          OBVIOUS
        <5>2. MarginalEnd(t, m) <= n /\ k < MarginalEnd(t, m)
          BY <2>6, <4>1, <5>1
        <5>3. MarginalEnd(t, m) \in Nat
          <6>1. m \in 1..Len(t) /\ N = Len(t)
            BY <1>0, <2>1, <5>1 DEF N
          <6>2. MarginalEnd(t, m) = 0 \/ MarginalEnd(t, m) \in (m + 1)..(Len(t) + 1)
            BY <1>0, <6>1, MarginalRange, Zenon
          <6>3. QED
            BY <1>0, <6>1, <6>2
        <5>4. QED
          BY <2>1, <5>2, <5>3
      <4>4. QED
        BY <4>1, <4>2, <4>3, Zenon DEF Marked
    <3>3. QED
      BY <3>1, <3>2
  <2> HIDE DEF Read
  <2>9. from[<<i, e>>] \subseteq i..N
    <3>1. from[<<n, f>>] \subseteq n..N
      BY <2>7
    <3>2. n..N \subseteq i..N /\ i..(n - 1) \subseteq i..N
      BY <1>0, <2>1
    <3>3. QED
      BY <2>1, <2>2, <3>1, <3>2
  <2>10. ASSUME NEW k \in i..N, t[k] # "nl"
         PROVE  k \in from[<<i, e>>] <=> Read(i, k)
    <3>1. CASE k \in i..(n - 1)
      <4>1. k \notin from[<<n, f>>]
        BY <1>0, <2>1, <2>7, <3>1
      <4>2. Read(i, k) <=> b = TRUE
        BY <2>5, <2>10, <3>1
      <4>3. QED
        BY <2>1, <2>2, <3>1, <4>1, <4>2
    <3>2. CASE k \in n..N
      <4>1. k \notin i..(n - 1)
        BY <2>1, <3>2
      <4>2. k \in from[<<n, f>>] <=> Read(n, k)
        BY <2>7, <2>10, <3>2
      <4>3. QED
        BY <2>2, <2>8, <3>2, <4>1, <4>2
    <3>3. QED
      BY <1>0, <2>1, <3>1, <3>2
  <2>11. QED
    BY <2>9, <2>10
<1>11. Fine(N + 1)
  BY <1>0, <1>8
<1> HIDE DEF Right
<1>12. \A i \in 1..(N + 1) : Fine(i)
  <2> HIDE DEF Fine
  <2> DEFINE Bad == {m \in 0..N : ~Fine((N + 1) - m)}
  <2>1. Bad = {}
    <3>1. SUFFICES ASSUME Bad # {} PROVE FALSE
      OBVIOUS
    <3>2. PICK m \in Bad : \A k \in Bad : m <= k
      <4>1. Bad \in SUBSET Nat
        OBVIOUS
      <4> HIDE DEF Bad
      <4>2. QED
        BY <3>1, <4>1, LeastNat
    <3>3. m \in 0..N /\ ~Fine((N + 1) - m)
      OBVIOUS
    <3>4. (N + 1) - m \in 1..N
      <4>1. m # 0
        BY <1>0, <1>11, <3>3
      <4>2. QED
        BY <1>0, <3>3, <4>1
    <3>5. ASSUME NEW j \in ((N + 1) - m + 1)..(N + 1) PROVE Fine(j)
      <4>1. (N + 1) - j \in 0..N /\ ~(m <= (N + 1) - j) /\ (N + 1) - ((N + 1) - j) = j
        BY <1>0, <3>3
      <4>2. (N + 1) - j \notin Bad
        <5> HIDE DEF Bad
        <5>1. QED
          BY <3>2, <4>1
      <4>3. Fine((N + 1) - ((N + 1) - j))
        BY <4>1, <4>2
      <4>4. QED
        BY <4>1, <4>3
    <3>6. QED
      BY <1>10, <3>3, <3>4, <3>5
  <2>2. ASSUME NEW i \in 1..(N + 1) PROVE Fine(i)
    <3>1. (N + 1) - i \in 0..N /\ (N + 1) - ((N + 1) - i) = i
      BY <1>0
    <3>2. Fine((N + 1) - ((N + 1) - i))
      BY <2>1, <3>1
    <3>3. QED
      BY <3>1, <3>2
  <2>3. QED
    BY <2>2
<1>13. Right(1, 0)
  <2>1. Stands(w, d, 1, 0)
    <3>1. 1 - 1 = 0
      OBVIOUS
    <3>2. QED
      BY <3>1 DEF Stands
  <2>2. 1 \in 1..(N + 1) /\ 0 \in Nat
    BY <1>0
  <2>3. QED
    BY <1>12, <2>1, <2>2
<1>14. \A k \in 1..N : t[k] # "nl" => (k \in from[<<1, 0>>] <=> k \in C)
  BY <1>13, Zenon DEF Right, N
<1>15. Blank(t, from[<<1, 0>>]) = Blank(t, C)
  BY <1>14 DEF Blank, N
<1>16. QED
  BY <1>6, <1>15

LEMMA TrackedBlankersAgree ==
  ASSUME TextInv
  PROVE  BlankersAgree
<1> SUFFICES ASSUME kit.job = "lex", prover = "isabelle"
             PROVE  BlankIsabelleComments(text) = Blank(text, Meant("comment") \cup Marginals)
  BY DEF BlankersAgree
<1> DEFINE x == Syntax["isabelle"]
<1>1. text \in Seq(Tokens) /\ label \in Seq(Labels) /\ Len(label) = Len(text)
  BY DEF TextInv
<1>2. PICK w, d, q : Tracked(Syntax[prover], kit.job, text, mode, label, w, d, q)
  BY Zenon DEF TextInv
<1>3. Track(x, w, d, q, text) /\ \A k \in 1..Len(text) : Named(x, "lex", w, text, k, label[k].lex)
  BY <1>2, Zenon DEF Tracked
<1>4. \A k \in 1..Len(text) : text[k] # None
  BY <1>1, RealTokens
<1> HIDE DEF x
<1>5. \A k \in 1..Len(text) : k \in Meant("comment") <=> Commented(x, w, text, k)
  BY <1>3, CommentedMeant, Zenon
<1>6. IsaTrack(text, w, d, q) /\ w[0] = "code"
  BY <1>1, <1>3, <1>4, Zenon DEF IsaTrack, Track, x
<1>7. \A k \in 1..Len(text) : Mark(w, text, k) <=>
        text[k] = "<m>" /\ label[k].lex \in {"code", "verbatim"}
  <2> SUFFICES ASSUME NEW k \in 1..Len(text)
               PROVE  Mark(w, text, k) <=>
                        text[k] = "<m>" /\ label[k].lex \in {"code", "verbatim"}
    OBVIOUS
  <2>1. label[k].lex = Meaning(x, w, text, k)
    BY <1>3 DEF Named
  <2>2. x.open = "(*" /\ x.line = None
    BY DEF x, Syntax
  <2>3. text[k] = "<m>" => text[k] \notin {x.open, x.line}
    BY <2>2 DEF None
  <2>4. QED
    BY <2>1, <2>3 DEF Mark, Meaning
<1>8. \A k \in 1..Len(text) : k \in Marginals <=> Marked(w, text, 1, k)
  <2> SUFFICES ASSUME NEW k \in 1..Len(text)
               PROVE  k \in Marginals <=> Marked(w, text, 1, k)
    OBVIOUS
  <2>1. DOMAIN text = 1..Len(text) /\ Len(text) \in Nat
    BY <1>1
  <2>2. \A m \in 1..Len(text) : MarginalEnd(text, m) \in Nat
    <3> SUFFICES ASSUME NEW m \in 1..Len(text) PROVE MarginalEnd(text, m) \in Nat
      OBVIOUS
    <3>1. MarginalEnd(text, m) = 0 \/ MarginalEnd(text, m) \in (m + 1)..(Len(text) + 1)
      BY <1>1, MarginalRange, Zenon
    <3>2. QED
      BY <2>1, <3>1
  <2>3. k \in Marginals <=>
          \E m \in 1..Len(text) : Mark(w, text, m) /\ k \in m..(MarginalEnd(text, m) - 1)
    <3>1. k \in Marginals <=>
            \E m \in {j \in 1..Len(text) : /\ text[j] = "<m>"
                                           /\ label[j].lex \in {"code", "verbatim"}} :
              k \in m..(MarginalEnd(text, m) - 1)
      BY <2>1, Zenon DEF Marginals
    <3>2. QED
      BY <1>7, <3>1, Zenon
  <2>4. \A m \in 1..Len(text) :
          k \in m..(MarginalEnd(text, m) - 1) <=> m \in 1..k /\ k < MarginalEnd(text, m)
    BY <2>1, <2>2
  <2>5. \A m \in 1..k : m \in 1..Len(text)
    BY <2>1
  <2>6. QED
    BY <2>3, <2>4, <2>5, Zenon DEF Marked
<1>9. \A k \in 1..Len(text) : text[k] # "nl" =>
        (k \in Meant("comment") \cup Marginals <=>
           Commented(Syntax["isabelle"], w, text, k) \/ Marked(w, text, 1, k))
  BY <1>5, <1>8, Zenon DEF x
<1> DEFINE C == Meant("comment") \cup Marginals
<1> HIDE DEF C
<1>10. BlankIsabelleComments(text) = Blank(text, C)
  BY <1>6, <1>9, LeapsIs, Zenon DEF C
<1>11. QED
  BY <1>10 DEF C

\* BlankersAgree, for texts of every length.
THEOREM BlankersAgreeing == Spec => []BlankersAgree
<1>1. TextRead => BlankersAgree
  <2>1. CASE prover = "isabelle"
    BY <2>1, TrackedBlankersAgree DEF TextRead
  <2>2. CASE prover # "isabelle"
    BY <2>2 DEF BlankersAgree
  <2>3. QED
    BY <2>1, <2>2
<1>2. QED
  BY <1>1, TextsRead, PTL

-----------------------------------------------------------------------------
(* Lines of the scope grammar, from a token that is no white space to their *)
(* line break at e.                                                        *)

Line(t, s, e) ==
  /\ s \in 1..Len(t) /\ e \in (s + 1)..Len(t)
  /\ t[e] = "nl"
  /\ \A k \in s..(e - 1) : t[k] \notin Space

LEMMA LineReads ==
  ASSUME NEW t \in Seq(Tokens), NEW s, NEW e, Line(t, s, e)
  PROVE  /\ LineEnd(t, s) = e /\ First(t, s) = s /\ ~IsBlank(t, s)
         /\ FirstToken(t, s) = t[s]
         /\ NameAfter(t, s) = IF s + 1 < e THEN t[s + 1] ELSE None
         /\ \A p : Begins(p, t, s) <=> p # "isabelle" \/ \E k \in s..(e - 1) : t[k] = "begin"
<1> DEFINE N == Len(t)
<1>0. N \in Nat /\ s \in Nat /\ e \in Nat /\ s < e /\ e <= N /\ s >= 1
  BY DEF Line
<1>1. LineEnd(t, s) = e
  <2> DEFINE T == {k \in s..N : t[k] = "nl"} \cup {N + 1}
  <2>1. LineEnd(t, s) = Min(T)
    BY DEF LineEnd
  <2>2. T \in SUBSET Nat /\ e \in T
    BY <1>0 DEF Line
  <2>3. \A k \in T : e <= k
    <3> SUFFICES ASSUME NEW k \in T PROVE e <= k
      OBVIOUS
    <3>1. CASE k = N + 1
      BY <1>0, <3>1
    <3>2. CASE k \in s..N /\ t[k] = "nl"
      <4>1. k \notin s..(e - 1)
        BY <3>2 DEF Line, Space
      <4>2. QED
        BY <1>0, <3>2, <4>1
    <3>3. QED
      BY <3>1, <3>2
  <2> HIDE DEF T
  <2>4. Min(T) \in T /\ \A k \in T : Min(T) <= k
    BY <2>2, MinIs
  <2>5. Min(T) \in Nat
    BY <2>2, <2>4
  <2>6. QED
    BY <1>0, <2>1, <2>2, <2>3, <2>4, <2>5
<1>2. t[s] \notin Space
  BY <1>0 DEF Line
<1>3. First(t, s) = s
  <2> DEFINE T == {k \in s..e : k = e \/ t[k] # "sp"}
  <2>1. First(t, s) = Min(T)
    BY <1>1 DEF First
  <2>2. T \in SUBSET Nat /\ s \in T /\ \A k \in T : s <= k
    BY <1>0, <1>2 DEF Space
  <2> HIDE DEF T
  <2>3. Min(T) \in T /\ \A k \in T : Min(T) <= k
    BY <2>2, MinIs
  <2>4. Min(T) \in Nat
    BY <2>2, <2>3
  <2>5. QED
    BY <1>0, <2>1, <2>2, <2>3, <2>4
<1>4. ~IsBlank(t, s)
  BY <1>0, <1>1, <1>3 DEF IsBlank
<1>5. FirstToken(t, s) = t[s]
  BY <1>3, <1>4 DEF FirstToken
<1>6. NameAfter(t, s) = IF s + 1 < e THEN t[s + 1] ELSE None
  BY <1>1, <1>3 DEF NameAfter
<1>7. \A p : Begins(p, t, s) <=> p # "isabelle" \/ \E k \in s..(e - 1) : t[k] = "begin"
  BY <1>1 DEF Begins
<1>8. QED
  BY <1>1, <1>3, <1>4, <1>5, <1>6, <1>7

\* What a line does depends on its tokens alone, wherever it stands.
Same(u, c, t, s, e) == c + e <= Len(u) /\ \A k \in s..e : u[c + k] = t[k]
Alike(p, u, a, t, s) ==
  /\ \E e : Line(u, a, e)
  /\ \A q : ScopeStep(p, u, a, q) = ScopeStep(p, t, s, q)
  /\ Opens(p, u, a) = Opens(p, t, s)
  /\ IsDecl(u, a) <=> IsDecl(t, s)
  /\ \A st : ScopePath(p, u, a, st) = ScopePath(p, t, s, st)

LEMMA LineMoves ==
  ASSUME NEW t \in Seq(Tokens), NEW s, NEW e, Line(t, s, e),
         NEW u \in Seq(Tokens), NEW c \in Nat, Same(u, c, t, s, e), NEW p
  PROVE  Alike(p, u, c + s, t, s)
<1>0. /\ s \in Nat /\ e \in Nat /\ s < e /\ s >= 1 /\ e <= Len(t) /\ Len(t) \in Nat /\ Len(u) \in Nat
      /\ t[e] = "nl" /\ \A k \in s..(e - 1) : t[k] \notin Space
      /\ c + e <= Len(u) /\ \A k \in s..e : u[c + k] = t[k]
  BY DEF Line, Same
<1>1. Line(u, c + s, c + e)
  <2>1. c + s \in 1..Len(u) /\ c + e \in (c + s + 1)..Len(u)
    BY <1>0
  <2>2. u[c + e] = "nl"
    BY <1>0
  <2>3. \A k \in (c + s)..(c + e - 1) : u[k] \notin Space
    <3> SUFFICES ASSUME NEW k \in (c + s)..(c + e - 1) PROVE u[k] \notin Space
      OBVIOUS
    <3>1. k - c \in s..(e - 1) /\ k - c \in s..e /\ c + (k - c) = k
      BY <1>0
    <3>2. u[c + (k - c)] = t[k - c]
      BY <1>0, <3>1
    <3>3. QED
      BY <1>0, <3>1, <3>2
  <2>4. QED
    BY <2>1, <2>2, <2>3 DEF Line
<1> DEFINE a == c + s
<1> DEFINE b == c + e
<1>2. Line(u, a, b) /\ a \in Nat /\ b \in Nat
  BY <1>0, <1>1
<1>3. /\ FirstToken(u, a) = FirstToken(t, s)
      /\ NameAfter(u, a) = NameAfter(t, s)
      /\ \A r : Begins(r, u, a) <=> Begins(r, t, s)
      /\ First(u, a) = a /\ First(t, s) = s
  <2>1. /\ First(t, s) = s /\ FirstToken(t, s) = t[s]
        /\ NameAfter(t, s) = IF s + 1 < e THEN t[s + 1] ELSE None
        /\ \A r : Begins(r, t, s) <=> r # "isabelle" \/ \E k \in s..(e - 1) : t[k] = "begin"
    BY LineReads, Zenon
  <2>2. /\ First(u, a) = a /\ FirstToken(u, a) = u[a]
        /\ NameAfter(u, a) = IF a + 1 < b THEN u[a + 1] ELSE None
        /\ \A r : Begins(r, u, a) <=> r # "isabelle" \/ \E k \in a..(b - 1) : u[k] = "begin"
    BY <1>2, LineReads, Zenon
  <2>3. u[a] = t[s] /\ (a + 1 < b <=> s + 1 < e)
    BY <1>0
  <2>4. s + 1 < e => u[a + 1] = t[s + 1]
    <3>1. s + 1 < e => s + 1 \in s..e /\ c + (s + 1) = a + 1
      BY <1>0
    <3>2. QED
      BY <1>0, <3>1
  <2>5. (\E k \in a..(b - 1) : u[k] = "begin") <=> (\E k \in s..(e - 1) : t[k] = "begin")
    <3>1. \A k \in s..(e - 1) : c + k \in a..(b - 1) /\ u[c + k] = t[k]
      BY <1>0
    <3>2. \A k \in a..(b - 1) : k - c \in s..(e - 1) /\ u[k] = t[k - c]
      <4> SUFFICES ASSUME NEW k \in a..(b - 1) PROVE k - c \in s..(e - 1) /\ u[k] = t[k - c]
        OBVIOUS
      <4>1. k - c \in s..(e - 1) /\ k - c \in s..e /\ c + (k - c) = k
        BY <1>0
      <4>2. u[c + (k - c)] = t[k - c]
        BY <1>0, <4>1
      <4>3. QED
        BY <4>1, <4>2
    <3>3. QED
      BY <3>1, <3>2
  <2> HIDE DEF a, b
  <2>6. QED
    BY <2>1, <2>2, <2>3, <2>4, <2>5
<1>4. u[a + 2] = t[s + 2] \/ ~(s + 1 < e)
  <2>1. s + 1 < e => s + 2 \in s..e /\ c + (s + 2) = a + 2
    BY <1>0
  <2>2. QED
    BY <1>0, <2>1
<1>5. NameAfter(t, s) = "in" => s + 1 < e
  <2>1. NameAfter(t, s) = IF s + 1 < e THEN t[s + 1] ELSE None
    BY LineReads, Zenon
  <2>2. QED
    BY <2>1 DEF None
<1> HIDE DEF a, b
<1>6. Opens(p, u, a) = Opens(p, t, s) /\ (IsDecl(u, a) <=> IsDecl(t, s))
  BY <1>3, Zenon DEF Opens, IsDecl
<1>7. \A q : ScopeStep(p, u, a, q) = ScopeStep(p, t, s, q)
  <2>1. Begins(p, u, a) <=> Begins(p, t, s)
    BY <1>3, Zenon
  <2> SUFFICES ASSUME NEW q PROVE ScopeStep(p, u, a, q) = ScopeStep(p, t, s, q)
    OBVIOUS
  <2>2. CASE Begins(p, t, s)
    <3>1. Begins(p, u, a) = TRUE /\ Begins(p, t, s) = TRUE
      BY <2>1, <2>2 DEF Begins
    <3>2. QED
      BY <1>3, <1>6, <3>1, Zenon DEF ScopeStep
  <2>3. CASE ~Begins(p, t, s)
    <3>1. Begins(p, u, a) = FALSE /\ Begins(p, t, s) = FALSE
      BY <2>1, <2>3 DEF Begins
    <3>2. QED
      BY <1>3, <1>6, <3>1, Zenon DEF ScopeStep
  <2>4. QED
    BY <2>2, <2>3
<1>8. \A st : ScopePath(p, u, a, st) = ScopePath(p, t, s, st)
  <2> SUFFICES ASSUME NEW st PROVE ScopePath(p, u, a, st) = ScopePath(p, t, s, st)
    OBVIOUS
  <2>1. CASE p = "isabelle" /\ NameAfter(t, s) = "in"
    <3>1. u[First(u, a) + 2] = t[First(t, s) + 2] /\ NameAfter(u, a) = "in"
      BY <1>3, <1>4, <1>5, <2>1
    <3>2. QED
      BY <2>1, <3>1, Zenon DEF ScopePath
  <2>2. CASE ~(p = "isabelle" /\ NameAfter(t, s) = "in")
    <3>1. ~(p = "isabelle" /\ NameAfter(u, a) = "in")
      BY <1>3, <2>2
    <3>2. QED
      BY <2>2, <3>1, Zenon DEF ScopePath
  <2>3. QED
    BY <2>1, <2>2
<1>9. QED
  BY <1>1, <1>6, <1>7, <1>8, Zenon DEF a, Alike

-----------------------------------------------------------------------------
(* The scopes along a text, position by position.                          *)

Nothing == [stack |-> <<>>, pending |-> {}]
Deep(n, tok) == IF tok = "<o>" THEN n + 1 ELSE IF tok = "<c>" /\ n > 0 THEN n - 1 ELSE n

\* D is how deep in cartouches the text is after each token, and P which scopes
\* are open; a line counts when it begins outside.
Begun(t, D, k) == k \in LineStarts(t) /\ D[k - 1] = 0
Scan(p, t, D, P, k) == P[k] = IF Begun(t, D, k) THEN ScopeStep(p, t, k, P[k - 1]) ELSE P[k - 1]
Path(p, t, P, k) ==
  ScopePath(p, t, k, IF Opens(p, t, k) # {} THEN P[k - 1].stack ELSE P[k].stack)
Keys(p, t, D, P) == {<<k, Path(p, t, P, k)>> : k \in {j \in 1..Len(t) : Begun(t, D, j) /\ IsDecl(t, j)}}

\* A text of whole lines, read from beginning to end.
Whole(t) == \A s \in LineStarts(t) : \E e : Line(t, s, e)
Closed(t) == t = <<>> \/ t[Len(t)] = "nl"
Read(p, t, D, P) ==
  /\ Whole(t) /\ Closed(t)
  /\ D[0] = 0 /\ D[Len(t)] = 0
  /\ \A k \in 0..Len(t) : D[k] \in Nat /\ (p # "isabelle" => D[k] = 0)
  /\ \A k \in 1..Len(t) : D[k] = Deep(D[k - 1], t[k]) /\ t[k] # "str" /\ Scan(p, t, D, P, k)

LEMMA StartsMore ==
  ASSUME NEW t \in Seq(Tokens), NEW u \in Seq(Tokens), Closed(t)
  PROVE  /\ \A k \in 1..Len(t) : k \in LineStarts(t \o u) <=> k \in LineStarts(t)
         /\ \A j \in 1..Len(u) : Len(t) + j \in LineStarts(t \o u) <=> j \in LineStarts(u)
<1> DEFINE r == t \o u
<1> DEFINE N == Len(t)
<1> DEFINE L == Len(u)
<1>0. N \in Nat /\ L \in Nat
  OBVIOUS
<1>1. /\ Len(r) = N + L
      /\ \A k \in 1..N : r[k] = t[k]
      /\ \A j \in 1..L : r[N + j] = u[j]
  <2>1. Extends(r, t, u, Tokens)
    BY Concat, Zenon
  <2>2. QED
    BY <2>1 DEF Extends
<1>2. N # 0 => t[N] = "nl"
  BY DEF Closed
<1> HIDE DEF r
<1>3. ASSUME NEW k \in 1..N PROVE k \in LineStarts(r) <=> k \in LineStarts(t)
  <2>1. k \in 1..Len(r) /\ (k # 1 => k - 1 \in 1..N)
    BY <1>0, <1>1
  <2>2. k # 1 => r[k - 1] = t[k - 1]
    BY <1>1, <2>1
  <2>3. QED
    BY <2>1, <2>2 DEF LineStarts
<1>4. ASSUME NEW j \in 1..L PROVE N + j \in LineStarts(r) <=> j \in LineStarts(u)
  <2>1. N + j \in 1..Len(r) /\ (j # 1 => j - 1 \in 1..L /\ (N + j) - 1 = N + (j - 1))
    BY <1>0, <1>1
  <2>2. CASE j = 1
    <3>1. N + j = 1 \/ (N \in 1..N /\ (N + j) - 1 = N)
      BY <1>0, <2>2
    <3>2. N + j = 1 \/ r[(N + j) - 1] = "nl"
      <4>1. N \in 1..N => r[N] = t[N] /\ t[N] = "nl"
        BY <1>0, <1>1, <1>2
      <4> HIDE DEF N
      <4>2. QED
        BY <3>1, <4>1
    <3>3. N + j \in LineStarts(r)
      BY <2>1, <3>2, Zenon DEF LineStarts
    <3>4. j \in LineStarts(u)
      <4>1. j \in 1..Len(u)
        OBVIOUS
      <4>2. QED
        BY <2>2, <4>1, Zenon DEF LineStarts
    <3>5. QED
      BY <3>3, <3>4, Zenon
  <2>3. CASE j # 1
    <3>1. r[N + (j - 1)] = u[j - 1] /\ N + j # 1
      <4>1. j - 1 \in 1..L
        BY <2>1, <2>3
      <4>2. r[N + (j - 1)] = u[j - 1]
        BY <1>1, <4>1, Zenon
      <4>3. N + j # 1
        BY <1>0, <2>3
      <4>4. QED
        BY <4>2, <4>3
    <3>2. j \in 1..Len(u) /\ r[(N + j) - 1] = u[j - 1]
      BY <2>1, <2>3, <3>1
    <3>3. QED
      BY <2>1, <2>3, <3>1, <3>2, Zenon DEF LineStarts
  <2>4. QED
    BY <2>2, <2>3
<1>5. QED
  BY <1>3, <1>4 DEF r

Grows(p, t, u, D, P, E, R) ==
  \E D2, P2 : /\ Read(p, t \o u, D2, P2)
              /\ P2[0] = P[0]
              /\ P2[Len(t \o u)] = R[Len(u)]
              /\ Keys(p, t \o u, D2, P2) =
                   Keys(p, t, D, P) \cup {<<Len(t) + z[1], z[2]>> : z \in Keys(p, u, E, R)}

\* A text of whole lines grows by whole lines: what was read stays, and the new
\* lines are read as they would be alone.
LEMMA ReadMore ==
  ASSUME NEW p, NEW t \in Seq(Tokens), NEW D, NEW P, Read(p, t, D, P),
         NEW u \in Seq(Tokens), u # <<>>, NEW E, NEW R, Read(p, u, E, R), R[0] = P[Len(t)]
  PROVE  Grows(p, t, u, D, P, E, R)
<1> DEFINE r == t \o u
<1> DEFINE N == Len(t)
<1> DEFINE L == Len(u)
<1>0. N \in Nat /\ L \in Nat /\ L # 0
  OBVIOUS
<1>1. /\ r \in Seq(Tokens) /\ Len(r) = N + L
      /\ \A k \in 1..N : r[k] = t[k]
      /\ \A j \in 1..L : r[N + j] = u[j]
  <2>1. Extends(r, t, u, Tokens)
    BY Concat, Zenon
  <2>2. QED
    BY <2>1 DEF Extends
<1>2. /\ \A k \in 1..N : k \in LineStarts(r) <=> k \in LineStarts(t)
      /\ \A j \in 1..L : N + j \in LineStarts(r) <=> j \in LineStarts(u)
  BY StartsMore, Zenon DEF Read
<1>3. /\ Whole(t) /\ D[0] = 0 /\ D[N] = 0
      /\ \A k \in 0..N : D[k] \in Nat /\ (p # "isabelle" => D[k] = 0)
      /\ \A k \in 1..N : D[k] = Deep(D[k - 1], t[k]) /\ t[k] # "str" /\ Scan(p, t, D, P, k)
  BY Zenon DEF Read
<1>4. /\ Whole(u) /\ Closed(u) /\ E[0] = 0 /\ E[L] = 0
      /\ \A k \in 0..L : E[k] \in Nat /\ (p # "isabelle" => E[k] = 0)
      /\ \A k \in 1..L : E[k] = Deep(E[k - 1], u[k]) /\ u[k] # "str" /\ Scan(p, u, E, R, k)
  BY Zenon DEF Read
<1>5. P[N] = R[0]
  OBVIOUS
<1> HIDE DEF r, N, L
<1> DEFINE D2 == [k \in 0..(N + L) |-> IF k <= N THEN D[k] ELSE E[k - N]]
<1> DEFINE P2 == [k \in 0..(N + L) |-> IF k <= N THEN P[k] ELSE R[k - N]]
<1>6. /\ \A k \in 0..N : D2[k] = D[k] /\ P2[k] = P[k]
      /\ \A j \in 0..L : D2[N + j] = E[j] /\ P2[N + j] = R[j]
  <2>1. \A k \in 0..N : k \in 0..(N + L) /\ k <= N
    BY <1>0
  <2>2. \A j \in 1..L : N + j \in 0..(N + L) /\ ~(N + j <= N) /\ (N + j) - N = j
    BY <1>0
  <2>3. N + 0 = N /\ N \in 0..N
    BY <1>0
  <2>4. \A j \in 0..L : j = 0 \/ j \in 1..L
    BY <1>0
  <2>5. \A k \in 0..N : D2[k] = D[k] /\ P2[k] = P[k]
    BY <2>1
  <2>6. \A j \in 1..L : D2[N + j] = E[j] /\ P2[N + j] = R[j]
    BY <2>2
  <2> HIDE DEF D2, P2
  <2>7. D2[N + 0] = E[0] /\ P2[N + 0] = R[0]
    BY <1>3, <1>4, <1>5, <2>3, <2>5
  <2>8. QED
    BY <2>4, <2>5, <2>6, <2>7
<1> HIDE DEF D2, P2
<1>7. \A k \in 1..(N + L) : k \in 1..N \/ \E j \in 1..L : k = N + j
  <2> SUFFICES ASSUME NEW k \in 1..(N + L), k \notin 1..N PROVE \E j \in 1..L : k = N + j
    OBVIOUS
  <2>1. k - N \in 1..L /\ k = N + (k - N)
    BY <1>0
  <2>2. QED
    BY <2>1
\* The lines of t and of u in the longer text.
<1>8. ASSUME NEW k \in 1..N, k \in LineStarts(t) PROVE Alike(p, r, k, t, k)
  <2>1. PICK e : Line(t, k, e)
    BY <1>3, <1>8 DEF Whole
  <2>2. k \in Nat /\ e \in Nat /\ k >= 1 /\ e <= N
    BY <1>0, <2>1 DEF Line, N
  <2>3. Same(r, 0, t, k, e) /\ 0 + k = k
    <3>1. \A j \in k..e : j \in 1..N /\ 0 + j = j
      BY <1>0, <2>2
    <3>2. QED
      BY <1>0, <1>1, <2>2, <3>1 DEF Same
  <2>4. 0 \in Nat
    OBVIOUS
  <2>5. Alike(p, r, 0 + k, t, k)
    BY <1>1, <2>1, <2>3, <2>4, LineMoves, Zenon
  <2>6. QED
    BY <2>3, <2>5
<1>9. ASSUME NEW j \in 1..L, j \in LineStarts(u) PROVE Alike(p, r, N + j, u, j)
  <2>1. PICK e : Line(u, j, e)
    BY <1>4, <1>9 DEF Whole
  <2>2. e \in Nat /\ e <= L /\ j \in Nat
    BY <1>0, <2>1 DEF Line, L
  <2>3. Same(r, N, u, j, e)
    <3>1. \A k \in j..e : k \in 1..L
      BY <1>0, <2>2
    <3>2. QED
      BY <1>0, <1>1, <2>2, <3>1 DEF Same
  <2>4. QED
    BY <1>0, <1>1, <2>1, <2>3, LineMoves, Zenon
<1>10. \A k \in 1..N : Begun(r, D2, k) <=> Begun(t, D, k)
  <2> SUFFICES ASSUME NEW k \in 1..N PROVE Begun(r, D2, k) <=> Begun(t, D, k)
    OBVIOUS
  <2>1. k - 1 \in 0..N
    BY <1>0
  <2>2. D2[k - 1] = D[k - 1]
    BY <1>6, <2>1
  <2>3. QED
    BY <1>2, <2>2, Zenon DEF Begun
<1>11. \A j \in 1..L : Begun(r, D2, N + j) <=> Begun(u, E, j)
  <2> SUFFICES ASSUME NEW j \in 1..L PROVE Begun(r, D2, N + j) <=> Begun(u, E, j)
    OBVIOUS
  <2>1. j - 1 \in 0..L /\ (N + j) - 1 = N + (j - 1)
    BY <1>0
  <2>2. D2[(N + j) - 1] = E[j - 1]
    BY <1>6, <2>1
  <2>3. QED
    BY <1>2, <2>2, Zenon DEF Begun
<1>12. ASSUME NEW k \in 1..N
       PROVE  D2[k] = Deep(D2[k - 1], r[k]) /\ r[k] # "str" /\ Scan(p, r, D2, P2, k)
  <2>1. k - 1 \in 0..N /\ k \in 0..N
    BY <1>0
  <2>2. D2[k] = D[k] /\ D2[k - 1] = D[k - 1] /\ P2[k] = P[k] /\ P2[k - 1] = P[k - 1] /\ r[k] = t[k]
    BY <1>1, <1>6, <2>1
  <2>3. D[k] = Deep(D[k - 1], t[k]) /\ t[k] # "str"
    BY <1>3
  <2>4. P[k] = IF Begun(t, D, k) THEN ScopeStep(p, t, k, P[k - 1]) ELSE P[k - 1]
    BY <1>3 DEF Scan
  <2>5. Begun(t, D, k) => ScopeStep(p, r, k, P[k - 1]) = ScopeStep(p, t, k, P[k - 1])
    BY <1>8 DEF Begun, Alike
  <2>6. Scan(p, r, D2, P2, k)
    BY <1>10, <2>2, <2>4, <2>5 DEF Scan
  <2>7. QED
    BY <2>2, <2>3, <2>6
<1>13. ASSUME NEW j \in 1..L
       PROVE  /\ D2[N + j] = Deep(D2[(N + j) - 1], r[N + j]) /\ r[N + j] # "str"
              /\ Scan(p, r, D2, P2, N + j)
  <2>1. j - 1 \in 0..L /\ j \in 0..L /\ (N + j) - 1 = N + (j - 1)
    BY <1>0
  <2>2. /\ D2[N + j] = E[j] /\ D2[(N + j) - 1] = E[j - 1]
        /\ P2[N + j] = R[j] /\ P2[(N + j) - 1] = R[j - 1] /\ r[N + j] = u[j]
    BY <1>1, <1>6, <2>1
  <2>3. E[j] = Deep(E[j - 1], u[j]) /\ u[j] # "str"
    BY <1>4
  <2>4. R[j] = IF Begun(u, E, j) THEN ScopeStep(p, u, j, R[j - 1]) ELSE R[j - 1]
    BY <1>4 DEF Scan
  <2>5. Begun(u, E, j) => ScopeStep(p, r, N + j, R[j - 1]) = ScopeStep(p, u, j, R[j - 1])
    BY <1>9 DEF Begun, Alike
  <2>6. Scan(p, r, D2, P2, N + j)
    BY <1>11, <2>2, <2>4, <2>5 DEF Scan
  <2>7. QED
    BY <2>2, <2>3, <2>6
<1>14. Read(p, r, D2, P2)
  <2>1. Whole(r)
    <3> SUFFICES ASSUME NEW s \in LineStarts(r) PROVE \E e : Line(r, s, e)
      BY DEF Whole
    <3>1. s \in 1..(N + L)
      BY <1>1 DEF LineStarts
    <3>2. CASE s \in 1..N
      BY <1>2, <1>8, <3>2 DEF Alike
    <3>3. ASSUME NEW j \in 1..L, s = N + j PROVE \E e : Line(r, s, e)
      BY <1>2, <1>9, <3>3 DEF Alike
    <3>4. QED
      BY <1>7, <3>1, <3>2, <3>3
  <2>2. Closed(r)
    <3>1. L \in 1..L
      BY <1>0
    <3>2. u[L] = "nl" /\ r[N + L] = u[L]
      <4>1. u # <<>>
        OBVIOUS
      <4>2. u[L] = "nl"
        BY <1>4, <4>1 DEF Closed, L
      <4>3. QED
        BY <1>1, <3>1, <4>2
    <3>3. QED
      BY <1>1, <3>2 DEF Closed
  <2>3. D2[0] = 0 /\ D2[Len(r)] = 0
    <3>1. 0 \in 0..N /\ L \in 0..L
      BY <1>0
    <3>2. QED
      BY <1>1, <1>3, <1>4, <1>6, <3>1
  <2>4. \A k \in 0..Len(r) : D2[k] \in Nat /\ (p # "isabelle" => D2[k] = 0)
    <3> SUFFICES ASSUME NEW k \in 0..(N + L) PROVE D2[k] \in Nat /\ (p # "isabelle" => D2[k] = 0)
      BY <1>1
    <3>1. CASE k \in 0..N
      BY <1>3, <1>6, <3>1
    <3>2. CASE k \notin 0..N
      <4>1. k - N \in 0..L /\ k = N + (k - N)
        BY <1>0, <3>2
      <4>2. D2[k] = E[k - N]
        BY <1>6, <4>1
      <4>3. QED
        BY <1>4, <4>1, <4>2
    <3>3. QED
      BY <3>1, <3>2
  <2>5. \A k \in 1..Len(r) : D2[k] = Deep(D2[k - 1], r[k]) /\ r[k] # "str" /\ Scan(p, r, D2, P2, k)
    <3> SUFFICES ASSUME NEW k \in 1..(N + L)
                 PROVE  D2[k] = Deep(D2[k - 1], r[k]) /\ r[k] # "str" /\ Scan(p, r, D2, P2, k)
      BY <1>1
    <3>1. CASE k \in 1..N
      BY <1>12, <3>1
    <3>2. ASSUME NEW j \in 1..L, k = N + j
          PROVE  D2[k] = Deep(D2[k - 1], r[k]) /\ r[k] # "str" /\ Scan(p, r, D2, P2, k)
      BY <1>13, <3>2
    <3>3. QED
      BY <1>7, <3>1, <3>2
  <2>6. QED
    BY <2>1, <2>2, <2>3, <2>4, <2>5 DEF Read
<1>15. P2[0] = P[0] /\ P2[Len(r)] = R[L]
  <2>1. 0 \in 0..N /\ L \in 0..L
    BY <1>0
  <2>2. QED
    BY <1>1, <1>6, <2>1
<1>16. ASSUME NEW k \in 1..N, Begun(t, D, k) PROVE Path(p, r, P2, k) = Path(p, t, P, k)
  <2>1. P2[k] = P[k] /\ P2[k - 1] = P[k - 1]
    <3>1. k - 1 \in 0..N /\ k \in 0..N
      BY <1>0
    <3>2. QED
      BY <1>6, <3>1
  <2>2. Opens(p, r, k) = Opens(p, t, k) /\ \A st : ScopePath(p, r, k, st) = ScopePath(p, t, k, st)
    BY <1>8, <1>16 DEF Begun, Alike
  <2>3. QED
    BY <2>1, <2>2 DEF Path
<1>17. ASSUME NEW j \in 1..L, Begun(u, E, j) PROVE Path(p, r, P2, N + j) = Path(p, u, R, j)
  <2>1. P2[N + j] = R[j] /\ P2[(N + j) - 1] = R[j - 1]
    <3>1. j - 1 \in 0..L /\ j \in 0..L /\ (N + j) - 1 = N + (j - 1)
      BY <1>0
    <3>2. QED
      BY <1>6, <3>1
  <2>2. Opens(p, r, N + j) = Opens(p, u, j) /\ \A st : ScopePath(p, r, N + j, st) = ScopePath(p, u, j, st)
    BY <1>9, <1>17 DEF Begun, Alike
  <2>3. QED
    BY <2>1, <2>2 DEF Path
<1> DEFINE Old == Keys(p, t, D, P)
<1> DEFINE New == {<<N + z[1], z[2]>> : z \in Keys(p, u, E, R)}
<1>18. Keys(p, r, D2, P2) = Old \cup New
  <2>1. ASSUME NEW k \in 1..N, Begun(r, D2, k) /\ IsDecl(r, k)
        PROVE  <<k, Path(p, r, P2, k)>> \in Old
    <3>1. Begun(t, D, k) /\ IsDecl(t, k) /\ Path(p, r, P2, k) = Path(p, t, P, k)
      BY <1>8, <1>10, <1>16, <2>1 DEF Begun, Alike
    <3>2. QED
      BY <3>1, Zenon DEF Keys, N
  <2>2. ASSUME NEW j \in 1..L, Begun(r, D2, N + j) /\ IsDecl(r, N + j)
        PROVE  <<N + j, Path(p, r, P2, N + j)>> \in New
    <3>1. Begun(u, E, j) /\ IsDecl(u, j) /\ Path(p, r, P2, N + j) = Path(p, u, R, j)
      BY <1>9, <1>11, <1>17, <2>2 DEF Begun, Alike
    <3> DEFINE z == <<j, Path(p, u, R, j)>>
    <3>2. z \in Keys(p, u, E, R) /\ z[1] = j /\ z[2] = Path(p, u, R, j)
      BY <3>1 DEF Keys, L
    <3> HIDE DEF z
    <3>3. QED
      BY <3>1, <3>2, Zenon
  <2>3. Keys(p, r, D2, P2) \subseteq Old \cup New
    <3> SUFFICES ASSUME NEW y \in Keys(p, r, D2, P2) PROVE y \in Old \cup New
      OBVIOUS
    <3>1. PICK k \in 1..(N + L) : Begun(r, D2, k) /\ IsDecl(r, k) /\ y = <<k, Path(p, r, P2, k)>>
      BY <1>1 DEF Keys
    <3> HIDE DEF Old, New
    <3>2. CASE k \in 1..N
      BY <2>1, <3>1, <3>2
    <3>3. ASSUME NEW j \in 1..L, k = N + j PROVE y \in New
      BY <2>2, <3>1, <3>3
    <3>4. QED
      BY <1>7, <3>1, <3>2, <3>3
  <2>4. ASSUME NEW y \in Old PROVE y \in Keys(p, r, D2, P2)
    <3>1. PICK k \in 1..N : Begun(t, D, k) /\ IsDecl(t, k) /\ y = <<k, Path(p, t, P, k)>>
      BY DEF Keys, N
    <3>2. Begun(r, D2, k) /\ IsDecl(r, k) /\ y = <<k, Path(p, r, P2, k)>>
      BY <1>8, <1>10, <1>16, <3>1 DEF Begun, Alike
    <3>3. k \in 1..Len(r)
      BY <1>0, <1>1
    <3>4. QED
      BY <3>2, <3>3, Zenon DEF Keys
  <2>5. ASSUME NEW y \in New PROVE y \in Keys(p, r, D2, P2)
    <3>1. PICK j \in 1..L : /\ Begun(u, E, j) /\ IsDecl(u, j)
                            /\ y = <<N + j, Path(p, u, R, j)>>
      BY DEF Keys, L
    <3>2. Begun(r, D2, N + j) /\ IsDecl(r, N + j) /\ y = <<N + j, Path(p, r, P2, N + j)>>
      BY <1>9, <1>11, <1>17, <3>1 DEF Begun, Alike
    <3>3. N + j \in 1..Len(r)
      BY <1>0, <1>1
    <3>4. QED
      BY <3>2, <3>3, Zenon DEF Keys
  <2> HIDE DEF Old, New
  <2>6. QED
    BY <2>3, <2>4, <2>5
<1>19. QED
  BY <1>14, <1>15, <1>18, Zenon DEF Grows, r, N, L

\* The walk over such a text is never in a string, and as deep as D says.
LEMMA ReadWalk ==
  ASSUME NEW p, NEW t \in Seq(Tokens), NEW D, NEW P, Read(p, t, D, P)
  PROVE  \A k \in 0..Len(t) : Outside(Walk(t)[k]) <=> D[k] = 0
<1> DEFINE N == Len(t)
<1> DEFINE W == Walk(t)
<1> DEFINE Good(k) == W[k] \in Walks /\ W[k].quote = FALSE /\ W[k].depth = D[k]
<1> DEFINE Bad == {k \in 0..N : ~Good(k)}
<1>0. N \in Nat /\ Walked(W, t)
  BY WalkDef
<1>1. /\ D[0] = 0 /\ \A k \in 0..N : D[k] \in Nat
      /\ \A k \in 1..N : D[k] = Deep(D[k - 1], t[k]) /\ t[k] # "str"
  BY Zenon DEF Read
<1> HIDE DEF N, W
<1>2. Good(0)
  <2> DEFINE no == FALSE
  <2>1. W[0] = [quote |-> no, depth |-> 0, skip |-> no]
    BY <1>0 DEF Walked
  <2>2. no \in BOOLEAN /\ no = FALSE
    OBVIOUS
  <2> HIDE DEF no
  <2>3. QED
    BY <1>1, <2>1, <2>2 DEF Walks
<1>3. ASSUME NEW k \in 1..N, Good(k - 1) PROVE Good(k)
  <2> DEFINE v == W[k - 1]
  <2>1. v \in Walks /\ v.quote = FALSE /\ v.depth = D[k - 1]
    BY <1>3
  <2>2. W[k] = WalkStep(t, k, v)
    BY <1>0 DEF Walked, N
  <2> HIDE DEF v
  <2>3. W[k] \in Walks
    BY <2>1, <2>2, WalkClosed, Zenon
  <2> DEFINE quote == v.depth = 0 /\ t[k] = "str"
  <2> DEFINE no == FALSE
  <2> DEFINE depth == IF t[k] = "<o>" THEN v.depth + 1
                      ELSE IF t[k] = "<c>" /\ v.depth > 0 THEN v.depth - 1 ELSE v.depth
  <2>4. WalkStep(t, k, v) = [quote |-> quote, skip |-> no, depth |-> depth]
    BY <2>1 DEF WalkStep
  <2>5. quote = FALSE
    BY <1>1
  <2>6. depth = D[k]
    BY <1>1, <2>1 DEF Deep
  <2> HIDE DEF quote, no, depth
  <2>7. W[k].quote = quote /\ W[k].depth = depth
    BY <2>2, <2>4
  <2>8. QED
    BY <2>3, <2>5, <2>6, <2>7, Zenon
<1> HIDE DEF Good
<1>4. Bad = {}
  <2> SUFFICES ASSUME Bad # {} PROVE FALSE
    OBVIOUS
  <2>1. Bad \in SUBSET Nat
    OBVIOUS
  <2>2. PICK m \in Bad : \A k \in Bad : m <= k
    <3> HIDE DEF Bad
    <3>1. QED
      BY <2>1, LeastNat
  <2>3. m \in 0..N /\ ~Good(m) /\ m # 0
    BY <1>2
  <2>4. m \in 1..N /\ m - 1 \in 0..N /\ ~(m <= m - 1)
    BY <1>0, <2>3
  <2>5. m - 1 \notin Bad
    <3> HIDE DEF Bad
    <3>1. QED
      BY <2>2, <2>4
  <2>6. QED
    BY <1>3, <2>3, <2>4, <2>5
<1>5. ASSUME NEW k \in 0..N PROVE Outside(W[k]) <=> D[k] = 0
  <2>1. Good(k)
    BY <1>4
  <2>2. W[k].quote = FALSE /\ W[k].depth = D[k]
    BY <2>1 DEF Good
  <2>3. QED
    BY <2>2, Zenon DEF Outside
<1>6. QED
  BY <1>5, Zenon DEF W, N

LEMMA ReadHeads ==
  ASSUME NEW p, NEW t \in Seq(Tokens), NEW D, NEW P, Read(p, t, D, P)
  PROVE  LineStarts(t) \ Continuation(t, p) = {k \in 1..Len(t) : Begun(t, D, k)}
<1>1. \A k \in 0..Len(t) : Outside(Walk(t)[k]) <=> D[k] = 0
  BY ReadWalk, Zenon
<1>2. \A s \in LineStarts(t) : ~IsBlank(t, s)
  <2> SUFFICES ASSUME NEW s \in LineStarts(t) PROVE ~IsBlank(t, s)
    OBVIOUS
  <2>1. PICK e : Line(t, s, e)
    BY Zenon DEF Read, Whole
  <2>2. QED
    BY <2>1, LineReads, Zenon
<1>3. \A s \in LineStarts(t) : s \in 1..Len(t) /\ s - 1 \in 0..Len(t)
  BY DEF LineStarts
<1>4. ASSUME NEW s \in LineStarts(t) PROVE s \in Continuation(t, p) <=> D[s - 1] # 0
  <2>1. CASE p # "isabelle"
    <3>1. D[s - 1] = 0
      BY <1>3, <2>1 DEF Read
    <3>2. Continuation(t, p) = {}
      BY <2>1 DEF Continuation
    <3>3. QED
      BY <3>1, <3>2
  <2>2. CASE p = "isabelle"
    <3>1. Continuation(t, p) = {l \in LineStarts(t) : ~IsBlank(t, l) /\ ~Outside(Walk(t)[l - 1])}
      BY <2>2 DEF Continuation
    <3>2. Outside(Walk(t)[s - 1]) <=> D[s - 1] = 0
      BY <1>1, <1>3
    <3>3. s \in Continuation(t, p) <=> ~Outside(Walk(t)[s - 1])
      BY <1>2, <3>1
    <3>4. QED
      BY <3>2, <3>3
  <2>3. QED
    BY <2>1, <2>2
<1>5. QED
  BY <1>3, <1>4, Zenon DEF Begun

\* What qualify_by_scope makes of such a text.
LEMMA ScopeKeysIs ==
  ASSUME NEW p, NEW t \in Seq(Tokens), NEW D, NEW P, Read(p, t, D, P), P[0] = Nothing
  PROVE  ScopeKeys(p, t) = Keys(p, t, D, P)
<1> DEFINE N == Len(t)
<1> DEFINE H == LineStarts(t) \ Continuation(t, p)
<1> DEFINE Is(f) == f = [k \in 0..N |-> IF k = 0 THEN Nothing
                                        ELSE IF k \in H THEN ScopeStep(p, t, k, f[k - 1]) ELSE f[k - 1]]
<1> DEFINE Q == CHOOSE f : Is(f)
<1> DEFINE at(k) == ScopePath(p, t, k, (IF Opens(p, t, k) # {} THEN Q[k - 1] ELSE Q[k]).stack)
<1>0. N \in Nat
  OBVIOUS
<1>1. H = {k \in 1..N : Begun(t, D, k)}
  BY ReadHeads, Zenon
<1>2. ScopeKeys(p, t) = {<<k, at(k)>> : k \in {j \in H : IsDecl(t, j)}}
  BY Zenon DEF ScopeKeys, Nothing
<1>3. \A k \in 1..N : P[k] = IF Begun(t, D, k) THEN ScopeStep(p, t, k, P[k - 1]) ELSE P[k - 1]
  BY DEF Read, Scan
<1> HIDE DEF N, H
<1>4. \E f : Is(f)
  <2> DEFINE f == [k \in 0..N |-> P[k]]
  <2>1. \A k \in 0..N : f[k] = P[k]
    OBVIOUS
  <2>2. \A k \in 0..N : k # 0 => k \in 1..N /\ k - 1 \in 0..N
    BY <1>0
  <2>3. ASSUME NEW k \in 0..N
        PROVE  P[k] = IF k = 0 THEN Nothing
                      ELSE IF k \in H THEN ScopeStep(p, t, k, f[k - 1]) ELSE f[k - 1]
    <3> HIDE DEF f
    <3>1. CASE k = 0
      BY <3>1
    <3>2. CASE k # 0
      <4>1. f[k - 1] = P[k - 1] /\ (k \in H <=> Begun(t, D, k))
        BY <1>1, <2>1, <2>2, <3>2
      <4>2. QED
        BY <1>3, <2>2, <3>2, <4>1
    <3>3. QED
      BY <3>1, <3>2
  <2>4. Is(f)
    BY <2>3, Zenon
  <2>5. QED
    BY <2>4, Zenon
<1>5. Is(Q)
  <2> HIDE DEF Is
  <2>1. QED
    BY <1>4, Zenon
<1> HIDE DEF Q
<1>6. \A k \in 0..N : Q[k] = IF k = 0 THEN Nothing
                             ELSE IF k \in H THEN ScopeStep(p, t, k, Q[k - 1]) ELSE Q[k - 1]
  BY <1>5, Zenon
<1> HIDE DEF Is
<1> DEFINE Bad == {k \in 0..N : Q[k] # P[k]}
<1>7. Bad = {}
  <2> SUFFICES ASSUME Bad # {} PROVE FALSE
    OBVIOUS
  <2>1. Bad \in SUBSET Nat
    OBVIOUS
  <2>2. PICK m \in Bad : \A k \in Bad : m <= k
    <3> HIDE DEF Bad
    <3>1. QED
      BY <2>1, LeastNat
  <2>3. m \in 0..N /\ Q[m] # P[m] /\ m # 0
    <3>1. 0 \in 0..N
      BY <1>0
    <3>2. QED
      BY <1>6, <3>1
  <2>4. m \in 1..N /\ m - 1 \in 0..N /\ ~(m <= m - 1)
    BY <1>0, <2>3
  <2>5. m - 1 \notin Bad
    <3> HIDE DEF Bad
    <3>1. QED
      BY <2>2, <2>4
  <2>6. Q[m - 1] = P[m - 1] /\ (m \in H <=> Begun(t, D, m))
    BY <1>1, <2>4, <2>5
  <2>7. Q[m] = IF m \in H THEN ScopeStep(p, t, m, Q[m - 1]) ELSE Q[m - 1]
    BY <1>6, <2>3
  <2>8. QED
    BY <1>3, <2>3, <2>4, <2>6, <2>7
<1>8. ASSUME NEW k \in H PROVE at(k) = Path(p, t, P, k)
  <2>1. k \in 0..N /\ k - 1 \in 0..N
    BY <1>0, <1>1
  <2>2. Q[k] = P[k] /\ Q[k - 1] = P[k - 1]
    BY <1>7, <2>1
  <2>3. QED
    BY <2>2 DEF Path
<1> HIDE DEF at
<1>9. Keys(p, t, D, P) = {<<k, Path(p, t, P, k)>> : k \in {j \in H : IsDecl(t, j)}}
  <2>1. {j \in 1..N : Begun(t, D, j) /\ IsDecl(t, j)} = {j \in H : IsDecl(t, j)}
    BY <1>1, Zenon
  <2>2. QED
    BY <2>1, Zenon DEF Keys, N
<1>10. QED
  BY <1>2, <1>8, <1>9, Zenon

-----------------------------------------------------------------------------
(* A text, what is open after it, and the keys of its declarations.        *)

Known(p, t, q, ks) ==
  \E D, P : Read(p, t, D, P) /\ P[0] = Nothing /\ P[Len(t)] = q /\ ks = Keys(p, t, D, P)

LEMMA KnownKeys ==
  ASSUME NEW p, NEW t \in Seq(Tokens), NEW q, NEW ks, Known(p, t, q, ks)
  PROVE  ScopeKeys(p, t) = ks
<1>1. PICK D, P : Read(p, t, D, P) /\ P[0] = Nothing /\ ks = Keys(p, t, D, P)
  BY Zenon DEF Known
<1>2. QED
  BY <1>1, ScopeKeysIs, Zenon

LEMMA KnownNone ==
  ASSUME NEW p
  PROVE  Known(p, <<>>, Nothing, {})
<1> DEFINE t == <<>>
<1> DEFINE D == [k \in 0..0 |-> 0]
<1> DEFINE P == [k \in 0..0 |-> Nothing]
<1>1. Len(t) = 0 /\ 1..Len(t) = {} /\ LineStarts(t) = {}
  BY DEF LineStarts
<1>2. D[0] = 0 /\ P[0] = Nothing
  OBVIOUS
<1>3. \A k \in 0..Len(t) : D[k] \in Nat /\ (p # "isabelle" => D[k] = 0)
  BY <1>1
<1> HIDE DEF D, P
<1>4. Read(p, t, D, P)
  BY <1>1, <1>2, <1>3 DEF Read, Whole, Closed
<1>5. Keys(p, t, D, P) = {}
  BY <1>1 DEF Keys
<1>6. QED
  BY <1>1, <1>2, <1>4, <1>5, Zenon DEF Known

\* One more part of the text, read from what is open before it.
LEMMA KnownMore ==
  ASSUME NEW p, NEW t \in Seq(Tokens), NEW q, NEW ks, Known(p, t, q, ks),
         NEW u \in Seq(Tokens), u # <<>>, NEW E, NEW R, Read(p, u, E, R), R[0] = q
  PROVE  Known(p, t \o u, R[Len(u)], ks \cup {<<Len(t) + z[1], z[2]>> : z \in Keys(p, u, E, R)})
<1>1. PICK D, P : Read(p, t, D, P) /\ P[0] = Nothing /\ P[Len(t)] = q /\ ks = Keys(p, t, D, P)
  BY Zenon DEF Known
<1>2. R[0] = P[Len(t)]
  BY <1>1
<1>3. Grows(p, t, u, D, P, E, R)
  BY <1>1, <1>2, ReadMore, Zenon
<1>4. QED
  BY <1>1, <1>3, Zenon DEF Grows, Known

OneLine(u) == Line(u, 1, Len(u)) /\ \A k \in 1..Len(u) : u[k] \notin {"str", "<o>", "<c>"}
Keyed(p, u, q, n) ==
  IF IsDecl(u, 1)
  THEN {<<n + 1, ScopePath(p, u, 1, IF Opens(p, u, 1) # {} THEN q.stack
                                    ELSE ScopeStep(p, u, 1, q).stack)>>}
  ELSE {}

LEMMA LineMore ==
  ASSUME NEW p, NEW t \in Seq(Tokens), NEW q, NEW ks, Known(p, t, q, ks),
         NEW u \in Seq(Tokens), OneLine(u)
  PROVE  Known(p, t \o u, ScopeStep(p, u, 1, q), ks \cup Keyed(p, u, q, Len(t)))
<1> DEFINE L == Len(u)
<1> DEFINE z == ScopeStep(p, u, 1, q)
<1> DEFINE E == [k \in 0..L |-> 0]
<1> DEFINE R == [k \in 0..L |-> IF k = 0 THEN q ELSE z]
<1>0. /\ L \in Nat /\ L >= 2 /\ Line(u, 1, L) /\ u[L] = "nl"
      /\ \A k \in 1..(L - 1) : u[k] \notin Space
      /\ \A k \in 1..L : u[k] \notin {"str", "<o>", "<c>"}
  BY DEF OneLine, Line
<1> HIDE DEF L, z
<1>1. LineStarts(u) = {1}
  <2>1. 1 \in 1..L
    BY <1>0
  <2>2. ASSUME NEW s \in 1..L, s # 1 PROVE u[s - 1] # "nl"
    <3>1. s - 1 \in 1..(L - 1)
      BY <1>0, <2>2
    <3>2. QED
      BY <1>0, <3>1 DEF Space
  <2>3. LineStarts(u) = {s \in 1..L : s = 1 \/ u[s - 1] = "nl"}
    BY DEF LineStarts, L
  <2>4. QED
    BY <2>1, <2>2, <2>3
<1>2. \A k \in 0..L : E[k] = 0 /\ (k # 0 => R[k] = z)
  OBVIOUS
<1>3. 0 \in 0..L /\ E[0] = 0 /\ R[0] = q /\ L \in 0..L /\ L # 0
  BY <1>0
<1> HIDE DEF E, R
<1>4. \A k \in 1..L : Begun(u, E, k) <=> k = 1
  <2> SUFFICES ASSUME NEW k \in 1..L PROVE Begun(u, E, k) <=> k = 1
    OBVIOUS
  <2>1. E[1 - 1] = 0
    BY <1>3
  <2>2. QED
    BY <1>1, <2>1 DEF Begun
<1>5. ASSUME NEW k \in 1..L
      PROVE  E[k] = Deep(E[k - 1], u[k]) /\ u[k] # "str" /\ Scan(p, u, E, R, k)
  <2>1. k - 1 \in 0..L /\ k \in 0..L /\ k # 0
    BY <1>0
  <2>2. E[k - 1] = 0 /\ E[k] = 0 /\ R[k] = z
    BY <1>2, <2>1
  <2>3. Deep(0, u[k]) = 0
    BY <1>0 DEF Deep
  <2>4. Scan(p, u, E, R, k)
    <3>1. CASE k = 1
      <4>1. R[k - 1] = q
        BY <1>3, <3>1
      <4>2. QED
        BY <1>4, <2>2, <3>1, <4>1 DEF Scan, z
    <3>2. CASE k # 1
      <4>1. R[k - 1] = z
        BY <1>2, <2>1, <3>2
      <4>2. QED
        BY <1>4, <2>2, <3>2, <4>1 DEF Scan
    <3>3. QED
      BY <3>1, <3>2
  <2>5. QED
    BY <1>0, <2>2, <2>3, <2>4
<1>6. Read(p, u, E, R)
  <2>1. Whole(u)
    BY <1>0, <1>1 DEF Whole
  <2>2. Closed(u)
    BY <1>0 DEF Closed, L
  <2>3. \A k \in 0..L : E[k] \in Nat /\ (p # "isabelle" => E[k] = 0)
    BY <1>2
  <2>4. E[L] = 0
    BY <1>2, <1>3
  <2>5. QED
    BY <1>3, <1>5, <2>1, <2>2, <2>3, <2>4, Zenon DEF Read, L
<1>7. u # <<>>
  BY <1>0 DEF L
<1>8. R[L] = z
  BY <1>2, <1>3
<1> DEFINE path == ScopePath(p, u, 1, IF Opens(p, u, 1) # {} THEN q.stack ELSE z.stack)
<1>9. Keys(p, u, E, R) = IF IsDecl(u, 1) THEN {<<1, path>>} ELSE {}
  <2>1. 1 \in 1..L /\ R[1] = z /\ R[1 - 1] = q
    <3>1. 1 \in 0..L
      BY <1>0
    <3>2. QED
      BY <1>0, <1>2, <1>3, <3>1
  <2>2. {j \in 1..L : Begun(u, E, j) /\ IsDecl(u, j)} = IF IsDecl(u, 1) THEN {1} ELSE {}
    BY <1>4, <2>1
  <2>3. Path(p, u, R, 1) = path
    BY <2>1 DEF Path
  <2> HIDE DEF path
  <2>4. Keys(p, u, E, R) = {<<k, Path(p, u, R, k)>> : k \in (IF IsDecl(u, 1) THEN {1} ELSE {})}
    BY <2>2, Zenon DEF Keys, L
  <2>5. QED
    BY <2>3, <2>4
<1>10. {<<Len(t) + y[1], y[2]>> : y \in Keys(p, u, E, R)} = Keyed(p, u, q, Len(t))
  <2>1. Keyed(p, u, q, Len(t)) = IF IsDecl(u, 1) THEN {<<Len(t) + 1, path>>} ELSE {}
    BY Zenon DEF Keyed, z
  <2> HIDE DEF path
  <2>2. CASE IsDecl(u, 1)
    <3>1. Keys(p, u, E, R) = {<<1, path>>} /\ Keyed(p, u, q, Len(t)) = {<<Len(t) + 1, path>>}
      BY <1>9, <2>1, <2>2
    <3>2. QED
      BY <3>1
  <2>3. CASE ~IsDecl(u, 1)
    <3>1. Keys(p, u, E, R) = {} /\ Keyed(p, u, q, Len(t)) = {}
      BY <1>9, <2>1, <2>3
    <3>2. QED
      BY <3>1
  <2>4. QED
    BY <2>2, <2>3
<1>11. Known(p, t \o u, R[L], ks \cup {<<Len(t) + y[1], y[2]>> : y \in Keys(p, u, E, R)})
  BY <1>3, <1>6, <1>7, KnownMore, Zenon DEF L
<1>12. QED
  BY <1>8, <1>10, <1>11, Zenon DEF z

\* Prose: the lines in the cartouche are not read.
LEMMA ProseMore ==
  ASSUME NEW t \in Seq(Tokens), NEW st, NEW X, NEW ks,
         Known("isabelle", t, [stack |-> st, pending |-> X], ks)
  PROVE  Known("isabelle", t \o Prose, [stack |-> st, pending |-> X], ks)
<1> DEFINE q == [stack |-> st, pending |-> X]
<1> DEFINE u == Prose
<1> DEFINE E == [k \in 0..7 |-> IF k \in 2..5 THEN 1 ELSE 0]
<1> DEFINE R == [k \in 0..7 |-> q]
<1>1. u \in Seq(Tokens) /\ Len(u) = 7
  <2>1. "cmd" \in Tokens /\ "<o>" \in Tokens /\ "nl" \in Tokens /\ "end" \in Tokens /\ "<c>" \in Tokens
    BY DEF Tokens
  <2>2. QED
    BY <2>1 DEF Prose
<1>2. u[1] = "cmd" /\ u[2] = "<o>" /\ u[3] = "nl" /\ u[4] = "end" /\ u[5] = "nl" /\ u[6] = "<c>" /\ u[7] = "nl"
  BY DEF Prose
<1> HIDE DEF u
<1>3. LineStarts(u) = {1, 4, 6}
  <2>1. LineStarts(u) = {s \in 1..7 : s = 1 \/ u[s - 1] = "nl"}
    BY <1>1 DEF LineStarts
  <2>2. QED
    BY <1>2, <2>1
<1>4. Line(u, 1, 3) /\ Line(u, 4, 5) /\ Line(u, 6, 7)
  <2>1. Line(u, 1, 3)
    <3>1. \A k \in 1..(3 - 1) : k = 1 \/ k = 2
      OBVIOUS
    <3>2. \A k \in 1..(3 - 1) : u[k] \notin Space
      BY <1>2, <3>1 DEF Space
    <3>3. QED
      BY <1>1, <1>2, <3>2 DEF Line
  <2>2. Line(u, 4, 5)
    <3>1. \A k \in 4..(5 - 1) : u[k] \notin Space
      BY <1>2 DEF Space
    <3>2. QED
      BY <1>1, <1>2, <3>1 DEF Line
  <2>3. Line(u, 6, 7)
    <3>1. \A k \in 6..(7 - 1) : u[k] \notin Space
      BY <1>2 DEF Space
    <3>2. QED
      BY <1>1, <1>2, <3>1 DEF Line
  <2>4. QED
    BY <2>1, <2>2, <2>3
<1>5. Whole(u) /\ Closed(u) /\ u # <<>>
  <2>1. Whole(u)
    <3> SUFFICES ASSUME NEW s \in {1, 4, 6} PROVE \E e : Line(u, s, e)
      BY <1>3 DEF Whole
    <3>1. s = 1 \/ s = 4 \/ s = 6
      OBVIOUS
    <3>2. QED
      BY <1>4, <3>1, Zenon
  <2>2. Closed(u) /\ u # <<>>
    <3>1. u[Len(u)] = "nl"
      BY <1>1, <1>2, Zenon
    <3>2. Len(u) # Len(<<>>)
      BY <1>1
    <3>3. QED
      BY <3>1, <3>2, Zenon DEF Closed
  <2>3. QED
    BY <2>1, <2>2, Zenon
<1>6. /\ E[0] = 0 /\ E[1] = 0 /\ E[2] = 1 /\ E[3] = 1 /\ E[4] = 1 /\ E[5] = 1 /\ E[6] = 0 /\ E[7] = 0
      /\ \A k \in 0..7 : E[k] \in Nat
  OBVIOUS
<1> HIDE DEF q
<1>7. \A k \in 0..7 : R[k] = q
  OBVIOUS
<1> HIDE DEF E, R
<1>8. \A k \in 1..7 : Begun(u, E, k) <=> k = 1
  BY <1>3, <1>6 DEF Begun
<1>9. ScopeStep("isabelle", u, 1, q) = q /\ ~IsDecl(u, 1)
  <2>1. /\ FirstToken(u, 1) = u[1]
        /\ Begins("isabelle", u, 1) <=> \E k \in 1..(3 - 1) : u[k] = "begin"
    BY <1>1, <1>4, LineReads
  <2>2. FirstToken(u, 1) = "cmd" /\ ~Begins("isabelle", u, 1)
    BY <1>2, <2>1
  <2>3. ~IsDecl(u, 1) /\ Opens("isabelle", u, 1) = {}
    BY <2>2 DEF IsDecl, Opens
  <2>4. [q EXCEPT !.pending = q.pending] = q
    BY DEF q
  <2>5. ScopeStep("isabelle", u, 1, q) = [q EXCEPT !.pending = q.pending]
    BY <2>2, <2>3 DEF ScopeStep
  <2>6. QED
    BY <2>3, <2>4, <2>5
<1>10. ASSUME NEW k \in 1..7
       PROVE  E[k] = Deep(E[k - 1], u[k]) /\ u[k] # "str" /\ Scan("isabelle", u, E, R, k)
  <2>1. E[k] = Deep(E[k - 1], u[k]) /\ u[k] # "str"
    BY <1>2, <1>6 DEF Deep
  <2>2. R[k] = q /\ R[k - 1] = q
    BY <1>7
  <2>3. Begun(u, E, k) => ScopeStep("isabelle", u, k, q) = q
    BY <1>8, <1>9
  <2>4. Scan("isabelle", u, E, R, k)
    BY <2>2, <2>3 DEF Scan
  <2>5. QED
    BY <2>1, <2>4
<1>11. Read("isabelle", u, E, R)
  BY <1>1, <1>5, <1>6, <1>10 DEF Read
<1>12. Keys("isabelle", u, E, R) = {}
  BY <1>1, <1>8, <1>9 DEF Keys
<1>13. R[0] = q /\ R[7] = q
  BY <1>7
<1>14. Known("isabelle", t \o u, R[Len(u)],
             ks \cup {<<Len(t) + z[1], z[2]>> : z \in Keys("isabelle", u, E, R)})
  <2>1. Known("isabelle", t, q, ks)
    BY DEF q
  <2>2. QED
    BY <1>1, <1>5, <1>11, <1>13, <2>1, KnownMore, Zenon
<1>15. ks \cup {<<Len(t) + z[1], z[2]>> : z \in Keys("isabelle", u, E, R)} = ks
  BY <1>12
<1>16. QED
  BY <1>1, <1>13, <1>14, <1>15, Zenon DEF u, q

-----------------------------------------------------------------------------
(* The lines that are written, and what each does.                         *)

LineTokens == Tokens \ (Space \cup {"str", "<o>", "<c>"})
Says(u, first, name, begins) ==
  /\ u \in Seq(Tokens) /\ OneLine(u)
  /\ First(u, 1) = 1 /\ FirstToken(u, 1) = first /\ NameAfter(u, 1) = name
  /\ \A p : Begins(p, u, 1) <=> p # "isabelle" \/ begins

LEMMA LineSays ==
  ASSUME NEW u \in Seq(Tokens), Len(u) >= 2, u[Len(u)] = "nl",
         \A k \in 1..(Len(u) - 1) : u[k] \in LineTokens
  PROVE  Says(u, u[1], IF 2 < Len(u) THEN u[2] ELSE None,
              \E k \in 1..(Len(u) - 1) : u[k] = "begin")
<1> DEFINE L == Len(u)
<1>0. L \in Nat /\ L >= 2
  OBVIOUS
<1>1. \A k \in 1..(L - 1) : u[k] \notin Space /\ u[k] \notin {"str", "<o>", "<c>"}
  BY DEF LineTokens
<1>2. Line(u, 1, L)
  BY <1>1 DEF Line
<1>3. OneLine(u)
  <2>1. \A k \in 1..L : k \in 1..(L - 1) \/ k = L
    BY <1>0
  <2>2. \A k \in 1..L : u[k] \notin {"str", "<o>", "<c>"}
    BY <1>1, <2>1
  <2>3. QED
    BY <1>2, <2>2 DEF OneLine
<1>4. /\ First(u, 1) = 1 /\ FirstToken(u, 1) = u[1]
      /\ NameAfter(u, 1) = IF 1 + 1 < L THEN u[1 + 1] ELSE None
      /\ \A p : Begins(p, u, 1) <=> p # "isabelle" \/ \E k \in 1..(L - 1) : u[k] = "begin"
  BY <1>2, LineReads
<1>5. 1 + 1 = 2
  OBVIOUS
<1>6. QED
  BY <1>3, <1>4, <1>5, Zenon DEF Says

LEMMA TwoSay ==
  ASSUME NEW a \in LineTokens
  PROVE  Says(<<a, "nl">>, a, None, a = "begin")
<1> DEFINE u == <<a, "nl">>
<1>0. "nl" \in Tokens /\ a \in Tokens
  BY DEF Tokens, LineTokens
<1>1. u \in Seq(Tokens) /\ Len(u) = 2 /\ u[1] = a /\ u[2] = "nl"
  BY <1>0
<1> HIDE DEF u
<1>2. \A k \in 1..(Len(u) - 1) : u[k] \in LineTokens
  BY <1>1
<1>3. Says(u, u[1], IF 2 < Len(u) THEN u[2] ELSE None, \E k \in 1..(Len(u) - 1) : u[k] = "begin")
  <2>1. Len(u) >= 2 /\ u[Len(u)] = "nl"
    BY <1>1
  <2>2. QED
    BY <1>1, <1>2, <2>1, LineSays, Zenon
<1>4. (\E k \in 1..(Len(u) - 1) : u[k] = "begin") <=> a = "begin"
  BY <1>1
<1>5. (IF 2 < Len(u) THEN u[2] ELSE None) = None
  BY <1>1
<1>6. QED
  BY <1>1, <1>3, <1>4, <1>5, Zenon DEF Says, u

LEMMA ThreeSay ==
  ASSUME NEW a \in LineTokens, NEW b \in LineTokens
  PROVE  Says(<<a, b, "nl">>, a, b, "begin" \in {a, b})
<1> DEFINE u == <<a, b, "nl">>
<1>0. "nl" \in Tokens /\ a \in Tokens /\ b \in Tokens
  BY DEF Tokens, LineTokens
<1>1. u \in Seq(Tokens) /\ Len(u) = 3 /\ u[1] = a /\ u[2] = b /\ u[3] = "nl"
  BY <1>0
<1> HIDE DEF u
<1>2. \A k \in 1..(Len(u) - 1) : u[k] \in LineTokens
  BY <1>1
<1>3. Says(u, u[1], IF 2 < Len(u) THEN u[2] ELSE None, \E k \in 1..(Len(u) - 1) : u[k] = "begin")
  <2>1. Len(u) >= 2 /\ u[Len(u)] = "nl"
    BY <1>1
  <2>2. QED
    BY <1>1, <1>2, <2>1, LineSays, Zenon
<1>4. (\E k \in 1..(Len(u) - 1) : u[k] = "begin") <=> "begin" \in {a, b}
  BY <1>1
<1>5. (IF 2 < Len(u) THEN u[2] ELSE None) = b
  BY <1>1
<1>6. QED
  BY <1>1, <1>3, <1>4, <1>5, Zenon DEF Says, u

LEMMA FourSay ==
  ASSUME NEW a \in LineTokens, NEW b \in LineTokens, NEW c \in LineTokens
  PROVE  Says(<<a, b, c, "nl">>, a, b, "begin" \in {a, b, c})
<1> DEFINE u == <<a, b, c, "nl">>
<1>0. "nl" \in Tokens /\ a \in Tokens /\ b \in Tokens /\ c \in Tokens
  BY DEF Tokens, LineTokens
<1>1. u \in Seq(Tokens) /\ Len(u) = 4 /\ u[1] = a /\ u[2] = b /\ u[3] = c /\ u[4] = "nl"
  BY <1>0
<1> HIDE DEF u
<1>2. \A k \in 1..(Len(u) - 1) : u[k] \in LineTokens
  BY <1>1
<1>3. Says(u, u[1], IF 2 < Len(u) THEN u[2] ELSE None, \E k \in 1..(Len(u) - 1) : u[k] = "begin")
  <2>1. Len(u) >= 2 /\ u[Len(u)] = "nl"
    BY <1>1
  <2>2. QED
    BY <1>1, <1>2, <2>1, LineSays, Zenon
<1>4. (\E k \in 1..(Len(u) - 1) : u[k] = "begin") <=> "begin" \in {a, b, c}
  BY <1>1
<1>5. (IF 2 < Len(u) THEN u[2] ELSE None) = b
  BY <1>1
<1>6. QED
  BY <1>1, <1>3, <1>4, <1>5, Zenon DEF Says, u

LEMMA FiveSay ==
  ASSUME NEW a \in LineTokens, NEW b \in LineTokens, NEW c \in LineTokens, NEW d \in LineTokens
  PROVE  Says(<<a, b, c, d, "nl">>, a, b, "begin" \in {a, b, c, d})
<1> DEFINE u == <<a, b, c, d, "nl">>
<1>0. "nl" \in Tokens /\ a \in Tokens /\ b \in Tokens /\ c \in Tokens /\ d \in Tokens
  BY DEF Tokens, LineTokens
<1>1. /\ u \in Seq(Tokens) /\ Len(u) = 5
      /\ u[1] = a /\ u[2] = b /\ u[3] = c /\ u[4] = d /\ u[5] = "nl"
  BY <1>0
<1> HIDE DEF u
<1>2. \A k \in 1..(Len(u) - 1) : u[k] \in LineTokens
  BY <1>1
<1>3. Says(u, u[1], IF 2 < Len(u) THEN u[2] ELSE None, \E k \in 1..(Len(u) - 1) : u[k] = "begin")
  <2>1. Len(u) >= 2 /\ u[Len(u)] = "nl"
    BY <1>1
  <2>2. QED
    BY <1>1, <1>2, <2>1, LineSays, Zenon
<1>4. (\E k \in 1..(Len(u) - 1) : u[k] = "begin") <=> "begin" \in {a, b, c, d}
  BY <1>1
<1>5. (IF 2 < Len(u) THEN u[2] ELSE None) = b
  BY <1>1
<1>6. QED
  BY <1>1, <1>3, <1>4, <1>5, Zenon DEF Says, u

\* An opener arms, and on a line that begins, or outside Isabelle, it pushes.
Entry(p, first, name) ==
  IF first = "section"
  THEN [named |-> FALSE, name |-> IF p = "lean4" THEN name ELSE None]
  ELSE [named |-> TRUE, name |-> name]
At(S, X) == [stack |-> S, pending |-> X]

Opening(p, u, e, begins, S, X) ==
  /\ Opens(p, u, 1) = {e}
  /\ p # "isabelle" \/ begins => ScopeStep(p, u, 1, At(S, X)) = At(Append(S, e), {})
  /\ ~(p # "isabelle" \/ begins) => ScopeStep(p, u, 1, At(S, X)) = At(S, {e})

LEMMA OpenerDoes ==
  ASSUME NEW p, NEW u, NEW first \in {"module", "locale", "section"}, NEW name, NEW begins,
         Says(u, first, name, begins), NEW S, NEW X
  PROVE  Opening(p, u, Entry(p, first, name), begins, S, X)
<1> DEFINE e == Entry(p, first, name)
<1> DEFINE q == At(S, X)
<1>1. FirstToken(u, 1) = first /\ NameAfter(u, 1) = name
      /\ (Begins(p, u, 1) <=> p # "isabelle" \/ begins)
  BY Zenon DEF Says
<1>2. Opens(p, u, 1) = {e}
  <2>1. CASE first = "section"
    BY <1>1, <2>1 DEF Opens, Entry
  <2>2. CASE first \in {"module", "locale"}
    BY <1>1, <2>2 DEF Opens, Entry
  <2>3. QED
    BY <2>1, <2>2
<1>3. (CHOOSE y \in {e} : TRUE) = e /\ {e} # {}
  OBVIOUS
<1>4. first # "end"
  OBVIOUS
<1>5. q.stack = S /\ [q EXCEPT !.pending = {e}] = At(S, {e})
  BY DEF At
<1> HIDE DEF e, q
<1>6. ScopeStep(p, u, 1, q) = IF Begins(p, u, 1)
                              THEN [stack |-> Append(S, e), pending |-> {}]
                              ELSE [q EXCEPT !.pending = {e}]
  BY <1>1, <1>2, <1>3, <1>4, <1>5 DEF ScopeStep
<1>7. p # "isabelle" \/ begins => ScopeStep(p, u, 1, q) = At(Append(S, e), {})
  <2> SUFFICES ASSUME p # "isabelle" \/ begins PROVE ScopeStep(p, u, 1, q) = At(Append(S, e), {})
    OBVIOUS
  <2>1. Begins(p, u, 1)
    BY <1>1, Zenon
  <2>2. QED
    BY <1>6, <2>1, Zenon DEF At
<1>8. ~(p # "isabelle" \/ begins) => ScopeStep(p, u, 1, q) = At(S, {e})
  <2> SUFFICES ASSUME ~(p # "isabelle" \/ begins) PROVE ScopeStep(p, u, 1, q) = At(S, {e})
    OBVIOUS
  <2>1. ~Begins(p, u, 1)
    BY <1>1, Zenon
  <2>2. QED
    BY <1>5, <1>6, <2>1, Zenon
<1>9. QED
  BY <1>2, <1>7, <1>8, Zenon DEF e, q, Opening

\* Any other line but a closer leaves what is open, or commits what was armed.
Passing(p, u, begins, S, X) ==
  /\ Opens(p, u, 1) = {}
  /\ X = {} \/ (p = "isabelle" /\ ~begins) => ScopeStep(p, u, 1, At(S, X)) = At(S, X)
  /\ \A e : X = {e} /\ begins => ScopeStep(p, u, 1, At(S, X)) = At(Append(S, e), {})

LEMMA OtherDoes ==
  ASSUME NEW p, NEW u, NEW first, first \notin {"module", "locale", "section", "end"},
         NEW name, NEW begins, Says(u, first, name, begins), NEW S, NEW X
  PROVE  Passing(p, u, begins, S, X)
<1> DEFINE q == At(S, X)
<1>1. FirstToken(u, 1) = first /\ (Begins(p, u, 1) <=> p # "isabelle" \/ begins)
  BY Zenon DEF Says
<1>2. Opens(p, u, 1) = {} /\ first # "end"
  BY <1>1 DEF Opens
<1>3. q.stack = S /\ q.pending = X /\ [q EXCEPT !.pending = X] = q
  BY DEF At
<1> HIDE DEF q
<1>4. ScopeStep(p, u, 1, q) =
        IF X # {} /\ Begins(p, u, 1)
        THEN [stack |-> Append(S, CHOOSE e \in X : TRUE), pending |-> {}]
        ELSE [q EXCEPT !.pending = X]
  BY <1>1, <1>2, <1>3 DEF ScopeStep
<1>5. X = {} \/ (p = "isabelle" /\ ~begins) => ScopeStep(p, u, 1, q) = q
  <2> SUFFICES ASSUME X = {} \/ (p = "isabelle" /\ ~begins) PROVE ScopeStep(p, u, 1, q) = q
    OBVIOUS
  <2>1. ~(X # {} /\ Begins(p, u, 1))
    BY <1>1, Zenon
  <2>2. QED
    BY <1>3, <1>4, <2>1, Zenon
<1>6. ASSUME NEW e, X = {e}, begins PROVE ScopeStep(p, u, 1, q) = At(Append(S, e), {})
  <2>1. (CHOOSE y \in {e} : TRUE) = e /\ {e} # {}
    OBVIOUS
  <2>2. Begins(p, u, 1)
    BY <1>1, <1>6, Zenon
  <2>3. QED
    BY <1>4, <1>6, <2>1, <2>2, Zenon DEF At
<1>7. QED
  BY <1>2, <1>5, <1>6, Zenon DEF q, Passing

Closing(p, u, name, S, X) == ScopeStep(p, u, 1, At(S, X)) = At(PopScope(S, name), {})

LEMMA CloserDoes ==
  ASSUME NEW p, NEW u, NEW name, NEW begins, Says(u, "end", name, begins), NEW S, NEW X
  PROVE  Closing(p, u, name, S, X)
<1>1. FirstToken(u, 1) = "end" /\ NameAfter(u, 1) = name
  BY Zenon DEF Says
<1>2. At(S, X).stack = S
  BY DEF At
<1>3. QED
  BY <1>1, <1>2, Zenon DEF ScopeStep, At, Closing

\* What a line does to a text that is known.
LEMMA LineKnown ==
  ASSUME NEW p, NEW t \in Seq(Tokens), NEW q, NEW ks, Known(p, t, q, ks),
         NEW u, NEW first, NEW name, NEW begins, Says(u, first, name, begins)
  PROVE  /\ Known(p, t \o u, ScopeStep(p, u, 1, q), ks \cup Keyed(p, u, q, Len(t)))
         /\ first \notin {"kw", "locale"} => Keyed(p, u, q, Len(t)) = {}
         /\ t \o u \in Seq(Tokens)
<1>1. u \in Seq(Tokens) /\ OneLine(u) /\ FirstToken(u, 1) = first
  BY Zenon DEF Says
<1>2. Known(p, t \o u, ScopeStep(p, u, 1, q), ks \cup Keyed(p, u, q, Len(t)))
  BY <1>1, LineMore, Zenon
<1>3. first \notin {"kw", "locale"} => Keyed(p, u, q, Len(t)) = {}
  BY <1>1 DEF Keyed, IsDecl
<1>4. t \o u \in Seq(Tokens)
  BY <1>1, Concat, Zenon DEF Extends
<1>5. QED
  BY <1>2, <1>3, <1>4

LEMMA OpenerKnown ==
  ASSUME NEW p, NEW t \in Seq(Tokens), NEW S, NEW X, NEW ks, Known(p, t, At(S, X), ks),
         NEW u, NEW first \in {"module", "section"}, NEW name, NEW begins,
         Says(u, first, name, begins)
  PROVE  /\ p # "isabelle" \/ begins => Known(p, t \o u, At(Append(S, Entry(p, first, name)), {}), ks)
         /\ ~(p # "isabelle" \/ begins) => Known(p, t \o u, At(S, {Entry(p, first, name)}), ks)
<1> DEFINE q == At(S, X)
<1>1. first \in {"module", "locale", "section"} /\ first \notin {"kw", "locale"}
  OBVIOUS
<1>2. Known(p, t \o u, ScopeStep(p, u, 1, q), ks \cup Keyed(p, u, q, Len(t))) /\ Keyed(p, u, q, Len(t)) = {}
  BY <1>1, LineKnown, Zenon
<1>3. Known(p, t \o u, ScopeStep(p, u, 1, q), ks)
  <2>1. ks \cup {} = ks
    OBVIOUS
  <2>2. QED
    BY <1>2, <2>1, Zenon
<1>4. Opening(p, u, Entry(p, first, name), begins, S, X)
  BY <1>1, OpenerDoes, Zenon
<1>5. QED
  BY <1>3, <1>4, Zenon DEF Opening

LEMMA BeginKnown ==
  ASSUME NEW p, NEW t \in Seq(Tokens), NEW S, NEW e, NEW ks, Known(p, t, At(S, {e}), ks)
  PROVE  Known(p, t \o <<"begin", "nl">>, At(Append(S, e), {}), ks)
<1> DEFINE u == <<"begin", "nl">>
<1>1. "begin" \in LineTokens
  BY DEF LineTokens, Tokens, Space
<1>2. Says(u, "begin", None, "begin" = "begin")
  BY <1>1, TwoSay, Zenon
<1>3. /\ "begin" \notin {"module", "locale", "section", "end"} /\ "begin" \notin {"kw", "locale"}
      /\ "begin" = "begin"
  OBVIOUS
<1> HIDE DEF u
<1>4. Known(p, t \o u, ScopeStep(p, u, 1, At(S, {e})), ks \cup Keyed(p, u, At(S, {e}), Len(t)))
      /\ Keyed(p, u, At(S, {e}), Len(t)) = {}
  BY <1>2, <1>3, LineKnown, Zenon
<1>5. ScopeStep(p, u, 1, At(S, {e})) = At(Append(S, e), {})
  <2>1. Passing(p, u, "begin" = "begin", S, {e})
    BY <1>2, <1>3, OtherDoes, Zenon
  <2>2. QED
    BY <1>3, <2>1, Zenon DEF Passing
<1>6. ks \cup {} = ks
  OBVIOUS
<1>7. QED
  BY <1>4, <1>5, <1>6, Zenon DEF u

LEMMA CloserKnown ==
  ASSUME NEW p, NEW t \in Seq(Tokens), NEW S, NEW X, NEW ks, Known(p, t, At(S, X), ks),
         NEW u, NEW name, NEW begins, Says(u, "end", name, begins)
  PROVE  Known(p, t \o u, At(PopScope(S, name), {}), ks)
<1>1. "end" \notin {"kw", "locale"} /\ ks \cup {} = ks
  OBVIOUS
<1>2. Known(p, t \o u, ScopeStep(p, u, 1, At(S, X)), ks \cup Keyed(p, u, At(S, X), Len(t)))
      /\ Keyed(p, u, At(S, X), Len(t)) = {}
  BY <1>1, LineKnown, Zenon
<1>3. ScopeStep(p, u, 1, At(S, X)) = At(PopScope(S, name), {})
  <2>1. Closing(p, u, name, S, X)
    BY CloserDoes, Zenon
  <2>2. QED
    BY <2>1 DEF Closing
<1>4. QED
  BY <1>1, <1>2, <1>3, Zenon

\* The names of the scopes in S that contribute.
Contributing(S) == Given([i \in DOMAIN S |-> IF S[i].named THEN S[i].name ELSE None])

\* The path of a declaration with an inline target.
Target(name) == IF name = "-" THEN <<>> ELSE <<name>>

LEMMA DeclKnown ==
  ASSUME NEW p, NEW t \in Seq(Tokens), NEW S, NEW X, NEW ks, Known(p, t, At(S, X), ks),
         X = {} \/ p = "isabelle",
         NEW u, NEW name, NEW begins, ~begins, Says(u, "kw", name, begins)
  PROVE  /\ name # "in" => Known(p, t \o u, At(S, X), ks \cup {<<Len(t) + 1, Contributing(S)>>})
         /\ p = "isabelle" /\ name = "in" =>
              Known(p, t \o u, At(S, X), ks \cup {<<Len(t) + 1, Target(u[3])>>})
<1> DEFINE q == At(S, X)
<1>1. /\ u \in Seq(Tokens) /\ FirstToken(u, 1) = "kw" /\ NameAfter(u, 1) = name
      /\ First(u, 1) = 1
  BY Zenon DEF Says
<1>2. "kw" \notin {"module", "locale", "section", "end"}
  OBVIOUS
<1>3. Known(p, t \o u, ScopeStep(p, u, 1, q), ks \cup Keyed(p, u, q, Len(t)))
  BY LineKnown, Zenon
<1>4. Opens(p, u, 1) = {} /\ ScopeStep(p, u, 1, q) = q
  <2>1. Passing(p, u, begins, S, X)
    BY <1>2, OtherDoes, Zenon
  <2>2. QED
    BY <2>1, Zenon DEF Passing
<1>5. q.stack = S
  BY DEF At
<1> HIDE DEF q
<1>6. Keyed(p, u, q, Len(t)) = {<<Len(t) + 1, ScopePath(p, u, 1, S)>>}
  BY <1>1, <1>4, <1>5 DEF Keyed, IsDecl
<1>7. name # "in" => ScopePath(p, u, 1, S) = Contributing(S)
  BY <1>1, Zenon DEF ScopePath, Contributing
<1>8. p = "isabelle" /\ name = "in" => ScopePath(p, u, 1, S) = Target(u[3])
  <2>1. 1 + 2 = 3
    OBVIOUS
  <2>2. QED
    BY <1>1, <2>1, Zenon DEF ScopePath, Target
<1>9. QED
  BY <1>3, <1>4, <1>6, <1>7, <1>8, Zenon DEF q

LEMMA LocaleKnown ==
  ASSUME NEW p, NEW t \in Seq(Tokens), NEW S, NEW X, NEW ks, Known(p, t, At(S, X), ks),
         NEW u, NEW name, name # "in", NEW begins, Says(u, "locale", name, begins)
  PROVE  /\ p # "isabelle" \/ begins =>
              Known(p, t \o u, At(Append(S, Entry(p, "locale", name)), {}),
                    ks \cup {<<Len(t) + 1, Contributing(S)>>})
         /\ ~(p # "isabelle" \/ begins) =>
              Known(p, t \o u, At(S, {Entry(p, "locale", name)}), ks \cup {<<Len(t) + 1, Contributing(S)>>})
<1> DEFINE q == At(S, X)
<1>1. FirstToken(u, 1) = "locale" /\ NameAfter(u, 1) = name
  BY Zenon DEF Says
<1>2. "locale" \in {"module", "locale", "section"}
  OBVIOUS
<1>3. Known(p, t \o u, ScopeStep(p, u, 1, q), ks \cup Keyed(p, u, q, Len(t)))
  BY LineKnown, Zenon
<1>4. /\ Opens(p, u, 1) = {Entry(p, "locale", name)}
      /\ p # "isabelle" \/ begins => ScopeStep(p, u, 1, q) = At(Append(S, Entry(p, "locale", name)), {})
      /\ ~(p # "isabelle" \/ begins) => ScopeStep(p, u, 1, q) = At(S, {Entry(p, "locale", name)})
  <2>1. Opening(p, u, Entry(p, "locale", name), begins, S, X)
    BY <1>2, OpenerDoes, Zenon
  <2>2. QED
    BY <2>1, Zenon DEF Opening
<1>5. q.stack = S /\ Opens(p, u, 1) # {}
  BY <1>4 DEF At
<1> HIDE DEF q
<1>6. Keyed(p, u, q, Len(t)) = {<<Len(t) + 1, ScopePath(p, u, 1, S)>>}
  BY <1>1, <1>5 DEF Keyed, IsDecl
<1>7. ScopePath(p, u, 1, S) = Contributing(S)
  BY <1>1, Zenon DEF ScopePath, Contributing
<1>8. QED
  BY <1>3, <1>4, <1>6, <1>7, Zenon DEF q

-----------------------------------------------------------------------------
(* The scopes that are open, as the walk keeps them.                       *)

Kinds == {"module", "section"}
Letters == {"A", "B"}
Entries == {Entry(p, kind, name) : p \in DOMAIN Syntax, kind \in Kinds, name \in Letters}
Img(p, s) == [i \in DOMAIN s |-> Entry(p, s[i].kind, s[i].name)]

LEMMA ImgIs ==
  ASSUME NEW p \in DOMAIN Syntax, NEW s \in Scopes
  PROVE  /\ Img(p, s) \in Seq(Entries) /\ Len(Img(p, s)) = Len(s) /\ Len(s) \in Nat
         /\ \A i \in 1..Len(s) : /\ s[i].kind \in Kinds /\ s[i].name \in Letters
                                 /\ Img(p, s)[i] = Entry(p, s[i].kind, s[i].name)
<1> DEFINE I == Img(p, s)
<1> DEFINE Scope == [kind : Kinds, name : Letters]
<1>0. \A e \in Scope : e.kind \in Kinds /\ e.name \in Letters
  OBVIOUS
<1>1. s \in Seq(Scope)
  BY DEF Scopes, Kinds, Letters
<1> HIDE DEF Scope
<1>2. \A i \in 1..Len(s) : s[i].kind \in Kinds /\ s[i].name \in Letters
  <2>1. \A i \in 1..Len(s) : s[i] \in Scope
    BY <1>1
  <2>2. QED
    BY <1>0, <2>1, Zenon
<1>3. DOMAIN s = 1..Len(s) /\ Len(s) \in Nat
  BY <1>1
<1>4. I = [i \in 1..Len(s) |-> Entry(p, s[i].kind, s[i].name)]
  BY <1>3 DEF Img
<1>5. \A i \in 1..Len(s) : Entry(p, s[i].kind, s[i].name) \in Entries
  BY <1>2 DEF Entries
<1> HIDE DEF I
<1>6. I \in Seq(Entries) /\ Len(I) = Len(s) /\ \A i \in 1..Len(s) : I[i] = Entry(p, s[i].kind, s[i].name)
  BY <1>3, <1>4, <1>5
<1>7. QED
  BY <1>2, <1>3, <1>6 DEF I

LEMMA Equal ==
  ASSUME NEW S, NEW s \in Seq(S), NEW t \in Seq(S), Len(s) = Len(t),
         \A i \in 1..Len(s) : s[i] = t[i]
  PROVE  s = t
OBVIOUS

Appended(r, s, e, S) ==
  /\ r \in Seq(S) /\ Len(r) = Len(s) + 1
  /\ \A i \in 1..Len(s) : r[i] = s[i]
  /\ r[Len(s) + 1] = e
LEMMA AppendIs ==
  ASSUME NEW S, NEW s \in Seq(S), NEW e \in S
  PROVE  Appended(Append(s, e), s, e, S)
BY DEF Appended

LEMMA ImgMore ==
  ASSUME NEW p \in DOMAIN Syntax, NEW s \in Scopes, NEW kind \in Kinds, NEW name \in Letters
  PROVE  /\ Append(s, [kind |-> kind, name |-> name]) \in Scopes
         /\ Img(p, Append(s, [kind |-> kind, name |-> name])) = Append(Img(p, s), Entry(p, kind, name))
<1> DEFINE e == [kind |-> kind, name |-> name]
<1> DEFINE Scope == [kind : Kinds, name : Letters]
<1> DEFINE r == Append(s, e)
<1> DEFINE I == Img(p, s)
<1> DEFINE E == Entry(p, kind, name)
<1>1. Scopes = Seq(Scope)
  BY DEF Scopes, Kinds, Letters
<1>2. e \in Scope /\ e.kind = kind /\ e.name = name
  OBVIOUS
<1> HIDE DEF e, Scope
<1>3. Appended(r, s, e, Scope)
  BY <1>1, <1>2, AppendIs, Zenon
<1>4. r \in Scopes
  BY <1>1, <1>3, Zenon DEF Appended
<1>5. E \in Entries
  BY DEF Entries
<1>6. /\ I \in Seq(Entries) /\ Len(I) = Len(s) /\ Len(s) \in Nat
      /\ \A i \in 1..Len(s) : I[i] = Entry(p, s[i].kind, s[i].name)
  BY ImgIs
<1> HIDE DEF I, E, r
<1>7. Appended(Append(I, E), I, E, Entries)
  BY <1>5, <1>6, AppendIs, Zenon
<1>8. /\ Img(p, r) \in Seq(Entries) /\ Len(Img(p, r)) = Len(r)
      /\ \A i \in 1..Len(r) : Img(p, r)[i] = Entry(p, r[i].kind, r[i].name)
  BY <1>4, ImgIs
<1>9. Len(r) = Len(s) + 1 /\ \A i \in 1..Len(s) : r[i] = s[i]
  BY <1>3 DEF Appended
<1>10. r[Len(s) + 1] = e
  BY <1>3 DEF Appended
<1>11. /\ Append(I, E) \in Seq(Entries) /\ Len(Append(I, E)) = Len(s) + 1
       /\ \A i \in 1..Len(s) : Append(I, E)[i] = I[i]
       /\ Append(I, E)[Len(s) + 1] = E
  BY <1>6, <1>7 DEF Appended
<1>12. ASSUME NEW i \in 1..(Len(s) + 1) PROVE Img(p, r)[i] = Append(I, E)[i]
  <2>1. CASE i = Len(s) + 1
    <3>1. Img(p, r)[i] = Entry(p, e.kind, e.name)
      BY <1>8, <1>9, <1>10, <2>1
    <3>2. QED
      BY <1>2, <1>11, <2>1, <3>1 DEF E
  <2>2. CASE i # Len(s) + 1
    <3>1. i \in 1..Len(s) /\ i \in 1..Len(r)
      BY <1>6, <1>9, <2>2
    <3>2. Img(p, r)[i] = Entry(p, s[i].kind, s[i].name)
      BY <1>8, <1>9, <3>1
    <3>3. QED
      BY <1>6, <1>11, <3>1, <3>2
  <2>3. QED
    BY <2>1, <2>2
<1>13. Img(p, r) = Append(I, E)
  <2>1. Len(Img(p, r)) = Len(Append(I, E)) /\ \A i \in 1..Len(Img(p, r)) : Img(p, r)[i] = Append(I, E)[i]
    BY <1>8, <1>9, <1>11, <1>12
  <2>2. QED
    BY <1>8, <1>11, <2>1, Equal, Zenon
<1>14. QED
  BY <1>4, <1>13 DEF r, I, E, e

Fronted(r, s, S) == r \in Seq(S) /\ Len(r) = Len(s) - 1 /\ \A i \in 1..(Len(s) - 1) : r[i] = s[i]
LEMMA FrontIs ==
  ASSUME NEW S, NEW s \in Seq(S), s # <<>>
  PROVE  Fronted(Front(s), s, S)
<1>1. Len(s) \in Nat /\ Len(s) # 0
  OBVIOUS
<1>2. Front(s) = SubSeq(s, 1, Len(s) - 1)
  BY DEF Front
<1>3. Front(s) \in Seq(S)
  BY LastFront
<1>4. Len(Front(s)) = Len(s) - 1
  <2> DEFINE m == Len(s) - 1
  <2>1. m \in Nat /\ m <= Len(s) /\ Front(s) = SubSeq(s, 1, m)
    BY <1>1, <1>2
  <2> HIDE DEF m
  <2>2. \A i \in 1..m : i \in 1..Len(s) /\ s[i] \in S
    BY <1>1, <2>1
  <2>3. Len(SubSeq(s, 1, m)) = m
    BY <1>1, <2>1, <2>2
  <2>4. QED
    BY <2>1, <2>3 DEF m
<1>5. \A i \in 1..(Len(s) - 1) : Front(s)[i] = s[i]
  BY <1>1, <1>2
<1>6. QED
  BY <1>3, <1>4, <1>5 DEF Fronted

LEMMA ImgLess ==
  ASSUME NEW p \in DOMAIN Syntax, NEW s \in Scopes, s # <<>>
  PROVE  /\ Front(s) \in Scopes /\ Img(p, s) # <<>>
         /\ Img(p, Front(s)) = Front(Img(p, s))
<1> DEFINE Scope == [kind : Kinds, name : Letters]
<1> DEFINE r == Front(s)
<1> DEFINE I == Img(p, s)
<1>1. Scopes = Seq(Scope)
  BY DEF Scopes, Kinds, Letters
<1> HIDE DEF Scope
<1>2. Fronted(r, s, Scope)
  BY <1>1, FrontIs, Zenon
<1>3. r \in Scopes
  BY <1>1, <1>2, Zenon DEF Fronted
<1>4. /\ I \in Seq(Entries) /\ Len(I) = Len(s) /\ Len(s) \in Nat
      /\ \A i \in 1..Len(s) : I[i] = Entry(p, s[i].kind, s[i].name)
  BY ImgIs
<1>5. Len(s) # 0
  BY <1>1
<1> HIDE DEF I, r
<1>6. I # <<>>
  BY <1>4, <1>5
<1>7. Fronted(Front(I), I, Entries)
  BY <1>4, <1>6, FrontIs, Zenon
<1>8. /\ Img(p, r) \in Seq(Entries) /\ Len(Img(p, r)) = Len(r)
      /\ \A i \in 1..Len(r) : Img(p, r)[i] = Entry(p, r[i].kind, r[i].name)
  BY <1>3, ImgIs
<1>9. Len(r) = Len(s) - 1 /\ \A i \in 1..(Len(s) - 1) : r[i] = s[i]
  BY <1>2 DEF Fronted
<1>10. /\ Front(I) \in Seq(Entries) /\ Len(Front(I)) = Len(s) - 1
       /\ \A i \in 1..(Len(s) - 1) : Front(I)[i] = I[i]
  BY <1>4, <1>7 DEF Fronted
<1>11. ASSUME NEW i \in 1..(Len(s) - 1) PROVE Img(p, r)[i] = Front(I)[i]
  <2>1. i \in 1..Len(s) /\ i \in 1..Len(r)
    BY <1>4, <1>9
  <2>2. Img(p, r)[i] = Entry(p, s[i].kind, s[i].name)
    BY <1>8, <1>9, <2>1
  <2>3. QED
    BY <1>4, <1>10, <2>1, <2>2
<1>12. Img(p, r) = Front(I)
  <2>1. Len(Img(p, r)) = Len(Front(I)) /\ \A i \in 1..Len(Img(p, r)) : Img(p, r)[i] = Front(I)[i]
    BY <1>8, <1>9, <1>10, <1>11
  <2>2. QED
    BY <1>8, <1>10, <2>1, Equal, Zenon
<1>13. QED
  BY <1>3, <1>6, <1>12 DEF r, I

\* The names that make the key are those of the modules around.
LEMMA ImgAround ==
  ASSUME NEW p \in DOMAIN Syntax, NEW s \in Scopes
  PROVE  Contributing(Img(p, s)) = Around(s)
<1> DEFINE I == Img(p, s)
<1> DEFINE a == [i \in DOMAIN I |-> IF I[i].named THEN I[i].name ELSE None]
<1> DEFINE b == [i \in DOMAIN s |-> IF s[i].kind = "module" THEN s[i].name ELSE None]
<1>1. /\ I \in Seq(Entries) /\ Len(I) = Len(s) /\ Len(s) \in Nat
      /\ \A i \in 1..Len(s) : s[i].kind \in Kinds /\ I[i] = Entry(p, s[i].kind, s[i].name)
  BY ImgIs
<1>2. DOMAIN I = 1..Len(s) /\ DOMAIN s = 1..Len(s)
  BY <1>1 DEF Scopes
<1> HIDE DEF I
<1>3. ASSUME NEW i \in 1..Len(s)
      PROVE  (IF I[i].named THEN I[i].name ELSE None) = (IF s[i].kind = "module" THEN s[i].name ELSE None)
  <2>1. s[i].kind \in Kinds /\ I[i] = Entry(p, s[i].kind, s[i].name)
    BY <1>1
  <2>2. CASE s[i].kind = "section"
    <3>1. I[i].named = FALSE
      BY <2>1, <2>2 DEF Entry
    <3>2. s[i].kind # "module"
      BY <2>2
    <3>3. QED
      BY <3>1, <3>2, Zenon
  <2>3. CASE s[i].kind # "section"
    <3>1. I[i].named = TRUE /\ I[i].name = s[i].name
      BY <2>1, <2>3 DEF Entry
    <3>2. s[i].kind = "module"
      BY <2>1, <2>3 DEF Kinds
    <3>3. QED
      BY <3>1, <3>2, Zenon
  <2>4. QED
    BY <2>2, <2>3
<1>4. a = b
  BY <1>2, <1>3, Zenon
<1>5. Contributing(I) = Given(a) /\ Around(s) = Given(b)
  BY Zenon DEF Contributing, Around
<1>6. QED
  BY <1>4, <1>5, Zenon DEF I

\* A close takes the last scope, unless the name stands further out alone.
LEMMA PopLast ==
  ASSUME NEW T, NEW S \in Seq(T), S # <<>>, NEW name,
         \A i \in 1..Len(S) : name # None /\ S[i].name = name => S[Len(S)].name = name
  PROVE  PopScope(S, name) = Front(S)
<1> DEFINE named == {i \in DOMAIN S : name # None /\ S[i].name = name}
<1> DEFINE L == Len(S)
<1>0. DOMAIN S = 1..L /\ L \in Nat /\ L # 0
  OBVIOUS
<1>1. PopScope(S, name) = IF named = {} THEN Front(S) ELSE RemoveAt(S, Max(named))
  BY DEF PopScope
<1>2. CASE named = {}
  BY <1>1, <1>2
<1>3. CASE named # {}
  <2>1. L \in named /\ \A i \in named : i \in Nat /\ i <= L
    BY <1>0, <1>3
  <2> DEFINE top(x) == x \in named /\ \A y \in named : x >= y
  <2>2. Max(named) = CHOOSE x \in named : \A y \in named : x >= y
    BY DEF Max
  <2> HIDE DEF named
  <2>3. Max(named) \in named /\ \A y \in named : Max(named) >= y
    <3>1. \E x \in named : \A y \in named : x >= y
      BY <1>0, <2>1
    <3>2. QED
      BY <2>2, <3>1, Zenon
  <2>4. Max(named) = L
    <3>1. Max(named) \in Nat /\ Max(named) <= L /\ Max(named) >= L
      BY <2>1, <2>3
    <3>2. QED
      BY <1>0, <3>1
  <2>5. RemoveAt(S, L) = Front(S)
    BY DEF RemoveAt, Front
  <2>6. QED
    BY <1>1, <1>3, <2>4, <2>5
<1>4. QED
  BY <1>2, <1>3

\* After the text t the walk's stack is the author's scopes, entry by entry; only
\* in Isabelle may an opener (X) still wait for its begin.
Standing(p, t, s, ks) ==
  \E X : (p # "isabelle" => X = {}) /\ Known(p, t, At(Img(p, s), X), ks)
Grown(s, kind, name) == Append(s, [kind |-> kind, name |-> name])

LEMMA LineWords ==
  {"kw", "f", "module", "section", "locale", "begin", "end", "in", "-", "A", "B"} \subseteq LineTokens
BY DEF LineTokens, Tokens, Space

LEMMA OpenStanding ==
  ASSUME NEW p \in DOMAIN Syntax, NEW t \in Seq(Tokens), NEW s \in Scopes, NEW ks, Standing(p, t, s, ks),
         NEW kind \in Kinds, NEW name \in Letters, p # "isabelle"
  PROVE  Standing(p, t \o <<kind, name, "nl">>, Grown(s, kind, name), ks)
<1> DEFINE u == <<kind, name, "nl">>
<1>1. kind \in LineTokens /\ name \in LineTokens /\ kind \in {"module", "section"}
  BY LineWords DEF Kinds, Letters
<1>2. Says(u, kind, name, "begin" \in {kind, name})
  BY <1>1, ThreeSay, Zenon
<1>3. Known(p, t, At(Img(p, s), {}), ks)
  BY Zenon DEF Standing
<1> HIDE DEF u
<1>4. Known(p, t \o u, At(Append(Img(p, s), Entry(p, kind, name)), {}), ks)
  BY <1>1, <1>2, <1>3, OpenerKnown, Zenon
<1>5. Img(p, Grown(s, kind, name)) = Append(Img(p, s), Entry(p, kind, name))
  BY ImgMore, Zenon DEF Grown
<1>6. QED
  BY <1>4, <1>5, Zenon DEF Standing, u

\* Isabelle's module opens at the begin of the next line.
LEMMA ModuleStanding ==
  ASSUME NEW t \in Seq(Tokens), NEW s \in Scopes, NEW ks, Standing("isabelle", t, s, ks),
         NEW name \in Letters
  PROVE  Standing("isabelle", t \o <<"module", name, "nl", "begin", "nl">>, Grown(s, "module", name), ks)
<1> DEFINE u == <<"module", name, "nl">>
<1> DEFINE v == <<"begin", "nl">>
<1> DEFINE w == <<"module", name, "nl", "begin", "nl">>
<1> DEFINE I == Img("isabelle", s)
<1> DEFINE e == Entry("isabelle", "module", name)
<1>1. /\ "module" \in LineTokens /\ name \in LineTokens /\ "module" \in {"module", "section"}
      /\ "begin" \notin {"module", name} /\ ~("isabelle" # "isabelle") /\ "module" \in Kinds
      /\ "isabelle" \in DOMAIN Syntax
  BY LineWords DEF Kinds, Letters, Syntax
<1>2. Says(u, "module", name, "begin" \in {"module", name})
  BY <1>1, ThreeSay, Zenon
<1>3. PICK X : Known("isabelle", t, At(I, X), ks)
  BY Zenon DEF Standing
<1>4. /\ u \in Seq(Tokens) /\ v \in Seq(Tokens) /\ w \in Seq(Tokens)
      /\ Len(u) = 3 /\ Len(v) = 2 /\ Len(w) = 5
      /\ w[1] = u[1] /\ w[2] = u[2] /\ w[3] = u[3] /\ w[3 + 1] = v[1] /\ w[3 + 2] = v[2]
  <2>1. "module" \in Tokens /\ name \in Tokens /\ "nl" \in Tokens /\ "begin" \in Tokens
    BY DEF Tokens, Letters
  <2>2. QED
    BY <2>1
<1> HIDE DEF u, I, e
<1>5. Known("isabelle", t \o u, At(I, {e}), ks) /\ t \o u \in Seq(Tokens)
  <2>1. t \o u \in Seq(Tokens)
    BY <1>4, Concat, Zenon DEF Extends
  <2>2. Says(u, "module", name, FALSE)
    BY <1>1, <1>2, Zenon DEF Says
  <2>3. QED
    BY <1>1, <1>3, <2>1, <2>2, OpenerKnown, Zenon DEF e
<1>6. Known("isabelle", (t \o u) \o v, At(Append(I, e), {}), ks)
  BY <1>5, BeginKnown, Zenon
<1> HIDE DEF v, w
<1>7. u \o v = w
  <2>1. Extends(u \o v, u, v, Tokens)
    BY <1>4, Concat, Zenon
  <2>2. u \o v \in Seq(Tokens) /\ Len(u \o v) = Len(w) /\ \A i \in 1..Len(u \o v) : (u \o v)[i] = w[i]
    BY <1>4, <2>1 DEF Extends
  <2>3. QED
    BY <1>4, <2>2, Equal, Zenon
<1>8. (t \o u) \o v = t \o w
  <2>1. (t \o u) \o v = t \o (u \o v)
    <3>1. t \in Seq(Tokens) /\ u \in Seq(Tokens) /\ v \in Seq(Tokens)
      BY <1>4
    <3>2. QED
      BY <3>1, Regroup
  <2>2. QED
    BY <1>7, <2>1, Zenon
<1>9. Img("isabelle", Grown(s, "module", name)) = Append(I, e)
  BY <1>1, ImgMore, Zenon DEF Grown, I, e
<1>10. QED
  BY <1>6, <1>8, <1>9, Zenon DEF Standing, w

LEMMA SectionStanding ==
  ASSUME NEW t \in Seq(Tokens), NEW s \in Scopes, NEW ks, Standing("isabelle", t, s, ks),
         NEW name \in Letters
  PROVE  Standing("isabelle", t \o <<"section", "begin", "nl">>, Grown(s, "section", name), ks)
<1> DEFINE u == <<"section", "begin", "nl">>
<1>1. /\ "section" \in LineTokens /\ "begin" \in LineTokens /\ "section" \in {"module", "section"}
      /\ "begin" \in {"section", "begin"} /\ "section" \in Kinds /\ "isabelle" \in DOMAIN Syntax
  BY LineWords DEF Kinds, Syntax
<1>2. Says(u, "section", "begin", "begin" \in {"section", "begin"})
  BY <1>1, ThreeSay, Zenon
<1>3. PICK X : Known("isabelle", t, At(Img("isabelle", s), X), ks)
  BY Zenon DEF Standing
<1> HIDE DEF u
<1>4. Known("isabelle", t \o u, At(Append(Img("isabelle", s), Entry("isabelle", "section", "begin")), {}), ks)
  BY <1>1, <1>2, <1>3, OpenerKnown, Zenon
<1>5. Entry("isabelle", "section", "begin") = Entry("isabelle", "section", name)
  BY DEF Entry
<1>6. Img("isabelle", Grown(s, "section", name)) =
        Append(Img("isabelle", s), Entry("isabelle", "section", name))
  BY <1>1, ImgMore, Zenon DEF Grown
<1>7. QED
  BY <1>4, <1>5, <1>6, Zenon DEF Standing, u

LEMMA LocaleStanding ==
  ASSUME NEW t \in Seq(Tokens), NEW s \in Scopes, NEW ks, Standing("isabelle", t, s, ks),
         NEW name \in Letters
  PROVE  /\ Standing("isabelle", t \o <<"locale", name, "begin", "nl">>, Grown(s, "module", name),
                     ks \cup {<<Len(t) + 1, Around(s)>>})
         /\ Standing("isabelle", t \o <<"locale", name, "nl">>, s, ks \cup {<<Len(t) + 1, Around(s)>>})
<1> DEFINE u == <<"locale", name, "begin", "nl">>
<1> DEFINE v == <<"locale", name, "nl">>
<1> DEFINE I == Img("isabelle", s)
<1> DEFINE e == Entry("isabelle", "locale", name)
<1>1. /\ "locale" \in LineTokens /\ name \in LineTokens /\ "begin" \in LineTokens
      /\ name # "in" /\ "begin" \in {"locale", name, "begin"} /\ "begin" \notin {"locale", name}
      /\ "isabelle" \in DOMAIN Syntax /\ "module" \in Kinds
  BY LineWords DEF Kinds, Letters, Syntax
<1>2. Says(u, "locale", name, "begin" \in {"locale", name, "begin"})
  BY <1>1, FourSay, Zenon
<1>3. Says(v, "locale", name, "begin" \in {"locale", name})
  BY <1>1, ThreeSay, Zenon
<1>4. PICK X : Known("isabelle", t, At(I, X), ks)
  BY Zenon DEF Standing
<1>5. Contributing(I) = Around(s)
  BY <1>1, ImgAround, Zenon
<1> HIDE DEF u, v, I
<1>6. Known("isabelle", t \o u, At(Append(I, e), {}), ks \cup {<<Len(t) + 1, Contributing(I)>>})
  BY <1>1, <1>2, <1>4, LocaleKnown, Zenon
<1>7. Known("isabelle", t \o v, At(I, {e}), ks \cup {<<Len(t) + 1, Contributing(I)>>})
  <2>1. Says(v, "locale", name, FALSE)
    BY <1>1, <1>3, Zenon DEF Says
  <2>2. QED
    BY <1>1, <1>4, <2>1, LocaleKnown, Zenon
<1>8. Img("isabelle", Grown(s, "module", name)) = Append(I, e)
  <2>1. e = Entry("isabelle", "module", name)
    BY DEF Entry
  <2>2. Img("isabelle", Grown(s, "module", name)) = Append(I, Entry("isabelle", "module", name))
    BY <1>1, ImgMore, Zenon DEF Grown, I
  <2>3. QED
    BY <2>1, <2>2, Zenon
<1> HIDE DEF e
<1>9. Standing("isabelle", t \o u, Grown(s, "module", name), ks \cup {<<Len(t) + 1, Around(s)>>})
  BY <1>5, <1>6, <1>8, Zenon DEF Standing
<1>10. Standing("isabelle", t \o v, s, ks \cup {<<Len(t) + 1, Around(s)>>})
  BY <1>5, <1>7, Zenon DEF Standing, I
<1>11. QED
  BY <1>9, <1>10, Zenon DEF u, v

LEMMA DeclStanding ==
  ASSUME NEW p \in DOMAIN Syntax, NEW t \in Seq(Tokens), NEW s \in Scopes, NEW ks, Standing(p, t, s, ks)
  PROVE  /\ Standing(p, t \o <<"kw", "f", "nl">>, s, ks \cup {<<Len(t) + 1, Around(s)>>})
         /\ p = "isabelle" => \A name \in Letters \cup {"-"} :
              Standing(p, t \o <<"kw", "in", name, "f", "nl">>, s, ks \cup {<<Len(t) + 1, Target(name)>>})
<1>1. /\ {"kw", "f", "in", "-", "A", "B"} \subseteq LineTokens
      /\ "f" # "in" /\ "begin" \notin {"kw", "f"}
  BY LineWords
<1>2. PICK X : (p # "isabelle" => X = {}) /\ Known(p, t, At(Img(p, s), X), ks)
  BY Zenon DEF Standing
<1>3. X = {} \/ p = "isabelle"
  BY <1>2
<1>4. Contributing(Img(p, s)) = Around(s)
  BY ImgAround
<1>5. Standing(p, t \o <<"kw", "f", "nl">>, s, ks \cup {<<Len(t) + 1, Around(s)>>})
  <2> DEFINE u == <<"kw", "f", "nl">>
  <2>1. Says(u, "kw", "f", "begin" \in {"kw", "f"})
    BY <1>1, ThreeSay, Zenon
  <2> HIDE DEF u
  <2>a. Says(u, "kw", "f", FALSE)
    BY <1>1, <2>1, Zenon DEF Says
  <2>2. Known(p, t \o u, At(Img(p, s), X), ks \cup {<<Len(t) + 1, Contributing(Img(p, s))>>})
    BY <1>1, <1>2, <1>3, <2>a, DeclKnown, Zenon
  <2>3. QED
    BY <1>2, <1>4, <2>2, Zenon DEF Standing, u
<1>6. ASSUME p = "isabelle", NEW name \in Letters \cup {"-"}
      PROVE  Standing(p, t \o <<"kw", "in", name, "f", "nl">>, s, ks \cup {<<Len(t) + 1, Target(name)>>})
  <2> DEFINE u == <<"kw", "in", name, "f", "nl">>
  <2>1. "kw" \in LineTokens /\ "in" \in LineTokens /\ name \in LineTokens /\ "f" \in LineTokens
        /\ "begin" \notin {"kw", "in", name, "f"}
    BY <1>1 DEF Letters
  <2>2. Says(u, "kw", "in", "begin" \in {"kw", "in", name, "f"})
    BY <2>1, FiveSay, Zenon
  <2>3. u[3] = name
    OBVIOUS
  <2> HIDE DEF u
  <2>a. Says(u, "kw", "in", FALSE)
    BY <2>1, <2>2, Zenon DEF Says
  <2>4. Known(p, t \o u, At(Img(p, s), X), ks \cup {<<Len(t) + 1, Target(u[3])>>})
    BY <1>2, <1>3, <1>6, <2>a, DeclKnown, Zenon
  <2>5. QED
    BY <1>2, <2>3, <2>4, Zenon DEF Standing, u
<1>7. QED
  BY <1>5, <1>6, Zenon

LEMMA ProseStanding ==
  ASSUME NEW t \in Seq(Tokens), NEW s, NEW ks, Standing("isabelle", t, s, ks)
  PROVE  Standing("isabelle", t \o Prose, s, ks)
<1>1. PICK X : Known("isabelle", t, At(Img("isabelle", s), X), ks)
  BY Zenon DEF Standing
<1>2. Known("isabelle", t \o Prose, At(Img("isabelle", s), X), ks)
  BY <1>1, ProseMore, Zenon DEF At
<1>3. QED
  BY <1>2, Zenon DEF Standing

\* In Rocq no section stands inside a scope of its name.
Apart(s) ==
  \A j \in 1..Len(s) : s[j].kind = "section" => \A i \in 1..(j - 1) : s[i].name # s[j].name

LEMMA CloseStanding ==
  ASSUME NEW p \in DOMAIN Syntax, NEW t \in Seq(Tokens), NEW s \in Scopes, s # <<>>, NEW ks,
         Standing(p, t, s, ks), p = "rocq" => Apart(s)
  PROVE  Standing(p, t \o (IF p = "isabelle" THEN <<"end", "nl">> ELSE <<"end", Last(s).name, "nl">>),
                  Front(s), ks)
<1> DEFINE I == Img(p, s)
<1> DEFINE L == Len(s)
<1> DEFINE name == Last(s).name
<1>1. /\ I \in Seq(Entries) /\ Len(I) = L /\ L \in Nat
      /\ \A i \in 1..L : /\ s[i].kind \in Kinds /\ s[i].name \in Letters
                         /\ I[i] = Entry(p, s[i].kind, s[i].name)
  BY ImgIs
<1>2. L # 0 /\ L \in 1..L
  <2>1. L # 0
    BY DEF Scopes
  <2>2. QED
    BY <1>1, <2>1
<1>3. name = s[L].name
  BY DEF Last
<1>4. I # <<>> /\ Img(p, Front(s)) = Front(I)
  BY ImgLess
<1>5. PICK X : Known(p, t, At(I, X), ks)
  BY Zenon DEF Standing
<1>6. name \in Letters /\ name \in LineTokens /\ "end" \in LineTokens
  <2>1. name \in Letters
    BY <1>1, <1>2, <1>3
  <2>2. QED
    BY <2>1, LineWords DEF Letters
<1> HIDE DEF I, name, L
<1>7. ASSUME NEW u, NEW n, NEW begins, Says(u, "end", n, begins),
             \A i \in 1..L : n # None /\ I[i].name = n => I[L].name = n
      PROVE  Standing(p, t \o u, Front(s), ks)
  <2>1. PopScope(I, n) = Front(I)
    <3>1. \A i \in 1..Len(I) : n # None /\ I[i].name = n => I[Len(I)].name = n
      BY <1>1, <1>7
    <3>2. QED
      BY <1>1, <1>4, <3>1, PopLast, Zenon
  <2>2. Known(p, t \o u, At(PopScope(I, n), {}), ks)
    BY <1>5, <1>7, CloserKnown, Zenon
  <2>3. QED
    BY <1>4, <2>1, <2>2, Zenon DEF Standing
<1>8. CASE p = "isabelle"
  <2> DEFINE u == <<"end", "nl">>
  <2>1. Says(u, "end", None, "end" = "begin")
    BY <1>6, TwoSay, Zenon
  <2> HIDE DEF u
  <2>2. Standing(p, t \o u, Front(s), ks)
    BY <1>7, <2>1, Zenon
  <2>3. QED
    BY <1>8, <2>2, Zenon DEF u
<1>9. CASE p # "isabelle"
  <2> DEFINE u == <<"end", name, "nl">>
  <2>1. Says(u, "end", name, "begin" \in {"end", name})
    BY <1>6, ThreeSay, Zenon
  <2> HIDE DEF u
  <2>2. p = "lean4" \/ p = "rocq"
    BY <1>9 DEF Syntax
  <2>3. ASSUME NEW i \in 1..L, I[i].name = name PROVE I[L].name = name
    <3>1. I[i] = Entry(p, s[i].kind, s[i].name) /\ I[L] = Entry(p, s[L].kind, s[L].name)
          /\ s[i].kind \in Kinds /\ s[L].kind \in Kinds /\ s[i].name \in Letters
      BY <1>1, <1>2
    <3>2. CASE p = "lean4"
      BY <1>3, <3>1, <3>2 DEF Entry
    <3>3. CASE p = "rocq" /\ s[L].kind = "module"
      BY <1>3, <3>1, <3>3 DEF Entry
    <3>4. CASE p = "rocq" /\ s[L].kind = "section"
      <4>1. i # L
        <5>1. name # None
          BY <1>6 DEF Letters, None
        <5>2. I[L].name = None
          BY <3>1, <3>4 DEF Entry
        <5>3. QED
          BY <2>3, <5>1, <5>2
      <4>2. i \in 1..(L - 1)
        BY <1>1, <4>1
      <4>3. s[i].name # s[L].name
        BY <1>2, <3>4, <4>2 DEF Apart, L
      <4>4. I[i].name \in {None, s[i].name}
        BY <3>1, <3>4 DEF Entry
      <4>5. name # None
        BY <1>6 DEF Letters, None
      <4>6. QED
        BY <1>3, <2>3, <4>3, <4>4, <4>5
    <3>5. QED
      BY <2>2, <3>1, <3>2, <3>3, <3>4 DEF Kinds
  <2>4. Standing(p, t \o u, Front(s), ks)
    BY <1>7, <2>1, <2>3, Zenon
  <2>5. QED
    BY <1>9, <2>4, Zenon DEF u, name
<1>10. QED
  BY <1>8, <1>9

LEMMA ApartMore ==
  ASSUME NEW s \in Scopes, Apart(s), NEW kind \in Kinds, NEW name \in Letters,
         kind = "section" => \A i \in DOMAIN s : s[i].name # name
  PROVE  Apart(Grown(s, kind, name))
<1> DEFINE e == [kind |-> kind, name |-> name]
<1> DEFINE Scope == [kind : Kinds, name : Letters]
<1> DEFINE r == Append(s, e)
<1>1. Scopes = Seq(Scope) /\ DOMAIN s = 1..Len(s) /\ Len(s) \in Nat
  BY DEF Scopes, Kinds, Letters
<1>2. e \in Scope /\ e.kind = kind /\ e.name = name
  OBVIOUS
<1> HIDE DEF e, Scope
<1>3. Appended(r, s, e, Scope)
  BY <1>1, <1>2, AppendIs, Zenon
<1> HIDE DEF r
<1>4. Len(r) = Len(s) + 1 /\ (\A i \in 1..Len(s) : r[i] = s[i]) /\ r[Len(s) + 1] = e
  BY <1>3 DEF Appended
<1>5. ASSUME NEW j \in 1..Len(r), r[j].kind = "section", NEW i \in 1..(j - 1) PROVE r[i].name # r[j].name
  <2>1. i \in 1..Len(s) /\ r[i] = s[i]
    BY <1>1, <1>4
  <2>2. CASE j = Len(s) + 1
    BY <1>1, <1>2, <1>4, <1>5, <2>1, <2>2
  <2>3. CASE j # Len(s) + 1
    <3>1. j \in 1..Len(s) /\ r[j] = s[j]
      BY <1>1, <1>4, <2>3
    <3>2. QED
      BY <1>5, <2>1, <3>1 DEF Apart
  <2>4. QED
    BY <2>2, <2>3
<1>6. QED
  BY <1>5, Zenon DEF Apart, Grown, r, e

LEMMA ApartLess ==
  ASSUME NEW s \in Scopes, s # <<>>, Apart(s)
  PROVE  Apart(Front(s))
<1> DEFINE Scope == [kind : Kinds, name : Letters]
<1> DEFINE r == Front(s)
<1>1. Scopes = Seq(Scope) /\ Len(s) \in Nat
  BY DEF Scopes, Kinds, Letters
<1> HIDE DEF Scope
<1>2. Fronted(r, s, Scope)
  BY <1>1, FrontIs, Zenon
<1> HIDE DEF r
<1>3. Len(r) = Len(s) - 1 /\ \A i \in 1..(Len(s) - 1) : r[i] = s[i]
  BY <1>2 DEF Fronted
<1>4. ASSUME NEW j \in 1..Len(r), r[j].kind = "section", NEW i \in 1..(j - 1) PROVE r[i].name # r[j].name
  <2>1. j \in 1..Len(s) /\ r[j] = s[j] /\ r[i] = s[i]
    BY <1>1, <1>3
  <2>2. QED
    BY <1>4, <2>1 DEF Apart
<1>5. QED
  BY <1>4, Zenon DEF Apart, r

-----------------------------------------------------------------------------
(* qualify_by_scope.                                                       *)

\* In every state of a file of scopes all tokens are code, the walk has what is
\* open on its stack, and the keys written so far are the ones it gives.
CodeOnly == \A k \in 1..Len(text) : label[k].lex = "code"
ScopeInv ==
  kit.job = "scope" =>
    /\ CodeOnly
    /\ prover = "rocq" => Apart(scopes)
    /\ Standing(prover, text, scopes, paths)

LEMMA InitStanding == ASSUME Init PROVE ScopeInv
<1>1. text = (IF kit.job = "statement" THEN <<"kw", "f">> ELSE <<>>) /\ scopes = <<>> /\ paths = {} /\ kit \in Kits
  BY DEF Init
<1>2. prover \in DOMAIN Syntax
  BY <1>1, KitsAssumption DEF prover
<1> SUFFICES ASSUME kit.job = "scope" PROVE ScopeInv
  BY Zenon DEF ScopeInv
<1>3. text = <<>>
  BY <1>1
<1>4. CodeOnly /\ Apart(scopes)
  BY <1>1, <1>3 DEF CodeOnly, Apart
<1>5. Nothing = At(Img(prover, scopes), {})
  <2> DEFINE I == Img(prover, <<>>)
  <2>1. <<>> \in Scopes /\ Len(<<>>) = 0
    BY DEF Scopes
  <2>2. I \in Seq(Entries) /\ Len(I) = 0
    BY <1>2, <2>1, ImgIs
  <2> HIDE DEF I
  <2>3. I = <<>>
    BY <2>2
  <2>4. QED
    BY <1>1, <2>3, Zenon DEF Nothing, At, I
<1>6. Known(prover, text, At(Img(prover, scopes), {}), paths)
  BY <1>1, <1>3, <1>5, KnownNone, Zenon
<1>7. Standing(prover, text, scopes, paths)
  BY <1>6, Zenon DEF Standing
<1>8. QED
  BY <1>4, <1>7, Zenon DEF ScopeInv

\* A phrase is all code.
LEMMA PhraseCode ==
  ASSUME TextInv, NEW toks \in Seq(Tokens), NEW part, Phrase(toks, part), CodeOnly
  PROVE  CodeOnly' /\ text' = text \o toks
<1>1. /\ text' = text \o toks
      /\ label' = label \o [k \in DOMAIN toks |-> [lex |-> "code", part |-> part]]
  BY DEF Phrase
<1>2. text \in Seq(Tokens) /\ label \in Seq(Labels) /\ Len(label) = Len(text)
  BY DEF TextInv
<1> DEFINE name == [lex |-> "code", part |-> part]
<1> DEFINE names == [k \in DOMAIN toks |-> name]
<1>3. name.lex = "code"
  OBVIOUS
<1> DEFINE S == Labels \cup {name}
<1>4. label \in Seq(S) /\ name \in S
  BY <1>2
<1> HIDE DEF S, name
<1>5. names \in Seq(S) /\ Len(names) = Len(toks) /\ \A j \in 1..Len(toks) : names[j] = name
  BY <1>4
<1>6. label' = label \o names
  BY <1>1 DEF name
<1> HIDE DEF names
<1>7. Extends(label', label, names, S) /\ Extends(text', text, toks, Tokens)
  BY <1>1, <1>2, <1>4, <1>5, <1>6, Concat, Zenon
<1>8. /\ Len(text') = Len(text) + Len(toks) /\ Len(text) \in Nat /\ Len(toks) \in Nat
      /\ \A k \in 1..Len(text) : label'[k] = label[k]
      /\ \A j \in 1..Len(toks) : label'[Len(text) + j] = names[j]
  BY <1>2, <1>5, <1>7 DEF Extends
<1>9. ASSUME NEW k \in 1..Len(text') PROVE label'[k].lex = "code"
  <2>1. CASE k \in 1..Len(text)
    BY <1>8, <2>1 DEF CodeOnly
  <2>2. CASE k \notin 1..Len(text)
    <3>1. k - Len(text) \in 1..Len(toks) /\ k = Len(text) + (k - Len(text))
      BY <1>8, <2>2
    <3>2. label'[k] = names[k - Len(text)]
      BY <1>8, <3>1
    <3>3. label'[k] = name
      BY <1>5, <3>1, <3>2
    <3>4. QED
      BY <1>3, <3>3
  <2>3. QED
    BY <2>1, <2>2
<1>10. QED
  BY <1>1, <1>9, Zenon DEF CodeOnly

LEMMA ScopeOpened ==
  ASSUME TextInv, ScopeInv, OpenScope
  PROVE  ScopeInv'
<1>1. kit.job = "scope" /\ kit' = kit /\ paths' = paths
  BY Zenon DEF OpenScope, Scoping
<1>2. text \in Seq(Tokens) /\ scopes \in Scopes /\ prover \in DOMAIN Syntax /\ prover' = prover
  BY <1>1, KitsAssumption DEF TextInv, Scopes, prover
<1>3. CodeOnly /\ (prover = "rocq" => Apart(scopes)) /\ Standing(prover, text, scopes, paths)
  BY <1>1, Zenon DEF ScopeInv
<1> DEFINE line(kind, name) ==
      IF prover # "isabelle" THEN <<kind, name, "nl">>
      ELSE IF kind = "module" THEN <<"module", name, "nl", "begin", "nl">>
      ELSE <<"section", "begin", "nl">>
<1>4. PICK name \in Names, kind \in Kinds :
        /\ prover = "rocq" /\ kind = "section" => \A i \in DOMAIN scopes : scopes[i].name # name
        /\ Phrase(line(kind, name), "stmt")
        /\ scopes' = Grown(scopes, kind, name)
  BY Zenon DEF OpenScope, Kinds, Grown
<1>5. name \in Letters
  BY DEF Names, Letters
<1>6. /\ Standing(prover, text \o line(kind, name), Grown(scopes, kind, name), paths)
      /\ line(kind, name) \in Seq(Tokens)
  <2>0. kind \in Tokens /\ name \in Tokens /\ "nl" \in Tokens /\ "module" \in Tokens
        /\ "begin" \in Tokens /\ "section" \in Tokens
    BY <1>5 DEF Tokens, Kinds, Letters
  <2>1. CASE prover # "isabelle"
    <3>1. line(kind, name) = <<kind, name, "nl">>
      BY <2>1, Zenon
    <3>2. <<kind, name, "nl">> \in Seq(Tokens)
      BY <2>0
    <3>3. QED
      BY <1>2, <1>3, <1>5, <2>1, <3>1, <3>2, OpenStanding, Zenon
  <2>2. CASE prover = "isabelle" /\ kind = "module"
    <3>1. line(kind, name) = <<"module", name, "nl", "begin", "nl">>
      BY <2>2, Zenon
    <3>2. <<"module", name, "nl", "begin", "nl">> \in Seq(Tokens)
      BY <2>0
    <3>3. QED
      BY <1>2, <1>3, <1>5, <2>2, <3>1, <3>2, ModuleStanding, Zenon
  <2>3. CASE prover = "isabelle" /\ kind = "section"
    <3>1. line(kind, name) = <<"section", "begin", "nl">>
      <4>1. kind # "module"
        BY <2>3
      <4>2. QED
        BY <2>3, <4>1, Zenon
    <3>2. <<"section", "begin", "nl">> \in Seq(Tokens)
      BY <2>0
    <3>3. QED
      BY <1>2, <1>3, <1>5, <2>3, <3>1, <3>2, SectionStanding, Zenon
  <2>4. QED
    BY <2>1, <2>2, <2>3 DEF Kinds
<1> HIDE DEF line
<1>7. CodeOnly' /\ text' = text \o line(kind, name)
  BY <1>3, <1>4, <1>6, PhraseCode, Zenon
<1>8. prover = "rocq" => Apart(Grown(scopes, kind, name))
  BY <1>2, <1>3, <1>4, <1>5, ApartMore, Zenon
<1>9. QED
  BY <1>1, <1>2, <1>4, <1>6, <1>7, <1>8, Zenon DEF ScopeInv

LEMMA LocaleDeclared ==
  ASSUME TextInv, ScopeInv, DeclareLocale
  PROVE  ScopeInv'
<1>1. kit.job = "scope" /\ kit' = kit /\ prover = "isabelle"
      /\ paths' = paths \cup {<<Len(text) + 1, Around(scopes)>>}
  BY Zenon DEF DeclareLocale, Scoping
<1>2. text \in Seq(Tokens) /\ scopes \in Scopes /\ prover' = prover
  BY <1>1 DEF TextInv, Scopes, prover
<1>3. CodeOnly /\ Standing("isabelle", text, scopes, paths)
  BY <1>1, Zenon DEF ScopeInv
<1>4. PICK name \in Names, body \in BOOLEAN :
        /\ Phrase(<<"locale", name>> \o (IF body THEN <<"begin", "nl">> ELSE <<"nl">>), "stmt")
        /\ scopes' = IF body THEN Grown(scopes, "module", name) ELSE scopes
  BY Zenon DEF DeclareLocale, Grown
<1> DEFINE u == <<"locale", name, "begin", "nl">>
<1> DEFINE v == <<"locale", name, "nl">>
<1> DEFINE line == IF body THEN u ELSE v
<1>5. name \in Letters
  BY DEF Names, Letters
<1>6. u \in Seq(Tokens) /\ v \in Seq(Tokens) /\ line = <<"locale", name>> \o (IF body THEN <<"begin", "nl">> ELSE <<"nl">>)
  <2> DEFINE a == <<"locale", name>>
  <2> DEFINE b == <<"begin", "nl">>
  <2> DEFINE c == <<"nl">>
  <2>1. "locale" \in Tokens /\ name \in Tokens /\ "nl" \in Tokens /\ "begin" \in Tokens
    BY <1>5 DEF Tokens, Letters
  <2>2. /\ a \in Seq(Tokens) /\ b \in Seq(Tokens) /\ c \in Seq(Tokens) /\ u \in Seq(Tokens) /\ v \in Seq(Tokens)
        /\ Len(a) = 2 /\ Len(b) = 2 /\ Len(c) = 1 /\ Len(u) = 4 /\ Len(v) = 3
    BY <2>1
  <2>3. /\ u[1] = a[1] /\ u[2] = a[2] /\ u[2 + 1] = b[1] /\ u[2 + 2] = b[2]
        /\ v[1] = a[1] /\ v[2] = a[2] /\ v[2 + 1] = c[1]
    OBVIOUS
  <2> HIDE DEF a, b, c, u, v
  <2>4. Extends(a \o b, a, b, Tokens) /\ Extends(a \o c, a, c, Tokens)
    BY <2>2, Concat, Zenon
  <2>5. a \o b = u
    <3>1. a \o b \in Seq(Tokens) /\ Len(a \o b) = Len(u) /\ \A i \in 1..Len(a \o b) : (a \o b)[i] = u[i]
      BY <2>2, <2>3, <2>4 DEF Extends
    <3>2. QED
      BY <2>2, <3>1, Equal, Zenon
  <2>6. a \o c = v
    <3>1. a \o c \in Seq(Tokens) /\ Len(a \o c) = Len(v) /\ \A i \in 1..Len(a \o c) : (a \o c)[i] = v[i]
      BY <2>2, <2>3, <2>4 DEF Extends
    <3>2. QED
      BY <2>2, <3>1, Equal, Zenon
  <2>7. line = a \o (IF body THEN b ELSE c)
    BY <2>5, <2>6, Zenon
  <2>8. QED
    BY <2>2, <2>7, Zenon DEF a, b, c
<1>7. Phrase(line, "stmt") /\ line \in Seq(Tokens)
  <2> HIDE DEF u, v
  <2>1. line \in Seq(Tokens)
    BY <1>6, Zenon
  <2> HIDE DEF line
  <2>2. QED
    BY <1>4, <1>6, <2>1, Zenon
<1>8. /\ Standing("isabelle", text \o u, Grown(scopes, "module", name), paths')
      /\ Standing("isabelle", text \o v, scopes, paths')
  BY <1>1, <1>2, <1>3, <1>5, LocaleStanding, Zenon
<1> HIDE DEF u, v
<1>9. Standing("isabelle", text \o line, scopes', paths')
  BY <1>4, <1>8, Zenon
<1> HIDE DEF line
<1>10. CodeOnly' /\ text' = text \o line
  BY <1>3, <1>7, PhraseCode, Zenon
<1>11. ~(prover' = "rocq")
  BY <1>1, <1>2
<1>12. QED
  BY <1>1, <1>2, <1>9, <1>10, <1>11, Zenon DEF ScopeInv

LEMMA ScopeClosed ==
  ASSUME TextInv, ScopeInv, CloseScope
  PROVE  ScopeInv'
<1> DEFINE line == IF prover = "isabelle" THEN <<"end", "nl">> ELSE <<"end", Last(scopes).name, "nl">>
<1>1. /\ kit.job = "scope" /\ kit' = kit /\ paths' = paths
      /\ scopes # <<>> /\ Phrase(line, "stmt") /\ scopes' = Front(scopes)
  BY Zenon DEF CloseScope, Scoping
<1>2. text \in Seq(Tokens) /\ scopes \in Scopes /\ prover \in DOMAIN Syntax /\ prover' = prover
  BY <1>1, KitsAssumption DEF TextInv, Scopes, prover
<1>3. CodeOnly /\ (prover = "rocq" => Apart(scopes)) /\ Standing(prover, text, scopes, paths)
  BY <1>1, Zenon DEF ScopeInv
<1>4. line \in Seq(Tokens)
  <2>1. Last(scopes).name \in Letters
    <3> DEFINE Scope == [kind : Kinds, name : Letters]
    <3>1. scopes \in Seq(Scope) /\ \A e \in Scope : e.name \in Letters
      BY <1>2 DEF Scopes, Kinds, Letters
    <3> HIDE DEF Scope
    <3>2. Last(scopes) \in Scope
      BY <1>1, <3>1, LastFront, Zenon
    <3>3. QED
      BY <3>1, <3>2, Zenon
  <2>2. Last(scopes).name \in Tokens /\ "end" \in Tokens /\ "nl" \in Tokens
    BY <2>1 DEF Tokens, Letters
  <2>3. <<"end", "nl">> \in Seq(Tokens) /\ <<"end", Last(scopes).name, "nl">> \in Seq(Tokens)
    BY <2>2
  <2>4. QED
    BY <2>3, Zenon
<1>5. Standing(prover, text \o line, Front(scopes), paths)
  BY <1>1, <1>2, <1>3, CloseStanding, Zenon
<1> HIDE DEF line
<1>6. CodeOnly' /\ text' = text \o line
  BY <1>1, <1>3, <1>4, PhraseCode, Zenon
<1>7. prover = "rocq" => Apart(Front(scopes))
  BY <1>1, <1>2, <1>3, ApartLess, Zenon
<1>8. QED
  BY <1>1, <1>2, <1>5, <1>6, <1>7, Zenon DEF ScopeInv

LEMMA ScopeDeclared ==
  ASSUME TextInv, ScopeInv, Declare \/ DeclareIn \/ WriteProse
  PROVE  ScopeInv'
<1>1. kit.job = "scope" /\ kit' = kit /\ scopes' = scopes
  BY Zenon DEF Declare, DeclareIn, WriteProse, Scoping
<1>2. text \in Seq(Tokens) /\ scopes \in Scopes /\ prover \in DOMAIN Syntax /\ prover' = prover
  BY <1>1, KitsAssumption DEF TextInv, Scopes, prover
<1>3. CodeOnly /\ (prover = "rocq" => Apart(scopes)) /\ Standing(prover, text, scopes, paths)
  BY <1>1, Zenon DEF ScopeInv
<1>4. ASSUME NEW u \in Seq(Tokens), Phrase(u, "stmt"), Standing(prover, text \o u, scopes, paths')
      PROVE  ScopeInv'
  <2>1. CodeOnly' /\ text' = text \o u
    BY <1>3, <1>4, PhraseCode, Zenon
  <2>2. QED
    BY <1>1, <1>2, <1>3, <1>4, <2>1, Zenon DEF ScopeInv
<1>5. "kw" \in Tokens /\ "f" \in Tokens /\ "nl" \in Tokens /\ "in" \in Tokens
      /\ "cmd" \in Tokens /\ "<o>" \in Tokens /\ "end" \in Tokens /\ "<c>" \in Tokens
  BY DEF Tokens
<1>6. CASE Declare
  <2> DEFINE u == <<"kw", "f", "nl">>
  <2>1. Phrase(u, "stmt") /\ paths' = paths \cup {<<Len(text) + 1, Around(scopes)>>}
    BY <1>6, Zenon DEF Declare
  <2>2. u \in Seq(Tokens)
    BY <1>5
  <2>3. Standing(prover, text \o u, scopes, paths')
    BY <1>2, <1>3, <2>1, DeclStanding, Zenon
  <2> HIDE DEF u
  <2>4. QED
    BY <1>4, <2>1, <2>2, <2>3, Zenon
<1>7. CASE DeclareIn
  <2>1. PICK name \in Names \cup {"-"} :
          /\ Phrase(<<"kw", "in", name, "f", "nl">>, "stmt")
          /\ paths' = paths \cup {<<Len(text) + 1, Target(name)>>}
    BY <1>7, Zenon DEF DeclareIn, Target
  <2> DEFINE u == <<"kw", "in", name, "f", "nl">>
  <2>2. name \in Letters \cup {"-"} /\ prover = "isabelle"
    BY <1>7 DEF DeclareIn, Names, Letters
  <2>3. name \in Tokens
    BY <2>2 DEF Tokens, Letters
  <2>4. u \in Seq(Tokens)
    BY <1>5, <2>3
  <2>5. Standing(prover, text \o u, scopes, paths')
    BY <1>2, <1>3, <2>1, <2>2, DeclStanding, Zenon
  <2>6. Phrase(u, "stmt")
    BY <2>1
  <2> HIDE DEF u
  <2>7. QED
    BY <1>4, <2>4, <2>5, <2>6, Zenon
<1>8. CASE WriteProse
  <2>1. Phrase(Prose, "stmt") /\ prover = "isabelle" /\ paths' = paths
    BY <1>8, Zenon DEF WriteProse, Prose
  <2>2. Prose \in Seq(Tokens)
    BY <1>5 DEF Prose
  <2>3. Standing(prover, text \o Prose, scopes, paths')
    BY <1>2, <1>3, <2>1, ProseStanding, Zenon
  <2>4. QED
    BY <1>4, <2>1, <2>2, <2>3, Zenon
<1>9. QED
  BY <1>6, <1>7, <1>8

\* The walk's stack is the author's scopes in every state.
THEOREM ScopesStanding == Spec => []ScopeInv
<1>1. ASSUME TextInv, ScopeInv, [Next]_vars, kit.job = "scope" PROVE ScopeInv'
  <2>1. CASE Write \/ WriteInside \/ WriteStatement \/ WriteLet \/ EndStatement \/ WriteProof \/ NextCommand
    <3>1. kit.job # "scope" /\ kit' = kit
      <4>1. kit.job = "lex" \/ kit.job = "statement"
        BY <2>1, Zenon DEF Write, WriteInside, WriteStatement, WriteLet, EndStatement, WriteProof,
                           NextCommand, Writing
      <4>2. kit' = kit
        BY <2>1, Zenon DEF Write, WriteInside, WriteStatement, WriteLet, EndStatement, WriteProof,
                           NextCommand, Type
      <4>3. QED
        BY <4>1, <4>2
    <3>2. QED
      BY <3>1, Zenon DEF ScopeInv
  <2>2. CASE OpenScope
    BY <1>1, <2>2, ScopeOpened
  <2>3. CASE DeclareLocale
    BY <1>1, <2>3, LocaleDeclared
  <2>4. CASE CloseScope
    BY <1>1, <2>4, ScopeClosed
  <2>5. CASE Declare \/ DeclareIn \/ WriteProse
    BY <1>1, <2>5, ScopeDeclared
  <2>6. CASE UNCHANGED vars
    BY <1>1, <2>6 DEF ScopeInv, CodeOnly, vars, prover
  <2>7. QED
    BY <1>1, <2>1, <2>2, <2>3, <2>4, <2>5, <2>6 DEF Next
<1>2. ASSUME TextRead, ScopeInv, [Next]_vars PROVE ScopeInv'
  <2>1. CASE kit.job = "scope"
    BY <1>1, <1>2, <2>1 DEF TextRead
  <2>2. CASE kit.job # "scope"
    <3>1. kit' = kit
      BY <1>2, KitKept
    <3>2. QED
      BY <2>2, <3>1, Zenon DEF ScopeInv
  <2>3. QED
    BY <2>1, <2>2
<1>3. QED
  BY <1>2, TextsRead, InitStanding, PTL DEF Spec

LEMMA StandingKeys ==
  ASSUME TextInv, ScopeInv
  PROVE  KeysAgree
<1> SUFFICES ASSUME kit.job = "scope" PROVE ScopeKeys(prover, StripComments(text, Syntax[prover])) = paths
  BY DEF KeysAgree
<1>1. text \in Seq(Tokens) /\ Len(label) = Len(text) /\ CodeOnly /\ Standing(prover, text, scopes, paths)
  BY Zenon DEF TextInv, ScopeInv
<1>2. StripComments(text, Syntax[prover]) = text
  <2>1. StripComments(text, Syntax[prover]) = Blank(text, Meant("comment"))
    BY TrackedBlanked DEF CommentsRead
  <2>2. Meant("comment") = {}
    <3>1. DOMAIN text = 1..Len(text)
      BY <1>1
    <3>2. \A k \in 1..Len(text) : label[k].lex # "comment"
      BY <1>1 DEF CodeOnly
    <3>3. QED
      BY <3>1, <3>2, Zenon DEF Meant
  <2>3. Blank(text, {}) = text
    <3>1. \A k \in 1..Len(text) : (IF k \in {} /\ text[k] # "nl" THEN "sp" ELSE text[k]) = text[k]
      OBVIOUS
    <3>2. text = [k \in 1..Len(text) |-> text[k]]
      BY <1>1
    <3>3. QED
      BY <3>1, <3>2, Zenon DEF Blank
  <2>4. QED
    BY <2>1, <2>2, <2>3
<1>3. PICK X : Known(prover, text, At(Img(prover, scopes), X), paths)
  BY <1>1, Zenon DEF Standing
<1>4. ScopeKeys(prover, text) = paths
  BY <1>1, <1>3, KnownKeys, Zenon
<1>5. QED
  BY <1>2, <1>4

\* KeysAgree, for texts of every length and scopes of every depth.
THEOREM KeysAgreeing == Spec => []KeysAgree
<1>1. TextRead /\ ScopeInv => KeysAgree
  <2>1. CASE kit.job = "scope"
    BY <2>1, StandingKeys DEF TextRead
  <2>2. CASE kit.job # "scope"
    BY <2>2 DEF KeysAgree
  <2>3. QED
    BY <2>1, <2>2
<1>2. QED
  BY <1>1, TextsRead, ScopesStanding, PTL
=============================================================================
