-------------------------- MODULE StatementsProofs --------------------------
(***************************************************************************)
(* statement_immutability keeps its promise for texts of any length, in    *)
(* any of the three provers' languages: what a declaration's span is, what *)
(* each prover's extractor takes of it, and what the comparison then sees  *)
(* of a changed word.                                                      *)
(***************************************************************************)
EXTENDS SourcesProofs

-----------------------------------------------------------------------------
(* A text and the same text with other words: the scanners take the same   *)
(* way through both.                                                       *)

Reworded(t, r) ==
  /\ t \in Seq(Tokens) /\ r \in Seq(Tokens) /\ Len(r) = Len(t)
  /\ \A j \in 1..Len(t) : r[j] = t[j] \/ (t[j] = "w" /\ r[j] = "v")

LEMMA RewordedTokens ==
  ASSUME NEW t, NEW r, Reworded(t, r), NEW c, c # "w", c # "v", NEW j \in 1..Len(t)
  PROVE  r[j] = c <=> t[j] = c
BY DEF Reworded

LEMMA RewordedLines ==
  ASSUME NEW t, NEW r, Reworded(t, r)
  PROVE  /\ LineStarts(r) = LineStarts(t)
         /\ \A s \in Nat \ {0} : /\ LineEnd(r, s) = LineEnd(t, s) /\ First(r, s) = First(t, s)
                                 /\ IsBlank(r, s) <=> IsBlank(t, s)
<1>1. Len(r) = Len(t) /\ Len(t) \in Nat
  BY DEF Reworded
<1>2. \A j \in 1..Len(t) : (r[j] = "nl" <=> t[j] = "nl") /\ (r[j] = "sp" <=> t[j] = "sp")
  BY DEF Reworded
<1>3. LineStarts(r) = LineStarts(t)
  <2>1. \A s \in 1..Len(t) : s = 1 \/ s - 1 \in 1..Len(t)
    BY <1>1
  <2>2. QED
    BY <1>1, <1>2, <2>1 DEF LineStarts
<1>4. ASSUME NEW s \in Nat \ {0} PROVE LineEnd(r, s) = LineEnd(t, s)
  <2>1. \A k \in s..Len(t) : k \in 1..Len(t)
    BY <1>1
  <2>2. {k \in s..Len(r) : r[k] = "nl"} = {k \in s..Len(t) : t[k] = "nl"}
    BY <1>1, <1>2, <2>1
  <2>3. QED
    BY <1>1, <2>2, Zenon DEF LineEnd
<1>5. ASSUME NEW s \in Nat \ {0}
      PROVE  First(r, s) = First(t, s) /\ (IsBlank(r, s) <=> IsBlank(t, s))
  <2> DEFINE e == LineEnd(t, s)
  <2>1. e \in Nat /\ e <= Len(t) + 1
    <3> DEFINE T == {k \in s..Len(t) : t[k] = "nl"} \cup {Len(t) + 1}
    <3>1. T \in SUBSET Nat /\ Len(t) + 1 \in T /\ \A k \in T : k <= Len(t) + 1
      BY <1>1
    <3>2. Min(T) \in T
      BY <3>1, MinIs
    <3>3. e = Min(T)
      BY DEF LineEnd
    <3>4. QED
      BY <1>1, <3>1, <3>2, <3>3
  <2>2. LineEnd(r, s) = e
    BY <1>4
  <2> HIDE DEF e
  <2>3. \A k \in s..e : k = e \/ k \in 1..Len(t)
    BY <1>1, <2>1
  <2>4. {k \in s..e : k = e \/ r[k] # "sp"} = {k \in s..e : k = e \/ t[k] # "sp"}
    BY <1>2, <2>3
  <2>5. First(r, s) = First(t, s)
    BY <2>2, <2>4 DEF First, e
  <2>6. QED
    BY <2>2, <2>5 DEF IsBlank, e
<1>6. QED
  BY <1>3, <1>4, <1>5

\* Where the lexer is after each token.
LEMMA RewordedTrack ==
  ASSUME NEW t, NEW r, Reworded(t, r), NEW p \in DOMAIN Syntax, NEW x, x = Syntax[p],
         NEW w, NEW d, NEW q, Track(x, w, d, q, t)
  PROVE  /\ Track(x, w, d, q, r)
         /\ \A k \in 1..Len(t) : Commented(x, w, r, k) <=> Commented(x, w, t, k)
<1>1. \A y \in {x.open, x.close, x.line, x.vopen, x.vclose} : y # "w" /\ y # "v"
  BY DEF Syntax, None
<1> DEFINE same(k) == /\ \A y \in {x.open, x.close, x.line, x.vopen, x.vclose} : r[k] = y <=> t[k] = y
                      /\ r[k] = "str" <=> t[k] = "str"
                      /\ r[k] = "esc" <=> t[k] = "esc"
                      /\ r[k] = "nl" <=> t[k] = "nl"
<1>2. ASSUME NEW k \in 1..Len(t) PROVE same(k)
  <2>1. r[k] = t[k] \/ (t[k] = "w" /\ r[k] = "v")
    BY DEF Reworded
  <2>2. QED
    BY <1>1, <2>1
<1> HIDE DEF same
<1>3. ASSUME NEW k \in 1..Len(t) PROVE Turn(x, w, d, q, r, k)
  <2>1. Turn(x, w, d, q, t, k)
    BY DEF Track
  <2>2. same(k)
    BY <1>2
  <2>3. /\ r[k] = x.open <=> t[k] = x.open
        /\ r[k] = x.close <=> t[k] = x.close
        /\ r[k] = x.line <=> t[k] = x.line
        /\ r[k] = x.vopen <=> t[k] = x.vopen
        /\ r[k] = x.vclose <=> t[k] = x.vclose
        /\ r[k] = "str" <=> t[k] = "str"
        /\ r[k] = "esc" <=> t[k] = "esc"
        /\ r[k] = "nl" <=> t[k] = "nl"
    BY <2>2, Zenon DEF same
  <2>4. QED
    BY <2>1, <2>3 DEF Turn, Up
<1>4. Len(r) = Len(t)
  BY DEF Reworded
<1>5. Track(x, w, d, q, r)
  BY <1>3, <1>4 DEF Track
<1>6. ASSUME NEW k \in 1..Len(t) PROVE Commented(x, w, r, k) <=> Commented(x, w, t, k)
  <2>1. same(k)
    BY <1>2
  <2>2. r[k] \in {x.open, x.line} <=> t[k] \in {x.open, x.line}
    BY <2>1 DEF same
  <2>3. QED
    BY <2>2, Zenon DEF Commented
<1>7. QED
  BY <1>5, <1>6
LEMMA RewordedPrefix ==
  ASSUME NEW t, NEW r, Reworded(t, r), NEW m \in 0..Len(t)
  PROVE  /\ Reworded(SubSeq(t, 1, m), SubSeq(r, 1, m))
         /\ Len(SubSeq(t, 1, m)) = m
         /\ \A k \in 1..m : SubSeq(t, 1, m)[k] = t[k] /\ SubSeq(r, 1, m)[k] = r[k]
<1>1. t \in Seq(Tokens) /\ r \in Seq(Tokens) /\ Len(r) = Len(t) /\ m \in Nat
  BY DEF Reworded
<1>2. /\ SubSeq(t, 1, m) \in Seq(Tokens) /\ Len(SubSeq(t, 1, m)) = m
      /\ SubSeq(r, 1, m) \in Seq(Tokens) /\ Len(SubSeq(r, 1, m)) = m
  BY <1>1
<1>3. \A k \in 1..m : SubSeq(t, 1, m)[k] = t[k] /\ SubSeq(r, 1, m)[k] = r[k]
  BY <1>1
<1>4. \A k \in 1..m : k \in 1..Len(t)
  BY <1>1
<1>5. QED
  BY <1>2, <1>3, <1>4 DEF Reworded

LEMMA RewordedBlank ==
  ASSUME NEW t, NEW r, Reworded(t, r), NEW C
  PROVE  Reworded(Blank(t, C), Blank(r, C))
<1>1. t \in Seq(Tokens) /\ r \in Seq(Tokens) /\ Len(r) = Len(t)
  BY DEF Reworded
<1> DEFINE a == Blank(t, C)
<1> DEFINE b == Blank(r, C)
<1>2. /\ a \in Seq(Tokens) /\ Len(a) = Len(t)
      /\ \A k \in 1..Len(t) : a[k] = IF k \in C /\ t[k] # "nl" THEN "sp" ELSE t[k]
  BY <1>1, BlankIs
<1>3. /\ b \in Seq(Tokens) /\ Len(b) = Len(t)
      /\ \A k \in 1..Len(t) : b[k] = IF k \in C /\ r[k] # "nl" THEN "sp" ELSE r[k]
  BY <1>1, BlankIs
<1> HIDE DEF a, b
<1>4. \A k \in 1..Len(t) : r[k] = t[k] \/ (t[k] = "w" /\ r[k] = "v")
  BY DEF Reworded
<1>5. \A k \in 1..Len(t) : b[k] = a[k] \/ (a[k] = "w" /\ b[k] = "v")
  BY <1>2, <1>3, <1>4
<1>6. Reworded(a, b)
  BY <1>2, <1>3, <1>5 DEF Reworded
<1>7. QED
  BY <1>6 DEF a, b

-----------------------------------------------------------------------------
(* Normalization tells two words apart.                                    *)

LEMMA RangeFinite == ASSUME NEW N \in Nat PROVE IsFiniteSet(1..N)
<1>1. 1 \in Int /\ N \in Int
  OBVIOUS
<1>2. QED
  BY <1>1, FS_Interval, Zenon

LEMMA PlaceGrows ==
  ASSUME NEW N \in Nat, NEW kept \in SUBSET (1..N), NEW j \in kept, NEW k \in kept, j < k
  PROVE  Place(kept, j) < Place(kept, k)
<1> DEFINE A == {i \in kept : i <= j}
<1> DEFINE B == {i \in kept : i <= k}
<1>1. IsFiniteSet(1..N)
  BY RangeFinite
<1>2. B \in SUBSET (1..N) /\ A \in SUBSET B /\ k \in B /\ k \notin A
  <2>1. j \in Nat /\ k \in Nat /\ \A i \in kept : i \in Nat
    OBVIOUS
  <2>2. B \in SUBSET (1..N)
    OBVIOUS
  <2>3. \A i \in kept : i <= j => i <= k
    BY <2>1
  <2>4. A \in SUBSET B
    BY <2>3, Zenon
  <2>5. QED
    BY <2>1, <2>2, <2>4
<1>3. IsFiniteSet(B)
  BY <1>1, <1>2, FS_Subset
<1> HIDE DEF A, B
<1>4. Cardinality(A) <= Cardinality(B) /\ Cardinality(A) # Cardinality(B) /\ IsFiniteSet(A)
  BY <1>2, <1>3, FS_Subset
<1>5. Cardinality(A) \in Nat /\ Cardinality(B) \in Nat
  BY <1>3, <1>4, FS_CardinalityType
<1>6. Cardinality(A) < Cardinality(B)
  BY <1>4, <1>5
<1>7. QED
  BY <1>6 DEF Place, A, B

LEMMA PlaceNat ==
  ASSUME NEW N \in Nat, NEW kept \in SUBSET (1..N), NEW k \in Nat
  PROVE  Place(kept, k) \in Nat
<1> DEFINE A == {i \in kept : i <= k}
<1>1. IsFiniteSet(1..N)
  BY RangeFinite
<1>2. A \in SUBSET (1..N)
  OBVIOUS
<1> HIDE DEF A
<1>3. IsFiniteSet(A)
  BY <1>1, <1>2, FS_Subset
<1>4. Cardinality(A) \in Nat
  BY <1>3, FS_CardinalityType
<1>5. QED
  BY <1>4 DEF Place, A

LEMMA WordSeen ==
  ASSUME NEW t, NEW r, Reworded(t, r), NEW k \in 1..Len(t), t[k] = "w", r[k] = "v"
  PROVE  Normalized(t) # Normalized(r)
<1>1. Len(r) = Len(t) /\ Len(t) \in Nat
  BY DEF Reworded
<1>2. \A j \in 1..Len(t) : r[j] \in Space <=> t[j] \in Space
  BY DEF Reworded, Space
<1> DEFINE K == Kept(t)
<1>3. Kept(r) = K
  <2>1. \A j \in 1..Len(t) : j > 1 => j - 1 \in 1..Len(t)
    BY <1>1
  <2>2. \A j \in 1..Len(t) : (\E i \in j..Len(r) : r[i] \notin Space) <=> (\E i \in j..Len(t) : t[i] \notin Space)
    <3>1. \A j \in 1..Len(t) : \A i \in j..Len(t) : i \in 1..Len(t)
      BY <1>1
    <3>2. QED
      BY <1>1, <1>2, <3>1
  <2>3. \A j \in 1..Len(t) :
          (\/ r[j] \notin Space
           \/ j > 1 /\ r[j - 1] \notin Space /\ \E i \in j..Len(r) : r[i] \notin Space) <=>
          (\/ t[j] \notin Space
           \/ j > 1 /\ t[j - 1] \notin Space /\ \E i \in j..Len(t) : t[i] \notin Space)
    BY <1>2, <2>1, <2>2
  <2>4. QED
    BY <1>1, <2>3 DEF Kept
<1>4. K \in SUBSET (1..Len(t)) /\ k \in K
  BY DEF Kept, Space
<1> DEFINE z == <<Place(K, k), "w">>
<1>5. z \in Normalized(t)
  <2>1. z = <<Place(K, k), IF t[k] \in Space THEN "sp" ELSE t[k]>>
    BY DEF Space
  <2>2. QED
    BY <1>4, <2>1 DEF Normalized
<1>6. z \notin Normalized(r)
  <2>1. SUFFICES ASSUME NEW j \in K, z = <<Place(K, j), IF r[j] \in Space THEN "sp" ELSE r[j]>>
                 PROVE  FALSE
    BY <1>3 DEF Normalized
  <2>2. Place(K, k) = Place(K, j) /\ (IF r[j] \in Space THEN "sp" ELSE r[j]) = "w"
    BY <2>1
  <2>3. j # k /\ j \in Nat /\ k \in Nat
    BY <1>4, <2>2 DEF Space
  <2>0. j \in K
    OBVIOUS
  <2> HIDE DEF K
  <2>4. CASE j < k
    <3>1. Place(K, j) < Place(K, k) /\ Place(K, j) \in Nat
      BY <1>1, <1>4, <2>0, <2>3, <2>4, PlaceGrows, PlaceNat
    <3>2. QED
      BY <2>2, <3>1
  <2>5. CASE k < j
    <3>1. Place(K, k) < Place(K, j) /\ Place(K, j) \in Nat
      BY <1>1, <1>4, <2>0, <2>3, <2>5, PlaceGrows, PlaceNat
    <3>2. QED
      BY <2>2, <3>1
  <2>6. QED
    BY <2>3, <2>4, <2>5
<1>7. QED
  BY <1>5, <1>6, Zenon
-----------------------------------------------------------------------------
(* Lines and what stands in them.                                          *)

LEMMA MaxIs ==
  ASSUME NEW T \in SUBSET Nat, T # {}, NEW n \in Nat, \A k \in T : k <= n
  PROVE  Max(T) \in T /\ \A k \in T : k <= Max(T)
<1> DEFINE U == {j \in 0..n : n - j \in T}
<1>1. U \in SUBSET Nat
  OBVIOUS
<1>2. \A k \in T : n - k \in U
  <2>1. \A k \in T : k \in Nat /\ n - k \in 0..n /\ n - (n - k) = k
    OBVIOUS
  <2>2. QED
    BY <2>1
<1>3. U # {}
  BY <1>2
<1> HIDE DEF U
<1>4. PICK m \in U : \A j \in U : m <= j
  BY <1>1, <1>3, LeastNat
<1>5. n - m \in T /\ m \in 0..n
  BY DEF U
<1>6. \A k \in T : k <= n - m
  <2>1. \A k \in T : m <= n - k /\ k \in Nat
    BY <1>2, <1>4
  <2>2. QED
    BY <1>5, <2>1
<1>7. \E x \in T : \A y \in T : x >= y
  BY <1>5, <1>6
<1>8. Max(T) \in T /\ \A y \in T : Max(T) >= y
  BY <1>7 DEF Max
<1>9. QED
  BY <1>8

LEMMA FirstIs ==
  ASSUME NEW t \in Seq(Tokens), NEW s \in 1..Len(t)
  PROVE  /\ First(t, s) \in s..LineEnd(t, s)
         /\ \A k \in s..(First(t, s) - 1) : t[k] = "sp"
         /\ ~IsBlank(t, s) => /\ First(t, s) \in 1..Len(t) /\ t[First(t, s)] # "sp"
                              /\ FirstToken(t, s) = t[First(t, s)]
         /\ \A k \in s..(LineEnd(t, s) - 1) : t[k] # "sp" => ~IsBlank(t, s)
<1> DEFINE e == LineEnd(t, s)
<1> DEFINE T == {k \in s..e : k = e \/ t[k] # "sp"}
<1>1. e \in s..(Len(t) + 1) /\ s \in Nat /\ e \in Nat /\ Len(t) \in Nat /\ s >= 1
  BY LineDef
<1> HIDE DEF e
<1>2. T \in SUBSET Nat /\ e \in T
  BY <1>1
<1>3. First(t, s) = Min(T)
  BY DEF First, e
<1> DEFINE f == First(t, s)
<1>4. f \in T /\ \A k \in T : f <= k
  <2> HIDE DEF T
  <2>1. QED
    BY <1>2, <1>3, MinIs
<1> HIDE DEF f
<1>5. f \in s..e /\ f \in Nat /\ (f = e \/ t[f] # "sp")
  BY <1>1, <1>4
<1>6. \A k \in s..(f - 1) : t[k] = "sp"
  <2> SUFFICES ASSUME NEW k \in s..(f - 1), t[k] # "sp" PROVE FALSE
    OBVIOUS
  <2>1. k \in T /\ ~(f <= k)
    BY <1>1, <1>5
  <2>2. QED
    BY <1>4, <2>1
<1>7. ~IsBlank(t, s) => f \in 1..Len(t) /\ t[f] # "sp" /\ FirstToken(t, s) = t[f]
  BY <1>1, <1>5 DEF IsBlank, FirstToken, e, f
<1>8. \A k \in s..(e - 1) : t[k] # "sp" => ~IsBlank(t, s)
  <2> SUFFICES ASSUME NEW k \in s..(e - 1), t[k] # "sp" PROVE f # e
    BY DEF IsBlank, e, f
  <2>1. k \in T /\ k < e
    BY <1>1
  <2>2. QED
    BY <1>1, <1>4, <1>5, <2>1
<1>9. QED
  BY <1>5, <1>6, <1>7, <1>8 DEF e, f

\* Every token but a line break stands in a line.
LEMMA LineAt ==
  ASSUME NEW t \in Seq(Tokens), NEW k \in 1..Len(t), t[k] # "nl"
  PROVE  \E s \in LineStarts(t) : s <= k /\ k < LineEnd(t, s)
<1> DEFINE T == {s \in LineStarts(t) : s <= k}
<1>0. k \in Nat /\ Len(t) \in Nat /\ k >= 1 /\ k <= Len(t)
  OBVIOUS
<1>1. T \in SUBSET Nat /\ 1 \in T /\ \A s \in T : s <= k
  BY <1>0 DEF LineStarts
<1> DEFINE s == Max(T)
<1>2. s \in T /\ \A j \in T : j <= s
  <2> HIDE DEF T
  <2>1. QED
    BY <1>0, <1>1, MaxIs
<1> HIDE DEF s
<1>3. s \in LineStarts(t) /\ s <= k /\ s \in 1..Len(t)
  BY <1>2 DEF LineStarts
<1> DEFINE e == LineEnd(t, s)
<1>4. /\ e \in s..(Len(t) + 1)
      /\ e = Len(t) + 1 \/ t[e] = "nl"
  BY <1>3, LineDef
<1> HIDE DEF e
<1>5. ASSUME e <= k PROVE FALSE
  <2>1. t[e] = "nl" /\ e \in Nat /\ e # k
    BY <1>0, <1>3, <1>4, <1>5
  <2>2. e + 1 \in 1..Len(t) /\ (e + 1) - 1 = e /\ e + 1 <= k /\ ~(e + 1 <= s)
    BY <1>0, <1>3, <1>4, <1>5, <2>1
  <2>3. e + 1 \in T
    BY <2>1, <2>2 DEF LineStarts
  <2>4. QED
    BY <1>2, <2>2, <2>3
<1>6. k < e
  BY <1>0, <1>3, <1>4, <1>5
<1>7. QED
  BY <1>3, <1>6 DEF e
\* The span of a declaration holds every line before the first that is not its
\* own.
LEMMA SpanHolds ==
  ASSUME NEW b \in Seq(Tokens), Len(b) >= 1, NEW cont, NEW limit \in Nat, NEW c \in Nat, c <= limit,
         \A l \in LineStarts(b) : /\ l > 1 /\ l < limit /\ ~IsBlank(b, l)
                                  /\ ~InBody(b, 1, l, cont) /\ FirstToken(b, l) \in Trailers
                                  => c <= l
  PROVE  /\ SpanEnd(b, 1, limit, cont) \in 0..Len(b)
         /\ \A k \in 1..Len(b) : b[k] \notin Space /\ k < c => k <= SpanEnd(b, 1, limit, cont)
         /\ \/ SpanEnd(b, 1, limit, cont) = Len(b)
            \/ b[SpanEnd(b, 1, limit, cont) + 1] = "nl"
<1> DEFINE body == {l \in LineStarts(b) : 1 < l /\ l < limit /\ ~IsBlank(b, l)}
<1> DEFINE ends == {l \in body : ~InBody(b, 1, l, cont) /\ FirstToken(b, l) \in Trailers}
<1> DEFINE S == {1} \cup {l \in body : \A e \in ends : l < e}
<1> DEFINE L == Max(S)
<1>0. Len(b) \in Nat /\ LineStarts(b) \subseteq 1..Len(b) /\ 1 \in 1..Len(b)
  BY DEF LineStarts
<1>1. SpanEnd(b, 1, limit, cont) = LineEnd(b, L) - 1
  BY Zenon DEF SpanEnd, BodyEnd, LastLine
<1>2. S \in SUBSET Nat /\ 1 \in S /\ \A k \in S : k <= Len(b)
  BY <1>0
<1>3. L \in S /\ \A k \in S : k <= L
  <2> HIDE DEF S
  <2>1. QED
    BY <1>0, <1>2, MaxIs
<1>4. L = 1 \/ (L \in LineStarts(b) /\ ~IsBlank(b, L))
  <2> HIDE DEF L
  <2>1. QED
    BY <1>3
<1> HIDE DEF L
<1>5. L \in 1..Len(b)
  BY <1>0, <1>4
<1> DEFINE z == LineEnd(b, L)
<1>6. z \in L..(Len(b) + 1) /\ (z = Len(b) + 1 \/ b[z] = "nl")
  BY <1>5, LineDef
<1> HIDE DEF z
<1>7. ASSUME NEW k \in 1..Len(b), b[k] \notin Space, k < c PROVE k <= z - 1
  <2>0. b[k] # "nl" /\ b[k] # "sp"
    BY <1>7 DEF Space
  <2>1. PICK l \in LineStarts(b) : l <= k /\ k < LineEnd(b, l)
    BY <2>0, LineAt
  <2> DEFINE e == LineEnd(b, l)
  <2>2. l \in 1..Len(b) /\ l \in Nat /\ (l = 1 \/ b[l - 1] = "nl")
    BY DEF LineStarts
  <2>3. /\ e \in l..(Len(b) + 1)
        /\ \A j \in l..(e - 1) : b[j] # "nl"
    BY <2>2, LineDef
  <2>4. k < e
    BY <2>1
  <2>5. ~IsBlank(b, l)
    <3>1. k \in l..(e - 1)
      BY <2>1, <2>2, <2>3, <2>4
    <3>2. QED
      BY <2>0, <2>2, <3>1, FirstIs
  <2> HIDE DEF e
  <2>6. l < c
    BY <1>7, <2>1, <2>2
  <2>7. \A f \in ends : l < f
    <3> SUFFICES ASSUME NEW f \in ends PROVE l < f
      OBVIOUS
    <3>1. c <= f /\ f \in Nat
      BY <1>0
    <3>2. QED
      BY <2>2, <2>6, <3>1
  <2>8. l \in S
    <3>1. l = 1 \/ (1 < l /\ l < limit)
      BY <2>2, <2>6
    <3>2. l = 1 \/ l \in body
      BY <2>5, <3>1
    <3> HIDE DEF body, ends
    <3>3. QED
      BY <2>7, <3>2
  <2>9. l <= L
    BY <1>3, <2>8
  <2>10. CASE l = L
    BY <1>6, <2>2, <2>3, <2>4, <2>10 DEF z, e
  <2>11. CASE l < L
    <3>1. L - 1 \in 1..Len(b) /\ b[L - 1] = "nl"
      BY <1>4, <1>5, <2>2, <2>11 DEF LineStarts
    <3>2. ~(L - 1 \in l..(e - 1))
      BY <2>3, <3>1
    <3>3. e <= L - 1
      BY <1>5, <2>2, <2>3, <2>11, <3>2
    <3>4. QED
      BY <1>5, <1>6, <2>3, <2>4, <3>3
  <2>12. QED
    BY <1>5, <2>2, <2>9, <2>10, <2>11
<1>8. z - 1 \in 0..Len(b) /\ (z - 1 = Len(b) \/ b[(z - 1) + 1] = "nl")
  BY <1>5, <1>6
<1>9. QED
  BY <1>1, <1>7, <1>8 DEF z

LEMMA RewordedWalk ==
  ASSUME NEW t, NEW r, Reworded(t, r)
  PROVE  \A k \in 0..Len(t) : Walk(r)[k] = Walk(t)[k]
<1> DEFINE N == Len(t)
<1>0. t \in Seq(Tokens) /\ r \in Seq(Tokens) /\ Len(r) = N /\ N \in Nat
  BY DEF Reworded
<1> DEFINE W == Walk(t)
<1> DEFINE V == Walk(r)
<1>1. Walked(W, t) /\ Walked(V, r)
  BY <1>0, WalkDef
<1> HIDE DEF W, V
<1> DEFINE Bad == {k \in 0..N : V[k] # W[k]}
<1>2. SUFFICES ASSUME Bad # {} PROVE FALSE
  BY DEF W, V
<1>3. PICK m \in Bad : \A k \in Bad : m <= k
  <2>1. Bad \in SUBSET Nat
    BY <1>0
  <2> HIDE DEF Bad
  <2>2. QED
    BY <1>2, <2>1, LeastNat
<1>4. m \in 0..N /\ V[m] # W[m]
  OBVIOUS
<1>5. m # 0
  BY <1>1, <1>4 DEF Walked
<1>6. m \in 1..N /\ m - 1 \in 0..N /\ ~(m <= m - 1)
  BY <1>0, <1>4, <1>5
<1>7. V[m - 1] = W[m - 1]
  BY <1>3, <1>6
<1>8. /\ V[m] = WalkStep(r, m, V[m - 1])
      /\ W[m] = WalkStep(t, m, W[m - 1])
  BY <1>0, <1>1, <1>6 DEF Walked
<1>9. WalkStep(r, m, W[m - 1]) = WalkStep(t, m, W[m - 1])
  <2>1. r[m] = t[m] \/ (t[m] = "w" /\ r[m] = "v")
    BY <1>6 DEF Reworded
  <2>2. /\ r[m] = "str" <=> t[m] = "str"
        /\ r[m] = "esc" <=> t[m] = "esc"
        /\ r[m] = "<o>" <=> t[m] = "<o>"
        /\ r[m] = "<c>" <=> t[m] = "<c>"
    BY <2>1
  <2>3. LineEnd(r, m) = LineEnd(t, m)
    <3>1. m \in Nat \ {0}
      BY <1>6
    <3>2. QED
      BY <3>1, RewordedLines
  <2> DEFINE w == W[m - 1]
  <2> DEFINE skips == w.skip \/ t[m] # "str"
  <2> HIDE DEF w
  <2>4. Skips(r, m, w) <=> Skips(t, m, w)
    BY <2>2, <2>3 DEF Skips
  <2>5. (w.skip \/ r[m] # "str") <=> (w.skip \/ t[m] # "str")
    BY <2>2
  <2>6. WalkStep(r, m, w) = WalkStep(t, m, w)
    BY <2>2, <2>4, <2>5 DEF WalkStep, Skips
  <2>7. QED
    BY <2>6 DEF w
<1>10. QED
  BY <1>4, <1>7, <1>8, <1>9
LEMMA RewordedFirst ==
  ASSUME NEW t, NEW r, Reworded(t, r), NEW s \in 1..Len(t), NEW c, c # "w", c # "v"
  PROVE  FirstToken(r, s) = c <=> FirstToken(t, s) = c
<1>1. t \in Seq(Tokens) /\ s \in Nat \ {0}
  BY DEF Reworded
<1>2. First(r, s) = First(t, s) /\ (IsBlank(r, s) <=> IsBlank(t, s))
  BY <1>1, RewordedLines
<1>3. CASE IsBlank(t, s)
  BY <1>2, <1>3 DEF FirstToken
<1>4. CASE ~IsBlank(t, s)
  <2> DEFINE f == First(t, s)
  <2>1. f \in 1..Len(t)
    BY <1>1, <1>4, FirstIs
  <2>2. FirstToken(r, s) = r[f] /\ FirstToken(t, s) = t[f]
    BY <1>2, <1>4 DEF FirstToken
  <2> HIDE DEF f
  <2>3. r[f] = t[f] \/ (t[f] = "w" /\ r[f] = "v")
    BY <2>1 DEF Reworded
  <2>4. QED
    BY <2>2, <2>3
<1>5. QED
  BY <1>3, <1>4

LEMMA RewordedSpan ==
  ASSUME NEW a, NEW b, Reworded(a, b), NEW p
  PROVE  /\ Continuation(b, p) = Continuation(a, p)
         /\ DeclStarts(b, p) = DeclStarts(a, p)
         /\ \A limit \in Nat : \A cont : Len(a) >= 1 => SpanEnd(b, 1, limit, cont) = SpanEnd(a, 1, limit, cont)
<1>0. /\ a \in Seq(Tokens) /\ Len(a) \in Nat /\ LineStarts(b) = LineStarts(a)
      /\ LineStarts(a) \subseteq 1..Len(a)
  BY RewordedLines DEF Reworded, LineStarts
<1>1. \A s \in 1..Len(a) : /\ LineEnd(b, s) = LineEnd(a, s) /\ First(b, s) = First(a, s)
                           /\ IsBlank(b, s) <=> IsBlank(a, s)
  <2>1. \A s \in 1..Len(a) : s \in Nat \ {0}
    OBVIOUS
  <2>2. QED
    BY <2>1, RewordedLines
<1>2. \A s \in 1..Len(a) : \A c \in {"kw", "locale", "cmd", "end", "|"} : FirstToken(b, s) = c <=> FirstToken(a, s) = c
  BY RewordedFirst
<1>3. Continuation(b, p) = Continuation(a, p)
  <2>1. \A s \in LineStarts(a) : s - 1 \in 0..Len(a)
    BY <1>0
  <2>2. \A s \in LineStarts(a) : Walk(b)[s - 1] = Walk(a)[s - 1]
    BY <2>1, RewordedWalk
  <2>3. \A s \in LineStarts(a) : (~IsBlank(b, s) /\ ~Outside(Walk(b)[s - 1])) <=>
                                 (~IsBlank(a, s) /\ ~Outside(Walk(a)[s - 1]))
    BY <1>0, <1>1, <2>2, Zenon
  <2>4. QED
    BY <1>0, <2>3 DEF Continuation
<1>4. DeclStarts(b, p) = DeclStarts(a, p)
  <2>1. \A s \in LineStarts(a) : IsDecl(b, s) <=> IsDecl(a, s)
    BY <1>0, <1>2 DEF IsDecl
  <2>2. QED
    BY <1>0, <1>3, <2>1 DEF DeclStarts
<1>5. ASSUME NEW limit \in Nat, NEW cont, Len(a) >= 1
      PROVE  SpanEnd(b, 1, limit, cont) = SpanEnd(a, 1, limit, cont)
  <2> DEFINE A == {l \in LineStarts(a) : 1 < l /\ l < limit /\ ~IsBlank(a, l)}
  <2> DEFINE B == {l \in LineStarts(b) : 1 < l /\ l < limit /\ ~IsBlank(b, l)}
  <2>1. A = B /\ A \subseteq 1..Len(a)
    BY <1>0, <1>1
  <2>2. \A l \in A : InBody(b, 1, l, cont) <=> InBody(a, 1, l, cont)
    <3>1. \A l \in A : l \in 1..Len(a) /\ 1 \in 1..Len(a)
      BY <2>1
    <3> HIDE DEF A
    <3>2. \A l \in A : Indent(b, l) = Indent(a, l) /\ Indent(b, 1) = Indent(a, 1)
      BY <1>1, <3>1 DEF Indent
    <3>3. \A l \in A : FirstToken(b, l) = "|" <=> FirstToken(a, l) = "|"
      BY <1>2, <3>1
    <3>4. QED
      BY <3>2, <3>3 DEF InBody
  <2> HIDE DEF A, B
  <2> DEFINE E == {l \in A : ~InBody(a, 1, l, cont) /\ FirstToken(a, l) \in Trailers}
  <2> DEFINE F == {l \in B : ~InBody(b, 1, l, cont) /\ FirstToken(b, l) \in Trailers}
  <2>3. \A l \in A : FirstToken(b, l) \in Trailers <=> FirstToken(a, l) \in Trailers
    BY <1>2, <2>1 DEF Trailers
  <2>4. E = F
    BY <2>1, <2>2, <2>3, Zenon
  <2> HIDE DEF E, F
  <2> DEFINE S == {1} \cup {l \in A : \A e \in E : l < e}
  <2> DEFINE L == Max(S)
  <2>5. L \in 1..Len(a)
    <3>1. 1 \in S /\ \A k \in S : k = 1 \/ k \in A
      BY Zenon
    <3> HIDE DEF S
    <3>2. ASSUME NEW k \in S PROVE k \in 1..Len(a)
      <4>1. 1 \in 1..Len(a) /\ A \subseteq 1..Len(a)
        BY <1>0, <1>5, <2>1
      <4>2. QED
        BY <3>1, <4>1, Zenon
    <3>3. S \in SUBSET Nat /\ \A k \in S : k <= Len(a)
      BY <1>0, <3>2
    <3>4. L \in S
      BY <1>0, <3>1, <3>3, MaxIs
    <3>5. QED
      BY <3>2, <3>4
  <2>6. SpanEnd(a, 1, limit, cont) = LineEnd(a, L) - 1
    BY Zenon DEF SpanEnd, BodyEnd, LastLine, A, E
  <2>7. SpanEnd(b, 1, limit, cont) = LineEnd(b, L) - 1
    <3>1. SpanEnd(b, 1, limit, cont) = LineEnd(b, Max({1} \cup {l \in B : \A e \in F : l < e})) - 1
      BY Zenon DEF SpanEnd, BodyEnd, LastLine, B, F
    <3>2. QED
      BY <2>1, <2>4, <3>1
  <2> HIDE DEF L
  <2>8. QED
    BY <1>1, <2>5, <2>6, <2>7
<1>6. QED
  BY <1>3, <1>4, <1>5
-----------------------------------------------------------------------------
(* One declaration: where its statement and its proof end.                 *)

LEMMA Typed ==
  ASSUME TextInv, NEW tok, Type(tok)
  PROVE  /\ Len(text) \in Nat /\ Len(text') = Len(text) + 1
         /\ \A k \in 1..Len(text) : text'[k] = text[k] /\ label'[k] = label[k]
         /\ text'[Len(text) + 1] = tok /\ label'[Len(text) + 1] = Means(mode, tok)
         /\ mode' = Lexed(mode, tok) /\ kit' = kit
<1>1. /\ text' = Append(text, tok) /\ label' = Append(label, Means(mode, tok))
      /\ mode' = Lexed(mode, tok) /\ kit' = kit
  BY DEF Type
<1>2. text \in Seq(Tokens) /\ label \in Seq(Labels) /\ Len(label) = Len(text)
  BY DEF TextInv
<1>3. /\ Len(text') = Len(text) + 1 /\ text'[Len(text) + 1] = tok
      /\ \A k \in 1..Len(text) : text'[k] = text[k]
  BY <1>1, <1>2
<1> DEFINE name == Means(mode, tok)
<1>4. label' = Append(label, name)
  BY <1>1
<1> HIDE DEF name
<1>5. label'[Len(label) + 1] = name /\ \A k \in 1..Len(label) : label'[k] = label[k]
  BY <1>2, <1>4
<1>6. QED
  BY <1>1, <1>2, <1>3, <1>5 DEF name

Added(toks, part) ==
  /\ Len(text) \in Nat /\ Len(text') = Len(text) + Len(toks)
  /\ \A k \in 1..Len(text) : text'[k] = text[k] /\ label'[k] = label[k]
  /\ \A j \in 1..Len(toks) : /\ text'[Len(text) + j] = toks[j]
                             /\ label'[Len(text) + j].lex = "code"
                             /\ label'[Len(text) + j].part = part
LEMMA Phrased ==
  ASSUME TextInv, NEW toks \in Seq(Tokens), NEW part, Phrase(toks, part)
  PROVE  Added(toks, part)
<1>1. /\ text' = text \o toks
      /\ label' = label \o [k \in DOMAIN toks |-> [lex |-> "code", part |-> part]]
  BY DEF Phrase
<1>2. text \in Seq(Tokens) /\ label \in Seq(Labels) /\ Len(label) = Len(text)
  BY DEF TextInv
<1> DEFINE name == [lex |-> "code", part |-> part]
<1> DEFINE names == [k \in DOMAIN toks |-> name]
<1>3. name.lex = "code" /\ name.part = part
  OBVIOUS
<1> DEFINE S == Labels \cup {name}
<1>4. label \in Seq(S) /\ name \in S
  BY <1>2
<1> HIDE DEF S, name
<1>5. names \in Seq(S) /\ Len(names) = Len(toks) /\ \A j \in 1..Len(toks) : names[j] = name
  BY <1>4
<1>6. label' = label \o names
  BY <1>1 DEF name
<1> HIDE DEF names
<1>7. Extends(label', label, names, S) /\ Extends(text', text, toks, Tokens)
  BY <1>1, <1>2, <1>4, <1>5, <1>6, Concat, Zenon
<1>8. /\ Len(text') = Len(text) + Len(toks)
      /\ \A k \in 1..Len(text) : text'[k] = text[k] /\ label'[k] = label[k]
      /\ \A j \in 1..Len(toks) : /\ text'[Len(text) + j] = toks[j]
                                 /\ label'[Len(text) + j] = name
  BY <1>2, <1>5, <1>7 DEF Extends
<1>9. QED
  BY <1>2, <1>3, <1>8 DEF Added

\* The files whose tokens mislead nobody.  In Rocq and Lean no word reads like a
\* command: a line of a string that begins with one ends the span.  In Rocq there
\* is no backslash: its sentences and its comments read it differently.  In
\* Isabelle, whose strings and cartouches may hold commands, there is no marginal
\* comment, which the extractor blanks and the lexer keeps, and no command of a
\* scope, which the author would put into the statement as well.
Commands == {"kw", "locale", "cmd", "end"}
Quiet ==
  /\ kit.job = "statement" /\ prover \in {"rocq", "lean4", "isabelle"}
  /\ prover # "isabelle" => kit.tokens \cap Commands = {}
  /\ prover = "rocq" => "esc" \notin kit.tokens
  /\ prover = "isabelle" => kit.tokens \cap {"<m>", "locale", "end"} = {}

\* Only Isabelle's profile tells a command from a word inside a string.
Command(p, tok, l) == tok \in Commands /\ (p = "isabelle" => l.lex = "code")

\* The statement ends after e and the proof after a.
PartOf(k, e, a) ==
  IF k <= 2 THEN "head" ELSE IF k <= e THEN "stmt" ELSE IF k <= a THEN "proof" ELSE "after"
Ending(p, t, e, a) ==
  CASE p = "rocq"  -> e + 2 <= a /\ t[e + 1] = "." /\ t[e + 2] = "nl"
    [] p = "lean4" -> \/ e + 1 <= a /\ t[e + 1] \in {":=", "where"}
                      \/ /\ e + 4 <= a /\ t[e + 1] = "nl" /\ t[e + 2] = "|"
                         /\ t[e + 3] = "w" /\ t[e + 4] = "=>"
    [] OTHER       -> \/ e + 1 <= a /\ t[e + 1] = "by"
                      \/ e + 2 <= a /\ t[e + 1] = ".." /\ t[e + 2] = "nl"
\* Isabelle has declarations without a proof.
Over(p, t, m, e, a) == Ending(p, t, e, a) \/ (p = "isabelle" /\ m.part = "after" /\ a = e)
Shape(p, t, l, m, e, a) ==
  /\ e \in 2..Len(t) /\ a \in e..Len(t)
  /\ t[1] = "kw" /\ t[2] = "f"
  /\ \A k \in 1..Len(t) : /\ l[k].part = PartOf(k, e, a)
                          /\ l[k].part # "stmt" => l[k].lex = "code"
                          /\ k # 1 /\ k # a + 2 => ~Command(p, t[k], l[k])
  /\ m.part = "stmt" => e = Len(t)
  /\ m.part = "proof" => a = Len(t)
  /\ m.part = "after" => Len(t) = a + 3 /\ t[a + 1] = "nl" /\ t[a + 2] \in {"kw", "cmd"}
  /\ m.part # "stmt" => InCode(m) /\ Over(p, t, m, e, a)
ShapeInv ==
  Quiet => /\ mode.part \in {"stmt", "proof", "after"}
           /\ \E e, a : Shape(prover, text, label, mode, e, a)

LEMMA KindInCode == ASSUME NEW m, ModeOK(m), Kind(m) = "code" PROVE InCode(m)
BY DEF ModeOK, Modes, Kind, InCode

LEMMA LexedPart ==
  ASSUME NEW m, ModeOK(m), NEW tok, prover \in DOMAIN Syntax
  PROVE  /\ Lexed(m, tok).part = m.part
         /\ InCode(m) /\ tok \in {"w", "nl"} => InCode(Lexed(m, tok)) /\ Means(m, tok).lex = "code"
         /\ Means(m, tok).part = m.part
<1>1. m \in Modes
  BY DEF ModeOK
<1>2. Lexed(m, tok).part = m.part
  BY <1>1 DEF Lexed, Modes
<1>3. ASSUME InCode(m), tok \in {"w", "nl"} PROVE InCode(Lexed(m, tok)) /\ Means(m, tok).lex = "code"
  <2> DEFINE x == Syntax[prover]
  <2> DEFINE n == Lexed(m, tok)
  <2>1. tok # None /\ tok # "str" /\ tok \notin {x.open, x.line, x.vopen} /\ ~Strays(m, tok)
    BY <1>3 DEF Syntax, None, Strays
  <2>2. Kind(m) = "code"
    BY <1>3, InCodeKind
  <2>3. ModeOK(n) /\ Turns(x, m, n, tok)
    BY <2>1, LexedTurns
  <2>4. ~m.string /\ ~(m.cartouche > 0)
    BY <1>1, <1>3 DEF InCode, Modes
  <2>5. Means(m, tok).lex = "code"
    BY <1>3, <2>1, <2>4 DEF Means
  <2> HIDE DEF x, n
  <2>6. Kind(n) = "code"
    BY <2>1, <2>2, <2>3 DEF Turns
  <2>7. InCode(n)
    BY <2>3, <2>6, KindInCode
  <2>8. QED
    BY <2>5, <2>7 DEF n
<1>4. Means(m, tok).part = m.part
  BY DEF Means
<1>5. QED
  BY <1>2, <1>3, <1>4

LEMMA QuietKept == ASSUME kit' = kit PROVE Quiet' <=> Quiet
BY DEF Quiet, prover

\* A statement that goes on: N tokens, and L after the step.
LEMMA StatementOn ==
  ASSUME ShapeInv, Quiet, mode.part = "stmt", mode'.part = "stmt", kit' = kit,
         NEW N \in Nat, N = Len(text), Len(text') \in Nat, Len(text') >= N,
         \A k \in 1..N : text'[k] = text[k] /\ label'[k] = label[k],
         \A k \in (N + 1)..Len(text') : label'[k].part = "stmt" /\ ~Command(prover, text'[k], label'[k])
  PROVE  ShapeInv'
<1> DEFINE L == Len(text')
<1>0. prover' = prover
  BY DEF prover
<1>1. PICK e, a : Shape(prover, text, label, mode, e, a)
  BY Zenon DEF ShapeInv
<1>2. e = N /\ a = N /\ N >= 2
  BY <1>1 DEF Shape
<1>3. text'[1] = "kw" /\ text'[2] = "f"
  <2>1. 1 \in 1..N /\ 2 \in 1..N
    BY <1>2
  <2>2. QED
    BY <1>1, <2>1 DEF Shape
<1>4. ASSUME NEW k \in 1..L
      PROVE  /\ label'[k].part = PartOf(k, L, L)
             /\ label'[k].part # "stmt" => label'[k].lex = "code"
             /\ k # 1 => ~Command(prover, text'[k], label'[k])
  <2>1. CASE k \in 1..N
    <3>1. label'[k] = label[k] /\ text'[k] = text[k]
      BY <2>1
    <3>2. /\ label[k].part = PartOf(k, e, a) /\ (label[k].part # "stmt" => label[k].lex = "code")
          /\ (k # 1 /\ k # a + 2 => ~Command(prover, text[k], label[k]))
      BY <1>1, <2>1 DEF Shape
    <3>3. PartOf(k, e, a) = PartOf(k, L, L) /\ k # a + 2
      BY <1>2, <2>1 DEF PartOf
    <3>4. QED
      BY <3>1, <3>2, <3>3
  <2>2. CASE k \notin 1..N
    <3>1. k \in (N + 1)..L /\ k > 2
      BY <1>2, <2>2
    <3>2. QED
      BY <3>1 DEF PartOf
  <2>3. QED
    BY <2>1, <2>2
<1>5. L = Len(text') /\ L \in 2..L /\ L \in L..L
  BY <1>2
<1>6. Shape(prover', text', label', mode', L, L)
  <2>1. mode'.part # "proof" /\ mode'.part # "after"
    OBVIOUS
  <2>2. \A k \in 1..L : /\ label'[k].part = PartOf(k, L, L)
                        /\ label'[k].part # "stmt" => label'[k].lex = "code"
                        /\ k # 1 /\ k # L + 2 => ~Command(prover', text'[k], label'[k])
    BY <1>0, <1>4
  <2>3. /\ mode'.part = "stmt" => L = Len(text')
        /\ mode'.part = "proof" => L = Len(text')
        /\ mode'.part = "after" => /\ Len(text') = L + 3 /\ text'[L + 1] = "nl"
                                   /\ text'[L + 2] \in {"kw", "cmd"}
        /\ mode'.part # "stmt" => InCode(mode') /\ Over(prover', text', mode', L, L)
    BY <2>1
  <2>4. L \in 2..Len(text') /\ L \in L..Len(text')
    BY <1>5
  <2>5. QED
    BY <1>3, <2>2, <2>3, <2>4, Zenon DEF Shape
<1>7. mode'.part \in {"stmt", "proof", "after"}
  OBVIOUS
<1>8. QED
  BY <1>6, <1>7, Zenon DEF ShapeInv

LEMMA StatementGrows ==
  ASSUME TextInv, ShapeInv, WriteInside \/ WriteStatement \/ WriteLet
  PROVE  ShapeInv'
<1>0. kit' = kit /\ mode.part = "stmt" /\ ModeOK(mode)
  BY DEF WriteInside, WriteStatement, WriteLet, Writing, Type, TextInv
<1>1. SUFFICES ASSUME Quiet PROVE ShapeInv'
  BY <1>0, QuietKept DEF ShapeInv
<1>2. prover \in DOMAIN Syntax
  BY <1>1 DEF Quiet, Syntax
<1>3. CASE WriteInside \/ WriteStatement
  <2>1. PICK tok \in kit.tokens : /\ Type(tok)
                                  /\ InCode(mode) => tok \notin {"kw", "cmd"}
    BY <1>3 DEF WriteInside, WriteStatement
  <2>2. ~Command(prover, tok, Means(mode, tok))
    <3>1. CASE prover # "isabelle"
      BY <1>1, <2>1, <3>1 DEF Quiet, Command
    <3>2. CASE InCode(mode) /\ prover = "isabelle"
      <4>1. tok \notin {"kw", "cmd"}
        BY <2>1, <3>2, Zenon
      <4>2. tok \notin {"locale", "end"}
        BY <1>1, <2>1, <3>2 DEF Quiet
      <4>3. QED
        BY <4>1, <4>2 DEF Command, Commands
    <3>3. CASE ~InCode(mode) /\ prover = "isabelle"
      <4>1. Means(mode, tok).lex # "code"
        BY <3>3 DEF Means
      <4>2. QED
        BY <3>3, <4>1 DEF Command
    <3>4. QED
      BY <3>1, <3>2, <3>3
  <2>3. /\ Len(text) \in Nat /\ Len(text') = Len(text) + 1
        /\ \A k \in 1..Len(text) : text'[k] = text[k] /\ label'[k] = label[k]
        /\ text'[Len(text) + 1] = tok /\ label'[Len(text) + 1] = Means(mode, tok)
        /\ mode' = Lexed(mode, tok)
    <3>1. Type(tok)
      BY <2>1
    <3>2. QED
      BY <3>1, Typed
  <2>4. mode'.part = "stmt" /\ Means(mode, tok).part = "stmt"
    BY <1>0, <1>2, <2>3, LexedPart
  <2>5. \A k \in (Len(text) + 1)..Len(text') : k = Len(text) + 1
    BY <2>3
  <2>6. Len(text') \in Nat /\ Len(text') >= Len(text)
    BY <2>3
  <2>7. \A k \in (Len(text) + 1)..Len(text') :
          label'[k].part = "stmt" /\ ~Command(prover, text'[k], label'[k])
    BY <2>2, <2>3, <2>4, <2>5
  <2>8. QED
    BY <1>0, <1>1, <2>3, <2>4, <2>6, <2>7, StatementOn
<1>4. CASE WriteLet
  <2> DEFINE toks == <<"let", "w", ":=">>
  <2>1. Phrase(toks, "stmt") /\ mode' = mode
    BY <1>4 DEF WriteLet
  <2>2. toks \in Seq(Tokens) /\ Len(toks) = 3 /\ \A j \in 1..3 : toks[j] \notin Commands
    BY DEF Tokens, Commands
  <2> HIDE DEF toks
  <2>7. Added(toks, "stmt")
    BY <2>1, <2>2, Phrased, Zenon
  <2>3. /\ Len(text) \in Nat /\ Len(text') = Len(text) + Len(toks)
        /\ \A k \in 1..Len(text) : text'[k] = text[k] /\ label'[k] = label[k]
        /\ \A j \in 1..Len(toks) : /\ text'[Len(text) + j] = toks[j]
                                   /\ label'[Len(text) + j].lex = "code"
                                   /\ label'[Len(text) + j].part = "stmt"
    BY <2>7, Zenon DEF Added
  <2>4. ASSUME NEW k \in (Len(text) + 1)..Len(text')
        PROVE  label'[k].part = "stmt" /\ ~Command(prover, text'[k], label'[k])
    <3>1. k - Len(text) \in 1..3 /\ k = Len(text) + (k - Len(text))
      BY <2>2, <2>3
    <3>2. label'[k].part = "stmt" /\ text'[k] \notin Commands
      BY <2>2, <2>3, <3>1
    <3>3. QED
      BY <3>2 DEF Command
  <2>5. Len(text') \in Nat /\ Len(text') >= Len(text)
    BY <2>2, <2>3
  <2>6. QED
    BY <1>0, <1>1, <2>1, <2>3, <2>4, <2>5, StatementOn
<1>5. QED
  BY <1>3, <1>4
\* What follows the statement: N tokens, and L after the step.
Onward(p, t, l, e, a, u, v, n, b) ==
  /\ Len(t) \in Nat /\ Len(u) \in Nat /\ Len(u) > Len(t)
  /\ b \in e..Len(u) /\ a <= b /\ b + 2 > Len(t) /\ a + 2 > Len(t)
  /\ \A k \in 1..Len(t) : u[k] = t[k] /\ v[k] = l[k] /\ PartOf(k, e, b) = PartOf(k, e, a)
  /\ \A k \in (Len(t) + 1)..Len(u) : /\ v[k].part = PartOf(k, e, b) /\ v[k].lex = "code"
                                     /\ k # b + 2 => ~Command(p, u[k], v[k])
  /\ n.part # "stmt" /\ InCode(n) /\ Over(p, u, n, e, b)
  /\ n.part = "proof" => b = Len(u)
  /\ n.part = "after" => Len(u) = b + 3 /\ u[b + 1] = "nl" /\ u[b + 2] \in {"kw", "cmd"}
LEMMA ShapeOn ==
  ASSUME NEW p, NEW t, NEW l, NEW m, NEW e, NEW a, Shape(p, t, l, m, e, a),
         NEW u, NEW v, NEW n, NEW b, Onward(p, t, l, e, a, u, v, n, b)
  PROVE  Shape(p, u, v, n, e, b)
<1> DEFINE N == Len(t)
<1>1. e \in 2..N /\ a \in e..N /\ N \in Nat
  BY DEF Shape, Onward
<1>2. u[1] = "kw" /\ u[2] = "f"
  <2>1. 1 \in 1..N /\ 2 \in 1..N
    BY <1>1
  <2>2. QED
    BY <2>1 DEF Shape, Onward
<1>3. ASSUME NEW k \in 1..Len(u)
      PROVE  /\ v[k].part = PartOf(k, e, b)
             /\ v[k].part # "stmt" => v[k].lex = "code"
             /\ k # 1 /\ k # b + 2 => ~Command(p, u[k], v[k])
  <2>1. CASE k \in 1..N
    <3>1. /\ l[k].part = PartOf(k, e, a) /\ (l[k].part # "stmt" => l[k].lex = "code")
          /\ (k # 1 /\ k # a + 2 => ~Command(p, t[k], l[k]))
      BY <2>1 DEF Shape, Onward
    <3>2. k # a + 2
      BY <1>1, <2>1 DEF Onward
    <3>3. v[k] = l[k] /\ u[k] = t[k] /\ PartOf(k, e, b) = PartOf(k, e, a)
      BY <2>1 DEF Onward
    <3>4. QED
      BY <3>1, <3>2, <3>3
  <2>2. CASE k \notin 1..N
    <3>1. k \in (N + 1)..Len(u)
      BY <1>1, <2>2
    <3>2. QED
      BY <3>1 DEF Onward
  <2>3. QED
    BY <2>1, <2>2
<1>4. e \in 2..Len(u)
  BY <1>1 DEF Onward
<1>5. QED
  BY <1>2, <1>3, <1>4 DEF Shape, Onward

LEMMA StatementEnds ==
  ASSUME TextInv, ShapeInv, EndStatement
  PROVE  ShapeInv'
<1>0. /\ kit' = kit /\ mode.part = "stmt" /\ ModeOK(mode) /\ InCode(mode)
      /\ mode' = [mode EXCEPT !.part = "proof"]
      /\ \E end \in Ends[prover] : Phrase(end, "proof")
  BY DEF EndStatement, Writing, TextInv
<1>1. SUFFICES ASSUME Quiet PROVE ShapeInv'
  BY <1>0, QuietKept DEF ShapeInv
<1>2. prover \in {"rocq", "lean4", "isabelle"} /\ prover' = prover
  BY <1>0, <1>1 DEF Quiet, prover
<1>3. PICK end \in Ends[prover] : Phrase(end, "proof")
  BY <1>0, Zenon
<1>4. /\ prover = "rocq" => end = <<".", "nl">>
      /\ prover = "lean4" => end \in {<<":=">>, <<"where">>, <<"nl", "|", "w", "=>">>}
      /\ prover = "isabelle" => end \in {<<"by">>, <<"..", "nl">>}
  BY <1>2, <1>3 DEF Ends
<1>5. end \in Seq(Tokens) /\ Len(end) \in Nat /\ \A j \in 1..Len(end) : end[j] \notin Commands
  <2>1. {".", "nl", ":=", "where", "|", "w", "=>", "by", ".."} \subseteq Tokens
    BY DEF Tokens
  <2>2. CASE end = <<".", "nl">>
    BY <2>1, <2>2 DEF Commands
  <2>3. CASE end = <<":=">>
    BY <2>1, <2>3 DEF Commands
  <2>4. CASE end = <<"where">>
    BY <2>1, <2>4 DEF Commands
  <2>5. CASE end = <<"nl", "|", "w", "=>">>
    BY <2>1, <2>5 DEF Commands
  <2>6. CASE end = <<"by">>
    BY <2>1, <2>6 DEF Commands
  <2>7. CASE end = <<"..", "nl">>
    BY <2>1, <2>7 DEF Commands
  <2>8. QED
    BY <1>2, <1>4, <2>2, <2>3, <2>4, <2>5, <2>6, <2>7
<1>6. Added(end, "proof")
  BY <1>3, <1>5, Phrased, Zenon
<1> DEFINE N == Len(text)
<1> DEFINE L == Len(text')
<1>7. /\ N \in Nat /\ L = N + Len(end) /\ Len(end) \in Nat
      /\ \A k \in 1..N : text'[k] = text[k] /\ label'[k] = label[k]
      /\ \A j \in 1..Len(end) : /\ text'[N + j] = end[j]
                                /\ label'[N + j].lex = "code" /\ label'[N + j].part = "proof"
  BY <1>5, <1>6, Zenon DEF Added
<1>8. PICK e, a : Shape(prover, text, label, mode, e, a)
  BY <1>1, Zenon DEF ShapeInv
<1>9. e = N /\ a = N /\ N >= 2
  BY <1>0, <1>8 DEF Shape
<1> HIDE DEF N, L
<1>10. Ending(prover, text', N, L) /\ L > N
  <2>1. CASE prover = "rocq"
    <3>1. Len(end) = 2 /\ end[1] = "." /\ end[2] = "nl"
      BY <1>4, <2>1
    <3>2. QED
      BY <1>7, <2>1, <3>1 DEF Ending
  <2>2. CASE prover = "lean4"
    <3>1. CASE end = <<":=">> \/ end = <<"where">>
      <4>1. Len(end) = 1 /\ end[1] \in {":=", "where"}
        BY <3>1
      <4>2. QED
        BY <1>7, <2>2, <4>1 DEF Ending
    <3>2. CASE end = <<"nl", "|", "w", "=>">>
      <4>1. Len(end) = 4 /\ end[1] = "nl" /\ end[2] = "|" /\ end[3] = "w" /\ end[4] = "=>"
        BY <3>2
      <4>2. QED
        BY <1>7, <2>2, <4>1 DEF Ending
    <3>3. QED
      BY <1>4, <2>2, <3>1, <3>2
  <2>3. CASE prover = "isabelle"
    <3>1. CASE end = <<"by">>
      <4>1. Len(end) = 1 /\ end[1] = "by"
        BY <3>1
      <4>2. QED
        BY <1>7, <2>3, <4>1 DEF Ending
    <3>2. CASE end = <<"..", "nl">>
      <4>1. Len(end) = 2 /\ end[1] = ".." /\ end[2] = "nl"
        BY <3>2
      <4>2. QED
        BY <1>7, <2>3, <4>1 DEF Ending
    <3>3. QED
      BY <1>4, <2>3, <3>1, <3>2
  <2>4. QED
    BY <1>2, <2>1, <2>2, <2>3
<1>11. mode'.part = "proof" /\ InCode(mode')
  BY <1>0 DEF ModeOK, Modes, InCode
<1>12. ASSUME NEW k \in (N + 1)..L
       PROVE  /\ label'[k].part = PartOf(k, N, L) /\ label'[k].lex = "code"
              /\ ~Command(prover, text'[k], label'[k])
  <2>1. k - N \in 1..Len(end) /\ k = N + (k - N)
    BY <1>7
  <2>2. label'[k].part = "proof" /\ label'[k].lex = "code" /\ text'[k] = end[k - N]
    BY <1>7, <2>1
  <2>3. PartOf(k, N, L) = "proof"
    BY <1>7, <1>9 DEF PartOf
  <2>4. text'[k] \notin Commands
    BY <1>5, <2>1, <2>2
  <2>5. QED
    BY <2>2, <2>3, <2>4 DEF Command
<1>13. \A k \in 1..N : PartOf(k, N, L) = PartOf(k, N, N)
  BY <1>7, <1>9 DEF PartOf
<1>14. Shape(prover, text, label, mode, N, N)
  BY <1>8, <1>9
<1>15. L \in N..L /\ N <= L /\ L + 2 > N /\ N + 2 > N /\ L \in Nat
  BY <1>7, <1>10
<1>16. Shape(prover, text', label', mode', N, L)
  <2>1. Len(text) = N /\ Len(text') = L
    BY DEF N, L
  <2>2. QED
    <3>1. Onward(prover, text, label, N, N, text', label', mode', L)
      BY <1>7, <1>10, <1>11, <1>12, <1>13, <1>15, <2>1 DEF Onward, Over
    <3>2. QED
      BY <1>14, <3>1, ShapeOn, Zenon
<1>17. QED
  BY <1>2, <1>11, <1>16 DEF ShapeInv
LEMMA EndingOn ==
  ASSUME NEW p, NEW t, NEW u, NEW e \in Nat, NEW a \in Nat, NEW b \in Nat, a <= b,
         \A k \in 1..a : u[k] = t[k], Ending(p, t, e, a)
  PROVE  Ending(p, u, e, b)
<1>1. CASE p = "rocq"
  <2>1. e + 2 <= a /\ t[e + 1] = "." /\ t[e + 2] = "nl"
    BY <1>1 DEF Ending
  <2>2. e + 1 \in 1..a /\ e + 2 \in 1..a
    BY <2>1
  <2>3. QED
    BY <1>1, <2>1, <2>2 DEF Ending
<1>2. CASE p = "lean4" /\ e + 1 <= a /\ t[e + 1] \in {":=", "where"}
  <2>1. e + 1 \in 1..a
    BY <1>2
  <2>2. QED
    BY <1>2, <2>1 DEF Ending
<1>3. CASE p = "lean4" /\ e + 4 <= a /\ t[e + 1] = "nl" /\ t[e + 2] = "|" /\ t[e + 3] = "w" /\ t[e + 4] = "=>"
  <2>1. e + 1 \in 1..a /\ e + 2 \in 1..a /\ e + 3 \in 1..a /\ e + 4 \in 1..a
    BY <1>3
  <2>2. QED
    BY <1>3, <2>1 DEF Ending
<1>4. CASE p \notin {"rocq", "lean4"} /\ e + 1 <= a /\ t[e + 1] = "by"
  <2>1. e + 1 \in 1..a
    BY <1>4
  <2>2. QED
    BY <1>4, <2>1 DEF Ending
<1>5. CASE p \notin {"rocq", "lean4"} /\ e + 2 <= a /\ t[e + 1] = ".." /\ t[e + 2] = "nl"
  <2>1. e + 1 \in 1..a /\ e + 2 \in 1..a
    BY <1>5
  <2>2. QED
    BY <1>5, <2>1 DEF Ending
<1>6. QED
  BY <1>1, <1>2, <1>3, <1>4, <1>5 DEF Ending

\* The proof goes on, and then comes a command.
LEMMA ProofGrows ==
  ASSUME TextInv, ShapeInv, WriteProof
  PROVE  ShapeInv'
<1>0. kit' = kit /\ mode.part = "proof" /\ ModeOK(mode)
  BY DEF WriteProof, Writing, Type, TextInv
<1>1. SUFFICES ASSUME Quiet PROVE ShapeInv'
  BY <1>0, QuietKept DEF ShapeInv
<1>2. prover \in DOMAIN Syntax /\ prover' = prover
  BY <1>0, <1>1 DEF Quiet, Syntax, prover
<1>3. PICK tok \in {"w", "nl"} : Type(tok)
  BY DEF WriteProof
<1> DEFINE N == Len(text)
<1> DEFINE L == Len(text')
<1>4. /\ N \in Nat /\ L = N + 1
      /\ \A k \in 1..N : text'[k] = text[k] /\ label'[k] = label[k]
      /\ text'[N + 1] = tok /\ label'[N + 1] = Means(mode, tok)
      /\ mode' = Lexed(mode, tok)
  BY <1>3, Typed
<1>5. PICK e, a : Shape(prover, text, label, mode, e, a)
  BY <1>1, Zenon DEF ShapeInv
<1>6. e \in 2..N /\ a = N /\ InCode(mode) /\ Ending(prover, text, e, N)
  BY <1>0, <1>5 DEF Shape, Over
<1>7. mode'.part = "proof" /\ InCode(mode') /\ label'[N + 1].part = "proof" /\ label'[N + 1].lex = "code"
  BY <1>0, <1>2, <1>3, <1>4, <1>6, LexedPart
<1>8. \A k \in (N + 1)..L : /\ label'[k].part = PartOf(k, e, L) /\ label'[k].lex = "code"
                            /\ ~Command(prover, text'[k], label'[k])
  <2>1. \A k \in (N + 1)..L : k = N + 1
    BY <1>4
  <2>2. PartOf(N + 1, e, L) = "proof"
    BY <1>4, <1>6 DEF PartOf
  <2>3. \A l : ~Command(prover, tok, l)
    BY <1>3 DEF Commands, Command
  <2>4. QED
    BY <1>4, <1>7, <2>1, <2>2, <2>3
<1>9. \A k \in 1..N : PartOf(k, e, L) = PartOf(k, e, N)
  BY <1>4, <1>6 DEF PartOf
<1>10. Ending(prover, text', e, L)
  <2>1. e \in Nat /\ L \in Nat /\ N <= L
    BY <1>4, <1>6
  <2> HIDE DEF N, L
  <2>2. QED
    BY <1>4, <1>6, <2>1, EndingOn
<1>11. Shape(prover, text, label, mode, e, N)
  BY <1>5, <1>6
<1>12. L \in e..L /\ N <= L /\ L + 2 > N /\ N + 2 > N /\ L \in Nat /\ L > N
  BY <1>4, <1>6
<1>13. Shape(prover, text', label', mode', e, L)
  <2>1. Onward(prover, text, label, e, N, text', label', mode', L)
    BY <1>4, <1>7, <1>8, <1>9, <1>10, <1>12 DEF Onward, Over
  <2>2. QED
    BY <1>11, <2>1, ShapeOn, Zenon
<1>14. QED
  BY <1>2, <1>7, <1>13 DEF ShapeInv

LEMMA CommandFollows ==
  ASSUME TextInv, ShapeInv, NextCommand
  PROVE  ShapeInv'
<1>0. /\ kit' = kit /\ ModeOK(mode) /\ InCode(mode)
      /\ mode.part = "proof" \/ (mode.part = "stmt" /\ prover = "isabelle")
      /\ mode' = [mode EXCEPT !.part = "after"]
      /\ \E next \in {<<"nl", "kw", "w">>, <<"nl", "cmd", "w">>} : Phrase(next, "after")
  BY DEF NextCommand, Writing, TextInv
<1>1. SUFFICES ASSUME Quiet PROVE ShapeInv'
  BY <1>0, QuietKept DEF ShapeInv
<1>2. prover' = prover
  BY <1>0 DEF prover
<1>3. PICK next \in {<<"nl", "kw", "w">>, <<"nl", "cmd", "w">>} : Phrase(next, "after")
  BY <1>0
<1>4. /\ next \in Seq(Tokens) /\ Len(next) = 3
      /\ next[1] = "nl" /\ next[2] \in {"kw", "cmd"} /\ next[3] = "w"
  <2>1. {"nl", "kw", "cmd", "w"} \subseteq Tokens
    BY DEF Tokens
  <2>2. CASE next = <<"nl", "kw", "w">>
    BY <2>1, <2>2
  <2>3. CASE next = <<"nl", "cmd", "w">>
    BY <2>1, <2>3
  <2>4. QED
    BY <2>2, <2>3
<1>5. Added(next, "after")
  BY <1>3, <1>4, Phrased, Zenon
<1> DEFINE N == Len(text)
<1> DEFINE L == Len(text')
<1>6. /\ N \in Nat /\ L = N + 3
      /\ \A k \in 1..N : text'[k] = text[k] /\ label'[k] = label[k]
      /\ \A j \in 1..3 : /\ text'[N + j] = next[j]
                         /\ label'[N + j].lex = "code" /\ label'[N + j].part = "after"
  BY <1>4, <1>5 DEF Added
<1>7. PICK e, a : Shape(prover, text, label, mode, e, a)
  BY <1>1, Zenon DEF ShapeInv
<1>8. /\ e \in 2..N /\ a = N
      /\ Ending(prover, text, e, N) \/ (prover = "isabelle" /\ N = e)
  BY <1>0, <1>7 DEF Shape, Over
<1>9. mode'.part = "after" /\ InCode(mode')
  BY <1>0 DEF ModeOK, Modes, InCode
<1>10. ASSUME NEW k \in (N + 1)..L
       PROVE  /\ label'[k].part = PartOf(k, e, N) /\ label'[k].lex = "code"
              /\ k # N + 2 => ~Command(prover, text'[k], label'[k])
  <2>1. k - N \in 1..3 /\ k = N + (k - N)
    BY <1>6
  <2>2. label'[k].part = "after" /\ label'[k].lex = "code" /\ text'[k] = next[k - N]
    BY <1>6, <2>1
  <2>3. PartOf(k, e, N) = "after"
    BY <1>6, <1>8 DEF PartOf
  <2>4. k # N + 2 => k - N = 1 \/ k - N = 3
    BY <2>1
  <2>5. k # N + 2 => ~Command(prover, text'[k], label'[k])
    BY <1>4, <2>2, <2>4 DEF Commands, Command
  <2>6. QED
    BY <2>2, <2>3, <2>5
<1>11. Over(prover, text', mode', e, N)
  <2>1. e \in Nat /\ N \in Nat /\ N <= N
    BY <1>6, <1>8
  <2> HIDE DEF N
  <2>2. Ending(prover, text, e, N) => Ending(prover, text', e, N)
    BY <1>6, <2>1, EndingOn
  <2>3. QED
    BY <1>8, <1>9, <2>2 DEF Over
<1>12. Shape(prover, text, label, mode, e, N)
  BY <1>7, <1>8
<1>13. /\ N \in e..L /\ N <= N /\ N + 2 > N /\ L \in Nat /\ L > N
       /\ L = N + 3 /\ text'[N + 1] = "nl" /\ text'[N + 2] \in {"kw", "cmd"}
  BY <1>4, <1>6, <1>8
<1>14. Shape(prover, text', label', mode', e, N)
  <2>1. Onward(prover, text, label, e, N, text', label', mode', N)
    BY <1>6, <1>9, <1>10, <1>11, <1>13 DEF Onward
  <2>2. QED
    BY <1>12, <2>1, ShapeOn, Zenon
<1>15. QED
  BY <1>2, <1>9, <1>14 DEF ShapeInv

LEMMA InitShaped == ASSUME Init PROVE ShapeInv
<1>1. SUFFICES ASSUME Quiet PROVE ShapeInv
  BY DEF ShapeInv
<1>2. /\ text = <<"kw", "f">> /\ mode = Code
      /\ label = [k \in DOMAIN text |-> [lex |-> "code", part |-> "head"]]
  BY <1>1 DEF Init, Quiet
<1>3. Len(text) = 2 /\ text[1] = "kw" /\ text[2] = "f" /\ DOMAIN text = 1..2
  BY <1>2
<1>4. \A k \in 1..2 : label[k].part = "head" /\ label[k].lex = "code"
  BY <1>2, <1>3
<1>5. \A k \in 1..2 : PartOf(k, 2, 2) = "head" /\ (k # 1 => ~Command(prover, text[k], label[k]))
  BY <1>3 DEF PartOf, Commands, Command
<1>6. mode.part = "stmt"
  BY <1>2 DEF Code
<1>7. Shape(prover, text, label, mode, 2, 2)
  BY <1>3, <1>4, <1>5, <1>6 DEF Shape
<1>8. QED
  BY <1>6, <1>7 DEF ShapeInv

\* The parts of every declaration lie one after the other.
THEOREM StatementsShaped == Spec => []ShapeInv
<1>1. ASSUME TextInv, ShapeInv, [Next]_vars PROVE ShapeInv'
  <2>1. CASE WriteInside \/ WriteStatement \/ WriteLet
    BY <1>1, <2>1, StatementGrows
  <2>2. CASE EndStatement
    BY <1>1, <2>2, StatementEnds
  <2>3. CASE WriteProof
    BY <1>1, <2>3, ProofGrows
  <2>4. CASE NextCommand
    BY <1>1, <2>4, CommandFollows
  <2>5. CASE Write \/ OpenScope \/ DeclareLocale \/ CloseScope \/ Declare \/ DeclareIn \/ WriteProse
    <3>1. kit' = kit /\ kit.job # "statement"
      <4>1. kit.job = "lex" \/ kit.job = "scope"
        BY <2>5, Zenon DEF Write, OpenScope, DeclareLocale, CloseScope, Declare, DeclareIn, WriteProse, Scoping
      <4>2. kit' = kit
        BY <2>5, Zenon DEF Write, Type, OpenScope, DeclareLocale, CloseScope, Declare, DeclareIn, WriteProse
      <4>3. QED
        BY <4>1, <4>2
    <3>2. ~Quiet'
      BY <3>1, QuietKept DEF Quiet
    <3>3. QED
      BY <3>2, Zenon DEF ShapeInv
  <2>6. CASE UNCHANGED vars
    BY <1>1, <2>6 DEF ShapeInv, Quiet, vars, prover
  <2>7. QED
    BY <1>1, <2>1, <2>2, <2>3, <2>4, <2>5, <2>6 DEF Next
<1>2. ASSUME TextRead, ShapeInv, [Next]_vars PROVE ShapeInv'
  <2>1. CASE Quiet
    BY <1>1, <1>2, <2>1 DEF TextRead, Quiet
  <2>2. CASE ~Quiet
    BY <1>2, <2>2, KitKept, QuietKept DEF ShapeInv
  <2>3. QED
    BY <2>1, <2>2
<1>3. QED
  BY <1>2, TextsRead, InitShaped, PTL DEF Spec
-----------------------------------------------------------------------------
(* Rocq's sentence.                                                        *)

\* No period stands in the code of the statement, and no quote in a comment.
SaidRocq(tok, l) ==
  /\ tok # "esc"
  /\ l.lex = "code" => tok # "."
  /\ l.lex = "comment" => tok # "str"
RocqInv ==
  Quiet /\ prover = "rocq" =>
    /\ ~mode.line
    /\ \A k \in 1..Len(text) : label[k].part = "stmt" => SaidRocq(text[k], label[k])

LEMMA LineNever ==
  ASSUME NEW m, ModeOK(m), ~m.line, NEW tok, tok # None, prover = "rocq"
  PROVE  ~Lexed(m, tok).line
<1> DEFINE x == Syntax[prover]
<1>1. x.line = None /\ m \in Modes
  BY DEF Syntax, ModeOK
<1>2. CASE m.string
  BY <1>1, <1>2 DEF Lexed, Modes
<1>3. CASE ~m.string /\ m.comment > 0
  BY <1>1, <1>3 DEF Lexed, Modes
<1>4. CASE ~m.string /\ ~(m.comment > 0) /\ m.cartouche > 0
  BY <1>1, <1>4 DEF Lexed, Modes
<1>5. CASE ~m.string /\ ~(m.comment > 0) /\ ~(m.cartouche > 0)
  BY <1>1, <1>5 DEF Lexed, Modes
<1>6. QED
  BY <1>2, <1>3, <1>4, <1>5

LEMMA InitRocq == ASSUME Init PROVE RocqInv
<1>1. SUFFICES ASSUME Quiet PROVE ~mode.line /\ \A k \in 1..Len(text) : label[k].part # "stmt"
  BY DEF RocqInv
<1>2. /\ text = <<"kw", "f">> /\ mode = Code
      /\ label = [k \in DOMAIN text |-> [lex |-> "code", part |-> "head"]]
  BY <1>1 DEF Init, Quiet
<1>3. Len(text) = 2 /\ DOMAIN text = 1..2
  BY <1>2
<1>4. \A k \in 1..2 : label[k].part = "head"
  BY <1>2, <1>3
<1>5. QED
  BY <1>2, <1>3, <1>4 DEF Code

LEMMA RocqTyped ==
  ASSUME TextInv, RocqInv, NEW tok \in Tokens, Type(tok), Quiet, prover = "rocq",
         mode.part = "stmt" => SaidRocq(tok, Means(mode, tok))
  PROVE  RocqInv'
<1>1. /\ Len(text) \in Nat /\ Len(text') = Len(text) + 1
      /\ \A k \in 1..Len(text) : text'[k] = text[k] /\ label'[k] = label[k]
      /\ text'[Len(text) + 1] = tok /\ label'[Len(text) + 1] = Means(mode, tok)
      /\ mode' = Lexed(mode, tok) /\ kit' = kit
  BY Typed
<1>2. ~mode'.line
  BY <1>1, RealTokens, LineNever DEF RocqInv, TextInv
<1>3. Means(mode, tok).part = mode.part
  BY DEF Means
<1> DEFINE name == Means(mode, tok)
<1> HIDE DEF name
<1>4. ASSUME NEW k \in 1..Len(text'), label'[k].part = "stmt" PROVE SaidRocq(text'[k], label'[k])
  <2>1. CASE k \in 1..Len(text)
    BY <1>1, <1>4, <2>1 DEF RocqInv
  <2>2. CASE k \notin 1..Len(text)
    <3>1. k = Len(text) + 1
      BY <1>1, <2>2
    <3>2. QED
      BY <1>1, <1>3, <1>4, <3>1
  <2>3. QED
    BY <2>1, <2>2
<1>5. QED
  BY <1>2, <1>4 DEF RocqInv

LEMMA RocqPhrased ==
  ASSUME TextInv, RocqInv, Quiet, prover = "rocq", kit' = kit, mode'.line = mode.line,
         NEW toks \in Seq(Tokens), NEW part, Phrase(toks, part),
         \A j \in 1..Len(toks) : part = "stmt" => toks[j] \notin {"esc", "."}
  PROVE  RocqInv'
<1>1. Added(toks, part)
  BY Phrased, Zenon
<1>2. ASSUME NEW k \in 1..Len(text'), label'[k].part = "stmt" PROVE SaidRocq(text'[k], label'[k])
  <2>1. CASE k \in 1..Len(text)
    BY <1>1, <1>2, <2>1 DEF RocqInv, Added
  <2>2. CASE k \notin 1..Len(text)
    <3>1. k - Len(text) \in 1..Len(toks) /\ k = Len(text) + (k - Len(text))
      BY <1>1, <2>2 DEF Added
    <3>2. text'[k] = toks[k - Len(text)] /\ label'[k].lex = "code" /\ part = "stmt"
      BY <1>1, <1>2, <3>1 DEF Added
    <3>3. QED
      BY <3>1, <3>2 DEF SaidRocq
  <2>3. QED
    BY <2>1, <2>2
<1>3. QED
  BY <1>2 DEF RocqInv

LEMMA RocqStep ==
  ASSUME TextInv, RocqInv, Next
  PROVE  RocqInv'
<1>0. kit' = kit /\ kit \in Kits /\ ModeOK(mode)
  BY Zenon DEF TextInv, Next, Write, WriteInside, WriteStatement, WriteLet, EndStatement, WriteProof,
               NextCommand, Type, OpenScope, DeclareLocale, CloseScope, Declare, DeclareIn, WriteProse
<1>1. SUFFICES ASSUME Quiet, prover = "rocq" PROVE RocqInv'
  BY <1>0, QuietKept DEF RocqInv, prover
<1>2. kit.tokens \subseteq Tokens /\ kit.job = "statement" /\ "esc" \notin kit.tokens
  BY <1>0, <1>1 DEF Tokens, Quiet
<1>3. \A tok \in Tokens : tok # None
  BY RealTokens
<1>4. CASE WriteInside
  <2>1. PICK tok \in kit.tokens : Type(tok) /\ (mode.comment > 0 => tok # "str") /\ ~InCode(mode)
    BY <1>1, <1>4 DEF WriteInside
  <2>2. ~mode.line
    BY <1>1 DEF RocqInv
  <2>3. SaidRocq(tok, Means(mode, tok))
    <3>1. tok # "esc"
      BY <1>2
    <3>2. Means(mode, tok).lex # "code"
      BY <2>1 DEF Means
    <3>3. Means(mode, tok).lex = "comment" => tok # "str"
      <4>1. CASE mode.string
        BY <4>1 DEF Means
      <4>2. CASE ~mode.string /\ mode.cartouche > 0
        BY <4>2 DEF Means
      <4>3. CASE ~mode.string /\ ~(mode.cartouche > 0)
        BY <1>0, <2>1, <2>2, <4>3 DEF InCode, ModeOK, Modes
      <4>4. QED
        BY <4>1, <4>2, <4>3
    <3>4. QED
      BY <3>1, <3>2, <3>3 DEF SaidRocq
  <2>4. QED
    BY <1>1, <1>2, <2>1, <2>3, RocqTyped
<1>5. CASE WriteStatement
  <2>1. PICK tok \in kit.tokens : Type(tok) /\ tok # "." /\ InCode(mode)
    BY <1>5 DEF WriteStatement
  <2>2. SaidRocq(tok, Means(mode, tok))
    <3>1. tok # "esc" /\ tok # None
      BY <1>2, <1>3
    <3>2. ~mode.string /\ ~(mode.cartouche > 0)
      BY <1>0, <2>1 DEF InCode, ModeOK, Modes
    <3>3. Means(mode, tok).lex = "comment" => tok # "str"
      BY <1>1, <2>1, <3>1, <3>2 DEF Means, Syntax
    <3>4. QED
      BY <2>1, <3>1, <3>3 DEF SaidRocq
  <2>3. QED
    BY <1>1, <1>2, <2>1, <2>2, RocqTyped
<1>6. CASE WriteProof
  <2>1. PICK tok \in {"w", "nl"} : Type(tok) /\ mode.part = "proof"
    BY <1>6 DEF WriteProof, Writing
  <2>2. tok \in Tokens
    BY DEF Tokens
  <2>3. QED
    BY <1>1, <2>1, <2>2, RocqTyped
<1>7. CASE WriteLet
  <2>1. Phrase(<<"let", "w", ":=">>, "stmt") /\ mode'.line = mode.line
    BY <1>7 DEF WriteLet
  <2> DEFINE toks == <<"let", "w", ":=">>
  <2>2. toks \in Seq(Tokens) /\ Len(toks) = 3 /\ \A j \in 1..3 : toks[j] \notin {"esc", "."}
    BY DEF Tokens
  <2> HIDE DEF toks
  <2>3. Phrase(toks, "stmt")
    BY <2>1 DEF toks
  <2>4. \A j \in 1..Len(toks) : "stmt" = "stmt" => toks[j] \notin {"esc", "."}
    BY <2>2
  <2>5. QED
    BY <1>0, <1>1, <2>1, <2>2, <2>3, <2>4, RocqPhrased, Zenon
<1>8. CASE EndStatement
  <2>1. Phrase(<<".", "nl">>, "proof") /\ mode' = [mode EXCEPT !.part = "proof"]
    BY <1>1, <1>8 DEF EndStatement, Ends
  <2>2. mode'.line = mode.line
    BY <1>0, <2>1 DEF ModeOK, Modes
  <2>3. <<".", "nl">> \in Seq(Tokens)
    BY DEF Tokens
  <2>4. \A j \in 1..Len(<<".", "nl">>) : "proof" = "stmt" => <<".", "nl">>[j] \notin {"esc", "."}
    OBVIOUS
  <2>5. QED
    BY <1>0, <1>1, <2>1, <2>2, <2>3, <2>4, RocqPhrased, Zenon
<1>9. CASE NextCommand
  <2>1. PICK next \in {<<"nl", "kw", "w">>, <<"nl", "cmd", "w">>} : Phrase(next, "after")
    BY <1>9 DEF NextCommand
  <2>2. mode'.line = mode.line
    BY <1>0, <1>9 DEF NextCommand, ModeOK, Modes
  <2>3. next \in Seq(Tokens)
    <3>1. {"nl", "kw", "cmd", "w"} \subseteq Tokens
      BY DEF Tokens
    <3>2. <<"nl", "kw", "w">> \in Seq(Tokens) /\ <<"nl", "cmd", "w">> \in Seq(Tokens)
      BY <3>1
    <3>3. QED
      BY <3>2
  <2>4. \A j \in 1..Len(next) : "after" = "stmt" => next[j] \notin {"esc", "."}
    OBVIOUS
  <2>5. QED
    BY <1>0, <1>1, <2>1, <2>2, <2>3, <2>4, RocqPhrased, Zenon
<1>10. CASE Write \/ OpenScope \/ DeclareLocale \/ CloseScope \/ Declare \/ DeclareIn \/ WriteProse
  <2>1. kit.job = "lex" \/ kit.job = "scope"
    BY <1>10, Zenon DEF Write, OpenScope, DeclareLocale, CloseScope, Declare, DeclareIn, WriteProse, Scoping
  <2>2. QED
    BY <1>2, <2>1
<1>11. QED
  BY <1>4, <1>5, <1>6, <1>7, <1>8, <1>9, <1>10 DEF Next

\* No period of Rocq's statement is code, and none of its comments holds a quote.
THEOREM RocqSaid == Spec => []RocqInv
<1>1. ASSUME RocqInv, UNCHANGED vars PROVE RocqInv'
  BY <1>1 DEF RocqInv, Quiet, vars, prover
<1>2. ASSUME TextRead, RocqInv, Next PROVE RocqInv'
  <2>1. CASE Quiet
    BY <1>2, <2>1, RocqStep DEF TextRead, Quiet
  <2>2. CASE ~Quiet
    BY <1>2, <2>2, KitKept, QuietKept DEF RocqInv
  <2>3. QED
    BY <2>1, <2>2
<1>3. QED
  BY <1>1, <1>2, TextsRead, InitRocq, PTL DEF Spec
-----------------------------------------------------------------------------
(* The sentence that extract_statement takes.                              *)

States == [string : BOOLEAN, depth : Nat]
Out == [string |-> FALSE, depth |-> 0]
InStep(t, k, w) ==
  [string |-> (t[k] = "str" /\ w.depth = 0) # w.string,
   depth  |-> IF ~w.string /\ t[k] = "(*" THEN w.depth + 1
              ELSE IF t[k] = "*)" /\ w.depth > 0 THEN w.depth - 1
              ELSE w.depth]
Stops(t, from, in) ==
  {k \in from + 1..Len(t) : t[k] = "." /\ in[k] = Out /\ (k = Len(t) \/ t[k + 1] \in Space)}

LEMMA InStepIn ==
  ASSUME NEW t, NEW k, NEW w \in States
  PROVE  InStep(t, k, w) \in States
<1> DEFINE s == (t[k] = "str" /\ w.depth = 0) # w.string
<1> DEFINE n == IF ~w.string /\ t[k] = "(*" THEN w.depth + 1
                ELSE IF t[k] = "*)" /\ w.depth > 0 THEN w.depth - 1
                ELSE w.depth
<1>1. s \in BOOLEAN
  OBVIOUS
<1>2. n \in Nat
  BY DEF States
<1>3. InStep(t, k, w) = [string |-> s, depth |-> n]
  BY Zenon DEF InStep
<1> HIDE DEF s, n
<1>4. QED
  BY <1>1, <1>2, <1>3 DEF States

LEMMA SentenceDef ==
  ASSUME NEW t \in Seq(Tokens), NEW from \in 1..Len(t)
  PROVE  \E in : /\ in[from] = Out
                 /\ \A k \in (from + 1)..Len(t) : in[k] = InStep(t, k, in[k - 1])
                 /\ SentenceEnds(t, from) = Stops(t, from, in)
<1> DEFINE N == Len(t)
<1> DEFINE step == [z \in States \X (from..N) |-> InStep(t, z[2], z[1])]
<1> DEFINE Is(f) == f = [k \in from..N |->
        IF k = from THEN [string |-> FALSE, depth |-> 0]
        ELSE LET w == f[k - 1]
             IN  [string |-> (t[k] = "str" /\ w.depth = 0) # w.string,
                  depth  |-> IF ~w.string /\ t[k] = "(*" THEN w.depth + 1
                             ELSE IF t[k] = "*)" /\ w.depth > 0 THEN w.depth - 1
                             ELSE w.depth]]
<1>0. N \in Nat /\ from \in Nat /\ from <= N
  OBVIOUS
<1>1. Out \in States
  <2> DEFINE no == FALSE
  <2>1. no \in BOOLEAN
    OBVIOUS
  <2>2. Out = [string |-> no, depth |-> 0]
    BY DEF Out
  <2> HIDE DEF no
  <2>3. QED
    BY <2>1, <2>2 DEF States
<1>2. step \in [States \X (from..N) -> States]
  <2>1. \A z \in States \X (from..N) : InStep(t, z[2], z[1]) \in States
    BY InStepIn
  <2>2. QED
    BY <2>1
<1>3. \A w \in States, k \in from..N : step[<<w, k>>] = InStep(t, k, w)
  <2>1. QED
    OBVIOUS
<1> HIDE DEF step, N
<1>4. PICK e : e \in [from..N -> States] /\ Steps(e, from, N, Out, step)
  BY <1>0, <1>1, <1>2, StepDef, Zenon
<1>5. ASSUME NEW k \in from..N PROVE e[k] = IF k = from THEN Out ELSE InStep(t, k, e[k - 1])
  <2>1. e[k] = IF k = from THEN Out ELSE step[<<e[k - 1], k>>]
    BY <1>4, Zenon DEF Steps
  <2>2. k # from => k - 1 \in from..N
    BY <1>0
  <2>3. k # from => e[k - 1] \in States
    BY <1>4, <2>2
  <2>4. k # from => step[<<e[k - 1], k>>] = InStep(t, k, e[k - 1])
    BY <1>3, <2>3, Zenon
  <2>5. QED
    BY <2>1, <2>4, Zenon
<1>6. Is(e)
  <2>1. e = [k \in from..N |-> e[k]]
    BY <1>4
  <2>2. QED
    BY <1>5, <2>1, Zenon DEF Out, InStep
<1> DEFINE in == CHOOSE f : Is(f)
<1>7. Is(in)
  <2> HIDE DEF Is
  <2>1. QED
    BY <1>6, Zenon
<1>8. SentenceEnds(t, from) = Stops(t, from, in)
  BY SMT DEF SentenceEnds, N, Stops, Out
<1> HIDE DEF in
<1>9. \A k \in from..N : in[k] = IF k = from THEN Out ELSE InStep(t, k, in[k - 1])
  BY <1>7, Zenon DEF Out, InStep
<1>11. in[from] = Out /\ \A k \in (from + 1)..N : in[k] = InStep(t, k, in[k - 1])
  BY <1>0, <1>9
<1>12. QED
  BY <1>8, <1>11 DEF N
\* The sentence is read as the lexer reads it, as long as no backslash stands in
\* it and no quote in its comments.
Followed(in, w, d, q, k) ==
  /\ w[k] \in {"code", "string", "comment"}
  /\ w[k] = "code" => in[k] = Out
  /\ w[k] = "string" => in[k] = [string |-> TRUE, depth |-> 0] /\ q[k] = FALSE
  /\ w[k] = "comment" => in[k] = [string |-> FALSE, depth |-> d[k]] /\ d[k] \in Nat \ {0}

LEMMA FollowStep ==
  ASSUME NEW t, NEW k \in Nat, NEW w, NEW d, NEW q, NEW in, Followed(in, w, d, q, k - 1),
         Turn(Syntax["rocq"], w, d, q, t, k), in[k] = InStep(t, k, in[k - 1]),
         t[k] # None, t[k] # "esc", w[k - 1] = "comment" => t[k] # "str"
  PROVE  Followed(in, w, d, q, k)
<1> DEFINE x == Syntax["rocq"]
<1>1. x.open = "(*" /\ x.close = "*)" /\ x.line = None /\ x.vopen = None
  BY DEF Syntax
<1>2. Turn(x, w, d, q, t, k)
  OBVIOUS
<1> HIDE DEF x
<1> DEFINE o == in[k - 1]
<1>3. in[k] = [string |-> (t[k] = "str" /\ o.depth = 0) # o.string,
               depth  |-> IF ~o.string /\ t[k] = "(*" THEN o.depth + 1
                          ELSE IF t[k] = "*)" /\ o.depth > 0 THEN o.depth - 1
                          ELSE o.depth]
  BY Zenon DEF InStep
<1>4. /\ w[k - 1] = "code" => o.string = FALSE /\ o.depth = 0
      /\ w[k - 1] = "string" => o.string = TRUE /\ o.depth = 0
      /\ w[k - 1] = "comment" => o.string = FALSE /\ o.depth = d[k - 1]
  BY DEF Followed, Out
<1> HIDE DEF o
<1> DEFINE s == (t[k] = "str" /\ o.depth = 0) # o.string
<1> DEFINE n == IF ~o.string /\ t[k] = "(*" THEN o.depth + 1
                ELSE IF t[k] = "*)" /\ o.depth > 0 THEN o.depth - 1
                ELSE o.depth
<1>9. ASSUME NEW a, NEW m, s = a, n = m PROVE in[k] = [string |-> a, depth |-> m]
  <2>1. in[k] = [string |-> s, depth |-> n]
    BY <1>3
  <2> HIDE DEF s, n
  <2>2. QED
    BY <1>9, <2>1
<1>5. CASE w[k - 1] = "code"
  <2>1. /\ w[k] = IF t[k] = "(*" THEN "comment" ELSE IF t[k] = "str" THEN "string" ELSE "code"
        /\ d[k] = 1 /\ q[k] = FALSE
    BY <1>1, <1>2, <1>5 DEF Turn
  <2>2. o.string = FALSE
    BY <1>4, <1>5
  <2>9. o.depth = 0
    BY <1>4, <1>5
  <2>8. ~o.string
    BY <2>2, Zenon
  <2>3. CASE t[k] = "(*"
    <3>1. in[k] = [string |-> FALSE, depth |-> 1]
      <4>1. s = FALSE
        BY <2>2, <2>3, <2>9
      <4>3. n = 1
        BY <2>3, <2>8, <2>9
      <4> HIDE DEF s, n
      <4>2. QED
        BY <1>9, <4>1, <4>3
    <3>2. QED
      BY <2>1, <2>3, <3>1 DEF Followed
  <2>4. CASE t[k] = "str"
    <3>1. in[k] = [string |-> TRUE, depth |-> 0]
      <4>1. s = TRUE
        BY <2>2, <2>4, <2>9
      <4>3. n = 0
        BY <2>4, <2>8, <2>9
      <4> HIDE DEF s, n
      <4>2. QED
        BY <1>9, <4>1, <4>3
    <3>2. QED
      BY <2>1, <2>4, <3>1 DEF Followed
  <2>5. CASE t[k] # "(*" /\ t[k] # "str"
    <3>1. in[k] = Out
      <4>1. s = FALSE
        BY <2>2, <2>5, <2>9
      <4>3. n = 0
        BY <2>5, <2>8, <2>9
      <4> HIDE DEF s, n
      <4>2. QED
        BY <1>9, <4>1, <4>3 DEF Out
    <3>2. QED
      BY <2>1, <2>5, <3>1 DEF Followed
  <2>6. QED
    BY <2>3, <2>4, <2>5
<1>6. CASE w[k - 1] = "string"
  <2>1. /\ w[k] = IF t[k] # "str" THEN "string" ELSE "code"
        /\ q[k] = FALSE
    <3>1. q[k - 1] = FALSE
      BY <1>6 DEF Followed
    <3>2. QED
      BY <1>2, <1>6, <3>1 DEF Turn
  <2>2. o.string = TRUE
    BY <1>4, <1>6
  <2>9. o.depth = 0
    BY <1>4, <1>6
  <2>8. o.string
    BY <2>2, Zenon
  <2>3. CASE t[k] = "str"
    <3>1. in[k] = Out
      <4>1. s = FALSE
        BY <2>2, <2>3, <2>9
      <4>3. n = 0
        BY <2>3, <2>8, <2>9
      <4> HIDE DEF s, n
      <4>2. QED
        BY <1>9, <4>1, <4>3 DEF Out
    <3>2. QED
      BY <2>1, <2>3, <3>1 DEF Followed
  <2>4. CASE t[k] # "str"
    <3>1. in[k] = [string |-> TRUE, depth |-> 0]
      <4>1. s = TRUE
        BY <2>2, <2>4, <2>9
      <4>3. n = 0
        BY <2>4, <2>8, <2>9
      <4> HIDE DEF s, n
      <4>2. QED
        BY <1>9, <4>1, <4>3
    <3>2. QED
      BY <2>1, <2>4, <3>1 DEF Followed
  <2>5. QED
    BY <2>3, <2>4
<1>7. CASE w[k - 1] = "comment"
  <2>1. /\ d[k] = Up(d[k - 1], "(*", "*)", t[k])
        /\ w[k] = IF d[k] = 0 THEN "code" ELSE "comment"
    BY <1>1, <1>2, <1>7 DEF Turn
  <2>2. o.string = FALSE
    BY <1>4, <1>7 DEF Followed
  <2>9. o.depth = d[k - 1] /\ d[k - 1] \in Nat \ {0} /\ t[k] # "str"
    BY <1>4, <1>7 DEF Followed
  <2>8. ~o.string
    BY <2>2, Zenon
  <2>3. d[k] \in Nat
    BY <2>1, <2>9 DEF Up
  <2>4. in[k] = [string |-> FALSE, depth |-> d[k]]
    <3>1. CASE t[k] = "(*"
      <4>1. s = FALSE
        BY <2>1, <2>2, <3>1, <2>9
      <4>3. n = d[k]
        BY <2>1, <3>1, <2>8, <2>9 DEF Up
      <4> HIDE DEF s, n
      <4>2. QED
        BY <1>9, <4>1, <4>3
    <3>2. CASE t[k] = "*)"
      <4>1. s = FALSE
        BY <2>1, <2>2, <3>2, <2>9
      <4>3. n = d[k]
        BY <2>1, <3>2, <2>8, <2>9 DEF Up
      <4> HIDE DEF s, n
      <4>2. QED
        BY <1>9, <4>1, <4>3
    <3>3. CASE t[k] # "(*" /\ t[k] # "*)"
      <4>1. s = FALSE
        BY <2>1, <2>2, <3>3, <2>9
      <4>3. n = d[k]
        BY <2>1, <3>3, <2>8, <2>9 DEF Up
      <4> HIDE DEF s, n
      <4>2. QED
        BY <1>9, <4>1, <4>3
    <3>4. QED
      BY <3>1, <3>2, <3>3
  <2>5. CASE d[k] = 0
    BY <2>1, <2>4, <2>5 DEF Followed, Out
  <2>6. CASE d[k] # 0
    BY <2>1, <2>3, <2>4, <2>6 DEF Followed
  <2>7. QED
    BY <2>5, <2>6
<1>8. QED
  BY <1>5, <1>6, <1>7 DEF Followed

\* What the author's statement is, for the sentence, and where it stops.
Sentenced(t, w, e) ==
  /\ e \in 2..Len(t)
  /\ t[1] = "kw" /\ t[2] = "f"
  /\ \A k \in 3..e : /\ t[k] # "esc"
                     /\ w[k - 1] = "comment" => t[k] # "str"
                     /\ w[k - 1] = "code" => t[k] # "."

Stopped(t, w, e) ==
  /\ e + 1 <= Len(t) /\ t[e + 1] = "." /\ (e + 1 = Len(t) \/ t[e + 2] = "nl")
  /\ w[e] = "code"

LEMMA SentenceIs ==
  ASSUME NEW t \in Seq(Tokens), NEW w, NEW d, NEW q, Track(Syntax["rocq"], w, d, q, t),
         NEW e, Sentenced(t, w, e)
  PROVE  /\ e = Len(t) => Sentence(t, 1, SentenceEnds(t, 2)) = NoStatement
         /\ Stopped(t, w, e) => Sentence(t, 1, SentenceEnds(t, 2)) = SubSeq(t, 1, e + 1)
<1> DEFINE N == Len(t)
<1> DEFINE x == Syntax["rocq"]
<1>0. N \in Nat /\ e \in 2..N /\ \A k \in 1..N : t[k] # None
  BY RealTokens DEF Sentenced
<1>1. PICK in : /\ in[2] = Out
                /\ \A k \in 3..N : in[k] = InStep(t, k, in[k - 1])
                /\ SentenceEnds(t, 2) = Stops(t, 2, in)
  <2>1. 2 \in 1..Len(t) /\ 2 + 1 = 3
    BY <1>0
  <2>2. QED
    BY <2>1, SentenceDef
<1>2. \A k \in 1..N : Turn(x, w, d, q, t, k)
  BY DEF Track
<1>3. w[1] = "code" /\ w[2] = "code"
  <2>1. w[0] = "code" /\ t[1] = "kw" /\ t[2] = "f"
    BY DEF Track, Sentenced
  <2>2. x.open = "(*" /\ x.line = None /\ x.vopen = None
    BY DEF Syntax
  <2> HIDE DEF x
  <2>3. w[1] = "code"
    <3>1. Turn(x, w, d, q, t, 1)
      BY <1>0, <1>2
    <3>2. QED
      BY <2>1, <2>2, <3>1 DEF Turn, None
  <2>4. w[2] = "code"
    <3>1. Turn(x, w, d, q, t, 2)
      BY <1>0, <1>2
    <3>2. QED
      BY <2>1, <2>2, <2>3, <3>1 DEF Turn, None
  <2>5. QED
    BY <2>3, <2>4
<1>4. Followed(in, w, d, q, 2)
  BY <1>1, <1>3 DEF Followed, Out
<1> HIDE DEF N, x
<1> DEFINE Bad == {k \in 2..e : ~Followed(in, w, d, q, k)}
<1>5. ASSUME Bad # {} PROVE FALSE
  <2>1. PICK m \in Bad : \A k \in Bad : m <= k
    <3>1. Bad \in SUBSET Nat
      BY <1>0
    <3> HIDE DEF Bad
    <3>2. QED
      BY <1>5, <3>1, LeastNat
  <2>2. m \in 2..e /\ ~Followed(in, w, d, q, m)
    OBVIOUS
  <2>3. m # 2
    BY <1>4, <2>2
  <2>4. m \in 3..e /\ m - 1 \in 2..e /\ ~(m <= m - 1) /\ m \in 1..N /\ m \in 3..N /\ m \in Nat
    BY <1>0, <2>2, <2>3
  <2>5. Followed(in, w, d, q, m - 1)
    <3>1. m - 1 \notin Bad
      <4> HIDE DEF Bad
      <4>1. QED
        BY <2>1, <2>4
    <3>2. QED
      BY <2>4, <3>1
  <2>6. t[m] # "esc" /\ (w[m - 1] = "comment" => t[m] # "str")
    BY <2>4 DEF Sentenced
  <2>7. Turn(Syntax["rocq"], w, d, q, t, m)
    BY <1>2, <2>4 DEF x
  <2>8. t[m] # None /\ in[m] = InStep(t, m, in[m - 1])
    BY <1>0, <1>1, <2>4
  <2> HIDE DEF Bad
  <2>9. QED
    BY <2>2, <2>4, <2>5, <2>6, <2>7, <2>8, FollowStep
<1>6. \A k \in 2..e : Followed(in, w, d, q, k)
  BY <1>5
<1>7. ASSUME Stopped(t, w, e) PROVE in[e + 1] = Out /\ t[e + 1] = "."
  <2>1. w[e] = "code" /\ t[e + 1] = "."
    BY <1>7 DEF Stopped
  <2>2. in[e] = [string |-> FALSE, depth |-> 0]
    <3>1. e \in 2..e
      BY <1>0
    <3>2. QED
      BY <1>6, <2>1, <3>1 DEF Followed, Out
  <2>3. e + 1 \in 3..N /\ (e + 1) - 1 = e
    BY <1>0, <1>7 DEF Stopped, N
  <2>4. in[e + 1] = InStep(t, e + 1, in[e])
    BY <1>1, <2>3
  <2>5. InStep(t, e + 1, in[e]) = Out
    <3>1. in[e].string = FALSE /\ in[e].depth = 0
      BY <2>2
    <3>2. ((t[e + 1] = "str" /\ in[e].depth = 0) # in[e].string) = FALSE
      BY <2>1, <3>1
    <3>3. QED
      BY <2>1, <3>1, <3>2 DEF InStep, Out
  <2>6. QED
    BY <2>1, <2>4, <2>5
<1>8. ASSUME NEW k \in 3..e, t[k] = ".", in[k] = Out PROVE FALSE
  <2>1. k \in 2..e /\ k - 1 \in 2..e /\ k \in 1..N
    BY <1>0
  <2>2. Followed(in, w, d, q, k) /\ Followed(in, w, d, q, k - 1)
    BY <1>6, <2>1
  <2>3. in[k].string = FALSE /\ in[k].depth = 0
    BY <1>8 DEF Out
  <2>7. w[k] # "comment" /\ w[k] # "string"
    BY <2>2, <2>3 DEF Followed
  <2>8. w[k - 1] # "code" /\ w[k - 1] \in {"code", "string", "comment"}
    BY <1>8, <2>2 DEF Sentenced, Followed
  <2>9. CASE w[k - 1] = "string"
    BY <1>2, <1>8, <2>1, <2>7, <2>9 DEF Turn
  <2>10. CASE w[k - 1] = "comment"
    <3>1. d[k - 1] \in Nat \ {0}
      BY <2>2, <2>10 DEF Followed
    <3>2. Up(d[k - 1], x.open, x.close, t[k]) = d[k - 1]
      BY <1>8 DEF Up, x, Syntax
    <3>3. QED
      BY <1>2, <2>1, <2>7, <2>10, <3>1, <3>2 DEF Turn
  <2>11. QED
    BY <2>8, <2>9, <2>10
<1> DEFINE S == SentenceEnds(t, 2)
<1>9. S \in SUBSET Nat /\ \A k \in S : k \in (e + 1)..N
  <2>1. S = Stops(t, 2, in)
    BY <1>1
  <2> HIDE DEF S
  <2>2. ASSUME NEW k \in S PROVE k \in (e + 1)..N
    <3>1. k \in 3..N /\ t[k] = "." /\ in[k] = Out
      BY <2>1 DEF Stops, N
    <3>2. ~(k \in 3..e)
      BY <1>8, <3>1
    <3>3. QED
      BY <1>0, <3>1, <3>2
  <2>3. \A k \in S : k \in Nat
    BY <1>0, <2>2
  <2>4. QED
    BY <2>2, <2>3
<1>10. ASSUME Stopped(t, w, e) PROVE e + 1 \in S
  <2>1. e + 1 \in 3..N /\ (e + 1) + 1 = e + 2
    BY <1>0, <1>10 DEF Stopped, N
  <2>2. e + 1 = N \/ t[e + 2] \in Space
    BY <1>10 DEF Stopped, Space, N
  <2>3. QED
    BY <1>1, <1>7, <1>10, <2>1, <2>2 DEF Stops, N
<1> HIDE DEF S
<1>11. ASSUME Stopped(t, w, e) PROVE Min(S) = e + 1
  <2>1. e + 1 \in S
    BY <1>10, <1>11
  <2>2. Min(S) \in S /\ \A k \in S : Min(S) <= k
    BY <1>9, <2>1, MinIs
  <2>3. Min(S) \in (e + 1)..N /\ Min(S) <= e + 1
    BY <1>9, <2>1, <2>2
  <2>4. QED
    BY <1>0, <2>3
<1>12. e = N => S = {}
  BY <1>0, <1>9
<1>13. Stopped(t, w, e) => S # {}
  BY <1>10
<1>14. QED
  BY <1>11, <1>12, <1>13 DEF Sentence, S, N

\* A line that begins with no white space.
LEMMA FirstHere ==
  ASSUME NEW t \in Seq(Tokens), NEW s \in 1..Len(t), t[s] \notin Space
  PROVE  First(t, s) = s /\ FirstToken(t, s) = t[s] /\ ~IsBlank(t, s)
<1>1. Len(t) \in Nat /\ t[s] # "sp" /\ t[s] # "nl"
  BY DEF Space
<1> DEFINE f == First(t, s)
<1> DEFINE z == LineEnd(t, s)
<1>2. z \in s..(Len(t) + 1) /\ (z = Len(t) + 1 \/ t[z] = "nl")
  BY LineDef
<1>3. /\ f \in s..z /\ \A k \in s..(f - 1) : t[k] = "sp"
      /\ ~IsBlank(t, s) => FirstToken(t, s) = t[f]
      /\ \A k \in s..(z - 1) : t[k] # "sp" => ~IsBlank(t, s)
  BY FirstIs
<1> HIDE DEF f, z
<1>4. z # s
  BY <1>1, <1>2
<1>5. s \in s..(z - 1)
  BY <1>2, <1>4
<1>6. ~IsBlank(t, s)
  BY <1>1, <1>3, <1>5
<1>7. f = s
  <2>1. f \in Nat /\ f >= s
    BY <1>2, <1>3
  <2>2. ~(s \in s..(f - 1))
    BY <1>1, <1>3
  <2>3. QED
    BY <2>1, <2>2
<1>8. QED
  BY <1>3, <1>6, <1>7 DEF f

\* The declaration is the first one, and its name is on its line.
LEMMA FirstTwo ==
  ASSUME NEW t \in Seq(Tokens), Len(t) >= 1, t[1] = "kw"
  PROVE  1 \in LineStarts(t) /\ First(t, 1) = 1 /\ FirstToken(t, 1) = "kw"
<1>1. 1 \in 1..Len(t) /\ Len(t) \in Nat /\ t[1] \notin Space
  BY DEF Space
<1>2. 1 \in LineStarts(t)
  BY <1>1 DEF LineStarts
<1>3. QED
  BY <1>1, <1>2, FirstHere

LEMMA Located ==
  ASSUME NEW t \in Seq(Tokens), Len(t) >= 2, t[1] = "kw", t[2] = "f"
  PROVE  Locate(t, "f") # {} /\ Min(Locate(t, "f")) = 1 /\ NameEnd(t, 1) = 2
<1>0. Len(t) \in Nat /\ 1 \in LineStarts(t) /\ First(t, 1) = 1 /\ FirstToken(t, 1) = "kw"
  BY FirstTwo
<1> DEFINE later == {k \in 2..Len(t) : t[k] \notin Space}
<1>1. later \in SUBSET Nat /\ 2 \in later /\ \A k \in later : 2 <= k
  BY DEF Space
<1>2. Min(later) = 2
  <2> HIDE DEF later
  <2>1. Min(later) \in later /\ Min(later) <= 2
    BY <1>1, MinIs
  <2>2. Min(later) \in Nat /\ 2 <= Min(later)
    BY <1>1, <2>1
  <2>3. QED
    BY <2>1, <2>2
<1>3. NameEnd(t, 1) = 2
  <2>1. {j \in 1 + 1..Len(t) : t[j] \notin Space} = later
    OBVIOUS
  <2> HIDE DEF later
  <2>2. QED
    BY <1>2, <2>1 DEF NameEnd
<1>4. NextToken(t, 1) = "f"
  <2>1. {k \in 1 + 1..Len(t) : t[k] \notin Space} = later
    OBVIOUS
  <2> HIDE DEF later
  <2>2. NextToken(t, 1) = IF later = {} THEN None ELSE t[Min(later)]
    BY <2>1, Zenon DEF NextToken
  <2>3. QED
    BY <1>1, <1>2, <2>2
<1> HIDE DEF later
<1> DEFINE L == {s \in LineStarts(t) : FirstToken(t, s) = "kw" /\ NextToken(t, First(t, s)) = "f"}
<1> DEFINE P == {First(t, s) : s \in L}
<1>5. Locate(t, "f") = P
  BY Zenon DEF Locate
<1>6. 1 \in P
  <2>1. 1 \in L
    BY <1>0, <1>4
  <2> HIDE DEF L
  <2>2. QED
    BY <1>0, <2>1
<1>7. P \in SUBSET Nat /\ \A k \in P : 1 <= k
  <2>1. ASSUME NEW s \in L PROVE First(t, s) \in Nat /\ 1 <= First(t, s)
    <3>1. s \in 1..Len(t)
      BY DEF LineStarts
    <3>2. First(t, s) \in s..LineEnd(t, s) /\ LineEnd(t, s) \in s..(Len(t) + 1)
      BY <3>1, FirstIs, LineDef
    <3>3. QED
      BY <1>0, <3>1, <3>2
  <2> HIDE DEF L
  <2>2. QED
    BY <2>1
<1> HIDE DEF P
<1>8. Min(P) = 1
  <2>1. Min(P) \in P /\ Min(P) <= 1
    BY <1>6, <1>7, MinIs
  <2>2. Min(P) \in Nat /\ 1 <= Min(P)
    BY <1>7, <2>1
  <2>3. QED
    BY <2>1, <2>2
<1>9. QED
  BY <1>3, <1>5, <1>6, <1>8

LEMMA TrackPrefix ==
  ASSUME NEW t \in Seq(Tokens), NEW x, NEW w, NEW d, NEW q, Track(x, w, d, q, t),
         NEW n \in 0..Len(t)
  PROVE  Track(x, w, d, q, SubSeq(t, 1, n))
<1> DEFINE u == SubSeq(t, 1, n)
<1>1. Len(u) = n /\ \A k \in 1..n : u[k] = t[k] /\ k \in 1..Len(t)
  OBVIOUS
<1> HIDE DEF u
<1>2. ASSUME NEW k \in 1..n PROVE Turn(x, w, d, q, u, k)
  <2>1. Turn(x, w, d, q, t, k) /\ u[k] = t[k]
    BY <1>1 DEF Track
  <2>2. QED
    BY <2>1 DEF Turn
<1>3. Track(x, w, d, q, u)
  BY <1>1, <1>2 DEF Track
<1>4. QED
  BY <1>3 DEF u

LEMMA RewordedSelf ==
  ASSUME NEW t \in Seq(Tokens)
  PROVE  Reworded(t, t)
BY DEF Reworded

\* White space leaves the walk where it is.
LEMMA WalkSpace ==
  ASSUME NEW t \in Seq(Tokens), NEW s \in 1..Len(t), NEW f \in s..(Len(t) + 1),
         \A k \in s..(f - 1) : t[k] \in Space
  PROVE  Outside(Walk(t)[f - 1]) <=> Outside(Walk(t)[s - 1])
<1> DEFINE W == Walk(t)
<1> DEFINE Bad == {k \in s..f : ~(Outside(W[k - 1]) <=> Outside(W[s - 1]))}
<1>0. Walked(W, t) /\ Len(t) \in Nat
  BY WalkDef
<1> HIDE DEF W
<1>1. SUFFICES ASSUME Bad # {} PROVE FALSE
  <2>1. f \in s..f
    BY <1>0
  <2>2. Bad = {} => (Outside(W[f - 1]) <=> Outside(W[s - 1]))
    BY <2>1
  <2>3. QED
    BY <2>2 DEF W
<1>2. PICK m \in Bad : \A k \in Bad : m <= k
  <2>1. Bad \in SUBSET Nat
    OBVIOUS
  <2> HIDE DEF Bad
  <2>2. QED
    BY <1>1, <2>1, LeastNat
<1>3. m \in s..f /\ ~(Outside(W[m - 1]) <=> Outside(W[s - 1]))
  OBVIOUS
<1>4. m # s
  BY <1>3
<1>5. m - 1 \in s..(f - 1) /\ m - 1 \in s..f /\ m - 1 \in 1..Len(t) /\ ~(m <= m - 1)
  BY <1>0, <1>3, <1>4
<1>6. Outside(W[(m - 1) - 1]) <=> Outside(W[s - 1])
  <2>1. m - 1 \notin Bad
    <3> HIDE DEF Bad
    <3>1. QED
      BY <1>2, <1>5
  <2>2. QED
    BY <1>5, <2>1
<1> DEFINE j == m - 1
<1>7. j \in 1..Len(t) /\ t[j] \in Space
  BY <1>5
<1> HIDE DEF j
<1>8. W[j] = WalkStep(t, j, W[j - 1]) /\ t[j] \notin {"str", "<o>", "<c>"}
  BY <1>0, <1>7 DEF Walked, Space
<1> DEFINE w == W[j - 1]
<1> HIDE DEF w
<1>9. Outside(WalkStep(t, j, w)) <=> Outside(w)
  <2>1. CASE w.quote
    <3> DEFINE quote == w.skip \/ t[j] # "str"
    <3> DEFINE skip == Skips(t, j, w)
    <3>1. quote
      BY <1>8
    <3>2. WalkStep(t, j, w) = [w EXCEPT !.quote = quote, !.skip = skip]
      BY <2>1 DEF WalkStep
    <3> HIDE DEF quote, skip
    <3>3. QED
      BY <2>1, <3>1, <3>2 DEF Outside
  <2>2. CASE ~w.quote
    <3> DEFINE opened == w.depth = 0 /\ t[j] = "str"
    <3>1. ~opened
      BY <1>8
    <3>2. WalkStep(t, j, w) = [quote |-> opened, skip |-> FALSE, depth |-> w.depth]
      BY <1>8, <2>2 DEF WalkStep
    <3> HIDE DEF opened
    <3>3. QED
      BY <2>2, <3>1, <3>2 DEF Outside
  <2>3. QED
    BY <2>1, <2>2
<1>10. QED
  BY <1>3, <1>6, <1>8, <1>9 DEF j, w

\* Isabelle's walk over a text with other words, or its beginning, knows the code
\* from what stands in strings and cartouches.
LEMMA IsaWalks ==
  ASSUME TextInv, kit.job = "statement", prover = "isabelle",
         NEW r, Reworded(text, r), NEW z \in 0..Len(text),
         NEW C, C = Meant("comment"), NEW v, v = SubSeq(r, 1, z), NEW b, b = Blank(v, C)
  PROVE  /\ \A k \in 1..z : k \notin C => (label[k].lex = "code" <=> Outside(Walk(b)[k - 1]))
         /\ (\A k \in 1..Len(text) : text[k] # "<m>") => BlankIsabelleComments(v) = b
<1> DEFINE x == Syntax["isabelle"]
<1>1. text \in Seq(Tokens) /\ r \in Seq(Tokens) /\ Len(r) = Len(text) /\ Len(text) \in Nat
  BY DEF TextInv, Reworded
<1>2. PICK w, d, q : Tracked(x, kit.job, text, mode, label, w, d, q)
  <2>1. \E w, d, q : Tracked(Syntax[prover], kit.job, text, mode, label, w, d, q)
    BY Zenon DEF TextInv
  <2>2. QED
    BY <2>1
<1>3. x.open = "(*" /\ x.line = None /\ "isabelle" \in DOMAIN Syntax
  BY DEF Syntax
<1>19. x = Syntax["isabelle"]
  OBVIOUS
<1> HIDE DEF x
<1>4. Track(x, w, d, q, text) /\ \A k \in 1..Len(text) : Named(x, kit.job, w, text, k, label[k].lex)
  BY <1>2, Zenon DEF Tracked
<1>5. \A k \in 1..Len(text) : k \in C <=> Commented(x, w, text, k)
  BY <1>4, CommentedMeant, Zenon
<1>6. /\ Track(x, w, d, q, r)
      /\ \A k \in 1..Len(text) : Commented(x, w, r, k) <=> Commented(x, w, text, k)
  BY <1>1, <1>3, <1>4, <1>19, RewordedTrack, Zenon
<1>7. z \in 0..Len(r)
  BY <1>1
<1>8. Track(x, w, d, q, v)
  BY <1>1, <1>6, <1>7, TrackPrefix, Zenon
<1>9. v \in Seq(Tokens) /\ Len(v) = z /\ \A k \in 1..z : v[k] = r[k] /\ k \in 1..Len(text)
  BY <1>1
<1>10. \A k \in 1..Len(v) : v[k] # None
  BY <1>9, RealTokens
<1>11. \A k \in 1..Len(v) : k \in C <=> Commented(x, w, v, k)
  <2>1. \A k \in 1..z : Commented(x, w, v, k) <=> Commented(x, w, r, k)
    BY <1>9 DEF Commented
  <2>2. QED
    BY <1>5, <1>6, <1>9, <2>1
<1>12. \A k \in 0..Len(v) : Agree(Walk(b), w, d, q, v, k) /\ w[k] \in Where
  BY <1>8, <1>9, <1>10, <1>11, <1>19, AgreeAll, Zenon
<1>13. ASSUME NEW k \in 1..z, k \notin C PROVE label[k].lex = "code" <=> Outside(Walk(b)[k - 1])
  <2>1. k - 1 \in 0..Len(v) /\ k \in 1..Len(text)
    BY <1>9
  <2> DEFINE W == Walk(b)[k - 1]
  <2>2. /\ W.quote <=> w[k - 1] = "string"
        /\ W.depth = IF w[k - 1] = "verbatim" THEN d[k - 1] ELSE 0
        /\ w[k - 1] = "verbatim" => d[k - 1] \in Nat /\ d[k - 1] > 0
        /\ w[k - 1] \in Where
    BY <1>12, <2>1, Zenon DEF Agree
  <2> HIDE DEF W
  <2>3. Outside(W) <=> w[k - 1] \notin {"string", "verbatim"}
    BY <2>2 DEF Outside
  <2>4. ~Commented(x, w, text, k)
    BY <1>5, <1>13, <2>1
  <2>5. label[k].lex = Meaning(x, w, text, k)
    <3>1. Named(x, kit.job, w, text, k, label[k].lex)
      BY <1>4, <2>1
    <3>2. QED
      BY <3>1 DEF Named
  <2>6. label[k].lex = "code" <=> w[k - 1] \notin {"string", "verbatim"}
    BY <2>2, <2>4, <2>5 DEF Meaning, Commented, Where
  <2>7. QED
    BY <2>3, <2>6 DEF W
<1>14. ASSUME \A k \in 1..Len(text) : text[k] # "<m>" PROVE BlankIsabelleComments(v) = b
  <2>1. \A k \in 1..Len(v) : v[k] # "<m>"
    BY <1>9, <1>14 DEF Reworded
  <2>2. \A k \in 1..Len(v) : ~Marked(w, v, 1, k)
    <3>1. \A k \in 1..Len(v) : \A m \in 1..k : m \in 1..Len(v)
      BY <1>9
    <3>2. QED
      BY <2>1, <3>1 DEF Marked, Mark
  <2>3. IsaTrack(v, w, d, q) /\ w[0] = "code"
    BY <1>8, <1>9, <1>10, <1>19, Zenon DEF IsaTrack, Track
  <2>4. \A k \in 1..Len(v) : v[k] # "nl" =>
          (k \in C <=> Commented(Syntax["isabelle"], w, v, k) \/ Marked(w, v, 1, k))
    BY <1>11, <1>19, <2>2
  <2>5. QED
    BY <2>3, <2>4, LeapsIs, Zenon
<1>15. QED
  BY <1>13, <1>14

\* A line of Isabelle that is not read from begins in a string or a cartouche.
LEMMA LineCode ==
  ASSUME TextInv, kit.job = "statement", prover = "isabelle",
         NEW b, b = Blank(text, Meant("comment")), NEW s \in LineStarts(b), ~IsBlank(b, s)
  PROVE  /\ Outside(Walk(b)[s - 1]) <=> label[First(b, s)].lex = "code"
         /\ s \notin Continuation(b, prover) => label[First(b, s)].lex = "code"
<1> DEFINE C == Meant("comment")
<1> DEFINE f == First(b, s)
<1>1. text \in Seq(Tokens) /\ Len(text) \in Nat
  BY DEF TextInv
<1>2. /\ b \in Seq(Tokens) /\ Len(b) = Len(text)
      /\ \A k \in 1..Len(text) : b[k] = IF k \in C /\ text[k] # "nl" THEN "sp" ELSE text[k]
  BY <1>1, BlankIs
<1>3. s \in 1..Len(b)
  BY DEF LineStarts
<1>4. /\ f \in s..LineEnd(b, s) /\ \A k \in s..(f - 1) : b[k] = "sp"
      /\ f \in 1..Len(b) /\ b[f] # "sp"
  BY <1>2, <1>3, FirstIs
<1>5. b[f] # "nl"
  <2> DEFINE n == LineEnd(b, s)
  <2>1. n \in s..(Len(b) + 1) /\ \A k \in s..(n - 1) : b[k] # "nl"
    BY <1>2, <1>3, LineDef
  <2>2. f # n /\ f \in s..n
    BY <1>4 DEF IsBlank
  <2> HIDE DEF f, n
  <2>3. f \in s..(n - 1)
    BY <1>3, <2>1, <2>2
  <2>4. QED
    BY <2>1, <2>3
<1> HIDE DEF f
<1>6. f \notin C /\ f \in s..(Len(b) + 1)
  BY <1>2, <1>3, <1>4, <1>5
<1>7. Outside(Walk(b)[f - 1]) <=> Outside(Walk(b)[s - 1])
  <2>1. \A k \in s..(f - 1) : b[k] \in Space
    BY <1>4 DEF Space
  <2>2. QED
    BY <1>2, <1>3, <1>6, <2>1, WalkSpace
<1>8. label[f].lex = "code" <=> Outside(Walk(b)[f - 1])
  <2>1. Reworded(text, text) /\ Len(text) \in 0..Len(text) /\ text = SubSeq(text, 1, Len(text))
    BY <1>1, RewordedSelf
  <2>2. f \in 1..Len(text)
    BY <1>2, <1>4
  <2>3. QED
    BY <1>6, <2>1, <2>2, IsaWalks
<1>9. s \notin Continuation(b, prover) => Outside(Walk(b)[s - 1])
  BY DEF Continuation
<1>10. QED
  BY <1>7, <1>8, <1>9 DEF f

\* A later line that reads like a command stands after the proof.
LEMMA CommandsLate ==
  ASSUME NEW p, NEW t \in Seq(Tokens), NEW l, NEW m, NEW e, NEW a, Shape(p, t, l, m, e, a),
         m.part \in {"stmt", "proof", "after"}, NEW C, NEW b, b = Blank(t, C),
         NEW s \in LineStarts(b), s > 1, FirstToken(b, s) \in Commands,
         p = "isabelle" => l[First(b, s)].lex = "code"
  PROVE  a + 2 <= s
<1> DEFINE f == First(b, s)
<1>1. /\ b \in Seq(Tokens) /\ Len(b) = Len(t) /\ Len(t) \in Nat
      /\ \A k \in 1..Len(t) : b[k] = IF k \in C /\ t[k] # "nl" THEN "sp" ELSE t[k]
  BY BlankIs
<1>2. s \in 1..Len(b) /\ s \in Nat
  BY <1>1 DEF LineStarts
<1>3. f \in 1..Len(b) /\ FirstToken(b, s) = b[f]
  <2>1. ~IsBlank(b, s)
    BY DEF FirstToken, Commands, None
  <2>2. QED
    BY <1>1, <1>2, <2>1, FirstIs
<1>4. s <= f /\ \A k \in s..(f - 1) : b[k] = "sp"
  BY <1>1, <1>2, FirstIs
<1>11. p = "isabelle" => l[f].lex = "code"
  OBVIOUS
<1> HIDE DEF f
<1>5. t[f] \in Commands /\ f # 1
  BY <1>1, <1>2, <1>3, <1>4 DEF Commands
<1>6. f = a + 2 /\ a \in Nat
  <2>1. Command(p, t[f], l[f])
    BY <1>5, <1>11 DEF Command
  <2>2. QED
    BY <1>1, <1>3, <1>5, <2>1 DEF Shape
<1>7. m.part = "after" /\ t[a + 1] = "nl" /\ a + 1 \in 1..Len(t)
  BY <1>1, <1>3, <1>6 DEF Shape
<1>8. b[a + 1] = "nl"
  BY <1>1, <1>7
<1>9. ~(a + 1 \in s..(f - 1))
  BY <1>4, <1>8
<1>10. QED
  BY <1>2, <1>4, <1>6, <1>9

LEMMA ChangedIs ==
  ASSUME TextInv, NEW k \in 1..Len(text), text[k] = "w"
  PROVE  /\ Reworded(text, Changed(k)) /\ Changed(k)[k] = "v"
         /\ \A j \in 1..Len(text) : j # k => Changed(k)[j] = text[j]
<1>1. text \in Seq(Tokens) /\ "v" \in Tokens
  BY DEF TextInv, Tokens
<1> DEFINE r == [text EXCEPT ![k] = "v"]
<1>2. r \in Seq(Tokens) /\ Len(r) = Len(text) /\ r[k] = "v"
      /\ \A j \in 1..Len(text) : j # k => r[j] = text[j]
  BY <1>1
<1>3. \A j \in 1..Len(text) : r[j] = text[j] \/ (text[j] = "w" /\ r[j] = "v")
  BY <1>2
<1>4. Changed(k) = r
  BY DEF Changed
<1> HIDE DEF r
<1>5. QED
  BY <1>1, <1>2, <1>3, <1>4 DEF Reworded

\* The comments of a text with other words are the same.
LEMMA ChangedBlanked ==
  ASSUME TextInv, NEW r, Reworded(text, r)
  PROVE  StripComments(r, Syntax[prover]) = Blank(r, Meant("comment"))
<1> DEFINE x == Syntax[prover]
<1> DEFINE C == Meant("comment")
<1>1. text \in Seq(Tokens) /\ r \in Seq(Tokens) /\ Len(r) = Len(text) /\ prover \in DOMAIN Syntax /\ x = Syntax[prover]
  BY KitsAssumption DEF TextInv, prover, Reworded
<1>2. PICK w, d, q : Tracked(x, kit.job, text, mode, label, w, d, q)
  BY Zenon DEF TextInv
<1>3. \A k \in 1..Len(r) : r[k] # None
  BY <1>1, RealTokens
<1>4. Track(x, w, d, q, text) /\ \A k \in 1..Len(text) : Named(x, kit.job, w, text, k, label[k].lex)
  BY <1>2, Zenon DEF Tracked
<1> HIDE DEF x
<1>5. \A k \in 1..Len(text) : k \in C <=> Commented(x, w, text, k)
  BY <1>4, CommentedMeant, Zenon
<1> HIDE DEF C
<1>6. /\ Track(x, w, d, q, r)
      /\ \A k \in 1..Len(text) : Commented(x, w, r, k) <=> Commented(x, w, text, k)
  BY <1>1, <1>4, RewordedTrack, Zenon
<1>7. \A k \in 1..Len(r) : r[k] # "nl" => (k \in C <=> Commented(x, w, r, k))
  BY <1>1, <1>5, <1>6
<1>8. StripComments(r, x) = Blank(r, C)
  BY <1>1, <1>3, <1>6, <1>7, StripIs, Zenon
<1>9. QED
  BY <1>8 DEF C, x

\* The span of the declaration, in the text and in the text with other words.
SpanTo(t, l, a, p, z) ==
  /\ z \in 0..Len(t) /\ SpanText(t, p) = SubSeq(t, 1, z)
  /\ z = Len(t) \/ t[z + 1] = "nl"
  /\ \A k \in 1..a : t[k] \notin Space /\ l[k].lex # "comment" => k <= z

LEMMA SpanIs ==
  ASSUME TextInv, Quiet, NEW e, NEW a, Shape(prover, text, label, mode, e, a),
         mode.part \in {"stmt", "proof", "after"}
  PROVE  \E z : /\ SpanTo(text, label, a, prover, z)
                /\ \A r : Reworded(text, r) => SpanText(r, prover) = SubSeq(r, 1, z)
<1> DEFINE C == Meant("comment")
<1> DEFINE b == Blank(text, C)
<1> DEFINE cont == Continuation(b, prover)
<1> DEFINE decls == DeclStarts(b, prover)
<1> DEFINE limit == Min((decls \ {1}) \cup {Len(b) + 1})
<1> DEFINE z == SpanEnd(b, 1, limit, cont)
<1>1. text \in Seq(Tokens) /\ Len(text) \in Nat /\ e \in 2..Len(text) /\ a \in e..Len(text)
      /\ Len(label) = Len(text)
  BY DEF TextInv, Shape
<1>2. /\ b \in Seq(Tokens) /\ Len(b) = Len(text)
      /\ \A k \in 1..Len(text) : b[k] = IF k \in C /\ text[k] # "nl" THEN "sp" ELSE text[k]
  BY <1>1, BlankIs
<1>3. \A k \in 1..Len(text) : k \in C <=> label[k].lex = "comment"
  BY <1>1 DEF Meant
<1>4. b[1] = "kw"
  <2>1. 1 \in 1..Len(text) /\ PartOf(1, e, a) = "head"
    BY <1>1 DEF PartOf
  <2>2. text[1] = "kw" /\ label[1].lex = "code"
    BY <2>1 DEF Shape
  <2>3. QED
    BY <1>2, <1>3, <2>1, <2>2
<1>5. StripComments(text, Syntax[prover]) = b
  BY TrackedBlanked DEF CommentsRead
<1>6. \A s \in LineStarts(b) : s > 1 /\ FirstToken(b, s) \in Commands /\ s \notin cont => a + 2 <= s
  <2>1. SUFFICES ASSUME NEW s \in LineStarts(b), s > 1, FirstToken(b, s) \in Commands, s \notin cont
                 PROVE  a + 2 <= s
    OBVIOUS
  <2>2. b = Blank(text, Meant("comment")) /\ ~IsBlank(b, s)
    BY <2>1 DEF FirstToken, Commands, None
  <2>3. s \notin Continuation(b, prover)
    BY <2>1
  <2> HIDE DEF b, cont, C
  <2>4. prover = "isabelle" => label[First(b, s)].lex = "code"
    BY <2>1, <2>2, <2>3, LineCode DEF Quiet
  <2>5. QED
    BY <1>1, <2>1, <2>2, <2>4, CommandsLate
<1> HIDE DEF C
<1>7. \A r : Reworded(text, r) => /\ StripComments(r, Syntax[prover]) = Blank(r, C)
                                  /\ Reworded(b, Blank(r, C))
  BY ChangedBlanked, RewordedBlank, Zenon DEF C
<1> HIDE DEF b
<1>8. 1 \notin cont
  <2>1. Walk(b)[0] = [quote |-> FALSE, depth |-> 0, skip |-> FALSE]
    BY <1>2, WalkDef DEF Walked
  <2>2. Outside(Walk(b)[1 - 1])
    BY <2>1 DEF Outside
  <2>3. QED
    BY <2>2 DEF Continuation
<1>9. 1 \in decls /\ \A s \in decls : s \in 1..Len(b) /\ (s > 1 => a + 2 <= s)
  <2>1. 1 \in LineStarts(b) /\ FirstToken(b, 1) = "kw"
    BY <1>1, <1>2, <1>4, FirstTwo
  <2>2. decls = {s \in LineStarts(b) : IsDecl(b, s)} \ cont
    BY DEF DeclStarts
  <2>3. LineStarts(b) \subseteq 1..Len(b)
    BY DEF LineStarts
  <2>4. \A s \in decls : s \in LineStarts(b) /\ FirstToken(b, s) \in Commands /\ s \notin cont
    BY <2>2 DEF IsDecl, Commands
  <2>5. 1 \in decls
    BY <1>8, <2>1, <2>2 DEF IsDecl
  <2> HIDE DEF decls
  <2>6. QED
    BY <1>6, <2>3, <2>4, <2>5
<1> HIDE DEF cont, decls
<1>10. Min(decls) = 1
  <2>1. decls \in SUBSET Nat
    BY <1>9
  <2>2. Min(decls) \in decls /\ Min(decls) <= 1
    BY <1>9, <2>1, MinIs
  <2>3. Min(decls) \in 1..Len(b)
    BY <1>9, <2>2
  <2>4. QED
    BY <1>1, <1>2, <2>2, <2>3
<1>11. limit \in Nat /\ a + 1 <= limit
  <2> DEFINE T == (decls \ {1}) \cup {Len(b) + 1}
  <2>1. \A s \in T : s \in Nat /\ a + 1 <= s
    <3>1. \A s \in decls \ {1} : s \in Nat /\ a + 2 <= s
      BY <1>9
    <3>2. QED
      BY <1>1, <1>2, <3>1
  <2>2. Len(b) + 1 \in T
    OBVIOUS
  <2>3. limit = Min(T)
    OBVIOUS
  <2> HIDE DEF T, limit
  <2>4. T \in SUBSET Nat
    BY <2>1
  <2>5. Min(T) \in T
    BY <2>2, <2>4, MinIs
  <2>6. QED
    BY <2>1, <2>3, <2>5
<1>12. ASSUME NEW r, NEW c, StripComments(r, Syntax[prover]) = c, Len(c) = Len(b),
              DeclStarts(c, prover) = decls, Continuation(c, prover) = cont,
              SpanEnd(c, 1, limit, cont) = z
       PROVE  SpanText(r, prover) = SubSeq(r, 1, z)
  <2>1. SpanText(r, prover) = FirstSpan(r, c, decls, cont)
    BY <1>12, Zenon DEF SpanText, SpanIn
  <2>2. FirstSpan(r, c, decls, cont) =
          SubSeq(r, Min(decls), SpanEnd(c, Min(decls), Min((decls \ {Min(decls)}) \cup {Len(c) + 1}), cont))
    BY Zenon DEF FirstSpan
  <2>3. QED
    BY <1>10, <1>12, <2>1, <2>2
<1> HIDE DEF limit
<1>13. SpanText(text, prover) = SubSeq(text, 1, z)
  <2>1. DeclStarts(b, prover) = decls /\ Continuation(b, prover) = cont /\ SpanEnd(b, 1, limit, cont) = z
    BY DEF decls, cont
  <2> HIDE DEF z
  <2>2. QED
    BY <1>5, <1>12, <2>1, Zenon
<1>14. ASSUME NEW r, Reworded(text, r) PROVE SpanText(r, prover) = SubSeq(r, 1, z)
  <2> DEFINE c == Blank(r, C)
  <2>1. StripComments(r, Syntax[prover]) = c /\ Reworded(b, c)
    BY <1>7, <1>14
  <2> HIDE DEF c
  <2>2. /\ Continuation(c, prover) = cont
        /\ DeclStarts(c, prover) = decls
        /\ SpanEnd(c, 1, limit, cont) = z
    <3>1. Len(b) >= 1
      BY <1>1, <1>2
    <3>2. QED
      BY <1>11, <2>1, <3>1, RewordedSpan DEF cont, decls
  <2>3. Len(c) = Len(b)
    BY <2>1 DEF Reworded
  <2> HIDE DEF z
  <2>4. QED
    BY <1>12, <2>1, <2>2, <2>3, Zenon
<1>15. /\ z \in 0..Len(b) /\ \A k \in 1..Len(b) : b[k] \notin Space /\ k < a + 1 => k <= z
       /\ z = Len(b) \/ b[z + 1] = "nl"
  <2>1. \A s \in LineStarts(b) : /\ s > 1 /\ s < limit /\ ~IsBlank(b, s)
                                 /\ ~InBody(b, 1, s, cont) /\ FirstToken(b, s) \in Trailers
                                 => a + 1 <= s
    <3>1. \A s \in LineStarts(b) : s \in Nat
      BY DEF LineStarts
    <3>2. \A tok \in Trailers : tok \in Commands
      BY DEF Trailers, Commands
    <3>4. \A s \in LineStarts(b) : ~InBody(b, 1, s, cont) => s \notin cont
      BY DEF InBody
    <3>3. QED
      BY <1>1, <1>6, <3>1, <3>2, <3>4
  <2>2. Len(b) >= 1 /\ a + 1 \in Nat
    BY <1>1, <1>2
  <2>3. QED
    BY <1>2, <1>11, <2>1, <2>2, SpanHolds
<1> HIDE DEF z
<1>16. \A k \in 1..a : text[k] \notin Space /\ label[k].lex # "comment" => k <= z
  <2> SUFFICES ASSUME NEW k \in 1..a, text[k] \notin Space, label[k].lex # "comment" PROVE k <= z
    OBVIOUS
  <2>1. k \in 1..Len(text) /\ k < a + 1
    BY <1>1
  <2>2. b[k] = text[k]
    BY <1>2, <1>3, <2>1
  <2>3. QED
    BY <1>2, <1>15, <2>1, <2>2
<1>19. z = Len(text) \/ text[z + 1] = "nl"
  <2>1. z # Len(text) => z + 1 \in 1..Len(text)
    BY <1>1, <1>2, <1>15
  <2>2. QED
    BY <1>2, <1>15, <2>1
<1>17. SpanTo(text, label, a, prover, z)
  BY <1>2, <1>13, <1>15, <1>16, <1>19 DEF SpanTo
<1>18. QED
  BY <1>14, <1>17
-----------------------------------------------------------------------------
(* The verdict.                                                            *)

LEMMA PartsIs ==
  ASSUME NEW e \in Nat, NEW a \in Nat, NEW k \in Nat, e <= a
  PROVE  /\ PartOf(k, e, a) = "stmt" => k \in 3..e
         /\ PartOf(k, e, a) \in {"proof", "after"} => k > e
BY DEF PartOf

\* A changed word in both the span and the statement, if there is one, is seen.
Cut(k, from, to) ==
  \/ from = NoStatement
  \/ \E X, Y : \E n \in k..Len(X) : /\ Reworded(X, Y) /\ X[k] = "w" /\ Y[k] = "v"
                                   /\ from = SubSeq(X, 1, n) /\ to = SubSeq(Y, 1, n)
LEMMA VerdictSeen ==
  ASSUME NEW U, NEW V, Reworded(U, V), NEW k \in 1..Len(U), U[k] = "w", V[k] = "v",
         NEW from, NEW to, Cut(k, from, to)
  PROVE  Compared(U, V, from, to) # "unchanged"
<1>1. Normalized(U) # Normalized(V)
  BY WordSeen, Zenon
<1>2. CASE from = NoStatement
  BY <1>1, <1>2 DEF Compared
<1>3. CASE from # NoStatement
  <2>1. PICK X, Y : \E n \in k..Len(X) : /\ Reworded(X, Y) /\ X[k] = "w" /\ Y[k] = "v"
                                       /\ from = SubSeq(X, 1, n) /\ to = SubSeq(Y, 1, n)
    BY <1>3 DEF Cut
  <2>7. PICK n \in k..Len(X) : /\ Reworded(X, Y) /\ X[k] = "w" /\ Y[k] = "v"
                              /\ from = SubSeq(X, 1, n) /\ to = SubSeq(Y, 1, n)
    BY <2>1
  <2>2. n \in 0..Len(X) /\ k \in 1..n
    BY <2>7 DEF Reworded
  <2> DEFINE P == SubSeq(X, 1, n)
  <2> DEFINE Q == SubSeq(Y, 1, n)
  <2>3. Reworded(P, Q) /\ Len(P) = n /\ P[k] = "w" /\ Q[k] = "v"
    BY <2>2, <2>7, RewordedPrefix
  <2>4. from = P /\ to = Q
    BY <2>7
  <2> HIDE DEF P, Q
  <2>5. Normalized(P) # Normalized(Q)
    BY <2>2, <2>3, WordSeen
  <2>6. QED
    BY <1>1, <2>4, <2>5 DEF Compared
<1>4. QED
  BY <1>2, <1>3

\* The same statement before and after.
LEMMA VerdictSame ==
  ASSUME NEW U, NEW V, NEW X, NEW Y, Reworded(X, Y), NEW n \in 1..Len(X), \A j \in 1..n : Y[j] = X[j]
  PROVE  Compared(U, V, SubSeq(X, 1, n), SubSeq(Y, 1, n)) = "unchanged"
<1> DEFINE P == SubSeq(X, 1, n)
<1> DEFINE Q == SubSeq(Y, 1, n)
<1>1. /\ P \in Seq(Tokens) /\ Q \in Seq(Tokens) /\ Len(P) = n /\ Len(Q) = n
      /\ \A j \in 1..n : P[j] = X[j] /\ Q[j] = Y[j]
  <2>1. n \in 0..Len(X)
    OBVIOUS
  <2>2. Reworded(P, Q) /\ Len(P) = n /\ \A j \in 1..n : P[j] = X[j] /\ Q[j] = Y[j]
    BY <2>1, RewordedPrefix
  <2> HIDE DEF P, Q
  <2>3. QED
    BY <2>2 DEF Reworded
<1> HIDE DEF P, Q
<1>2. P = Q /\ P # NoStatement
  <2>1. \A j \in 1..n : P[j] = Q[j]
    BY <1>1
  <2>2. P = Q
    BY <1>1, <2>1
  <2>3. Len(NoStatement) = 0 /\ n # 0
    BY DEF NoStatement
  <2>4. QED
    BY <1>1, <2>2, <2>3
<1>3. QED
  BY <1>2 DEF Compared, P, Q

\* Rocq's extractor.
LEMMA RocqStatementIs ==
  ASSUME NEW t \in Seq(Tokens), NEW w, NEW d, NEW q, Track(Syntax["rocq"], w, d, q, t),
         NEW e, Sentenced(t, w, e)
  PROVE  /\ e = Len(t) => ExtractStatement(t, "f", "rocq") = NoStatement
         /\ Stopped(t, w, e) => ExtractStatement(t, "f", "rocq") = SubSeq(t, 1, e + 1)
<1>1. Len(t) >= 2 /\ t[1] = "kw" /\ t[2] = "f"
  BY DEF Sentenced
<1>2. Locate(t, "f") # {} /\ Min(Locate(t, "f")) = 1 /\ NameEnd(t, 1) = 2
  BY <1>1, Located
<1>3. ExtractStatement(t, "f", "rocq") = RocqStatement(t, "f")
  BY DEF ExtractStatement
<1>4. RocqStatement(t, "f") = Sentence(t, 1, SentenceEnds(t, 2))
  BY <1>2 DEF RocqStatement
<1>5. QED
  BY <1>3, <1>4, SentenceIs

LEMMA SentencedSame ==
  ASSUME NEW t, NEW r, Reworded(t, r), NEW w, NEW e
  PROVE  /\ Sentenced(t, w, e) => Sentenced(r, w, e)
         /\ Sentenced(t, w, e) /\ Stopped(t, w, e) => Stopped(r, w, e)
<1>1. Len(r) = Len(t) /\ Len(t) \in Nat
  BY DEF Reworded
<1>2. \A c \in {"kw", "f", "esc", "str", ".", "nl"} : \A j \in 1..Len(t) : r[j] = c <=> t[j] = c
  BY RewordedTokens
<1>3. ASSUME Sentenced(t, w, e) PROVE Sentenced(r, w, e)
  <2>1. e \in 2..Len(t) /\ 1 \in 1..Len(t) /\ 2 \in 1..Len(t) /\ \A k \in 3..e : k \in 1..Len(t)
    BY <1>1, <1>3 DEF Sentenced
  <2>2. r[1] = "kw" /\ r[2] = "f"
    BY <1>2, <1>3, <2>1 DEF Sentenced
  <2>3. ASSUME NEW k \in 3..e
        PROVE  /\ r[k] # "esc"
               /\ w[k - 1] = "comment" => r[k] # "str"
               /\ w[k - 1] = "code" => r[k] # "."
    BY <1>2, <1>3, <2>1 DEF Sentenced
  <2>4. QED
    BY <1>1, <2>1, <2>2, <2>3 DEF Sentenced
<1>4. ASSUME Sentenced(t, w, e), Stopped(t, w, e) PROVE Stopped(r, w, e)
  <2>1. e \in Nat /\ e + 1 \in 1..Len(t) /\ (e + 1 = Len(t) \/ e + 2 \in 1..Len(t))
    BY <1>1, <1>4 DEF Sentenced, Stopped
  <2>2. QED
    BY <1>1, <1>2, <1>4, <2>1 DEF Stopped
<1>5. QED
  BY <1>3, <1>4
\* The statement of a Rocq text, in a span that holds it.
LEMMA RocqReads ==
  ASSUME TextInv, RocqInv, Quiet, prover = "rocq",
         NEW e, NEW a, Shape(prover, text, label, mode, e, a),
         mode.part \in {"stmt", "proof", "after"}, NEW z, SpanTo(text, label, a, prover, z)
  PROVE  \E w, d, q, n :
           /\ Track(Syntax["rocq"], w, d, q, SubSeq(text, 1, z))
           /\ Sentenced(SubSeq(text, 1, z), w, n)
           /\ mode.part = "stmt" => n = z
           /\ mode.part # "stmt" => n = e /\ e + 1 <= z /\ text[e + 1] = "."
                                    /\ Stopped(SubSeq(text, 1, z), w, n)
<1> DEFINE x == Syntax["rocq"]
<1> DEFINE u == SubSeq(text, 1, z)
<1>1. /\ text \in Seq(Tokens) /\ Len(text) \in Nat /\ e \in 2..Len(text) /\ a \in e..Len(text)
      /\ z \in 0..Len(text) /\ kit.job = "statement"
  BY DEF TextInv, Shape, SpanTo, Quiet
<1>2. PICK w, d, q : Tracked(x, kit.job, text, mode, label, w, d, q)
  <2>1. \E w, d, q : Tracked(Syntax[prover], kit.job, text, mode, label, w, d, q)
    BY Zenon DEF TextInv
  <2>2. Syntax[prover] = x
    OBVIOUS
  <2> HIDE DEF x
  <2>3. QED
    BY <2>1, <2>2
<1>3. x.open = "(*" /\ x.line = None
  BY DEF Syntax
<1> HIDE DEF x
<1>4. /\ Track(x, w, d, q, text)
      /\ \A k \in 1..Len(text) : label[k].lex = Meaning(x, w, text, k)
  <2>1. Track(x, w, d, q, text) /\ \A k \in 1..Len(text) : Named(x, kit.job, w, text, k, label[k].lex)
    BY <1>2, Zenon DEF Tracked
  <2>2. QED
    BY <1>1, <2>1 DEF Named
<1>5. Track(x, w, d, q, u)
  BY <1>1, <1>4, TrackPrefix, Zenon
<1>6. /\ Len(u) = z /\ \A k \in 1..z : u[k] = text[k]
  BY <1>1
<1> HIDE DEF u
<1>7. 2 <= z
  <2>1. 2 \in 1..a /\ 2 \in 1..Len(text) /\ PartOf(2, e, a) = "head"
    BY <1>1 DEF PartOf
  <2>2. text[2] = "f" /\ label[2].lex = "code"
    BY <2>1 DEF Shape
  <2>3. QED
    BY <2>1, <2>2 DEF SpanTo, Space
<1>8. ASSUME NEW k \in 3..e, k <= z
      PROVE  /\ u[k] # "esc"
             /\ w[k - 1] = "comment" => u[k] # "str"
             /\ w[k - 1] = "code" => u[k] # "."
  <2>1. k \in 1..Len(text) /\ k \in 1..z /\ PartOf(k, e, a) = "stmt"
    BY <1>1, <1>8 DEF PartOf
  <2>2. SaidRocq(text[k], label[k])
    BY <2>1 DEF Shape, RocqInv
  <2>3. label[k].lex = Meaning(x, w, text, k) /\ u[k] = text[k]
    BY <1>4, <1>6, <2>1
  <2>4. w[k - 1] = "comment" => Meaning(x, w, text, k) = "comment"
    BY DEF Meaning
  <2>5. w[k - 1] = "code" /\ text[k] = "." => Meaning(x, w, text, k) = "code"
    BY <1>3 DEF Meaning, None
  <2>6. QED
    BY <2>2, <2>3, <2>4, <2>5 DEF SaidRocq
<1>9. u[1] = "kw" /\ u[2] = "f"
  <2>1. 1 \in 1..z /\ 2 \in 1..z
    BY <1>1, <1>7
  <2>2. QED
    BY <1>6, <2>1 DEF Shape
<1>10. CASE mode.part = "stmt"
  <2>1. z <= e
    BY <1>1, <1>10 DEF Shape
  <2>2. z \in 2..Len(u) /\ \A k \in 3..z : k \in 3..e /\ k <= z
    BY <1>1, <1>6, <1>7, <2>1
  <2>3. Sentenced(u, w, z)
    BY <1>8, <1>9, <2>2 DEF Sentenced
  <2>4. QED
    BY <1>5, <1>10, <2>3 DEF u, x
<1>11. CASE mode.part # "stmt"
  <2>1. e + 2 <= a /\ text[e + 1] = "." /\ text[e + 2] = "nl"
    BY <1>11 DEF Shape, Over, Ending
  <2>2. e + 1 \in 1..a /\ e + 1 \in 1..Len(text) /\ e + 2 \in 1..Len(text) /\ (e + 1) - 1 = e
    BY <1>1, <2>1
  <2>3. label[e + 1].lex = "code"
    <3>1. PartOf(e + 1, e, a) = "proof"
      BY <1>1, <2>2 DEF PartOf
    <3>2. QED
      BY <2>2, <3>1 DEF Shape
  <2>4. w[e] = "code"
    <3>1. Meaning(x, w, text, e + 1) = "code"
      BY <1>4, <2>2, <2>3
    <3>2. w[(e + 1) - 1] = "code"
      BY <3>1 DEF Meaning
    <3>3. QED
      BY <2>2, <3>2
  <2>5. e + 1 <= z
    BY <2>1, <2>2, <2>3 DEF SpanTo, Space
  <2>6. u[e + 1] = "." /\ (e + 1 = z \/ u[e + 2] = "nl")
    <3>1. e + 1 \in 1..z /\ (e + 1 = z \/ e + 2 \in 1..z)
      BY <1>1, <2>2, <2>5
    <3>2. QED
      BY <1>6, <2>1, <3>1
  <2>7. e \in 2..Len(u) /\ \A k \in 3..e : k <= z
    BY <1>1, <1>6, <2>5
  <2>8. Sentenced(u, w, e)
    BY <1>8, <1>9, <2>7 DEF Sentenced
  <2>9. Stopped(u, w, e)
    BY <1>6, <2>4, <2>5, <2>6 DEF Stopped
  <2>10. QED
    BY <1>5, <1>11, <2>1, <2>5, <2>8, <2>9 DEF u, x
<1>12. QED
  BY <1>10, <1>11

\* From every text that differs in words alone, the extractor takes n tokens, the
\* comments C blanked: no less than the author's statement, unless the span ends
\* first, and no word after it.
Takes(t, l, p, e, z, C, n) ==
  /\ \A k \in 1..Len(t) : k \in C => l[k].lex = "comment"
  /\ n \in 1..z /\ n <= e + 1 /\ (e <= n \/ n = z) /\ (n = e + 1 => t[n] # "w")
  /\ \A r : Reworded(t, r) =>
       ExtractStatement(SubSeq(r, 1, z), "f", p) = SubSeq(Blank(SubSeq(r, 1, z), C), 1, n)
\* Rocq's and Lean's take nothing as long as the statement has no end.
Extracts(t, l, m, p, e, z) ==
  \/ /\ m.part = "stmt"
     /\ \A r : Reworded(t, r) => ExtractStatement(SubSeq(r, 1, z), "f", p) = NoStatement
  \/ \E C, n : Takes(t, l, p, e, z, C, n)

LEMMA BlankNothing ==
  ASSUME NEW t \in Seq(Tokens)
  PROVE  Blank(t, {}) = t
<1> DEFINE b == Blank(t, {})
<1>1. b \in Seq(Tokens) /\ Len(b) = Len(t) /\ \A k \in 1..Len(t) : b[k] = t[k]
  BY BlankIs
<1> HIDE DEF b
<1>2. b = t
  BY <1>1
<1>3. QED
  BY <1>2 DEF b

LEMMA BlankBoth ==
  ASSUME NEW u, NEW v, Reworded(u, v), NEW C, NEW X, X = Blank(u, C), NEW Y, Y = Blank(v, C)
  PROVE  /\ Reworded(X, Y) /\ Len(X) = Len(u)
         /\ \A j \in 1..Len(u) : /\ X[j] = IF j \in C /\ u[j] # "nl" THEN "sp" ELSE u[j]
                                 /\ Y[j] = IF j \in C /\ v[j] # "nl" THEN "sp" ELSE v[j]
<1>1. u \in Seq(Tokens) /\ v \in Seq(Tokens) /\ Len(v) = Len(u)
  BY DEF Reworded
<1>2. Reworded(X, Y)
  BY RewordedBlank
<1>3. Len(X) = Len(u) /\ \A j \in 1..Len(u) : X[j] = IF j \in C /\ u[j] # "nl" THEN "sp" ELSE u[j]
  BY <1>1, BlankIs
<1>4. \A j \in 1..Len(v) : Y[j] = IF j \in C /\ v[j] # "nl" THEN "sp" ELSE v[j]
  BY <1>1, BlankIs
<1>5. QED
  BY <1>1, <1>2, <1>3, <1>4

\* One changed word, judged.
LEMMA JudgedBy ==
  ASSUME TextInv, NEW e, NEW a, Shape(prover, text, label, mode, e, a),
         mode.part \in {"stmt", "proof", "after"},
         NEW z, SpanTo(text, label, a, prover, z),
         Extracts(text, label, mode, prover, e, z),
         NEW k \in 1..Len(text), text[k] = "w", label[k].lex # "comment",
         NEW r, Reworded(text, r), r[k] = "v", \A j \in 1..Len(text) : j # k => r[j] = text[j]
  PROVE  /\ k \in 3..e => Verdict(SubSeq(text, 1, z), SubSeq(r, 1, z), "f", prover) # "unchanged"
         /\ mode.part # "stmt" /\ k > e =>
              Verdict(SubSeq(text, 1, z), SubSeq(r, 1, z), "f", prover) = "unchanged"
<1> DEFINE u == SubSeq(text, 1, z)
<1> DEFINE v == SubSeq(r, 1, z)
<1> DEFINE from == ExtractStatement(u, "f", prover)
<1> DEFINE to == ExtractStatement(v, "f", prover)
<1>9. Verdict(u, v, "f", prover) = Compared(u, v, from, to)
  BY DEF Verdict
<1>1. /\ text \in Seq(Tokens) /\ Len(text) \in Nat /\ e \in 2..Len(text) /\ a \in e..Len(text)
      /\ z \in 0..Len(text) /\ Reworded(text, text)
  BY RewordedSelf DEF TextInv, Shape, SpanTo
<1>2. /\ Reworded(u, v) /\ Len(u) = z /\ u \in Seq(Tokens) /\ v \in Seq(Tokens) /\ Len(v) = z
      /\ \A j \in 1..z : u[j] = text[j] /\ v[j] = r[j]
  <2>1. /\ Reworded(u, v) /\ Len(u) = z
        /\ \A j \in 1..z : u[j] = text[j] /\ v[j] = r[j]
    BY <1>1, RewordedPrefix
  <2>2. QED
    BY <2>1 DEF Reworded
<1>10. \A C : from = ExtractStatement(SubSeq(text, 1, z), "f", prover)
             /\ to = ExtractStatement(SubSeq(r, 1, z), "f", prover)
             /\ Blank(u, C) = Blank(SubSeq(text, 1, z), C) /\ Blank(v, C) = Blank(SubSeq(r, 1, z), C)
  OBVIOUS
<1> HIDE DEF u, v, from, to
<1>3. k \in 3..e => k \in 1..z
  <2>1. SUFFICES ASSUME k \in 3..e PROVE k \in 1..z
    OBVIOUS
  <2>2. k \in 1..a /\ text[k] \notin Space
    BY <1>1, <2>1 DEF Space
  <2>3. QED
    BY <1>1, <2>2 DEF SpanTo
<1>4. k \in 1..z => u[k] = "w" /\ v[k] = "v"
  BY <1>2
<1>5. ASSUME mode.part = "stmt", from = NoStatement
      PROVE  /\ k \in 3..e => Compared(u, v, from, to) # "unchanged"
             /\ mode.part # "stmt" /\ k > e => Compared(u, v, from, to) = "unchanged"
  <2>1. Cut(k, from, to)
    BY <1>5 DEF Cut
  <2>2. ASSUME k \in 3..e PROVE Compared(u, v, from, to) # "unchanged"
    <3>1. k \in 1..Len(u) /\ u[k] = "w" /\ v[k] = "v"
      BY <1>2, <1>3, <1>4, <2>2
    <3>2. QED
      BY <1>2, <2>1, <3>1, VerdictSeen
  <2>3. QED
    BY <1>5, <2>2
<1>6. ASSUME NEW C, NEW n, Takes(text, label, prover, e, z, C, n)
      PROVE  /\ k \in 3..e => Compared(u, v, from, to) # "unchanged"
             /\ k > e => Compared(u, v, from, to) = "unchanged"
  <2> DEFINE X == Blank(u, C)
  <2> DEFINE Y == Blank(v, C)
  <2>1. from = SubSeq(X, 1, n) /\ to = SubSeq(Y, 1, n)
    <3>1. /\ ExtractStatement(SubSeq(text, 1, z), "f", prover) = SubSeq(Blank(SubSeq(text, 1, z), C), 1, n)
          /\ ExtractStatement(SubSeq(r, 1, z), "f", prover) = SubSeq(Blank(SubSeq(r, 1, z), C), 1, n)
      BY <1>1, <1>6, Zenon DEF Takes
    <3>2. QED
      BY <1>10, <3>1
  <2>2. n \in 1..z /\ n <= e + 1 /\ (e <= n \/ n = z) /\ (n = e + 1 => text[n] # "w") /\ k \notin C
    BY <1>6 DEF Takes
  <2>3. X = Blank(u, C) /\ Y = Blank(v, C)
    OBVIOUS
  <2> HIDE DEF X, Y
  <2>4. /\ Reworded(X, Y) /\ Len(X) = z
        /\ \A j \in 1..z : /\ X[j] = IF j \in C /\ u[j] # "nl" THEN "sp" ELSE u[j]
                           /\ Y[j] = IF j \in C /\ v[j] # "nl" THEN "sp" ELSE v[j]
    <3>1. Reworded(u, v) /\ Len(u) = z
      BY <1>2
    <3> HIDE DEF u, v
    <3>2. /\ Reworded(X, Y) /\ Len(X) = Len(u)
          /\ \A j \in 1..Len(u) : /\ X[j] = IF j \in C /\ u[j] # "nl" THEN "sp" ELSE u[j]
                                  /\ Y[j] = IF j \in C /\ v[j] # "nl" THEN "sp" ELSE v[j]
      BY <2>3, <3>1, BlankBoth
    <3>3. QED
      BY <3>1, <3>2
  <2>5. ASSUME k \in 3..e PROVE Compared(u, v, from, to) # "unchanged"
    <3>1. k \in 1..z /\ X[k] = "w" /\ Y[k] = "v"
      BY <1>3, <1>4, <2>2, <2>4, <2>5
    <3>2. n \in k..Len(X)
      BY <1>1, <2>2, <2>4, <2>5, <3>1
    <3>3. Cut(k, from, to)
      BY <2>1, <2>4, <3>1, <3>2 DEF Cut
    <3>4. QED
      BY <1>2, <1>4, <3>1, <3>3, VerdictSeen
  <2>6. ASSUME k > e PROVE Compared(u, v, from, to) = "unchanged"
    <3>1. \A j \in 1..n : j # k /\ j \in 1..z /\ j \in 1..Len(text)
      <4>1. SUFFICES ASSUME NEW j \in 1..n PROVE j # k /\ j \in 1..z /\ j \in 1..Len(text)
        OBVIOUS
      <4>2. j \in 1..z /\ j \in 1..Len(text)
        BY <1>1, <2>2
      <4>3. ASSUME j = k PROVE FALSE
        <5>1. n = e + 1 /\ n = k
          BY <1>1, <2>2, <2>6, <4>3
        <5>2. QED
          BY <2>2, <5>1
      <4>4. QED
        BY <4>2, <4>3
    <3>2. \A j \in 1..n : v[j] = u[j]
      BY <1>2, <3>1
    <3>3. ASSUME NEW j \in 1..n PROVE Y[j] = X[j]
      <4>1. j \in 1..z /\ v[j] = u[j]
        BY <3>1, <3>2
      <4>2. /\ X[j] = IF j \in C /\ u[j] # "nl" THEN "sp" ELSE u[j]
            /\ Y[j] = IF j \in C /\ v[j] # "nl" THEN "sp" ELSE v[j]
        BY <2>4, <4>1
      <4>3. QED
        BY <4>1, <4>2
    <3>4. n \in 1..Len(X)
      BY <2>2, <2>4
    <3>5. Compared(u, v, SubSeq(X, 1, n), SubSeq(Y, 1, n)) = "unchanged"
      BY <2>4, <3>3, <3>4, VerdictSame
    <3>6. QED
      BY <2>1, <3>5
  <2>7. QED
    BY <2>5, <2>6
<1>7. (mode.part = "stmt" /\ from = NoStatement) \/ \E C, n : Takes(text, label, prover, e, z, C, n)
  BY <1>1, <1>10, Zenon DEF Extracts
<1>8. /\ k \in 3..e => Compared(u, v, from, to) # "unchanged"
      /\ mode.part # "stmt" /\ k > e => Compared(u, v, from, to) = "unchanged"
  <2>1. CASE mode.part = "stmt" /\ from = NoStatement
    BY <1>5, <2>1
  <2>2. CASE \E C, n : Takes(text, label, prover, e, z, C, n)
    <3>1. PICK C, n : Takes(text, label, prover, e, z, C, n)
      BY <2>2
    <3>2. QED
      BY <1>6, <3>1
  <2>3. QED
    BY <1>7, <2>1, <2>2
<1>11. QED
  BY <1>8, <1>9 DEF u, v

LEMMA KeptBy ==
  ASSUME TextInv, NEW e, NEW a, Shape(prover, text, label, mode, e, a),
         mode.part \in {"stmt", "proof", "after"},
         NEW z, SpanTo(text, label, a, prover, z),
         \A r : Reworded(text, r) => SpanText(r, prover) = SubSeq(r, 1, z),
         Extracts(text, label, mode, prover, e, z)
  PROVE  StatementKept
<1>1. /\ text \in Seq(Tokens) /\ Len(text) \in Nat /\ e \in 2..Len(text) /\ a \in e..Len(text)
  BY DEF TextInv, Shape
<1>2. ASSUME NEW k \in 1..Len(text), text[k] = "w", label[k].lex # "comment"
      PROVE  (Judged(k) = "unchanged") <=> (label[k].part # "stmt")
  <2> DEFINE r == Changed(k)
  <2> DEFINE said == Verdict(SubSeq(text, 1, z), SubSeq(r, 1, z), "f", prover)
  <2>1. /\ Reworded(text, r) /\ r[k] = "v" /\ \A j \in 1..Len(text) : j # k => r[j] = text[j]
        /\ Reworded(text, text)
    BY <1>1, <1>2, ChangedIs, RewordedSelf
  <2>2. Judged(k) = said
    <3>1. SpanText(text, prover) = SubSeq(text, 1, z) /\ SpanText(r, prover) = SubSeq(r, 1, z)
      BY <2>1
    <3>2. QED
      BY <3>1 DEF Judged
  <2> HIDE DEF r
  <2>3. /\ k \in 3..e => said # "unchanged"
        /\ mode.part # "stmt" /\ k > e => said = "unchanged"
    BY <1>2, <2>1, JudgedBy, Zenon
  <2> HIDE DEF said
  <2>4. /\ label[k].part = PartOf(k, e, a)
        /\ PartOf(k, e, a) = "stmt" => k \in 3..e
        /\ PartOf(k, e, a) \in {"proof", "after"} => k > e
    <3>1. label[k].part = PartOf(k, e, a)
      BY DEF Shape
    <3>2. k \in Nat /\ e \in Nat /\ a \in Nat /\ e <= a
      BY <1>1
    <3>3. QED
      BY <3>1, <3>2, PartsIs
  <2>5. label[k].part \in {"stmt", "proof", "after"}
    <3>1. k # 1 /\ k # 2
      BY <1>2 DEF Shape
    <3>2. k > 2 /\ k \in Nat
      BY <1>1, <3>1
    <3>3. QED
      BY <2>4, <3>2 DEF PartOf
  <2>6. k > e => mode.part # "stmt"
    BY <1>1 DEF Shape
  <2>7. QED
    BY <2>2, <2>3, <2>4, <2>5, <2>6
<1>3. DOMAIN text = 1..Len(text)
  BY <1>1
<1>4. QED
  BY <1>2, <1>3 DEF StatementKept, Words

\* An extractor that takes the statement and one token more.
LEMMA TakesOn ==
  ASSUME TextInv, NEW e \in 2..Len(text), NEW z \in 0..Len(text), mode.part \in {"stmt", "proof", "after"},
         mode.part # "stmt" => e + 1 <= z /\ text[e + 1] # "w",
         \A r : Reworded(text, r) =>
           /\ mode.part = "stmt" => ExtractStatement(SubSeq(r, 1, z), "f", prover) = NoStatement
           /\ mode.part # "stmt" => ExtractStatement(SubSeq(r, 1, z), "f", prover)
                                      = SubSeq(SubSeq(r, 1, z), 1, e + 1)
  PROVE  Extracts(text, label, mode, prover, e, z)
<1>1. CASE mode.part = "stmt"
  BY <1>1, Zenon DEF Extracts
<1>2. CASE mode.part # "stmt"
  <2>1. ASSUME NEW r, Reworded(text, r)
        PROVE  ExtractStatement(SubSeq(r, 1, z), "f", prover) = SubSeq(Blank(SubSeq(r, 1, z), {}), 1, e + 1)
    <3>1. SubSeq(r, 1, z) \in Seq(Tokens)
      BY <2>1, RewordedPrefix DEF Reworded
    <3>2. QED
      BY <1>2, <2>1, <3>1, BlankNothing
  <2>2. e + 1 \in 1..z /\ e + 1 <= e + 1 /\ e <= e + 1 /\ text[e + 1] # "w"
    BY <1>2
  <2>3. Takes(text, label, prover, e, z, {}, e + 1)
    BY <2>1, <2>2 DEF Takes
  <2>4. QED
    BY <2>3, Zenon DEF Extracts
<1>3. QED
  BY <1>1, <1>2

LEMMA RocqExtracts ==
  ASSUME TextInv, RocqInv, Quiet, prover = "rocq",
         NEW e, NEW a, Shape(prover, text, label, mode, e, a),
         mode.part \in {"stmt", "proof", "after"}, NEW z, SpanTo(text, label, a, prover, z)
  PROVE  Extracts(text, label, mode, prover, e, z)
<1>1. PICK w, d, q, n :
           /\ Track(Syntax["rocq"], w, d, q, SubSeq(text, 1, z))
           /\ Sentenced(SubSeq(text, 1, z), w, n)
           /\ mode.part = "stmt" => n = z
           /\ mode.part # "stmt" => n = e /\ e + 1 <= z /\ text[e + 1] = "."
                                    /\ Stopped(SubSeq(text, 1, z), w, n)
  BY RocqReads
<1>2. SUFFICES ASSUME NEW r, Reworded(text, r)
               PROVE  /\ mode.part = "stmt" => ExtractStatement(SubSeq(r, 1, z), "f", "rocq") = NoStatement
                      /\ mode.part # "stmt" => ExtractStatement(SubSeq(r, 1, z), "f", "rocq")
                                                 = SubSeq(SubSeq(r, 1, z), 1, e + 1)
  <2>1. e \in 2..Len(text) /\ z \in 0..Len(text)
    BY DEF Shape, SpanTo
  <2>2. mode.part # "stmt" => e + 1 <= z /\ text[e + 1] # "w"
    BY <1>1
  <2>3. QED
    BY <2>1, <2>2, TakesOn
<1> DEFINE u == SubSeq(text, 1, z)
<1> DEFINE v == SubSeq(r, 1, z)
<1>3. Reworded(u, v) /\ Len(u) = z
  <2>1. z \in 0..Len(text)
    BY DEF SpanTo
  <2>2. QED
    BY <1>2, <2>1, RewordedPrefix
<1>4. /\ Track(Syntax["rocq"], w, d, q, u) /\ Sentenced(u, w, n)
      /\ mode.part = "stmt" => n = z
      /\ mode.part # "stmt" => n = e /\ Stopped(u, w, n)
  BY <1>1
<1> HIDE DEF u, v
<1>5. v \in Seq(Tokens) /\ Len(v) = z
  BY <1>3 DEF Reworded
<1>6. Track(Syntax["rocq"], w, d, q, v)
  <2>1. "rocq" \in DOMAIN Syntax
    BY DEF Syntax
  <2>2. QED
    BY <1>3, <1>4, <2>1, RewordedTrack, Zenon
<1>7. Sentenced(v, w, n) /\ (Stopped(u, w, n) => Stopped(v, w, n))
  BY <1>3, <1>4, SentencedSame, Zenon
<1>8. /\ n = z => ExtractStatement(v, "f", "rocq") = NoStatement
      /\ Stopped(v, w, n) => ExtractStatement(v, "f", "rocq") = SubSeq(v, 1, n + 1)
  BY <1>5, <1>6, <1>7, RocqStatementIs
<1>9. QED
  BY <1>4, <1>7, <1>8 DEF v

LEMMA RocqKept ==
  ASSUME TextInv, ShapeInv, RocqInv, Quiet, prover = "rocq"
  PROVE  StatementKept
<1>1. PICK e, a : Shape(prover, text, label, mode, e, a)
  BY Zenon DEF ShapeInv
<1>2. mode.part \in {"stmt", "proof", "after"}
  BY Zenon DEF ShapeInv
<1>3. PICK z : /\ SpanTo(text, label, a, prover, z)
               /\ \A r : Reworded(text, r) => SpanText(r, prover) = SubSeq(r, 1, z)
  BY <1>1, <1>2, SpanIs
<1>4. Extracts(text, label, mode, prover, e, z)
  BY <1>1, <1>2, <1>3, RocqExtracts
<1>5. QED
  BY <1>1, <1>2, <1>3, <1>4, KeptBy
-----------------------------------------------------------------------------
(* Lean's signature.                                                       *)

LEMMA BracketsDef ==
  ASSUME NEW t \in Seq(Tokens), NEW from \in 1..Len(t), NEW D, D = Brackets(t, from)
  PROVE  /\ D[from] = 0
         /\ \A k \in (from + 1)..Len(t) :
              D[k] = IF t[k] = "(" THEN D[k - 1] + 1
                     ELSE IF t[k] = ")" /\ D[k - 1] > 0 THEN D[k - 1] - 1
                     ELSE D[k - 1]
<1> DEFINE N == Len(t)
<1> DEFINE V == Nat
<1> DEFINE v0 == 0
<1> DEFINE Bracket(n, k) == IF t[k] = "(" THEN n + 1
                         ELSE IF t[k] = ")" /\ n > 0 THEN n - 1 ELSE n
<1> DEFINE step == [z \in V \X (from..N) |-> Bracket(z[1], z[2])]
<1> DEFINE Is(f) == f = [k \in from..N |-> IF k = from THEN v0 ELSE Bracket(f[k - 1], k)]
<1>0. N \in Nat /\ from \in Nat /\ from <= N
  OBVIOUS
<1>1. v0 \in V
  OBVIOUS
<1>2. step \in [V \X (from..N) -> V]
  <2>1. \A z \in V \X (from..N) : Bracket(z[1], z[2]) \in V
    OBVIOUS
  <2> HIDE DEF Bracket, V
  <2>2. QED
    BY <2>1
<1>3. \A n \in V, k \in from..N : step[<<n, k>>] = Bracket(n, k)
  <2> HIDE DEF Bracket, V
  <2>1. QED
    OBVIOUS
<1>30. \A f : (f = [k \in from..N |-> IF k = from THEN 0
                                     ELSE IF t[k] = "(" THEN f[k - 1] + 1
                                     ELSE IF t[k] = ")" /\ f[k - 1] > 0 THEN f[k - 1] - 1
                                     ELSE f[k - 1]]) <=> Is(f)
  OBVIOUS
<1> HIDE DEF step, N, V, v0, Bracket
<1>4. PICK e : e \in [from..N -> V] /\ Steps(e, from, N, v0, step)
  BY <1>0, <1>1, <1>2, StepDef, Zenon
<1>5. ASSUME NEW k \in from..N PROVE e[k] = IF k = from THEN v0 ELSE Bracket(e[k - 1], k)
  <2>1. e[k] = IF k = from THEN v0 ELSE step[<<e[k - 1], k>>]
    BY <1>4, Zenon DEF Steps
  <2>2. k # from => k - 1 \in from..N
    BY <1>0
  <2>3. k # from => e[k - 1] \in V
    BY <1>4, <2>2
  <2>4. k # from => step[<<e[k - 1], k>>] = Bracket(e[k - 1], k)
    BY <1>3, <2>3, Zenon
  <2>5. QED
    BY <2>1, <2>4, Zenon
<1>6. Is(e)
  <2>1. e = [k \in from..N |-> e[k]]
    BY <1>4
  <2>2. QED
    BY <1>5, <2>1, Zenon
<1>7. Is(D)
  <2>1. D = CHOOSE f : Is(f)
    BY Zenon DEF Brackets, N, v0, Bracket
  <2> HIDE DEF Is
  <2>2. QED
    BY <1>6, <2>1, Zenon
<1>8. \A k \in from..N : D[k] = IF k = from THEN v0 ELSE Bracket(D[k - 1], k)
  BY <1>7, Zenon
<1>9. D[from] = v0 /\ \A k \in (from + 1)..N : D[k] = Bracket(D[k - 1], k)
  BY <1>0, <1>8
<1>10. QED
  BY <1>9 DEF v0, Bracket, N

\* A bar that begins a line: nothing but spaces before it.
LEMMA LineInitialIs ==
  ASSUME NEW t \in Seq(Tokens), NEW k \in 1..Len(t)
  PROVE  LineInitial(t, k, 0) <=>
           t[k] = "|" /\ \E s \in LineStarts(t) : s <= k /\ \A j \in s..(k - 1) : t[j] = "sp"
<1>0. Len(t) \in Nat /\ \A s \in LineStarts(t) : s \in 1..Len(t) /\ s \in Nat
  BY DEF LineStarts
<1>1. ASSUME LineInitial(t, k, 0)
      PROVE  t[k] = "|" /\ \E s \in LineStarts(t) : s <= k /\ \A j \in s..(k - 1) : t[j] = "sp"
  <2>1. PICK s \in LineStarts(t) : First(t, s) = k /\ t[k] = "|"
    BY <1>1 DEF LineInitial
  <2>2. First(t, s) \in s..LineEnd(t, s) /\ \A j \in s..(First(t, s) - 1) : t[j] = "sp"
    BY <1>0, FirstIs
  <2>3. s <= k /\ \A j \in s..(k - 1) : t[j] = "sp"
    BY <2>1, <2>2
  <2>4. QED
    BY <2>1, <2>3
<1>2. ASSUME t[k] = "|", NEW s \in LineStarts(t), s <= k, \A j \in s..(k - 1) : t[j] = "sp"
      PROVE  LineInitial(t, k, 0)
  <2> DEFINE f == First(t, s)
  <2> DEFINE z == LineEnd(t, s)
  <2>1. z \in s..(Len(t) + 1) /\ (z = Len(t) + 1 \/ t[z] = "nl")
    BY <1>0, LineDef
  <2>2. /\ f \in s..z /\ \A j \in s..(f - 1) : t[j] = "sp"
        /\ ~IsBlank(t, s) => t[f] # "sp"
        /\ \A j \in s..(z - 1) : t[j] # "sp" => ~IsBlank(t, s)
    BY <1>0, FirstIs
  <2> HIDE DEF f, z
  <2>3. k < z
    <3>1. ASSUME z <= k PROVE FALSE
      <4>1. t[z] = "nl"
        BY <1>0, <2>1, <3>1
      <4>2. z # k
        BY <1>2, <4>1
      <4>3. z \in s..(k - 1)
        BY <1>0, <2>1, <3>1, <4>2
      <4>4. QED
        BY <1>2, <4>1, <4>3
    <3>2. QED
      BY <1>0, <2>1, <3>1
  <2>4. ~IsBlank(t, s)
    <3>1. k \in s..(z - 1) /\ t[k] # "sp"
      BY <1>0, <1>2, <2>1, <2>3
    <3>2. QED
      BY <2>2, <3>1
  <2>5. f = k
    <3>1. ~(k \in s..(f - 1))
      BY <1>2, <2>2
    <3>2. ~(f \in s..(k - 1))
      BY <1>2, <2>2, <2>4
    <3>3. QED
      BY <1>0, <1>2, <2>1, <2>2, <3>1, <3>2
  <2>6. k - s >= 0
    BY <1>0, <1>2
  <2>7. QED
    BY <1>2, <2>5, <2>6 DEF LineInitial, f
<1>3. QED
  BY <1>1, <1>2
\* What the author's statement is, for the signature: c counts the brackets.
Signed(t, c, e) ==
  /\ e \in 2..Len(t)
  /\ t[1] = "kw" /\ t[2] = "f" /\ c[2] = 0
  /\ \A k \in 3..e : /\ c[k] \in Nat /\ c[k] = Up(c[k - 1], "(", ")", t[k])
                     /\ t[k] \in {":=", "=>"} => c[k] > 0
                     /\ t[k] # "where"
\* It stops at a mark of its own, or at alternatives that no bar of its own
\* precedes.
MarkEnds(t, e) == e + 1 <= Len(t) /\ t[e + 1] \in {":=", "where"}
BarEnds(t, e) ==
  /\ e + 4 <= Len(t)
  /\ t[e + 1] = "nl" /\ t[e + 2] = "|" /\ t[e + 3] \in {"w", "v"} /\ t[e + 4] = "=>"
  /\ \A k \in 3..e : ~LineInitial(t, k, 0)
Finished(t, c, e) == c[e] = 0 /\ (MarkEnds(t, e) \/ BarEnds(t, e))

LEMMA SignatureIs ==
  ASSUME NEW t \in Seq(Tokens), NEW c, NEW e, Signed(t, c, e)
  PROVE  /\ e = Len(t) => SignatureEnd(t, 2, 0) = 0
         /\ Finished(t, c, e) => SignatureEnd(t, 2, 0) = e + 1
<1> DEFINE N == Len(t)
<1> DEFINE depth == Brackets(t, 2)
<1> DEFINE top == {k \in 2 + 1..N : depth[k] = 0 /\ t[k] # ")"}
<1> DEFINE bars == {k \in top : LineInitial(t, k, 0)}
<1> DEFINE ends == {k \in top : t[k] \in {":=", "where"} \/ Confirms(t, k, bars)}
<1>1. SignatureEnd(t, 2, 0) = IF ends = {} THEN 0
                              ELSE IF Confirms(t, Min(ends), bars) THEN Min(bars) - 1 ELSE Min(ends)
  BY Zenon DEF SignatureEnd
<1>0. N \in Nat /\ e \in 2..N
  BY DEF Signed
<1>2. /\ depth[2] = 0
      /\ \A k \in 3..N : depth[k] = IF t[k] = "(" THEN depth[k - 1] + 1
                                    ELSE IF t[k] = ")" /\ depth[k - 1] > 0 THEN depth[k - 1] - 1
                                    ELSE depth[k - 1]
  <2>1. 2 \in 1..Len(t) /\ 2 + 1 = 3
    BY <1>0
  <2>2. QED
    BY <2>1, BracketsDef
<1> HIDE DEF N, depth
<1> DEFINE Bad == {k \in 2..e : depth[k] # c[k]}
<1>3. ASSUME Bad # {} PROVE FALSE
  <2>1. PICK m \in Bad : \A k \in Bad : m <= k
    <3>1. Bad \in SUBSET Nat
      BY <1>0
    <3> HIDE DEF Bad
    <3>2. QED
      BY <1>3, <3>1, LeastNat
  <2>2. m \in 2..e /\ depth[m] # c[m]
    OBVIOUS
  <2>3. m # 2
    BY <1>2, <2>2 DEF Signed
  <2>4. m \in 3..e /\ m - 1 \in 2..e /\ ~(m <= m - 1) /\ m \in 3..N
    BY <1>0, <2>2, <2>3
  <2>5. depth[m - 1] = c[m - 1]
    <3>1. m - 1 \notin Bad
      <4> HIDE DEF Bad
      <4>1. QED
        BY <2>1, <2>4
    <3>2. QED
      BY <2>4, <3>1
  <2>6. c[m - 1] \in Nat
    <3>1. m - 1 = 2 \/ m - 1 \in 3..e
      BY <2>4
    <3>2. QED
      BY <3>1 DEF Signed
  <2>7. c[m] \in Nat /\ c[m] = Up(c[m - 1], "(", ")", t[m])
    BY <2>4 DEF Signed
  <2> HIDE DEF Bad
  <2>8. depth[m] = IF t[m] = "(" THEN c[m - 1] + 1
                   ELSE IF t[m] = ")" /\ c[m - 1] > 0 THEN c[m - 1] - 1 ELSE c[m - 1]
    BY <1>2, <2>4, <2>5
  <2>9. QED
    BY <2>2, <2>6, <2>7, <2>8 DEF Up
<1>4. \A k \in 2..e : depth[k] = c[k]
  BY <1>3
<1>5. ASSUME NEW k \in 3..e PROVE k \notin ends
  <2>1. depth[k] = c[k]
    BY <1>0, <1>4
  <2>2. c[k] = 0 => t[k] \notin {":=", "=>", "where"}
    BY DEF Signed
  <2>3. QED
    BY <2>1, <2>2 DEF Confirms
<1>6. top \in SUBSET (3..N) /\ bars \in SUBSET (3..N) /\ ends \in SUBSET (3..N)
  OBVIOUS
<1>7. \A k \in ends : e + 1 <= k
  <2>1. \A k \in ends : k \in 3..N /\ ~(k \in 3..e)
    BY <1>5, <1>6, Zenon
  <2> HIDE DEF ends
  <2>2. QED
    BY <1>0, <2>1
<1>8. ASSUME e = N PROVE SignatureEnd(t, 2, 0) = 0
  <2>1. ends = {}
    <3> HIDE DEF ends
    <3>1. QED
      BY <1>0, <1>6, <1>7, <1>8
  <2>2. QED
    BY <1>1, <2>1
<1>9. ASSUME c[e] = 0, MarkEnds(t, e) PROVE SignatureEnd(t, 2, 0) = e + 1
  <2>1. e + 1 \in 3..N /\ (e + 1) - 1 = e /\ e \in 2..e /\ t[e + 1] \in {":=", "where"}
    BY <1>0, <1>9 DEF MarkEnds, N
  <2>2. depth[e + 1] = 0
    BY <1>2, <1>4, <1>9, <2>1
  <2>3. e + 1 \in ends
    BY <2>1, <2>2
  <2>4. ~Confirms(t, e + 1, bars)
    BY <2>1 DEF Confirms
  <2> HIDE DEF ends, bars
  <2>5. Min(ends) = e + 1
    <3>1. ends \in SUBSET Nat /\ ends # {}
      BY <1>0, <1>6, <2>3
    <3>2. Min(ends) \in ends /\ Min(ends) <= e + 1
      BY <2>3, <3>1, MinIs
    <3>3. Min(ends) \in 3..N /\ e + 1 <= Min(ends)
      BY <1>6, <1>7, <3>2
    <3>4. QED
      BY <1>0, <3>2, <3>3
  <2>6. QED
    BY <1>1, <2>3, <2>4, <2>5
<1>10. ASSUME c[e] = 0, BarEnds(t, e) PROVE SignatureEnd(t, 2, 0) = e + 1
  <2>1. /\ e + 1 \in 3..N /\ e + 2 \in 3..N /\ e + 3 \in 3..N /\ e + 4 \in 3..N
        /\ (e + 1) - 1 = e /\ (e + 2) - 1 = e + 1 /\ (e + 3) - 1 = e + 2 /\ (e + 4) - 1 = e + 3
        /\ t[e + 1] = "nl" /\ t[e + 2] = "|" /\ t[e + 3] \in {"w", "v"} /\ t[e + 4] = "=>"
    BY <1>0, <1>10 DEF BarEnds, N
  <2>2. depth[e] = 0
    BY <1>0, <1>4, <1>10
  <2>3. depth[e + 1] = 0
    BY <1>2, <2>1, <2>2
  <2>4. depth[e + 2] = 0
    BY <1>2, <2>1, <2>3
  <2>5. depth[e + 3] = 0
    BY <1>2, <2>1, <2>4
  <2>6. depth[e + 4] = 0
    BY <1>2, <2>1, <2>5
  <2>7. LineInitial(t, e + 2, 0)
    <3>1. e + 2 \in LineStarts(t) /\ e + 2 \in 1..Len(t)
      BY <1>0, <2>1 DEF LineStarts, N
    <3>2. \A j \in (e + 2)..((e + 2) - 1) : t[j] = "sp"
      BY <1>0
    <3>3. e + 2 <= e + 2
      BY <1>0
    <3>4. QED
      BY <2>1, <3>1, <3>2, <3>3, LineInitialIs
  <2>20. \A k \in 3..N : depth[k] = 0 /\ t[k] # ")" => k \in top
    OBVIOUS
  <2>21. e + 2 \in top /\ e + 4 \in top
    <3> HIDE DEF top
    <3>1. t[e + 2] # ")" /\ t[e + 4] # ")"
      BY <2>1
    <3>2. QED
      BY <2>1, <2>4, <2>6, <2>20, <3>1
  <2>8. e + 2 \in bars
    <3> HIDE DEF top
    <3>1. QED
      BY <2>7, <2>21
  <2>9. \A k \in bars : e + 2 <= k
    <3>1. ASSUME NEW k \in bars, ~(e + 2 <= k) PROVE FALSE
      <4>1. k \in 3..N /\ LineInitial(t, k, 0)
        OBVIOUS
      <4>2. k = e + 1 \/ k \in 3..e
        BY <1>0, <3>1, <4>1
      <4>3. t[k] = "|"
        BY <4>1 DEF LineInitial
      <4>4. k \in 3..e
        BY <2>1, <4>2, <4>3
      <4>5. QED
        BY <1>10, <4>1, <4>4 DEF BarEnds
    <3>2. QED
      BY <3>1
  <2>10. Min(bars) = e + 2
    <3> HIDE DEF bars
    <3>1. bars \in SUBSET Nat /\ bars # {}
      BY <1>0, <1>6, <2>8
    <3>2. Min(bars) \in bars /\ Min(bars) <= e + 2
      BY <2>8, <3>1, MinIs
    <3>3. Min(bars) \in 3..N /\ e + 2 <= Min(bars)
      BY <1>6, <2>9, <3>2
    <3>4. QED
      BY <1>0, <3>2, <3>3
  <2>11. Confirms(t, e + 4, bars)
    <3>1. e + 2 < e + 4
      BY <1>0
    <3> HIDE DEF bars
    <3>2. QED
      BY <2>1, <2>8, <3>1 DEF Confirms
  <2>12. e + 4 \in ends
    <3> HIDE DEF bars, top
    <3>1. QED
      BY <2>11, <2>21
  <2>13. \A k \in ends : e + 4 <= k
    <3>1. ASSUME NEW k \in ends, ~(e + 4 <= k) PROVE FALSE
      <4>1. k \in 3..N /\ t[k] \in {":=", "where", "=>"}
        BY DEF Confirms
      <4>2. e + 1 <= k
        BY <1>7
      <4> HIDE DEF ends
      <4>3. k = e + 1 \/ k = e + 2 \/ k = e + 3
        BY <1>0, <3>1, <4>1, <4>2
      <4>4. QED
        BY <2>1, <4>1, <4>3
    <3>2. QED
      BY <3>1
  <2> HIDE DEF ends, bars
  <2>14. Min(ends) = e + 4
    <3>1. ends \in SUBSET Nat /\ ends # {}
      BY <1>0, <1>6, <2>12
    <3>2. Min(ends) \in ends /\ Min(ends) <= e + 4
      BY <2>12, <3>1, MinIs
    <3>3. Min(ends) \in 3..N /\ e + 4 <= Min(ends)
      BY <1>6, <2>13, <3>2
    <3>4. QED
      BY <1>0, <3>2, <3>3
  <2>15. SignatureEnd(t, 2, 0) = Min(bars) - 1
    BY <1>1, <2>11, <2>12, <2>14
  <2>16. QED
    BY <1>0, <2>10, <2>15
<1>11. QED
  BY <1>8, <1>9, <1>10 DEF Finished, N
LEMMA LineInitialSame ==
  ASSUME NEW t, NEW r, Reworded(t, r), NEW k \in 1..Len(t)
  PROVE  LineInitial(r, k, 0) <=> LineInitial(t, k, 0)
<1>1. LineStarts(r) = LineStarts(t) /\ \A s \in LineStarts(t) : First(r, s) = First(t, s)
  <2>1. \A s \in LineStarts(t) : s \in Nat \ {0}
    BY DEF LineStarts
  <2>2. QED
    BY <2>1, RewordedLines
<1>2. r[k] = "|" <=> t[k] = "|"
  BY RewordedTokens
<1>3. QED
  BY <1>1, <1>2 DEF LineInitial

LEMMA SignedSame ==
  ASSUME NEW t, NEW r, Reworded(t, r), NEW c, NEW e, Signed(t, c, e)
  PROVE  Signed(r, c, e) /\ (Finished(t, c, e) => Finished(r, c, e))
<1>1. Len(r) = Len(t) /\ Len(t) \in Nat
  BY DEF Reworded
<1>2. \A y \in {"kw", "f", "(", ")", ":=", "=>", "where", "nl", "|"} : \A j \in 1..Len(t) : r[j] = y <=> t[j] = y
  BY RewordedTokens
<1>3. e \in 2..Len(t) /\ 1 \in 1..Len(t) /\ 2 \in 1..Len(t) /\ \A k \in 3..e : k \in 1..Len(t)
  BY <1>1 DEF Signed
<1>4. Signed(r, c, e)
  <2>1. r[1] = "kw" /\ r[2] = "f" /\ c[2] = 0
    BY <1>2, <1>3 DEF Signed
  <2>2. ASSUME NEW k \in 3..e
        PROVE  /\ c[k] \in Nat /\ c[k] = Up(c[k - 1], "(", ")", r[k])
               /\ r[k] \in {":=", "=>"} => c[k] > 0
               /\ r[k] # "where"
    <3>1. /\ c[k] \in Nat /\ c[k] = Up(c[k - 1], "(", ")", t[k])
          /\ t[k] \in {":=", "=>"} => c[k] > 0
          /\ t[k] # "where"
      BY DEF Signed
    <3>2. /\ r[k] = "(" <=> t[k] = "("
          /\ r[k] = ")" <=> t[k] = ")"
          /\ r[k] = ":=" <=> t[k] = ":="
          /\ r[k] = "=>" <=> t[k] = "=>"
          /\ r[k] = "where" <=> t[k] = "where"
      BY <1>2, <1>3
    <3>3. QED
      BY <3>1, <3>2 DEF Up
  <2>3. QED
    BY <1>1, <1>3, <2>1, <2>2 DEF Signed
<1>5. ASSUME MarkEnds(t, e) PROVE MarkEnds(r, e)
  <2>1. e + 1 \in 1..Len(t) /\ t[e + 1] \in {":=", "where"}
    BY <1>3, <1>5 DEF MarkEnds
  <2>2. QED
    BY <1>1, <1>2, <1>5, <2>1 DEF MarkEnds
<1>6. ASSUME BarEnds(t, e) PROVE BarEnds(r, e)
  <2>1. /\ e + 1 \in 1..Len(t) /\ e + 2 \in 1..Len(t) /\ e + 3 \in 1..Len(t) /\ e + 4 \in 1..Len(t)
        /\ t[e + 1] = "nl" /\ t[e + 2] = "|" /\ t[e + 3] \in {"w", "v"} /\ t[e + 4] = "=>"
    BY <1>1, <1>3, <1>6 DEF BarEnds
  <2>2. r[e + 1] = "nl" /\ r[e + 2] = "|" /\ r[e + 4] = "=>"
    BY <1>2, <2>1
  <2>3. r[e + 3] \in {"w", "v"}
    BY <2>1 DEF Reworded
  <2>4. \A k \in 3..e : ~LineInitial(r, k, 0)
    BY <1>3, <1>6, LineInitialSame DEF BarEnds
  <2>5. QED
    BY <1>1, <1>6, <2>2, <2>3, <2>4 DEF BarEnds
<1>7. QED
  BY <1>4, <1>5, <1>6 DEF Finished

LEMMA LineInitialPrefix ==
  ASSUME NEW t \in Seq(Tokens), NEW n \in 0..Len(t), NEW k \in 1..n, LineInitial(SubSeq(t, 1, n), k, 0)
  PROVE  LineInitial(t, k, 0)
<1> DEFINE u == SubSeq(t, 1, n)
<1>1. u \in Seq(Tokens) /\ Len(u) = n /\ \A j \in 1..n : u[j] = t[j]
  OBVIOUS
<1>2. LineInitial(u, k, 0)
  OBVIOUS
<1> HIDE DEF u
<1>3. PICK s \in LineStarts(u) : s <= k /\ u[k] = "|" /\ \A j \in s..(k - 1) : u[j] = "sp"
  BY <1>1, <1>2, LineInitialIs
<1>4. s \in 1..n /\ (s = 1 \/ u[s - 1] = "nl")
  BY <1>1 DEF LineStarts
<1>5. s \in LineStarts(t)
  <2>1. s = 1 \/ s - 1 \in 1..n
    BY <1>4
  <2>2. s \in 1..Len(t)
    BY <1>4
  <2>3. QED
    BY <1>1, <1>4, <2>1, <2>2 DEF LineStarts
<1>6. t[k] = "|" /\ \A j \in s..(k - 1) : t[j] = "sp"
  <2>1. \A j \in s..(k - 1) : j \in 1..n
    BY <1>4
  <2>2. QED
    BY <1>1, <1>3, <2>1
<1>7. k \in 1..Len(t)
  OBVIOUS
<1>8. QED
  BY <1>3, <1>5, <1>6, <1>7, LineInitialIs

\* Lean's extractor.
LEMMA LeanStatementIs ==
  ASSUME NEW t \in Seq(Tokens), NEW c, NEW e, Signed(t, c, e)
  PROVE  /\ e = Len(t) => ExtractStatement(t, "f", "lean4") = NoStatement
         /\ Finished(t, c, e) => ExtractStatement(t, "f", "lean4") = SubSeq(t, 1, e + 1)
<1>1. Len(t) >= 2 /\ Len(t) \in Nat /\ t[1] = "kw" /\ t[2] = "f"
  BY DEF Signed
<1>2. Locate(t, "f") # {} /\ Min(Locate(t, "f")) = 1 /\ NameEnd(t, 1) = 2
  BY <1>1, Located
<1>3. LineOf(t, 1) = 1
  <2> DEFINE T == {s \in LineStarts(t) : s <= 1}
  <2>1. T \in SUBSET Nat /\ 1 \in T /\ \A s \in T : s <= 1 /\ s >= 1
    BY <1>1 DEF LineStarts
  <2>2. LineOf(t, 1) = Max(T)
    BY DEF LineOf
  <2> HIDE DEF T
  <2>3. Max(T) \in T
    BY <2>1, MaxIs
  <2>4. Max(T) \in Nat /\ Max(T) <= 1 /\ Max(T) >= 1
    BY <2>1, <2>3
  <2>5. QED
    BY <2>2, <2>4
<1>4. ExtractStatement(t, "f", "lean4") = LeanStatement(t, "f")
  BY DEF ExtractStatement
<1>5. LeanStatement(t, "f") = SubSeq(t, 1, SignatureEnd(t, 2, 0))
  <2>1. LeanStatement(t, "f") = SubSeq(t, 1, SignatureEnd(t, 2, 1 - 1))
    BY <1>2, <1>3 DEF LeanStatement
  <2>2. 1 - 1 = 0
    OBVIOUS
  <2>3. QED
    BY <2>1, <2>2
<1>6. SubSeq(t, 1, 0) = NoStatement
  BY DEF NoStatement
<1>7. /\ e = Len(t) => SignatureEnd(t, 2, 0) = 0
      /\ Finished(t, c, e) => SignatureEnd(t, 2, 0) = e + 1
  BY SignatureIs
<1>8. QED
  BY <1>4, <1>5, <1>6, <1>7
\* c counts the author's brackets: a mark that could end the statement stands in
\* brackets or belongs to a let, and none is open where the statement ends.
CountAt(c, t, l, k) ==
  /\ l[k].part = "stmt" =>
       /\ c[k] \in Nat /\ c[k] = IF l[k].lex = "code" THEN Up(c[k - 1], "(", ")", t[k]) ELSE c[k - 1]
       /\ l[k].lex = "code" => /\ t[k] # "where"
                               /\ t[k] \in {":=", "=>"} => c[k] > 0 \/ t[k - 2] = "let"
  /\ l[k].part = "proof" /\ l[k - 1].part # "proof" => c[k - 1] = 0
Counted(c, t, l, m) ==
  /\ c[2] = 0
  /\ \A k \in 3..Len(t) : CountAt(c, t, l, k)
  /\ m.part = "stmt" => c[Len(t)] = m.bracket /\ m.bracket \in Nat
LeanInv == Quiet /\ prover = "lean4" => \E c : Counted(c, text, label, mode)

Count(c, N, L, g) == [k \in 2..L |-> IF k <= N THEN c[k] ELSE g]
CountGoesOn(t, l, u, v, c, g, n) ==
  /\ Len(t) \in Nat /\ Len(t) >= 2 /\ Len(u) \in Nat /\ Len(u) >= Len(t)
  /\ \A k \in 1..Len(t) : u[k] = t[k] /\ v[k] = l[k]
  /\ \A k \in (Len(t) + 1)..Len(u) : CountAt(Count(c, Len(t), Len(u), g), u, v, k)
  /\ n.part = "stmt" => Len(u) > Len(t) /\ g = n.bracket /\ g \in Nat

LEMMA CountOn ==
  ASSUME NEW c, NEW t, NEW l, NEW m, Counted(c, t, l, m),
         NEW u, NEW v, NEW n, NEW g, CountGoesOn(t, l, u, v, c, g, n)
  PROVE  \E d : Counted(d, u, v, n)
<1> DEFINE N == Len(t)
<1> DEFINE L == Len(u)
<1> DEFINE d == Count(c, N, L, g)
<1>1. N \in Nat /\ N >= 2 /\ L \in Nat /\ L >= N
  BY DEF CountGoesOn
<1>2. \A k \in 2..L : d[k] = IF k <= N THEN c[k] ELSE g
  BY DEF Count
<1>3. d[2] = 0
  <2>1. 2 \in 2..L /\ 2 <= N
    BY <1>1
  <2> HIDE DEF d
  <2>2. QED
    BY <1>2, <2>1 DEF Counted
<1>4. \A k \in (N + 1)..L : CountAt(d, u, v, k)
  BY DEF CountGoesOn
<1> HIDE DEF d
<1>5. ASSUME NEW k \in 3..N PROVE CountAt(d, u, v, k)
  <2>1. k \in 2..L /\ k - 1 \in 2..L /\ k <= N /\ k - 1 <= N
    BY <1>1
  <2>2. d[k] = c[k] /\ d[k - 1] = c[k - 1]
    BY <1>2, <2>1
  <2>3. k \in 1..N /\ k - 1 \in 1..N /\ k - 2 \in 1..N
    BY <1>1
  <2>4. u[k] = t[k] /\ v[k] = l[k] /\ v[k - 1] = l[k - 1] /\ u[k - 2] = t[k - 2]
    BY <2>3 DEF CountGoesOn
  <2>5. CountAt(c, t, l, k)
    BY DEF Counted
  <2>6. QED
    BY <2>2, <2>4, <2>5 DEF CountAt
<1>6. \A k \in 3..L : CountAt(d, u, v, k)
  <2>1. \A k \in 3..L : k \in 3..N \/ k \in (N + 1)..L
    BY <1>1
  <2>2. QED
    BY <1>4, <1>5, <2>1
<1>7. n.part = "stmt" => d[L] = n.bracket /\ n.bracket \in Nat
  <2>1. ASSUME n.part = "stmt" PROVE d[L] = g /\ g = n.bracket /\ g \in Nat
    <3>1. L \in 2..L /\ ~(L <= N) /\ g = n.bracket /\ g \in Nat
      BY <1>1, <2>1 DEF CountGoesOn
    <3>2. QED
      BY <1>2, <3>1
  <2>2. QED
    BY <2>1
<1>8. QED
  BY <1>3, <1>6, <1>7 DEF Counted

LEMMA LexedBracket ==
  ASSUME NEW m, ModeOK(m), NEW tok, tok # None, prover = "lean4"
  PROVE  /\ Lexed(m, tok).bracket = IF Means(m, tok).lex = "code" THEN Up(m.bracket, "(", ")", tok)
                                    ELSE m.bracket
         /\ Means(m, tok).lex = "code" => InCode(m)
<1> DEFINE x == Syntax[prover]
<1>1. m \in Modes
  BY DEF ModeOK
<1>2. x.open = "/-" /\ x.line = "--" /\ x.vopen = None
  BY DEF Syntax
<1>3. CASE m.string
  <2>1. Means(m, tok).lex = "string"
    BY <1>1, <1>3 DEF Means, InCode, ModeOK, Modes
  <2>2. Lexed(m, tok).bracket = m.bracket
    BY <1>1, <1>3 DEF Lexed, Modes
  <2>3. QED
    BY <2>1, <2>2
<1>4. CASE ~m.string /\ m.comment > 0
  <2>1. Means(m, tok).lex = "comment"
    BY <1>1, <1>4 DEF Means, InCode, ModeOK, Modes
  <2>2. Lexed(m, tok).bracket = m.bracket
    BY <1>1, <1>4 DEF Lexed, Modes
  <2>3. QED
    BY <2>1, <2>2
<1>5. CASE ~m.string /\ ~(m.comment > 0) /\ m.line
  <2>1. Means(m, tok).lex = "comment"
    BY <1>1, <1>5 DEF Means, InCode, ModeOK, Modes
  <2>2. Lexed(m, tok).bracket = m.bracket
    BY <1>1, <1>5 DEF Lexed, Modes
  <2>3. QED
    BY <2>1, <2>2
<1>6. CASE ~m.string /\ ~(m.comment > 0) /\ ~m.line /\ m.cartouche > 0
  <2>1. Means(m, tok).lex = "verbatim"
    BY <1>1, <1>6 DEF Means, InCode, ModeOK, Modes
  <2>2. Lexed(m, tok).bracket = m.bracket
    BY <1>1, <1>6 DEF Lexed, Modes
  <2>3. QED
    BY <2>1, <2>2
<1>7. CASE ~m.string /\ ~(m.comment > 0) /\ ~m.line /\ ~(m.cartouche > 0)
  <2>1. InCode(m)
    BY <1>1, <1>7 DEF InCode, Modes
  <2>2. Lexed(m, tok).bracket = Up(m.bracket, "(", ")", tok)
    BY <1>1, <1>7 DEF Lexed, Modes, Up
  <2>3. Means(m, tok).lex = IF tok \in {x.open, x.line} THEN "comment" ELSE "code"
    BY <1>7, <2>1 DEF Means
  <2>4. tok \in {x.open, x.line} => Up(m.bracket, "(", ")", tok) = m.bracket
    BY <1>2 DEF Up
  <2> HIDE DEF x
  <2>5. QED
    BY <2>1, <2>2, <2>3, <2>4
<1>8. QED
  BY <1>3, <1>4, <1>5, <1>6, <1>7

LEMMA InitLean == ASSUME Init PROVE LeanInv
<1>1. SUFFICES ASSUME Quiet PROVE \E c : Counted(c, text, label, mode)
  BY DEF LeanInv
<1>2. text = <<"kw", "f">> /\ mode = Code
  BY <1>1 DEF Init, Quiet
<1>3. Len(text) = 2 /\ 3..2 = {}
  BY <1>2
<1> DEFINE c == [k \in {2} |-> 0]
<1>4. c[2] = 0
  OBVIOUS
<1>5. mode.bracket = 0
  BY <1>2 DEF Code
<1> HIDE DEF c
<1>6. Counted(c, text, label, mode)
  BY <1>3, <1>4, <1>5 DEF Counted
<1>7. QED
  BY <1>6

LEMMA LeanTyped ==
  ASSUME TextInv, ShapeInv, LeanInv, Quiet, prover = "lean4", WriteInside \/ WriteStatement
  PROVE  \E c : Counted(c, text', label', mode')
<1>1. PICK c : Counted(c, text, label, mode)
  BY DEF LeanInv
<1>2. mode.part = "stmt" /\ ModeOK(mode) /\ prover \in DOMAIN Syntax
  BY DEF WriteInside, WriteStatement, Writing, TextInv, Quiet, Syntax
<1>3. PICK tok \in kit.tokens :
        /\ Type(tok)
        /\ InCode(mode) => /\ tok # "where"
                           /\ tok = ")" => mode.bracket > 0
                           /\ tok \in {":=", "=>"} => mode.bracket > 0
  BY DEF WriteInside, WriteStatement
<1>4. tok # None
  <2>1. tok \in Tokens
    BY DEF Tokens, TextInv
  <2>2. QED
    BY <2>1, RealTokens
<1> DEFINE N == Len(text)
<1>5. /\ N \in Nat /\ Len(text') = N + 1
      /\ \A k \in 1..N : text'[k] = text[k] /\ label'[k] = label[k]
      /\ text'[N + 1] = tok /\ label'[N + 1] = Means(mode, tok) /\ mode' = Lexed(mode, tok)
  BY <1>3, Typed
<1>6. N >= 2
  <2>1. PICK e, a : Shape(prover, text, label, mode, e, a)
    BY Zenon DEF ShapeInv
  <2>2. QED
    BY <1>5, <2>1 DEF Shape
<1> DEFINE g == mode'.bracket
<1> DEFINE name == Means(mode, tok)
<1>7. /\ g = IF name.lex = "code" THEN Up(mode.bracket, "(", ")", tok) ELSE mode.bracket
      /\ name.lex = "code" => InCode(mode)
      /\ name.part = "stmt"
  <2>1. mode' = Lexed(mode, tok)
    BY <1>5
  <2>2. name.part = "stmt"
    BY <1>2, LexedPart
  <2>3. QED
    BY <1>2, <1>4, <2>1, <2>2, LexedBracket
<1>8. c[N] = mode.bracket /\ mode.bracket \in Nat
  BY <1>1, <1>2 DEF Counted
<1> HIDE DEF g, name
<1>9. g \in Nat
  BY <1>3, <1>7, <1>8 DEF Up
<1> DEFINE d == Count(c, N, N + 1, g)
<1>10. d[N + 1] = g /\ d[N] = c[N]
  BY <1>5, <1>6 DEF Count
<1> HIDE DEF d, N
<1>11. CountAt(d, text', label', N + 1)
  <2>1. (N + 1) - 1 = N
    BY <1>5
  <2>2. /\ label'[N + 1].part = "stmt" /\ label'[N + 1].lex = name.lex /\ text'[N + 1] = tok
    BY <1>5, <1>7 DEF name
  <2>3. d[N + 1] = IF name.lex = "code" THEN Up(d[N], "(", ")", tok) ELSE d[N]
    BY <1>7, <1>8, <1>10
  <2>4. name.lex = "code" => tok # "where" /\ (tok \in {":=", "=>"} => d[N + 1] > 0)
    BY <1>3, <1>7, <1>10 DEF Up
  <2>5. QED
    BY <1>9, <1>10, <2>1, <2>2, <2>3, <2>4 DEF CountAt
<1>12. CountGoesOn(text, label, text', label', c, g, mode')
  <2>1. \A k \in (N + 1)..Len(text') : k = N + 1
    BY <1>5
  <2>2. \A k \in (N + 1)..Len(text') : CountAt(Count(c, N, Len(text'), g), text', label', k)
    BY <1>5, <1>11, <2>1 DEF d
  <2>3. Len(text) = N /\ g = mode'.bracket
    BY DEF N, g
  <2>4. QED
    BY <1>5, <1>6, <1>9, <2>2, <2>3 DEF CountGoesOn
<1>13. QED
  BY <1>1, <1>12, CountOn, Zenon
\* A phrase of the grammar.
LEMMA LeanPhrased ==
  ASSUME TextInv, ShapeInv, LeanInv, Quiet, prover = "lean4", kit' = kit,
         NEW toks \in Seq(Tokens), NEW part, Phrase(toks, part), part # "head", Len(toks) >= 1,
         mode'.bracket = mode.bracket,
         part = "stmt" => /\ mode.part = "stmt" /\ toks = <<"let", "w", ":=">>,
         part = "proof" => mode.part = "stmt" /\ mode.bracket = 0,
         mode'.part = part
  PROVE  \E c : Counted(c, text', label', mode')
<1>1. PICK c : Counted(c, text, label, mode)
  BY DEF LeanInv
<1> DEFINE N == Len(text)
<1> DEFINE L == Len(text')
<1>2. Added(toks, part)
  BY Phrased, Zenon
<1>3. /\ N \in Nat /\ L = N + Len(toks) /\ Len(toks) \in Nat
      /\ \A k \in 1..N : text'[k] = text[k] /\ label'[k] = label[k]
      /\ \A j \in 1..Len(toks) : /\ text'[N + j] = toks[j]
                                 /\ label'[N + j].lex = "code" /\ label'[N + j].part = part
  BY <1>2 DEF Added
<1>4. N >= 2
  <2>1. PICK e, a : Shape(prover, text, label, mode, e, a)
    BY Zenon DEF ShapeInv
  <2>2. QED
    BY <1>3, <2>1 DEF Shape
<1> DEFINE g == mode.bracket
<1> DEFINE d == Count(c, N, L, g)
<1>5. mode.part = "stmt" => c[N] = g /\ g \in Nat
  BY <1>1 DEF Counted
<1>6. d[N] = c[N] /\ \A k \in (N + 1)..L : d[k] = g
  BY <1>3, <1>4 DEF Count
<1>7. \A k \in (N + 1)..L : k - N \in 1..Len(toks) /\ k = N + (k - N)
  BY <1>3
<1>8. \A k \in (N + 1)..L : label'[k].lex = "code" /\ label'[k].part = part /\ text'[k] = toks[k - N]
  BY <1>3, <1>7
<1> HIDE DEF d, g, N, L
<1>9. ASSUME NEW k \in (N + 1)..L PROVE CountAt(d, text', label', k)
  <2>1. label'[k].lex = "code" /\ label'[k].part = part /\ text'[k] = toks[k - N] /\ d[k] = g
    BY <1>6, <1>8
  <2>2. k - 1 = N \/ k - 1 \in (N + 1)..L
    BY <1>3
  <2>3. CASE part = "stmt"
    <3>1. d[k - 1] = g /\ g \in Nat
      BY <1>5, <1>6, <2>2, <2>3
    <3>2. toks[1] = "let" /\ toks[2] = "w" /\ toks[3] = ":=" /\ Len(toks) = 3
      BY <2>3
    <3>3. k - N \in {1, 2, 3}
      BY <1>7, <3>2
    <3>4. text'[k] \in {"let", "w", ":="}
      BY <2>1, <3>2, <3>3
    <3>5. Up(d[k - 1], "(", ")", text'[k]) = d[k]
      BY <2>1, <3>1, <3>4 DEF Up
    <3>6. text'[k] = ":=" => text'[k - 2] = "let"
      <4>1. ASSUME text'[k] = ":=" PROVE text'[k - 2] = "let"
        <5>1. k - N = 3
          BY <2>1, <3>2, <3>3, <4>1
        <5>2. k - 2 = N + 1 /\ N + 1 \in (N + 1)..L /\ (N + 1) - N = 1
          BY <1>3, <3>2, <5>1
        <5>3. text'[N + 1] = toks[1]
          BY <1>8, <5>2
        <5>4. QED
          BY <3>2, <5>2, <5>3
      <4>2. QED
        BY <4>1
    <3>7. QED
      BY <2>1, <2>3, <3>1, <3>4, <3>5, <3>6 DEF CountAt
  <2>4. CASE part = "proof"
    <3>1. CASE k - 1 = N
      <4>1. d[k - 1] = 0
        BY <1>5, <1>6, <2>4, <3>1 DEF g
      <4>2. QED
        BY <2>1, <2>4, <4>1 DEF CountAt
    <3>2. CASE k - 1 \in (N + 1)..L
      <4>1. label'[k - 1].part = "proof"
        BY <1>8, <2>4, <3>2
      <4>2. QED
        BY <2>1, <2>4, <4>1 DEF CountAt
    <3>3. QED
      BY <2>2, <3>1, <3>2
  <2>5. CASE part # "stmt" /\ part # "proof"
    BY <2>1, <2>5 DEF CountAt
  <2>6. QED
    BY <2>3, <2>4, <2>5
<1>10. CountGoesOn(text, label, text', label', c, g, mode')
  <2>1. Len(text) = N /\ Len(text') = L /\ g = mode.bracket
    BY DEF N, L, g
  <2>2. \A k \in (N + 1)..L : CountAt(Count(c, N, L, g), text', label', k)
    BY <1>9 DEF d
  <2>3. L \in Nat /\ L > N
    BY <1>3
  <2>4. QED
    BY <1>3, <1>4, <1>5, <2>1, <2>2, <2>3 DEF CountGoesOn
<1>11. QED
  BY <1>1, <1>10, CountOn, Zenon

LEMMA LeanProof ==
  ASSUME TextInv, ShapeInv, LeanInv, Quiet, prover = "lean4", WriteProof
  PROVE  \E c : Counted(c, text', label', mode')
<1>1. PICK c : Counted(c, text, label, mode)
  BY DEF LeanInv
<1>2. mode.part = "proof" /\ ModeOK(mode) /\ prover \in DOMAIN Syntax
  BY DEF WriteProof, Writing, TextInv, Quiet, Syntax
<1>3. PICK tok \in {"w", "nl"} : Type(tok)
  BY DEF WriteProof
<1> DEFINE N == Len(text)
<1>4. /\ N \in Nat /\ Len(text') = N + 1
      /\ \A k \in 1..N : text'[k] = text[k] /\ label'[k] = label[k]
      /\ label'[N + 1] = Means(mode, tok) /\ mode' = Lexed(mode, tok)
  BY <1>3, Typed
<1>5. mode'.part = "proof" /\ label'[N + 1].part = "proof"
  BY <1>2, <1>4, LexedPart
<1>6. N >= 2 /\ label'[N].part = "proof"
  <2>1. PICK e, a : Shape(prover, text, label, mode, e, a)
    BY Zenon DEF ShapeInv
  <2>2. a = N /\ e \in 2..N /\ Ending("lean4", text, e, N)
    BY <1>2, <2>1 DEF Shape, Over
  <2>3. e + 1 <= N
    BY <1>4, <2>2 DEF Ending
  <2>4. PartOf(N, e, N) = "proof" /\ N \in 1..N /\ N >= 2
    BY <1>4, <2>2, <2>3 DEF PartOf
  <2>5. label[N].part = "proof"
    BY <2>1, <2>2, <2>4 DEF Shape
  <2>6. QED
    BY <1>4, <2>4, <2>5
<1> HIDE DEF N
<1>7. CountAt(Count(c, N, N + 1, 0), text', label', N + 1)
  <2>1. (N + 1) - 1 = N
    BY <1>4
  <2>2. QED
    BY <1>5, <1>6, <2>1 DEF CountAt
<1>8. CountGoesOn(text, label, text', label', c, 0, mode')
  <2>1. \A k \in (N + 1)..Len(text') : k = N + 1
    BY <1>4
  <2>2. \A k \in (N + 1)..Len(text') : CountAt(Count(c, N, Len(text'), 0), text', label', k)
    BY <1>4, <1>7, <2>1
  <2>3. Len(text) = N
    BY DEF N
  <2>4. QED
    BY <1>4, <1>5, <1>6, <2>2, <2>3 DEF CountGoesOn
<1>9. QED
  BY <1>1, <1>8, CountOn, Zenon

LEMMA LeanStep ==
  ASSUME TextInv, ShapeInv, LeanInv, Next
  PROVE  LeanInv'
<1>0. kit' = kit /\ ModeOK(mode)
  BY Zenon DEF TextInv, Next, Write, WriteInside, WriteStatement, WriteLet, EndStatement, WriteProof,
               NextCommand, Type, OpenScope, DeclareLocale, CloseScope, Declare, DeclareIn, WriteProse
<1>1. SUFFICES ASSUME Quiet, prover = "lean4" PROVE \E c : Counted(c, text', label', mode')
  <2>1. (Quiet' <=> Quiet) /\ prover' = prover
    BY <1>0, QuietKept DEF prover
  <2>2. QED
    BY <2>1 DEF LeanInv
<1>2. CASE WriteInside \/ WriteStatement
  BY <1>1, <1>2, LeanTyped
<1>3. CASE WriteProof
  BY <1>1, <1>3, LeanProof
<1>4. CASE WriteLet
  <2>1. Phrase(<<"let", "w", ":=">>, "stmt") /\ mode' = mode /\ mode.part = "stmt"
    BY <1>4 DEF WriteLet, Writing
  <2> DEFINE toks == <<"let", "w", ":=">>
  <2>2. toks \in Seq(Tokens) /\ Len(toks) >= 1
    BY DEF Tokens
  <2>3. toks = <<"let", "w", ":=">> /\ Phrase(toks, "stmt")
    BY <2>1
  <2> HIDE DEF toks
  <2>4. QED
    BY <1>0, <1>1, <2>1, <2>2, <2>3, LeanPhrased
<1>5. CASE EndStatement
  <2>1. PICK end \in Ends[prover] : Phrase(end, "proof")
    BY <1>5, Zenon DEF EndStatement
  <2>2. mode' = [mode EXCEPT !.part = "proof"] /\ mode.part = "stmt" /\ mode.bracket = 0
    BY <1>5 DEF EndStatement, Writing
  <2>3. mode'.part = "proof" /\ mode'.bracket = mode.bracket
    BY <1>0, <2>2 DEF ModeOK, Modes
  <2>4. end \in {<<":=">>, <<"where">>, <<"nl", "|", "w", "=>">>}
    BY <1>1, <2>1 DEF Ends
  <2>5. end \in Seq(Tokens) /\ Len(end) >= 1
    <3>1. {"nl", ":=", "where", "|", "w", "=>"} \subseteq Tokens
      BY DEF Tokens
    <3>2. CASE end = <<":=">>
      BY <3>1, <3>2
    <3>3. CASE end = <<"where">>
      BY <3>1, <3>3
    <3>4. CASE end = <<"nl", "|", "w", "=>">>
      BY <3>1, <3>4
    <3>5. QED
      BY <2>4, <3>2, <3>3, <3>4
  <2>6. QED
    BY <1>0, <1>1, <2>1, <2>2, <2>3, <2>5, LeanPhrased
<1>6. CASE NextCommand
  <2>1. PICK next \in {<<"nl", "kw", "w">>, <<"nl", "cmd", "w">>} : Phrase(next, "after")
    BY <1>6 DEF NextCommand
  <2>2. mode' = [mode EXCEPT !.part = "after"]
    BY <1>6 DEF NextCommand
  <2>3. mode'.part = "after" /\ mode'.bracket = mode.bracket
    BY <1>0, <2>2 DEF ModeOK, Modes
  <2>4. next \in Seq(Tokens) /\ Len(next) >= 1
    <3>1. {"nl", "kw", "cmd", "w"} \subseteq Tokens
      BY DEF Tokens
    <3>2. CASE next = <<"nl", "kw", "w">>
      BY <3>1, <3>2
    <3>3. CASE next = <<"nl", "cmd", "w">>
      BY <3>1, <3>3
    <3>4. QED
      BY <2>1, <3>2, <3>3
  <2>5. QED
    BY <1>0, <1>1, <2>1, <2>3, <2>4, LeanPhrased
<1>7. CASE Write \/ OpenScope \/ DeclareLocale \/ CloseScope \/ Declare \/ DeclareIn \/ WriteProse
  <2>1. kit.job = "lex" \/ kit.job = "scope"
    BY <1>7, Zenon DEF Write, OpenScope, DeclareLocale, CloseScope, Declare, DeclareIn, WriteProse, Scoping
  <2>2. QED
    BY <1>1, <2>1 DEF Quiet
<1>8. QED
  BY <1>2, <1>3, <1>4, <1>5, <1>6, <1>7 DEF Next

\* The brackets of every Lean statement are counted.
THEOREM LeanCounted == Spec => []LeanInv
<1>1. ASSUME LeanInv, UNCHANGED vars PROVE LeanInv'
  BY <1>1 DEF LeanInv, Quiet, vars, prover
<1>2. ASSUME TextRead, ShapeInv, LeanInv, Next PROVE LeanInv'
  <2>1. CASE Quiet
    BY <1>2, <2>1, LeanStep DEF TextRead, Quiet
  <2>2. CASE ~Quiet
    BY <1>2, <2>2, KitKept, QuietKept DEF LeanInv
  <2>3. QED
    BY <2>1, <2>2
<1>3. QED
  BY <1>1, <1>2, TextsRead, StatementsShaped, InitLean, PTL DEF Spec
-----------------------------------------------------------------------------
(* Lean's statements outside the shapes its extractor misreads.            *)

\* PlainLean, place by place.
LEMMA PlainAt ==
  ASSUME TextInv, Quiet, prover = "lean4", Plain,
         NEW e, NEW a, Shape(prover, text, label, mode, e, a)
  PROVE  /\ \A k \in 3..e : /\ text[k] # "let"
                            /\ text[k] \in StatementMarks => label[k].lex = "code"
         /\ BarEnds(text, e) \/ e + 4 > a \/ text[e + 1] # "nl" \/ text[e + 2] # "|"
              \/ text[e + 3] # "w" \/ text[e + 4] # "=>"
<1>0. /\ text \in Seq(Tokens) /\ Len(text) \in Nat /\ e \in 2..Len(text) /\ a \in e..Len(text)
      /\ DOMAIN text = 1..Len(text)
  BY DEF TextInv, Shape
<1>1. \A k \in 1..Len(text) : label[k].part = PartOf(k, e, a)
  BY DEF Shape
<1>2. ASSUME NEW k \in 3..e
      PROVE  /\ text[k] # "let"
             /\ text[k] \in StatementMarks => label[k].lex = "code"
             /\ LineInitial(text, k, 0) => \A j \in 1..Len(text) : text[j] = "=>" => label[j].part = "stmt"
  <2>1. k \in DOMAIN text /\ PartOf(k, e, a) = "stmt"
    BY <1>0 DEF PartOf
  <2>2. label[k].part = "stmt"
    BY <1>0, <1>1, <2>1
  <2>3. k \in {j \in DOMAIN text : label[j].part = "stmt"}
    BY <2>1, <2>2
  <2>4. PlainLean
    BY DEF Plain
  <2>5. QED
    BY <1>0, <2>3, <2>4, Zenon DEF PlainLean
<1>3. ASSUME e + 4 <= a, text[e + 1] = "nl", text[e + 2] = "|", text[e + 3] = "w", text[e + 4] = "=>"
      PROVE  BarEnds(text, e)
  <2>1. e + 4 \in 1..Len(text) /\ PartOf(e + 4, e, a) = "proof"
    BY <1>0, <1>3 DEF PartOf
  <2>2. label[e + 4].part # "stmt"
    BY <1>1, <2>1
  <2>3. \A k \in 3..e : ~LineInitial(text, k, 0)
    BY <1>2, <1>3, <2>1, <2>2
  <2>4. e + 4 <= Len(text)
    BY <2>1
  <2>5. QED
    BY <1>3, <2>3, <2>4 DEF BarEnds
<1>4. e + 4 <= a \/ e + 4 > a
  BY <1>0
<1>5. QED
  BY <1>2, <1>3, <1>4

LEMMA LeanSigned ==
  ASSUME TextInv, Quiet, prover = "lean4", Plain,
         NEW e, NEW a, Shape(prover, text, label, mode, e, a),
         NEW c, Counted(c, text, label, mode)
  PROVE  Signed(text, c, e)
<1>0. /\ text \in Seq(Tokens) /\ Len(text) \in Nat /\ e \in 2..Len(text) /\ a \in e..Len(text)
      /\ text[1] = "kw" /\ text[2] = "f"
  BY DEF TextInv, Shape
<1>1. \A k \in 3..e : /\ text[k] # "let"
                      /\ text[k] \in StatementMarks => label[k].lex = "code"
  BY PlainAt
<1>2. ASSUME NEW k \in 3..e
      PROVE  /\ c[k] \in Nat /\ c[k] = Up(c[k - 1], "(", ")", text[k])
             /\ text[k] \in {":=", "=>"} => c[k] > 0
             /\ text[k] # "where"
  <2>1. k \in 1..Len(text) /\ k \in 3..Len(text) /\ PartOf(k, e, a) = "stmt"
    BY <1>0 DEF PartOf
  <2>2. label[k].part = "stmt"
    BY <2>1 DEF Shape
  <2>3. /\ c[k] \in Nat /\ c[k] = IF label[k].lex = "code" THEN Up(c[k - 1], "(", ")", text[k]) ELSE c[k - 1]
        /\ label[k].lex = "code" => /\ text[k] # "where"
                                    /\ text[k] \in {":=", "=>"} => c[k] > 0 \/ text[k - 2] = "let"
    BY <2>1, <2>2 DEF Counted, CountAt
  <2>4. text[k] \in {":=", "where", "(", ")", "=>"} => label[k].lex = "code"
    BY <1>1 DEF StatementMarks
  <2>5. c[k] = Up(c[k - 1], "(", ")", text[k])
    BY <2>3, <2>4 DEF Up
  <2>6. text[k - 2] # "let"
    <3>1. k - 2 = 1 \/ k - 2 = 2 \/ k - 2 \in 3..e
      BY <1>0
    <3>2. QED
      BY <1>0, <1>1, <3>1
  <2>7. QED
    BY <2>3, <2>4, <2>5, <2>6
<1>3. c[2] = 0
  BY DEF Counted
<1>4. QED
  BY <1>0, <1>2, <1>3 DEF Signed

LEMMA LeanFinished ==
  ASSUME TextInv, Quiet, prover = "lean4", Plain,
         NEW e, NEW a, Shape(prover, text, label, mode, e, a),
         NEW c, Counted(c, text, label, mode),
         NEW z, SpanTo(text, label, a, prover, z), mode.part # "stmt"
  PROVE  /\ e + 1 <= z /\ text[e + 1] # "w"
         /\ Finished(SubSeq(text, 1, z), c, e)
<1>0. /\ text \in Seq(Tokens) /\ Len(text) \in Nat /\ e \in 2..Len(text) /\ a \in e..Len(text)
      /\ z \in 0..Len(text)
  BY DEF TextInv, Shape, SpanTo
<1> DEFINE u == SubSeq(text, 1, z)
<1>1. /\ Len(u) = z /\ \A k \in 1..z : u[k] = text[k]
  BY <1>0
<1>2. \/ e + 1 <= a /\ text[e + 1] \in {":=", "where"}
      \/ /\ e + 4 <= a /\ text[e + 1] = "nl" /\ text[e + 2] = "|"
         /\ text[e + 3] = "w" /\ text[e + 4] = "=>"
  BY DEF Shape, Over, Ending
<1>3. e + 1 \in 1..Len(text) /\ PartOf(e + 1, e, a) = "proof" /\ PartOf(e, e, a) # "proof"
  BY <1>0, <1>2 DEF PartOf
<1>4. c[e] = 0
  <2>1. e \in 1..Len(text) /\ e + 1 \in 3..Len(text) /\ (e + 1) - 1 = e
    BY <1>0, <1>3
  <2>2. label[e + 1].part = "proof" /\ label[e].part # "proof"
    BY <1>3, <2>1 DEF Shape
  <2>3. CountAt(c, text, label, e + 1)
    BY <2>1 DEF Counted
  <2>4. QED
    BY <2>1, <2>2, <2>3 DEF CountAt
<1>5. ASSUME NEW k \in (e + 1)..a, text[k] \notin Space PROVE k <= z
  <2>1. k \in 1..a /\ k \in 1..Len(text) /\ PartOf(k, e, a) # "stmt"
    BY <1>0 DEF PartOf
  <2>2. label[k].lex # "comment"
    BY <2>1 DEF Shape
  <2>3. QED
    BY <1>5, <2>1, <2>2 DEF SpanTo
<1>6. CASE e + 1 <= a /\ text[e + 1] \in {":=", "where"}
  <2>1. e + 1 \in (e + 1)..a /\ text[e + 1] \notin Space
    BY <1>0, <1>6 DEF Space
  <2>2. e + 1 <= z
    BY <1>5, <2>1
  <2>3. e + 1 \in 1..z
    BY <1>0, <2>2
  <2>4. MarkEnds(u, e)
    <3> HIDE DEF u
    <3>1. QED
      BY <1>1, <1>6, <2>2, <2>3 DEF MarkEnds
  <2>5. QED
    BY <1>4, <1>6, <2>2, <2>4 DEF Finished
<1>7. CASE /\ e + 4 <= a /\ text[e + 1] = "nl" /\ text[e + 2] = "|"
           /\ text[e + 3] = "w" /\ text[e + 4] = "=>"
  <2>1. e + 4 \in (e + 1)..a /\ text[e + 4] \notin Space
    BY <1>0, <1>7 DEF Space
  <2>2. e + 4 <= z
    BY <1>5, <2>1
  <2>3. e + 1 \in 1..z /\ e + 2 \in 1..z /\ e + 3 \in 1..z /\ e + 4 \in 1..z
    BY <1>0, <2>2
  <2>4. ~(e + 4 > a)
    BY <1>0, <1>7
  <2>5. BarEnds(text, e)
    BY <1>7, <2>4, PlainAt
  <2>6. ASSUME NEW k \in 3..e PROVE ~LineInitial(u, k, 0)
    <3>1. k \in 1..z
      BY <1>0, <2>2
    <3>2. ~LineInitial(text, k, 0)
      BY <2>5 DEF BarEnds
    <3>3. QED
      BY <1>0, <3>1, <3>2, LineInitialPrefix
  <2>7. u[e + 1] = "nl" /\ u[e + 2] = "|" /\ u[e + 3] = "w" /\ u[e + 4] = "=>"
    BY <1>1, <1>7, <2>3
  <2>8. BarEnds(u, e)
    <3> HIDE DEF u
    <3>1. QED
      BY <1>1, <2>2, <2>6, <2>7 DEF BarEnds
  <2>9. e + 1 <= z /\ text[e + 1] # "w"
    BY <1>7, <2>3
  <2>10. QED
    BY <1>4, <2>8, <2>9 DEF Finished
<1>8. QED
  BY <1>2, <1>6, <1>7

\* A prefix of a signed text is signed.
LEMMA SignedPrefix ==
  ASSUME NEW t \in Seq(Tokens), NEW c, NEW e, Signed(t, c, e),
         NEW z \in 2..Len(t), NEW n \in 2..e, n <= z
  PROVE  Signed(SubSeq(t, 1, z), c, n)
<1> DEFINE u == SubSeq(t, 1, z)
<1>1. Len(t) \in Nat /\ Len(u) = z /\ \A k \in 1..z : u[k] = t[k]
  OBVIOUS
<1>2. e \in 2..Len(t)
  BY DEF Signed
<1> HIDE DEF u
<1>3. 1 \in 1..z /\ 2 \in 1..z /\ n \in 2..Len(u) /\ \A k \in 3..n : k \in 1..z /\ k \in 3..e
  BY <1>1, <1>2
<1>4. u[1] = "kw" /\ u[2] = "f" /\ c[2] = 0
  BY <1>1, <1>3 DEF Signed
<1>5. ASSUME NEW k \in 3..n
      PROVE  /\ c[k] \in Nat /\ c[k] = Up(c[k - 1], "(", ")", u[k])
             /\ u[k] \in {":=", "=>"} => c[k] > 0
             /\ u[k] # "where"
  <2>1. u[k] = t[k] /\ k \in 3..e
    BY <1>1, <1>3
  <2>2. QED
    BY <2>1 DEF Signed
<1>6. Signed(u, c, n)
  BY <1>3, <1>4, <1>5 DEF Signed
<1>7. QED
  BY <1>6 DEF u

LEMMA LeanExtracts ==
  ASSUME TextInv, LeanInv, Quiet, prover = "lean4", Plain,
         NEW e, NEW a, Shape(prover, text, label, mode, e, a),
         mode.part \in {"stmt", "proof", "after"}, NEW z, SpanTo(text, label, a, prover, z)
  PROVE  Extracts(text, label, mode, prover, e, z)
<1>0. /\ text \in Seq(Tokens) /\ Len(text) \in Nat /\ e \in 2..Len(text) /\ a \in e..Len(text)
      /\ z \in 0..Len(text)
  BY DEF TextInv, Shape, SpanTo
<1>1. PICK c : Counted(c, text, label, mode)
  BY Zenon DEF LeanInv
<1>2. Signed(text, c, e)
  BY <1>1, LeanSigned
<1>3. 2 <= z
  <2>1. 2 \in 1..a /\ 2 \in 1..Len(text) /\ PartOf(2, e, a) = "head"
    BY <1>0 DEF PartOf
  <2>2. text[2] = "f" /\ label[2].lex = "code"
    BY <2>1 DEF Shape
  <2>3. QED
    BY <2>1, <2>2 DEF SpanTo, Space
<1> DEFINE u == SubSeq(text, 1, z)
<1>4. mode.part = "stmt" => z \in 2..e /\ Signed(u, c, z)
  <2>1. SUFFICES ASSUME mode.part = "stmt" PROVE z \in 2..e /\ Signed(u, c, z)
    OBVIOUS
  <2>2. z \in 2..e /\ z \in 2..Len(text) /\ z <= z
    BY <1>0, <1>3, <2>1 DEF Shape
  <2>3. QED
    BY <1>0, <1>2, <2>2, SignedPrefix
<1>5. mode.part # "stmt" => /\ e + 1 <= z /\ text[e + 1] # "w"
                            /\ Finished(u, c, e) /\ Signed(u, c, e)
  <2>1. SUFFICES ASSUME mode.part # "stmt"
                 PROVE  /\ e + 1 <= z /\ text[e + 1] # "w"
                        /\ Finished(u, c, e) /\ Signed(u, c, e)
    OBVIOUS
  <2>2. e + 1 <= z /\ text[e + 1] # "w" /\ Finished(u, c, e)
    BY <1>1, <2>1, LeanFinished
  <2>3. z \in 2..Len(text) /\ e \in 2..e /\ e <= z
    BY <1>0, <1>3, <2>2
  <2>4. QED
    BY <1>0, <1>2, <2>2, <2>3, SignedPrefix
<1>6. SUFFICES ASSUME NEW r, Reworded(text, r)
               PROVE  /\ mode.part = "stmt" => ExtractStatement(SubSeq(r, 1, z), "f", "lean4") = NoStatement
                      /\ mode.part # "stmt" => ExtractStatement(SubSeq(r, 1, z), "f", "lean4")
                                                 = SubSeq(SubSeq(r, 1, z), 1, e + 1)
  BY <1>0, <1>5, TakesOn
<1> DEFINE v == SubSeq(r, 1, z)
<1>7. Reworded(u, v) /\ Len(u) = z
  BY <1>0, <1>6, RewordedPrefix
<1> HIDE DEF u, v
<1>8. v \in Seq(Tokens) /\ Len(v) = z
  BY <1>7 DEF Reworded
<1>9. mode.part = "stmt" => ExtractStatement(v, "f", "lean4") = NoStatement
  BY <1>4, <1>7, <1>8, SignedSame, LeanStatementIs
<1>10. mode.part # "stmt" => ExtractStatement(v, "f", "lean4") = SubSeq(v, 1, e + 1)
  BY <1>5, <1>7, <1>8, SignedSame, LeanStatementIs
<1>11. QED
  BY <1>9, <1>10 DEF v

LEMMA LeanKept ==
  ASSUME TextInv, ShapeInv, LeanInv, Quiet, prover = "lean4"
  PROVE  StatementKept
<1>1. SUFFICES ASSUME Plain PROVE StatementKept
  BY DEF StatementKept
<1>2. PICK e, a : Shape(prover, text, label, mode, e, a)
  BY Zenon DEF ShapeInv
<1>3. mode.part \in {"stmt", "proof", "after"}
  BY Zenon DEF ShapeInv
<1>4. PICK z : /\ SpanTo(text, label, a, prover, z)
               /\ \A r : Reworded(text, r) => SpanText(r, prover) = SubSeq(r, 1, z)
  BY <1>2, <1>3, SpanIs
<1>5. Extracts(text, label, mode, prover, e, z)
  BY <1>1, <1>2, <1>3, <1>4, LeanExtracts
<1>6. QED
  BY <1>2, <1>3, <1>4, <1>5, KeptBy

-----------------------------------------------------------------------------
(* Isabelle's header.                                                      *)

\* Neither a marginal comment nor a locale is written, and what ends a statement
\* stands in it only inside strings, cartouches and comments.
SaidIsabelle(tok, l) ==
  /\ tok \notin {"<m>", "locale"}
  /\ l.part = "stmt" /\ l.lex = "code" => tok \notin {"by", ".."}
IsabelleInv ==
  Quiet /\ prover = "isabelle" => \A k \in 1..Len(text) : SaidIsabelle(text[k], label[k])

LEMMA InitIsabelle == ASSUME Init PROVE IsabelleInv
<1>1. SUFFICES ASSUME Quiet PROVE \A k \in 1..Len(text) : SaidIsabelle(text[k], label[k])
  BY DEF IsabelleInv
<1>2. text = <<"kw", "f">>
  BY <1>1 DEF Init, Quiet
<1>3. Len(text) = 2 /\ text[1] = "kw" /\ text[2] = "f" /\ \A k \in 1..Len(text) : k = 1 \/ k = 2
  BY <1>2
<1>4. \A k \in 1..Len(text) : text[k] \notin {"<m>", "locale", "by", ".."}
  BY <1>3
<1>5. QED
  BY <1>4 DEF SaidIsabelle

LEMMA IsabelleTyped ==
  ASSUME TextInv, IsabelleInv, NEW tok, Type(tok), Quiet, prover = "isabelle",
         SaidIsabelle(tok, Means(mode, tok))
  PROVE  IsabelleInv'
<1>1. /\ Len(text) \in Nat /\ Len(text') = Len(text) + 1
      /\ \A k \in 1..Len(text) : text'[k] = text[k] /\ label'[k] = label[k]
      /\ text'[Len(text) + 1] = tok /\ label'[Len(text) + 1] = Means(mode, tok)
  BY Typed
<1> DEFINE name == Means(mode, tok)
<1> HIDE DEF name
<1>2. ASSUME NEW k \in 1..Len(text') PROVE SaidIsabelle(text'[k], label'[k])
  <2>1. CASE k \in 1..Len(text)
    BY <1>1, <2>1 DEF IsabelleInv
  <2>2. CASE k \notin 1..Len(text)
    <3>1. k = Len(text) + 1
      BY <1>1, <2>2
    <3>2. QED
      BY <1>1, <3>1
  <2>3. QED
    BY <2>1, <2>2
<1>3. QED
  BY <1>2 DEF IsabelleInv

LEMMA IsabellePhrased ==
  ASSUME TextInv, IsabelleInv, Quiet, prover = "isabelle",
         NEW toks \in Seq(Tokens), NEW part, Phrase(toks, part),
         \A j \in 1..Len(toks) : toks[j] \notin {"<m>", "locale"},
         part = "stmt" => \A j \in 1..Len(toks) : toks[j] \notin {"by", ".."}
  PROVE  IsabelleInv'
<1>1. Added(toks, part)
  BY Phrased, Zenon
<1>2. ASSUME NEW k \in 1..Len(text') PROVE SaidIsabelle(text'[k], label'[k])
  <2>1. CASE k \in 1..Len(text)
    BY <1>1, <2>1 DEF IsabelleInv, Added
  <2>2. CASE k \notin 1..Len(text)
    <3>1. k - Len(text) \in 1..Len(toks) /\ k = Len(text) + (k - Len(text))
      BY <1>1, <2>2 DEF Added
    <3>2. text'[k] = toks[k - Len(text)] /\ label'[k].part = part
      BY <1>1, <3>1 DEF Added
    <3>3. QED
      BY <3>1, <3>2 DEF SaidIsabelle
  <2>3. QED
    BY <2>1, <2>2
<1>3. QED
  BY <1>2 DEF IsabelleInv

LEMMA IsabelleStep ==
  ASSUME TextInv, IsabelleInv, Next
  PROVE  IsabelleInv'
<1>0. kit' = kit /\ kit \in Kits /\ ModeOK(mode)
  BY Zenon DEF TextInv, Next, Write, WriteInside, WriteStatement, WriteLet, EndStatement, WriteProof,
               NextCommand, Type, OpenScope, DeclareLocale, CloseScope, Declare, DeclareIn, WriteProse
<1>1. SUFFICES ASSUME Quiet, prover = "isabelle" PROVE IsabelleInv'
  BY <1>0, QuietKept DEF IsabelleInv, prover
<1>2. kit.job = "statement" /\ \A tok \in kit.tokens : tok \notin {"<m>", "locale"}
  BY <1>1 DEF Quiet
<1>3. CASE WriteInside
  <2>1. PICK tok \in kit.tokens : Type(tok) /\ ~InCode(mode)
    BY <1>3 DEF WriteInside
  <2>2. Means(mode, tok).lex # "code"
    BY <2>1 DEF Means
  <2>3. SaidIsabelle(tok, Means(mode, tok))
    BY <1>2, <2>2 DEF SaidIsabelle
  <2>4. QED
    BY <1>1, <2>1, <2>3, IsabelleTyped
<1>4. CASE WriteStatement
  <2>1. PICK tok \in kit.tokens : Type(tok) /\ tok \notin {"by", ".."}
    BY <1>4 DEF WriteStatement
  <2>2. SaidIsabelle(tok, Means(mode, tok))
    BY <1>2, <2>1 DEF SaidIsabelle
  <2>3. QED
    BY <1>1, <2>1, <2>2, IsabelleTyped
<1>5. CASE WriteProof
  <2>1. PICK tok \in {"w", "nl"} : Type(tok)
    BY <1>5 DEF WriteProof
  <2>2. SaidIsabelle(tok, Means(mode, tok))
    BY <2>1 DEF SaidIsabelle
  <2>3. QED
    BY <1>1, <2>1, <2>2, IsabelleTyped
<1>6. CASE WriteLet
  <2> DEFINE toks == <<"let", "w", ":=">>
  <2>1. Phrase(toks, "stmt")
    BY <1>6 DEF WriteLet
  <2>2. toks \in Seq(Tokens) /\ \A j \in 1..Len(toks) : toks[j] \notin {"<m>", "locale", "by", ".."}
    BY DEF Tokens
  <2> HIDE DEF toks
  <2>3. QED
    BY <1>1, <2>1, <2>2, IsabellePhrased
<1>7. CASE EndStatement
  <2>1. PICK end \in Ends[prover] : Phrase(end, "proof")
    BY <1>7, Zenon DEF EndStatement
  <2>2. end = <<"by">> \/ end = <<"..", "nl">>
    BY <1>1, <2>1 DEF Ends
  <2>3. end \in Seq(Tokens) /\ \A j \in 1..Len(end) : end[j] \notin {"<m>", "locale"}
    <3>1. {"by", "..", "nl"} \subseteq Tokens
      BY DEF Tokens
    <3>2. CASE end = <<"by">>
      BY <3>1, <3>2
    <3>3. CASE end = <<"..", "nl">>
      BY <3>1, <3>3
    <3>4. QED
      BY <2>2, <3>2, <3>3
  <2>4. QED
    BY <1>1, <2>1, <2>3, IsabellePhrased
<1>8. CASE NextCommand
  <2>1. PICK next \in {<<"nl", "kw", "w">>, <<"nl", "cmd", "w">>} : Phrase(next, "after")
    BY <1>8 DEF NextCommand
  <2>2. next \in Seq(Tokens) /\ \A j \in 1..Len(next) : next[j] \notin {"<m>", "locale"}
    <3>1. {"nl", "kw", "cmd", "w"} \subseteq Tokens
      BY DEF Tokens
    <3>2. CASE next = <<"nl", "kw", "w">>
      BY <3>1, <3>2
    <3>3. CASE next = <<"nl", "cmd", "w">>
      BY <3>1, <3>3
    <3>4. QED
      BY <2>1, <3>2, <3>3
  <2>3. QED
    BY <1>1, <2>1, <2>2, IsabellePhrased
<1>9. CASE Write \/ OpenScope \/ DeclareLocale \/ CloseScope \/ Declare \/ DeclareIn \/ WriteProse
  <2>1. kit.job = "lex" \/ kit.job = "scope"
    BY <1>9, Zenon DEF Write, OpenScope, DeclareLocale, CloseScope, Declare, DeclareIn, WriteProse, Scoping
  <2>2. QED
    BY <1>2, <2>1
<1>10. QED
  BY <1>3, <1>4, <1>5, <1>6, <1>7, <1>8, <1>9 DEF Next

\* What ends an Isabelle statement is never read inside it.
THEOREM IsabelleSaid == Spec => []IsabelleInv
<1>1. ASSUME IsabelleInv, UNCHANGED vars PROVE IsabelleInv'
  BY <1>1 DEF IsabelleInv, Quiet, vars, prover
<1>2. ASSUME TextRead, IsabelleInv, Next PROVE IsabelleInv'
  <2>1. CASE Quiet
    BY <1>2, <2>1, IsabelleStep DEF TextRead, Quiet
  <2>2. CASE ~Quiet
    BY <1>2, <2>2, KitKept, QuietKept DEF IsabelleInv
  <2>3. QED
    BY <2>1, <2>2
<1>3. QED
  BY <1>1, <1>2, TextsRead, InitIsabelle, PTL DEF Spec

\* Where a header that begins the text may end.
Ended(t, s) == EndsHeader(t, s, Walk(t)[s - 1], 1 - 1, \E j \in 1..s - 1 : t[j] = "str")
Breaks(t) ==
  {l - 1 : l \in {s \in LineStarts(t) : s > 1 /\ Ended(t, s)}}
  \cup {k - 1 : k \in {j \in 1..Len(t) : Cuts(t, j, Walk(t)[j - 1])}}

LEMMA HeaderIs ==
  ASSUME NEW t \in Seq(Tokens), Len(t) >= 2, t[1] = "kw", t[2] = "f"
  PROVE  HeaderOf(t, "f") = SubSeq(t, 1, Min(Breaks(t) \cup {Len(t)}))
<1>1. Locate(t, "f") # {} /\ Min(Locate(t, "f")) = 1
  BY Located
<1>2. LineOf(t, 1) = 1
  <2> DEFINE T == {s \in LineStarts(t) : s <= 1}
  <2>1. 1 \in LineStarts(t) /\ \A s \in LineStarts(t) : s \in Nat /\ s >= 1
    <3>1. 1 \in 1..Len(t)
      OBVIOUS
    <3>2. QED
      BY <3>1 DEF LineStarts
  <2>2. T \in SUBSET Nat /\ 1 \in T /\ \A s \in T : s = 1
    BY <2>1
  <2>3. LineOf(t, 1) = Max(T)
    BY DEF LineOf
  <2> HIDE DEF T
  <2>4. \A s \in T : s <= 1
    BY <2>2
  <2>5. Max(T) \in T
    BY <2>2, <2>4, MaxIs
  <2>6. QED
    BY <2>2, <2>3, <2>5
<1>3. HeaderOf(t, "f") = HeaderAt(t, 1, 1)
  BY <1>1, <1>2 DEF HeaderOf
<1>4. SubSeq(t, 1, Len(t)) = t
  OBVIOUS
<1>5. HeaderAt(t, 1, 1) = Header(t, 1, 1, Walk(t))
  BY <1>4 DEF HeaderAt
<1>6. Header(t, 1, 1, Walk(t)) = SubSeq(t, 1, Min(Breaks(t) \cup {Len(t)}))
  BY Zenon DEF Header, Breaks, Ended
<1>7. QED
  BY <1>3, <1>5, <1>6

\* A changed word moves none of them.
LEMMA BreaksSame ==
  ASSUME NEW t, NEW r, Reworded(t, r)
  PROVE  Breaks(r) = Breaks(t)
<1>1. /\ t \in Seq(Tokens) /\ Len(r) = Len(t) /\ Len(t) \in Nat /\ LineStarts(r) = LineStarts(t)
      /\ LineStarts(t) \subseteq 1..Len(t)
  BY RewordedLines DEF Reworded, LineStarts
<1>2. \A s \in 1..Len(t) : /\ LineEnd(r, s) = LineEnd(t, s) /\ First(r, s) = First(t, s)
                           /\ IsBlank(r, s) <=> IsBlank(t, s)
  <2>1. \A s \in 1..Len(t) : s \in Nat \ {0}
    OBVIOUS
  <2>2. QED
    BY <2>1, RewordedLines
<1>3. \A s \in 1..Len(t) : \A c \in {"kw", "locale", "cmd", "by"} : FirstToken(r, s) = c <=> FirstToken(t, s) = c
  BY RewordedFirst
<1>4. \A c \in {"str", "by", "..", "sp"} : \A j \in 1..Len(t) : r[j] = c <=> t[j] = c
  BY RewordedTokens
<1>5. \A k \in 1..Len(t) : Walk(r)[k - 1] = Walk(t)[k - 1]
  <2>1. \A k \in 1..Len(t) : k - 1 \in 0..Len(t)
    OBVIOUS
  <2>2. QED
    BY <2>1, RewordedWalk
<1>6. ASSUME NEW s \in 1..Len(t) PROVE Ended(r, s) <=> Ended(t, s)
  <2> DEFINE w == Walk(t)[s - 1]
  <2>1. Walk(r)[s - 1] = w
    BY <1>5
  <2>2. Indent(r, s) = Indent(t, s)
    BY <1>2 DEF Indent
  <2>3. (\E j \in 1..s - 1 : r[j] = "str") <=> (\E j \in 1..s - 1 : t[j] = "str")
    BY <1>1, <1>4
  <2>4. /\ IsBlank(r, s) <=> IsBlank(t, s)
        /\ IsDecl(r, s) <=> IsDecl(t, s)
        /\ FirstToken(r, s) = "cmd" <=> FirstToken(t, s) = "cmd"
        /\ FirstToken(r, s) = "by" <=> FirstToken(t, s) = "by"
    BY <1>2, <1>3 DEF IsDecl
  <2> HIDE DEF w
  <2>5. Ended(r, s) <=> EndsHeader(r, s, w, 1 - 1, \E j \in 1..s - 1 : r[j] = "str")
    BY <2>1, Zenon DEF Ended
  <2>6. Ended(t, s) <=> EndsHeader(t, s, w, 1 - 1, \E j \in 1..s - 1 : t[j] = "str")
    BY Zenon DEF Ended, w
  <2>7. QED
    BY <2>2, <2>3, <2>4, <2>5, <2>6, Zenon DEF EndsHeader
<1>7. ASSUME NEW k \in 1..Len(t) PROVE Cuts(r, k, Walk(r)[k - 1]) <=> Cuts(t, k, Walk(t)[k - 1])
  <2> DEFINE w == Walk(t)[k - 1]
  <2>1. Walk(r)[k - 1] = w
    BY <1>5
  <2> HIDE DEF w
  <2>2. LineEnd(t, k) \in k..(Len(t) + 1) /\ LineEnd(r, k) = LineEnd(t, k)
    BY <1>1, <1>2, LineDef
  <2>3. \A j \in k + 1..LineEnd(t, k) - 1 : j \in 1..Len(t)
    BY <1>1, <2>2
  <2>4. \A j \in k + 1..LineEnd(t, k) - 1 : r[j] = "sp" <=> t[j] = "sp"
    BY <1>4, <2>3
  <2>5. Cuts(r, k, w) <=> Cuts(t, k, w)
    BY <1>4, <2>2, <2>4 DEF Cuts
  <2>6. QED
    BY <2>1, <2>5 DEF w
<1>8. {s \in LineStarts(r) : s > 1 /\ Ended(r, s)} = {s \in LineStarts(t) : s > 1 /\ Ended(t, s)}
  BY <1>1, <1>6
<1>9. {j \in 1..Len(r) : Cuts(r, j, Walk(r)[j - 1])} = {j \in 1..Len(t) : Cuts(t, j, Walk(t)[j - 1])}
  BY <1>1, <1>7
<1>10. QED
  BY <1>8, <1>9 DEF Breaks

\* The lines of a text that is cut at the end of a line.
SameLine(b, c, s) ==
  /\ LineEnd(c, s) = LineEnd(b, s) /\ First(c, s) = First(b, s)
  /\ IsBlank(c, s) <=> IsBlank(b, s)
  /\ FirstToken(c, s) = FirstToken(b, s)
  /\ s \in LineStarts(c) <=> s \in LineStarts(b)
LEMMA LinesCut ==
  ASSUME NEW b \in Seq(Tokens), NEW z \in 0..Len(b), z = Len(b) \/ b[z + 1] = "nl",
         NEW c \in Seq(Tokens), Len(c) = z, \A k \in 1..z : c[k] = b[k], NEW s \in 1..z
  PROVE  SameLine(b, c, s)
<1> DEFINE m == LineEnd(c, s)
<1> DEFINE n == LineEnd(b, s)
<1>0. Len(b) \in Nat /\ z <= Len(b) /\ s \in 1..Len(b) /\ s \in 1..Len(c) /\ z \in Nat
  OBVIOUS
<1>1. /\ n \in s..(Len(b) + 1)
      /\ n = Len(b) + 1 \/ b[n] = "nl"
      /\ \A k \in s..(n - 1) : b[k] # "nl"
  BY <1>0, LineDef
<1>2. /\ m \in s..(z + 1)
      /\ m = z + 1 \/ c[m] = "nl"
      /\ \A k \in s..(m - 1) : c[k] # "nl"
  <2>1. /\ m \in s..(Len(c) + 1)
        /\ m = Len(c) + 1 \/ c[m] = "nl"
        /\ \A k \in s..(m - 1) : c[k] # "nl"
    BY <1>0, LineDef
  <2> HIDE DEF m
  <2>2. QED
    BY <2>1
<1>3. m = n
  <2> HIDE DEF m, n
  <2>1. ASSUME m < n PROVE FALSE
    <3>1. m \in s..(n - 1) /\ m <= Len(b)
      BY <1>0, <1>1, <1>2, <2>1
    <3>2. b[m] # "nl"
      BY <1>1, <3>1
    <3>3. CASE m = z + 1
      BY <1>0, <3>1, <3>2, <3>3
    <3>4. CASE m # z + 1
      <4>1. m \in 1..z /\ c[m] = "nl"
        BY <1>0, <1>2, <3>4
      <4>2. QED
        BY <3>2, <4>1
    <3>5. QED
      BY <3>3, <3>4
  <2>2. ASSUME n < m PROVE FALSE
    <3>1. n \in s..(m - 1) /\ n \in 1..z /\ n # Len(b) + 1
      BY <1>0, <1>1, <1>2, <2>2
    <3>2. c[n] # "nl" /\ b[n] = "nl" /\ c[n] = b[n]
      BY <1>1, <1>2, <3>1
    <3>3. QED
      BY <3>2
  <2>3. m \in Nat /\ n \in Nat
    BY <1>0, <1>1, <1>2
  <2>4. QED
    BY <2>1, <2>2, <2>3
<1>4. First(c, s) = First(b, s)
  <2>1. \A k \in s..n : k # n => k \in 1..z
    BY <1>0, <1>2, <1>3
  <2>2. {k \in s..m : k = m \/ c[k] # "sp"} = {k \in s..n : k = n \/ b[k] # "sp"}
    <3> HIDE DEF m, n
    <3>1. QED
      BY <1>3, <2>1
  <2>3. QED
    BY <2>2 DEF First
<1>5. IsBlank(c, s) <=> IsBlank(b, s)
  BY <1>3, <1>4 DEF IsBlank
<1>6. FirstToken(c, s) = FirstToken(b, s)
  <2>1. CASE IsBlank(b, s)
    BY <1>5, <2>1 DEF FirstToken
  <2>2. CASE ~IsBlank(b, s)
    <3>1. First(c, s) \in 1..Len(c) /\ FirstToken(c, s) = c[First(c, s)] /\ FirstToken(b, s) = b[First(b, s)]
      BY <1>0, <1>5, <2>2, FirstIs
    <3>2. First(c, s) \in 1..z
      BY <3>1
    <3>3. QED
      BY <1>4, <3>1, <3>2
  <2>3. QED
    BY <2>1, <2>2
<1>7. s \in LineStarts(c) <=> s \in LineStarts(b)
  <2>1. s = 1 \/ c[s - 1] = b[s - 1]
    BY <1>0
  <2>2. QED
    BY <1>0, <2>1 DEF LineStarts
<1>8. QED
  BY <1>3, <1>4, <1>5, <1>6, <1>7 DEF SameLine

\* What the extractor reads: the span c of the text, without its comments C.
HeaderText(t, l, z, C, b, c) ==
  /\ b = Blank(t, C) /\ BlankIsabelleComments(t) = b
  /\ b \in Seq(Tokens) /\ Len(b) = Len(t) /\ c \in Seq(Tokens) /\ Len(c) = z /\ 2 <= z
  /\ \A k \in 1..Len(t) : /\ b[k] = IF k \in C /\ t[k] # "nl" THEN "sp" ELSE t[k]
                          /\ k \in C <=> l[k].lex = "comment"
  /\ \A k \in 1..z : c[k] = b[k]
  /\ z = Len(b) \/ b[z + 1] = "nl"
  /\ \A k \in 1..z : k \notin C => (l[k].lex = "code" <=> Outside(Walk(c)[k - 1]))

LEMMA HeaderTextIs ==
  ASSUME TextInv, IsabelleInv, Quiet, prover = "isabelle", NEW e, NEW a, Shape(prover, text, label, mode, e, a),
         NEW z, SpanTo(text, label, a, prover, z), NEW C, C = Meant("comment"),
         NEW b, b = Blank(text, C), NEW c, c = Blank(SubSeq(text, 1, z), C)
  PROVE  HeaderText(text, label, z, C, b, c)
<1>1. /\ text \in Seq(Tokens) /\ Len(text) \in Nat /\ e \in 2..Len(text) /\ a \in e..Len(text)
      /\ z \in 0..Len(text) /\ Len(label) = Len(text) /\ kit.job = "statement"
  BY DEF TextInv, Shape, SpanTo, Quiet
<1>2. /\ b \in Seq(Tokens) /\ Len(b) = Len(text)
      /\ \A k \in 1..Len(text) : b[k] = IF k \in C /\ text[k] # "nl" THEN "sp" ELSE text[k]
  BY <1>1, BlankIs
<1>3. \A k \in 1..Len(text) : k \in C <=> label[k].lex = "comment"
  BY <1>1 DEF Meant
<1>4. /\ c \in Seq(Tokens) /\ Len(c) = z /\ \A k \in 1..z : c[k] = b[k]
  <2> DEFINE u == SubSeq(text, 1, z)
  <2>1. u \in Seq(Tokens) /\ Len(u) = z /\ \A k \in 1..z : u[k] = text[k]
    BY <1>1
  <2>2. c = Blank(u, C)
    OBVIOUS
  <2> HIDE DEF u
  <2>3. /\ c \in Seq(Tokens) /\ Len(c) = Len(u)
        /\ \A k \in 1..Len(u) : c[k] = IF k \in C /\ u[k] # "nl" THEN "sp" ELSE u[k]
    BY <2>1, <2>2, BlankIs
  <2>4. \A k \in 1..z : k \in 1..Len(text)
    BY <1>1
  <2>5. QED
    BY <1>2, <2>1, <2>3, <2>4
<1>5. 2 <= z
  <2>1. 2 \in 1..a /\ 2 \in 1..Len(text) /\ PartOf(2, e, a) = "head"
    BY <1>1 DEF PartOf
  <2>2. text[2] = "f" /\ label[2].lex = "code"
    BY <2>1 DEF Shape
  <2>3. QED
    BY <2>1, <2>2 DEF SpanTo, Space
<1>6. z = Len(b) \/ b[z + 1] = "nl"
  <2>1. z = Len(text) \/ text[z + 1] = "nl"
    BY DEF SpanTo
  <2>2. z # Len(text) => z + 1 \in 1..Len(text)
    BY <1>1
  <2>3. QED
    BY <1>2, <2>1, <2>2
<1>7. \A k \in 1..z : k \notin C => (label[k].lex = "code" <=> Outside(Walk(c)[k - 1]))
  <2>1. Reworded(text, text)
    BY <1>1, RewordedSelf
  <2>2. QED
    BY <1>1, <2>1, IsaWalks
<1>8. BlankIsabelleComments(text) = b
  <2>1. Reworded(text, text) /\ Len(text) \in 0..Len(text) /\ text = SubSeq(text, 1, Len(text))
    BY <1>1, RewordedSelf
  <2>2. \A k \in 1..Len(text) : text[k] # "<m>"
    BY DEF IsabelleInv, SaidIsabelle
  <2>3. QED
    BY <1>1, <2>1, <2>2, IsaWalks
<1>9. QED
  BY <1>2, <1>3, <1>4, <1>5, <1>6, <1>7, <1>8 DEF HeaderText

\* Its lines are those of the text without its comments.
LEMMA HeaderCut ==
  ASSUME NEW t \in Seq(Tokens), NEW l, NEW z \in 0..Len(t), NEW C, NEW b, NEW c, HeaderText(t, l, z, C, b, c),
         NEW s \in 1..z
  PROVE  SameLine(b, c, s)
<1>1. /\ b \in Seq(Tokens) /\ c \in Seq(Tokens) /\ Len(c) = z /\ \A k \in 1..z : c[k] = b[k]
      /\ z = Len(b) \/ b[z + 1] = "nl"
      /\ z \in 0..Len(b)
  BY DEF HeaderText
<1>2. QED
  BY <1>1, LinesCut

\* The first token of a line is no comment, and it is code when the line begins
\* outside strings and cartouches.
LEMMA HeaderLine ==
  ASSUME NEW t \in Seq(Tokens), NEW l, NEW z \in 0..Len(t), NEW C, NEW b, NEW c, HeaderText(t, l, z, C, b, c),
         NEW s \in 1..z, ~IsBlank(c, s), NEW f, f = First(b, s)
  PROVE  /\ f \in s..z /\ FirstToken(c, s) = t[f] /\ f \notin C /\ \A k \in s..(f - 1) : b[k] = "sp"
         /\ Outside(Walk(c)[s - 1]) <=> l[f].lex = "code"
<1>1. /\ b \in Seq(Tokens) /\ Len(b) = Len(t) /\ c \in Seq(Tokens) /\ Len(c) = z
      /\ \A k \in 1..Len(t) : b[k] = IF k \in C /\ t[k] # "nl" THEN "sp" ELSE t[k]
      /\ \A k \in 1..z : c[k] = b[k]
      /\ z = Len(b) \/ b[z + 1] = "nl"
      /\ \A k \in 1..z : k \notin C => (l[k].lex = "code" <=> Outside(Walk(c)[k - 1]))
  BY DEF HeaderText
<1>2. First(c, s) = f /\ LineEnd(c, s) = LineEnd(b, s)
  <2>1. SameLine(b, c, s)
    BY HeaderCut
  <2>2. QED
    BY <2>1 DEF SameLine
<1>3. /\ f \in s..LineEnd(c, s) /\ \A k \in s..(f - 1) : c[k] = "sp"
      /\ f \in 1..Len(c) /\ c[f] # "sp" /\ FirstToken(c, s) = c[f]
  <2>1. s \in 1..Len(c)
    BY <1>1
  <2>2. QED
    BY <1>1, <1>2, <2>1, FirstIs
<1>4. c[f] # "nl"
  <2> DEFINE n == LineEnd(c, s)
  <2>1. n \in s..(Len(c) + 1) /\ \A k \in s..(n - 1) : c[k] # "nl"
    <3>1. s \in 1..Len(c)
      BY <1>1
    <3>2. QED
      BY <1>1, <3>1, LineDef
  <2>2. f # n /\ f \in s..n
    BY <1>2, <1>3 DEF IsBlank
  <2> HIDE DEF n
  <2>3. f \in s..(n - 1)
    BY <2>1, <2>2
  <2>4. QED
    BY <2>1, <2>3
<1>5. f \in s..z /\ f \in 1..z /\ f \in 1..Len(t) /\ f \in s..(Len(c) + 1)
  BY <1>1, <1>3
<1>6. f \notin C /\ c[f] = t[f]
  BY <1>1, <1>3, <1>4, <1>5
<1>7. \A k \in s..(f - 1) : b[k] = "sp" /\ c[k] \in Space
  BY <1>1, <1>3, <1>5 DEF Space
<1>8. Outside(Walk(c)[f - 1]) <=> Outside(Walk(c)[s - 1])
  <2>1. s \in 1..Len(c)
    BY <1>1
  <2>2. QED
    BY <1>1, <1>5, <1>7, <2>1, WalkSpace
<1>9. QED
  BY <1>1, <1>3, <1>5, <1>6, <1>7, <1>8

\* The header does not end before the statement.
LEMMA HeaderReaches ==
  ASSUME TextInv, IsabelleInv, Quiet, prover = "isabelle", PlainIsabelle,
         NEW e, NEW a, Shape(prover, text, label, mode, e, a),
         mode.part \in {"stmt", "proof", "after"}, NEW z \in 0..Len(text),
         NEW C, NEW b, NEW c, HeaderText(text, label, z, C, b, c), NEW x \in Breaks(c)
  PROVE  e <= x
<1>1. /\ text \in Seq(Tokens) /\ Len(text) \in Nat /\ e \in 2..Len(text) /\ a \in e..Len(text)
      /\ z \in Nat /\ z <= Len(text) /\ kit.job = "statement"
  BY DEF TextInv, Shape, Quiet
<1>2. /\ b \in Seq(Tokens) /\ Len(b) = Len(text) /\ c \in Seq(Tokens) /\ Len(c) = z /\ 2 <= z
      /\ \A k \in 1..Len(text) : /\ b[k] = IF k \in C /\ text[k] # "nl" THEN "sp" ELSE text[k]
                                 /\ k \in C <=> label[k].lex = "comment"
      /\ \A k \in 1..z : c[k] = b[k]
      /\ z = Len(b) \/ b[z + 1] = "nl"
      /\ \A k \in 1..z : k \notin C => (label[k].lex = "code" <=> Outside(Walk(c)[k - 1]))
  BY DEF HeaderText
<1>3. /\ \A k \in 1..Len(text) : k # 1 /\ k # a + 2 => ~Command(prover, text[k], label[k])
      /\ \A k \in 1..Len(text) : label[k].part = PartOf(k, e, a)
      /\ text[1] = "kw" /\ text[2] = "f"
  BY DEF Shape
<1>4. \A k \in 1..Len(text) : SaidIsabelle(text[k], label[k])
  BY DEF IsabelleInv
<1>5. BlankIsabelleComments(text) = b /\ b = Blank(text, C)
  BY Zenon DEF HeaderText
<1>6. ASSUME NEW s \in LineStarts(b), s > 1, label[s].part = "stmt"
      PROVE  /\ IsBlank(b, s) => \A k \in 1..s : b[k] # "str"
             /\ FirstToken(b, s) \in {"by", "kw"} => label[First(b, s)].lex = "comment"
  BY <1>5, <1>6 DEF PlainIsabelle
<1>7. ASSUME NEW s \in LineStarts(c), s > 1, s <= e, Ended(c, s) PROVE FALSE
  <2>1. s \in 1..z /\ s \in 1..Len(text) /\ s \in Nat
    BY <1>1, <1>2 DEF LineStarts
  <2>2. /\ s \in LineStarts(b) /\ (IsBlank(c, s) <=> IsBlank(b, s))
        /\ FirstToken(c, s) = FirstToken(b, s)
    <3>1. s \in LineStarts(c) /\ text \in Seq(Tokens) /\ s \in 1..z
      BY <1>1, <2>1
    <3>2. SameLine(b, c, s)
      BY <3>1, HeaderCut, Zenon
    <3>3. QED
      BY <3>1, <3>2 DEF SameLine
  <2>3. s # 2
    <3>1. s = 2 => c[1] = "nl"
      BY <1>7 DEF LineStarts
    <3>2. c[1] = IF 1 \in C /\ text[1] # "nl" THEN "sp" ELSE text[1]
      BY <1>1, <1>2
    <3>3. QED
      BY <1>3, <3>1, <3>2
  <2>4. label[s].part = "stmt"
    <3>1. PartOf(s, e, a) = "stmt"
      BY <1>7, <2>1, <2>3 DEF PartOf
    <3>2. QED
      BY <1>3, <2>1, <3>1
  <2>5. /\ IsBlank(b, s) => \A k \in 1..s : b[k] # "str"
        /\ FirstToken(b, s) \in {"by", "kw"} => label[First(b, s)].lex = "comment"
    BY <1>6, <1>7, <2>2, <2>4
  <2> DEFINE w == Walk(c)[s - 1]
  <2> DEFINE quoted == \E j \in 1..s - 1 : c[j] = "str"
  <2>6. EndsHeader(c, s, w, 1 - 1, quoted)
    BY <1>7, Zenon DEF Ended
  <2>7. ~(IsBlank(c, s) /\ quoted)
    <3>1. SUFFICES ASSUME IsBlank(c, s), NEW j \in 1..s - 1, c[j] = "str" PROVE FALSE
      OBVIOUS
    <3>2. j \in 1..s /\ j \in 1..z
      BY <2>1
    <3>3. QED
      BY <1>2, <2>2, <2>5, <3>1, <3>2
  <2> DEFINE f == First(b, s)
  <2>8. ASSUME ~IsBlank(c, s)
        PROVE  /\ FirstToken(c, s) \notin {"by", "kw", "locale"}
               /\ FirstToken(c, s) = "cmd" => ~Outside(w)
    <3>1. /\ f \in s..z /\ FirstToken(c, s) = text[f] /\ f \notin C
          /\ Outside(w) <=> label[f].lex = "code"
      <4>1. z \in 0..Len(text) /\ f = First(b, s)
        OBVIOUS
      <4> HIDE DEF f
      <4>2. QED
        BY <1>1, <2>1, <2>8, <4>1, HeaderLine
    <3>2. f \in 1..Len(text)
      BY <1>1, <2>1, <3>1
    <3>3. label[f].lex # "comment"
      BY <1>2, <3>1, <3>2
    <3>4. FirstToken(c, s) \notin {"by", "kw"}
      BY <2>2, <2>5, <3>3
    <3>5. text[f] # "locale"
      BY <1>4, <3>2 DEF SaidIsabelle
    <3>6. ASSUME text[f] = "cmd", label[f].lex = "code" PROVE FALSE
      <4>1. FirstToken(b, s) \in Commands
        BY <2>2, <3>1, <3>6 DEF Commands
      <4>2. label[First(b, s)].lex = "code"
        BY <3>6
      <4> HIDE DEF f
      <4>3. a + 2 <= s
        BY <1>1, <1>5, <1>7, <2>2, <4>1, <4>2, CommandsLate
      <4>4. QED
        BY <1>1, <1>7, <2>1, <4>3
    <3>7. QED
      BY <3>1, <3>4, <3>5, <3>6
  <2>9. FirstToken(c, s) \in {"by", "kw", "locale", "cmd"} => ~IsBlank(c, s)
    BY DEF FirstToken, None
  <2> HIDE DEF w, quoted, f
  <2>10. QED
    BY <2>6, <2>7, <2>8, <2>9 DEF EndsHeader, IsDecl
<1>8. ASSUME NEW k \in 1..Len(c), k <= e, Cuts(c, k, Walk(c)[k - 1]) PROVE FALSE
  <2>1. k \in 1..z /\ k \in 1..Len(text) /\ k \in Nat
    BY <1>1, <1>2
  <2>2. Outside(Walk(c)[k - 1]) /\ c[k] \in {"by", ".."}
    BY <1>8 DEF Cuts
  <2>3. k \notin C /\ text[k] \in {"by", ".."}
    <3>1. c[k] = IF k \in C /\ text[k] # "nl" THEN "sp" ELSE text[k]
      BY <1>2, <2>1
    <3>2. CASE k \in C /\ text[k] # "nl"
      BY <2>2, <3>1, <3>2
    <3>3. CASE text[k] = "nl"
      BY <2>2, <3>1, <3>3
    <3>4. CASE k \notin C
      BY <2>2, <3>1, <3>4
    <3>5. QED
      BY <3>2, <3>3, <3>4
  <2>4. label[k].lex = "code"
    BY <1>2, <2>1, <2>2, <2>3
  <2>5. k > 2
    <3>1. k # 1 /\ k # 2
      BY <1>3, <2>3
    <3>2. QED
      BY <2>1, <3>1
  <2>6. label[k].part = "stmt"
    BY <1>3, <1>8, <2>1, <2>5 DEF PartOf
  <2>7. QED
    BY <1>4, <2>1, <2>3, <2>4, <2>6 DEF SaidIsabelle
<1>9. CASE x \in {l - 1 : l \in {s \in LineStarts(c) : s > 1 /\ Ended(c, s)}}
  <2>1. PICK s \in LineStarts(c) : s > 1 /\ Ended(c, s) /\ x = s - 1
    BY <1>9
  <2>2. s \in Nat
    BY DEF LineStarts
  <2>3. ~(s <= e)
    BY <1>7, <2>1
  <2>4. QED
    BY <1>1, <2>1, <2>2, <2>3
<1>10. CASE x \in {k - 1 : k \in {j \in 1..Len(c) : Cuts(c, j, Walk(c)[j - 1])}}
  <2>1. PICK k \in 1..Len(c) : Cuts(c, k, Walk(c)[k - 1]) /\ x = k - 1
    BY <1>10
  <2>2. ~(k <= e)
    BY <1>8, <2>1
  <2>3. QED
    BY <1>1, <2>1, <2>2
<1>11. QED
  BY <1>9, <1>10 DEF Breaks

\* The header ends with the statement, or with the line break after it.
LEMMA HeaderStops ==
  ASSUME TextInv, Quiet, prover = "isabelle", NEW e, NEW a, Shape(prover, text, label, mode, e, a),
         mode.part \in {"proof", "after"}, NEW z, SpanTo(text, label, a, prover, z),
         NEW C, NEW b, NEW c, HeaderText(text, label, z, C, b, c)
  PROVE  \/ e \in Breaks(c)
         \/ text[e + 1] = "nl" /\ (z <= e + 1 \/ e + 1 \in Breaks(c))
<1>1. /\ text \in Seq(Tokens) /\ Len(text) \in Nat /\ e \in 2..Len(text) /\ a \in e..Len(text)
      /\ z \in 0..Len(text) /\ z \in Nat
  BY DEF TextInv, Shape, SpanTo
<1>2. /\ b \in Seq(Tokens) /\ Len(b) = Len(text) /\ c \in Seq(Tokens) /\ Len(c) = z /\ 2 <= z
      /\ \A k \in 1..Len(text) : /\ b[k] = IF k \in C /\ text[k] # "nl" THEN "sp" ELSE text[k]
                                 /\ k \in C <=> label[k].lex = "comment"
      /\ \A k \in 1..z : c[k] = b[k]
      /\ \A k \in 1..z : k \notin C => (label[k].lex = "code" <=> Outside(Walk(c)[k - 1]))
  BY DEF HeaderText
<1>3. ASSUME NEW k \in 1..Len(text), k > e PROVE label[k].lex = "code"
  <2>1. PartOf(k, e, a) # "stmt"
    BY <1>1, <1>3 DEF PartOf
  <2>2. QED
    BY <2>1 DEF Shape
<1>4. ASSUME NEW k \in 1..z, k > e PROVE c[k] = text[k] /\ Outside(Walk(c)[k - 1])
  <2>1. k \in 1..Len(text) /\ label[k].lex = "code"
    BY <1>1, <1>3, <1>4
  <2>2. k \notin C
    BY <1>2, <2>1
  <2>3. c[k] = b[k] /\ b[k] = text[k]
    BY <1>2, <1>4, <2>1, <2>2
  <2>4. QED
    BY <1>2, <1>4, <2>1, <2>2, <2>3
<1>5. ASSUME e + 1 <= a, text[e + 1] \in {"by", ".."},
             text[e + 1] = ".." => e + 2 <= a /\ text[e + 2] = "nl"
      PROVE  e \in Breaks(c)
  <2> DEFINE k == e + 1
  <2>1. k \in 1..a /\ k \in 1..Len(text) /\ k > e /\ k - 1 = e /\ k \in Nat
    BY <1>1, <1>5
  <2>2. k <= z
    BY <1>3, <1>5, <2>1 DEF SpanTo, Space
  <2>3. k \in 1..z /\ k \in 1..Len(c)
    BY <1>2, <2>1, <2>2
  <2>4. c[k] = text[k] /\ Outside(Walk(c)[k - 1])
    BY <1>4, <2>1, <2>3
  <2>5. ASSUME text[k] = ".." PROVE \A j \in k + 1..LineEnd(c, k) - 1 : c[j] = "sp"
    <3>1. e + 2 <= a /\ text[e + 2] = "nl"
      BY <1>5, <2>5
    <3> DEFINE n == LineEnd(c, k)
    <3>2. n \in k..(z + 1) /\ \A j \in k..(n - 1) : c[j] # "nl"
      BY <1>2, <2>3, LineDef
    <3> HIDE DEF n
    <3>3. n <= k + 1
      <4>1. CASE k = z
        BY <2>1, <3>2, <4>1
      <4>2. CASE k # z
        <5>1. k + 1 \in 1..z /\ k + 1 > e
          BY <1>1, <2>1, <2>3, <4>2
        <5>2. c[k + 1] = "nl"
          BY <1>4, <2>1, <3>1, <5>1
        <5>3. ~(k + 1 \in k..(n - 1))
          BY <3>2, <5>2
        <5>4. QED
          BY <2>1, <3>2, <5>3
      <4>3. QED
        BY <4>1, <4>2
    <3>4. \A j \in k + 1..n - 1 : FALSE
      BY <1>1, <2>1, <3>2, <3>3
    <3>5. QED
      BY <3>4 DEF n
  <2>6. Cuts(c, k, Walk(c)[k - 1])
    <3>1. c[k] = "by" \/ (c[k] = ".." /\ \A j \in k + 1..LineEnd(c, k) - 1 : c[j] = "sp")
      BY <1>5, <2>4, <2>5
    <3> HIDE DEF k
    <3>2. QED
      BY <2>4, <3>1, Zenon DEF Cuts
  <2>7. k - 1 \in Breaks(c)
    <3> HIDE DEF k
    <3>1. QED
      BY <2>3, <2>6, Zenon DEF Breaks
  <2>8. QED
    BY <2>1, <2>7
<1>6. ASSUME mode.part = "after", a = e
      PROVE  text[e + 1] = "nl" /\ (z <= e + 1 \/ e + 1 \in Breaks(c))
  <2>1. Len(text) = e + 3 /\ text[e + 1] = "nl" /\ text[e + 2] \in {"kw", "cmd"}
    BY <1>6 DEF Shape
  <2>2. SUFFICES ASSUME e + 2 <= z PROVE e + 1 \in Breaks(c)
    BY <1>1, <2>1
  <2> DEFINE s == e + 2
  <2>3. s \in 1..z /\ s \in 1..Len(c) /\ s - 1 = e + 1 /\ s - 1 \in 1..z /\ s > e /\ s - 1 > e /\ s > 1
        /\ s \in Nat
    BY <1>1, <1>2, <2>2
  <2>4. c[s] = text[s] /\ Outside(Walk(c)[s - 1]) /\ c[s - 1] = "nl"
    BY <1>4, <2>1, <2>3
  <2>5. c[s] \in {"kw", "cmd"}
    BY <2>1, <2>4
  <2> HIDE DEF s
  <2>6. s \in LineStarts(c)
    BY <2>3, <2>4 DEF LineStarts
  <2>7. ~IsBlank(c, s) /\ First(c, s) = s /\ FirstToken(c, s) = c[s]
    <3>1. c[s] \notin Space
      BY <2>5 DEF Space
    <3>2. c \in Seq(Tokens) /\ s \in 1..Len(c)
      BY <1>2, <2>3
    <3>3. QED
      BY <3>1, <3>2, FirstHere, Zenon
  <2>8. Indent(c, s) = 0
    BY <2>3, <2>7 DEF Indent
  <2>9. EndsHeader(c, s, Walk(c)[s - 1], 1 - 1, \E j \in 1..s - 1 : c[j] = "str")
    <3> DEFINE w == Walk(c)[s - 1]
    <3> DEFINE quoted == \E j \in 1..s - 1 : c[j] = "str"
    <3>1. Outside(w) /\ ~w.quote
      BY <2>4 DEF Outside
    <3>2. IsDecl(c, s) \/ FirstToken(c, s) = "cmd"
      BY <2>5, <2>7 DEF IsDecl
    <3>3. Indent(c, s) <= 1 - 1
      BY <2>8
    <3> HIDE DEF w, quoted
    <3>4. EndsHeader(c, s, w, 1 - 1, quoted)
      BY <3>1, <3>2, <3>3, Zenon DEF EndsHeader
    <3>5. QED
      BY <3>4 DEF w, quoted
  <2>10. s - 1 \in Breaks(c)
    <3>1. s > 1 /\ Ended(c, s)
      BY <2>3, <2>9, Zenon DEF Ended
    <3>2. QED
      BY <2>6, <3>1, Zenon DEF Breaks
  <2>11. QED
    BY <2>3, <2>10
<1>7. \/ e + 1 <= a /\ text[e + 1] = "by"
      \/ e + 2 <= a /\ text[e + 1] = ".." /\ text[e + 2] = "nl"
      \/ mode.part = "after" /\ a = e
  <2>1. Over(prover, text, mode, e, a)
    BY DEF Shape
  <2>2. QED
    BY <2>1 DEF Over, Ending
<1>8. CASE e + 1 <= a /\ text[e + 1] = "by"
  BY <1>5, <1>8
<1>9. CASE e + 2 <= a /\ text[e + 1] = ".." /\ text[e + 2] = "nl"
  <2>1. e + 1 <= a
    BY <1>1, <1>9
  <2>2. QED
    BY <1>5, <1>9, <2>1
<1>10. QED
  BY <1>6, <1>7, <1>8, <1>9

LEMMA IsabelleExtracts ==
  ASSUME TextInv, IsabelleInv, Quiet, prover = "isabelle", Plain,
         NEW e, NEW a, Shape(prover, text, label, mode, e, a),
         mode.part \in {"stmt", "proof", "after"}, NEW z, SpanTo(text, label, a, prover, z)
  PROVE  Extracts(text, label, mode, prover, e, z)
<1> DEFINE C == Meant("comment")
<1> DEFINE b == Blank(text, C)
<1> DEFINE c == Blank(SubSeq(text, 1, z), C)
<1> DEFINE n == Min(Breaks(c) \cup {z})
<1>1. /\ text \in Seq(Tokens) /\ Len(text) \in Nat /\ e \in 2..Len(text) /\ a \in e..Len(text)
      /\ z \in 0..Len(text) /\ z \in Nat /\ PlainIsabelle /\ kit.job = "statement"
  BY DEF TextInv, Shape, SpanTo, Plain, Quiet
<1>2. HeaderText(text, label, z, C, b, c)
  BY HeaderTextIs
<1>3. /\ 2 <= z /\ Len(c) = z /\ c \in Seq(Tokens)
      /\ \A k \in 1..Len(text) : k \in C => label[k].lex = "comment"
  BY <1>2 DEF HeaderText
<1>4. \A x \in Breaks(c) : e <= x /\ x \in Nat
  <2>1. \A x \in Breaks(c) : x \in Nat
    <3>1. LineStarts(c) \subseteq 1..Len(c)
      BY DEF LineStarts
    <3>2. \A s \in 1..Len(c) : s - 1 \in Nat
      BY <1>1, <1>3
    <3> HIDE DEF c
    <3>3. QED
      BY <3>1, <3>2 DEF Breaks
  <2> HIDE DEF b, c, C
  <2>2. \A x \in Breaks(c) : e <= x
    BY <1>1, <1>2, HeaderReaches
  <2>3. QED
    BY <2>1, <2>2
<1>5. mode.part # "stmt" => \/ e \in Breaks(c)
                            \/ text[e + 1] = "nl" /\ (z <= e + 1 \/ e + 1 \in Breaks(c))
  <2> HIDE DEF b, c, C
  <2>1. QED
    BY <1>2, HeaderStops
<1>6. \A r : Reworded(text, r) =>
        ExtractStatement(SubSeq(r, 1, z), "f", "isabelle") = SubSeq(Blank(SubSeq(r, 1, z), C), 1, n)
  <2> SUFFICES ASSUME NEW r, Reworded(text, r)
               PROVE  ExtractStatement(SubSeq(r, 1, z), "f", "isabelle") = SubSeq(Blank(SubSeq(r, 1, z), C), 1, n)
    OBVIOUS
  <2> DEFINE u == SubSeq(text, 1, z)
  <2> DEFINE v == SubSeq(r, 1, z)
  <2> DEFINE d == Blank(v, C)
  <2>1. BlankIsabelleComments(v) = d
    <3>1. \A k \in 1..Len(text) : text[k] # "<m>"
      BY DEF IsabelleInv, SaidIsabelle
    <3>2. QED
      BY <1>1, <3>1, IsaWalks
  <2>2. Reworded(u, v)
    BY <1>1, RewordedPrefix
  <2>3. c = Blank(u, C) /\ d = Blank(v, C)
    OBVIOUS
  <2>4. ExtractStatement(v, "f", "isabelle") = HeaderOf(BlankIsabelleComments(v), "f")
    BY Zenon DEF ExtractStatement, IsabelleStatement
  <2>5. 1 \in 1..z /\ 2 \in 1..z /\ c[1] = "kw" /\ c[2] = "f"
    <3>1. 1 \in 1..z /\ 2 \in 1..z /\ 1 \in 1..Len(text) /\ 2 \in 1..Len(text)
      BY <1>1, <1>3
    <3>2. PartOf(1, e, a) = "head" /\ PartOf(2, e, a) = "head"
      BY DEF PartOf
    <3>3. text[1] = "kw" /\ text[2] = "f" /\ label[1].lex = "code" /\ label[2].lex = "code"
      BY <3>1, <3>2 DEF Shape
    <3> HIDE DEF b, c, C
    <3>4. QED
      BY <1>2, <3>1, <3>3 DEF HeaderText
  <2> HIDE DEF u, v, d, c, C
  <2>6. Reworded(c, d) /\ Len(d) = z
    <3>1. Reworded(c, d)
      BY <2>2, <2>3, RewordedBlank
    <3>2. QED
      BY <1>3, <3>1 DEF Reworded
  <2>7. d \in Seq(Tokens) /\ Len(d) >= 2 /\ d[1] = "kw" /\ d[2] = "f"
    <3>1. d \in Seq(Tokens) /\ Len(d) >= 2
      BY <1>1, <1>3, <2>6 DEF Reworded
    <3>2. 1 \in 1..Len(c) /\ 2 \in 1..Len(c)
      BY <1>3, <2>5
    <3>3. d[1] = "kw" /\ d[2] = "f"
      BY <2>5, <2>6, <3>2 DEF Reworded
    <3>4. QED
      BY <3>1, <3>3
  <2>8. HeaderOf(d, "f") = SubSeq(d, 1, Min(Breaks(d) \cup {Len(d)}))
    BY <2>7, HeaderIs
  <2>9. Breaks(d) = Breaks(c)
    BY <2>6, BreaksSame
  <2>10. ExtractStatement(v, "f", "isabelle") = SubSeq(d, 1, n)
    BY <2>1, <2>4, <2>6, <2>8, <2>9
  <2> HIDE DEF n
  <2>11. QED
    BY <2>10 DEF v, d
<1> HIDE DEF b, c, C
<1>7. n \in Breaks(c) \cup {z} /\ \A x \in Breaks(c) \cup {z} : n <= x
  <2> DEFINE T == Breaks(c) \cup {z}
  <2>1. T \in SUBSET Nat /\ T # {}
    BY <1>1, <1>4
  <2> HIDE DEF T
  <2>2. Min(T) \in T /\ \A x \in T : Min(T) <= x
    BY <2>1, MinIs
  <2>3. QED
    BY <2>2 DEF T
<1> HIDE DEF n
<1>8. n \in Nat /\ n <= z /\ (e <= n \/ n = z)
  BY <1>1, <1>4, <1>7
<1>9. n \in 1..z
  BY <1>1, <1>3, <1>8
<1>10. n <= e + 1 /\ (n = e + 1 => text[n] # "w")
  <2>1. CASE mode.part = "stmt"
    <3>1. e = Len(text)
      BY <2>1 DEF Shape
    <3>2. QED
      BY <1>1, <1>8, <3>1
  <2>2. CASE e \in Breaks(c)
    <3>1. n <= e
      BY <1>7, <2>2
    <3>2. QED
      BY <1>1, <1>8, <3>1
  <2>3. CASE text[e + 1] = "nl" /\ (z <= e + 1 \/ e + 1 \in Breaks(c))
    <3>1. n <= e + 1
      BY <1>1, <1>7, <1>8, <2>3
    <3>2. QED
      BY <2>3, <3>1
  <2>4. QED
    BY <1>5, <2>1, <2>2, <2>3
<1>11. Takes(text, label, prover, e, z, C, n)
  BY <1>3, <1>6, <1>8, <1>9, <1>10, Zenon DEF Takes
<1>12. QED
  BY <1>11, Zenon DEF Extracts

LEMMA IsabelleKept ==
  ASSUME TextInv, ShapeInv, IsabelleInv, Quiet, prover = "isabelle"
  PROVE  StatementKept
<1>1. SUFFICES ASSUME Plain PROVE StatementKept
  BY DEF StatementKept
<1>2. PICK e, a : Shape(prover, text, label, mode, e, a)
  BY Zenon DEF ShapeInv
<1>3. mode.part \in {"stmt", "proof", "after"}
  BY Zenon DEF ShapeInv
<1>4. PICK z : /\ SpanTo(text, label, a, prover, z)
               /\ \A r : Reworded(text, r) => SpanText(r, prover) = SubSeq(r, 1, z)
  BY <1>2, <1>3, SpanIs
<1>5. Extracts(text, label, mode, prover, e, z)
  BY <1>1, <1>2, <1>3, <1>4, IsabelleExtracts
<1>6. QED
  BY <1>2, <1>3, <1>4, <1>5, KeptBy

\* statement_immutability keeps its promise for every file of one declaration the
\* author can write in any of the three languages, however long: outside the shapes
\* the extractors are known to misread, a word changed in a statement is never
\* called unchanged, and one changed in its proof or in the command after it always
\* is.  Quiet names the tokens that are left out.
THEOREM StatementsKept == Spec => [](Quiet => StatementKept)
<1>1. ASSUME TextInv, ShapeInv, RocqInv, LeanInv, IsabelleInv, Quiet PROVE StatementKept
  <2>1. prover = "rocq" \/ prover = "lean4" \/ prover = "isabelle"
    BY <1>1 DEF Quiet
  <2>2. QED
    BY <1>1, <2>1, RocqKept, LeanKept, IsabelleKept
<1>2. TextRead /\ ShapeInv /\ RocqInv /\ LeanInv /\ IsabelleInv => (Quiet => StatementKept)
  BY <1>1 DEF TextRead, Quiet
<1>3. QED
  BY <1>2, TextsRead, StatementsShaped, RocqSaid, LeanCounted, IsabelleSaid, PTL
=============================================================================
