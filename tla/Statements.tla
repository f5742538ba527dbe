----------------------------- MODULE Statements -----------------------------
(***************************************************************************)
(* What the statement audits compare: the lines a declaration spans, the   *)
(* statement each prover's extractor takes out of them, and the verdict on *)
(* one proof-bearing declaration of two versions of a file.                *)
(***************************************************************************)
EXTENDS Lexing

-----------------------------------------------------------------------------
(* find_decl_spans: from a declaration line to the last line of its body. *)

\* Commands of their own, which end the span when they stand no deeper than
\* the declaration does.
Trailers == {"cmd", "end"}

InBody(b, s, l, cont) ==
  \/ l \in cont
  \/ Indent(b, l) > Indent(b, s)
  \/ FirstToken(b, l) = "|" /\ Indent(b, l) >= Indent(b, s)

\* The last position of the span of the declaration at line s, in the blanked
\* text b; the next declaration is at limit.
LastLine(b, s, body, ends) == Max({s} \cup {l \in body : \A e \in ends : l < e})
BodyEnd(b, s, body, cont) ==
  LineEnd(b, LastLine(b, s, body,
                      {l \in body : /\ ~InBody(b, s, l, cont)
                                    /\ FirstToken(b, l) \in Trailers})) - 1
SpanEnd(b, s, limit, cont) ==
  BodyEnd(b, s, {l \in LineStarts(b) : s < l /\ l < limit /\ ~IsBlank(b, l)}, cont)

-----------------------------------------------------------------------------
(* extract_statement of each profile, on the text of one span. *)

NoStatement == <<>>

\* prefix_re: the keyword that begins a line and has the name after it.
Locate(t, name) ==
  {First(t, s) : s \in {l \in LineStarts(t) :
                          FirstToken(t, l) = "kw" /\ NextToken(t, First(t, l)) = name}}
LineOf(t, k) == Max({s \in LineStarts(t) : s <= k})
NameEnd(t, k) == Min({j \in k + 1..Len(t) : t[j] \notin Space})

\* Lean: brackets are counted from the name on, never below zero.
Brackets(t, from) ==
  LET depth[k \in from..Len(t)] ==
        IF k = from THEN 0
        ELSE IF t[k] = "(" THEN depth[k - 1] + 1
        ELSE IF t[k] = ")" /\ depth[k - 1] > 0 THEN depth[k - 1] - 1
        ELSE depth[k - 1]
  IN  depth

\* A bar at the start of a line, no deeper in columns than the declaration
\* allows, may begin an equation: a "=>" must confirm it.
LineInitial(t, k, indent) ==
  \E s \in LineStarts(t) : First(t, s) = k /\ t[k] = "|" /\ k - s >= indent

\* The "=>" that makes an equation of the first such bar.
MutEveryBar(t, k, bars) == k \in bars
Confirms(t, k, bars) == t[k] = "=>" /\ \E p \in bars : p < k

\* The last position of the signature, or 0: neither ":=", nor "where", nor a
\* confirmed bar.
SignatureEnd(t, from, indent) ==
  LET depth == Brackets(t, from)
      top   == {k \in from + 1..Len(t) : depth[k] = 0 /\ t[k] # ")"}
      bars  == {k \in top : LineInitial(t, k, indent)}
      ends  == {k \in top : t[k] \in {":=", "where"} \/ Confirms(t, k, bars)}
  IN  IF ends = {} THEN 0
      ELSE IF Confirms(t, Min(ends), bars) THEN Min(bars) - 1 ELSE Min(ends)

LeanStatement(t, name) ==
  IF Locate(t, name) = {} THEN NoStatement
  ELSE LET kw == Min(Locate(t, name))
       IN  SubSeq(t, kw, SignatureEnd(t, NameEnd(t, kw), kw - LineOf(t, kw)))

\* Rocq: the sentence ends at a period before white space, outside strings and
\* comments.
SentenceEnds(t, from) ==
  LET in[k \in from..Len(t)] ==
        IF k = from THEN [string |-> FALSE, depth |-> 0]
        ELSE LET w == in[k - 1]
             IN  [string |-> (t[k] = "str" /\ w.depth = 0) # w.string,
                  depth  |-> IF ~w.string /\ t[k] = "(*" THEN w.depth + 1
                             ELSE IF t[k] = "*)" /\ w.depth > 0 THEN w.depth - 1
                             ELSE w.depth]
  IN  {k \in from + 1..Len(t) : /\ t[k] = "."
                                /\ in[k] = [string |-> FALSE, depth |-> 0]
                                /\ k = Len(t) \/ t[k + 1] \in Space}
Sentence(t, kw, ends) == IF ends = {} THEN NoStatement ELSE SubSeq(t, kw, Min(ends))
RocqStatement(t, name) ==
  IF Locate(t, name) = {} THEN NoStatement
  ELSE LET kw == Min(Locate(t, name))
       IN  Sentence(t, kw, SentenceEnds(t, NameEnd(t, kw)))

\* Isabelle: whole lines up to the first that ends the header, and a line is
\* cut at a proof command outside strings and cartouches.
Cuts(t, k, w) ==
  /\ Outside(w)
  /\ \/ t[k] = "by"
     \/ t[k] = ".." /\ \A j \in k + 1..LineEnd(t, k) - 1 : t[j] = "sp"

\* A line that does not belong to the header any more.  Neither its first word
\* nor a blank line is asked whether it stands inside the statement, and a
\* declaration only whether it stands inside a string.
EndsHeader(t, s, w, indent, quoted) ==
  \/ IsBlank(t, s) /\ quoted
  \/ IsDecl(t, s) /\ ~w.quote
  \/ FirstToken(t, s) = "cmd" /\ Outside(w) /\ Indent(t, s) <= indent
  \/ FirstToken(t, s) = "by"

\* The header from kw on its line; w is the walk from that line on.
Header(t, kw, line, w) ==
  LET ends == {l - 1 : l \in {s \in LineStarts(t) :
                 s > line /\ EndsHeader(t, s, w[s - line], kw - line,
                                       \E j \in line..s - 1 : t[j] = "str")}}
              \cup {k - 1 : k \in {j \in line..Len(t) : Cuts(t, j, w[j - line])}}
  IN  SubSeq(t, kw, Min(ends \cup {Len(t)}))
HeaderAt(t, kw, line) == Header(t, kw, line, Walk(SubSeq(t, line, Len(t))))
HeaderOf(t, name) ==
  IF Locate(t, name) = {} THEN NoStatement
  ELSE LET kw == Min(Locate(t, name)) IN HeaderAt(t, kw, LineOf(t, kw))
IsabelleStatement(t, name) == HeaderOf(BlankIsabelleComments(t), name)

ExtractStatement(t, name, prover) ==
  CASE prover = "lean4"    -> LeanStatement(t, name)
    [] prover = "rocq"     -> RocqStatement(t, name)
    [] prover = "isabelle" -> IsabelleStatement(t, name)

-----------------------------------------------------------------------------
(* The verdict of statement_immutability on a proof-bearing declaration. *)

\* Runs of white space count as one space, and none at the ends: what is left,
\* each token with its place.
Kept(t) ==
  {k \in 1..Len(t) :
     \/ t[k] \notin Space
     \/ /\ k > 1 /\ t[k - 1] \notin Space
        /\ \E j \in k..Len(t) : t[j] \notin Space}
Place(kept, k) == Cardinality({j \in kept : j <= k})
Normalized(t) ==
  {<<Place(Kept(t), k), IF t[k] \in Space THEN "sp" ELSE t[k]>> : k \in Kept(t)}

\* The span of the first declaration; b is t with its comments blanked.
FirstSpan(t, b, decls, cont) ==
  LET s == Min(decls)
  IN  SubSeq(t, s, SpanEnd(b, s, Min((decls \ {s}) \cup {Len(b) + 1}), cont))
SpanIn(t, b, prover) == FirstSpan(t, b, DeclStarts(b, prover), Continuation(b, prover))
SpanText(t, prover) == SpanIn(t, StripComments(t, Syntax[prover]), prover)

\* The first declaration of two versions of a file.  A text that differs is
\* judged by its statement, and no statement is no answer.
Compared(base, head, from, to) ==
  IF Normalized(base) = Normalized(head) THEN "unchanged"
  ELSE IF from = NoStatement \/ to = NoStatement THEN "undetermined"
  ELSE IF Normalized(from) = Normalized(to) THEN "unchanged" ELSE "changed"
Verdict(base, head, name, prover) ==
  Compared(base, head, ExtractStatement(base, name, prover),
                       ExtractStatement(head, name, prover))
=============================================================================
