------------------------------- MODULE Lexing -------------------------------
(***************************************************************************)
(* How the gate reads a prover's file before it judges it: the two comment *)
(* blankers, the walk over strings and cartouches, and the enclosing-scope *)
(* names of declarations.  A file is a sequence of tokens; one token takes *)
(* one column.                                                             *)
(*                                                                         *)
(* Tokens: "sp" and "nl", the string quote "str", the backslash "esc", the *)
(* comment marks of each prover, Isabelle's cartouche marks "<o>" and      *)
(* "<c>" and marginal-comment mark "<m>", a declaration keyword "kw", and  *)
(* whatever else the prover's grammar gives a meaning to.                  *)
(***************************************************************************)
EXTENDS Naturals, SequencesExt

None == "none"
Space == {"sp", "nl"}

\* CommentSyntax of each ProverProfile.
Syntax ==
  [lean4    |-> [line |-> "--", open |-> "/-", close |-> "-/",
                 vopen |-> None, vclose |-> None],
   rocq     |-> [line |-> None, open |-> "(*", close |-> "*)",
                 vopen |-> None, vclose |-> None],
   isabelle |-> [line |-> None, open |-> "(*", close |-> "*)",
                 vopen |-> "<o>", vclose |-> "<c>"]]

-----------------------------------------------------------------------------
(* Lines, named by the position of their first token. *)

LineStarts(t) == {s \in 1..Len(t) : s = 1 \/ t[s - 1] = "nl"}
LineEnd(t, i) == Min({k \in i..Len(t) : t[k] = "nl"} \cup {Len(t) + 1})
First(t, s) == Min({k \in s..LineEnd(t, s) : k = LineEnd(t, s) \/ t[k] # "sp"})
Indent(t, s) == First(t, s) - s
IsBlank(t, s) == First(t, s) = LineEnd(t, s)
FirstToken(t, s) == IF IsBlank(t, s) THEN None ELSE t[First(t, s)]

\* The first token after i that is not white space, on its line or a later one.
NextToken(t, i) == LET later == {k \in i + 1..Len(t) : t[k] \notin Space}
                   IN  IF later = {} THEN None ELSE t[Min(later)]

-----------------------------------------------------------------------------
(* Comment blanking: an index walks over the text and jumps over spans. *)

\* The index after the close that matches the open at i, or after the text.
MutOneClose(t, i, open, close) ==
  Min({k + 1 : k \in {j \in i + 1..Len(t) : t[j] = close}} \cup {Len(t) + 1})
NestEnd(t, i, open, close) ==
  LET depth[k \in i..Len(t)] ==
        IF k = i THEN 1
        ELSE IF t[k] = open THEN depth[k - 1] + 1
        ELSE IF t[k] = close THEN depth[k - 1] - 1 ELSE depth[k - 1]
      closed == {k \in i..Len(t) : depth[k] = 0}
  IN  IF closed = {} THEN Len(t) + 1 ELSE Min(closed) + 1

\* The index after the quote that ends the string opened at i.
StringEnd(t, i) ==
  LET escaped[k \in i..Len(t)] ==
        k > i /\ ~escaped[k - 1] /\ t[k] = "esc" /\ k < Len(t)
      closed == {k \in i + 1..Len(t) : t[k] = "str" /\ ~escaped[k - 1]}
  IN  IF closed = {} THEN Len(t) + 1 ELSE Min(closed) + 1

\* What starts at i, for strip_comments: is it blanked, and where does it end?
Span(blank, next) == [blank |-> blank, next |-> next]
Lexeme(t, i, x) ==
  CASE t[i] = x.open  -> Span(TRUE, NestEnd(t, i, x.open, x.close))
    [] t[i] = x.line  -> Span(TRUE, LineEnd(t, i))
    [] t[i] = x.vopen -> Span(FALSE, NestEnd(t, i, x.vopen, x.vclose))
    [] t[i] = "str"   -> Span(FALSE, StringEnd(t, i))
    [] OTHER          -> Span(FALSE, i + 1)

\* Blanked tokens become spaces; line breaks stay.
Blank(t, at) == [k \in 1..Len(t) |-> IF k \in at /\ t[k] # "nl" THEN "sp" ELSE t[k]]

StripComments(t, x) ==
  LET from[i \in 1..Len(t) + 1] ==
        IF i > Len(t) THEN {}
        ELSE LET s == Lexeme(t, i, x)
             IN  from[s.next] \cup (IF s.blank THEN i..s.next - 1 ELSE {})
  IN  Blank(t, from[1])

\* The index after the marginal comment whose mark is at i, or 0: no cartouche
\* follows the mark.
MarginalEnd(t, i) ==
  LET o == Min({k \in i + 1..Len(t) + 1 : k > Len(t) \/ t[k] \notin Space})
  IN  IF o <= Len(t) /\ t[o] = "<o>" THEN NestEnd(t, o, "<o>", "<c>") ELSE 0

\* Isabelle's own blanker steps through a cartouche, because a marginal comment
\* inside one is a comment as well.
MutInertMarginal(t, i, d) == IF d = 0 /\ t[i] = "<m>" THEN MarginalEnd(t, i) ELSE 0
Marginal(t, i, d) == IF t[i] = "<m>" THEN MarginalEnd(t, i) ELSE 0
IsaLexeme(t, i, d) ==
  IF Marginal(t, i, d) > 0 THEN Span(TRUE, Marginal(t, i, d))
  ELSE CASE d = 0 /\ t[i] = "str" -> Span(FALSE, StringEnd(t, i))
         [] d = 0 /\ t[i] = "(*"  -> Span(TRUE, NestEnd(t, i, "(*", "*)"))
         [] OTHER                  -> Span(FALSE, i + 1)
Deeper(t, i, d) ==
  CASE Marginal(t, i, d) > 0  -> d
    [] t[i] = "<o>"           -> d + 1
    [] t[i] = "<c>" /\ d > 0 -> d - 1
    [] OTHER                  -> d

BlankIsabelleComments(t) ==
  LET from[at \in (1..Len(t) + 1) \X Nat] ==
        IF at[1] > Len(t) THEN {}
        ELSE LET s == IsaLexeme(t, at[1], at[2])
             IN  from[<<s.next, Deeper(t, at[1], at[2])>>]
                 \cup (IF s.blank THEN at[1]..s.next - 1 ELSE {})
  IN  Blank(t, from[<<1, 0>>])

-----------------------------------------------------------------------------
(* _scan_line, line after line: inside a string, or how deep in cartouches. *)

\* A backslash in a string takes the token after it, on its line.
MutBlindEscape(t, k, w) == FALSE
Skips(t, k, w) == ~w.skip /\ t[k] = "esc" /\ k + 1 < LineEnd(t, k)
WalkStep(t, k, w) ==
  IF w.quote
  THEN [w EXCEPT !.quote = w.skip \/ t[k] # "str", !.skip = Skips(t, k, w)]
  ELSE [quote |-> w.depth = 0 /\ t[k] = "str", skip |-> FALSE,
        depth |-> IF t[k] = "<o>" THEN w.depth + 1
                  ELSE IF t[k] = "<c>" /\ w.depth > 0 THEN w.depth - 1
                  ELSE w.depth]

\* The state after each position; position 0 is the start of the text.
Walk(t) ==
  LET w[k \in 0..Len(t)] ==
        IF k = 0 THEN [quote |-> FALSE, depth |-> 0, skip |-> FALSE]
        ELSE WalkStep(t, k, w[k - 1])
  IN  w
Outside(w) == ~w.quote /\ w.depth = 0

\* The lines that begin inside an open string or cartouche: only Isabelle's
\* profile has the hook.
Continuation(b, prover) ==
  IF prover # "isabelle" THEN {}
  ELSE LET w == Walk(b)
       IN  {s \in LineStarts(b) : ~IsBlank(b, s) /\ ~Outside(w[s - 1])}

-----------------------------------------------------------------------------
(* The scope a declaration stands in: qualify_decl_names of the profiles. *)

IsDecl(b, s) == FirstToken(b, s) \in {"kw", "locale"}
DeclStarts(b, prover) ==
  {s \in LineStarts(b) : IsDecl(b, s)} \ Continuation(b, prover)

\* The name after an opener or a closer, if it has one.
NameAfter(b, s) ==
  LET k == First(b, s) + 1 IN IF k < LineEnd(b, s) THEN b[k] ELSE None

\* _pop_scope: a named close takes the innermost scope of that name.
PopScope(stack, name) ==
  LET named == {i \in DOMAIN stack : name # None /\ stack[i].name = name}
  IN  IF stack = <<>> THEN stack
      ELSE IF named = {} THEN Front(stack)
      ELSE RemoveAt(stack, Max(named))

\* Openers: namespace, Module, locale and context A name the scope; section,
\* Section and an anonymous context do not, and only Lean keeps the name of one.
Opens(prover, b, s) ==
  CASE FirstToken(b, s) \in {"module", "locale"} ->
         {[named |-> TRUE, name |-> NameAfter(b, s)]}
    [] FirstToken(b, s) = "section" ->
         {[named |-> FALSE,
           name |-> IF prover = "lean4" THEN NameAfter(b, s) ELSE None]}
    [] OTHER -> {}
MutAtOnce(prover, b, s) == TRUE
Begins(prover, b, s) ==
  prover # "isabelle" \/ \E k \in s..LineEnd(b, s) - 1 : b[k] = "begin"

ScopeStep(prover, b, s, q) ==
  IF FirstToken(b, s) = "end"
  THEN [stack |-> PopScope(q.stack, NameAfter(b, s)), pending |-> {}]
  ELSE LET armed == IF Opens(prover, b, s) # {} THEN Opens(prover, b, s) ELSE q.pending
       IN  IF armed # {} /\ Begins(prover, b, s)
           THEN [stack |-> Append(q.stack, CHOOSE e \in armed : TRUE), pending |-> {}]
           ELSE [q EXCEPT !.pending = armed]

\* The names there are: a contributing scope without one adds nothing.
Given(names) == SelectSeq(names, LAMBDA name : name # None)

\* An inline target, "(in A)", stands for the scopes around the declaration;
\* "(in -)" is the scope outside them all.
ScopePath(prover, b, s, stack) ==
  IF prover = "isabelle" /\ NameAfter(b, s) = "in"
  THEN IF b[First(b, s) + 2] = "-" THEN <<>> ELSE <<b[First(b, s) + 2]>>
  ELSE Given([i \in DOMAIN stack |-> IF stack[i].named THEN stack[i].name ELSE None])

\* Each declaration line with the names of the contributing scopes around it; q
\* is what is open after each position.  An opener that is itself a declaration
\* is keyed by the scopes around it.
ScopeKeys(prover, b) ==
  LET lines == LineStarts(b) \ Continuation(b, prover)
      q[k \in 0..Len(b)] ==
        IF k = 0 THEN [stack |-> <<>>, pending |-> {}]
        ELSE IF k \in lines THEN ScopeStep(prover, b, k, q[k - 1]) ELSE q[k - 1]
      around(k) == IF Opens(prover, b, k) # {} THEN q[k - 1] ELSE q[k]
  IN  {<<s, ScopePath(prover, b, s, around(s).stack)>> : s \in {l \in lines : IsDecl(b, l)}}
=============================================================================
