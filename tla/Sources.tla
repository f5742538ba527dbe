------------------------------ MODULE Sources -------------------------------
(***************************************************************************)
(* A prover file as its author writes it, token by token, with what the    *)
(* author means by each token: comment, string, cartouche or code; the     *)
(* statement, its proof or what follows; the scope of each declaration.    *)
(* The gate never sees this meaning: it reads the text alone, with the     *)
(* scanners of Lexing and Statements, and the properties say where the two *)
(* agree.  The author knows the prover's grammar, so the lexical mode here *)
(* is the prover's own lexer, one token at a time.                         *)
(***************************************************************************)
EXTENDS Statements

\* What is written: for which prover, with which tokens, how many of them, and
\* whether any text ("lex"), one declaration ("statement") or scopes ("scope").
CONSTANT Kits

ASSUME KitsAssumption ==
  \A k \in Kits : k.prover \in DOMAIN Syntax /\ None \notin k.tokens

VARIABLES kit, text, mode, label, scopes, paths,
          strayed   \* Rocq has read a token otherwise than strip_comments does

vars == <<kit, text, mode, label, scopes, paths, strayed>>

prover == kit.prover

\* quoted: after an odd number of quotes in a comment, a string for Rocq alone.
Code == [string |-> FALSE, skip |-> FALSE, comment |-> 0, quoted |-> FALSE, line |-> FALSE,
         cartouche |-> 0, bracket |-> 0, part |-> "stmt"]
InCode(m) == ~m.string /\ m.comment = 0 /\ ~m.line /\ m.cartouche = 0

Init ==
  /\ kit \in Kits
  /\ text = IF kit.job = "statement" THEN <<"kw", "f">> ELSE <<>>
  /\ mode = Code
  /\ label = [k \in DOMAIN text |-> [lex |-> "code", part |-> "head"]]
  /\ scopes = <<>>
  /\ paths = {}
  /\ strayed = FALSE

\* The prover's lexer on one token.  Rocq reads strings inside comments, where no
\* comment opens or closes, and a backslash escapes nothing in its strings.
Lexed(m, tok) ==
  LET x == Syntax[prover]
      up(n, o, c) == IF tok = o THEN n + 1 ELSE IF tok = c THEN n - 1 ELSE n
  IN  CASE m.string        -> [m EXCEPT !.string = m.skip \/ tok # "str",
                                        !.skip = ~m.skip /\ tok = "esc" /\ prover # "rocq"]
        [] m.comment > 0   ->
             [m EXCEPT !.quoted  = @ # (tok = "str"),
                       !.comment = IF prover = "rocq" /\ m.quoted THEN @
                                   ELSE up(@, x.open, x.close)]
        [] m.line          -> [m EXCEPT !.line = tok # "nl"]
        [] m.cartouche > 0 -> [m EXCEPT !.cartouche = up(@, x.vopen, x.vclose)]
        [] OTHER           -> [m EXCEPT !.string = tok = "str",
                                        !.line = tok = x.line,
                                        !.comment = IF tok = x.open THEN 1 ELSE 0,
                                        !.cartouche = IF tok = x.vopen THEN 1 ELSE 0,
                                        !.bracket = up(@, "(", ")")]

Means(m, tok) ==
  [lex  |-> CASE m.string        -> "string"
              [] m.cartouche > 0 -> "verbatim"
              [] InCode(m) /\ tok \notin {Syntax[prover].open, Syntax[prover].line}
                                 -> "code"
              [] OTHER           -> "comment",
   part |-> m.part]

\* Where strip_comments, which knows neither rule, goes another way than Rocq.
Strays(m, tok) ==
  prover = "rocq" /\ \/ m.string /\ tok = "esc"
                     \/ m.comment > 0 /\ m.quoted /\ tok \in {"(*", "*)"}

\* The author writes one token, or a phrase of the grammar that belongs to part.
Type(tok) ==
  /\ Len(text) < kit.room
  /\ text' = Append(text, tok)
  /\ label' = Append(label, Means(mode, tok))
  /\ mode' = Lexed(mode, tok)
  /\ strayed' = (strayed \/ Strays(mode, tok))
  /\ UNCHANGED <<kit, scopes, paths>>

Phrase(toks, part) ==
  /\ Len(text) + Len(toks) <= kit.room
  /\ text' = text \o toks
  /\ label' = label \o [k \in DOMAIN toks |-> [lex |-> "code", part |-> part]]
  /\ UNCHANGED strayed

-----------------------------------------------------------------------------
(* Any text. *)

Write == kit.job = "lex" /\ \E tok \in kit.tokens : Type(tok)

-----------------------------------------------------------------------------
(* One declaration: its statement, its proof, and a command after it. *)

Writing(part) == kit.job = "statement" /\ mode.part = part

\* Inside a string, comment or cartouche anything may stand, but for what Rocq
\* reads otherwise than the gate: a string in a comment, a backslash in a string.
WriteInside ==
  /\ Writing("stmt") /\ ~InCode(mode)
  /\ \E tok \in kit.tokens \ {x \in {"str"} : prover = "rocq" /\ mode.comment > 0} :
       ~Strays(mode, tok) /\ Type(tok)

\* What ends a statement stands in it only inside brackets, and the ":=" of a
\* let.  An unbracketed "=>" is left out, as _scan_to_signature_end says.
WriteStatement ==
  /\ Writing("stmt") /\ InCode(mode)
  /\ \E tok \in kit.tokens \ {"by", "..", ".", "kw", "cmd", "<c>", "*)", "-/",
                          "where", "let"} :
       /\ tok = ")" => mode.bracket > 0
       /\ tok \in {":=", "=>"} => mode.bracket > 0
       /\ Type(tok)

\* A local definition of the statement: let x := e.
WriteLet ==
  /\ Writing("stmt") /\ InCode(mode) /\ "let" \in kit.tokens
  /\ Phrase(<<"let", "w", ":=">>, "stmt")
  /\ UNCHANGED <<kit, mode, scopes, paths>>

\* The statement is over: a body, a proof command, a terminal method, a period.
Ends ==
  [lean4    |-> {<<":=">>, <<"where">>, <<"nl", "|", "w", "=>">>},
   rocq     |-> {<<".", "nl">>},
   isabelle |-> {<<"by">>, <<"..", "nl">>}]
EndStatement ==
  /\ Writing("stmt") /\ InCode(mode) /\ mode.bracket = 0
  /\ \E end \in Ends[prover] : Phrase(end, "proof")
  /\ mode' = [mode EXCEPT !.part = "proof"]
  /\ UNCHANGED <<kit, scopes, paths>>

WriteProof ==
  /\ Writing("proof")
  /\ \E tok \in {"w", "nl"} : Type(tok)

\* The next declaration, or a command that is none.  Isabelle has declarations
\* without a proof.
NextCommand ==
  /\ \/ Writing("proof")
     \/ Writing("stmt") /\ prover = "isabelle"
  /\ InCode(mode)
  /\ \E next \in {<<"nl", "kw", "w">>, <<"nl", "cmd", "w">>} : Phrase(next, "after")
  /\ mode' = [mode EXCEPT !.part = "after"]
  /\ UNCHANGED <<kit, scopes, paths>>

-----------------------------------------------------------------------------
(* Scopes, properly nested. *)

Scoping == kit.job = "scope"
Names == kit.tokens \cap {"A", "B"}
Around(stack) ==
  Given([i \in DOMAIN stack |-> IF stack[i].kind = "module" THEN stack[i].name ELSE None])

\* A namespace, module, locale or context.  Isabelle's locale is a declaration
\* of the scope around it.  A rocq section with the name of a module around it is
\* left out, as qualify_by_scope says.
OpenScope ==
  /\ Scoping
  /\ \E name \in Names, kind \in {"module", "section"} :
       LET line == IF prover # "isabelle" THEN <<kind, name, "nl">>
                   ELSE IF kind = "module" THEN <<"module", name, "nl", "begin", "nl">>
                   ELSE <<"section", "begin", "nl">>
       IN  /\ prover = "rocq" /\ kind = "section" =>
                \A i \in DOMAIN scopes : scopes[i].name # name
           /\ Phrase(line, "stmt")
           /\ scopes' = Append(scopes, [kind |-> kind, name |-> name])
  /\ UNCHANGED <<kit, mode, paths>>

\* A locale without a body opens no scope.
DeclareLocale ==
  /\ Scoping /\ prover = "isabelle"
  /\ \E name \in Names, body \in BOOLEAN :
       /\ Phrase(<<"locale", name>> \o (IF body THEN <<"begin", "nl">> ELSE <<"nl">>),
                 "stmt")
       /\ scopes' = IF body THEN Append(scopes, [kind |-> "module", name |-> name])
                    ELSE scopes
  /\ paths' = paths \cup {<<Len(text) + 1, Around(scopes)>>}
  /\ UNCHANGED <<kit, mode>>

CloseScope ==
  /\ Scoping /\ scopes # <<>>
  /\ Phrase(IF prover = "isabelle" THEN <<"end", "nl">>
            ELSE <<"end", Last(scopes).name, "nl">>, "stmt")
  /\ scopes' = Front(scopes)
  /\ UNCHANGED <<kit, mode, paths>>

Declare ==
  /\ Scoping
  /\ Phrase(<<"kw", "f", "nl">>, "stmt")
  /\ paths' = paths \cup {<<Len(text) + 1, Around(scopes)>>}
  /\ UNCHANGED <<kit, mode, scopes>>

\* lemma (in A) f; lemma (in -) f is declared outside every scope.
DeclareIn ==
  /\ Scoping /\ prover = "isabelle"
  /\ \E name \in Names \cup {"-"} :
       /\ Phrase(<<"kw", "in", name, "f", "nl">>, "stmt")
       /\ paths' = paths \cup {<<Len(text) + 1, IF name = "-" THEN <<>> ELSE <<name>>>>}
  /\ UNCHANGED <<kit, mode, scopes>>

\* Prose in a cartouche, with lines that read like commands.
WriteProse ==
  /\ Scoping /\ prover = "isabelle"
  /\ Phrase(<<"cmd", "<o>", "nl", "end", "nl", "<c>", "nl">>, "stmt")
  /\ UNCHANGED <<kit, mode, scopes, paths>>

-----------------------------------------------------------------------------
Next ==
  \/ Write
  \/ WriteInside \/ WriteStatement \/ WriteLet \/ EndStatement
  \/ WriteProof \/ NextCommand
  \/ OpenScope \/ DeclareLocale \/ CloseScope
  \/ Declare \/ DeclareIn \/ WriteProse

Spec == Init /\ [][Next]_vars

-----------------------------------------------------------------------------
Meant(lex) == {k \in DOMAIN text : label[k].lex = lex}

\* strip_comments blanks exactly the tokens the prover's lexer takes for comments.
\* Not so in Rocq, whose comments hold strings: after (* " (* " *) the code blanks
\* all the rest of the file.
CommentsRead ==
  StripComments(text, Syntax[prover]) = Blank(text, Meant("comment"))

\* Where no comment mark stands in a string of a Rocq comment, and no backslash
\* in a Rocq string, strip_comments, which jumps from span to span, reads the file
\* as the prover does: nothing is blanked after a string, an escape or a cartouche
\* that holds a comment mark, and no code after an unbalanced one.
CommentsBlanked == ~strayed => CommentsRead

\* The two blankers agree but for Isabelle's marginal comments, wherever one
\* stands outside strings and comments, also inside a cartouche.
Marginals ==
  UNION {m..MarginalEnd(text, m) - 1 :
           m \in {k \in DOMAIN text : /\ text[k] = "<m>"
                                      /\ label[k].lex \in {"code", "verbatim"}}}
BlankersAgree ==
  kit.job = "lex" /\ prover = "isabelle" =>
    BlankIsabelleComments(text) = Blank(text, Meant("comment") \cup Marginals)

\* The lines no declaration is read from are the ones that begin inside an open
\* string or cartouche: a mistake hides every declaration after it.
ContinuationInside ==
  kit.job # "scope" /\ prover = "isabelle" =>
    LET b == StripComments(text, Syntax[prover])
    IN  Continuation(b, prover) =
          {s \in LineStarts(b) : /\ ~IsBlank(b, s) /\ s > 1
                                 /\ label[s - 1].lex \in {"string", "verbatim"}}

\* Every declaration is found and keyed by the scopes that are open around it.
KeysAgree ==
  kit.job = "scope" =>
    LET b == StripComments(text, Syntax[prover])
    IN  ScopeKeys(prover, b) = paths

-----------------------------------------------------------------------------
(* A changed word, and what the audit says of it. *)

Changed(k) == [text EXCEPT ![k] = "v"]
Words(part) ==
  {k \in DOMAIN text : /\ text[k] = "w"
                       /\ label[k].part = part /\ label[k].lex # "comment"}
Judged(k) ==
  Verdict(SpanText(text, prover), SpanText(Changed(k), prover), "f", prover)

\* statement_immutability's promise: a changed word of the statement is seen.
StatementSeen ==
  kit.job = "statement" => \A k \in Words("stmt") : Judged(k) # "unchanged"

\* The shapes the extractors are known to misread.
\* Lean: a let; a mark of the grammar inside a comment or string; a bar that
\* begins a line of a statement which alternatives follow.
StatementMarks == {":=", "where", "(", ")", "|", "=>"}
PlainLean ==
  LET stmt == {k \in DOMAIN text : label[k].part = "stmt"}
  IN  \A k \in stmt : /\ text[k] # "let"
                      /\ text[k] \in StatementMarks => label[k].lex = "code"
                      /\ LineInitial(text, k, 0) => \A j \in DOMAIN text :
                           text[j] = "=>" => label[j].part = "stmt"
\* Isabelle: inside the statement a blank line, also one that holds a comment,
\* after a string; a proof command that begins a line of a string or cartouche; a
\* declaration keyword that begins a line of a cartouche.
PlainIsabelle ==
  LET b == BlankIsabelleComments(text)
  IN  \A s \in {l \in LineStarts(b) : l > 1 /\ label[l].part = "stmt"} :
        /\ IsBlank(b, s) => \A k \in 1..s : b[k] # "str"
        /\ FirstToken(b, s) \in {"by", "kw"} => label[First(b, s)].lex = "comment"
Plain == (prover = "lean4" => PlainLean) /\ (prover = "isabelle" => PlainIsabelle)

\* Outside those shapes a changed word of the statement is never called
\* unchanged, and a changed word of the proof, or after it, always is.
StatementKept ==
  kit.job = "statement" /\ Plain =>
    \A part \in {"stmt", "proof", "after"} : \A k \in Words(part) :
      (Judged(k) = "unchanged") <=> (part # "stmt")
=============================================================================
