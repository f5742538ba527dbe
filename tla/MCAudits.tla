------------------------------ MODULE MCAudits -------------------------------
EXTENDS Audits, TLC

CONSTANTS f, g, h, thm, dfn, axm, t1, strong, weak, odd, murky

MCPath == {f, g}
ThreePaths == {f, g, h}
MCKey == {thm, dfn, axm}
MCKind == [k \in MCKey |-> CASE k = thm -> "theorem" [] k = dfn -> "def" [] k = axm -> "axiom"]
MCSingle == {dfn, axm}
\* The definition's last segment is the theorem's, and it stands before it.
MCSegment == [k \in MCKey |-> IF k = dfn THEN thm ELSE k]
MCPlace == [k \in MCKey |-> CASE k = dfn -> 1 [] k = thm -> 2 [] k = axm -> 3]
\* Two statements differ in a later line only.
MCFirstLine == [e \in {strong, weak, odd, murky} |-> IF e = weak THEN strong ELSE e]
MCCited == {dfn, axm}
MCTask == {t1}
MCTarget == [t \in MCTask |-> <<f, thm>>]

Entry(stmt, body) == [stmt |-> stmt, body |-> body]
Texts(first, second, def, ax) ==
  [s \in Slot |-> CASE s = <<thm, 1>> -> first [] s = <<thm, 2>> -> second
                    [] s = <<dfn, 1>> -> def [] s = <<axm, 1>> -> ax]
Start(file) ==
  [ files  |-> [p \in Path |-> IF p = f THEN file ELSE NoFile],
    config |-> [sorry |-> "block", axioms |-> "net_zero", prover |-> "lean4"] ]

\* A task waiting for its proof, alone or beside a definition its proof may use
\* that waits as well, the same where no extractor finds the statement, and two
\* theorems of one name with a blueprint's definition and an axiom.
MCInitTree ==
  { Start(Texts(Entry(strong, "sorry"), NoDecl, NoDecl, NoDecl)),
    Start(Texts(Entry(strong, "sorry"), NoDecl, Entry(weak, "sorry"), NoDecl)),
    Start(Texts(Entry(odd, "sorry"), NoDecl, NoDecl, NoDecl)),
    Start(Texts(Entry(strong, "proof"), Entry(weak, "proof"),
                Entry(weak, "sorry"), Entry(strong, "proof"))) }

\* A file with nothing left to prove.
DoneInitTree == { Start(Texts(Entry(strong, "proof"), NoDecl, NoDecl, NoDecl)) }

\* Proofs, proofs that cite, gaps, new helpers, duplicates, weakened statements and
\* redefinitions.
MCEdit ==
  {<<f, <<thm, 1>>, e>> : e \in {Entry(strong, "proof"), Entry(strong, "lemma"),
                                 Entry(odd, "proof"), Entry(weak, "proof"), NoDecl}}
    \cup {<<f, <<thm, 2>>, Entry(strong, "proof")>>,
          <<f, <<dfn, 1>>, Entry(weak, "proof")>>,
          <<f, <<dfn, 1>>, Entry(strong, "choice")>>,
          <<f, <<axm, 1>>, Entry(weak, "proof")>>,
          <<f, <<thm, 1>>, Entry(murky, "proof")>>,
          <<g, <<dfn, 1>>, Entry(weak, "sorry")>>}

Of(sorry, axioms, prover) == [sorry |-> sorry, axioms |-> axioms, prover |-> prover]
MCSetting ==
  {Of("report", "whitelist", "lean4"), Of("block", "net_zero", "unknown")}
=============================================================================
