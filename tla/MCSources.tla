----------------------------- MODULE MCSources ------------------------------
EXTENDS Sources, TLC

CONSTANTS LexRoom, StatementRoom, ScopeRoom

Kit(p, j, r, ts) == [prover |-> p, job |-> j, room |-> r, tokens |-> ts]

LexKits ==
  {Kit("lean4", "lex", LexRoom, {"--", "/-", "-/", "str", "esc", "nl", "w"}),
   Kit("rocq", "lex", LexRoom, {"(*", "*)", "str", "esc", "nl", "w"}),
   Kit("isabelle", "lex", LexRoom,
       {"(*", "*)", "<o>", "<c>", "<m>", "str", "esc", "nl", "w"})}
StatementKits ==
  {Kit("lean4", "statement", StatementRoom - 1,
       {"w", "(", ")", "|", ":=", "=>", "--", "nl", "let"}),
   Kit("rocq", "statement", StatementRoom - 1, {"w", "str", "(*", "*)", ".", "nl"}),
   Kit("isabelle", "statement", StatementRoom,
       {"w", "str", "<o>", "<c>", "by", "..", "kw", "cmd", "nl"})}
ScopeKits ==
  {Kit(p, "scope", ScopeRoom, {"A", "B"}) : p \in {"lean4", "rocq", "isabelle"}}

AllKits == LexKits \cup StatementKits \cup ScopeKits
LeanStatements == {k \in StatementKits : k.prover = "lean4"}
=============================================================================
