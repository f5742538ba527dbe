---------------------------- MODULE MCLifecycle -----------------------------
EXTENDS Lifecycle, TLC

CONSTANTS alice, c1, s1, s2, rec1

MCLogin == {alice}
MCClient == {c1}
MCLoginOf == [c \in Client |-> alice]
OneSession == {s1}
TwoSessions == {s1, s2}
MCRecord == {rec1}
NobodyPatient == {}
AllIssues == Issue
=============================================================================
