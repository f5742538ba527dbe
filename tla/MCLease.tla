------------------------------ MODULE MCLease -------------------------------
EXTENDS Lease, TLC

CONSTANTS alice, bob, c1, c2, c3, s1, s2, s3

MCLogin == {alice, bob}

\* Two machines of alice's and one of bob's, or one each.
ThreeClients == {c1, c2, c3}
TwoClients == {c1, c3}
MCLoginOf == [c \in Client |-> IF c = c3 THEN bob ELSE alice]

TwoSessions == {s1, s2}
ThreeSessions == {s1, s2, s3}
\* alice's two machines are interchangeable as well.
RaceSymmetry == Permutations(Session) \cup Permutations({c1, c2})
\* With one machine each, alice with hers and bob with his may change places.
Swapped == (alice :> bob) @@ (bob :> alice) @@ (c1 :> c3) @@ (c3 :> c1)
DuelSymmetry == Permutations(Session) \cup {Swapped}

NobodyPatient == {}
BobPatient == {c3}

Free == [open |-> TRUE, labels |-> {"available"}, pinAhead |-> FALSE]
AlwaysFree == {Free}
FreeOrTaken == {Free, [Free EXCEPT !.labels = {"claimed"}]}
=============================================================================
