---------------------------- MODULE AuditsProofs ----------------------------
(***************************************************************************)
(* What the green of the audits means for main, for any files, names,      *)
(* texts, edits, moves of main, renames and failures.                      *)
(***************************************************************************)
EXTENDS Audits, FiniteSetTheorems, FunctionTheorems, WellFoundedInduction, TLAPS

Outcome == {"none", "pass", "fail", "error"}

AuditsTypeOK ==
  /\ main \in Tree /\ fork \in Tree /\ head \in Tree /\ base \in Tree
  /\ renames \in Seq(Path \X Path)
  /\ refs \in Seq(Task)
  /\ pr \in {"draft", "open", "merged"}
  /\ exits \in [Audit -> Outcome]
  /\ blind \subseteq Audit
  /\ used \in [edits : Nat, moves : Nat, faults : Nat]

LEMMA LeastNat ==
  ASSUME NEW T \in SUBSET Nat, T # {}
  PROVE  \E m \in T : \A k \in T : m <= k
<1>1. PICK m \in T : \A k \in T : <<k, m>> \notin OpToRel(<, Nat)
  BY WFMin, NatLessThanWellFounded
<1>2. \A k \in T : ~(k < m)
  BY <1>1 DEF OpToRel
<1>3. QED
  BY <1>2

-----------------------------------------------------------------------------
(* The rename history.                                                     *)

\* The renames are undone one by one: the recursion of Origin is met.
LEMMA OriginDef ==
  ASSUME renames \in Seq(Path \X Path), NEW p \in Path
  PROVE  \E f : /\ f = [n \in 0..Len(renames) |->
                          IF n = 0 THEN p
                          ELSE LET r == renames[Len(renames) + 1 - n]
                               IN  IF r[2] = f[n - 1] THEN r[1] ELSE f[n - 1]]
                /\ Origin(p) = f[Len(renames)]
<1> DEFINE N == Len(renames)
<1> DEFINE Undo(q, n) == LET r == renames[N + 1 - n] IN IF r[2] = q THEN r[1] ELSE q
<1> DEFINE IsFrom(f, m) == f = [n \in 0..m |-> IF n = 0 THEN p ELSE Undo(f[n - 1], n)]
<1> DEFINE Bad == {m \in 0..N : ~ \E f : IsFrom(f, m)}
<1>0. N \in Nat
  OBVIOUS
<1>1. Bad = {}
  <2> HIDE DEF N, Undo
  <2>1. SUFFICES ASSUME Bad # {} PROVE FALSE
    OBVIOUS
  <2>2. PICK m \in Bad : \A k \in Bad : m <= k
    <3>1. Bad \in SUBSET Nat
      BY <1>0
    <3> HIDE DEF Bad
    <3>2. QED
      BY <2>1, <3>1, LeastNat
  <2>3. m # 0
    <3>1. IsFrom([n \in 0..0 |-> p], 0)
      OBVIOUS
    <3>2. QED
      BY <3>1
  <2>4. PICK f : IsFrom(f, m - 1)
    <3>1. m \in 0..N
      OBVIOUS
    <3>2. m - 1 \in 0..N /\ m - 1 \notin Bad
      <4> HIDE DEF Bad
      <4>1. QED
        BY <1>0, <2>2, <2>3, <3>1
    <3>3. QED
      BY <3>2
  <2> DEFINE g == [n \in 0..m |-> IF n = m THEN Undo(f[m - 1], m) ELSE f[n]]
  <2>5. ASSUME NEW n \in 0..m
        PROVE  g[n] = IF n = 0 THEN p ELSE Undo(g[n - 1], n)
    <3>1. CASE n = m
      BY <1>0, <3>1, <2>3
    <3>2. CASE n # m
      <4>1. n \in 0..(m - 1) /\ g[n] = f[n]
        BY <1>0, <3>2
      <4>2. f[n] = IF n = 0 THEN p ELSE Undo(f[n - 1], n)
        BY <2>4, <4>1
      <4>3. n # 0 => g[n - 1] = f[n - 1]
        BY <1>0, <3>2
      <4>4. QED
        BY <4>1, <4>2, <4>3
    <3>3. QED
      BY <3>1, <3>2
  <2>6. IsFrom(g, m)
    <3>1. g = [n \in 0..m |-> g[n]]
      OBVIOUS
    <3> HIDE DEF g
    <3>2. QED
      BY <3>1, <2>5
  <2>7. QED
    BY <2>6
<1>2. \E f : IsFrom(f, N)
  BY <1>0, <1>1
<1>3. Origin(p) = (CHOOSE f : IsFrom(f, N))[N]
  BY DEF Origin
<1>4. IsFrom(CHOOSE f : IsFrom(f, N), N)
  <2> HIDE DEF IsFrom
  <2>1. QED
    BY <1>2
<1>5. QED
  BY <1>3, <1>4

LEMMA OriginType ==
  ASSUME renames \in Seq(Path \X Path), NEW p \in Path
  PROVE  /\ Origin(p) \in Path
         /\ (\A n \in DOMAIN renames : renames[n][2] # p) => Origin(p) = p
<1> DEFINE N == Len(renames)
<1>1. PICK f : /\ f = [n \in 0..N |->
                         IF n = 0 THEN p
                         ELSE LET r == renames[N + 1 - n]
                              IN  IF r[2] = f[n - 1] THEN r[1] ELSE f[n - 1]]
               /\ Origin(p) = f[N]
  BY OriginDef
<1>2. N \in Nat /\ DOMAIN renames = 1..N /\ \A n \in 1..N : renames[n] \in Path \X Path
  OBVIOUS
<1> HIDE DEF N
<1>3. f[0] = p
  BY <1>1, <1>2
<1>4. \A n \in 1..N : /\ N + 1 - n \in 1..N
                      /\ n - 1 \in 0..N
                      /\ f[n] = IF renames[N + 1 - n][2] = f[n - 1]
                                THEN renames[N + 1 - n][1] ELSE f[n - 1]
  <2>1. \A n \in 0..N : f[n] = IF n = 0 THEN p
                               ELSE LET r == renames[N + 1 - n]
                                    IN  IF r[2] = f[n - 1] THEN r[1] ELSE f[n - 1]
    BY <1>1
  <2>2. QED
    BY <1>2, <2>1
<1> DEFINE Bad == {n \in 0..N : \/ f[n] \notin Path
                                \/ (\A m \in 1..N : renames[m][2] # p) /\ f[n] # p}
<1>5. Bad = {}
  <2>1. SUFFICES ASSUME Bad # {} PROVE FALSE
    OBVIOUS
  <2>2. PICK m \in Bad : \A k \in Bad : m <= k
    <3>1. Bad \in SUBSET Nat
      BY <1>2
    <3> HIDE DEF Bad
    <3>2. QED
      BY <2>1, <3>1, LeastNat
  <2>3. m # 0
    BY <1>3, <2>2
  <2>4. m \in 1..N /\ m - 1 \notin Bad
    BY <1>2, <2>2, <2>3
  <2>5. /\ f[m - 1] \in Path
        /\ (\A n \in 1..N : renames[n][2] # p) => f[m - 1] = p
    BY <1>4, <2>4
  <2>6. QED
    BY <1>2, <1>4, <2>2, <2>4, <2>5
<1>6. N \in 0..N /\ N \notin Bad
  BY <1>2, <1>5
<1>7. /\ f[N] \in Path
      /\ (\A n \in 1..N : renames[n][2] # p) => f[N] = p
  BY <1>6
<1>8. QED
  BY <1>1, <1>2, <1>7

\* A file that has a home elsewhere is new to the branch, and the only one that
\* came from there; what it left is gone.
LEMMA HomeType ==
  ASSUME AuditsTypeOK, NEW p \in Path
  PROVE  /\ Home(p) \in Path
         /\ Home(p) # p =>
              /\ fork.files[p] = NoFile /\ head.files[p] # NoFile
              /\ fork.files[Home(p)] # NoFile /\ head.files[Home(p)] = NoFile
              /\ Vacated(Home(p))
         /\ \A q \in Path : Home(q) = Home(p) /\ Home(p) # p /\ Home(q) # q => q = p
<1>1. \A q \in Path : Origin(q) \in Path
  BY OriginType DEF AuditsTypeOK
<1>2. \A q \in Path : Home(q) # q =>
        /\ renames # <<>> /\ Home(q) = Origin(q)
        /\ fork.files[Origin(q)] # NoFile /\ head.files[Origin(q)] = NoFile
        /\ q \in New(Origin(q)) /\ q = CHOOSE r \in New(Origin(q)) : TRUE
  BY DEF Home
<1>3. \A q \in Path : q \in New(Origin(q)) => head.files[q] # NoFile /\ fork.files[q] = NoFile
  BY DEF New
<1>4. Home(p) \in Path
  BY <1>1, <1>2
<1>5. Home(p) # p => Vacated(Home(p))
  BY <1>2 DEF Vacated
<1>6. QED
  BY <1>2, <1>3, <1>4, <1>5

LEMMA CombineOne == ASSUME NEW f, NEW m, NEW h PROVE Combine(f, m, h) \in {m, h}
  BY DEF Combine

LEMMA TreeType ==
  ASSUME NEW t \in Tree, NEW p \in Path
  PROVE  /\ t.files[p] \in File /\ t.config \in Config
         /\ \A s \in Slot : t.files[p][s] \in Decl \cup {NoDecl}
  BY DEF Tree, File

LEMMA NoFileType == NoFile \in File /\ \A s \in Slot : NoFile[s] = NoDecl
  BY DEF NoFile, File

LEMMA MergedType ==
  ASSUME AuditsTypeOK, NEW m \in Tree
  PROVE  MergedInto(m) \in Tree
<1>1. ASSUME NEW p \in Path
      PROVE  (IF Vacated(p) THEN NoFile
              ELSE LET old == Home(p) IN
                   [s \in Slot |-> Combine(fork.files[old][s], m.files[old][s], head.files[p][s])])
               \in File
  <2>1. \A s \in Slot : m.files[Home(p)][s] \in Decl \cup {NoDecl}
                        /\ head.files[p][s] \in Decl \cup {NoDecl}
    BY HomeType, TreeType DEF AuditsTypeOK
  <2>2. QED
    BY <2>1, NoFileType, CombineOne DEF File
<1>2. Combine(fork.config, m.config, head.config) \in Config
  BY CombineOne DEF AuditsTypeOK, Tree
<1>3. QED
  BY <1>1, <1>2 DEF MergedInto, Tree

-----------------------------------------------------------------------------
(* The answers.                                                            *)

LEMMA ExitType == ASSUME NEW a, NEW lost PROVE Exit(a, lost) \in Outcome
<1>1. /\ DeltaExit(a, lost) \in {"pass", "fail"}
      /\ ImmutabilityExit(lost) \in {"pass", "fail"}
      /\ EquivExit(lost) \in {"pass", "fail"}
      /\ ComparatorExit(lost) \in {"pass", "fail", "error"}
  BY DEF DeltaExit, ImmutabilityExit, EquivExit, ComparatorExit
<1>2. QED
  BY <1>1 DEF Exit, Outcome

\* What a job answers is settled by the trees it reads, the renames and the task.
LEMMA ExitKept ==
  ASSUME UNCHANGED <<fork, head, renames, base, refs>>, NEW a, NEW lost
  PROVE  Exit(a, lost)' = Exit(a, lost)
<1>1. \A p : Origin(p)' = Origin(p)
  BY DEF Origin
<1>2. \A p : New(p)' = New(p)
  BY <1>1 DEF New
<1>3. \A p : Home(p)' = Home(p)
  BY <1>1, <1>2 DEF Home
<1>4. \A p : Vacated(p)' = Vacated(p)
  BY <1>3 DEF Vacated
<1>5. Policy' = Policy /\ Audited' = Audited
  BY <1>3, <1>4 DEF Policy, Audited, PrFiles
<1>6. \A p, l : BaseShow(p, l)' = BaseShow(p, l) /\ FetchBase(p, l)' = FetchBase(p, l)
  BY DEF BaseShow, FetchBase, RenamedFrom
<1>7. \A b, x, y : Introduced(b, x, y)' = Introduced(b, x, y)
  BY <1>5 DEF Introduced
<1>8. \A p, k : Matches(p, k)' = Matches(p, k)
  <2>1. \A x : Permitted(head, x)' = Permitted(head, x)
    BY <1>5 DEF Permitted, Rests
  <2>2. QED
    BY <2>1 DEF Matches
<1>9. DeltaExit(a, lost)' = DeltaExit(a, lost)
  BY <1>5, <1>7 DEF DeltaExit, Read
<1>10. ImmutabilityExit(lost)' = ImmutabilityExit(lost)
  BY <1>5, <1>6 DEF ImmutabilityExit
<1>11. EquivExit(lost)' = EquivExit(lost)
  BY <1>6 DEF EquivExit, Read
<1>12. ComparatorExit(lost)' = ComparatorExit(lost)
  BY <1>5, <1>8 DEF ComparatorExit, Read
<1>13. QED
  BY <1>5, <1>9, <1>10, <1>11, <1>12 DEF Exit

\* A pass that no failed read has brought about is what the trees deserve.
Deserved == \A a \in Audit : exits[a] = "pass" /\ a \notin blind => Exit(a, {}) = "pass"

Drafted == pr = "draft" => exits = NotRun /\ blind = {}

\* Where no read failed, every answer is the one the trees deserve.
Faultless == used.faults = 0 => exits = NotRun \/ \A a \in Audit : exits[a] = Exit(a, {})

\* Neither main nor a base has a file that the branch's fork point lacks.
NothingNew ==
  pr # "merged" =>
    \A p \in Path : fork.files[p] = NoFile => main.files[p] = NoFile /\ base.files[p] = NoFile

AuditsInv == AuditsTypeOK /\ Deserved /\ Drafted /\ Faultless /\ NothingNew

-----------------------------------------------------------------------------
(* The invariant holds.                                                    *)

LEMMA AuditsStart == AInit => AuditsInv
<1> SUFFICES ASSUME AInit PROVE AuditsInv
  OBVIOUS
<1>1. main \in Tree /\ fork = main /\ head = main /\ base = main
  BY AuditsAssumption DEF AInit
<1>2. refs \in Seq(Task)
  <2>1. refs \in {<<>>} \cup {<<t>> : t \in Task}
    BY DEF AInit
  <2>2. <<>> \in Seq(Task) /\ \A t \in Task : <<t>> \in Seq(Task)
    OBVIOUS
  <2>3. QED
    BY <2>1, <2>2
<1>3. renames \in Seq(Path \X Path) /\ exits \in [Audit -> Outcome] /\ blind \subseteq Audit
  BY DEF AInit, NotRun, Outcome
<1>4. pr = "draft" /\ exits = NotRun /\ blind = {}
      /\ used = [edits |-> 0, moves |-> 0, faults |-> 0]
  BY DEF AInit
<1>5. AuditsTypeOK
  BY <1>1, <1>2, <1>3, <1>4 DEF AuditsTypeOK
<1>6. \A a \in Audit : exits[a] = "none"
  BY <1>4 DEF NotRun
<1>7. QED
  BY <1>1, <1>4, <1>5, <1>6 DEF AuditsInv, Deserved, Drafted, Faultless, NothingNew

\* The edits of a tree.
LEMMA EditType ==
  ASSUME NEW t \in Tree, NEW e \in Edit
  PROVE  /\ [t EXCEPT !.files[e[1]][e[2]] = e[3]] \in Tree
         /\ \A p \in Path : p # e[1] =>
              [t EXCEPT !.files[e[1]][e[2]] = e[3]].files[p] = t.files[p]
<1>1. e[1] \in Path /\ e[2] \in Slot /\ e[3] \in Decl \cup {NoDecl}
  BY AuditsAssumption
<1>2. t.files \in [Path -> File] /\ t.files[e[1]] \in [Slot -> Decl \cup {NoDecl}]
  BY <1>1 DEF Tree, File
<1> DEFINE file == [t.files[e[1]] EXCEPT ![e[2]] = e[3]]
<1>3. file \in File
  BY <1>1, <1>2 DEF File
<1>4. [t EXCEPT !.files[e[1]][e[2]] = e[3]] = [t EXCEPT !.files = [t.files EXCEPT ![e[1]] = file]]
  BY DEF Tree
<1> DEFINE files == [t.files EXCEPT ![e[1]] = file]
<1> HIDE DEF file
<1>5. files \in [Path -> File] /\ \A p \in Path : p # e[1] => files[p] = t.files[p]
  BY <1>1, <1>2, <1>3
<1> HIDE DEF files
<1>6. [t EXCEPT !.files = files] \in Tree /\ [t EXCEPT !.files = files].files = files
  BY <1>5 DEF Tree
<1>7. [t EXCEPT !.files[e[1]][e[2]] = e[3]] = [t EXCEPT !.files = files]
  BY <1>4 DEF files
<1>8. QED
  BY <1>5, <1>6, <1>7

LEMMA EditedTree ==
  ASSUME NEW t \in Tree, NEW u, \E e \in Edit : u = [t EXCEPT !.files[e[1]][e[2]] = e[3]]
  PROVE  u \in Tree
<1>1. PICK e \in Edit : u = [t EXCEPT !.files[e[1]][e[2]] = e[3]]
  OBVIOUS
<1>2. [t EXCEPT !.files[e[1]][e[2]] = e[3]] \in Tree
  BY EditType
<1>3. QED
  BY <1>1, <1>2

LEMMA ConfigType ==
  ASSUME NEW t \in Tree, NEW c \in Setting
  PROVE  [t EXCEPT !.config = c] \in Tree /\ [t EXCEPT !.config = c].files = t.files
  BY AuditsAssumption DEF Tree

LEMMA RenameType ==
  ASSUME NEW t \in Tree, NEW p \in Path, NEW q \in Path
  PROVE  [t EXCEPT !.files[p] = NoFile, !.files[q] = t.files[p]] \in Tree
<1>1. t.files \in [Path -> File] /\ t.files[p] \in File /\ NoFile \in File
  BY NoFileType DEF Tree
<1>2. [t.files EXCEPT ![p] = NoFile, ![q] = t.files[p]] \in [Path -> File]
  BY <1>1
<1>3. [t EXCEPT !.files[p] = NoFile, !.files[q] = t.files[p]]
        = [t EXCEPT !.files = [t.files EXCEPT ![p] = NoFile, ![q] = t.files[p]]]
  BY DEF Tree
<1>4. QED
  BY <1>2, <1>3 DEF Tree

LEMMA PushedType ==
  ASSUME AuditsTypeOK, Pushed
  PROVE  base' \in Tree /\ exits' \in [Audit -> Outcome] /\ blind' \subseteq Audit
  BY DEF AuditsTypeOK, Pushed, NotRun, Outcome

LEMMA AuditsTypeStep == AuditsTypeOK /\ [ANext]_vars => AuditsTypeOK'
<1> SUFFICES ASSUME AuditsTypeOK, [ANext]_vars PROVE AuditsTypeOK'
  OBVIOUS
<1>0. main \in Tree /\ head \in Tree /\ renames \in Seq(Path \X Path)
      /\ exits \in [Audit -> Outcome] /\ blind \subseteq Audit
      /\ used \in [edits : Nat, moves : Nat, faults : Nat]
  BY DEF AuditsTypeOK
<1>1. CASE RunAudits
  <2>1. exits' \in [Audit -> Outcome]
    BY <1>1, ExitType DEF RunAudits
  <2>2. QED
    BY <1>1, <2>1 DEF RunAudits, AuditsTypeOK
<1>2. CASE RunAuditsFaulty
  <2>1. used' \in [edits : Nat, moves : Nat, faults : Nat]
    BY <1>0, <1>2 DEF RunAuditsFaulty
  <2>2. exits' \in [Audit -> Outcome] /\ blind' \subseteq Audit
    <3>1. PICK a \in Audit :
            \/ /\ exits' = [b \in Audit |-> IF b = a THEN "error" ELSE Exit(b, {})]
               /\ blind' = blind
            \/ \E side \in {"base", "head"}, p \in Path :
                 /\ exits' = [b \in Audit |-> Exit(b, IF b = a THEN {<<side, p>>} ELSE {})]
                 /\ blind' = {a}
      BY <1>2, Zenon DEF RunAuditsFaulty
    <3>2. "error" \in Outcome
      BY DEF Outcome
    <3>3. ASSUME blind' = blind,
                 exits' = [b \in Audit |-> IF b = a THEN "error" ELSE Exit(b, {})]
          PROVE  exits' \in [Audit -> Outcome] /\ blind' \subseteq Audit
      BY <1>0, <3>2, <3>3, ExitType
    <3>4. ASSUME NEW side \in {"base", "head"}, NEW p \in Path, blind' = {a},
                 exits' = [b \in Audit |-> Exit(b, IF b = a THEN {<<side, p>>} ELSE {})]
          PROVE  exits' \in [Audit -> Outcome] /\ blind' \subseteq Audit
      BY <3>4, ExitType
    <3>5. QED
      BY <3>1, <3>3, <3>4
  <2>3. QED
    BY <1>2, <2>1, <2>2 DEF RunAuditsFaulty, AuditsTypeOK
<1>3. CASE Rerun
  <2>1. exits' \in [Audit -> Outcome] /\ blind' \subseteq Audit
    BY <1>0, <1>3, ExitType DEF Rerun
  <2>2. QED
    BY <1>3, <2>1 DEF Rerun, AuditsTypeOK
<1>4. CASE WorkerEdits
  <2>1. head' \in Tree
    BY <1>0, <1>4, EditedTree, ConfigType DEF WorkerEdits
  <2>2. used' \in [edits : Nat, moves : Nat, faults : Nat]
    BY <1>0, <1>4 DEF WorkerEdits
  <2>3. QED
    BY <1>4, <2>1, <2>2, PushedType DEF WorkerEdits, AuditsTypeOK
<1>5. CASE Rename
  <2>1. PICK p, q \in Path :
          /\ head' = [head EXCEPT !.files[p] = NoFile, !.files[q] = head.files[p]]
          /\ renames' = Append(renames, <<p, q>>)
    BY <1>5 DEF Rename
  <2>2. [head EXCEPT !.files[p] = NoFile, !.files[q] = head.files[p]] \in Tree
    BY <1>0, RenameType
  <2>3. renames' \in Seq(Path \X Path)
    BY <1>0, <2>1
  <2>4. QED
    BY <1>5, <2>1, <2>2, <2>3, PushedType DEF Rename, AuditsTypeOK
<1>6. CASE Open
  BY <1>6 DEF Open, AuditsTypeOK
<1>7. CASE Rebase
  <2>1. Merged \in Tree
    BY <1>0, MergedType DEF Merged
  <2>2. QED
    BY <1>0, <1>7, <2>1, PushedType DEF Rebase, AuditsTypeOK
<1>8. CASE Merge
  <2>1. Merged \in Tree
    BY <1>0, MergedType DEF Merged
  <2>2. QED
    BY <1>8, <2>1 DEF Merge, AuditsTypeOK
<1>9. CASE MainMoves
  <2>1. main' \in Tree
    BY <1>0, <1>9, EditedTree, ConfigType DEF MainMoves
  <2>2. used' \in [edits : Nat, moves : Nat, faults : Nat]
    BY <1>0, <1>9 DEF MainMoves
  <2>3. QED
    BY <1>9, <2>1, <2>2 DEF MainMoves, AuditsTypeOK
<1>10. CASE UNCHANGED vars
  BY <1>10 DEF vars, AuditsTypeOK
<1>11. QED
  BY <1>1, <1>2, <1>3, <1>4, <1>5, <1>6, <1>7, <1>8, <1>9, <1>10 DEF ANext

\* A push that is followed by no answer, and the steps that leave all a job reads
\* as it was: the two ways the answers stay deserved.
LEMMA PushedSilent ==
  ASSUME AuditsInv, Pushed, pr \in {"draft", "open"}
  PROVE  exits' = NotRun /\ blind' = {}
  BY DEF Pushed, AuditsInv, Drafted

LEMMA SilentDeserved ==
  ASSUME exits' = NotRun
  PROVE  Deserved' /\ Faultless'
<1>1. \A a \in Audit : exits'[a] = "none"
  BY DEF NotRun
<1>2. NotRun' = NotRun
  BY DEF NotRun
<1>3. Deserved'
  BY <1>1 DEF Deserved
<1>4. Faultless'
  BY <1>2 DEF Faultless
<1>5. QED
  BY <1>3, <1>4

LEMMA DeservedStep == AuditsInv /\ [ANext]_vars => Deserved' /\ Faultless' /\ Drafted'
<1> SUFFICES ASSUME AuditsInv, [ANext]_vars PROVE Deserved' /\ Faultless' /\ Drafted'
  OBVIOUS
<1>0. /\ AuditsTypeOK /\ Deserved /\ Faultless /\ Drafted
      /\ used.faults \in Nat /\ pr \in {"draft", "open", "merged"}
  BY DEF AuditsInv, AuditsTypeOK
<1>1. CASE RunAudits
  <2>1. \A a : Exit(a, {})' = Exit(a, {})
    BY <1>1, ExitKept DEF RunAudits
  <2>2. pr' = "open" /\ blind' = blind /\ used' = used
        /\ \A a \in Audit : exits'[a] = Exit(a, {})
    BY <1>1 DEF RunAudits
  <2>3. QED
    BY <2>1, <2>2 DEF Deserved, Faultless, Drafted
<1>2. CASE RunAuditsFaulty
  <2>1. \A a : Exit(a, {})' = Exit(a, {})
    BY <1>2, ExitKept DEF RunAuditsFaulty
  <2>2. pr' = "open" /\ used'.faults = used.faults + 1
    <3>1. used \in [edits : Nat, moves : Nat, faults : Nat]
      BY <1>0 DEF AuditsTypeOK
    <3>2. QED
      BY <1>2, <3>1 DEF RunAuditsFaulty
  <2>3. PICK a \in Audit :
          \/ /\ exits' = [b \in Audit |-> IF b = a THEN "error" ELSE Exit(b, {})]
             /\ blind' = blind
          \/ \E side \in {"base", "head"}, p \in Path :
               /\ exits' = [b \in Audit |-> Exit(b, IF b = a THEN {<<side, p>>} ELSE {})]
               /\ blind' = {a}
    BY <1>2, Zenon DEF RunAuditsFaulty
  <2>4. \A b \in Audit : b # a => exits'[b] = Exit(b, {})
    BY <2>3
  <2>5. exits'[a] = "error" \/ a \in blind'
    BY <2>3
  <2>6. Deserved'
    BY <2>1, <2>4, <2>5 DEF Deserved
  <2>7. Faultless' /\ Drafted'
    BY <1>0, <2>2 DEF Faultless, Drafted
  <2>8. QED
    BY <2>6, <2>7
<1>3. CASE Rerun
  <2>1. \A a : Exit(a, {})' = Exit(a, {})
    BY <1>3, ExitKept DEF Rerun
  <2>2. /\ pr' = "open" /\ blind' = blind \ Red /\ used' = used
        /\ \A a \in Audit : exits'[a] = IF a \in Red THEN Exit(a, {}) ELSE exits[a]
    BY <1>3 DEF Rerun
  <2>3. exits # NotRun
    <3>1. PICK a \in Audit : exits[a] \in {"fail", "error"}
      BY <1>3 DEF Rerun, Red
    <3>2. QED
      BY <3>1 DEF NotRun
  <2>4. QED
    BY <1>0, <2>1, <2>2, <2>3 DEF Deserved, Faultless, Drafted
<1>4. CASE WorkerEdits
  <2>1. exits' = NotRun /\ blind' = {}
    BY <1>0, <1>4, PushedSilent DEF WorkerEdits
  <2>2. QED
    BY <2>1, SilentDeserved DEF Drafted
<1>5. CASE Rename
  <2>1. exits' = NotRun /\ blind' = {}
    BY <1>0, <1>5, PushedSilent DEF Rename
  <2>2. QED
    BY <2>1, SilentDeserved DEF Drafted
<1>6. CASE Open
  <2>1. exits' = NotRun /\ blind' = {}
    BY <1>0, <1>6 DEF Open, Drafted
  <2>2. QED
    BY <2>1, SilentDeserved DEF Drafted
<1>7. CASE Rebase
  <2>1. exits' = NotRun /\ blind' = {}
    BY <1>0, <1>7, PushedSilent DEF Rebase
  <2>2. QED
    BY <2>1, SilentDeserved DEF Drafted
<1>8. CASE UNCHANGED <<fork, head, renames, base, refs, exits, blind, used>> /\ pr' # "draft"
  <2>1. \A a : Exit(a, {})' = Exit(a, {})
    BY <1>8, ExitKept
  <2>2. QED
    BY <1>0, <1>8, <2>1 DEF Deserved, Faultless, Drafted
<1>9. CASE UNCHANGED <<fork, head, renames, base, refs, exits, blind, pr>>
           /\ used'.faults = used.faults
  <2>1. \A a : Exit(a, {})' = Exit(a, {})
    BY <1>9, ExitKept
  <2>2. QED
    BY <1>0, <1>9, <2>1 DEF Deserved, Faultless, Drafted
<1>10. Merge => UNCHANGED <<fork, head, renames, base, refs, exits, blind, used>> /\ pr' # "draft"
  BY DEF Merge
<1>11. MainMoves => UNCHANGED <<fork, head, renames, base, refs, exits, blind, pr>>
                    /\ used'.faults = used.faults
  <2>1. used \in [edits : Nat, moves : Nat, faults : Nat]
    BY <1>0 DEF AuditsTypeOK
  <2>2. QED
    BY <2>1 DEF MainMoves
<1>12. UNCHANGED vars => UNCHANGED <<fork, head, renames, base, refs, exits, blind, pr>>
                         /\ used'.faults = used.faults
  BY DEF vars
<1>13. QED
  BY <1>1, <1>2, <1>3, <1>4, <1>5, <1>6, <1>7, <1>8, <1>9, <1>10, <1>11, <1>12 DEF ANext

\* Main edits files it has, and a branch is taken from main.
LEMMA NothingNewStep == AuditsInv /\ [ANext]_vars => NothingNew'
<1> SUFFICES ASSUME AuditsInv, [ANext]_vars, pr' # "merged", NEW p \in Path,
                    fork'.files[p] = NoFile
             PROVE  main'.files[p] = NoFile /\ base'.files[p] = NoFile
  BY DEF NothingNew
<1>0. /\ pr # "merged" /\ main \in Tree
      /\ fork.files[p] = NoFile => main.files[p] = NoFile /\ base.files[p] = NoFile
  <2>1. pr # "merged"
    BY DEF ANext, RunAudits, RunAuditsFaulty, Rerun, WorkerEdits, Rename, Open, Rebase,
           Merge, MainMoves, vars
  <2>2. QED
    BY <2>1 DEF AuditsInv, AuditsTypeOK, NothingNew
<1>1. CASE fork' = main /\ main' = main /\ base' = main
  BY <1>1
<1>2. CASE fork' = fork /\ main' = main /\ base' \in {main, base}
  BY <1>0, <1>2
<1>3. CASE MainMoves
  <2>1. fork' = fork /\ base' = base
    BY <1>3 DEF MainMoves
  <2>2. main'.files[p] = main.files[p]
    <3>1. CASE \E e \in Edit : /\ main.files[e[1]] # NoFile
                               /\ main' = [main EXCEPT !.files[e[1]][e[2]] = e[3]]
      <4>1. PICK e \in Edit : /\ main.files[e[1]] # NoFile
                              /\ main' = [main EXCEPT !.files[e[1]][e[2]] = e[3]]
        BY <3>1
      <4>2. p # e[1]
        BY <1>0, <2>1, <4>1
      <4>3. [main EXCEPT !.files[e[1]][e[2]] = e[3]].files[p] = main.files[p]
        BY <1>0, <4>2, EditType
      <4>4. QED
        BY <4>1, <4>3
    <3>2. CASE \E c \in Setting : main' = [main EXCEPT !.config = c]
      BY <1>0, <3>2, ConfigType
    <3>3. QED
      BY <1>3, <3>1, <3>2 DEF MainMoves
  <2>3. QED
    BY <1>0, <2>1, <2>2
<1>4. Rebase => fork' = main /\ main' = main /\ base' = main
  BY DEF Rebase, Pushed
<1>5. ANext => \/ fork' = main /\ main' = main /\ base' = main
               \/ fork' = fork /\ main' = main /\ base' \in {main, base}
               \/ MainMoves
  BY <1>4 DEF ANext, RunAudits, RunAuditsFaulty, Rerun, WorkerEdits, Rename, Open,
              Merge, Pushed
<1>6. QED
  BY <1>1, <1>2, <1>3, <1>5 DEF vars

\* Every answer in force was deserved when it was given, and still is.
THEOREM AnswersDeserved == ASpec => []AuditsInv
<1>1. AuditsInv /\ [ANext]_vars => AuditsInv'
  BY AuditsTypeStep, DeservedStep, NothingNewStep DEF AuditsInv
<1>2. QED
  BY <1>1, AuditsStart, PTL DEF ASpec

-----------------------------------------------------------------------------
(* One file through the merge.                                             *)

LEMMA MergedFile ==
  ASSUME AuditsTypeOK, NEW m \in Tree, NEW q \in Path, NEW s \in Slot
  PROVE  MergedInto(m).files[q][s] =
           IF Vacated(q) THEN NoDecl
           ELSE Combine(fork.files[Home(q)][s], m.files[Home(q)][s], head.files[q][s])
<1>1. MergedInto(m).files[q] =
        IF Vacated(q) THEN NoFile
        ELSE [t \in Slot |-> Combine(fork.files[Home(q)][t], m.files[Home(q)][t],
                                     head.files[q][t])]
  BY DEF MergedInto
<1>2. QED
  BY <1>1, NoFileType

LEMMA NoClash ==
  ASSUME NEW m, ~ConflictWith(m), NEW q \in Path, ~Vacated(q)
  PROVE  /\ \A s \in Slot : ~Clash(fork.files[Home(q)][s], m.files[Home(q)][s], head.files[q][s])
         /\ Home(q) # q => m.files[q] = fork.files[q]
<1>1. Home(q) # q => m.files[q] = fork.files[q]
  BY DEF ConflictWith
<1>2. fork.files[Home(q)] \notin {m.files[Home(q)], head.files[q]} =>
        \A s \in Slot : ~Clash(fork.files[Home(q)][s], m.files[Home(q)][s], head.files[q][s])
  BY DEF ConflictWith
<1>3. fork.files[Home(q)] \in {m.files[Home(q)], head.files[q]} =>
        \A s \in Slot : ~Clash(fork.files[Home(q)][s], m.files[Home(q)][s], head.files[q][s])
  BY DEF Clash
<1>4. QED
  BY <1>1, <1>2, <1>3

\* A file has at most two declarations of a name.
LEMMA CopyFinite == ASSUME NEW k, NEW file PROVE IsFiniteSet(Copy(file, k))
<1>1. Copy(file, k) \subseteq {<<k, 1>>} \cup {<<k, 2>>}
  BY DEF Copy, Slot
<1>2. IsFiniteSet({<<k, 1>>} \cup {<<k, 2>>})
  BY FS_Singleton, FS_AddElement
<1>3. QED
  BY <1>1, <1>2, FS_Subset

LEMMA CopySingle ==
  ASSUME NEW k, NEW file, Cardinality(Copy(file, k)) = 1
  PROVE  \E x : Copy(file, k) = {x}
  BY CopyFinite, FS_Singleton

\* Where the other copies of the name stand on main as they did at the fork, and
\* this one is the base's unless main has it from elsewhere, what the audit
\* leaves untouched survives the merge.
LEMMA UntouchedSurvives ==
  ASSUME NEW b \in File, NEW f \in File, NEW m \in File, NEW h \in File, NEW r,
         NEW s \in Slot, m[s] # NoDecl,
         \A t \in Slot : r[t] = Combine(f[t], m[t], h[t]) /\ ~Clash(f[t], m[t], h[t]),
         h[s] # f[s] => Untouched(b, h, s[1]),
         m[s] = f[s] => b[s] = m[s],
         \A t \in Slot \ {s} : t[1] = s[1] => m[t] = f[t]
  PROVE  Survives(m[s], s[1], r)
<1> DEFINE k == s[1]
<1>1. CASE h[s] = f[s] \/ m[s] # f[s]
  <2>1. r[s] = m[s]
    BY <1>1 DEF Combine, Clash
  <2>2. s \in Copy(r, k)
    BY <2>1 DEF Copy
  <2>3. QED
    BY <2>1, <2>2 DEF Survives
<1>2. CASE h[s] # f[s] /\ m[s] = f[s]
  <2>1. Untouched(b, h, k) /\ b[s] = m[s]
    BY <1>2
  <2>2. \A t \in Slot : t[1] = k => r[t] = h[t]
    BY <1>2 DEF Combine
  <2>3. Copy(r, k) = Copy(h, k)
    BY <2>2 DEF Copy
  <2>4. s \in Copy(b, k)
    BY <2>1 DEF Copy
  <2>5. CASE SameTexts(b, h, k)
    <3> DEFINE d == m[s]
    <3> DEFINE B == {t \in Copy(b, k) : b[t] = d}
    <3> DEFINE H == {t \in Copy(h, k) : h[t] = d}
    <3>1. d \in Decl
      BY DEF File
    <3>2. Cardinality(B) = Cardinality(H)
      BY <2>5, <3>1 DEF SameTexts
    <3>3. IsFiniteSet(B) /\ IsFiniteSet(H)
      <4>1. B \subseteq Copy(b, k) /\ H \subseteq Copy(h, k)
        OBVIOUS
      <4>2. QED
        BY <4>1, CopyFinite, FS_Subset
    <3>4. s \in B
      BY <2>1, <2>4
    <3> HIDE DEF B, H
    <3>5. H # {}
      BY <3>2, <3>3, <3>4, FS_EmptySet
    <3>6. PICK t \in Copy(h, k) : h[t] = d
      BY <3>5 DEF H
    <3>7. t \in Copy(r, k) /\ r[t] = d
      BY <2>2, <2>3, <3>6 DEF Copy
    <3>8. QED
      BY <3>7 DEF Survives
  <2>6. CASE /\ Unique(b, h, k) /\ ~AsWhole(The(b, k), k)
             /\ The(b, k).stmt = The(h, k).stmt
    <3>1. Cardinality(Copy(b, k)) = 1 /\ Cardinality(Copy(h, k)) = 1
      BY <2>6 DEF Unique
    <3>2. PICK x : Copy(b, k) = {x}
      BY <3>1, CopySingle
    <3>3. PICK y : Copy(h, k) = {y}
      BY <3>1, CopySingle
    <3>4. The(b, k) = b[s] /\ The(h, k) = h[y]
      BY <2>4, <3>2, <3>3 DEF The
    <3>5. y \in Copy(r, k) /\ r[y] = h[y]
      BY <2>2, <2>3, <3>3 DEF Copy
    <3>6. QED
      BY <2>1, <2>6, <3>4, <3>5 DEF Survives
  <2>7. QED
    BY <2>1, <2>4, <2>5, <2>6 DEF Untouched
<1>3. QED
  BY <1>1, <1>2

-----------------------------------------------------------------------------
(* Statements.                                                             *)

\* Where detect_rename names the file the merge takes this one for, the audit
\* compares with what the base has of that file.
LEMMA ReadsHome ==
  ASSUME AuditsTypeOK, NEW q \in Path, ~Misread(q)
  PROVE  BaseShow(q, FALSE) = base.files[Home(q)]
<1>1. CASE RenamedFrom(q) = {Home(q)}
  <2>1. (CHOOSE x \in {Home(q)} : TRUE) = Home(q)
    OBVIOUS
  <2>2. QED
    BY <1>1, <2>1 DEF BaseShow
<1>2. CASE RenamedFrom(q) = {}
  <2> DEFINE N == Len(renames)
  <2> DEFINE T == {N - n : n \in {l \in 1..N : renames[l][2] = q}}
  <2>1. N \in Nat /\ DOMAIN renames = 1..N
    BY DEF AuditsTypeOK
  <2>2. T = {}
    <3>1. SUFFICES ASSUME T # {} PROVE FALSE
      OBVIOUS
    <3>2. T \in SUBSET Nat
      BY <2>1
    <3>3. PICK x \in T : \A y \in T : x <= y
      <4> HIDE DEF T
      <4>1. QED
        BY <3>1, <3>2, LeastNat
    <3>4. PICK n \in 1..N : renames[n][2] = q /\ x = N - n
      BY <3>3
    <3>5. \A l \in n + 1 .. N : renames[l][2] # q
      <4>1. SUFFICES ASSUME NEW l \in n + 1 .. N, renames[l][2] = q PROVE FALSE
        OBVIOUS
      <4>2. l \in 1..N /\ N - l < x
        BY <2>1, <3>4
      <4>3. N - l \in T
        BY <4>1, <4>2
      <4>4. x <= N - l
        BY <3>3, <4>3
      <4>5. QED
        BY <2>1, <3>4, <4>2, <4>4
    <3>6. renames[n][1] \in RenamedFrom(q)
      BY <2>1, <3>4, <3>5 DEF RenamedFrom
    <3>7. QED
      BY <1>2, <3>6
  <2>3. \A n \in DOMAIN renames : renames[n][2] # q
    BY <2>1, <2>2
  <2>4. Origin(q) = q
    BY <2>3, OriginType DEF AuditsTypeOK
  <2>5. Home(q) = q
    BY <2>4 DEF Home
  <2>6. QED
    BY <1>2, <2>5 DEF BaseShow
<1>3. QED
  BY <1>1, <1>2 DEF Misread

\* What a deserved pass of the immutability audit says of the changed files.
LEMMA ImmutabilityPassed ==
  ASSUME Exit("immutability", {}) = "pass", base.config.prover = "lean4",
         NEW q \in PrFiles, NEW k \in Key
  PROVE  Untouched(BaseShow(q, FALSE), head.files[q], k)
<1>1. ImmutabilityExit({}) = "pass"
  BY DEF Exit, Policy
<1>2. Audited = PrFiles
  BY DEF Audited, Policy
<1>3. ({} # {}) = FALSE
  OBVIOUS
<1>4. QED
  BY <1>1, <1>2, <1>3 DEF ImmutabilityExit

LEMMA MergeKeeps ==
  ASSUME AuditsInv, Merge, Judged, NEW q \in Path, NEW s \in Slot,
         Gone(q, s), ~Misread(q)
  PROVE  Churned(Home(q), s)
<1> DEFINE old == Home(q)
<1>1. /\ AuditsTypeOK /\ "immutability" \in Audit
      /\ main \in Tree /\ fork \in Tree /\ head \in Tree /\ base \in Tree
  BY DEF AuditsInv, AuditsTypeOK, Audit
<1>2. Exit("immutability", {}) = "pass" /\ base.config.prover = "lean4"
  BY <1>1 DEF Merge, Judged, AuditsInv, Deserved
<1>3. /\ ~Vacated(q) /\ main.files[old][s] # NoDecl
      /\ ~Survives(main.files[old][s], s[1], main'.files[q])
  BY DEF Gone
<1>4. main' = MergedInto(main) /\ ~ConflictWith(main)
  BY DEF Merge, Merged, Conflict
<1>5. old \in Path
  BY <1>1, HomeType
<1> HIDE DEF old
<1>6. /\ base.files[old] \in File /\ fork.files[old] \in File
      /\ main.files[old] \in File /\ head.files[q] \in File
  BY <1>1, <1>5, TreeType
<1>7. \A t \in Slot :
        /\ MergedInto(main).files[q][t]
             = Combine(fork.files[old][t], main.files[old][t], head.files[q][t])
        /\ ~Clash(fork.files[old][t], main.files[old][t], head.files[q][t])
  BY <1>1, <1>3, <1>4, MergedFile, NoClash DEF old
<1>8. head.files[q][s] # fork.files[old][s] => Untouched(base.files[old], head.files[q], s[1])
  <2>1. ASSUME head.files[q][s] # fork.files[old][s] PROVE q \in PrFiles
    BY <1>3, <2>1 DEF PrFiles, old
  <2>2. s[1] \in Key
    BY AuditsAssumption DEF Slot
  <2>3. BaseShow(q, FALSE) = base.files[old]
    BY <1>1, ReadsHome DEF old
  <2>4. QED
    BY <1>2, <2>1, <2>2, <2>3, ImmutabilityPassed
<1>9. SUFFICES ASSUME ~Churned(old, s) PROVE FALSE
  BY DEF old
<1>10. /\ main.files[old][s] = fork.files[old][s] => base.files[old][s] = main.files[old][s]
       /\ \A t \in Slot \ {s} : t[1] = s[1] => main.files[old][t] = fork.files[old][t]
  BY <1>9 DEF Churned
<1>11. Survives(main.files[old][s], s[1], MergedInto(main).files[q])
  BY <1>3, <1>6, <1>7, <1>8, <1>10, UntouchedSurvives
<1>12. QED
  BY <1>3, <1>4, <1>11

\* Whatever main, the worker and GitHub did before, a merge under an immutability
\* audit that judged it takes no statement from main but where the audit was led
\* to another file or main changed its mind meanwhile.
THEOREM MergesKeepStatements == ASpec => StatementsKept
<1>1. AuditsInv /\ [ANext]_vars =>
        [Merge /\ Judged =>
           \A q \in Path, s \in Slot : Gone(q, s) => Misread(q) \/ Churned(Home(q), s)]_vars
  BY MergeKeeps
<1>2. QED
  BY <1>1, AnswersDeserved, PTL DEF ASpec, StatementsKept

-----------------------------------------------------------------------------
(* Targets.                                                                *)

\* A comparator that passed has seen the target, proved, in the head.
LEMMA ComparatorPassed ==
  ASSUME Exit("comparator", {}) = "pass", refs # <<>>, base.config.prover = "lean4",
         base.files[TargetFile] # NoFile
  PROVE  Matches(TargetFile, TargetDecl)
<1>1. ComparatorExit({}) = "pass"
  BY DEF Exit, Policy
<1>2. ({} # {}) = FALSE
  OBVIOUS
<1>3. QED
  BY <1>1, <1>2 DEF ComparatorExit, Read, Policy, TargetFile, TargetDecl

\* What a merge leaves in a slot that main has not moved since the branch began is
\* what the head has there.
LEMMA MergeKeepsHead ==
  ASSUME AuditsInv, Merge, NEW p \in Path, NEW s \in Slot,
         main.files[Home(p)][s] = fork.files[Home(p)][s]
  PROVE  main'.files[p][s] = head.files[p][s]
<1>1. AuditsTypeOK /\ main \in Tree
  BY DEF AuditsInv, AuditsTypeOK
<1>2. main' = MergedInto(main)
  BY DEF Merge, Merged
<1>3. CASE Vacated(p)
  <2>1. main'.files[p][s] = NoDecl
    BY <1>1, <1>2, <1>3, MergedFile
  <2>2. head.files[p] = NoFile
    BY <1>3 DEF Vacated
  <2>3. QED
    BY <2>1, <2>2, NoFileType
<1>4. CASE ~Vacated(p)
  <2>1. main'.files[p][s]
          = Combine(fork.files[Home(p)][s], main.files[Home(p)][s], head.files[p][s])
    BY <1>1, <1>2, <1>4, MergedFile
  <2>2. QED
    BY <2>1 DEF Combine
<1>5. QED
  BY <1>3, <1>4

\* Nor has main, then, changed what the target rests on.
LEMMA MergeRests ==
  ASSUME AuditsInv, Merge, ~TargetMoved, NEW p \in Path, NEW s \in Slot,
         main'.files[p][s] = head.files[p][s]
  PROVE  /\ Rests(main', <<p, s>>) = Rests(head, <<p, s>>)
         /\ \A y \in Rests(head, <<p, s>>) : main'.files[y[1]][y[2]] = head.files[y[1]][y[2]]
<1>1. AuditsTypeOK
  BY DEF AuditsInv
<1>2. \A y \in Path \X Slot : y[2][1] \in Cited =>
        main'.files[y[1]][y[2]] = head.files[y[1]][y[2]]
  <2>1. SUFFICES ASSUME NEW q \in Path, NEW t \in Slot, t[1] \in Cited
                 PROVE  main'.files[q][t] = head.files[q][t]
    OBVIOUS
  <2>2. Home(q) \in Path
    BY <1>1, HomeType
  <2>3. main.files[Home(q)][t] = fork.files[Home(q)][t]
    BY <2>1, <2>2 DEF TargetMoved
  <2>4. QED
    BY <2>3, MergeKeepsHead
<1>3. {y \in Path \X Slot : y[2][1] \in Cited /\ main'.files[y[1]][y[2]] # NoDecl}
        = {y \in Path \X Slot : y[2][1] \in Cited /\ head.files[y[1]][y[2]] # NoDecl}
  BY <1>2
<1>4. Rests(main', <<p, s>>) = Rests(head, <<p, s>>)
  BY <1>3 DEF Rests
<1>5. \A y \in Rests(head, <<p, s>>) :
        y = <<p, s>> \/ (y \in Path \X Slot /\ y[2][1] \in Cited)
  BY DEF Rests
<1>6. QED
  BY <1>2, <1>4, <1>5

LEMMA MergeProves ==
  ASSUME AuditsInv, Merge, refs # <<>>, base.files[TargetFile] # NoFile,
         base.config.prover = "lean4", base.config.sorry = "block", "comparator" \notin blind,
         ~TargetMoved
  PROVE  \E s \in Copy(main'.files[TargetFile], TargetDecl) :
           /\ main'.files[TargetFile][s].stmt = The(base.files[TargetFile], TargetDecl).stmt
           /\ \A y \in Rests(main', <<TargetFile, s>>) :
                /\ main'.files[y[1]][y[2]].body # "sorry"
                /\ Kind[y[2][1]] = "axiom" =>
                     base.config.axioms = "whitelist" /\ y[2][1] \in Allowed
<1> DEFINE p == TargetFile
<1> DEFINE k == TargetDecl
<1>1. /\ AuditsTypeOK /\ "comparator" \in Audit /\ NothingNew /\ pr = "open"
      /\ main \in Tree /\ fork \in Tree /\ head \in Tree /\ base \in Tree
  BY DEF AuditsInv, AuditsTypeOK, Audit, Merge
<1>2. Exit("comparator", {}) = "pass"
  BY <1>1 DEF Merge, AuditsInv, Deserved
<1>3. /\ Unique(base.files[p], head.files[p], k)
      /\ The(head.files[p], k).stmt = The(base.files[p], k).stmt
      /\ \A s \in Copy(head.files[p], k) : Permitted(head, <<p, s>>)
  BY <1>2, ComparatorPassed DEF Matches
<1>4. p \in Path
  <2>1. Head(refs) \in Task
    BY <1>1 DEF AuditsTypeOK
  <2>2. QED
    BY <2>1, AuditsAssumption DEF TargetFile
<1>5. Home(p) = p
  <2>1. fork.files[p] # NoFile
    BY <1>1, <1>4 DEF NothingNew
  <2>2. QED
    BY <1>1, <1>4, <2>1, HomeType
<1>6. \A s \in Slot : s[1] = k => main.files[p][s] = fork.files[p][s]
  BY DEF TargetMoved
<1> HIDE DEF p, k
<1>7. PICK s : Copy(head.files[p], k) = {s}
  BY <1>3, CopySingle DEF Unique
<1>8. s \in Slot /\ s[1] = k /\ head.files[p][s] # NoDecl
  BY <1>7 DEF Copy
<1>9. The(head.files[p], k) = head.files[p][s] /\ Permitted(head, <<p, s>>)
  BY <1>3, <1>7 DEF The
<1>10. main'.files[p][s] = head.files[p][s]
  BY <1>4, <1>5, <1>6, <1>8, MergeKeepsHead
<1>11. s \in Copy(main'.files[p], k)
  BY <1>8, <1>10 DEF Copy
<1>12. \A y \in Rests(main', <<p, s>>) :
         /\ main'.files[y[1]][y[2]].body # "sorry"
         /\ Kind[y[2][1]] = "axiom" => base.config.axioms = "whitelist" /\ y[2][1] \in Allowed
  <2>1. /\ Rests(main', <<p, s>>) = Rests(head, <<p, s>>)
        /\ \A y \in Rests(head, <<p, s>>) : main'.files[y[1]][y[2]] = head.files[y[1]][y[2]]
    BY <1>4, <1>8, <1>10, MergeRests
  <2>2. Policy.sorry # "report" /\ Policy.axioms = base.config.axioms
    BY DEF Policy
  <2>3. QED
    BY <1>9, <2>1, <2>2 DEF Permitted
<1>13. QED
  BY <1>3, <1>9, <1>10, <1>11, <1>12 DEF p, k

\* A merged task's target is proved as main had stated it, and rests on nothing
\* that the base's policy does not allow.
THEOREM MergedTargetsProved == ASpec => TargetProved
<1>1. AuditsInv /\ [ANext]_vars =>
        [Merge /\ refs # <<>> /\ base.files[TargetFile] # NoFile
           /\ base.config.prover = "lean4" /\ base.config.sorry = "block"
           /\ "comparator" \notin blind =>
           \/ TargetMoved
           \/ \E s \in Copy(main'.files[TargetFile], TargetDecl) :
                /\ main'.files[TargetFile][s].stmt
                     = The(base.files[TargetFile], TargetDecl).stmt
                /\ \A y \in Rests(main', <<TargetFile, s>>) :
                     /\ main'.files[y[1]][y[2]].body # "sorry"
                     /\ Kind[y[2][1]] = "axiom" =>
                          base.config.axioms = "whitelist" /\ y[2][1] \in Allowed]_vars
  BY MergeProves
<1>2. QED
  BY <1>1, AnswersDeserved, PTL DEF ASpec, TargetProved

-----------------------------------------------------------------------------
(* Honest work.                                                            *)

\* The slots are finitely many, and so are the declarations of a file.
LEMMA SlotFinite == IsFiniteSet(Slot)
<1>1. IsFiniteSet(1..2)
  <2>1. 1..2 = {1} \cup {2}
    OBVIOUS
  <2>2. IsFiniteSet({1} \cup {2})
    BY FS_Singleton, FS_AddElement
  <2>3. QED
    BY <2>1, <2>2
<1>2. IsFiniteSet(Key \X (1..2))
  BY <1>1, AuditsAssumption, FS_Product
<1>3. Slot \subseteq Key \X (1..2)
  BY DEF Slot
<1>4. QED
  BY <1>2, <1>3, FS_Subset

\* The search for a name ends at a declaration of its last segment, if there is
\* one: no two names of one segment begin at one place.
LEMMA FirstFound ==
  ASSUME NEW file, NEW k, Found(file, k) # {}
  PROVE  First(file, k) \in Found(file, k)
<1> DEFINE F == Found(file, k)
<1>1. \A s \in F : s \in Slot /\ s[1] \in Key /\ s[2] \in 1..2 /\ s = <<s[1], s[2]>>
                   /\ Segment[s[1]] = Segment[k]
  BY AuditsAssumption DEF Found, Slot
<1> HIDE DEF F
<1> DEFINE T == {Place[s[1]] : s \in F}
<1>2. T \in SUBSET Nat /\ T # {}
  BY <1>1, AuditsAssumption DEF F
<1>3. PICK m \in T : \A n \in T : m <= n
  <2> HIDE DEF T
  <2>1. QED
    BY <1>2, LeastNat
<1>4. PICK x \in F : Place[x[1]] = m
  BY <1>3
<1>5. \A t \in F : t[1] # x[1] => Place[x[1]] < Place[t[1]]
  <2>1. SUFFICES ASSUME NEW t \in F, t[1] # x[1] PROVE Place[x[1]] < Place[t[1]]
    OBVIOUS
  <2>2. Place[x[1]] # Place[t[1]]
    BY <1>1, <2>1, AuditsAssumption
  <2>3. m <= Place[t[1]]
    BY <1>3
  <2>4. Place[x[1]] \in Nat /\ Place[t[1]] \in Nat
    BY <1>1, AuditsAssumption
  <2>5. QED
    BY <1>4, <2>2, <2>3, <2>4
<1>6. \E y \in F : y[1] = x[1] /\ \A t \in F : t[1] = x[1] => y[2] <= t[2]
  <2>1. CASE <<x[1], 1>> \in F
    BY <1>1, <2>1
  <2>2. CASE <<x[1], 1>> \notin F
    <3>1. \A t \in F : t[1] = x[1] => t[2] = 2
      BY <1>1, <2>2
    <3>2. QED
      BY <3>1
  <2>3. QED
    BY <2>1, <2>2
<1>7. \E y \in F : \A t \in F : \/ Place[y[1]] < Place[t[1]]
                                \/ y[1] = t[1] /\ y[2] <= t[2]
  BY <1>5, <1>6
<1>8. QED
  BY <1>7 DEF First, F

\* What one slot of an honest branch may differ in from the fork.
HonestSlot(b, h, s) ==
  h[s] # b[s] =>
    /\ h[s] # NoDecl
    /\ h[s].body \in {"proof", "lemma"}
    /\ Cardinality(Copy(h, s[1])) = 1
    /\ IF b[s] = NoDecl THEN Copy(b, s[1]) = {} /\ Kind[s[1]] # "axiom"
       ELSE Fills(b[s], h[s], s[1])

\* Honest work adds no placeholder, no axiom and no classical choice.
LEMMA HonestAddsNothing ==
  ASSUME NEW b, NEW h, \A s \in Slot : HonestSlot(b, h, s),
         NEW w \in {"sorry", "axiom", "choice"}
  PROVE  ~NetNew(b, h, w)
<1> DEFINE B == {s \in Slot : b[s] # NoDecl /\ Holds(s, b[s], w)}
<1> DEFINE H == {s \in Slot : h[s] # NoDecl /\ Holds(s, h[s], w)}
<1>1. H \subseteq B
  <2>1. SUFFICES ASSUME NEW s \in Slot, h[s] # NoDecl, Holds(s, h[s], w), h[s] # b[s]
                 PROVE  b[s] # NoDecl /\ Holds(s, b[s], w)
    OBVIOUS
  <2>2. w = "axiom"
    BY <2>1 DEF HonestSlot, Holds
  <2>3. Kind[s[1]] = "axiom" /\ b[s] # NoDecl
    BY <2>1, <2>2 DEF HonestSlot, Holds
  <2>4. QED
    BY <2>2, <2>3 DEF Holds
<1>2. IsFiniteSet(B)
  BY SlotFinite, FS_Subset
<1>3. Cardinality(H) <= Cardinality(B) /\ IsFiniteSet(H)
  <2> HIDE DEF B, H
  <2>1. QED
    BY <1>1, <1>2, FS_Subset
<1>4. Cardinality(H) \in Nat /\ Cardinality(B) \in Nat
  <2> HIDE DEF B, H
  <2>1. QED
    BY <1>2, <1>3, FS_CardinalityType
<1>5. Count(h, w) = Cardinality(H) /\ Count(b, w) = Cardinality(B)
  BY DEF Count
<1> HIDE DEF B, H
<1>6. QED
  BY <1>3, <1>4, <1>5 DEF NetNew

\* A name the branch touched, and the fork had, stands once on either side, in
\* the same slot.
LEMMA HonestCopies ==
  ASSUME NEW b, NEW h, \A s \in Slot : HonestSlot(b, h, s),
         NEW s \in Slot, h[s] # b[s], Copy(b, s[1]) # {}
  PROVE  /\ Copy(b, s[1]) = {s} /\ Copy(h, s[1]) = {s}
         /\ Fills(b[s], h[s], s[1])
<1>1. h[s] # NoDecl /\ b[s] # NoDecl /\ Fills(b[s], h[s], s[1])
      /\ Cardinality(Copy(h, s[1])) = 1
  BY DEF HonestSlot
<1>2. s \in Copy(h, s[1]) /\ s \in Copy(b, s[1])
  BY <1>1 DEF Copy
<1>3. Copy(h, s[1]) = {s}
  BY <1>1, <1>2, CopySingle
<1>4. Copy(b, s[1]) \subseteq Copy(h, s[1])
  BY DEF Copy, HonestSlot
<1>5. QED
  BY <1>1, <1>2, <1>3, <1>4

\* Honest work leaves every name untouched in the audit's eyes.
LEMMA HonestUntouched ==
  ASSUME NEW b, NEW h, \A s \in Slot : HonestSlot(b, h, s), NEW k
  PROVE  Untouched(b, h, k)
<1>1. CASE Copy(b, k) = {}
  BY <1>1 DEF Untouched
<1>2. CASE \A s \in Slot : s[1] = k => h[s] = b[s]
  <2>1. Copy(h, k) = Copy(b, k) /\ \A s \in Copy(b, k) : h[s] = b[s]
    BY <1>2 DEF Copy
  <2>2. \A d : {s \in Copy(b, k) : b[s] = d} = {s \in Copy(h, k) : h[s] = d}
    BY <2>1
  <2>3. QED
    BY <2>2 DEF Untouched, SameTexts
<1>3. ASSUME NEW s \in Slot, s[1] = k, h[s] # b[s], Copy(b, k) # {}
      PROVE  Untouched(b, h, k)
  <2>1. Copy(b, k) = {s} /\ Copy(h, k) = {s} /\ Fills(b[s], h[s], k)
    <3>1. Copy(b, s[1]) # {}
      BY <1>3
    <3>2. Copy(b, s[1]) = {s} /\ Copy(h, s[1]) = {s} /\ Fills(b[s], h[s], s[1])
      BY <1>3, <3>1, HonestCopies
    <3>3. QED
      BY <1>3, <3>2
  <2>2. Unique(b, h, k)
    BY <2>1, FS_Singleton DEF Unique
  <2>3. The(b, k) = b[s] /\ The(h, k) = h[s]
    BY <2>1 DEF The
  <2>4. ~AsWhole(b[s], k) /\ {b[s].stmt, h[s].stmt} \cap Opaque = {} /\ b[s].stmt = h[s].stmt
    BY <2>1 DEF Fills, AsWhole
  <2>5. QED
    BY <2>2, <2>3, <2>4 DEF Untouched
<1>4. QED
  BY <1>1, <1>2, <1>3

\* Where the search for a name ends at the same declaration, it finds the same.
LEMMA HonestEquivalent ==
  ASSUME NEW b, NEW h, \A s \in Slot : HonestSlot(b, h, s), NEW k,
         First(b, k) = First(h, k)
  PROVE  Equivalent(b, h, k)
<1>1. CASE Found(b, k) = {} \/ Found(h, k) = {}
  BY <1>1 DEF Equivalent, Extracted
<1>2. CASE Found(b, k) # {} /\ Found(h, k) # {}
  <2> DEFINE x == First(b, k)
  <2>1. x \in Found(b, k) /\ x \in Found(h, k)
    BY <1>2, FirstFound
  <2>2. x \in Slot /\ b[x] # NoDecl /\ h[x] # NoDecl
    BY <2>1 DEF Found
  <2>3. b[x].stmt = h[x].stmt
    BY <2>2 DEF HonestSlot, Fills
  <2>4. Extracted(b, k) = Extracted(h, k)
    BY <1>2, <2>3 DEF Extracted
  <2>5. QED
    BY <2>4 DEF Equivalent
<1>3. QED
  BY <1>1, <1>2

\* A target that stood and stands once has kept its statement.
LEMMA HonestMatches ==
  ASSUME NEW b, NEW h, \A s \in Slot : HonestSlot(b, h, s), NEW k, Unique(b, h, k)
  PROVE  /\ Copy(b, k) # {} /\ Copy(h, k) # {}
         /\ The(h, k).stmt = The(b, k).stmt
<1>1. PICK x : Copy(b, k) = {x}
  BY CopySingle DEF Unique
<1>2. PICK y : Copy(h, k) = {y}
  BY CopySingle DEF Unique
<1>3. x \in Slot /\ x[1] = k /\ b[x] # NoDecl
  BY <1>1 DEF Copy
<1>4. h[x] # NoDecl /\ h[x].stmt = b[x].stmt
  BY <1>3 DEF HonestSlot, Fills
<1>5. x = y
  BY <1>2, <1>3, <1>4 DEF Copy
<1>6. QED
  BY <1>1, <1>2, <1>4, <1>5 DEF The

\* Every audit passes honest work that is up to date, the comparator where the
\* target's proof leans on no debt of main's.
LEMMA HonestPass ==
  ASSUME Honest, base = fork, base.config.axioms = "net_zero",
         base.config.prover \in {"lean4", "rocq"}, NEW a \in Audit,
         a = "comparator" => ~LeansOnDebt, base.config.sorry \in {"block", "report"},
         refs # <<>> => TargetFile \in Path
  PROVE  Exit(a, {}) = "pass"
<1>1. \A p \in Path, s \in Slot : HonestSlot(base.files[p], head.files[p], s)
  BY DEF Honest, HonestSlot
<1>2. \A p : BaseShow(p, FALSE) = base.files[p] /\ FetchBase(p, FALSE) = base.files[p]
  BY DEF Honest, BaseShow, FetchBase, RenamedFrom
<1>3. ({} # {}) = FALSE /\ \A x : (x \in {}) = FALSE
  OBVIOUS
<1>4. PrFiles \subseteq Path /\ Audited \subseteq Path
  BY DEF PrFiles, Audited
<1>5. \A p \in Path : ~NetNew(base.files[p], head.files[p], "sorry")
                      /\ ~NetNew(base.files[p], head.files[p], "axiom")
                      /\ ~NetNew(base.files[p], head.files[p], "choice")
  BY <1>1, HonestAddsNothing
<1>6. ASSUME NEW x \in {"sorry", "axiom", "decide"} PROVE DeltaExit(x, {}) = "pass"
  <2>1. \A p \in Path : ~Introduced(x, base.files[p], head.files[p])
    BY <1>5, <1>6 DEF Introduced, Policy
  <2>2. QED
    BY <1>3, <1>4, <2>1 DEF DeltaExit, Read
<1>7. ImmutabilityExit({}) = "pass"
  <2>1. \A p \in Path, k \in Key : Untouched(BaseShow(p, FALSE), head.files[p], k)
    BY <1>1, <1>2, HonestUntouched
  <2>2. QED
    BY <1>3, <1>4, <2>1 DEF ImmutabilityExit
<1>8. refs # <<>> =>
        /\ Unique(base.files[TargetFile], head.files[TargetFile], TargetDecl)
        /\ First(base.files[TargetFile], TargetDecl) = First(head.files[TargetFile], TargetDecl)
        /\ The(head.files[TargetFile], TargetDecl).body # "sorry"
  BY DEF Honest
<1>9. EquivExit({}) = "pass"
  <2>1. CASE refs # <<>>
    <3>1. Equivalent(base.files[TargetFile], head.files[TargetFile], TargetDecl)
      BY <1>1, <1>8, <2>1, HonestEquivalent
    <3>2. QED
      BY <1>2, <1>3, <2>1, <3>1 DEF EquivExit, Read, TargetFile, TargetDecl
  <2>2. QED
    BY <2>1 DEF EquivExit
<1>10. ~LeansOnDebt => ComparatorExit({}) = "pass"
  <2> HAVE ~LeansOnDebt
  <2>1. CASE refs # <<>>
    <3>1. /\ Copy(base.files[TargetFile], TargetDecl) # {}
          /\ Copy(head.files[TargetFile], TargetDecl) # {}
          /\ The(head.files[TargetFile], TargetDecl).stmt
               = The(base.files[TargetFile], TargetDecl).stmt
      BY <1>1, <1>8, <2>1, HonestMatches
    <3>2. Matches(TargetFile, TargetDecl)
      <4>1. \A s \in Copy(head.files[TargetFile], TargetDecl) :
              Permitted(head, <<TargetFile, s>>)
        BY <2>1 DEF LeansOnDebt, Permitted, Policy
      <4>2. QED
        BY <1>8, <2>1, <3>1, <4>1 DEF Matches
    <3>3. QED
      BY <1>3, <2>1, <3>1, <3>2 DEF ComparatorExit, Read, TargetFile, TargetDecl
  <2>2. QED
    BY <2>1 DEF ComparatorExit
<1>11. Policy.prover # "unknown"
  BY DEF Policy
<1>12. QED
  BY <1>6, <1>7, <1>9, <1>10, <1>11 DEF Exit, Audit

\* No audit stands in the way of honest work, but the comparator of work that
\* leans on main's debt.
THEOREM HonestPassesAudits == ASpec => []HonestWorkPasses
<1>1. AuditsInv => HonestWorkPasses
  <2>1. SUFFICES ASSUME AuditsInv, exits # NotRun, used.faults = 0, Honest, base = fork,
                        base.config.axioms = "net_zero", base.config.prover # "unknown",
                        NEW a \in Audit
                 PROVE  exits[a] = "pass" \/ (a = "comparator" /\ LeansOnDebt)
    BY DEF HonestWorkPasses, HonestAnswered
  <2>2. exits[a] = Exit(a, {})
    BY <2>1 DEF AuditsInv, Faultless
  <2>3. base.config.prover \in {"lean4", "rocq"} /\ base.config.sorry \in {"block", "report"}
    BY <2>1 DEF AuditsInv, AuditsTypeOK, Tree, Config
  <2>4. refs # <<>> => TargetFile \in Path
    <3>1. refs # <<>> => Head(refs) \in Task
      BY <2>1 DEF AuditsInv, AuditsTypeOK
    <3>2. QED
      BY <3>1, AuditsAssumption DEF TargetFile
  <2>5. QED
    BY <2>1, <2>2, <2>3, <2>4, HonestPass
<1>2. QED
  BY <1>1, AnswersDeserved, PTL

-----------------------------------------------------------------------------
(* The trust report.                                                       *)

\* What is extracted for a name that stands once, and is mistaken for no other.
LEMMA ExtractedOnce ==
  ASSUME NEW file, NEW k \in Key, NEW x, Copy(file, k) = {x}, ~Shadowed(file, k),
         file[x].stmt \in Stmt
  PROVE  /\ Kind[k] \in {"theorem", "def"} =>
              Extracted(file, k) = IF file[x].stmt \in Opaque THEN NoDecl ELSE file[x].stmt
         /\ Kind[k] \notin {"theorem", "def"} => Extracted(file, k) = NoDecl
<1>1. x \in Slot /\ x[1] = k /\ file[x] # NoDecl
  BY DEF Copy
<1>2. Found(file, k) # {} => First(file, k) = x /\ Kind[k] \in {"theorem", "def"}
  <2>1. SUFFICES ASSUME Found(file, k) # {}
                 PROVE  First(file, k) = x /\ Kind[k] \in {"theorem", "def"}
    OBVIOUS
  <2>2. First(file, k) \in Found(file, k)
    BY <2>1, FirstFound
  <2>3. First(file, k)[1] = k
    BY <2>1 DEF Shadowed
  <2>4. QED
    BY <2>2, <2>3 DEF Found, Copy
<1>3. Kind[k] \in {"theorem", "def"} => x \in Found(file, k)
  BY <1>1 DEF Found
<1>4. QED
  BY <1>2, <1>3 DEF Extracted

\* Two declarations that stand once under a name, with other statements: the
\* comparison of the report tells them apart unless neither can be delimited and
\* both begin on the same line.
LEMMA ReportTells ==
  ASSUME NEW b, NEW h, NEW k \in Key, ~Shadowed(b, k), ~Shadowed(h, k),
         NEW x, NEW y, Copy(b, k) = {x}, Copy(h, k) = {y},
         b[x].stmt \in Stmt, h[y].stmt \in Stmt, b[x].stmt # h[y].stmt,
         ~ (/\ Extracted(b, k) = NoDecl /\ Extracted(h, k) = NoDecl
            /\ RawLine(b[x]) = RawLine(h[y]))
  PROVE  IsTarget(b, h, k)
<1>1. NoDecl \notin Stmt
  BY AuditsAssumption
<1>2. The(b, k) = b[x] /\ The(h, k) = h[y]
  BY DEF The
<1>3. CASE Extracted(b, k) # Extracted(h, k)
  BY <1>3 DEF IsTarget
<1>4. CASE Extracted(b, k) = Extracted(h, k)
  <2>1. Extracted(b, k) = NoDecl
    <3>1. CASE Kind[k] \in {"theorem", "def"}
      BY <1>1, <1>4, <3>1, ExtractedOnce
    <3>2. CASE Kind[k] \notin {"theorem", "def"}
      BY <3>2, ExtractedOnce
    <3>3. QED
      BY <3>1, <3>2
  <2>2. QED
    BY <1>2, <1>4, <2>1 DEF IsTarget
<1>5. QED
  BY <1>3, <1>4

\* A statement main is to get, and has not, is in the report.
LEMMA ReportSees ==
  ASSUME AuditsInv, pr = "open", Reporting, NEW p \in Path, NEW s \in Slot,
         Merged.files[p][s] # NoDecl,
         \A t \in Copy(main.files[Home(p)], s[1]) :
           main.files[Home(p)][t].stmt # Merged.files[p][s].stmt,
         ~MovedSinceReport(Home(p), s[1]),
         ~Shadowed(base.files[p], s[1]), ~Shadowed(Checkout.files[p], s[1]),
         ~ (/\ Extracted(base.files[p], s[1]) = NoDecl
            /\ Extracted(Checkout.files[p], s[1]) = NoDecl
            /\ \E t \in Copy(base.files[p], s[1]) :
                 RawLine(base.files[p][t]) = RawLine(Merged.files[p][s]))
  PROVE  <<p, s>> \in Targets
<1> DEFINE k == s[1]
<1> DEFINE b == base.files[p]
<1> DEFINE h == Checkout.files[p]
<1>1. /\ AuditsTypeOK /\ NothingNew
      /\ main \in Tree /\ fork \in Tree /\ head \in Tree /\ base \in Tree
  BY DEF AuditsInv, AuditsTypeOK
<1>2. ~Vacated(p)
  <2>1. Merged = MergedInto(main)
    BY DEF Merged
  <2>2. QED
    BY <1>1, <2>1, MergedFile
<1>3. \A t \in Slot : t[1] = k => Merged.files[p][t] = h[t]
  <2>1. SUFFICES ASSUME NEW t \in Slot, t[1] = k PROVE Merged.files[p][t] = h[t]
    OBVIOUS
  <2>2. main.files[Home(p)][t] = base.files[Home(p)][t]
    BY <2>1 DEF MovedSinceReport
  <2>3. Merged.files[p][t]
          = Combine(fork.files[Home(p)][t], main.files[Home(p)][t], head.files[p][t])
    BY <1>1, <1>2, MergedFile DEF Merged
  <2>4. h[t] = Combine(fork.files[Home(p)][t], base.files[Home(p)][t], head.files[p][t])
    BY <1>1, <1>2, MergedFile DEF Checkout
  <2>5. QED
    BY <2>2, <2>3, <2>4
<1>4. /\ \A t \in Slot : b[t] # NoDecl => b[t].stmt \in Stmt
      /\ \A t \in Slot : h[t] # NoDecl => h[t].stmt \in Stmt
  <2>1. Checkout \in Tree
    BY <1>1, MergedType DEF Checkout
  <2>2. \A t \in Slot : b[t] \in Decl \cup {NoDecl} /\ h[t] \in Decl \cup {NoDecl}
    BY <1>1, <2>1, TreeType
  <2>3. QED
    BY <2>2 DEF Decl
<1>5. h[s] # NoDecl /\ h[s] = Merged.files[p][s]
  BY <1>3
<1>6. k \in Key
  BY AuditsAssumption DEF Slot
<1>7. Home(p) # p => b = NoFile
  <2>1. Home(p) # p => fork.files[p] = NoFile
    BY <1>1, HomeType
  <2>2. QED
    BY <1>1, <2>1 DEF NothingNew
<1>8. Home(p) = p => \A t \in Copy(b, k) : b[t].stmt # h[s].stmt
  <2>1. SUFFICES ASSUME Home(p) = p, NEW t \in Copy(b, k) PROVE b[t].stmt # h[s].stmt
    OBVIOUS
  <2>2. t \in Slot /\ t[1] = k /\ b[t] # NoDecl
    BY DEF Copy
  <2>3. main.files[p][t] = b[t]
    BY <2>1, <2>2 DEF MovedSinceReport
  <2>4. t \in Copy(main.files[p], k)
    BY <2>2, <2>3 DEF Copy
  <2>5. QED
    BY <1>5, <2>1, <2>3, <2>4
<1> HIDE DEF k, b, h
<1>9. s \in Copy(h, k)
  BY <1>5 DEF Copy, k
<1>10. Copy(b, k) = {} \/ \A t \in Copy(b, k) : b[t].stmt # h[s].stmt
  BY <1>7, <1>8, NoFileType DEF Copy
<1>11. p \in ChangedFiles
  <2>1. b # h
    BY <1>9, <1>10
  <2>2. QED
    BY <2>1 DEF ChangedFiles, b, h
<1>12. IsTarget(b, h, k)
  <2>1. CASE Copy(b, k) = {} \/ ~Unique(b, h, k)
    BY <2>1 DEF IsTarget
  <2>2. CASE Copy(b, k) # {} /\ Unique(b, h, k)
    <3>1. PICK x : Copy(b, k) = {x}
      BY <2>2, CopySingle DEF Unique
    <3>2. Copy(h, k) = {s}
      BY <1>9, <2>2, CopySingle DEF Unique
    <3>3. b[x].stmt \in Stmt /\ h[s].stmt \in Stmt /\ b[x].stmt # h[s].stmt
      BY <1>4, <1>5, <1>10, <3>1 DEF Copy
    <3>4. ~ (/\ Extracted(b, k) = NoDecl /\ Extracted(h, k) = NoDecl
             /\ RawLine(b[x]) = RawLine(h[s]))
      BY <1>5, <3>1 DEF b, h, k
    <3>5. ~Shadowed(b, k) /\ ~Shadowed(h, k)
      BY DEF b, h, k
    <3>6. QED
      BY <1>6, <3>1, <3>2, <3>3, <3>4, <3>5, ReportTells
  <2>3. QED
    BY <2>1, <2>2
<1>13. QED
  BY <1>5, <1>11, <1>12 DEF Targets, b, h, k

\* The trust report has probed every statement a merge at this moment would
\* bring main.
THEOREM ReportCoversMerge == ASpec => []ReportCovers
<1>1. AuditsInv => ReportCovers
  BY ReportSees DEF ReportCovers
<1>2. QED
  BY <1>1, AnswersDeserved, PTL

-----------------------------------------------------------------------------
(* The balance.  Every declaration the merge leaves main with and that is    *)
(* counted goes back to one main had, or to one that main itself moved since *)
(* the branch began, and no two to the same.                                 *)

Bearing(file, w) == {s \in Slot : file[s] # NoDecl /\ Holds(s, file[s], w)}

LEMMA BearingFinite == ASSUME NEW file, NEW w PROVE IsFiniteSet(Bearing(file, w))
<1>1. Bearing(file, w) \subseteq Slot
  BY DEF Bearing
<1>2. QED
  BY <1>1, SlotFinite, FS_Subset

\* A set that is no larger goes into the other one, each element to its own.
LEMMA Injects ==
  ASSUME NEW S, NEW T, IsFiniteSet(S), IsFiniteSet(T), ~(Cardinality(S) > Cardinality(T))
  PROVE  \E f \in [S -> T] : \A x, y \in S : f[x] = f[y] => x = y
<1>1. /\ Cardinality(S) \in Nat /\ ExistsBijection(1..Cardinality(S), S)
      /\ Cardinality(T) \in Nat /\ ExistsBijection(1..Cardinality(T), T)
  BY FS_CardinalityType
<1>2. Cardinality(S) <= Cardinality(T)
  BY <1>1
<1>3. ExistsInjection(1..Cardinality(S), 1..Cardinality(T))
  BY <1>1, <1>2, Fun_NatInjLeq
<1>4. ExistsInjection(S, 1..Cardinality(S))
  BY <1>1, Fun_ExistsBijEquiv
<1>5. ExistsInjection(1..Cardinality(T), T)
  BY <1>1, Fun_ExistsBijEquiv
<1>6. ExistsInjection(S, T)
  BY <1>3, <1>4, <1>5, Fun_ExistsInjTransitive
<1>7. PICK f : f \in Injection(S, T)
  BY <1>6, Fun_ExistsInj
<1>8. QED
  BY <1>7, Fun_InjectionProperties

\* What a deserved pass of the audit that counts w says of a changed file.
CounterOf(w) == CASE w = "sorry" -> "sorry" [] w = "axiom" -> "axiom" [] w = "choice" -> "decide"

LEMMA DeltaPassed ==
  ASSUME NEW w \in {"sorry", "axiom", "choice"}, Counted(w), base.config.prover = "lean4",
         Exit(CounterOf(w), {}) = "pass", NEW p \in PrFiles
  PROVE  ~(Cardinality(Bearing(head.files[p], w)) > Cardinality(Bearing(base.files[p], w)))
<1>1. DeltaExit(CounterOf(w), {}) = "pass"
  BY DEF Exit, Policy, CounterOf
<1>2. Audited = PrFiles /\ \A x : (x \in {}) = FALSE
  BY DEF Audited, Policy
<1>3. ~Introduced(CounterOf(w), base.files[p], head.files[p])
  BY <1>1, <1>2 DEF DeltaExit, Read
<1>4. ~NetNew(base.files[p], head.files[p], w)
  BY <1>3 DEF Introduced, Counted, Policy, CounterOf
<1>5. QED
  BY <1>4 DEF NetNew, Count, Bearing

\* Two files that the merge leaves do not come from one.
LEMMA HomeApart ==
  ASSUME AuditsTypeOK, NEW p \in Path, NEW q \in Path, ~Vacated(p), ~Vacated(q),
         Home(p) = Home(q)
  PROVE  p = q
<1>1. Home(p) # p => Vacated(Home(p))
  BY HomeType
<1>2. Home(q) # q => Vacated(Home(q))
  BY HomeType
<1>3. Home(p) # p /\ Home(q) # q => p = q
  BY HomeType
<1>4. QED
  BY <1>1, <1>2, <1>3

\* A set that goes into the union of two is no larger than both together.
LEMMA CountedTwice ==
  ASSUME NEW S, NEW A, NEW B, IsFiniteSet(A), IsFiniteSet(B),
         NEW g \in [S -> (A \X {0}) \cup (B \X {1})],
         \A x, y \in S : g[x] = g[y] => x = y
  PROVE  Cardinality(S) <= Cardinality(A) + Cardinality(B)
<1> DEFINE X == A \X {0}
<1> DEFINE Y == B \X {1}
<1>1. IsFiniteSet({0}) /\ Cardinality({0}) = 1 /\ IsFiniteSet({1}) /\ Cardinality({1}) = 1
  BY FS_Singleton
<1>2. Cardinality(A) \in Nat /\ Cardinality(B) \in Nat
  BY FS_CardinalityType
<1>3. IsFiniteSet(X) /\ Cardinality(X) = Cardinality(A) * 1
  BY <1>1, FS_Product
<1>4. IsFiniteSet(Y) /\ Cardinality(Y) = Cardinality(B) * 1
  BY <1>1, FS_Product
<1>5. Cardinality(X) = Cardinality(A) /\ Cardinality(Y) = Cardinality(B)
  BY <1>2, <1>3, <1>4
<1>6. X \cap Y = {}
  OBVIOUS
<1> HIDE DEF X, Y
<1>7. /\ IsFiniteSet(X \cup Y)
      /\ Cardinality(X \cup Y) = Cardinality(X) + Cardinality(Y) - Cardinality(X \cap Y)
  BY <1>3, <1>4, FS_Union
<1>8. Cardinality(X \cap Y) = 0
  BY <1>6, FS_EmptySet
<1>9. Cardinality(X \cup Y) = Cardinality(A) + Cardinality(B)
  BY <1>2, <1>5, <1>7, <1>8
<1>10. g \in Injection(S, X \cup Y)
  <2>1. g \in [S -> X \cup Y]
    BY DEF X, Y
  <2>2. QED
    BY <2>1, Fun_IsInj
<1>11. Cardinality(S) <= Cardinality(X \cup Y)
  BY <1>7, <1>10, FS_Injection
<1>12. QED
  BY <1>9, <1>11

LEMMA HoldingFinite ==
  /\ \A tree, w : IsFiniteSet(Holding(tree, w))
  /\ IsFiniteSet(MovedSinceFork)
<1>1. IsFiniteSet(Path \X Slot)
  BY AuditsAssumption, SlotFinite, FS_Product
<1>2. MovedSinceFork \subseteq Path \X Slot /\ \A tree, w : Holding(tree, w) \subseteq Path \X Slot
  BY DEF MovedSinceFork, Holding
<1>3. QED
  BY <1>1, <1>2, FS_Subset

LEMMA MergeBalance ==
  ASSUME AuditsInv, Merge, base.config.prover = "lean4",
         NEW w \in {"sorry", "axiom", "choice"}, Counted(w)
  PROVE  Total(main', w) <= Total(main, w) + Cardinality(MovedSinceFork)
<1>1. /\ AuditsTypeOK /\ NothingNew /\ pr = "open"
      /\ main \in Tree /\ fork \in Tree /\ head \in Tree /\ base \in Tree
  BY DEF AuditsInv, AuditsTypeOK, Merge
<1>2. Exit(CounterOf(w), {}) = "pass"
  <2>1. CounterOf(w) \in Audit /\ CounterOf(w) \notin blind
    BY DEF CounterOf, Audit, Counted
  <2>2. QED
    BY <2>1 DEF Merge, AuditsInv, Deserved
<1>3. main' = MergedInto(main) /\ ~ConflictWith(main)
  BY DEF Merge, Merged, Conflict
<1> DEFINE Left == Holding(main', w)
<1> DEFINE Old == Holding(main, w)
<1> DEFINE Moved == MovedSinceFork
<1> DEFINE At(tree, p, s) == tree.files[p][s]
<1> DEFINE Bears(e, s) == e # NoDecl /\ Holds(s, e, w)
<1> DEFINE F == [p \in PrFiles |->
      CHOOSE f \in [Bearing(head.files[p], w) -> Bearing(base.files[p], w)] :
        \A x, y \in Bearing(head.files[p], w) : f[x] = f[y] => x = y]
<1>4. \A p \in PrFiles :
        /\ F[p] \in [Bearing(head.files[p], w) -> Bearing(base.files[p], w)]
        /\ \A x, y \in Bearing(head.files[p], w) : F[p][x] = F[p][y] => x = y
  <2>1. SUFFICES ASSUME NEW p \in PrFiles
                 PROVE  \E f \in [Bearing(head.files[p], w) -> Bearing(base.files[p], w)] :
                          \A x, y \in Bearing(head.files[p], w) : f[x] = f[y] => x = y
    OBVIOUS
  <2>2. ~(Cardinality(Bearing(head.files[p], w)) > Cardinality(Bearing(base.files[p], w)))
    BY <1>2, DeltaPassed
  <2>3. QED
    BY <2>2, BearingFinite, Injects
<1> HIDE DEF F
\* A declaration main is left with.
<1>5. \A d \in Left : /\ d[1] \in Path /\ d[2] \in Slot /\ d = <<d[1], d[2]>>
                      /\ ~Vacated(d[1]) /\ Home(d[1]) \in Path
                      /\ At(main', d[1], d[2])
                           = Combine(At(fork, Home(d[1]), d[2]), At(main, Home(d[1]), d[2]),
                                     At(head, d[1], d[2]))
                      /\ Bears(At(main', d[1], d[2]), d[2])
  <2>1. SUFFICES ASSUME NEW d \in Left
                 PROVE  /\ d[1] \in Path /\ d[2] \in Slot /\ d = <<d[1], d[2]>>
                        /\ ~Vacated(d[1]) /\ Home(d[1]) \in Path
                        /\ At(main', d[1], d[2])
                             = Combine(At(fork, Home(d[1]), d[2]), At(main, Home(d[1]), d[2]),
                                       At(head, d[1], d[2]))
                        /\ Bears(At(main', d[1], d[2]), d[2])
    OBVIOUS
  <2>2. d[1] \in Path /\ d[2] \in Slot /\ d = <<d[1], d[2]>>
        /\ Bears(At(main', d[1], d[2]), d[2])
    BY DEF Holding
  <2>3. ~Vacated(d[1])
    BY <1>1, <1>3, <2>2, MergedFile
  <2>4. At(main', d[1], d[2])
          = Combine(At(fork, Home(d[1]), d[2]), At(main, Home(d[1]), d[2]), At(head, d[1], d[2]))
    BY <1>1, <1>3, <2>2, <2>3, MergedFile
  <2>5. QED
    BY <1>1, <2>2, <2>3, <2>4, HomeType
\* One that main has where the merge takes the file from stays where it is,
\* unless the branch might have brought it back.
<1> DEFINE Stays(d) == /\ Bears(At(main, Home(d[1]), d[2]), d[2])
                       /\ \/ Home(d[1]) # d[1]
                          \/ d[1] \notin PrFiles
                          \/ <<d[1], d[2]>> \in Moved
<1> DEFINE Back(d) == <<d[1], F[d[1]][d[2]]>>
\* Any other is the branch's, in a file that the audit counted.
<1>6. \A d \in Left : ~Stays(d) =>
        /\ Home(d[1]) = d[1] /\ d[1] \in PrFiles
        /\ d[2] \in Bearing(head.files[d[1]], w)
  <2>1. SUFFICES ASSUME NEW d \in Left, ~Stays(d)
                 PROVE  /\ Home(d[1]) = d[1] /\ d[1] \in PrFiles
                        /\ d[2] \in Bearing(head.files[d[1]], w)
    OBVIOUS
  <2> DEFINE p == d[1]
  <2> DEFINE s == d[2]
  <2>2. /\ p \in Path /\ s \in Slot /\ ~Vacated(p) /\ Home(p) \in Path
        /\ At(main', p, s) = Combine(At(fork, Home(p), s), At(main, Home(p), s), At(head, p, s))
        /\ Bears(At(main', p, s), s)
    BY <1>5
  <2>3. \/ At(main', p, s) = At(main, Home(p), s)
        \/ At(main', p, s) = At(head, p, s)
    BY <2>2, CombineOne
  <2>4. p \in PrFiles \/ (Home(p) = p /\ head.files[p] = fork.files[p])
    BY <2>2 DEF PrFiles
  <2>5. ASSUME Home(p) # p PROVE FALSE
    <3>1. p \in PrFiles
      BY <2>4, <2>5
    <3>2. base.files[p] = NoFile
      BY <1>1, <2>2, <2>5, HomeType DEF NothingNew
    <3>3. Bearing(base.files[p], w) = {}
      BY <3>2, NoFileType DEF Bearing
    <3>4. Bearing(head.files[p], w) = {}
      BY <1>4, <3>1, <3>3
    <3>5. ~Bears(At(head, p, s), s)
      BY <2>2, <3>4 DEF Bearing
    <3>6. Bears(At(main, Home(p), s), s)
      BY <2>2, <2>3, <3>5
    <3>7. QED
      BY <2>1, <2>5, <3>6
  <2>6. p \in PrFiles
    <3>1. SUFFICES ASSUME p \notin PrFiles PROVE FALSE
      OBVIOUS
    <3>2. At(main', p, s) = At(main, p, s)
      BY <2>2, <2>4, <2>5, <3>1 DEF Combine
    <3>3. QED
      BY <2>1, <2>2, <2>5, <3>1, <3>2
  <2>7. Bears(At(head, p, s), s)
    <3>1. CASE <<p, s>> \in Moved
      BY <2>1, <2>2, <2>3, <2>5, <3>1
    <3>2. CASE <<p, s>> \notin Moved
      <4>1. At(main, p, s) = At(fork, p, s)
        BY <2>2, <3>2 DEF MovedSinceFork
      <4>2. At(main', p, s) = At(head, p, s)
        BY <2>2, <2>5, <4>1 DEF Combine
      <4>3. QED
        BY <2>2, <4>2
    <3>3. QED
      BY <3>1, <3>2
  <2>8. QED
    BY <2>2, <2>5, <2>6, <2>7 DEF Bearing
<1> DEFINE G == [d \in Left |->
      IF Stays(d) THEN <<<<Home(d[1]), d[2]>>, 0>>
      ELSE IF Back(d) \in Moved THEN <<Back(d), 1>> ELSE <<Back(d), 0>>]
\* The audit's count takes it to one the base had in that file.
<1>7. \A d \in Left : ~Stays(d) =>
        /\ F[d[1]][d[2]] \in Bearing(base.files[d[1]], w)
        /\ Back(d) \in Moved \/ Back(d) \in Old
  <2>1. SUFFICES ASSUME NEW d \in Left, ~Stays(d)
                 PROVE  /\ F[d[1]][d[2]] \in Bearing(base.files[d[1]], w)
                        /\ Back(d) \in Moved \/ Back(d) \in Old
    OBVIOUS
  <2>2. d[1] \in PrFiles /\ d[2] \in Bearing(head.files[d[1]], w) /\ d[1] \in Path
    BY <1>5, <1>6, <2>1
  <2>3. F[d[1]][d[2]] \in Bearing(base.files[d[1]], w)
    BY <1>4, <2>2
  <2> DEFINE t == F[d[1]][d[2]]
  <2>4. t \in Slot /\ Bears(At(base, d[1], t), t)
    BY <2>3 DEF Bearing
  <2> HIDE DEF t
  <2>5. <<d[1], t>> \in Moved \/ At(main, d[1], t) = At(base, d[1], t)
    BY <2>2, <2>4 DEF MovedSinceFork
  <2>6. <<d[1], t>> \in Moved \/ <<d[1], t>> \in Old
    BY <2>2, <2>4, <2>5 DEF Holding
  <2>7. QED
    BY <2>3, <2>6 DEF t
<1>8. \A d \in Left : Stays(d) => <<Home(d[1]), d[2]>> \in Old
  BY <1>5 DEF Holding
<1>9. \A d \in Left : G[d] \in (Old \X {0}) \cup (Moved \X {1})
  <2> HIDE DEF Left, Old, Moved, Stays, Back
  <2>1. QED
    BY <1>7, <1>8
<1>10. \A d, e \in Left : G[d] = G[e] => d = e
  <2>1. SUFFICES ASSUME NEW d \in Left, NEW e \in Left, G[d] = G[e] PROVE d = e
    OBVIOUS
  <2>2. CASE Stays(d) /\ Stays(e)
    <3>1. Home(d[1]) = Home(e[1]) /\ d[2] = e[2]
      BY <2>1, <2>2
    <3>2. d[1] = e[1]
      BY <1>1, <1>5, <3>1, HomeApart
    <3>3. QED
      BY <1>5, <3>1, <3>2
  <2>3. ASSUME NEW x \in Left, NEW y \in Left, Stays(x), ~Stays(y), G[x] = G[y] PROVE FALSE
    <3>1. Home(x[1]) = y[1] /\ x[2] = F[y[1]][y[2]] /\ Back(y) \notin Moved
      BY <2>3
    <3>2. Home(y[1]) = y[1] /\ y[1] \in PrFiles
      BY <1>6, <2>3
    <3>3. x[1] = y[1]
      BY <1>1, <1>5, <3>1, <3>2, HomeApart
    <3>4. QED
      BY <2>3, <3>1, <3>2, <3>3
  <2>4. CASE ~Stays(d) /\ ~Stays(e)
    <3>1. d[1] = e[1] /\ F[d[1]][d[2]] = F[e[1]][e[2]]
      BY <2>1, <2>4
    <3>2. d[1] \in PrFiles /\ d[2] \in Bearing(head.files[d[1]], w)
          /\ e[2] \in Bearing(head.files[d[1]], w)
      BY <1>6, <2>4, <3>1
    <3>3. d[2] = e[2]
      BY <1>4, <3>1, <3>2
    <3>4. QED
      BY <1>5, <3>1, <3>3
  <2>5. QED
    BY <2>1, <2>2, <2>3, <2>4
<1>11. G \in [Left -> (Old \X {0}) \cup (Moved \X {1})]
  BY <1>9
<1>12. IsFiniteSet(Old) /\ IsFiniteSet(Moved)
  BY HoldingFinite
<1> HIDE DEF G, Left, Old, Moved
<1>13. Cardinality(Left) <= Cardinality(Old) + Cardinality(Moved)
  BY <1>10, <1>11, <1>12, CountedTwice
<1>14. QED
  BY <1>13 DEF Total, Left, Old, Moved

\* On balance a merge brings main no placeholder, axiom or classical choice.
THEOREM MergesAddNoDebt == ASpec => DebtBounded
<1>1. AuditsInv /\ [ANext]_vars =>
        [Merge /\ base.config.prover = "lean4" =>
           \A w \in {"sorry", "axiom", "choice"} : Counted(w) =>
             Total(main', w) <= Total(main, w) + Cardinality(MovedSinceFork)]_vars
  BY MergeBalance
<1>2. QED
  BY <1>1, AnswersDeserved, PTL DEF ASpec, DebtBounded
=============================================================================
