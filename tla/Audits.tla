------------------------------- MODULE Audits --------------------------------
(***************************************************************************)
(* The blocking audits of one pull request (gate/verify/*_cli.py) and what *)
(* their green means for the main branch it is merged into.  Each audit is *)
(* a CI job of its own: it asks GitHub for the base, the head and the      *)
(* changed files, reads both sides with git, and compares declarations.    *)
(* Meanwhile main moves on, and the merge combines three trees.            *)
(*                                                                         *)
(* A declaration is its statement and what its body rests on; a file maps  *)
(* slots (a name, and which of its copies) to declarations.  How these are *)
(* found in a text is module Sources' subject.                             *)
(***************************************************************************)
EXTENDS Naturals, Sequences, FiniteSets

CONSTANTS
  Path,       \* source files
  Key,        \* qualified declaration names
  Kind,       \* a name's keyword: theorem, def, structure or axiom
  Single,     \* the names no two declarations ever share
  Segment,    \* a name's last segment, which names of two namespaces may share
  Place,      \* where in a file a name's declarations stand
  Stmt,       \* statements
  Opaque,     \* those of them no extractor can delimit
  NoDecl,
  Task,       \* task issues
  FirstLine,  \* the line a statement begins on, which another may share
  Cited,      \* the names a proof cites that cites any
  Target,     \* a task's target_file and target_decl
  Allowed,    \* allowed_axioms of .choir/verify.toml
  InitTree,   \* what main may hold when the worker branches off
  Edit,       \* the edits tried: <<path, slot, what it holds afterwards>>
  Setting,    \* the configurations tried
  MaxEdits,   \* bound: the worker's edits
  MaxMoves,   \* bound: main's steps while the pull request is worked on
  MaxRenames, \* bound: renames in the pull request
  MaxFaults   \* bound: reads that fail

Audit == {"sorry", "axiom", "decide", "immutability", "equiv", "comparator"}

\* What a body rests on: nothing but itself, the declarations of the names in
\* Cited, a placeholder (one, however often it is written), or classical choice.
Body == {"proof", "lemma", "sorry", "choice"}
Slot == {<<k, n>> : k \in Key, n \in 1..2} \ {<<k, 2>> : k \in Single}
Decl == [stmt : Stmt, body : Body]
File == [Slot -> Decl \cup {NoDecl}]

\* [audits.sorry_delta], [audits.axiom_honesty] and [project].prover.
Config == [ sorry  : {"block", "report"},
            axioms : {"net_zero", "whitelist"},
            prover : {"lean4", "rocq", "unknown"} ]
Tree == [files : [Path -> File], config : Config]

ASSUME AuditsAssumption ==
  /\ Kind \in [Key -> {"theorem", "def", "structure", "axiom"}]
  /\ Opaque \subseteq Stmt
  /\ DOMAIN FirstLine = Stmt
  /\ Cited \subseteq Key
  /\ NoDecl \notin Decl
  /\ Target \in [Task -> Path \X Key]
  /\ Allowed \subseteq Key
  /\ InitTree \subseteq Tree
  /\ Edit \subseteq Path \X Slot \X (Decl \cup {NoDecl})
  /\ Setting \subseteq Config
  /\ Single \subseteq Key
  /\ DOMAIN Segment = Key
  /\ Place \in [Key -> Nat]
  /\ \A j, k \in Key : j # k /\ Segment[j] = Segment[k] => Place[j] # Place[k]
  /\ IsFiniteSet(Path) /\ IsFiniteSet(Key)
  /\ NoDecl \notin Stmt
  /\ MaxEdits \in Nat /\ MaxMoves \in Nat
  /\ MaxRenames \in Nat /\ MaxFaults \in Nat

VARIABLES
  main,     \* the protected branch
  fork,     \* the commit the pull request's branch is based on
  head,     \* the branch
  renames,  \* its renames, oldest first: <<old path, new path>>
  base,     \* the base GitHub records: main at the last push
  refs,     \* the tasks its body closes
  pr,       \* "draft", "open" or "merged"
  exits,    \* per audit of the head: "none", "pass", "fail" or "error"
  blind,    \* the audits whose answer a failed read has changed
  used      \* how much of each bound is used

vars == <<main, fork, head, renames, base, refs, pr, exits, blind, used>>

NoFile == [s \in Slot |-> NoDecl]
NotRun == [a \in Audit |-> "none"]

AInit ==
  /\ main \in InitTree
  /\ fork = main /\ head = main /\ base = main
  /\ renames = <<>>
  /\ refs \in {<<>>} \cup {<<t>> : t \in Task}
  /\ pr = "draft"
  /\ exits = NotRun
  /\ blind = {}
  /\ used = [edits |-> 0, moves |-> 0, faults |-> 0]

-----------------------------------------------------------------------------
(* What the jobs read.                                                     *)

\* The name p had before the branch's renames, undone from the newest.
Origin(p) ==
  LET from[n \in 0..Len(renames)] ==
        IF n = 0 THEN p
        ELSE LET r == renames[Len(renames) + 1 - n]
             IN  IF r[2] = from[n - 1] THEN r[1] ELSE from[n - 1]
  IN from[Len(renames)]

\* Where a file of the branch was at the fork, for GitHub's list of files and for
\* the merge: they compare two trees, and pair a path that is gone with one that
\* is new, whatever the commits between did.
New(old) == {p \in Path : /\ head.files[p] # NoFile /\ fork.files[p] = NoFile
                          /\ Origin(p) = old}
Home(p) ==
  IF renames = <<>> THEN p ELSE
  LET old == Origin(p) IN
  IF /\ fork.files[old] # NoFile /\ head.files[old] = NoFile
     /\ p \in New(old) /\ p = (CHOOSE q \in New(old) : TRUE)
  THEN old ELSE p

Vacated(p) == renames # <<>> /\ head.files[p] = NoFile /\ \E q \in Path : q # p /\ Home(q) = p

\* fetch_pr_files: the files GitHub shows as changed since the fork, a renamed
\* one under its new name only.
PrFiles ==
  {p \in Path : /\ ~Vacated(p)
                /\ Home(p) # p \/ head.files[p] # fork.files[p]}

\* Mutation: a renamed file is taken for a new one.
MutNoRename(p) == {}

\* detect_rename: the newest rename whose new name is p.
RenamedFrom(p) == {renames[n][1] : n \in {m \in DOMAIN renames :
                     renames[m][2] = p /\ \A l \in m + 1..Len(renames) : renames[l][2] # p}}

Read(tree, p, lost) == IF lost THEN NoFile ELSE tree.files[p]

\* _base_show follows a rename; a lookup that fails finds none.
BaseShow(p, lost) ==
  IF lost \/ RenamedFrom(p) = {} THEN base.files[p]
  ELSE base.files[CHOOSE q \in RenamedFrom(p) : TRUE]

\* fetch_base_contents asks for a rename only if the name is not there.
FetchBase(p, lost) ==
  IF base.files[p] # NoFile /\ ~lost THEN base.files[p] ELSE BaseShow(p, lost)

\* Mutation: the policy is read from the head.
MutHeadPolicy == head.config

\* The policies and the prover are the base's, whatever the branch says.
Policy == base.config

\* filter_files_by_profile: the files modelled are lean4's.
Audited == IF Policy.prover = "lean4" THEN PrFiles ELSE {}

-----------------------------------------------------------------------------
(* The comparisons.                                                        *)

Copy(file, k) == {s \in Slot : s[1] = k /\ file[s] # NoDecl}
The(file, k) == file[CHOOSE s \in Copy(file, k) : TRUE]

Holds(s, d, w) == IF w = "axiom" THEN Kind[s[1]] = "axiom" ELSE d.body = w

\* The occurrences in a file; a declaration has one at most.
Count(file, w) == Cardinality({s \in Slot : file[s] # NoDecl /\ Holds(s, file[s], w)})
NetNew(b, h, w) == Count(h, w) > Count(b, w)
AxiomNames(file) == {k \in Key : Kind[k] = "axiom" /\ Copy(file, k) # {}}

\* compare of the audit over one file.
Introduced(a, b, h) ==
  CASE a = "sorry"  -> Policy.sorry = "block" /\ NetNew(b, h, "sorry")
    [] a = "axiom"  -> IF Policy.axioms = "whitelist" THEN ~(AxiomNames(h) \subseteq Allowed)
                       ELSE NetNew(b, h, "axiom")
    [] a = "decide" -> NetNew(b, h, "choice")

\* Counter(base texts) == Counter(head texts).
SameTexts(b, h, k) ==
  \A d \in Decl : Cardinality({s \in Copy(b, k) : b[s] = d})
                    = Cardinality({s \in Copy(h, k) : h[s] = d})
Unique(b, h, k) == Cardinality(Copy(b, k)) = 1 /\ Cardinality(Copy(h, k)) = 1

\* Mutation: a proof is compared as well.
MutWhole(d, k) == TRUE

\* A blueprint's definition still waits for its body; any other definition,
\* and a kind without a body, is compared as a whole.
FillingBlueprint(d, k) == Kind[k] = "def" /\ d.body = "sorry"
AsWhole(d, k) == Kind[k] # "theorem" /\ ~FillingBlueprint(d, k)

\* Mutation: a declaration the head has twice is judged by one of the two.
MutFirstMatch(b, h, k) ==
  \/ Copy(b, k) = {}
  \/ Copy(h, k) # {} /\ \E s \in Copy(h, k) : h[s].stmt = The(b, k).stmt

\* compare_declarations finds nothing to say about the name k.
Untouched(b, h, k) ==
  \/ Copy(b, k) = {}
  \/ SameTexts(b, h, k)
  \/ /\ Unique(b, h, k)
     /\ ~AsWhole(The(b, k), k)
     /\ {The(b, k).stmt, The(h, k).stmt} \cap Opaque = {}
     /\ The(b, k).stmt = The(h, k).stmt

\* extract_lean_statement: the search for a name stops at the first declaration
\* of its last segment, whatever namespace that one stands in.
Found(file, k) ==
  {s \in Slot : /\ file[s] # NoDecl
                /\ Kind[s[1]] \in {"theorem", "def"}
                /\ Segment[s[1]] = Segment[k]}
First(file, k) ==
  CHOOSE s \in Found(file, k) : \A t \in Found(file, k) :
    \/ Place[s[1]] < Place[t[1]]
    \/ s[1] = t[1] /\ s[2] <= t[2]
Extracted(file, k) ==
  IF Found(file, k) = {} \/ file[First(file, k)].stmt \in Opaque THEN NoDecl
  ELSE file[First(file, k)].stmt

\* statement_equiv.compare: what cannot be extracted passes.
Equivalent(b, h, k) ==
  \/ NoDecl \in {Extracted(b, k), Extracted(h, k)}
  \/ Extracted(b, k) = Extracted(h, k)

\* What the declaration in a tree's place x rests on: itself and, where its proof
\* cites, what the cited names stand for, which rest on nothing else.
Rests(tree, x) ==
  {x} \cup IF tree.files[x[1]][x[2]].body # "lemma" THEN {}
           ELSE {y \in Path \X Slot : y[2][1] \in Cited /\ tree.files[y[1]][y[2]] # NoDecl}

\* Mutation: only the target itself is asked.
MutPermitted(tree, x) == tree.files[x[1]][x[2]].body = "sorry" => Policy.sorry = "report"

\* permitted_axioms: beside the three of the core, which every proof may use, the
\* whitelist's under that policy and sorryAx where placeholders are only reported.
Permitted(tree, x) ==
  \A y \in Rests(tree, x) :
    /\ tree.files[y[1]][y[2]].body = "sorry" => Policy.sorry = "report"
    /\ Kind[y[2][1]] = "axiom" => Policy.axioms = "whitelist" /\ y[2][1] \in Allowed

\* The tool's verdict over the whole trees: the target's statement is the base's
\* and its proof rests on nothing that is not permitted.
Matches(p, k) ==
  /\ Unique(base.files[p], head.files[p], k)
  /\ The(head.files[p], k).stmt = The(base.files[p], k).stmt
  /\ \A s \in Copy(head.files[p], k) : Permitted(head, <<p, s>>)

-----------------------------------------------------------------------------
(* The jobs.                                                               *)

\* The delta audits: a side that cannot be read counts as empty.
DeltaExit(a, lost) ==
  IF \E p \in Audited : Introduced(a, Read(base, p, <<"base", p>> \in lost),
                                      Read(head, p, <<"head", p>> \in lost))
  THEN "fail" ELSE "pass"

ImmutabilityExit(lost) ==
  IF \E p \in Audited, k \in Key : ~Untouched(BaseShow(p, lost # {}), head.files[p], k)
  THEN "fail" ELSE "pass"

EquivExit(lost) ==
  IF refs = <<>> THEN "pass"
  ELSE LET p == Target[Head(refs)][1]  k == Target[Head(refs)][2] IN
       IF Equivalent(FetchBase(p, <<"base", p>> \in lost),
                     Read(head, p, <<"head", p>> \in lost), k)
       THEN "pass" ELSE "fail"

\* Not applicable without a target that was there at the base; a name the tool
\* does not find on either side is its own failure, not the worker's.
ComparatorExit(lost) ==
  IF refs = <<>> \/ Policy.prover # "lean4" THEN "pass"
  ELSE LET p == Target[Head(refs)][1]  k == Target[Head(refs)][2] IN
       IF Read(base, p, lost # {}) = NoFile THEN "pass"
       ELSE IF Copy(base.files[p], k) = {} THEN "error"
       ELSE IF head.files[p] # NoFile /\ Copy(head.files[p], k) = {} THEN "error"
       ELSE IF Matches(p, k) THEN "pass" ELSE "fail"

\* What one run of an audit's main answers, with the reads in lost failing;
\* only equiv has no answer of its own to a prover nobody knows.
Exit(a, lost) ==
  CASE a \in {"equiv", "comparator"} /\ refs = <<>> -> "pass"
    [] OTHER ->
       IF Policy.prover = "unknown" THEN (IF a = "equiv" THEN "fail" ELSE "error")
       ELSE CASE a = "immutability" -> ImmutabilityExit(lost)
              [] a = "equiv"        -> EquivExit(lost)
              [] a = "comparator"   -> ComparatorExit(lost)
              [] OTHER              -> DeltaExit(a, lost)

\* The jobs of a push have nothing in common but its trees, so that all of them
\* finishing at once stands for every order.
RunAudits ==
  /\ pr = "open"
  /\ exits = NotRun
  /\ exits' = [a \in Audit |-> Exit(a, {})]
  /\ UNCHANGED <<main, fork, head, renames, base, refs, pr, blind, used>>

\* A request to GitHub fails and stops its job, or a read with git fails, which
\* most of the jobs take for a file that is not there: shown where it matters.
RunAuditsFaulty ==
  /\ pr = "open"
  /\ exits = NotRun
  /\ used.faults < MaxFaults
  /\ used' = [used EXCEPT !.faults = @ + 1]
  /\ \E a \in Audit :
       \/ /\ exits' = [b \in Audit |-> IF b = a THEN "error" ELSE Exit(b, {})]
          /\ UNCHANGED blind
       \/ \E side \in {"base", "head"}, p \in Path :
            /\ Exit(a, {<<side, p>>}) # Exit(a, {})
            /\ exits' = [b \in Audit |-> Exit(b, IF b = a THEN {<<side, p>>} ELSE {})]
            /\ blind' = {a}
  /\ UNCHANGED <<main, fork, head, renames, base, refs, pr>>

\* The red jobs are run again by hand.
Red == {a \in Audit : exits[a] \in {"fail", "error"}}
Rerun ==
  /\ pr = "open"
  /\ Red # {}
  /\ exits' = [a \in Audit |-> IF a \in Red THEN Exit(a, {}) ELSE exits[a]]
  /\ blind' = blind \ Red
  /\ UNCHANGED <<main, fork, head, renames, base, refs, pr, used>>

-----------------------------------------------------------------------------
(* git's merge of the branch into m, declaration by declaration.        *)

Clash(f, m, h) == h # f /\ m # f /\ h # m
Combine(f, m, h) == IF h = f THEN m ELSE h

ConflictWith(m) ==
  \/ Clash(fork.config, m.config, head.config)
  \/ \E p \in Path : LET old == Home(p) IN
       \/ old # p /\ m.files[p] # fork.files[p]
       \/ /\ fork.files[old] \notin {m.files[old], head.files[p]}
          /\ ~Vacated(p)
          /\ \E s \in Slot : Clash(fork.files[old][s], m.files[old][s], head.files[p][s])

MergedInto(m) ==
  [ files  |-> [p \in Path |->
      IF Vacated(p) THEN NoFile
      ELSE LET old == Home(p) IN
           [s \in Slot |-> Combine(fork.files[old][s], m.files[old][s], head.files[p][s])]],
    config |-> Combine(fork.config, m.config, head.config) ]

Conflict == ConflictWith(main)
Merged == MergedInto(main)

-----------------------------------------------------------------------------
(* The trust report, which tells a reviewer what each declaration it       *)
(* probes rests on, and blocks nothing.  Its job reads the merge GitHub    *)
(* prepared for the push, and the prover that one names.                   *)

Checkout == MergedInto(base)

\* _run_auto_mode has a report to give for the prover the checkout names.
Reporting == Checkout.config.prover = "lean4"

\* _changed_files: what differs from the base, no rename taken into account.
ChangedFiles == LET tree == Checkout IN {p \in Path : base.files[p] # tree.files[p]}

\* The line a declaration begins on.
RawLine(d) == FirstLine[d.stmt]

\* _is_target
IsTarget(b, h, k) ==
  \/ Copy(b, k) = {}
  \/ ~Unique(b, h, k)
  \/ Extracted(b, k) # Extracted(h, k)
  \/ /\ NoDecl = Extracted(b, k) /\ NoDecl = Extracted(h, k)
     /\ RawLine(The(b, k)) # RawLine(The(h, k))

\* Mutation: a file that is not there at the base is passed over.
MutKnownFiles ==
  LET tree == Checkout IN
  {d \in ChangedFiles \X Slot :
     /\ Reporting
     /\ base.files[d[1]] # NoFile
     /\ tree.files[d[1]][d[2]] # NoDecl
     /\ IsTarget(base.files[d[1]], tree.files[d[1]], d[2][1])}

\* detect_changed_decls, without its cap of 50, which the report mentions.
Targets ==
  LET tree == Checkout IN
  {d \in ChangedFiles \X Slot :
     /\ Reporting
     /\ tree.files[d[1]][d[2]] # NoDecl
     /\ IsTarget(base.files[d[1]], tree.files[d[1]], d[2][1])}

-----------------------------------------------------------------------------
(* The worker.                                                             *)

\* A push to an open pull request: GitHub takes main's tip for the base, and
\* the jobs in progress are cancelled and started again.
Pushed ==
  IF pr = "open" THEN base' = main /\ exits' = NotRun /\ blind' = {}
  ELSE UNCHANGED <<base, exits, blind>>

WorkerEdits ==
  /\ pr # "merged"
  /\ used.edits < MaxEdits
  /\ used' = [used EXCEPT !.edits = @ + 1]
  /\ \/ \E e \in Edit :
          /\ \A n \in DOMAIN renames : renames[n][1] # e[1]
          /\ head' = [head EXCEPT !.files[e[1]][e[2]] = e[3]]
     \/ \E c \in Setting : head' = [head EXCEPT !.config = c]
  /\ head' # head
  /\ Pushed
  /\ UNCHANGED <<main, fork, renames, refs, pr>>

Rename ==
  /\ pr # "merged"
  /\ Len(renames) < MaxRenames
  /\ \E p, q \in Path :
       /\ head.files[p] # NoFile /\ head.files[q] = NoFile
       /\ head' = [head EXCEPT !.files[p] = NoFile, !.files[q] = head.files[p]]
       /\ renames' = Append(renames, <<p, q>>)
  /\ Pushed
  /\ UNCHANGED <<main, fork, refs, pr, used>>

Open ==
  /\ pr = "draft"
  /\ head # fork
  /\ pr' = "open"
  /\ base' = main
  /\ UNCHANGED <<main, fork, head, renames, refs, exits, blind, used>>

\* The worker brings the branch up to date; the renames are then main's.
Rebase ==
  /\ pr = "open"
  /\ fork # main
  /\ ~Conflict
  /\ fork' = main
  /\ head' = Merged
  /\ Pushed
  /\ UNCHANGED <<main, renames, refs, pr, used>>

\* merge_pr: every required check is green on the head.
Merge ==
  /\ pr = "open"
  /\ \A a \in Audit : exits[a] = "pass"
  /\ ~Conflict
  /\ main' = Merged
  /\ pr' = "merged"
  /\ UNCHANGED <<fork, head, renames, base, refs, exits, blind, used>>

\* Somebody else's pull request, or the maintainer, changes main.
MainMoves ==
  /\ pr # "merged"
  /\ used.moves < MaxMoves
  /\ used' = [used EXCEPT !.moves = @ + 1]
  /\ \/ \E e \in Edit :
          /\ main.files[e[1]] # NoFile
          /\ main' = [main EXCEPT !.files[e[1]][e[2]] = e[3]]
     \/ \E c \in Setting : main' = [main EXCEPT !.config = c]
  /\ main' # main
  /\ UNCHANGED <<fork, head, renames, base, refs, pr, exits, blind>>

ANext ==
  \/ RunAudits \/ RunAuditsFaulty \/ Rerun
  \/ WorkerEdits \/ Rename \/ Open \/ Rebase \/ Merge \/ MainMoves

ASpec == AInit /\ [][ANext]_vars

-----------------------------------------------------------------------------
(* Properties.                                                             *)

\* The declaration d of main is still there: its statement, and the whole of it
\* where the body counts.
Survives(d, k, file) ==
  \E s \in Copy(file, k) :
    file[s].stmt = d.stmt /\ (AsWhole(d, k) => file[s].body = d.body)

\* The statement that main has in slot s of q's file is not in the merged one.
Gone(q, s) ==
  /\ ~Vacated(q)
  /\ main.files[Home(q)][s] # NoDecl
  /\ ~Survives(main.files[Home(q)][s], s[1], main'.files[q])

\* The immutability audit judged the branch.
Judged == base.config.prover = "lean4" /\ "immutability" \notin blind

\* detect_rename names another file than the one the merge takes q for.
Misread(q) == RenamedFrom(q) \notin {{}, {Home(q)}}

\* Main changed the declaration and took that back, the base being recorded in
\* between; or it changed the other declaration of that name.
Churned(p, s) ==
  \/ main.files[p][s] = fork.files[p][s] /\ main.files[p][s] # base.files[p][s]
  \/ \E t \in Slot \ {s} : t[1] = s[1] /\ main.files[p][t] # fork.files[p][t]

\* No merge takes a statement from main, edits it or redefines what main had
\* defined, whether main moved between the audit and the merge, whether the
\* file was renamed, whatever the branch says of its own policy
\* (gate/verify/statement_immutability.py).  Left out are the two places where
\* the audit looks at something else: see Misread and Churned.
StatementsKept ==
  [][Merge /\ Judged =>
       \A q \in Path, s \in Slot : Gone(q, s) => Misread(q) \/ Churned(Home(q), s)]_vars

\* What the audit promises, without the exceptions: "every declaration present in
\* the base version of a changed file must reach head with its statement
\* untouched" (gate/verify/statement_immutability.py).
StatementsReachHead ==
  [][Merge /\ Judged => \A q \in Path, s \in Slot : ~Gone(q, s)]_vars

Holding(tree, w) ==
  {d \in Path \X Slot : LET e == tree.files[d[1]][d[2]] IN e # NoDecl /\ Holds(d[2], e, w)}
Total(tree, w) == Cardinality(Holding(tree, w))

\* What main changed since the branch began, be it only until the last push.
MovedSinceFork ==
  {d \in Path \X Slot : LET at(tree) == tree.files[d[1]][d[2]]
                        IN  {at(main), at(base)} # {at(fork)}}

\* The base's policy has w counted, and the count was taken.
Counted(w) ==
  CASE w = "sorry"  -> base.config.sorry = "block" /\ "sorry" \notin blind
    [] w = "axiom"  -> base.config.axioms = "net_zero" /\ "axiom" \notin blind
    [] w = "choice" -> "decide" \notin blind

\* A merge brings main no placeholder, axiom or classical choice on balance; only
\* a declaration that main itself changed since the branch began can hide one
\* (gate/verify/sorry_delta.py, axiom_honesty.py, decide_instance.py).
DebtBounded ==
  [][Merge /\ base.config.prover = "lean4" =>
       \A w \in {"sorry", "axiom", "choice"} : Counted(w) =>
         Total(main', w) <= Total(main, w) + Cardinality(MovedSinceFork)]_vars

TargetFile == Target[Head(refs)][1]
TargetDecl == Target[Head(refs)][2]

\* Main moved what the task's target is or may rest on since the branch began.
TargetMoved ==
  \/ \E s \in Slot : s[1] = TargetDecl
       /\ main.files[TargetFile][s] # fork.files[TargetFile][s]
  \/ \E p \in Path, s \in Slot : s[1] \in Cited /\ main.files[p][s] # fork.files[p][s]

\* When a task's pull request merges, its target is proved as main had stated it,
\* and on main that proof rests on no placeholder and on no axiom but those the
\* base's policy allows, unless main has moved one of them meanwhile: also where
\* the text audits pass what they cannot extract, and what they do not count,
\* because it was there before (gate/verify/comparator_cli.py).
TargetProved ==
  [][Merge /\ refs # <<>> /\ base.files[TargetFile] # NoFile
       /\ base.config.prover = "lean4" /\ base.config.sorry = "block"
       /\ "comparator" \notin blind =>
       \/ TargetMoved
       \/ \E s \in Copy(main'.files[TargetFile], TargetDecl) :
            /\ main'.files[TargetFile][s].stmt = The(base.files[TargetFile], TargetDecl).stmt
            /\ \A y \in Rests(main', <<TargetFile, s>>) :
                 /\ main'.files[y[1]][y[2]].body # "sorry"
                 /\ Kind[y[2][1]] = "axiom" =>
                      base.config.axioms = "whitelist" /\ y[2][1] \in Allowed]_vars

\* The branch does its task and nothing else: it proves what was to be proved
\* and adds lemmas of new names.
Fills(e, d, k) ==
  /\ Kind[k] = "theorem" \/ FillingBlueprint(e, k)
  /\ d.stmt = e.stmt
  /\ d.stmt \notin Opaque
Honest ==
  /\ head.config = fork.config
  /\ renames = <<>>
  /\ \A p \in Path, s \in Slot :
       LET d == head.files[p][s]  e == fork.files[p][s]  k == s[1] IN
       d # e =>
         /\ d # NoDecl
         /\ d.body \in {"proof", "lemma"}
         /\ Cardinality(Copy(head.files[p], k)) = 1
         /\ IF e = NoDecl THEN Copy(fork.files[p], k) = {} /\ Kind[k] # "axiom"
            ELSE Fills(e, d, k)
  /\ refs # <<>> =>
       /\ Unique(fork.files[TargetFile], head.files[TargetFile], TargetDecl)
       /\ First(fork.files[TargetFile], TargetDecl) = First(head.files[TargetFile], TargetDecl)
       /\ The(head.files[TargetFile], TargetDecl).body # "sorry"

HonestAnswered ==
  /\ pr = "open" /\ exits # NotRun /\ used.faults = 0
  /\ Honest /\ base = fork
  /\ base.config.axioms = "net_zero" /\ base.config.prover # "unknown"

\* The target's proof cites what main already owes: an axiom, or a declaration
\* that still waits for its proof where placeholders block.
LeansOnDebt ==
  /\ refs # <<>>
  /\ \E s \in Copy(head.files[TargetFile], TargetDecl) :
       \E y \in Rests(head, <<TargetFile, s>>) :
         \/ Kind[y[2][1]] = "axiom"
         \/ head.files[y[1]][y[2]].body = "sorry" /\ base.config.sorry = "block"

\* No audit stands in the way of honest work: once the branch is up to date,
\* every job that got its answers is green, wherever the branch comes from and
\* whatever happened on main before ("a worker's PR is a proof-body fill",
\* gate/verify/statement_immutability.py).  What it takes to be honest names what
\* the audits cannot tell from tampering: see Fills and the rest above.  The one
\* false reject is the comparator's, of a proof that leans on main's debt ("the
\* net_zero false-reject caveat", gate/verify/comparator.py).
HonestWorkPasses ==
  HonestAnswered =>
    \A a \in Audit : exits[a] = "pass" \/ (a = "comparator" /\ LeansOnDebt)

\* The same without the exception, which is not so: a proof may cite an axiom that
\* main has had all along, and the comparator turns it down.
HonestProofsPass == HonestAnswered => \A a \in Audit : exits[a] = "pass"

\* The extractor takes another declaration for k.
Shadowed(file, k) == Found(file, k) # {} /\ First(file, k)[1] # k

\* Main has a declaration of p's name k other than it had when the report ran.
MovedSinceReport(p, k) == \E s \in Slot : s[1] = k /\ main.files[p][s] # base.files[p][s]

\* Every statement a merge at this moment would bring main, forced past red
\* audits or not, is among the declarations the trust report probed ("target
\* whichever declarations are new at head or whose extracted statement differs
\* from base", gate/verify/changed_decls.py), although main may have moved since
\* and the file may have been renamed.  Left out are the statements no extractor
\* delimits on either side that begin on the same line, and names the extractor
\* mistakes for another.
ReportCovers ==
  LET seen   == Checkout
      result == Merged
      probed == Targets
      Mistaken(p, k) == Shadowed(base.files[p], k) \/ Shadowed(seen.files[p], k)
      Obscure(p, s) ==
        /\ Extracted(base.files[p], s[1]) = NoDecl /\ Extracted(seen.files[p], s[1]) = NoDecl
        /\ \E t \in Copy(base.files[p], s[1]) :
             RawLine(base.files[p][t]) = RawLine(result.files[p][s])
  IN pr = "open" /\ ~ConflictWith(base) /\ ~Conflict /\ Reporting =>
       \A p \in Path : \A s \in {t \in Slot : result.files[p][t] # NoDecl} :
         LET file == main.files[Home(p)] IN
         /\ \A t \in Copy(file, s[1]) : file[t].stmt # result.files[p][s].stmt
         /\ ~MovedSinceReport(Home(p), s[1])
         /\ ~Mistaken(p, s[1])
         /\ ~Obscure(p, s)
         => <<p, s>> \in probed
=============================================================================
