---------------------------- MODULE Contribution ----------------------------
(***************************************************************************)
(* `choir submit` (client/submit.py, client/fork.py) on top of the         *)
(* workspaces: find or make the fork, push the task branch, reuse or open  *)
(* the pull request, tell the issue.  Every request is a step; GitHub may  *)
(* answer a lookup late, lose an answer or refuse, and agents push and     *)
(* open pull requests of their own.                                        *)
(***************************************************************************)
EXTENDS Workspace, Sequences

CONSTANT
  Owner   \* the workers that own the project repository

ASSUME ContributionAssumption == Owner \subseteq Worker

VARIABLES
  fork,     \* "none", "pending" or "ready", per worker
  remotes,  \* the git configurations with a choir-fork remote
  pushed,   \* the task branch in the fork (in the project for its owner)
  prs,      \* every pull request, open or not
  trail     \* the "Submitted in" comments: <<slot, pull request>>

ghVars == <<fork, remotes, pushed, prs, trail>>
allVars == <<wsVars, ghVars>>

OpenOf(s) == {n \in DOMAIN prs : prs[n].slot = s /\ prs[n].open}

\* The tasks of the processes followed; of the others only a pull request shows.
Followed == {s \in Slot : \E p \in Process : WorkerOf[p] = s[1]}
Elsewhere == {<<[slot |-> s, open |-> TRUE]>> : s \in Slot \ Followed}

CInit ==
  /\ WsInit
  /\ fork = [w \in Worker |-> "none"]
  /\ remotes = {}
  /\ prs \in {<<>>} \cup Elsewhere
  /\ pushed = [s \in Slot |-> IF OpenOf(s) = {} THEN NoTip
                              ELSE [attempt |-> 1, commits |-> 1]]
  /\ trail = {}

\* Mutation: the push is forced.
MutForced(new, old) == TRUE

\* GitHub's rule for a push: the new tip descends from the old.
Extends(new, old) ==
  \/ old.commits = 0
  \/ new.attempt = old.attempt /\ new.commits >= old.commits
FastForward(new, old) == old # NoTip => Extends(new, old)
Pushable(s) == TipOf(s) # NoTip /\ FastForward(TipOf(s), pushed[s])

\* The worktrees of one store share its configuration, and so the remote.
Config(s) == IF ws[s].kind = "tree" THEN s[1] ELSE s

-----------------------------------------------------------------------------
(* submit_at                                                               *)

\* The lease file is read and there are commits beyond the pinned base.
StartSubmit(p, s) ==
  /\ ws[s].lease
  /\ TipOf(s) # NoTip
  /\ TipOf(s).commits > 0
  /\ Start(p, s, IF s[1] \in Owner THEN "push" ELSE "fork")
  /\ UNCHANGED <<store, branch, ws, attempts, mishaps, ghVars>>

\* ensure_fork: a lookup, and `gh repo fork` if it finds none.
EnsureFork(p) ==
  LET w == WorkerOf[p] IN
  /\ At(p, "fork")
  /\ IF fork[w] = "ready" THEN Go(p, "remote") /\ UNCHANGED fork
     ELSE Go(p, "poll") /\ fork' = [fork EXCEPT ![w] = "pending"]
  /\ UNCHANGED <<store, branch, ws, attempts, mishaps, remotes, pushed, prs, trail>>

ForkAppears(w) ==
  /\ fork[w] = "pending"
  /\ fork' = [fork EXCEPT ![w] = "ready"]
  /\ UNCHANGED <<wsVars, remotes, pushed, prs, trail>>

\* The polls find the fork, or give up: the fork may still come.
PollFork(p) ==
  /\ At(p, "poll")
  /\ \/ fork[WorkerOf[p]] = "ready" /\ Go(p, "remote") /\ UNCHANGED mishaps
     \/ Mishap /\ Stop(p)
  /\ UNCHANGED <<store, branch, ws, attempts, ghVars>>

\* sync_fork never fails the submit; then _ensure_fork_remote reads the
\* configuration and, in a step of its own, adds what was missing.
ReadRemote(p) ==
  /\ At(p, "remote")
  /\ Go(p, IF Config(run[p].slot) \in remotes THEN "push" ELSE "add")
  /\ UNCHANGED <<store, branch, ws, attempts, mishaps, ghVars>>

\* `git remote add` refuses a name another process added meanwhile.
AddRemote(p) ==
  LET c == Config(run[p].slot) IN
  /\ At(p, "add")
  /\ IF c \in remotes THEN Stop(p) ELSE Go(p, "push")
  /\ remotes' = remotes \cup {c}
  /\ UNCHANGED <<store, branch, ws, attempts, mishaps, fork, pushed, prs, trail>>

\* Whatever the branch holds by now is pushed, if GitHub takes it.
Push(p) ==
  LET s == run[p].slot IN
  /\ At(p, "push")
  /\ \/ /\ Pushable(s)
        /\ pushed' = [pushed EXCEPT ![s] = TipOf(s)]
        /\ \/ Go(p, "lookup") /\ UNCHANGED mishaps
           \/ Mishap /\ Stop(p)
     \/ /\ ~Pushable(s)
        /\ Stop(p)
        /\ UNCHANGED <<pushed, mishaps>>
  /\ UNCHANGED <<store, branch, ws, attempts, fork, remotes, prs, trail>>

\* Mutation: the head's owner is not compared.
MutAnyOwner(s, n) == prs[n].slot[2] = s[2] /\ prs[n].open

\* Mutation: the lookup compares owner:branch with the bare branch name.
MutNoMatch(s, n) == FALSE

\* The branch name is the same in every fork, so the owner decides.
Matches(s, n) == prs[n].slot = s /\ prs[n].open

\* _find_open_pr: the first match, or None also when the request fails or the
\* answer is from before the pull request was opened.
Lookup(p) ==
  LET s == run[p].slot
      found == {n \in DOMAIN prs : Matches(s, n)}
  IN
  /\ At(p, "lookup")
  /\ \/ /\ found # {}
        /\ \E n \in found :
             run' = [run EXCEPT ![p] = [step |-> "comment", slot |-> s, pr |-> n]]
        /\ UNCHANGED mishaps
     \/ /\ IF found = {} THEN UNCHANGED mishaps ELSE Mishap
        /\ Go(p, "create")
  /\ UNCHANGED <<store, branch, ws, attempts, ghVars>>

\* `gh pr create`: GitHub allows one open pull request for a head.
Create(p) ==
  LET s == run[p].slot IN
  /\ At(p, "create")
  /\ \/ /\ OpenOf(s) = {}
        /\ prs' = Append(prs, [slot |-> s, open |-> TRUE])
        /\ \/ /\ run' = [run EXCEPT ![p].step = "comment", ![p].pr = Len(prs')]
              /\ UNCHANGED mishaps
           \/ Mishap /\ Stop(p)
     \/ /\ OpenOf(s) # {}
        /\ Stop(p)
        /\ UNCHANGED <<prs, mishaps>>
  /\ UNCHANGED <<store, branch, ws, attempts, fork, remotes, pushed, trail>>

Announce(p) ==
  /\ At(p, "comment")
  /\ Stop(p)
  /\ trail' = trail \cup {<<run[p].slot, run[p].pr>>}
  /\ UNCHANGED <<store, branch, ws, attempts, mishaps, fork, remotes, pushed, prs>>

SubmitStep(p) ==
  \/ EnsureFork(p) \/ PollFork(p) \/ ReadRemote(p) \/ AddRemote(p)
  \/ Push(p) \/ Lookup(p) \/ Create(p) \/ Announce(p)

-----------------------------------------------------------------------------
(* GitHub's other actors.                                                  *)

\* The worker's agent pushes and opens a pull request without choir.
AgentPushes(s) ==
  /\ ws[s].lease
  /\ Pushable(s)
  /\ TipOf(s).commits > 0
  /\ s[1] \in Owner \/ fork[s[1]] = "ready"
  /\ Mishap
  /\ pushed' = [pushed EXCEPT ![s] = TipOf(s)]
  /\ UNCHANGED <<store, branch, ws, attempts, run, fork, remotes, prs, trail>>

AgentOpens(s) ==
  /\ pushed[s] # NoTip
  /\ OpenOf(s) = {}
  /\ Mishap
  /\ prs' = Append(prs, [slot |-> s, open |-> TRUE])
  /\ UNCHANGED <<store, branch, ws, attempts, run, fork, remotes, pushed, trail>>

\* A maintainer closes a pull request, merged or not; the fork keeps its branch.
ClosePR(n) ==
  /\ prs[n].open
  /\ Mishap
  /\ prs' = [prs EXCEPT ![n].open = FALSE]
  /\ UNCHANGED <<store, branch, ws, attempts, run, fork, remotes, pushed, trail>>

\* A clone's configuration goes with it, the store's with the store.
Kept == {c \in remotes : c \in store' \/ (c \in Slot /\ ws'[c].kind = "clone")}

SetsUp(p, s) == StartSetup(p, s) /\ UNCHANGED ghVars
SetsOn(p) == SetupStep(p) /\ UNCHANGED ghVars
Works(s) == Commit(s) /\ UNCHANGED ghVars
Dies(p) == Killed(p) /\ UNCHANGED ghVars
Clears(s) ==
  /\ ClearFailed(s)
  /\ remotes' = Kept
  /\ UNCHANGED <<fork, pushed, prs, trail>>
Loses ==
  /\ \/ \E p \in Process, s \in Slot : Release(p, s)
     \/ \E s \in Slot : RemoveByHand(s)
     \/ \E w \in Worker : DropStore(w)
  /\ remotes' = Kept
  /\ UNCHANGED <<fork, pushed, prs, trail>>

CNext ==
  \/ \E p \in Process :
       \/ \E s \in Slot : SetsUp(p, s) \/ StartSubmit(p, s)
       \/ SetsOn(p) \/ SubmitStep(p) \/ Dies(p)
  \/ \E s \in Slot : Works(s) \/ Clears(s) \/ AgentPushes(s) \/ AgentOpens(s)
  \/ \E w \in Worker : ForkAppears(w)
  \/ \E n \in DOMAIN prs : ClosePR(n)
  \/ Loses

CSpec == CInit /\ [][CNext]_allVars

\* A command runs to its end, GitHub makes the fork, and the worker goes on as
\* the commands' messages say: clear what a setup left, set up, work, submit.
CFairness ==
  /\ \A p \in Process : WF_allVars(SetsOn(p)) /\ WF_allVars(SubmitStep(p))
  /\ \A w \in Worker : WF_allVars(ForkAppears(w))
  /\ \A s \in Slot :
       /\ WF_allVars(Clears(s))
       /\ WF_allVars(Works(s))
       /\ WF_allVars(\E p \in Process : SetsUp(p, s))
       /\ WF_allVars(\E p \in Process : StartSubmit(p, s))

CLiveSpec == CSpec /\ CFairness

-----------------------------------------------------------------------------
(* Properties.                                                             *)

\* Every process's unfinished work is well formed.
CTypeOK ==
  /\ WsTypeOK
  /\ fork \in [Worker -> {"none", "pending", "ready"}]
  /\ remotes \subseteq Worker \cup Slot
  /\ pushed \in [Slot -> Tip \cup {NoTip}]
  /\ \A p \in Process :
       /\ run[p].slot \in Slot
       /\ At(p, "comment") => run[p].pr \in DOMAIN prs

\* The pull request a submit is about to report holds this worker's own branch,
\* also when somebody else works on the same issue and so on a branch of the
\* same name (client/submit.py _find_open_pr, "head_owner is not decoration").
OwnWorkReported ==
  \A p \in Process : At(p, "comment") => prs[run[p].pr].slot = run[p].slot

\* Submitting, with all its lost answers, late lookups, retries and agents that
\* publish on their own, is one of the abstract steps or nothing: no work on a
\* pushed branch is ever overwritten, one pull request at a time proposes it,
\* and the issue hears only of one that was opened (client/submit.py submit_at,
\* "Idempotent - safe to re-run").
Published == INSTANCE Publication WITH
  Slot      <- Followed,
  Work      <- Tip,
  NoWork    <- NoTip,
  public    <- [s \in Followed |-> pushed[s]],
  open      <- [s \in Followed |-> Cardinality(OpenOf(s))],
  opened    <- {prs[n].slot : n \in DOMAIN prs} \cap Followed,
  announced <- {c[1] : c \in {t \in trail : prs[t[2]].slot = t[1]}}

ImplementsPublication == Published!Spec

\* However the setups of a task fail - killed, refused by the store or by a
\* directory that is there, stopped by a branch an earlier attempt left - the
\* worker who clears what is left and tries again gets a workspace.
WorkspaceComes == \A s \in Followed : <>[](ws[s].lease)

\* The push is refused for good: the fork still has an earlier attempt's branch.
Behind(s) ==
  ws[s].lease /\ TipOf(s) # NoTip /\ ~Pushable(s)

\* Work that stays in its workspace is published in the end, whichever request
\* of the submit failed before; only a branch that an earlier attempt at the
\* task left in the fork can keep it back.
WorkPublished ==
  \A s \in Followed :
    <>[](ws[s].lease /\ TipOf(s) # NoTip)
      => <>(Behind(s) \/ \E n \in DOMAIN prs : <<s, n>> \in trail)
=============================================================================
