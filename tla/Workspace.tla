----------------------------- MODULE Workspace ------------------------------
(***************************************************************************)
(* The working directories of claimed tasks on the workers' machines:      *)
(* client/workspace.py setup_workspace, client/repo_store.py, and the      *)
(* teardown of client/release.py.  A workspace is a worktree of the        *)
(* project's shared store, or a full clone when the store is of no use.    *)
(* Each command line is a process; the store's file lock makes one         *)
(* create_worktree and one remove_workspace a single step, everything else *)
(* interleaves, and any process may be killed between two steps.           *)
(***************************************************************************)
EXTENDS Naturals, FiniteSets

CONSTANTS
  Slot,         \* the tasks worked on: pairs <<worker, issue>>
  Process,      \* command lines
  WorkerOf,     \* the machine (and login) a process runs on
  NoTip,       \* no such branch
  MaxCommits,   \* bound: commits of one attempt
  MaxMishaps    \* bound: kills, failed requests, deletions, releases, closed PRs

ASSUME WorkspaceAssumption ==
  /\ WorkerOf \in [Process -> {s[1] : s \in Slot}]
  /\ MaxCommits \in Nat \ {0}
  /\ MaxMishaps \in Nat

VARIABLES
  store,      \* the workers with a usable repo store
  branch,     \* the task branch in the store, per slot
  ws,         \* the workspace directory, per slot
  attempts,   \* how often a slot's branch was begun
  run,        \* what each process is doing
  mishaps

wsVars == <<store, branch, ws, attempts, run, mishaps>>

Worker == {s[1] : s \in Slot}

\* A branch's tip: the attempt that began it at the pinned commit, and the
\* commits on top.  Commits of different attempts are unrelated.
Tip == [attempt : 1..(MaxMishaps + 1), commits : 0..MaxCommits]

NoWorkspace == [kind |-> "none", attempt |-> 0, lease |-> FALSE, head |-> NoTip]
Idle == [step |-> "idle", slot |-> CHOOSE s \in Slot : TRUE, pr |-> 0]

\* A worktree's branch lives in the store, a clone's in the clone.
TipOf(s) == IF ws[s].kind = "tree" THEN branch[s] ELSE ws[s].head

WsInit ==
  /\ store = {}
  /\ branch = [s \in Slot |-> NoTip]
  /\ ws = [s \in Slot |-> NoWorkspace]
  /\ attempts = [s \in Slot |-> 0]
  /\ run = [p \in Process |-> Idle]
  /\ mishaps = 0

Mishap == mishaps < MaxMishaps /\ mishaps' = mishaps + 1

At(p, step) == run[p].step = step
Go(p, step) == run' = [run EXCEPT ![p].step = step]
Stop(p) == run' = [run EXCEPT ![p] = Idle]
Start(p, s, step) ==
  /\ At(p, "idle")
  /\ WorkerOf[p] = s[1]
  /\ run' = [run EXCEPT ![p] = [step |-> step, slot |-> s, pr |-> 0]]

\* Mutation: the attempt is numbered before it is counted.
MutOldTip(s) == [attempt |-> attempts[s], commits |-> 0]

NewTip(s) == [attempt |-> attempts[s] + 1, commits |-> 0]
Begun(s, kind, head) ==
  [kind |-> kind, attempt |-> attempts[s] + 1, lease |-> FALSE, head |-> head]

-----------------------------------------------------------------------------
(* setup_workspace                                                         *)

\* An existing path refuses the setup before anything is touched.
StartSetup(p, s) ==
  /\ ws[s].kind = "none"
  /\ Start(p, s, "store")
  /\ UNCHANGED <<store, branch, ws, attempts, mishaps>>

\* Mutation: worktree add takes the branch if it is there already.
MutReuseBranch(s) == ws[s].kind = "none"

\* `git worktree add -b`: neither the branch nor the path may exist.  A stale
\* registration of the path was pruned before.
CanAdd(s) == ws[s].kind = "none" /\ branch[s] = NoTip

\* create_worktree, under the project lock: clone or refresh the store, add the
\* worktree.  A failure of the store, of the pinned commit or of the add falls
\* back to a clone; an add that fails late has made the branch.
CreateWorktree(p) ==
  LET s == run[p].slot IN
  /\ At(p, "store")
  /\ store' \in {store, store \cup {s[1]}}
  /\ \/ /\ s[1] \in store'
        /\ CanAdd(s)
        /\ branch' = [branch EXCEPT ![s] = IF @ = NoTip THEN NewTip(s) ELSE @]
        /\ ws' = [ws EXCEPT ![s] = Begun(s, "tree", NoTip)]
        /\ attempts' = [attempts EXCEPT ![s] = @ + 1]
        /\ Go(p, "files")
        /\ UNCHANGED mishaps
     \/ /\ s[1] \in store'
        /\ ~CanAdd(s)
        /\ Go(p, "clone")
        /\ UNCHANGED <<branch, ws, attempts, mishaps>>
     \/ /\ Mishap
        /\ \/ UNCHANGED <<branch, attempts>>
           \/ /\ s[1] \in store'
              /\ CanAdd(s)
              /\ branch' = [branch EXCEPT ![s] = NewTip(s)]
              /\ attempts' = [attempts EXCEPT ![s] = @ + 1]
        /\ Go(p, "clone")
        /\ UNCHANGED ws

\* Mutation: no way round a store that is of no use.
MutNoFallback(p) ==
  /\ At(p, "clone")
  /\ Stop(p)
  /\ UNCHANGED <<store, branch, ws, attempts, mishaps>>

\* _legacy_clone_checkout: gh refuses a path that exists; a checkout that fails
\* twice leaves the clone without the branch.
LegacyClone(p) ==
  LET s == run[p].slot IN
  /\ At(p, "clone")
  /\ \/ /\ ws[s].kind = "none"
        /\ ws' = [ws EXCEPT ![s] = Begun(s, "clone", NewTip(s))]
        /\ attempts' = [attempts EXCEPT ![s] = @ + 1]
        /\ Go(p, "files")
        /\ UNCHANGED mishaps
     \/ /\ ws[s].kind # "none"
        /\ Stop(p)
        /\ UNCHANGED <<ws, attempts, mishaps>>
     \/ /\ Mishap
        /\ \/ UNCHANGED ws
           \/ ws[s].kind = "none" /\ ws' = [ws EXCEPT ![s] = Begun(s, "clone", NoTip)]
        /\ Stop(p)
        /\ UNCHANGED attempts
  /\ UNCHANGED <<store, branch>>

\* TASK.md, CHOIR.md, the excludes, the skills, and the lease file last.
WriteFiles(p) ==
  LET s == run[p].slot IN
  /\ At(p, "files")
  /\ Stop(p)
  /\ ws' = IF ws[s].kind = "none" THEN ws ELSE [ws EXCEPT ![s].lease = TRUE]
  /\ UNCHANGED <<store, branch, attempts, mishaps>>

Killed(p) ==
  /\ ~At(p, "idle")
  /\ Mishap
  /\ Stop(p)
  /\ UNCHANGED <<store, branch, ws, attempts>>

-----------------------------------------------------------------------------
(* What the worker does to a workspace.                                    *)

Commit(s) ==
  /\ ws[s].lease
  /\ TipOf(s) # NoTip
  /\ TipOf(s).commits < MaxCommits
  /\ IF ws[s].kind = "tree"
       THEN branch' = [branch EXCEPT ![s].commits = @ + 1] /\ UNCHANGED ws
       ELSE ws' = [ws EXCEPT ![s].head.commits = @ + 1] /\ UNCHANGED branch
  /\ UNCHANGED <<store, attempts, run, mishaps>>

\* remove_workspace: a clone is deleted; a worktree is removed, and its branch
\* with it if the lease file still says which one that is.
Removed(s, branchKnown) ==
  /\ ws' = [ws EXCEPT ![s] = NoWorkspace]
  /\ branch' = [branch EXCEPT ![s] =
                  IF ws[s].kind = "tree" /\ branchKnown THEN NoTip ELSE @]

Release(p, s) ==
  /\ At(p, "idle")
  /\ WorkerOf[p] = s[1]
  /\ ws[s].lease
  /\ Mishap
  /\ Removed(s, ws[s].lease)
  /\ UNCHANGED <<store, attempts, run>>

\* rm -r of a workspace.
RemoveByHand(s) ==
  /\ ws[s].kind # "none"
  /\ Mishap
  /\ Removed(s, FALSE)
  /\ UNCHANGED <<store, attempts, run>>

\* The advice after a setup that failed: remove the path, or release.  Neither
\* finds a lease file.
ClearFailed(s) ==
  /\ ws[s].kind # "none"
  /\ ~ws[s].lease
  /\ \A p \in Process : run[p].slot = s => At(p, "idle")
  /\ Removed(s, FALSE)
  /\ UNCHANGED <<store, attempts, run, mishaps>>

\* The store is deleted to reclaim space: its worktrees have no repository left.
DropStore(w) ==
  /\ w \in store
  /\ Mishap
  /\ store' = store \ {w}
  /\ branch' = [s \in Slot |-> IF s[1] = w THEN NoTip ELSE branch[s]]
  /\ UNCHANGED <<ws, attempts, run>>

SetupStep(p) == CreateWorktree(p) \/ LegacyClone(p) \/ WriteFiles(p)

-----------------------------------------------------------------------------

WsTypeOK ==
  /\ store \subseteq Worker
  /\ branch \in [Slot -> Tip \cup {NoTip}]
  /\ ws \in [Slot -> [kind : {"none", "tree", "clone"}, attempt : 0..(MaxMishaps + 2),
                      lease : BOOLEAN, head : Tip \cup {NoTip}]]
  /\ mishaps \in 0..MaxMishaps

\* A workspace that is ready to work in holds the work of one attempt, begun at
\* the pinned commit: nothing a killed setup, a directory deleted by hand or an
\* earlier claim left behind in the store is ever submitted with it
\* (setup_workspace, "check out the pinned commit on a topic branch").
FreshStart ==
  \A s \in Slot : ws[s].lease /\ TipOf(s) # NoTip => TipOf(s).attempt = ws[s].attempt
=============================================================================
