---------------------------- MODULE PullRequest -----------------------------
(***************************************************************************)
(* One contributor's pull request between its first commit and its merge:  *)
(* the contributor pushes, GitHub runs the gate's workflows on each head   *)
(* (or holds them for approval), and the orchestrator's commands           *)
(*   merge, merge-override (orchestrator/cli.py, orchestrator/prs.py),     *)
(*   approve-runs (orchestrator/runs.py)                                   *)
(* each read the pull request and act on what they read.                   *)
(***************************************************************************)
EXTENDS Checks, Naturals

CONSTANTS
  Commit,       \* the commits the contributor may push
  First,        \* the one the pull request is opened with
  NoCommit,
  Run,          \* what may report on a commit: workflow runs, commit statuses
  Context,      \* the runs that are commit statuses of a third party
  ChecksOf,     \* the checks each run reports
  Trees,        \* the sets of workflows a commit's tree may leave in place
  SameRepos,    \* may the branch live in the repository itself, in a fork?
  FirstTimes,   \* may the contributor be a first-time one, a known one?
  Prover,       \* the project's prover, as the caller passes it
  Caller,       \* "agent" calls merge, "overseer" merge-override
  MaxOverrides, \* bound: override comments the overseer leaves
  MaxEvents     \* bound: pushes, reopenings, reruns and failing requests, in all

ASSUME PullRequestAssumption ==
  /\ First \in Commit
  /\ NoCommit \notin Commit
  /\ Context \subseteq Run
  /\ ChecksOf \in [Run -> SUBSET CheckName]
  /\ Trees \subseteq SUBSET Run
  /\ {SameRepos, FirstTimes} \subseteq SUBSET BOOLEAN
  /\ Prover \in Provers
  /\ Caller \subseteq {"agent", "overseer"}
  /\ {MaxOverrides, MaxEvents} \subseteq Nat

VARIABLES
  head,       \* the commit at the tip of the pull request
  prState,    \* PRView.state
  sameRepo,   \* head_repo == repo: no fork
  firstTime,  \* GitHub holds the contributor's workflow runs for approval
  tree,       \* the workflows each commit's tree leaves in place
  progress,   \* where each run stands on each commit
  call,       \* the merge call of each caller: its next request and what it read
  answer,     \* what the last merge command to end printed
  approving,  \* the approve-runs command under way
  trail,      \* the override comments on the pull request
  landed,     \* history: the merge that landed, or NoMerge
  vouched,    \* history: commits whose checks all stood well at some instant
  events      \* how many of the events MaxEvents bounds there were

prVars == <<head, prState, sameRepo, firstTime, tree, progress, call, answer,
            approving, trail, landed, vouched, events>>

Forces(c) == c = "overseer"

Note == [sha : Commit, overridden : SUBSET CheckName]
NoNote == {}
NoMerge == [sha |-> NoCommit, by |-> "none"]
Idle == [step |-> "idle", sha |-> NoCommit, note |-> NoNote]
NoAnswer == [by |-> "none", said |-> "none"]
NotApproving == [sha |-> NoCommit, todo |-> {}]

-----------------------------------------------------------------------------
(* GitHub's side: runs and readings.                                       *)

\* "none" is a run that never was.
Reporting == {"pending", "success", "failure"}
Progress == Reporting \cup {"none", "held"}

Conclusion(p) == CASE p = "pending" -> ""
                   [] p = "success" -> "SUCCESS"
                   [] OTHER         -> "FAILURE"

\* One entry of statusCheckRollup.
Rollup(r, p) ==
  IF r \in Context
    THEN [status |-> "", conclusion |-> "",
          state |-> IF p = "pending" THEN "PENDING" ELSE Conclusion(p)]
    ELSE [status |-> IF p = "pending" THEN "IN_PROGRESS" ELSE "COMPLETED",
          conclusion |-> Conclusion(p), state |-> ""]

\* get_pr's checks of a commit.
View(c) ==
  UNION {{ParseCheck(n, Rollup(r, progress[c][r])) : n \in ChecksOf[r]} :
           r \in {x \in Run : progress[c][x] \in Reporting}}

\* A push or a reopening starts every workflow the tree has, in the place of
\* its earlier runs; a third party reports once on a commit.
Started(c) ==
  [r \in Run |-> CASE r \in Context /\ progress[c][r] # "none" -> progress[c][r]
                   [] r \notin Context /\ r \notin tree[c] -> "none"
                   [] r \notin Context /\ r \in tree[c] /\ firstTime -> "held"
                   [] OTHER -> "pending"]

\* cancel-in-progress: the runs of the old head end without success.
Cancelled(c) ==
  [r \in Run |-> IF progress[c][r] = "pending" /\ r \notin Context
                   THEN "failure" ELSE progress[c][r]]

\* Every required check has reported on c, and none that counts for the
\* project's prover stands anywhere but at success.
WellStanding(c) ==
  /\ \A n \in REQUIRED_PRESENT :
       \E r \in Run : n \in ChecksOf[r] /\ progress[c][r] \in Reporting
  /\ \A r \in Run : \A n \in ChecksOf[r] \ (AdvisoryChecks \cup Relaxed(Prover)) :
       progress[c][r] \in {"none", "held", "success"}

\* The history of who stood well, kept by every step that moves a run.
Vouch == vouched' = vouched \cup {c \in Commit : WellStanding(c)'}

\* The branch is pushed; the pull request is opened next.
Init ==
  /\ head = First
  /\ prState = "none"
  /\ sameRepo \in SameRepos
  /\ firstTime \in FirstTimes
  /\ tree \in [Commit -> Trees]
  /\ progress = [c \in Commit |-> [r \in Run |-> "none"]]
  /\ call = [c \in Caller |-> Idle]
  /\ answer = NoAnswer
  /\ approving = NotApproving
  /\ trail = {}
  /\ landed = NoMerge
  /\ vouched = {}
  /\ events = 0

Event == events < MaxEvents /\ events' = events + 1

\* A request to GitHub fails.
Fault == Event

\* So does one that would only have read.
FailedRead ==
  /\ Fault
  /\ UNCHANGED <<head, prState, sameRepo, firstTime, tree, progress, call,
                 answer, approving, trail, landed, vouched>>

-----------------------------------------------------------------------------
(* The contributor and GitHub.                                             *)

\* A push, also back to a commit that was the head before.
Push(c) ==
  /\ prState = "open"
  /\ c # head
  /\ Event
  /\ head' = c
  /\ progress' = [progress EXCEPT ![head] = Cancelled(head), ![c] = Started(c)]
  /\ Vouch
  /\ UNCHANGED <<prState, sameRepo, firstTime, tree, call, answer, approving,
                 trail, landed>>

Open ==
  /\ prState = "none"
  /\ prState' = "open"
  /\ progress' = [progress EXCEPT ![head] = Started(head)]
  /\ Vouch
  /\ UNCHANGED <<head, sameRepo, firstTime, tree, call, answer, approving,
                 trail, landed, events>>

\* close_pr, or the contributor.
Close ==
  /\ prState = "open"
  /\ prState' = "closed"
  /\ UNCHANGED <<head, sameRepo, firstTime, tree, progress, call, answer,
                 approving, trail, landed, events, vouched>>

Reopen ==
  /\ prState = "closed"
  /\ Event
  /\ prState' = "open"
  /\ progress' = [progress EXCEPT ![head] = Started(head)]
  /\ Vouch
  /\ UNCHANGED <<head, sameRepo, firstTime, tree, call, answer, approving,
                 trail, landed>>

Report(c, r) ==
  /\ progress[c][r] = "pending"
  /\ \E p \in {"success", "failure"} : progress' = [progress EXCEPT ![c][r] = p]
  /\ Vouch
  /\ UNCHANGED <<head, prState, sameRepo, firstTime, tree, call, answer,
                 approving, trail, landed, events>>

\* Somebody runs a workflow of the head again; its old conclusion is gone.
Rerun(c, r) ==
  /\ c = head
  /\ progress[c][r] \in Reporting \ {"pending"}
  /\ Event
  /\ progress' = [progress EXCEPT ![c][r] = "pending"]
  /\ Vouch
  /\ UNCHANGED <<head, prState, sameRepo, firstTime, tree, call, answer,
                 approving, trail, landed>>

-----------------------------------------------------------------------------
(* approve-runs                                                            *)

\* Mutation: every held run is approved, whatever its commit.
MutAnySha(sha, c) == TRUE

OfSha(sha, c) == c = sha

\* pending_approvals: list the held runs of the repository.
ListHeld(sha) ==
  /\ approving = NotApproving
  /\ \E r \in Run : progress[sha][r] = "held"
  /\ approving' = [sha  |-> sha,
                   todo |-> {x \in Commit \X Run :
                              progress[x[1]][x[2]] = "held" /\ OfSha(sha, x[1])}]
  /\ UNCHANGED <<head, prState, sameRepo, firstTime, tree, progress, call,
                 answer, trail, landed, events, vouched>>

\* approve_run, one after the other; a failure ends the command.
ApproveOne ==
  /\ approving.todo # {}
  /\ \E x \in approving.todo :
       \/ /\ progress' = [progress EXCEPT ![x[1]][x[2]] =
                            IF @ = "held" THEN "pending" ELSE @]
          /\ approving' = IF approving.todo = {x} THEN NotApproving
                          ELSE [approving EXCEPT !.todo = @ \ {x}]
          /\ UNCHANGED events
       \/ /\ Fault
          /\ approving' = NotApproving
          /\ UNCHANGED progress
  /\ Vouch
  /\ UNCHANGED <<head, prState, sameRepo, firstTime, tree, call, answer, trail,
                 landed>>

-----------------------------------------------------------------------------
(* merge and merge-override                                                *)

\* Mutation: the call goes on without the commit it judged.
MutForgets(c, step, sha, note) ==
  call' = [call EXCEPT ![c] = [step |-> step, sha |-> NoCommit, note |-> note]]

Goto(c, step, sha, note) ==
  call' = [call EXCEPT ![c] = [step |-> step, sha |-> sha, note |-> note]]

\* The command is over and prints `said`.
Answer(c, said) ==
  /\ call' = [call EXCEPT ![c] = Idle]
  /\ answer' = [by |-> c, said |-> said]

\* _merge resolves the pull request first, and forgets what it read.
Resolve(c) ==
  /\ call[c].step = "idle"
  /\ prState # "none"
  /\ Forces(c) => Cardinality(trail) < MaxOverrides
  /\ \/ /\ Goto(c, "read", NoCommit, NoNote)
        /\ answer' = NoAnswer
        /\ UNCHANGED events
     \/ Fault /\ Answer(c, "exit 2")
  /\ UNCHANGED <<head, prState, sameRepo, firstTime, tree, progress, approving,
                 trail, landed, vouched>>

\* merge_pr reads it again and judges that reading.
Preflight(c) ==
  /\ call[c].step = "read"
  /\ ~Forces(c)
  /\ \/ /\ Accepts(View(head), Prover)
        /\ Goto(c, "merge", head, NoNote)
        /\ UNCHANGED <<answer, events>>
     \/ ~Accepts(View(head), Prover) /\ Answer(c, "refused") /\ UNCHANGED events
     \/ Fault /\ Answer(c, "refused")
  /\ UNCHANGED <<head, prState, sameRepo, firstTime, tree, progress, approving,
                 trail, landed, vouched>>

\* With force: what is overridden goes on the pull request first.
ReadForced(c) ==
  /\ call[c].step = "read"
  /\ Forces(c)
  /\ \/ /\ Goto(c, "comment", head, {Override(head, View(head), Prover)})
        /\ UNCHANGED <<answer, events>>
     \/ Fault /\ Answer(c, "refused")
  /\ UNCHANGED <<head, prState, sameRepo, firstTime, tree, progress, approving,
                 trail, landed, vouched>>

PostOverride(c) ==
  /\ call[c].step = "comment"
  /\ \/ /\ trail' = trail \cup call[c].note
        /\ Goto(c, "merge", call[c].sha, NoNote)
        /\ UNCHANGED <<answer, events>>
     \/ Fault /\ Answer(c, "refused") /\ UNCHANGED trail
  /\ UNCHANGED <<head, prState, sameRepo, firstTime, tree, progress, approving,
                 landed, vouched>>

\* Mutations: no --match-head-commit at all, or none when overriding.
MutUnpinned(c) == TRUE
MutPinnedUnforced(c) == Forces(c) \/ head = call[c].sha

\* --match-head-commit
Pinned(c) == head = call[c].sha

\* Mutation: the branch is deleted wherever it lives.
MutDeleteAlways == TRUE

\* --delete-branch only for a branch of the repository itself.
DeletesBranch == sameRepo

\* gh pr merge lands.  It still fails if the branch it is told to delete is a
\* fork's, or if its answer is lost.
Land(c) ==
  /\ call[c].step = "merge"
  /\ prState = "open"
  /\ Pinned(c)
  /\ prState' = "merged"
  /\ landed' = [sha |-> head, by |-> c]
  /\ \/ DeletesBranch /\ ~sameRepo /\ Answer(c, "refused") /\ UNCHANGED events
     \/ ~(DeletesBranch /\ ~sameRepo) /\ Answer(c, "merged") /\ UNCHANGED events
     \/ Fault /\ Answer(c, "refused")
  /\ UNCHANGED <<head, sameRepo, firstTime, tree, progress, approving, trail, vouched>>

\* gh pr merge does not land: the head moved, the pull request is closed, it
\* is merged already (which gh may take for success), or the request fails.
NotLand(c) ==
  /\ call[c].step = "merge"
  /\ \/ prState = "open" /\ ~Pinned(c) /\ Answer(c, "refused") /\ UNCHANGED events
     \/ prState = "closed" /\ Answer(c, "refused") /\ UNCHANGED events
     \/ prState = "merged" /\ Answer(c, "refused") /\ UNCHANGED events
     \/ prState = "merged" /\ Answer(c, "merged") /\ UNCHANGED events
     \/ Fault /\ Answer(c, "refused")
  /\ UNCHANGED <<head, prState, sameRepo, firstTime, tree, progress, approving,
                 trail, landed, vouched>>

-----------------------------------------------------------------------------
GitHub ==
  \/ \E c \in Commit : Push(c) \/ ListHeld(c)
  \/ \E c \in Commit, r \in Run : Report(c, r) \/ Rerun(c, r)
  \/ Open \/ Close \/ Reopen \/ ApproveOne \/ FailedRead

Merging(c) ==
  \/ Resolve(c) \/ Preflight(c) \/ ReadForced(c) \/ PostOverride(c)
  \/ Land(c) \/ NotLand(c)

Next == GitHub \/ \E c \in Caller : Merging(c)

Spec == Init /\ [][Next]_prVars

-----------------------------------------------------------------------------
(* Properties.                                                             *)

\* Every variable has its shape; a call that may merge knows which commit.
PRTypeOK ==
  /\ head \in Commit
  /\ prState \in {"none", "open", "closed", "merged"}
  /\ sameRepo \in BOOLEAN
  /\ firstTime \in BOOLEAN
  /\ tree \in [Commit -> Trees]
  /\ progress \in [Commit -> [Run -> Progress]]
  /\ call \in [Caller -> [step : {"idle", "read", "comment", "merge"},
                          sha  : Commit \cup {NoCommit}, note : SUBSET Note]]
  /\ \A c \in Caller : call[c].step \in {"comment", "merge"} => call[c].sha \in Commit
  /\ answer \in [by : Caller \cup {"none"}, said : {"none", "merged", "refused", "exit 2"}]
  /\ approving \in [sha : Commit \cup {NoCommit}, todo : SUBSET (Commit \X Run)]
  /\ trail \subseteq Note
  /\ vouched \subseteq Commit
  /\ landed = NoMerge <=> prState # "merged"

\* An unforced merge lands only a commit whose required checks had all
\* reported and whose checks all stood well at one instant, whatever was pushed,
\* rerun, cancelled or removed meanwhile (merge_pr: "a push landing between the
\* read and the merge cannot ride through").
MergedVouched ==
  landed.by = "agent" => landed.sha \in vouched

\* A forced merge leaves a comment that names the commit it merged, and if that
\* commit never stood well, what was overridden ("an override is never silent").
OverrideOnTrail ==
  landed.by = "overseer" =>
    \E t \in trail :
      /\ t.sha = landed.sha
      /\ landed.sha \notin vouched => t.overridden # {}

\* Without a failing request, a call whose merge landed says so: deleting the
\* branch never turns a merge into an error.
LandingReported ==
  [][\A c \in Caller :
       landed' # landed /\ landed'.by = c /\ events' = events
         => answer' = [by |-> c, said |-> "merged"]]_prVars

\* A held run is released only by an approve-runs command for its own commit: a
\* contributor's later push is "not covered by an earlier approval".
HeldUntilApproved ==
  [][\A c \in Commit, r \in Run :
       progress[c][r] = "held" /\ progress'[c][r] \in Reporting
         => approving.sha = c]_prVars
=============================================================================
