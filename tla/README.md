# A TLA+ model of choir

The repository holds a formalization project in Lean and the tooling that runs
it as a collaboration, *choir*: an orchestrator agent publishes proof tasks as
GitHub issues, workers claim them, prove them and open pull requests, and a gate
of workflows decides what may be merged. There is no server. The whole state is
in GitHub - comments, labels, pull requests, workflow runs - and every program
is a sequence of `gh` requests that somebody else's requests fall between. This
directory models that tooling: TLA+ modules translated from the source, TLC
configurations that check them, and theorems TLAPS proves for all instances.

Paths below are relative to the repository root.

## 1. Inventory

| Component | Code | State it keeps | Modules |
|---|---|---|---|
| lease arbiter | `gate/state/lease_arbiter.py`, `lease_comment.py` | none: a fold over a comment thread | `LeaseArbiter`, `ArbiterLoop` |
| lease client | `client/lease.py`, `task.py`, `heartbeat.py`, `release.py`, `cli.py` | lease comments; the session in `.choir-lease.json` | `Lease` |
| label writers | `orchestrator/leases.py`, `issue-intake.yml` with `gate/state/intake_cli.py`, `gate/reconcile/` | lifecycle labels, acknowledgement comments | `Lifecycle` |
| check registry, verdicts | `gate/checks.py` and the predicates of `orchestrator/prs.py`, `poll.py`, `cli.py`, `salvage.py` | none | `Checks` |
| merge gate | `orchestrator/prs.py`, `orchestrator/cli.py` | pull request, override comments | `PullRequest` |
| held runs | `orchestrator/runs.py` | workflow runs awaiting approval | `PullRequest` |
| agent loop | `orchestrator/poll.py`, `orchestrator/salvage.py`, `orchestrator/cli.py` | the poller's baseline, salvage tasks | `AgentLoop` |
| task records, issue bodies | `gate/state/intake.py`, `task_record.py` | issue body | `Lifecycle`, in part |
| workspaces and stores | `client/workspace.py`, `repo_store.py`, `build_store.py`, `mathlib_cache.py` | directories, the store's worktrees and branches | `Workspace` |
| submit and fork | `client/submit.py`, `fork.py` | branch, fork, remote, pull request | `Contribution`, `Publication` |
| close on merge | `issue-close-on-merge.yml`, `gate/state/close_on_merge*.py` | labels, issue state | not modelled |
| audits | `gate/verify/*.py` | none: each job reads two trees | `Audits` |
| prover profiles | `gate/provers/*.py`, `gate/inventory/scan.py` | none: scanners over one text | `Lexing`, `Statements`, `Sources` |
| protocol, upgrade, inventory, indexer, metrics, scripts | `gate/protocol*.py`, `gate/upgrade/`, `gate/inventory/`, ... | none the protocol reads but the pin | not modelled |
| the formalization | `ProbMethods/` | - | checked by Lean itself |

**How they interact.** All communication is through one task issue and one pull
request.

- *Claim.* A worker reads the issue and its thread, posts a claim comment, waits,
  reads the thread again and runs the arbiter on it. Every reader runs the same
  arbiter, so the thread is the lock. Heartbeats edit the worker's newest
  comment, so that its `updated_at` is the worker's sign of life; a release is
  one more comment. A holder that is silent for longer than the staleness window
  loses the lease to the next fresh claimant.
- *Labels.* Labels are a cache of the thread for people and for the claim
  pre-check. The orchestrator's sweep derives them from the thread, the intake
  workflow from the issue body, the daily reconciliation from the issue's
  `updated_at`. None of them holds a lock, and each edits what it read before.
- *Work.* A claim sets up a workspace: a worktree of the project's shared store, or
  a clone of its own when the store is of no use. `choir submit` finds or makes the
  fork, pushes the task branch, reuses or opens the pull request and tells the issue.
- *Audits.* Each required audit is a job of its own. It asks GitHub for the base,
  the head and the changed files, reads both sides with git, finds the declarations
  with a scanner per prover, and compares them. Main moves on meanwhile.
- *Gate.* A push starts the verification workflows, which GitHub holds for
  approval if the contributor is new. The agent's loop reads the checks,
  approves held runs, merges, salvages a near miss, and lets the poller sleep
  until something changes.

**What is hard about it.** Any request may fail, or be done and its answer lost;
a reader may miss the newest comments; client clocks differ; a client may die
between two requests; other writers act between a read and the write based on
it; and nothing is retried unless some later round does it again. PROJECT.json
lists the hazards at their lines.

**What makes it correct.** The arbiter: every reader gives the same answer for
the same thread, and appending never changes an earlier answer. The lease: one
winner at a time; only the owner or silence ends a lease; an abandoned task is
taken. The labels: no task drops off the board, and labels end up in line with
the lease. The gate: what lands is what was judged; an override is on record;
the readings of a pull request's checks agree; nothing green stays unmerged,
nothing held stays held; no unsound tree seeds the next attempt. The workspaces:
nothing left over from an earlier attempt gets into a new one, and however setups
fail, a retry succeeds. Submit: idempotent in the sense of `Publication`. The
audits: a merge takes no statement from main and brings it no debt, and honest work
is not kept out. The scanners: they see in a text what its author meant.

## 2. Modules

    LeaseArbiter <- ArbiterLoop <- MCArbiterLoop      Checks <- PullRequest <- AgentLoop
        ^                                                           ^             ^
      Lease <- Lifecycle                                     MCPullRequest   MCAgentLoop
        ^          ^
     MCLease   MCLifecycle
    LeaseArbiterProofs <- LeaseProofs (Lifecycle)                MergeProofs (AgentLoop)
            ^
        LoopProofs

    Workspace <- Contribution <- MCContribution       Lexing <- Statements <- Sources <- MCSources
                   |     ^
      Publication <-     ContributionProofs     SourcesProofs (Sources) <- StatementsProofs
      (INSTANCE)
                                                      Audits <- MCAudits
                                                         ^
                                                    AuditsProofs

An arrow reads "is extended by". Definitions named `Mut...` are plausible bugs of
the code; nothing uses them but the `mutants` of PROJECT.json, one per checked
property, each of which TLC finds to break its property.

### LeaseArbiter, ArbiterLoop

`Decide(thread, n, now)` is `decide_lease` on the first `n` comments, stated
declaratively: who holds after each comment (`HolderAfter`, a recursive function,
so that it can be proved about), whether that worker's newest comment is fresh,
and if not, which later claimant is. `ArbiterLoop` is the Python loop itself, one
comment per step, with its locals (`latest_by_worker`, the claim order, the
holder), and its answer, which searches the claim order for a fresh heir (`Heirs`). The answer
is a holder, a reason and the reported superseded logins; the login named as heir is filtered
out of the list (`Without`, `lease_arbiter.py:217`). The property `LoopDecides` is that both
agree at the end of every thread; `SupersededLost` that the logins reported are those that lost
a claim to another worker's lease, each once, by their first lost claim, but for the heir's. A
comment is a record of login, session, action and stamp: its text form is abstracted.
`NoSession` is the empty session of legacy comments.

### Lease

Clients make the calls `claim`, `prepare_task`, `heartbeat` and `release` over
one thread. `pc[c]` is the next request of client `c`'s call, and one action is one
request with the decision made on its answer:

| Code | Actions |
|---|---|
| `claim`: pre-checks, read, post, settle and re-read | `Begin`/`Skip`, `ReadBefore`, `PostClaim`, `ReadAfter` |
| its failures, a post that lands and raises | `ClaimFails`, `PostClaimUnacknowledged` |
| `prepare_task`, `_setup_after_claim` | `Setup`, `SetupFails`, `FirstBeat`, `RemoveWorkspace` |
| `heartbeat`: check the holder, then edit or post | `Heartbeat`, `CmdHeartbeat`, `Beat`, `BeatFails` |
| `release`: check the holder, then post | `CheckRelease`, `Release`, `ReleaseFails` |
| the process dies | `Crash` |
| GitHub's clock, whoever edits the issue | `Tick`, `Relabel` |

A read returns the thread, perhaps without up to `ReplicaLag` of its newest
comments (`Readable`); `now[c]` is the
instant the call captured, up to `MaxSkew` off. `wins` is a history variable: every
result that said WON, with the length of the thread it was decided on.

### Lifecycle

One issue with its lease protocol and the three programs that write its labels.
`sync` is the orchestrator's sweep (list the issues, read the thread and decide,
edit: three steps), `intake` the one run the concurrency group admits (parse the
event's body, post the acknowledgement, then one label edit at a time), `recon`
the daily reconciliation (list, comment, edit). Any of their requests may fail,
also a `gh issue edit` of which only one half is done; an event cancels the run in
progress before its own job's `if` is looked at. The module extends `Lease`, whose
calls go on beside it (`ClientCall`), and `ImplementsLease == Spec` is its
refinement: to a client all of this is `Relabel`.

### Checks

The registry (`TrustChecks`, `QualityChecks`, `AdvisoryChecks`, `Relaxed` for
`PROVER_OVERRIDES`) and what is made of one reading of a pull request's checks:
`_parse_pr`'s two shapes (`ParseCheck`), failing, pending and missing checks,
`merge_pr`'s preflight (`Accepts`), the poller's `ChecksState`, the survey's
`MergeableNow`, and `ClassifyFailure` for salvage. A check is written as the
registry key its name resolves to; all names without one are `Unregistered`.

### PullRequest

One pull request. The environment: `Push` (also back to a commit that was the
head before), `Open`, `Close`, `Reopen`, `Report`, `Rerun`, `FailedRead`. A commit's
*tree* says which workflows its branch still has; a push starts those, holds them
if the contributor is new, and cancels the old head's running ones
(`on`/`concurrency` of the `verify-*.yml` files). `progress[c][r]` is where run `r`
stands on commit `c`, and `View(c)` what `get_pr` makes of it.

| Code | Actions |
|---|---|
| `pending_approvals`, then `approve_run` per run | `ListHeld`, `ApproveOne` |
| `_merge`: resolve the pull request | `Resolve` |
| `merge_pr` without force: read and judge | `Preflight` |
| `merge_pr` with force: read; comment | `ReadForced`, `PostOverride` |
| `gh pr merge --match-head-commit` | `Land`, `NotLand` |

`Land` may still answer "refused": when it was told to delete a fork's branch, or
when its answer is lost. History: `landed` is the merge that landed, `vouched` the
commits on which, at some instant, every required check had reported and every
check that counts for the project's prover had succeeded. `WellStanding` says that
of the runs themselves, not of a parsed reading, so the properties do not rest on
the predicates they judge.

### AgentLoop

The loop around the same pull request. `SurveyMergeable`, `SurveyHeld`, `Salvage`,
`SurveyNothing` are the agent's decisions after `prs` and `pending-approvals`;
`StartMerge` and `CloseSalvaged` its commands; `PollStart` takes the poller's
baseline and `PollTick` is one interval: a change, the time up, or another sleep. The
agent's judgement (is the diff good?) is not modelled; it merges what is
`mergeable_now` and approves what is held. The poller may be given another prover
than the survey, and by default none.

### Workspace

The worktrees, clones and branches of claimed tasks on the workers' machines. A
*slot* is a task on a worker's machine; a *process* is one command line, which may be
killed between any two steps. `attempts` numbers the times a slot's branch was begun
at the pinned commit, so that a branch's tip says whose work it holds.

| Code | Actions |
|---|---|
| `setup_workspace`: the path must not exist | `StartSetup` |
| `create_worktree` under the store's lock, or its failure | `CreateWorktree` |
| `_legacy_clone_checkout` | `LegacyClone` |
| TASK.md, excludes, skills, the lease file last | `WriteFiles` |
| `choir release`, `remove_workspace` | `Release`, `Removed` |
| the advice of a failed setup | `ClearFailed` |
| the process dies; a person deletes a directory or the store | `Killed`, `RemoveByHand`, `DropStore` |

### Contribution, Publication

`Contribution` puts `submit_at` and `ensure_fork` on top of the workspaces, one action
per request: `StartSubmit`, `EnsureFork`, `PollFork`, `ReadRemote`, `AddRemote`, `Push`,
`Lookup`, `Create`, `Announce`. GitHub makes a fork some time later (`ForkAppears`),
answers a lookup from before, loses an answer after the work is done, or refuses;
agents push and open pull requests without choir (`AgentPushes`, `AgentOpens`), and
maintainers close them (`ClosePR`). A push must be a fast-forward; the worktrees of one
store share one git configuration, so two submits race for its remote.

`Publication` is the promise without the requests: a branch that only grows, at most
one pull request open for it, an issue told only of one that was opened for it.
`ImplementsPublication` is the refinement, for the slots of the processes followed;
`public`, `open`, `opened` and `announced` are functions of `pushed`, `prs` and `trail`.

### Audits

One pull request through the six blocking audits to its merge. A file maps slots (a
declaration's name and which copy of it) to declarations; a declaration is a statement
and what its body rests on: a proof, a gap, classical choice, or the names of `Cited`. The
worker edits, renames and rebases, main moves, and the merge combines fork, main and head per
declaration (`Merged`). What a job reads is kept apart from what is true: `RenamedFrom`,
`BaseShow`, `FetchBase` follow renames and failures as the code does, commit by commit; `Home`
pairs a path that is gone with one that is new (`New`, `Origin`), as GitHub's list of files and
git's merge do, which compare two trees.

`StatementsKept` speaks of statements main has and the merge would lose (`Gone`), at a merge
the audit judged (`Judged`: it ran for Lean, and no failed read made its answer). It leaves out
two things that the audit does not see, and names both: `Misread`, where `detect_rename` leads
to another file than the one merged, and `Churned`, where main changed a declaration and took
the change back with the base recorded in between, or changed the other of two declarations of
one name. `StatementsReachHead` is the audit's own sentence, without the exceptions. In
`DebtBounded`, `MovedSinceFork` counts what main changed since the fork, also if only for a while:
what matters is whether the fork, the base and the tip agree.

| Code | Definitions |
|---|---|
| `sorry_delta`, `axiom_honesty`, `decide_instance` | `Introduced`, `DeltaExit` |
| `statement_immutability.compare_declarations` | `Untouched`, `ImmutabilityExit` |
| `statement_equiv` | `Equivalent`, `EquivExit` |
| `comparator`: the target and the axioms its proof rests on | `Matches`, `Rests`, `Permitted`, `ComparatorExit` |
| the CLIs' exit codes, and reads that fail | `Exit`, `RunAudits`, `RunAuditsFaulty`, `Rerun` |
| `config.load` at the base | `Policy` |
| `extract_lean_statement`: by the last name segment | `Found`, `First`, `Extracted` |
| `changed_decls`, `trust_report_cli`: what a report probes | `Checkout`, `ChangedFiles`, `IsTarget`, `Targets` |

### Lexing, Statements, Sources

`Lexing` and `Statements` are the scanners as operators over token sequences, written
as recursive functions: `strip_comments` (`StripComments`), Isabelle's own blanker
(`BlankIsabelleComments`), its continuation lines (`Continuation`), scope keys
(`ScopeKeys`), spans (`SpanEnd`) and the three `extract_statement`s, up to the
immutability verdict on one declaration (`Verdict`). `Sources` writes a file token by
token and records with each token what its author meant by it: code, string, comment,
cartouche; statement, proof or after it; which scope. Its lexer is the prover's, one
token at a time, where the scanners jump from span to span and from line to line. For Rocq
that includes the strings inside its comments, which `strip_comments` does not know, and
the backslash, which is no escape there; `strayed` records that a text has come to a token
the two read differently (`Strays`). The properties compare the two readings on every text
of the bounded length.

## 3. Runs

| Run | Shows | Bounds | States |
|---|---|---|---|
| MCArbiterLoop | loop = declarative decision | threads of 4 comments, 2 logins, a session and the empty one, stamps and clock on both sides of the window | about 173,000 (all threads) |
| LeaseRace | one winner of a race; only the holder's release takes the claim | 3 clients, 2 logins (two clients share one), lag 1, faults, 4 comments, one instant | about 330,000 |
| LeaseTakeover | one standing winner as time passes; no false loss; a written beat counts; what a release frees | 2 clients, 3 sessions, faults, 5 comments, 3 ticks, window 1 | about 640,000 |
| LeaseLive | a race is decided; an abandoned task is taken | 2 clients, calls of up to 1 tick, 4 comments, 2 ticks | about 200,000 |
| Lifecycle | labels: never lost, caught up; refinement of Lease | 1 client, 1 session, one failure, one body edit, 2 comments, 2 ticks | about 270,000 |
| MergeGate | what lands was vouched for; overrides on record; approvals per commit | 2 commits, 2 runs, every tree, agent and overseer, 2 events | about 990,000 |
| AgentLoop | nothing green or held stays so; verdicts agree; no unsound seed | 2 commits, 4 runs, 1 event, 2 intervals | about 110,000 |
| Contribution | fresh workspaces; submit implements `Publication`; a workspace comes, work is published | 2 processes of one worker, a second worker with or without an open pull request on the same issue, 1 commit, 2 mishaps | about 81,000 |
| Audits | statements kept, debt bounded, target proved, honest work green, re-stated declarations reported | 4 first trees, 2 policies, 2 paths, 3 names, 4 statements, 11 edits of which 2 are made, 1 step of main, 1 rename, 1 fault | about 502,000 |
| Sources | scanners agree with the author on comments, continuation lines, scopes and statements | any text of 5 tokens; one declaration of 8 (7 in Lean and Rocq); scopes in 15 tokens | about 284,000 |

And two questions about what the code says of itself, each refuted (section 6):
AuditsRename (`StatementsReachHead` with 3 paths, 2 renames) and SourcesLet (a Lean statement
with a `let`).

**Why these bounds are enough to be interesting.** Four comments hold a race of two
claims, a loser's retry and a release; five a takeover by an heir and a return of
the old holder. Two clients under one login and one under another are the
cases in which comparing logins and comparing workers differ. Lag 1 lets a
claimant miss exactly the competing claim. Three ticks with a window of one cover
fresh, at the edge and stale, twice. In MergeGate, *events* counts pushes,
reopenings, reruns and failing requests together: two are enough for a push and
the push back, or a rerun between the read and the merge; its two workflows are
the one the prover relaxes and one for all other required checks, and a tree may
lack the second. In Contribution, *mishaps* counts kills, lost answers, failed requests,
deletions, releases, closed pull requests and agents' own steps together: two are a
kill and a deletion, a lost answer and a late lookup, or a release and an agent that
pushes; two processes of one worker are what the shared remote and the shared slot
take, and the other worker's branch of the same name is what a lookup could confuse.
In Audits two edits add a debt and pay one off, or fill a target and touch another
declaration, or fill one lemma and cite it in another; the names are one of each kind the
comparison treats differently; a statement may be one no extractor delimits. In Sources 5 tokens
hold an escape before a quote inside a string, a nested comment and a cartouche with a marginal
comment; 8 hold two lines of a statement with a string and the command that ends it; 15 an
opener of two scopes, a declaration and its closers. AgentLoop has a relaxed run, a quality run
that takes the comparator with it, a trust run and a third-party commit status, so that each
class decides once. Every bound is a CONSTANT in a guard (`MaxComments`, `MaxClock`, `MaxCall`,
`MaxEdits`, `MaxEvents`, `MaxOverrides`, `MaxMishaps`, `MaxCommits`, `MaxMoves`, `MaxRenames`,
`MaxFaults`, a kit's `room`) except `MaxWait`, which is the poller's own `max_wait`.

**Regimes.** LeaseTakeover has fresh sessions (every claim is a new session, the
client's default), calls that take no time (`MaxCall = 0`) and reads that do not lag.
`OneStandingWinner` needs all three: with a re-used session it is false (section 6),
and with long calls two clients may decide on two sides of the staleness boundary.
`NoFalseLoss` needs fresh sessions, and `BeatRefreshes` reads that do not lag, whatever
calls take; the theorems of section 4 say exactly what each rests on.
`ClaimedExclusive` and `OnlyOwnReleaseFrees` need none of it. No run skews the clients'
clocks (`MaxSkew = 0`): what is said of skew rests on the proofs alone.

**Deadlock** is not checked: each bounded run ends where its bounds are used up, and
a merged pull request or a finished task is a proper end.

**Symmetry** is used, in runs without liveness properties only, for sessions, for the two
clients of one login (LeaseRace), and for two workers with a client each, who change
places together (LeaseTakeover).

**Fairness.** `Lease`: the clock advances, a call once begun goes to its next request,
and a *patient* client (an agent that loops over open tasks) claims until it wins;
nobody has to beat or release. `Lifecycle`: additionally the sweep runs again and
again, a started workflow run gets to its end, and a started reconciliation too,
but neither is a person's edit fair. `AgentLoop`: the agent's own round and its
commands under way go on; no workflow has to end, no contributor to push, and the
properties hold all the same because they only speak of what stays green or stays
held. `Contribution`: a command that runs goes to its next request, GitHub makes the fork
it was asked for, and the worker does what the commands' messages say: clears what a
failed setup left, sets up, works, submits. Releases, deletions and kills are not
fair. `Audits` and `Sources` state no liveness. A request that fails is bounded by `MaxEvents`,
so failing for ever is excluded by the bound, not by fairness (`MaxMishaps` in `Contribution`):
with every request failing the loop can do nothing.

## 4. Proofs

All proofs are of the specifications as they stand: any sets of clients, logins,
sessions, commits, runs, any bounds. The only assumptions are the named ones on
constants (`LeaseAssumption`, `PullRequestAssumption`, `AgentLoopAssumption`, ...),
which TLC evaluates in every run, `IssueStates = Issue` (the issue may be changed
to anything) where the label writers are added, and the regime a lease theorem names in
its own ASSUME.

**LeaseArbiterProofs.** `HolderAfterPrefix`: two threads that agree up to comment n but
for their stamps have the same holder after it. `HeldUntilReleased`: a worker that
held after one comment holds after a later one unless its login released between
them. Both go by the well-ordering of the first comment at which they could fail,
because the library's induction theorems cannot be instantiated with these provers.

**LoopProofs.** `LoopIsDecide` is `LoopDecides` for every thread of any length: what
`decide_lease` computes is what `Decide` says. `SupersededIsLost` is `SupersededLost`.
Neither is inductive: the answer is only given at the end. The
invariant `LoopInv` says of each local what it is of the comments read so far. The holder is the
fold's; the superseded list holds exactly the logins that have lost a claim, by their first loss
(`ByFirstLoss`, kept since a comment more moves no first loss, `FirstLossAppend`, `LossesKept`),
and the filter takes out the heir's and keeps the order (`KeptDef`, `WithoutKeeps`);
`latest_by_worker` points at each worker's newest comment; the claim order lists exactly the
claimants (`Listed`), and before each of its entries every worker whose first claim is older
(`ByFirstClaim`). It does not say that the order is sorted or without repetition: the code
appends a claimant of a free lease without a look whether it is there. The first fresh entry is
still the fresh worker that claimed first (`FirstHeir`), which is what makes the loop's search
agree with the declarative one.

**LeaseProofs.** `TypeCorrect` is `TypeOK`, itself inductive. `ClaimExclusion` is
`ClaimedExclusive` for all instances. It is not inductive: it says nothing of what a
winner's claim rests on. The strengthening is `WinsHeld`: every win that was told
*claimed* is the fold's holder after the prefix it read, still, in the current
thread. That is preserved since a step changes no comment but its stamp
(`ThreadExtended`), to which `HolderAfterPrefix` applies; and two such wins of
different workers have a release between them by `HeldUntilReleased`. Lag, skew,
failures and staleness are all in the model and in none of the steps of this
argument: the lock is the order of the comments. `HolderSecure` is
`OnlyOwnReleaseFrees`, an action property, from the same lemmas, and `ReleasesFree` is
`ReleaseFrees`: the fold gives the lease to no session of a login whose release is the last
comment, so only another login's claim gone stale can still name one, as its heir.

Its second half is about what a worker may rely on. `WrittenBeatsCount` is `BeatRefreshes`,
where reads do not lag. Between the read that picks a comment and the write that edits it, only
the beating client may comment under its worker's name. So `BeatInv` says that no two clients
share a session (`Apart`: a new session is on no thread, call or workspace), that nobody claims
without one (`ClaimsNamed`), so that no lease is held without one either (`HolderNamed`), and
that a beat about to be written aims at its worker's newest comment (`BeatAimed`).

`LossesAreTrue` is `NoFalseLoss`, under four named conditions: a login per
client (`Alone`), a session per claim (`Minting`), reads that do not lag (`Current`), clocks
that differ by no more than the staleness window (`Close`). Calls may take any time. The
property is not inductive, since a loser's claim is on the thread and a later release
might make room for it. The strengthening is that it never *was* and never becomes the
holder (`NeverHeld`): the fold gives the lease only at a claim comment, and when the loser
re-read, its claim was its login's last word and fresh (`JustClaimed`), so that it would
have been told WON had it held the lease (`ClaimedOrNever`). It is the fold's holder the
theorem speaks of: `decide_lease` may still name the loser as heir once the holder has gone
stale, and the property's second half says that this is the only way.

`OneWinnerStands` is `OneStandingWinner`, under `Minting`, `Current` and
`AtOnce` (calls take no time, clocks agree); logins may have several clients. The
invariant is `Stands`: a win that is fresh and unreleased is the lease of this instant,
hence of one worker. It is kept because a call moves the lease in three ways only
(`LeaseMoves`): not at all (`Quiet`), where there was none (`Taken`), or by the release of
the fold's holder (`Freed`), which cannot take it from an heir of another login
(`ReleasesOwn`); because nobody who went stale comes back while its session's lease is
passed on (`BeatsFresh`, `Unclaimed`); and because time only makes workers stale
(`StaleStays`, `LeaseOutlasts`).

The last part of LeaseProofs is about `Lifecycle`, the protocol beside the label writers.
`Refinement`: `LifeSpec => ImplementsLease`. Each label edit is a
`Relabel` or a stutter; that its result is a set of labels needs `WorkOK`, that the
edits a half-done intake run still has are edits of labels. `LifecycleClaimExclusion`
carries `ClaimExclusion` over. `AlwaysOnBoard` is `NeverUnlabelled`, by `OnBoard`: a
half-done intake run that has only a removal left has written the label that stays.
`LifecycleTypeCorrect` is `LifeTypeOK`; its counters need `Bounds`.

**MergeProofs.** `OneVerdict` and `NearMissIsSound` are facts about the registry, for any
reading. `UnforcedMergeVouched` and `ForcedMergeOnTrail` follow from `GateInv`: a commit
that stands well is in `vouched` (every step that moves a run records it); an
unforced call at its merge request has a vouched commit, since the preflight
accepted a reading of it and `AcceptedStandsWell` leads from a reading back to the
runs; a forced call has its comment in hand, then on the pull request, and if that
names nothing overridden then the reading would have been accepted
(`NothingOverridden`); the merge is pinned to the call's commit. What the head, the
runs and the state of the pull request do in between is in none of these
conjuncts. `HeldReleasedOnlyByApproval` rests on `HeldInv`: only a first-time
contributor's runs are held, and the list being approved is of one commit.
`LoopMergesVouched` shows that the agent's loop, each of whose steps is one of
`PullRequest`'s or none, keeps the same invariant. `LandedMergesReported` is
`LandingReported`, from no more than that a failed request is counted (`EventsOK`).
`SeedsAreSound` is `NoTrustSeed`: the failed checks salvage reads are the red ones of the
commit (`FailedRed`), `NearMissIsSound` says which sets it may call a near miss, and
`NearMissNamed` that one with a red comparator holds a red quality check.

**ContributionProofs.** `FreshWork`, `OwnWork`, `ContributionTypeCorrect` and
`PublicationRefinement` (`CSpec => ImplementsPublication`) follow from `CInv`. None of the
three is inductive. That a workspace holds its own attempt needs `BornHere`, of
directories without a lease as well: a killed setup leaves one. That attempts stay
in their type needs `AttemptsOK`: a slot whose directory nobody tends has paid a mishap
for every attempt, so the bound on mishaps bounds attempts (`StepKinds` splits the steps
into those on the machine and those on GitHub, and what each may cost). That the
reported pull request is one's own needs that pull requests are never removed and never
change their head (`PullRequestsStay`). The refinement needs `OneOpen` (a head has one open
pull request, so counting them is 0 or 1), `Reported` (a process past its push knows a
branch that is there) and `Told`; then each of push, open, close and announce is the
abstract step of its name, or a stutter when the slot is another worker's
(`PushRefines`, `OpenRefines`, `CloseRefines`, `AnnounceRefines`), and nothing else touches what
is mapped.

**AuditsProofs.** Every property of the run, for any files, names, trees, edits and settings
and any number of renames, moves of main and failed reads. `AnswersDeserved` is the invariant
they share: `AuditsInv` says that a pass no failed read has brought about is the one the present
trees deserve (`Deserved`, `Faultless`; a draft has no answers yet, `Drafted`), and that neither
main nor a base has a file that the fork point lacks (`NothingNew`). It is needed because exits
are given at one time and used at another: `ExitKept` shows that main's moves, the only steps
between that leave them standing, change nothing a job reads.

- `MergesKeepStatements` is `StatementsKept`: an untouched name's declarations are copied by the
  merge unless main moved them (`UntouchedSurvives`), and where `Misread` is false the audit
  compared with the base of the right file (`ReadsHome`).
- `MergesAddNoDebt` is `DebtBounded`. Each file's count did not grow, so its debts in the head can
  be mapped one to one into its debts at the base; the declarations main did not move carry
  these maps to the whole trees, the others are counted, and the union is an injection of the
  merged tree's debts into main's and `MovedSinceFork`.
- `MergedTargetsProved` is `TargetProved`: the comparator saw the target, and what its proof
  rests on, in the head; where main moved neither the target nor a cited name the merge takes
  them from there (`MergeKeepsHead`) and cites no more (`MergeRests`).
- `HonestPassesAudits` is `HonestWorkPasses`, audit by audit, the comparator's only where the
  proof leans on none of main's debt (`LeansOnDebt`): honest slots hold no debt
  (`HonestAddsNothing`), honest names are untouched (`HonestUntouched`), and the extractor ends
  at the same declaration on both sides (`HonestEquivalent`). `First` exists because a place
  tells the names of one segment apart (`FirstFound`, by the least place).
- `ReportCoversMerge` is `ReportCovers`: the checkout and the merge differ in what main moved
  since the base only, so a statement new to main is in the checkout, in a file that
  differs from the base, and has no equal there.

`Origin` is a recursive function of the renames; that it meets its equation is proved
(`OriginDef`), and what is false of some number of renames is so of a least one.

**SourcesProofs.** For texts of any length, from `KitsAssumption` alone. `TextsTracked` is the
invariant, `StrayInv`: only a Rocq text of free tokens strays, and until it does `TextInv` holds
(`TextsRead` says that texts of scopes and statements always have it): along the text there are
functions that say where the lexer is after each token, how
deep and whether the next token is escaped (`Track`), they end in the author's mode, and the
labels are what they say (`Tracked`); the mode itself is of one thing at a time (`ModeOK`).
`BlankedComments` is `CommentsBlanked`, and without its exception for Lean and Isabelle. The
scanner's jumps are compared with that way through the
text: where the lexer is in code the jump of `Lexeme` ends where the lexer is in code
again, and in between it is where the jump says (`SpanRead`, from `NestSpan`, `StringSpan`,
`LineSpan`: a comment that never closes and a string that never ends included), so the blanked set
is right from every start, by the last start that could be wrong (`StripIs`).
`ContinuationsInside` is `ContinuationInside`: the walk over the blanked text stands in a string
or a cartouche exactly where the lexer does (`AgreeAll`). They may differ on an escape at the
end of a line, which `_scan_line` forgets, and the token after it is a line break (`AgreeStep`).
`BlankersAgreeing` is `BlankersAgree`. Isabelle's own blanker carries the cartouche depth along,
and that depth is the lexer's at every position it looks at (`Stands`, `IsaStep`): a marginal
comment is left as deep as it was entered (`CartoucheRun`), one that stands inside it ends no
later (`InnerEnd`, `MarginalInside`), so that no mark jumped over adds to what is blanked
(`LeapRead`, `LeapsIs`). That each recursive function over positions exists and meets its
equation is proved (`StepDef`, `JumpDef`, `LeapDef`), by the least or the last position.

`KeysAgreeing` is `KeysAgree`: each declaration is given the scopes it stands in. Its inductive
invariant is `ScopesStanding` (`ScopeInv`) with `TextsRead`, because the keys alone say
nothing of what the next line will be given: the text is whole lines (`Whole`, `Closed`) whose
reading (`Read`) is a cartouche depth and a set of open scopes after every position, the walk's
stack at the end is the author's scopes one by one, those that add no name included (`Img`,
`Standing`), and only Isabelle has an opener that waits for its `begin`. One phrase more leaves
what was read as it is and adds the reading of the phrase alone, moved to where it stands
(`ReadMore`, `LineMoves`): so a step is a fact about one line (`OpenerDoes`, `CloserDoes`,
`OtherDoes`) and about prose, which is skipped whatever it says (`ProseMore`). Rocq needs one
thing more, that no section stands in a scope of its name (`Apart`): a closer pops the topmost
entry of its name, and a section's entry has none. That `qualify_by_scope` computes this reading
is `ScopeKeysIs`, and that the lines it skips are those that begin in a cartouche `ReadHeads`.

**StatementsProofs.** `StatementsKept` is `StatementKept` for the three languages. Its
hypothesis `Quiet` asks something of the tokens the author may write; all statement files of the
run are so. In Rocq and Lean none reads like a command, because a line of a string or comment
that begins with one ends the span or looks like the declaration, and in Rocq none is a
backslash, which the blanker takes for an escape and the sentence scanner does not. In Isabelle
none is the mark of a marginal comment, whose words the lexer of the model keeps and the
extractor blanks (TLC shows `StatementKept` false with such a mark), and none opens or ends a
scope. Five invariants carry it. `StatementsShaped` (`ShapeInv`) is what the text is: a name,
the statement up to a place, what ended it, the proof up to another place, at most one command
after it. `RocqSaid` (`RocqInv`) says that no period of Rocq's statement is code and no quote
stands in its comments, `LeanCounted` (`LeanInv`) that some count of brackets along the text
explains each mark of Lean's statement that could end it, and ends at zero, `IsabelleSaid`
(`IsabelleInv`) that the words that end an Isabelle statement are never code inside it.
`TextsRead` is the fifth. The argument has one part for all provers: the span is a prefix of the
text that holds the statement and its end, cut at the end of a line (`SpanIs`); a text with
another word has the same lines, the same way of the lexer and so the same span
(`RewordedTrack`, `RewordedSpan`); if the extractor takes the same prefix of both with comments
blanked (`Takes`), up to the statement's end, the comparison sees the word exactly if it stands
in that prefix (`KeptBy`; `VerdictSeen` counts what normalisation leaves before it). And it has
one part for each. Rocq's scanner is in code where the lexer is (`SentenceIs`). Lean's stops at
the author's mark, or at the bar of his alternatives, and at nothing before it (`SignatureIs`).
Isabelle's walks over a second blanking, of the span alone: its way, its comments and its lines
there are those it has in the text (`IsaWalks`, `LinesCut`), another word moves no place where a
header may break off (`BreaksSame`), outside the misread shapes (`PlainIsabelle`) the header
reaches the end of the statement (`HeaderReaches`), and it ends there or with the line break
after it (`HeaderStops`). As long as the statement has no end the extractor finds none, and then
the whole spans are compared.

**Only model-checked.** Liveness (`RaceDecided`, `AbandonedTaskTaken`, `LabelsCatchUp`,
`GreenMerged`, `HeldReleased`, `WorkspaceComes`, `WorkPublished`): TLAPS does not do fairness.
`StatementKept` for files that are not `Quiet` (the run has none).
tlapm can expand neither `SelectSeq` nor its recursive
definition. So the walk over scopes is over all positions instead of over the lines in
order, what normalisation keeps is a set of tokens with their places, the loop's filter
(`Without`) is a recursive function of its own, and the one `SelectSeq` there is (`Given`) is
never expanded in a proof: both sides filter the same names.

## 5. Abstractions to know of

- Text is never modelled: comments, bodies and check names are the records they
  parse to; a body may also be one that does not parse.
- A rerun, and a push back to an old commit, put a run's new result in the place of
  its old one. The rollup of a commit GitHub reports can hold both for a while.
- Mergeability, conflicts, branch protection and the base branch are left out;
  `merge_pr` reads none of them.
- `vouched` is about one instant. `View` is one too: a `gh pr view` is one request.
- The poller's half about tasks is left out of `Snapshot`; it can only wake it earlier.
- In `AgentLoop`, salvage acts on the reading in which it found the failures.
- A branch is the attempt that began it and a number of commits; a commit's content
  and the base it was pinned to are left out, and so are the build and its caches.
- The store's lock makes `create_worktree` one step; within it a failure may come
  before the branch is made or after.
- In `Audits` the jobs of one push finish at once: they share nothing but its trees. A
  file's imports, options and comments are not in the model, nor are macros that
  declare; the merge is per declaration where git's is per line.
- `sorry`, axioms and classical choice are facts about a body, one to a declaration, where
  `sorry_delta.py:84-86` counts every occurrence of a placeholder; what `comparator` builds
  and replays is its verdict on the two trees. The proofs that cite cite the names of `Cited`,
  whose own proofs cite nothing.
- A token stands for what a regular expression of the profile matches there; the
  overlap of `(*` and `*)` in `(*)` is abstracted away. Strings inside Rocq comments, and a
  backslash in a Rocq string, are read differently by the scanner and by Rocq. The texts of
  free tokens hold both, and `CommentsBlanked` excepts the texts in which they matter; the
  statements the author writes hold neither.
- `pending_approvals` lists up to 100 runs; the model lists all of them.
- A trust report probes at most 50 declarations; the model probes all. A name is written
  inside its namespace, never with its path (`theorem A.b` at the top). Two declarations
  the extractor does not delimit are compared by their first lines, as `changed_decls.py:258`
  does (`RawLine`); which statements share one is the constant `FirstLine`.

## 6. Where the documentation and the code differ

Two disagreements have a run of their own, whose property TLC refutes:

- *AuditsRename.* `detect_rename` (`base_contents.py:80`) reads the log newest first and
  returns at the first rename. A file renamed twice leads to its middle name, which the
  base does not have; `statement_immutability` then compares with an empty base and
  passes an edited statement. The CLI says it resolves "the pre-rename name, if any, so
  the file's real base declarations are read from where they actually live".
- *SourcesLet.* Lean's extractor (`lean4.py:384`) ends the signature at the first `:=` at
  bracket depth zero, also that of a `let x := e;` inside the statement. What follows is
  not compared. `StatementSeen` is refuted; `StatementKept` holds where no such shape
  occurs (`Plain` names them all).

Seven more are kept as definitions, which TLC refutes when a configuration states them
(`ReleaseAlwaysFrees` and `NoRepeatedAck` as PROPERTY, the others as INVARIANT):

| Property | Configuration | What differs |
|---|---|---|
| `OneStandingWinner` | LeaseTakeover with `ReuseSession = TRUE` | `decide_lease` calls a re-claim by the holder harmless. It also refreshes a holder that had gone stale after its lease was passed on: two winners (`lease_arbiter.py:176`). |
| `ReleaseAlwaysFrees` | LeaseTakeover | "frees the lease the moment the holder's release comment lands" - not if that holder is the heir of a stale claimant (`lease_arbiter.py:188`); `ReleaseFrees` excepts that. |
| `CmdHeartbeatBeats` | LeaseRace | `choir heartbeat` passes no session, so no lease won by `choir claim` is ever its own (`cli.py:317`). |
| `SingleStateLabel` | Lifecycle | "exactly one lifecycle label at a time" fails between the sweep's listing and its edit (`leases.py:131`). |
| `HonestProofsPass` | Audits | an honest proof that cites an axiom main has had all along, or a lemma still to be proved, is refused by the comparator: "the net_zero false-reject caveat" (`comparator.py:229-230`). `HonestWorkPasses` excepts it (`LeansOnDebt`). |
| `CommentsRead` | Sources | "a comment marker inside a string isn't treated as a comment" - it is where the string stands in a comment (`scan.py:96-121`): after `(* " (* " *)` the rest of a Rocq file is blank. `CommentsBlanked` excepts it (`strayed`). |
| `NoRepeatedAck` | Lifecycle | `jq '.should_post_comment // true'` is true also when the field is false (`issue-intake.yml:90`). |

And seen in the model without a property of its own:

- `_merge` prints `"merged": false` with exit 0 for every failure inside `merge_pr`, also
  when a merge landed and its answer was lost (`Land`); `LandingReported` is therefore
  about calls none of whose requests fails.
- After a release and a new claim the fork still has the earlier attempt's branch, and
  the push, which is not forced, is refused for good (`Behind`); the notice of
  `workspace.py:297` says submit will push. `WorkPublished` names this exception.
- The advice of a failed setup (`cli.py:203`), to claim again, meets the worker's own lease
  of the earlier session. `cmd_submit` does not catch `ForkError`.
- A failed setup may leave the store's branch behind; every later setup of that task is
  then a full clone (`CanAdd`).
- A worker deletes a file's declarations, writes a new file and renames it to the first
  one's path: `detect_rename` follows the rename although the base has the path
  (`statement_immutability_cli.py:112-127` asks for a rename first, unlike
  `fetch_base_contents`), and compares with a file the base lacks: `Misread`. With Audits'
  bounds TLC refutes `StatementsReachHead` so too.
- Main changes a declaration, the base is recorded, main takes the change back: the branch,
  which has main's new text as an edit of its own, passes and merges it (`Churned`; TLC shows it
  with `MaxMoves = 2` and `MaxRenames = 0`).
- The base of the audits is main's tip as GitHub recorded it, not the merge base: a
  declaration new on main reads as deleted until the branch is rebased. A git failure
  reads as an empty file, and a failed rename lookup as no rename: `blind` marks where
  that changes an answer, and the properties except it.
- Honest work is red where a name is declared twice, where a statement cannot be
  extracted, or where a file with an old `sorry` is renamed (`Honest` names these), and where a
  proof leans on main's debt (`LeansOnDebt`).
- `comparator` and `statement_equiv` judge the first closing reference only, and an edit of
  the pull request's body starts no audit; a malformed `verify.toml` falls back to the
  net-zero policy, which is looser than a whitelist.
- Lean's `extract_lean_statement` (`lean4.py:414-438`) takes the first declaration of the
  last name segment, whatever its namespace, although its comment says it prefers the
  qualified name. With an `A.c` before a `B.c`, `statement_equiv` for `B.c` compares `A.c`:
  it refuses honest work that adds `A.c`, and passes an edited `B.c`; and a re-stated `B.c` is
  no target of the trust report. `ReportCovers` and `Honest` name the exception. The report
  probes what is new or re-stated, so a proof filled in is never probed.
- Where reads lag, a client that misses its own heartbeat posts a second one, and edits
  the first when a later read misses that: its freshness does not move. LeaseTakeover
  with `ReplicaLag = 1` shows it of `BeatRefreshes`.
- Isabelle's header scan stops at a line that begins with a proof command, or a blank
  line after a quote, without asking whether it stands inside a string or cartouche
  (`isabelle.py:1251-1267`; `PlainIsabelle`).

## 7. Not modelled, and why

*Close on merge* edits three labels and closes the issue, each request `|| true`. It was
composed with `Lifecycle`, whose sweep, intake and reconciliation write the same labels,
and passed 1.1 million states without an end in sight; what could go wrong (only a
close that fails lets a sweep offer the merged task again) is a hazard in PROJECT.json
without a property. Style, the probes of a trust report and what the provers' own tools
do inside are subprocess calls for a human reader. `build_store.py` and `mathlib_cache.py` have no
caller in the repository. The parser of task records is text to record. Inventory,
indexer, metrics, status and scripts only read. Protocol fingerprint and upgrade are
release tooling; `Lease` has the pin that a claim checks. The Lean sources are
mathematics.

## 8. Plan

What remains, in this order:

1. `OneStandingWinner` for calls that take time, but less than the staleness window.
2. Close on merge, with an issue that closes and a smaller `Lifecycle` beside it.
3. `parse_issue_body` and the task record as scanners over tokens, in the manner of
   `Sources`.
