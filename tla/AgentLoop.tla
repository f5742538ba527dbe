----------------------------- MODULE AgentLoop ------------------------------
(***************************************************************************)
(* The orchestrator's loop around one pull request: survey it (prs), merge *)
(* what is mergeable, approve the runs that are held, salvage a near miss, *)
(* then let the poller (orchestrator/poll.py) wait for a change and start  *)
(* again.  The loop is one agent's; its decisions are its own, but it      *)
(* merges what it finds mergeable and approves what it finds held.         *)
(***************************************************************************)
EXTENDS PullRequest

CONSTANTS
  PollProver,  \* the prover the poller is given, Strict if none
  MaxWait      \* max_wait, in intervals

ASSUME AgentLoopAssumption ==
  /\ "agent" \in Caller
  /\ PollProver \in Provers
  /\ MaxWait \in Nat \ {0}

VARIABLES
  loop,      \* what the agent does next
  baseline,  \* the poller's baseline
  waited,    \* the intervals it has slept
  seeds      \* the commits salvage tasks were opened from

loopVars == <<loop, baseline, waited, seeds>>
agentVars == <<prVars, loopVars>>

NoSnapshot == <<>>

\* fetch_snapshot, of this pull request.
Snapshot ==
  IF prState = "open" THEN <<head, ChecksState(View(head), PollProver)>> ELSE NoSnapshot

LoopInit ==
  /\ Init
  /\ loop = "survey"
  /\ baseline = NoSnapshot
  /\ waited = 0
  /\ seeds = {}

Turn(step) == loop' = step /\ UNCHANGED <<baseline, waited>>

-----------------------------------------------------------------------------
(* One round of the agent.                                                 *)

\* prs: merge what is mergeable now.
SurveyMergeable ==
  /\ loop = "survey"
  /\ prState = "open"
  /\ MergeableNow(View(head), Prover)
  /\ Turn("merge")
  /\ UNCHANGED <<prVars, seeds>>

\* pending-approvals, then approve-runs for the head it saw.
SurveyHeld ==
  /\ loop = "survey"
  /\ prState = "open"
  /\ ListHeld(head)
  /\ Turn("poll")
  /\ UNCHANGED seeds

\* A red pull request whose failures are a near miss: open a task seeded with
\* its head.  The command works on the names and the commit it is given.
Salvage ==
  /\ loop = "survey"
  /\ prState = "open"
  /\ MissingRequired(View(head)) = {}
  /\ ChecksState(View(head), Prover) = "red"
  /\ ClassifyFailure(FailedChecks(View(head))) = "near_miss"
  /\ seeds' = seeds \cup {head}
  /\ Turn("close")
  /\ UNCHANGED prVars

\* Nothing to do, or a request fails: on to the poller.
SurveyNothing ==
  /\ loop = "survey"
  /\ \/ /\ prState # "open" \/ ~MergeableNow(View(head), Prover)
        /\ prState # "open" \/ \A r \in Run : progress[head][r] # "held"
        /\ UNCHANGED prVars
     \/ FailedRead
  /\ Turn("poll")
  /\ UNCHANGED seeds

StartMerge ==
  /\ loop = "merge"
  /\ Resolve("agent")
  /\ Turn("poll")
  /\ UNCHANGED seeds

CloseSalvaged ==
  /\ loop = "close"
  /\ IF prState = "open" THEN Close ELSE UNCHANGED prVars
  /\ Turn("poll")
  /\ UNCHANGED seeds

-----------------------------------------------------------------------------
(* The poller.                                                             *)

\* The commands of this round are over.
AtPrompt == call["agent"] = Idle /\ approving = NotApproving

\* The baseline, or exit 2.
PollStart ==
  /\ loop = "poll"
  /\ AtPrompt
  /\ \/ /\ baseline' = Snapshot
        /\ waited' = 0
        /\ loop' = "wait"
        /\ UNCHANGED prVars
     \/ FailedRead /\ loop' = "survey" /\ UNCHANGED <<baseline, waited>>
  /\ UNCHANGED seeds

\* Mutation: the baseline outlives the poll.
MutKeepBaseline ==
  /\ loop' = "survey"
  /\ waited' = 0
  /\ UNCHANGED baseline

Exit ==
  /\ loop' = "survey"
  /\ baseline' = NoSnapshot
  /\ waited' = 0

\* Mutation: the time slept is not counted: it waits for a change for good.
MutNoClock == UNCHANGED <<loop, baseline, waited>>

Wait ==
  /\ waited' = waited + 1
  /\ UNCHANGED <<loop, baseline>>

TimeUp(n) == n >= MaxWait

\* One interval later: a change (exit 0), time up (exit 3), or sleep again.  A
\* fetch that fails is no change.
PollTick ==
  /\ loop = "wait"
  /\ \/ Snapshot # baseline /\ Exit /\ UNCHANGED prVars
     \/ Snapshot = baseline /\ TimeUp(waited + 1) /\ Exit /\ UNCHANGED prVars
     \/ Snapshot = baseline /\ ~TimeUp(waited + 1) /\ Wait /\ UNCHANGED prVars
     \/ FailedRead /\ IF TimeUp(waited + 1) THEN Exit ELSE Wait
  /\ UNCHANGED seeds

-----------------------------------------------------------------------------
\* The agent's merge call and approvals under way, and everybody else.
Command ==
  /\ \/ Preflight("agent") \/ Land("agent") \/ NotLand("agent")
     \/ ApproveOne
  /\ UNCHANGED loopVars

Others ==
  /\ \/ \E c \in Commit : Push(c)
     \/ \E c \in Commit, r \in Run : Report(c, r) \/ Rerun(c, r)
     \/ Open \/ Close \/ Reopen
     \/ \E c \in Caller \ {"agent"} : Merging(c)
  /\ UNCHANGED loopVars

Round ==
  \/ SurveyMergeable \/ SurveyHeld \/ Salvage \/ SurveyNothing
  \/ StartMerge \/ CloseSalvaged \/ PollStart \/ PollTick

LoopNext == Round \/ Command \/ Others

LoopSpec == LoopInit /\ [][LoopNext]_agentVars

\* The agent's loop and its commands go on; nobody else need do anything.
LoopFairness == WF_agentVars(Round) /\ WF_agentVars(Command)

LoopLiveSpec == LoopSpec /\ LoopFairness

-----------------------------------------------------------------------------
(* Properties.                                                             *)

\* The loop's own variables have their shape.
LoopTypeOK ==
  /\ PRTypeOK
  /\ loop \in {"survey", "merge", "close", "poll", "wait"}
  /\ waited < MaxWait
  /\ loop = "wait" \/ baseline = NoSnapshot
  /\ seeds \subseteq Commit

\* What the survey, the poller and the merge preflight say of one reading agree,
\* for every prover, and a prover only ever relaxes (poll.py: "the same predicates
\* merge_pr's preflight uses").
VerdictsAgree ==
  LET view == View(head) IN
  \A p \in Provers :
    /\ ChecksState(view, p) = "green" <=> Accepts(view, p)
    /\ MergeableNow(view, p) <=> Accepts(view, p)
    /\ Accepts(view, Strict) => Accepts(view, p)

\* A pull request that stands as merge_pr wants it does not stay open for good:
\* the loop merges it, although a change between the survey and the poller's
\* baseline wakes nobody and the poller may read checks strictly.
GreenMerged ==
  \A c \in Commit :
    ~<>[](prState = "open" /\ head = c /\ Accepts(View(c), Prover))

\* A newcomer's contribution does not stall: the runs GitHub holds on a head
\* that stays are released ("the first contribution from every new contributor
\* silently stalls").
HeldReleased ==
  \A c \in Commit :
    ~<>[](prState = "open" /\ head = c /\ \E r \in Run : progress[c][r] = "held")

\* The checks that have failed on a tree.
Red(c) == UNION {ChecksOf[r] : r \in {x \in Run : progress[c][x] = "failure"}}

\* A tree is never the start of the next attempt while a check that says the tree
\* is unsound has failed on it, also one the prover relaxes for merging, nor one
\* nobody knows; and a comparator's failure, which may be either, is excused only
\* by a failure that names what is to be fixed (classify_failure: "a trust failure
\* never becomes a seed").
NoTrustSeed ==
  [][\A c \in seeds' \ seeds :
       /\ Red(c) \cap ((TrustChecks \ SALVAGE_OPAQUE) \cup {Unregistered}) = {}
       /\ Red(c) \cap SALVAGE_OPAQUE # {} => Red(c) \cap QualityChecks # {}]_agentVars
=============================================================================
