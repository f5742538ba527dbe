------------------------------- MODULE Checks -------------------------------
(***************************************************************************)
(* The registry of gate checks (gate/checks.py) and what a pull request's  *)
(* checks say (orchestrator/prs.py, orchestrator/poll.py,                  *)
(* orchestrator/cli.py, orchestrator/salvage.py): pure operators over one  *)
(* reading of the checks.                                                  *)
(*                                                                         *)
(* A check is named by the registry key _canonical resolves its name to;   *)
(* every name without one behaves alike and is written Unregistered.       *)
(***************************************************************************)
EXTENDS FiniteSets

Unregistered == "unregistered"
Strict == "none"    \* Python's None: no prover given
Provers == {Strict, "lean4", "isabelle", "rocq"}

TrustChecks == {"statement-equiv", "statement-immutability", "axiom-honesty",
                "sorry-delta", "comparator"}
QualityChecks == {"rebuild", "decide-instance"}
AdvisoryChecks == {"style", "trust-report", "review"}
CheckName == TrustChecks \cup QualityChecks \cup AdvisoryChecks \cup {Unregistered}

\* PROVER_OVERRIDES: the checks a prover moves to advisory.
Relaxed(prover) ==
  CASE prover = "lean4" -> {"statement-equiv"}
    [] prover = "rocq"  -> {"statement-immutability"}
    [] OTHER            -> {}

CheckClass(name, prover) ==
  CASE name \in Relaxed(prover) -> "advisory"
    [] name \in TrustChecks \ Relaxed(prover) -> "trust"
    [] name \in QualityChecks \ Relaxed(prover) -> "quality"
    [] name \in AdvisoryChecks \ Relaxed(prover) -> "advisory"
    [] OTHER -> "unknown"

\* An unknown check blocks.
IsBlocking(name, prover) == CheckClass(name, prover) # "advisory"

REQUIRED_PRESENT == {"rebuild", "statement-equiv", "axiom-honesty", "sorry-delta",
                     "decide-instance", "comparator", "statement-immutability"}

-----------------------------------------------------------------------------
(* One reading of a pull request's checks: a set of CheckResults.          *)

\* _parse_pr: a check run has a status and a conclusion, a legacy commit status
\* neither, but one state.
TERMINAL == {"SUCCESS", "FAILURE", "ERROR"}

ParseCheck(name, raw) ==
  CASE raw.status # "" ->
         [name |-> name, status |-> raw.status, conclusion |-> raw.conclusion]
    [] raw.status = "" /\ raw.state \in TERMINAL ->
         [name |-> name, status |-> "COMPLETED", conclusion |-> raw.state]
    [] OTHER ->
         [name |-> name, status |-> raw.state, conclusion |-> ""]

Green(check) == check.status = "COMPLETED" /\ check.conclusion = "SUCCESS"

BlockingFailures(view, prover) ==
  {c.name : c \in {d \in view : IsBlocking(d.name, prover) /\ ~Green(d)}}

PendingBlocking(view, prover) ==
  {c.name : c \in {d \in view : IsBlocking(d.name, prover) /\ d.status # "COMPLETED"}}

MissingRequired(view) == REQUIRED_PRESENT \ {c.name : c \in view}

\* merge_pr's preflight, without force.
Accepts(view, prover) ==
  /\ view # {}
  /\ MissingRequired(view) = {}
  /\ BlockingFailures(view, prover) = {}

\* What an override's comment says was overridden: what never ran and what
\* counts and is not green.
Override(sha, view, prover) ==
  [sha |-> sha, overridden |-> MissingRequired(view) \cup BlockingFailures(view, prover)]

\* Mutation: red when anything at all is not green, advisory checks too.
MutAllGreen(view, prover) ==
  CASE PendingBlocking(view, prover) # {} -> "pending"
    [] /\ PendingBlocking(view, prover) = {}
       /\ (\E c \in view : ~Green(c)) \/ MissingRequired(view) # {} -> "red"
    [] OTHER -> "green"

\* The poller's _checks_state.
ChecksState(view, prover) ==
  CASE PendingBlocking(view, prover) # {} -> "pending"
    [] /\ PendingBlocking(view, prover) = {}
       /\ BlockingFailures(view, prover) # {} \/ MissingRequired(view) # {} -> "red"
    [] OTHER -> "green"

\* mergeable_now of `choir orch prs`.
MergeableNow(view, prover) ==
  /\ BlockingFailures(view, prover) = {}
  /\ MissingRequired(view) = {}
  /\ PendingBlocking(view, prover) = {}

-----------------------------------------------------------------------------
(* Salvage: may a red tree seed the next attempt?                          *)

SALVAGE_OPAQUE == {"comparator"}

FailedChecks(view) ==
  {c.name : c \in {d \in view : d.status = "COMPLETED" /\ ~Green(d)}}

\* Mutation: what lean4 relaxes for merging is relaxed here as well.
MutRelaxed(failed) ==
  IF \A n \in failed \ SALVAGE_OPAQUE : CheckClass(n, "lean4") \in {"quality", "advisory"}
    THEN "near_miss" ELSE "trust"

\* classify_failure, over the names of the failed checks; always strict.
ClassifyFailure(failed) ==
  LET blocking == {n \in failed : IsBlocking(n, Strict)}
      readable == blocking \ SALVAGE_OPAQUE
  IN  IF blocking = {} THEN "near_miss"
      ELSE IF readable = {} THEN "trust"
      ELSE IF \A n \in readable : CheckClass(n, Strict) = "quality" THEN "near_miss"
      ELSE "trust"
=============================================================================
