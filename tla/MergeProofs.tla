----------------------------- MODULE MergeProofs ----------------------------
(***************************************************************************)
(* What lands is what was judged: the merge gate's safety for any commits, *)
(* workflows, callers and prover, and the agreement of the three readings  *)
(* of a pull request's checks.                                             *)
(***************************************************************************)
EXTENDS AgentLoop, TLAPS

-----------------------------------------------------------------------------
(* The registry and the verdicts, for every reading.                       *)

\* A prover only ever relaxes: what blocks for it blocks when none is given.
LEMMA OnlyRelaxed ==
  ASSUME NEW n, NEW p, IsBlocking(n, p)
  PROVE  IsBlocking(n, Strict)
BY DEF IsBlocking, CheckClass, Relaxed, Strict, TrustChecks, QualityChecks, AdvisoryChecks

LEMMA BlocksUnlessAdvisory ==
  ASSUME NEW n, NEW p, n \notin AdvisoryChecks, n \notin Relaxed(p)
  PROVE  IsBlocking(n, p)
BY DEF IsBlocking, CheckClass

\* A check that has not completed counts as a failure as well.
LEMMA PendingFails ==
  ASSUME NEW view, NEW p
  PROVE  PendingBlocking(view, p) \subseteq BlockingFailures(view, p)
BY DEF PendingBlocking, BlockingFailures, Green

\* A reading in which nothing required is missing is not an empty one.
LEMMA NothingMissing ==
  ASSUME NEW view, MissingRequired(view) = {}
  PROVE  view # {}
<1>1. "rebuild" \in {c.name : c \in view}
  BY DEF MissingRequired, REQUIRED_PRESENT
<1>2. QED
  BY <1>1

LEMMA SameVerdict ==
  ASSUME NEW view, NEW p
  PROVE  /\ ChecksState(view, p) = "green" <=> Accepts(view, p)
         /\ MergeableNow(view, p) <=> Accepts(view, p)
         /\ Accepts(view, Strict) => Accepts(view, p)
<1>1. Accepts(view, p) <=> MissingRequired(view) = {} /\ BlockingFailures(view, p) = {}
  BY NothingMissing DEF Accepts
<1>2. PendingBlocking(view, p) \subseteq BlockingFailures(view, p)
  BY PendingFails
<1>3. MergeableNow(view, p) <=> Accepts(view, p)
  BY <1>1, <1>2 DEF MergeableNow
<1>4. ChecksState(view, p) = "green" <=> Accepts(view, p)
  BY <1>1, <1>2 DEF ChecksState
<1>5. BlockingFailures(view, p) \subseteq BlockingFailures(view, Strict)
  BY OnlyRelaxed DEF BlockingFailures
<1>6. Accepts(view, Strict) => Accepts(view, p)
  BY <1>5 DEF Accepts
<1>7. QED
  BY <1>3, <1>4, <1>6

\* In every state the poller's "green", the survey's mergeable_now and merge_pr's
\* preflight are one verdict for every prover, and no prover refuses what the
\* strict reading accepts (poll.py _checks_state, cli.py _pr_payload, prs.py).
THEOREM OneVerdict == LoopSpec => []VerdictsAgree
<1>1. VerdictsAgree
  BY SameVerdict DEF VerdictsAgree
<1>2. QED
  BY <1>1, PTL

\* classify_failure never calls a failure a near miss when a check that says the
\* tree is unsound, relaxed for merging or not, or one nobody registered, failed.
THEOREM NearMissIsSound ==
  ASSUME NEW failed, ClassifyFailure(failed) = "near_miss"
  PROVE  \A n \in failed :
           n \in QualityChecks \cup AdvisoryChecks \cup SALVAGE_OPAQUE
<1>1. SUFFICES ASSUME NEW n \in failed, n \notin QualityChecks,
                      n \notin AdvisoryChecks, n \notin SALVAGE_OPAQUE
               PROVE  FALSE
  OBVIOUS
<1>2. Relaxed(Strict) = {}
  BY DEF Relaxed, Strict
<1>3. CheckClass(n, Strict) # "quality" /\ IsBlocking(n, Strict)
  BY <1>1, <1>2 DEF CheckClass, IsBlocking
<1>4. QED
  BY <1>1, <1>3 DEF ClassifyFailure

\* When the failure of an opaque check is called a near miss, a quality check has
\* failed as well.
LEMMA NearMissNamed ==
  ASSUME NEW failed, ClassifyFailure(failed) = "near_miss", failed \cap SALVAGE_OPAQUE # {}
  PROVE  failed \cap QualityChecks # {}
<1> DEFINE blocking == {n \in failed : IsBlocking(n, Strict)}
<1> DEFINE readable == blocking \ SALVAGE_OPAQUE
<1>1. Relaxed(Strict) = {}
  BY DEF Relaxed, Strict
<1>2. blocking # {}
  <2>1. IsBlocking("comparator", Strict)
    BY <1>1 DEF IsBlocking, CheckClass, TrustChecks, QualityChecks, AdvisoryChecks
  <2>2. "comparator" \in failed
    BY DEF SALVAGE_OPAQUE
  <2>3. QED
    BY <2>1, <2>2
<1>3. readable # {} /\ \A n \in readable : CheckClass(n, Strict) = "quality"
  BY <1>2 DEF ClassifyFailure
<1>4. ASSUME NEW n, CheckClass(n, Strict) = "quality" PROVE n \in QualityChecks
  BY <1>1, <1>4 DEF CheckClass
<1>5. QED
  BY <1>3, <1>4

-----------------------------------------------------------------------------
(* From a reading the preflight accepts to checks that stand well.         *)

ProgressOK == progress \in [Commit -> [Run -> Progress]]

LEMMA CheckNamed ==
  ASSUME NEW n, NEW raw
  PROVE  ParseCheck(n, raw).name = n
BY DEF ParseCheck

\* A reported check is green only if its run succeeded.
LEMMA GreenSucceeded ==
  ASSUME NEW n, NEW r, NEW p \in Reporting, Green(ParseCheck(n, Rollup(r, p)))
  PROVE  p = "success"
<1>1. CASE p = "pending"
  BY <1>1 DEF Green, ParseCheck, Rollup, TERMINAL, Conclusion
<1>2. CASE p = "failure"
  BY <1>2 DEF Green, ParseCheck, Rollup, TERMINAL, Conclusion
<1>3. QED
  BY <1>1, <1>2 DEF Reporting

\* What merge_pr's preflight accepts are checks that stand well now.
LEMMA AcceptedStandsWell ==
  ASSUME ProgressOK, NEW c \in Commit, Accepts(View(c), Prover)
  PROVE  WellStanding(c)
<1>1. \A r \in Run : progress[c][r] \in Progress
  BY DEF ProgressOK
<1>2. \A x \in View(c) : \E r \in Run : \E n \in ChecksOf[r] :
        progress[c][r] \in Reporting /\ x = ParseCheck(n, Rollup(r, progress[c][r]))
  BY DEF View
<1>3. ASSUME NEW n \in REQUIRED_PRESENT
      PROVE  \E r \in Run : n \in ChecksOf[r] /\ progress[c][r] \in Reporting
  <2>1. PICK x \in View(c) : x.name = n
    BY <1>3 DEF Accepts, MissingRequired
  <2>2. PICK r \in Run : \E m \in ChecksOf[r] :
          progress[c][r] \in Reporting /\ x = ParseCheck(m, Rollup(r, progress[c][r]))
    BY <1>2, <2>1
  <2>3. n \in ChecksOf[r]
    BY <2>1, <2>2, CheckNamed
  <2>4. QED
    BY <2>2, <2>3
<1>4. ASSUME NEW r \in Run, NEW n \in ChecksOf[r],
             n \notin AdvisoryChecks, n \notin Relaxed(Prover),
             progress[c][r] \in Reporting
      PROVE  progress[c][r] = "success"
  <2> DEFINE x == ParseCheck(n, Rollup(r, progress[c][r]))
  <2>1. x \in View(c)
    BY <1>4 DEF View
  <2>2. x.name = n
    BY CheckNamed
  <2>3. IsBlocking(n, Prover)
    BY <1>4, BlocksUnlessAdvisory
  <2>4. Green(x)
    BY <2>1, <2>2, <2>3 DEF Accepts, BlockingFailures
  <2>5. QED
    BY <1>4, <2>4, GreenSucceeded
<1>5. QED
  BY <1>1, <1>3, <1>4 DEF WellStanding, Progress

\* Nor does anything need an override then.
LEMMA NothingOverridden ==
  ASSUME NEW sha, NEW view, Override(sha, view, Prover).overridden = {}
  PROVE  Accepts(view, Prover)
<1>1. MissingRequired(view) = {} /\ BlockingFailures(view, Prover) = {}
  BY DEF Override
<1>2. QED
  BY <1>1, NothingMissing DEF Accepts

-----------------------------------------------------------------------------
(* The gate's invariant.                                                   *)

\* The history knows the commits that stand well now.
WellStandingVouched == \A c \in Commit : WellStanding(c) => c \in vouched

\* An unforced call leaves no comment; about to merge, it merges what stood well.
JudgedVouched ==
  \A c \in Caller : ~Forces(c) =>
    /\ call[c].step # "comment"
    /\ call[c].step = "merge" => call[c].sha \in vouched

\* n is a comment that accounts for the override of sha.
Accounts(n, sha) == n.sha = sha /\ (sha \notin vouched => n.overridden # {})

\* A forced call has its comment in hand, and then on the pull request.
ForcedAccounted ==
  \A c \in Caller : Forces(c) =>
    /\ call[c].step = "comment" => \E n \in call[c].note : Accounts(n, call[c].sha)
    /\ call[c].step = "merge" => \E n \in trail : Accounts(n, call[c].sha)

GateInv ==
  /\ PRTypeOK
  /\ WellStandingVouched
  /\ JudgedVouched
  /\ ForcedAccounted
  /\ MergedVouched
  /\ OverrideOnTrail

LEMMA OverrideType ==
  ASSUME PRTypeOK, NEW c \in Commit
  PROVE  Override(c, View(c), Prover) \in Note
<1>1. MissingRequired(View(c)) \subseteq CheckName
  BY DEF MissingRequired, REQUIRED_PRESENT, CheckName, TrustChecks, QualityChecks
<1>2. \A x \in View(c) : x.name \in CheckName
  <2>1. \A x \in View(c) : \E r \in Run : \E n \in ChecksOf[r] : x.name = n
    BY CheckNamed DEF View
  <2>2. \A r \in Run : ChecksOf[r] \subseteq CheckName
    BY PullRequestAssumption
  <2>3. QED
    BY <2>1, <2>2
<1>3. BlockingFailures(View(c), Prover) \subseteq CheckName
  BY <1>2 DEF BlockingFailures
<1>4. QED
  BY <1>1, <1>3 DEF Override, Note

LEMMA StartedType ==
  ASSUME PRTypeOK, NEW c \in Commit
  PROVE  /\ Started(c) \in [Run -> Progress]
         /\ Cancelled(c) \in [Run -> Progress]
<1>1. \A r \in Run : progress[c][r] \in Progress
  BY DEF PRTypeOK
<1>2. Cancelled(c) \in [Run -> Progress]
  BY <1>1 DEF Cancelled, Progress, Reporting
<1>3. ASSUME NEW r \in Run
      PROVE  (CASE r \in Context /\ progress[c][r] # "none" -> progress[c][r]
                [] r \notin Context /\ r \notin tree[c] -> "none"
                [] r \notin Context /\ r \in tree[c] /\ firstTime -> "held"
                [] OTHER -> "pending") \in Progress
  BY <1>1 DEF Progress, Reporting
<1>4. QED
  BY <1>2, <1>3 DEF Started

LEMMA InitGate == Init => GateInv
<1>1. SUFFICES ASSUME Init PROVE GateInv
  OBVIOUS
<1>2. \A c \in Commit, r \in Run : progress[c][r] = "none"
  BY <1>1 DEF Init
<1>3. \A c \in Caller : call[c] = Idle /\ call[c].step = "idle"
  BY <1>1 DEF Init, Idle
<1>4. PRTypeOK
  <2>1. head \in Commit /\ sameRepo \in BOOLEAN /\ firstTime \in BOOLEAN
    BY <1>1, PullRequestAssumption DEF Init
  <2>2. progress \in [Commit -> [Run -> Progress]]
    BY <1>1 DEF Init, Progress
  <2>3. call \in [Caller -> [step : {"idle", "read", "comment", "merge"},
                             sha  : Commit \cup {NoCommit}, note : SUBSET Note]]
    BY <1>1 DEF Init, Idle, NoNote
  <2>4. /\ answer \in [by : Caller \cup {"none"}, said : {"none", "merged", "refused", "exit 2"}]
        /\ approving \in [sha : Commit \cup {NoCommit}, todo : SUBSET (Commit \X Run)]
    BY <1>1 DEF Init, NoAnswer, NotApproving
  <2>5. QED
    BY <1>1, <1>3, <2>1, <2>2, <2>3, <2>4 DEF Init, PRTypeOK
<1>5. WellStandingVouched
  BY <1>2 DEF WellStandingVouched, WellStanding, REQUIRED_PRESENT, Reporting
<1>6. landed.by = "none"
  BY <1>1 DEF Init, NoMerge
<1>7. QED
  BY <1>3, <1>4, <1>5, <1>6
  DEF GateInv, JudgedVouched, ForcedAccounted, MergedVouched, OverrideOnTrail

-----------------------------------------------------------------------------
(* The steps of the contributor and of GitHub.                             *)

LEMMA VouchKeeps ==
  ASSUME Vouch
  PROVE  vouched \subseteq vouched' /\ WellStandingVouched'
BY DEF Vouch, WellStandingVouched

LEMMA StillVouched ==
  ASSUME WellStandingVouched, UNCHANGED <<progress, vouched>>
  PROVE  WellStandingVouched'
BY DEF WellStandingVouched, WellStanding

\* None of them touches a merge call, the trail or the merge itself.
LEMMA GitHubKeeps ==
  ASSUME WellStandingVouched, GitHub
  PROVE  /\ UNCHANGED <<call, answer, trail, landed>>
         /\ vouched \subseteq vouched'
         /\ WellStandingVouched'
<1>1. CASE \E c \in Commit : Push(c)
  BY <1>1, VouchKeeps DEF Push
<1>2. CASE \E c \in Commit : ListHeld(c)
  BY <1>2, StillVouched DEF ListHeld
<1>3. CASE \E c \in Commit, r \in Run : Report(c, r)
  BY <1>3, VouchKeeps DEF Report
<1>4. CASE \E c \in Commit, r \in Run : Rerun(c, r)
  BY <1>4, VouchKeeps DEF Rerun
<1>5. CASE Open
  BY <1>5, VouchKeeps DEF Open
<1>6. CASE Close
  BY <1>6, StillVouched DEF Close
<1>7. CASE Reopen
  BY <1>7, VouchKeeps DEF Reopen
<1>8. CASE ApproveOne
  BY <1>8, VouchKeeps DEF ApproveOne
<1>9. CASE FailedRead
  BY <1>9, StillVouched DEF FailedRead
<1>10. QED
  BY <1>1, <1>2, <1>3, <1>4, <1>5, <1>6, <1>7, <1>8, <1>9 DEF GitHub

LEMMA ProgressMoved ==
  ASSUME NEW f \in [Commit -> [Run -> Progress]], NEW c \in Commit, NEW r \in Run,
         NEW p \in Progress
  PROVE  [f EXCEPT ![c][r] = p] \in [Commit -> [Run -> Progress]]
OBVIOUS

LEMMA GitHubType ==
  ASSUME PRTypeOK, GitHub
  PROVE  PRTypeOK'
<1>1. vouched' \subseteq Commit
  BY DEF PRTypeOK, GitHub, Push, ListHeld, Report, Rerun, Open, Close, Reopen,
         ApproveOne, FailedRead, Vouch
<1>2. ASSUME NEW c \in Commit, Push(c)
      PROVE  PRTypeOK'
  <2>1. progress' \in [Commit -> [Run -> Progress]]
    BY <1>2, StartedType DEF Push, PRTypeOK
  <2>2. QED
    BY <1>1, <1>2, <2>1 DEF Push, PRTypeOK
<1>3. ASSUME NEW c \in Commit, ListHeld(c)
      PROVE  PRTypeOK'
  BY <1>3 DEF ListHeld, PRTypeOK
<1>4. ASSUME NEW c \in Commit, NEW r \in Run, Report(c, r) \/ Rerun(c, r)
      PROVE  PRTypeOK'
  <2>1. PICK p \in Progress : progress' = [progress EXCEPT ![c][r] = p]
    BY <1>4 DEF Report, Rerun, Progress, Reporting
  <2>2. progress' \in [Commit -> [Run -> Progress]]
    BY <2>1, ProgressMoved DEF PRTypeOK
  <2>3. QED
    BY <1>1, <1>4, <2>2 DEF Report, Rerun, PRTypeOK
<1>5. ASSUME Open \/ Reopen
      PROVE  PRTypeOK'
  <2>1. progress' \in [Commit -> [Run -> Progress]]
    BY <1>5, StartedType DEF Open, Reopen, PRTypeOK
  <2>2. QED
    BY <1>1, <1>5, <2>1 DEF Open, Reopen, PRTypeOK
<1>6. CASE Close
  BY <1>6 DEF Close, PRTypeOK
<1>7. CASE ApproveOne
  <2>1. PICK x \in approving.todo :
          /\ \/ progress' = progress
             \/ progress' = [progress EXCEPT ![x[1]][x[2]] =
                               IF @ = "held" THEN "pending" ELSE @]
          /\ \/ approving' = NotApproving
             \/ approving' = [approving EXCEPT !.todo = @ \ {x}]
    BY <1>7 DEF ApproveOne
  <2>2. /\ progress \in [Commit -> [Run -> Progress]]
        /\ approving \in [sha : Commit \cup {NoCommit}, todo : SUBSET (Commit \X Run)]
    BY DEF PRTypeOK
  <2>3. x[1] \in Commit /\ x[2] \in Run
    BY <2>2
  <2>4. approving' \in [sha : Commit \cup {NoCommit}, todo : SUBSET (Commit \X Run)]
    BY <2>1, <2>2 DEF NotApproving
  <2>5. progress' \in [Commit -> [Run -> Progress]]
    <3>1. CASE progress' = progress
      BY <3>1 DEF PRTypeOK
    <3>2. CASE progress' # progress
      <4> DEFINE q == IF progress[x[1]][x[2]] = "held" THEN "pending"
                      ELSE progress[x[1]][x[2]]
      <4>1. q \in Progress
        <5>1. progress[x[1]][x[2]] \in Progress
          BY <2>3, <2>2
        <5>2. "pending" \in Progress
          BY DEF Progress, Reporting
        <5>3. QED
          BY <5>1, <5>2
      <4>2. progress' = [progress EXCEPT ![x[1]][x[2]] = q]
        BY <2>1, <3>2
      <4>3. QED
        BY <2>3, <4>1, <4>2, ProgressMoved DEF PRTypeOK
    <3>3. QED
      BY <3>1, <3>2
  <2>6. QED
    BY <1>1, <1>7, <2>4, <2>5 DEF ApproveOne, PRTypeOK
<1>8. CASE FailedRead
  BY <1>8 DEF FailedRead, PRTypeOK
<1>9. QED
  BY <1>2, <1>3, <1>4, <1>5, <1>6, <1>7, <1>8 DEF GitHub

-----------------------------------------------------------------------------
(* The steps of the merge commands.                                        *)

CallType == [step : {"idle", "read", "comment", "merge"},
             sha  : Commit \cup {NoCommit}, note : SUBSET Note]

LEMMA AnswerType ==
  ASSUME PRTypeOK, NEW c \in Caller,
         NEW said \in {"merged", "refused", "exit 2"}, Answer(c, said)
  PROVE  /\ call' \in [Caller -> CallType]
         /\ call' = [call EXCEPT ![c] = Idle]
         /\ \A d \in Caller : call'[d].step \in {"comment", "merge"}
                                => call'[d].sha \in Commit
         /\ answer' \in [by : Caller \cup {"none"},
                         said : {"none", "merged", "refused", "exit 2"}]
<1>1. Idle \in CallType /\ Idle.step = "idle"
  BY DEF Idle, CallType, NoNote
<1>2. call \in [Caller -> CallType]
  BY DEF PRTypeOK, CallType
<1>3. call' = [call EXCEPT ![c] = Idle]
  BY DEF Answer
<1>4. call' \in [Caller -> CallType]
  BY <1>1, <1>2, <1>3
<1>5. \A d \in Caller : call'[d] = Idle \/ call'[d] = call[d]
  BY <1>2, <1>3
<1>6. QED
  BY <1>1, <1>3, <1>4, <1>5 DEF Answer, PRTypeOK

LEMMA GotoType ==
  ASSUME PRTypeOK, NEW c \in Caller,
         NEW step \in {"read", "comment", "merge"}, NEW sha \in Commit \cup {NoCommit},
         NEW note \in SUBSET Note, step # "read" => sha \in Commit,
         Goto(c, step, sha, note)
  PROVE  /\ call' \in [Caller -> CallType]
         /\ call' = [call EXCEPT ![c] = [step |-> step, sha |-> sha, note |-> note]]
         /\ \A d \in Caller : call'[d].step \in {"comment", "merge"}
                                => call'[d].sha \in Commit
<1> DEFINE next == [step |-> step, sha |-> sha, note |-> note]
<1>1. next \in CallType /\ next.step = step /\ next.sha = sha
  BY DEF CallType
<1>2. call \in [Caller -> CallType]
  BY DEF PRTypeOK, CallType
<1>3. call' = [call EXCEPT ![c] = next]
  BY DEF Goto
<1>4. call' \in [Caller -> CallType]
  BY <1>1, <1>2, <1>3
<1>5. \A d \in Caller : call'[d] = next \/ call'[d] = call[d]
  BY <1>2, <1>3
<1>6. QED
  BY <1>1, <1>3, <1>4, <1>5 DEF PRTypeOK

LEMMA MergingType ==
  ASSUME PRTypeOK, NEW c \in Caller, Merging(c)
  PROVE  PRTypeOK'
<1>1. head \in Commit /\ NoNote \in SUBSET Note /\ call[c].note \in SUBSET Note
  BY DEF PRTypeOK, NoNote
<1>2. CASE Resolve(c)
  <2>1. CASE Goto(c, "read", NoCommit, NoNote) /\ answer' = NoAnswer
    BY <1>1, <1>2, <2>1, GotoType DEF Resolve, PRTypeOK, CallType, NoAnswer
  <2>2. CASE Answer(c, "exit 2")
    BY <1>2, <2>2, AnswerType DEF Resolve, PRTypeOK, CallType
  <2>3. QED
    BY <1>2, <2>1, <2>2 DEF Resolve
<1>3. CASE Preflight(c)
  <2>1. CASE Goto(c, "merge", head, NoNote) /\ UNCHANGED answer
    BY <1>1, <1>3, <2>1, GotoType DEF Preflight, PRTypeOK, CallType
  <2>2. CASE Answer(c, "refused")
    BY <1>3, <2>2, AnswerType DEF Preflight, PRTypeOK, CallType
  <2>3. QED
    BY <1>3, <2>1, <2>2 DEF Preflight
<1>4. CASE ReadForced(c)
  <2>1. {Override(head, View(head), Prover)} \in SUBSET Note
    BY <1>1, OverrideType
  <2>2. ASSUME NEW note \in SUBSET Note, Goto(c, "comment", head, note), UNCHANGED answer
        PROVE  PRTypeOK'
    BY <1>1, <1>4, <2>2, GotoType DEF ReadForced, PRTypeOK, CallType
  <2>3. CASE Answer(c, "refused")
    BY <1>4, <2>3, AnswerType DEF ReadForced, PRTypeOK, CallType
  <2>4. QED
    BY <1>4, <2>1, <2>2, <2>3 DEF ReadForced
<1>5. CASE PostOverride(c)
  <2>1. call[c].sha \in Commit
    BY <1>5 DEF PostOverride, PRTypeOK
  <2>2. trail' \subseteq Note
    BY <1>1, <1>5 DEF PostOverride, PRTypeOK
  <2>3. CASE Goto(c, "merge", call[c].sha, NoNote) /\ UNCHANGED answer
    BY <1>1, <1>5, <2>1, <2>2, <2>3, GotoType DEF PostOverride, PRTypeOK, CallType
  <2>4. CASE Answer(c, "refused")
    BY <1>5, <2>2, <2>4, AnswerType DEF PostOverride, PRTypeOK, CallType
  <2>5. QED
    BY <1>5, <2>3, <2>4 DEF PostOverride
<1>6. CASE Land(c)
  <2>1. landed' # NoMerge
    <3>1. landed'.sha = head
      BY <1>6 DEF Land
    <3>2. NoMerge.sha = NoCommit /\ head # NoCommit
      BY <1>1, PullRequestAssumption DEF NoMerge
    <3>3. QED
      BY <3>1, <3>2
  <2>2. PICK said \in {"merged", "refused"} : Answer(c, said)
    BY <1>6 DEF Land
  <2>3. QED
    BY <1>6, <2>1, <2>2, AnswerType DEF Land, PRTypeOK, CallType
<1>7. CASE NotLand(c)
  <2>1. PICK said \in {"merged", "refused"} : Answer(c, said)
    BY <1>7 DEF NotLand
  <2>2. QED
    BY <1>7, <2>1, AnswerType DEF NotLand, PRTypeOK, CallType
<1>8. QED
  BY <1>2, <1>3, <1>4, <1>5, <1>6, <1>7 DEF Merging

\* A call that is over, or that goes on to another step, leaves the others alone.
LEMMA Ended ==
  ASSUME PRTypeOK, NEW c \in Caller, call' = [call EXCEPT ![c] = Idle]
  PROVE  call'[c].step = "idle" /\ \A d \in Caller \ {c} : call'[d] = call[d]
<1>1. call'[c] = Idle /\ \A d \in Caller \ {c} : call'[d] = call[d]
  BY DEF PRTypeOK
<1>2. QED
  BY <1>1 DEF Idle

LEMMA GoneTo ==
  ASSUME PRTypeOK, NEW c \in Caller, NEW step, NEW sha, NEW note,
         Goto(c, step, sha, note)
  PROVE  /\ call'[c].step = step /\ call'[c].sha = sha /\ call'[c].note = note
         /\ \A d \in Caller \ {c} : call'[d] = call[d]
<1> DEFINE next == [step |-> step, sha |-> sha, note |-> note]
<1>1. call'[c] = next /\ \A d \in Caller \ {c} : call'[d] = call[d]
  BY DEF PRTypeOK, Goto
<1>2. QED
  BY <1>1

\* What the other calls need stays: only the moved one is to be looked at.
LEMMA CallsKept ==
  ASSUME GateInv, NEW c \in Caller, UNCHANGED vouched, trail \subseteq trail',
         \A d \in Caller \ {c} : call'[d] = call[d],
         ~Forces(c) => call'[c].step # "comment",
         ~Forces(c) /\ call'[c].step = "merge" => call'[c].sha \in vouched,
         Forces(c) /\ call'[c].step = "comment"
           => \E n \in call'[c].note : Accounts(n, call'[c].sha),
         Forces(c) /\ call'[c].step = "merge"
           => \E n \in trail' : Accounts(n, call'[c].sha)
  PROVE  JudgedVouched' /\ ForcedAccounted'
<1>1. JudgedVouched'
  BY DEF GateInv, JudgedVouched, Forces
<1>2. ASSUME NEW d \in Caller, Forces(d), call'[d].step = "comment"
      PROVE  \E n \in call'[d].note : Accounts(n, call'[d].sha)
  <2>1. CASE d = c
    BY <1>2, <2>1
  <2>2. CASE d # c
    BY <1>2, <2>2 DEF GateInv, ForcedAccounted
  <2>3. QED
    BY <2>1, <2>2
<1>3. ASSUME NEW d \in Caller, Forces(d), call'[d].step = "merge"
      PROVE  \E n \in trail' : Accounts(n, call'[d].sha)
  <2>1. CASE d = c
    BY <1>3, <2>1
  <2>2. CASE d # c
    BY <1>3, <2>2 DEF GateInv, ForcedAccounted
  <2>3. QED
    BY <2>1, <2>2
<1>4. ForcedAccounted'
  BY <1>2, <1>3 DEF ForcedAccounted, Accounts, Forces
<1>5. QED
  BY <1>1, <1>4

\* The invariant of the calls, of the comments they leave and of what has landed.
LEMMA MergingKeeps ==
  ASSUME GateInv, NEW c \in Caller, Merging(c)
  PROVE  JudgedVouched' /\ ForcedAccounted' /\ MergedVouched' /\ OverrideOnTrail'
<1> DEFINE Over == call' = [call EXCEPT ![c] = Idle]
<1>1. UNCHANGED vouched /\ trail \subseteq trail'
  BY DEF Merging, Resolve, Preflight, ReadForced, PostOverride, Land, NotLand
<1>2. head \in Commit /\ ProgressOK
  BY DEF GateInv, PRTypeOK, ProgressOK
<1>3. ASSUME Over
      PROVE  JudgedVouched' /\ ForcedAccounted'
  <2>1. call'[c].step = "idle" /\ \A d \in Caller \ {c} : call'[d] = call[d]
    BY <1>3, Ended DEF GateInv
  <2>2. QED
    BY <1>1, <2>1, CallsKept
<1>4. ASSUME UNCHANGED landed
      PROVE  MergedVouched' /\ OverrideOnTrail'
  BY <1>1, <1>4 DEF GateInv, MergedVouched, OverrideOnTrail
<1>5. CASE Resolve(c)
  <2>1. CASE Goto(c, "read", NoCommit, NoNote)
    <3>1. call'[c].step = "read" /\ \A d \in Caller \ {c} : call'[d] = call[d]
      BY <2>1, GoneTo DEF GateInv
    <3>2. QED
      BY <1>1, <1>4, <1>5, <3>1, CallsKept DEF Resolve
  <2>2. QED
    BY <1>3, <1>4, <1>5, <2>1 DEF Resolve, Answer
<1>6. CASE Preflight(c)
  <2>1. CASE Goto(c, "merge", head, NoNote) /\ Accepts(View(head), Prover)
    <3>1. /\ call'[c].step = "merge" /\ call'[c].sha = head
          /\ \A d \in Caller \ {c} : call'[d] = call[d]
      BY <2>1, GoneTo DEF GateInv
    <3>2. head \in vouched
      BY <1>2, <2>1, AcceptedStandsWell DEF GateInv, WellStandingVouched
    <3>3. ~Forces(c)
      BY <1>6 DEF Preflight
    <3>4. QED
      BY <1>1, <1>4, <1>6, <3>1, <3>2, <3>3, CallsKept DEF Preflight
  <2>2. QED
    BY <1>3, <1>4, <1>6, <2>1 DEF Preflight, Answer
<1>7. CASE ReadForced(c)
  <2> DEFINE n == Override(head, View(head), Prover)
  <2>1. CASE Goto(c, "comment", head, {n})
    <3>1. /\ call'[c].step = "comment" /\ call'[c].sha = head /\ call'[c].note = {n}
          /\ \A d \in Caller \ {c} : call'[d] = call[d]
      BY <2>1, GoneTo DEF GateInv
    <3>2. Accounts(n, head)
      <4>1. n.sha = head
        BY DEF Override
      <4>2. ASSUME n.overridden = {} PROVE head \in vouched
        BY <1>2, <4>2, NothingOverridden, AcceptedStandsWell
        DEF GateInv, WellStandingVouched
      <4>3. QED
        BY <4>1, <4>2 DEF Accounts
    <3>3. \E m \in call'[c].note : Accounts(m, call'[c].sha)
      BY <3>1, <3>2
    <3> HIDE DEF n
    <3>4. QED
      BY <1>1, <1>4, <1>7, <3>1, <3>3, CallsKept DEF ReadForced
  <2>2. QED
    BY <1>3, <1>4, <1>7, <2>1 DEF ReadForced, Answer
<1>8. CASE PostOverride(c)
  <2>1. CASE Goto(c, "merge", call[c].sha, NoNote) /\ trail' = trail \cup call[c].note
    <3>1. /\ call'[c].step = "merge" /\ call'[c].sha = call[c].sha
          /\ \A d \in Caller \ {c} : call'[d] = call[d]
      BY <2>1, GoneTo DEF GateInv
    <3>2. Forces(c) => \E m \in trail' : Accounts(m, call[c].sha)
      BY <1>8, <2>1 DEF GateInv, ForcedAccounted, PostOverride
    <3>3. Forces(c)
      BY <1>8 DEF GateInv, JudgedVouched, PostOverride
    <3>4. QED
      BY <1>1, <1>4, <1>8, <3>1, <3>2, <3>3, CallsKept DEF PostOverride
  <2>2. QED
    BY <1>3, <1>4, <1>8, <2>1 DEF PostOverride, Answer
<1>9. CASE Land(c)
  <2>1. Over
    BY <1>9 DEF Land, Answer
  <2>2. call[c].step = "merge" /\ call[c].sha = head
    BY <1>9 DEF Land, Pinned
  <2>3. landed'.sha = head /\ landed'.by = c
    BY <1>9 DEF Land
  <2>4. MergedVouched'
    BY <1>1, <2>2, <2>3 DEF GateInv, JudgedVouched, MergedVouched, Forces
  <2>5. OverrideOnTrail'
    BY <1>1, <2>2, <2>3 DEF GateInv, ForcedAccounted, Accounts, OverrideOnTrail, Forces
  <2>6. QED
    BY <1>3, <2>1, <2>4, <2>5
<1>10. CASE NotLand(c)
  BY <1>3, <1>4, <1>10 DEF NotLand, Answer
<1>11. QED
  BY <1>5, <1>6, <1>7, <1>8, <1>9, <1>10 DEF Merging

-----------------------------------------------------------------------------
(* The theorems of the gate.                                               *)

LEMMA GateStep ==
  ASSUME GateInv, [Next]_prVars
  PROVE  GateInv'
<1>1. CASE GitHub
  <2>1. PRTypeOK'
    BY <1>1, GitHubType DEF GateInv
  <2>2. UNCHANGED <<call, trail, landed>> /\ vouched \subseteq vouched' /\ WellStandingVouched'
    BY <1>1, GitHubKeeps DEF GateInv
  <2>3. JudgedVouched' /\ MergedVouched' /\ OverrideOnTrail'
    BY <2>2 DEF GateInv, JudgedVouched, MergedVouched, OverrideOnTrail, Forces
  <2>4. ForcedAccounted'
    BY <2>2 DEF GateInv, ForcedAccounted, Accounts, Forces
  <2>5. QED
    BY <2>1, <2>2, <2>3, <2>4 DEF GateInv
<1>2. ASSUME NEW c \in Caller, Merging(c)
      PROVE  GateInv'
  <2>1. UNCHANGED <<progress, vouched>>
    BY <1>2 DEF Merging, Resolve, Preflight, ReadForced, PostOverride, Land, NotLand
  <2>2. WellStandingVouched'
    BY <2>1, StillVouched DEF GateInv
  <2>3. QED
    BY <1>2, <2>2, MergingType, MergingKeeps DEF GateInv
<1>3. CASE UNCHANGED prVars
  <2>1. PRTypeOK'
    BY <1>3 DEF GateInv, PRTypeOK, prVars
  <2>2. WellStandingVouched'
    BY <1>3, StillVouched DEF GateInv, prVars
  <2>3. JudgedVouched' /\ MergedVouched' /\ OverrideOnTrail'
    BY <1>3 DEF GateInv, JudgedVouched, MergedVouched, OverrideOnTrail, Forces, prVars
  <2>4. ForcedAccounted'
    BY <1>3 DEF GateInv, ForcedAccounted, Accounts, Forces, prVars
  <2>5. QED
    BY <2>1, <2>2, <2>3, <2>4 DEF GateInv
<1>4. QED
  BY <1>1, <1>2, <1>3 DEF Next

LEMMA GateInvariant == Spec => []GateInv
<1>1. GateInv /\ [Next]_prVars => GateInv'
  BY GateStep
<1>2. QED
  BY <1>1, InitGate, PTL DEF Spec

\* Every reachable state is well formed; a call about to merge knows a commit.
THEOREM GateTypeCorrect == Spec => []PRTypeOK
<1>1. GateInv => PRTypeOK
  BY DEF GateInv
<1>2. QED
  BY <1>1, GateInvariant, PTL

\* Whatever is pushed, rerun, cancelled or closed between merge_pr's read and its
\* gh pr merge, an unforced merge lands a commit on which every required check
\* had reported and every check that counts had succeeded, at one instant.
THEOREM UnforcedMergeVouched == Spec => []MergedVouched
<1>1. GateInv => MergedVouched
  BY DEF GateInv
<1>2. QED
  BY <1>1, GateInvariant, PTL

\* A forced merge has left a comment on the commit it merged, and says what it
\* overrode if that commit's checks never stood well.
THEOREM ForcedMergeOnTrail == Spec => []OverrideOnTrail
<1>1. GateInv => OverrideOnTrail
  BY DEF GateInv
<1>2. QED
  BY <1>1, GateInvariant, PTL

\* Only runs of a first-time contributor are held, and an approval under way
\* covers the runs of its own commit (runs.py, approve_runs_for_sha).
OnlyFirstTimeHeld ==
  \A c \in Commit, r \in Run : progress[c][r] = "held" => firstTime

HeldInv ==
  /\ PRTypeOK
  /\ OnlyFirstTimeHeld
  /\ \A x \in approving.todo : x[1] = approving.sha

LEMMA StartedHeld ==
  ASSUME HeldInv, NEW c \in Commit, NEW r \in Run
  PROVE  /\ Started(c)[r] = "held" => firstTime
         /\ progress[c][r] = "held" => Started(c)[r] \in {"held", "none"}
<1>1. Started(c)[r] = CASE r \in Context /\ progress[c][r] # "none" -> progress[c][r]
                        [] r \notin Context /\ r \notin tree[c] -> "none"
                        [] r \notin Context /\ r \in tree[c] /\ firstTime -> "held"
                        [] OTHER -> "pending"
  BY DEF Started
<1>2. progress[c][r] = "held" => firstTime
  BY DEF HeldInv, OnlyFirstTimeHeld
<1>3. QED
  BY <1>1, <1>2

\* What one step does to a run: it is released only by an approval under way.
RunMoves(c, r) ==
  /\ progress'[c][r] = "held" => firstTime
  /\ progress[c][r] = "held" /\ progress'[c][r] \in Reporting => approving.sha = c

LEMMA StepMoves ==
  ASSUME HeldInv, [Next]_prVars, NEW c \in Commit, NEW r \in Run
  PROVE  RunMoves(c, r)
<1>1. /\ progress \in [Commit -> [Run -> Progress]]
      /\ approving.todo \subseteq Commit \X Run
      /\ progress[c][r] = "held" => firstTime
  BY DEF HeldInv, PRTypeOK, OnlyFirstTimeHeld
<1>2. CASE progress'[c][r] = progress[c][r]
  BY <1>1, <1>2 DEF RunMoves, Reporting
<1>3. CASE progress'[c][r] = Started(c)[r]
  BY <1>3, StartedHeld DEF RunMoves, Reporting
<1>4. CASE progress'[c][r] # "held" /\ progress[c][r] # "held"
  BY <1>4 DEF RunMoves
<1>5. ASSUME NEW d \in Commit, Push(d)
      PROVE  RunMoves(c, r)
  <2>1. progress' = [progress EXCEPT ![head] = Cancelled(head), ![d] = Started(d)]
    BY <1>5 DEF Push
  <2>2. CASE c = d
    BY <1>1, <1>3, <2>1, <2>2
  <2>3. CASE c # d /\ c = head
    <3>1. progress'[c][r] = Cancelled(c)[r]
      BY <1>1, <2>1, <2>3
    <3>2. progress'[c][r] = progress[c][r] \/ (progress[c][r] = "pending" /\ progress'[c][r] = "failure")
      BY <3>1 DEF Cancelled
    <3>3. QED
      BY <1>2, <1>4, <3>2
  <2>4. CASE c # d /\ c # head
    BY <1>1, <1>2, <2>1, <2>4
  <2>5. QED
    BY <2>2, <2>3, <2>4
<1>6. ASSUME Open \/ Reopen
      PROVE  RunMoves(c, r)
  <2>1. progress' = [progress EXCEPT ![head] = Started(head)]
    BY <1>6 DEF Open, Reopen
  <2>2. QED
    BY <1>1, <1>2, <1>3, <2>1
<1>7. ASSUME NEW d \in Commit, NEW q \in Run, Report(d, q) \/ Rerun(d, q)
      PROVE  RunMoves(c, r)
  <2>1. PICK p \in Reporting : progress' = [progress EXCEPT ![d][q] = p]
    BY <1>7 DEF Report, Rerun, Reporting
  <2>2. progress[d][q] \in Reporting
    BY <1>7 DEF Report, Rerun, Reporting
  <2>3. CASE c = d /\ r = q
    BY <1>1, <1>4, <2>1, <2>2, <2>3 DEF Reporting
  <2>4. CASE c # d \/ r # q
    BY <1>1, <1>2, <2>1, <2>4
  <2>5. QED
    BY <2>3, <2>4
<1>8. CASE ApproveOne
  <2>1. PICK x \in approving.todo :
          \/ progress' = progress
          \/ progress' = [progress EXCEPT ![x[1]][x[2]] = IF @ = "held" THEN "pending" ELSE @]
    BY <1>8 DEF ApproveOne
  <2>2. x[1] = approving.sha
    BY DEF HeldInv
  <2>3. CASE c = x[1]
    <3>1. progress'[c][r] \in {progress[c][r], "pending"}
      BY <1>1, <2>1
    <3>2. QED
      BY <1>1, <2>2, <2>3, <3>1 DEF RunMoves
  <2>4. CASE c # x[1]
    BY <1>1, <1>2, <2>1, <2>4
  <2>5. QED
    BY <2>3, <2>4
<1>9. CASE UNCHANGED progress
  BY <1>2, <1>9
<1>10. QED
  BY <1>5, <1>6, <1>7, <1>8, <1>9
  DEF Next, GitHub, Merging, Close, ListHeld, FailedRead, Resolve, Preflight,
      ReadForced, PostOverride, Land, NotLand, prVars

LEMMA HeldStep ==
  ASSUME HeldInv, [Next]_prVars
  PROVE  HeldInv'
<1>1. PRTypeOK'
  <2>1. CASE GitHub
    BY <2>1, GitHubType DEF HeldInv
  <2>2. CASE \E c \in Caller : Merging(c)
    BY <2>2, MergingType DEF HeldInv
  <2>3. CASE UNCHANGED prVars
    BY <2>3 DEF HeldInv, PRTypeOK, prVars
  <2>4. QED
    BY <2>1, <2>2, <2>3 DEF Next
<1>2. OnlyFirstTimeHeld'
  <2>1. UNCHANGED firstTime
    BY DEF Next, GitHub, Merging, Push, ListHeld, Report, Rerun, Open, Close, Reopen,
           ApproveOne, FailedRead, Resolve, Preflight, ReadForced, PostOverride,
           Land, NotLand, prVars
  <2>2. QED
    BY <2>1, StepMoves DEF RunMoves, OnlyFirstTimeHeld
<1>3. CASE UNCHANGED approving
  BY <1>1, <1>2, <1>3 DEF HeldInv
<1>4. ASSUME NEW c \in Commit, ListHeld(c)
      PROVE  HeldInv'
  BY <1>1, <1>2, <1>4 DEF HeldInv, ListHeld, OfSha
<1>5. CASE ApproveOne
  <2>1. approving' = NotApproving \/ \E x \in approving.todo :
          approving' = [approving EXCEPT !.todo = @ \ {x}]
    BY <1>5 DEF ApproveOne
  <2>2. CASE approving' = NotApproving
    BY <1>1, <1>2, <2>2 DEF HeldInv, NotApproving
  <2>3. ASSUME NEW x \in approving.todo, approving' = [approving EXCEPT !.todo = @ \ {x}]
        PROVE  HeldInv'
    <3>1. approving'.sha = approving.sha /\ approving'.todo \subseteq approving.todo
      BY <2>3 DEF HeldInv, PRTypeOK
    <3>2. QED
      BY <1>1, <1>2, <3>1 DEF HeldInv
  <2>4. QED
    BY <2>1, <2>2, <2>3
<1>6. UNCHANGED approving \/ ApproveOne \/ \E c \in Commit : ListHeld(c)
  BY DEF Next, GitHub, Merging, Push, Report, Rerun, Open, Close, Reopen, FailedRead,
         Resolve, Preflight, ReadForced, PostOverride, Land, NotLand, prVars
<1>7. QED
  BY <1>3, <1>4, <1>5, <1>6

\* No held run starts, on whatever commit, but by an approval of that commit.
THEOREM HeldReleasedOnlyByApproval == Spec => HeldUntilApproved
<1>1. Init => HeldInv
  <2>1. Init => PRTypeOK
    BY InitGate DEF GateInv
  <2>2. Init => OnlyFirstTimeHeld /\ approving.todo = {}
    BY DEF Init, OnlyFirstTimeHeld, NotApproving
  <2>3. QED
    BY <2>1, <2>2 DEF HeldInv
<1>2. HeldInv /\ [Next]_prVars => HeldInv'
  BY HeldStep
<1>3. HeldInv /\ [Next]_prVars =>
        [\A c \in Commit, r \in Run :
           progress[c][r] = "held" /\ progress'[c][r] \in Reporting
             => approving.sha = c]_prVars
  BY StepMoves DEF RunMoves
<1>4. QED
  BY <1>1, <1>2, <1>3, PTL DEF Spec, HeldUntilApproved

-----------------------------------------------------------------------------
(* What the command says of a merge that landed.                           *)

\* All that rests on the counter: a failed request is an event, so none has failed yet.
EventsOK == events \in Nat

LEMMA EventsCounted ==
  ASSUME EventsOK, [Next]_prVars
  PROVE  EventsOK'
<1>1. UNCHANGED events \/ Event
  BY DEF Next, GitHub, Merging, Push, ListHeld, Report, Rerun, Open, Close, Reopen,
         ApproveOne, FailedRead, Resolve, Preflight, ReadForced, PostOverride, Land,
         NotLand, Fault, prVars
<1>2. QED
  BY <1>1 DEF EventsOK, Event

\* Only gh pr merge lands anything, and it is told to delete a branch of the
\* repository itself only: with an answer that arrives, the answer is "merged".
LEMMA LandedSaysSo ==
  ASSUME EventsOK, [Next]_prVars, NEW c \in Caller,
         landed' # landed, landed'.by = c, events' = events
  PROVE  answer' = [by |-> c, said |-> "merged"]
<1>1. PICK d \in Caller : Land(d)
  BY DEF Next, GitHub, Merging, Push, ListHeld, Report, Rerun, Open, Close, Reopen,
         ApproveOne, FailedRead, Resolve, Preflight, ReadForced, PostOverride, NotLand,
         prVars
<1>2. d = c
  BY <1>1 DEF Land
<1>3. ~Event
  BY DEF EventsOK, Event
<1>4. Answer(d, "merged")
  BY <1>1, <1>3 DEF Land, Fault, DeletesBranch
<1>5. QED
  BY <1>2, <1>4 DEF Answer

\* A merge that landed is never reported as refused because its branch could not
\* be deleted, whoever merged it and whatever happened meanwhile.
THEOREM LandedMergesReported == Spec => LandingReported
<1>1. Init => EventsOK
  BY DEF Init, EventsOK
<1>2. EventsOK /\ [Next]_prVars => EventsOK'
  BY EventsCounted
<1>3. EventsOK /\ [Next]_prVars =>
        [\A c \in Caller :
           landed' # landed /\ landed'.by = c /\ events' = events
             => answer' = [by |-> c, said |-> "merged"]]_prVars
  BY LandedSaysSo
<1>4. QED
  BY <1>1, <1>2, <1>3, PTL DEF Spec, LandingReported

-----------------------------------------------------------------------------
(* The agent's loop only ever does what the commands do.                   *)

LEMMA LoopStep ==
  ASSUME PRTypeOK, [LoopNext]_agentVars
  PROVE  [Next]_prVars
<1>1. CASE UNCHANGED agentVars
  BY <1>1 DEF agentVars
<1>2. CASE SurveyMergeable \/ Salvage
  BY <1>2 DEF SurveyMergeable, Salvage
<1>3. CASE SurveyHeld
  <2>1. \E c \in Commit : ListHeld(c)
    BY <1>3 DEF SurveyHeld, PRTypeOK
  <2>2. QED
    BY <2>1 DEF Next, GitHub
<1>4. CASE SurveyNothing \/ PollStart \/ PollTick
  BY <1>4 DEF SurveyNothing, PollStart, PollTick, Next, GitHub
<1>5. CASE StartMerge
  BY <1>5, AgentLoopAssumption DEF StartMerge, Next, Merging
<1>6. CASE CloseSalvaged
  BY <1>6 DEF CloseSalvaged, Next, GitHub
<1>7. CASE Command
  BY <1>7, AgentLoopAssumption DEF Command, Next, GitHub, Merging
<1>8. CASE Others
  BY <1>8 DEF Others, Next, GitHub
<1>9. QED
  BY <1>1, <1>2, <1>3, <1>4, <1>5, <1>6, <1>7, <1>8 DEF LoopNext, Round

\* So an agent that surveys, approves, salvages, polls and merges round after
\* round, with an overseer beside it, lands nothing that was not vouched for.
THEOREM LoopMergesVouched == LoopSpec => [](MergedVouched /\ OverrideOnTrail)
<1>1. LoopInit => GateInv
  BY InitGate DEF LoopInit
<1>2. GateInv /\ [LoopNext]_agentVars => GateInv'
  BY LoopStep, GateStep DEF GateInv
<1>3. GateInv => MergedVouched /\ OverrideOnTrail
  BY DEF GateInv
<1>4. QED
  BY <1>1, <1>2, <1>3, PTL DEF LoopSpec

\* A run that failed has its checks among those the salvage command is given.
LEMMA FailedSeen ==
  ASSUME NEW c \in Commit, NEW r \in Run, NEW n \in ChecksOf[r],
         progress[c][r] = "failure"
  PROVE  n \in FailedChecks(View(c))
<1> DEFINE x == ParseCheck(n, Rollup(r, progress[c][r]))
<1>1. x \in View(c)
  BY DEF View, Reporting
<1>2. x.name = n /\ x.status = "COMPLETED" /\ x.conclusion = "FAILURE"
  <2>1. CASE r \in Context
    BY <2>1 DEF ParseCheck, Rollup, Conclusion, TERMINAL
  <2>2. CASE r \notin Context
    BY <2>2 DEF ParseCheck, Rollup, Conclusion, TERMINAL
  <2>3. QED
    BY <2>1, <2>2
<1>3. ~Green(x)
  BY <1>2 DEF Green
<1> HIDE DEF x
<1>4. QED
  BY <1>1, <1>2, <1>3 DEF FailedChecks

\* A check is reported complete and not green only if its run has failed.
LEMMA FailureSaid ==
  ASSUME NEW n, NEW r, NEW p \in Reporting, NEW x, x = ParseCheck(n, Rollup(r, p)),
         x.status = "COMPLETED", ~Green(x)
  PROVE  p = "failure"
<1>1. CASE p = "pending"
  <2>1. CASE r \in Context
    BY <1>1, <2>1 DEF ParseCheck, Rollup, Conclusion, TERMINAL
  <2>2. CASE r \notin Context
    BY <1>1, <2>2 DEF ParseCheck, Rollup, Conclusion, TERMINAL
  <2>3. QED
    BY <2>1, <2>2
<1>2. CASE p = "success"
  <2>1. CASE r \in Context
    BY <1>2, <2>1 DEF Green, ParseCheck, Rollup, Conclusion, TERMINAL
  <2>2. CASE r \notin Context
    BY <1>2, <2>2 DEF Green, ParseCheck, Rollup, Conclusion, TERMINAL
  <2>3. QED
    BY <2>1, <2>2
<1>3. QED
  BY <1>1, <1>2 DEF Reporting

\* The salvage command is given the names of the checks that have failed.
LEMMA FailedRed ==
  ASSUME NEW c \in Commit
  PROVE  FailedChecks(View(c)) = Red(c)
<1>1. ASSUME NEW n \in Red(c) PROVE n \in FailedChecks(View(c))
  BY FailedSeen DEF Red
<1>2. ASSUME NEW n \in FailedChecks(View(c)) PROVE n \in Red(c)
  <2>1. PICK x \in View(c) : x.name = n /\ x.status = "COMPLETED" /\ ~Green(x)
    BY DEF FailedChecks
  <2>2. PICK r \in Run : /\ progress[c][r] \in Reporting
                         /\ \E m \in ChecksOf[r] : x = ParseCheck(m, Rollup(r, progress[c][r]))
    BY <2>1 DEF View
  <2>3. n \in ChecksOf[r] /\ x = ParseCheck(n, Rollup(r, progress[c][r]))
    BY <2>1, <2>2, CheckNamed
  <2>4. progress[c][r] = "failure"
    BY <2>1, <2>2, <2>3, FailureSaid, Zenon
  <2>5. QED
    BY <2>3, <2>4 DEF Red
<1>3. QED
  BY <1>1, <1>2

\* The classes of the registry have nothing in common.
LEMMA ClassesDisjoint ==
  (QualityChecks \cup AdvisoryChecks) \cap (TrustChecks \cup {Unregistered}) = {}
  /\ Unregistered \notin SALVAGE_OPAQUE
BY DEF QualityChecks, AdvisoryChecks, TrustChecks, Unregistered, SALVAGE_OPAQUE

\* Salvage seeds no attempt with a tree on which a check of its soundness has
\* failed, or one nobody knows, and none with a tree the comparator refused, unless
\* a quality check says what is to be fixed.
THEOREM SeedsAreSound == LoopSpec => NoTrustSeed
<1>2. LoopInit => GateInv
  BY InitGate DEF LoopInit
<1>3. GateInv /\ [LoopNext]_agentVars => GateInv'
  BY LoopStep, GateStep DEF GateInv
<1>4. ASSUME GateInv, [LoopNext]_agentVars, NEW c \in seeds' \ seeds
      PROVE  /\ Red(c) \cap ((TrustChecks \ SALVAGE_OPAQUE) \cup {Unregistered}) = {}
             /\ Red(c) \cap SALVAGE_OPAQUE # {} => Red(c) \cap QualityChecks # {}
  <2>1. Salvage
    BY <1>4 DEF LoopNext, Round, Command, Others, SurveyMergeable, SurveyHeld,
                SurveyNothing, StartMerge, CloseSalvaged, PollStart, PollTick,
                agentVars, loopVars
  <2>2. c = head /\ c \in Commit
    BY <1>4, <2>1 DEF Salvage, GateInv, PRTypeOK
  <2>3. ClassifyFailure(Red(c)) = "near_miss"
    BY <2>1, <2>2, FailedRed DEF Salvage
  <2>4. \A n \in Red(c) : n \in QualityChecks \cup AdvisoryChecks \cup SALVAGE_OPAQUE
    BY <2>3, NearMissIsSound
  <2>5. Red(c) \cap SALVAGE_OPAQUE # {} => Red(c) \cap QualityChecks # {}
    BY <2>3, NearMissNamed
  <2>6. QED
    BY <2>4, <2>5, ClassesDisjoint
<1>5. GateInv /\ [LoopNext]_agentVars =>
        [\A c \in seeds' \ seeds :
           /\ Red(c) \cap ((TrustChecks \ SALVAGE_OPAQUE) \cup {Unregistered}) = {}
           /\ Red(c) \cap SALVAGE_OPAQUE # {} => Red(c) \cap QualityChecks # {}]_agentVars
  BY <1>4
<1>6. QED
  BY <1>2, <1>3, <1>5, PTL DEF LoopSpec, NoTrustSeed
=============================================================================
