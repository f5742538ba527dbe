------------------------- MODULE ContributionProofs -------------------------
(***************************************************************************)
(* Proofs about workspaces and submits, for any workers, tasks, processes, *)
(* commits and mishaps.                                                    *)
(***************************************************************************)
EXTENDS Contribution, FiniteSetTheorems, TLAPS

Step == {"idle", "store", "clone", "files", "fork", "poll", "remote", "add", "push",
         "lookup", "create", "comment"}
Request == [slot : Slot, open : BOOLEAN]
Job == [step : Step, slot : Slot, pr : Nat]
Directory == [ kind : {"none", "tree", "clone"}, attempt : 0..(MaxMishaps + 2),
               lease : BOOLEAN, head : Tip \cup {NoTip} ]

-----------------------------------------------------------------------------
(* The invariant, in parts.                                                *)

\* What is on the worker's machine.
MachineOK ==
  /\ store \subseteq Worker
  /\ branch \in [Slot -> Tip \cup {NoTip}]
  /\ ws \in [Slot -> Directory]
  /\ attempts \in [Slot -> Nat]
  /\ mishaps \in 0..MaxMishaps

\* What is on GitHub.
RemoteOK ==
  /\ fork \in [Worker -> {"none", "pending", "ready"}]
  /\ remotes \subseteq Worker \cup Slot
  /\ pushed \in [Slot -> Tip \cup {NoTip}]
  /\ prs \in Seq(Request)

\* A process works on a task of its own worker.
JobsOK ==
  /\ run \in [Process -> Job]
  /\ \A p \in Process : run[p].step # "idle" => run[p].slot[1] = WorkerOf[p]

\* A task whose directory has no owner has seen a mishap for every attempt: an
\* attempt costs nothing only while its workspace stands, or is being set up.
Tended(s) == ws[s].lease \/ \E p \in Process : run[p].step = "files" /\ run[p].slot = s
AttemptsOK ==
  \A s \in Slot :
    /\ attempts[s] <= mishaps + 1
    /\ ws[s].kind = "none" \/ ~Tended(s) => attempts[s] <= mishaps

\* The branch of a directory is the one its setup began.
BornHere ==
  \A s \in Slot :
    /\ ws[s].lease => ws[s].kind # "none"
    /\ ws[s].kind # "none" /\ TipOf(s) # NoTip => TipOf(s).attempt = ws[s].attempt

-----------------------------------------------------------------------------
LEMMA SlotOfProcess ==
  ASSUME NEW p \in Process
  PROVE  WorkerOf[p] \in Worker /\ Idle \in Job
<1>1. WorkerOf[p] \in {s[1] : s \in Slot}
  BY WorkspaceAssumption
<1>2. PICK s \in Slot : TRUE
  BY <1>1
<1>3. (CHOOSE x \in Slot : TRUE) \in Slot
  BY <1>2
<1>4. QED
  BY <1>1, <1>3 DEF Worker, Idle, Job, Step

LEMMA NewTipType ==
  ASSUME MachineOK, NEW s \in Slot, attempts[s] <= MaxMishaps
  PROVE  NewTip(s) \in Tip
BY WorkspaceAssumption DEF MachineOK, NewTip, Tip

LEMMA BegunType ==
  ASSUME MachineOK, NEW s \in Slot, attempts[s] <= MaxMishaps + 1,
         NEW k \in {"none", "tree", "clone"}, NEW h \in Tip \cup {NoTip}
  PROVE  Begun(s, k, h) \in Directory
BY WorkspaceAssumption DEF MachineOK, Begun, Directory

LEMMA NoWorkspaceType == NoWorkspace \in Directory
BY WorkspaceAssumption DEF NoWorkspace, Directory

LEMMA MoreCommits ==
  ASSUME NEW t \in Tip, t.commits < MaxCommits
  PROVE  [t EXCEPT !.commits = @ + 1] \in Tip
BY WorkspaceAssumption DEF Tip

LEMMA TipType ==
  ASSUME MachineOK, NEW s \in Slot
  PROVE  TipOf(s) \in Tip \cup {NoTip}
BY DEF MachineOK, TipOf, Directory

\* The steps that touch a worker's machine.
MachineStep ==
  \/ \E p \in Process : \/ \E s \in Slot : StartSetup(p, s)
                        \/ SetupStep(p) \/ Killed(p)
  \/ \E s \in Slot : Commit(s) \/ ClearFailed(s) \/ RemoveByHand(s)
  \/ \E p \in Process, s \in Slot : Release(p, s)
  \/ \E w \in Worker : DropStore(w)

LEMMA MachineKept ==
  ASSUME MachineOK, AttemptsOK, JobsOK, MachineStep
  PROVE  MachineOK'
<1>0. MaxMishaps \in Nat /\ mishaps \in Nat /\ mishaps <= MaxMishaps
  BY WorkspaceAssumption DEF MachineOK
<1>a. \A s \in Slot : attempts[s] \in Nat /\ attempts[s] <= mishaps + 1
  BY DEF MachineOK, AttemptsOK
<1>b. \A s \in Slot : ws[s].kind = "none" => attempts[s] <= MaxMishaps
  BY <1>0, <1>a DEF AttemptsOK
<1>1. ASSUME NEW p \in Process, NEW s \in Slot, StartSetup(p, s) PROVE MachineOK'
  BY <1>1 DEF StartSetup, MachineOK
<1>2. ASSUME NEW p \in Process, CreateWorktree(p) PROVE MachineOK'
  <2> DEFINE s == run[p].slot
  <2>0. s \in Slot /\ s[1] \in Worker
    BY DEF JobsOK, Job, Worker
  <2>1. store' \subseteq Worker
    BY <1>2, <2>0 DEF CreateWorktree, MachineOK
  <2>2. CASE ws[s].kind = "none"
    <3>1. NewTip(s) \in Tip
      BY <2>0, <2>2, <1>b, NewTipType
    <3>2. Begun(s, "tree", NoTip) \in Directory
      BY <2>0, <2>2, <1>a, <1>b, <1>0, BegunType
    <3>3. branch' \in [Slot -> Tip \cup {NoTip}] /\ ws' \in [Slot -> Directory]
          /\ attempts' \in [Slot -> Nat] /\ mishaps' \in 0..MaxMishaps
      BY <1>2, <1>0, <2>0, <3>1, <3>2 DEF CreateWorktree, MachineOK, Mishap
    <3>4. QED
      BY <2>1, <3>3 DEF MachineOK
  <2>3. CASE ws[s].kind # "none"
    <3>1. branch' \in [Slot -> Tip \cup {NoTip}] /\ ws' \in [Slot -> Directory]
          /\ attempts' \in [Slot -> Nat] /\ mishaps' \in 0..MaxMishaps
      BY <1>2, <1>0, <2>3 DEF CreateWorktree, MachineOK, Mishap, CanAdd
    <3>2. QED
      BY <2>1, <3>1 DEF MachineOK
  <2>4. QED
    BY <2>2, <2>3
<1>3. ASSUME NEW p \in Process, LegacyClone(p) PROVE MachineOK'
  <2> DEFINE s == run[p].slot
  <2>0. s \in Slot
    BY DEF JobsOK, Job
  <2>2. CASE ws[s].kind = "none"
    <3>1. NewTip(s) \in Tip
      BY <2>0, <2>2, <1>b, NewTipType
    <3>2. Begun(s, "clone", NewTip(s)) \in Directory /\ Begun(s, "clone", NoTip) \in Directory
      BY <2>0, <2>2, <3>1, <1>a, <1>b, <1>0, BegunType
    <3>3. ws' \in [Slot -> Directory]
          /\ attempts' \in [Slot -> Nat] /\ mishaps' \in 0..MaxMishaps
      BY <1>3, <1>0, <2>0, <3>2 DEF LegacyClone, MachineOK, Mishap
    <3>4. QED
      BY <1>3, <3>3 DEF MachineOK, LegacyClone
  <2>3. CASE ws[s].kind # "none"
    BY <1>3, <1>0, <2>3 DEF LegacyClone, MachineOK, Mishap
  <2>4. QED
    BY <2>2, <2>3
<1>4. ASSUME NEW p \in Process, WriteFiles(p) PROVE MachineOK'
  BY <1>4 DEF WriteFiles, MachineOK, Directory, JobsOK, Job
<1>5. ASSUME NEW p \in Process, Killed(p) PROVE MachineOK'
  BY <1>0, <1>5 DEF Killed, Mishap, MachineOK
<1>6. ASSUME NEW s \in Slot, Commit(s) PROVE MachineOK'
  <2>1. CASE ws[s].kind = "tree"
    <3>1. [branch[s] EXCEPT !.commits = @ + 1] \in Tip
      BY <1>6, <2>1, TipType, MoreCommits DEF Commit, TipOf
    <3>2. QED
      BY <1>6, <2>1, <3>1 DEF Commit, MachineOK
  <2>2. CASE ws[s].kind # "tree"
    <3>1. [ws[s].head EXCEPT !.commits = @ + 1] \in Tip
      BY <1>6, <2>2, TipType, MoreCommits DEF Commit, TipOf
    <3>2. ws' = [ws EXCEPT ![s] = [ws[s] EXCEPT !.head = [ws[s].head EXCEPT !.commits = @ + 1]]]
      BY <1>6, <2>2 DEF Commit, MachineOK, Directory
    <3>3. QED
      BY <1>6, <2>2, <3>1, <3>2 DEF Commit, MachineOK, Directory
  <2>3. QED
    BY <2>1, <2>2
<1>7. ASSUME NEW s \in Slot, NEW known, Removed(s, known), UNCHANGED <<store, attempts>>,
             mishaps' \in 0..MaxMishaps
      PROVE  MachineOK'
  BY <1>7, NoWorkspaceType DEF Removed, MachineOK
<1>8. ASSUME NEW w \in Worker, DropStore(w) PROVE MachineOK'
  BY <1>0, <1>8 DEF DropStore, Mishap, MachineOK
<1>9. ASSUME NEW p \in Process, SetupStep(p) PROVE MachineOK'
  BY <1>2, <1>3, <1>4, <1>9 DEF SetupStep
<1>10. ASSUME NEW s \in Slot, ClearFailed(s) PROVE MachineOK'
  BY <1>7, <1>10 DEF ClearFailed, MachineOK
<1>11. ASSUME NEW s \in Slot, RemoveByHand(s) PROVE MachineOK'
  <2>1. mishaps' \in 0..MaxMishaps
    BY <1>0, <1>11 DEF RemoveByHand, Mishap
  <2>2. QED
    BY <2>1, <1>7, <1>11 DEF RemoveByHand
<1>12. ASSUME NEW p \in Process, NEW s \in Slot, Release(p, s) PROVE MachineOK'
  <2>1. mishaps' \in 0..MaxMishaps
    BY <1>0, <1>12 DEF Release, Mishap
  <2>2. QED
    BY <2>1, <1>7, <1>12 DEF Release
<1>13. QED
  BY <1>1, <1>5, <1>6, <1>8, <1>9, <1>10, <1>11, <1>12 DEF MachineStep

\* The steps that leave it alone, and what they may cost.
GitHubStep ==
  \/ \E p \in Process : \/ \E s \in Slot : StartSubmit(p, s)
                        \/ SubmitStep(p)
  \/ \E s \in Slot : AgentPushes(s) \/ AgentOpens(s)
  \/ \E w \in Worker : ForkAppears(w)
  \/ \E n \in DOMAIN prs : ClosePR(n)

LEMMA StepKinds ==
  ASSUME CNext
  PROVE  \/ /\ MachineStep
            /\ remotes' = remotes \/ remotes' = Kept
            /\ UNCHANGED <<fork, pushed, prs, trail>>
         \/ GitHubStep
<1>1. ASSUME NEW p \in Process, NEW s \in Slot, SetsUp(p, s)
      PROVE  MachineStep /\ UNCHANGED ghVars
  BY <1>1 DEF SetsUp, MachineStep
<1>2. ASSUME NEW p \in Process, SetsOn(p) \/ Dies(p)
      PROVE  MachineStep /\ UNCHANGED ghVars
  BY <1>2 DEF SetsOn, Dies, MachineStep
<1>3. ASSUME NEW s \in Slot, Works(s) PROVE MachineStep /\ UNCHANGED ghVars
  BY <1>3 DEF Works, MachineStep
<1>4. ASSUME NEW s \in Slot, Clears(s)
      PROVE  MachineStep /\ remotes' = Kept /\ UNCHANGED <<fork, pushed, prs, trail>>
  BY <1>4 DEF Clears, MachineStep
<1>5. ASSUME Loses
      PROVE  MachineStep /\ remotes' = Kept /\ UNCHANGED <<fork, pushed, prs, trail>>
  BY <1>5 DEF Loses, MachineStep
<1>6. QED
  BY <1>1, <1>2, <1>3, <1>4, <1>5 DEF CNext, GitHubStep, ghVars

LEMMA GitHubCost ==
  ASSUME MachineOK, GitHubStep
  PROVE  /\ UNCHANGED <<store, branch, ws, attempts>>
         /\ UNCHANGED mishaps \/ Mishap
         /\ MachineOK'
<1>1. ASSUME NEW p \in Process, SubmitStep(p)
      PROVE  UNCHANGED <<store, branch, ws, attempts>> /\ (UNCHANGED mishaps \/ Mishap)
  BY <1>1 DEF SubmitStep, EnsureFork, PollFork, ReadRemote, AddRemote, Push, Lookup, Create,
              Announce, ghVars
<1>2. UNCHANGED <<store, branch, ws, attempts>> /\ (UNCHANGED mishaps \/ Mishap)
  BY <1>1 DEF GitHubStep, StartSubmit, AgentPushes, AgentOpens, ForkAppears, ClosePR, wsVars,
              ghVars
<1>3. QED
  BY <1>2, WorkspaceAssumption DEF MachineOK, Mishap

\* No step takes a mishap back.
LEMMA MishapsGrow ==
  ASSUME MachineOK, JobsOK, CNext
  PROVE  mishaps' \in Nat /\ mishaps' >= mishaps
<1>1. ASSUME NEW p \in Process, SetupStep(p) PROVE UNCHANGED mishaps \/ Mishap
  BY <1>1 DEF SetupStep, CreateWorktree, LegacyClone, WriteFiles
<1>2. ASSUME MachineStep PROVE UNCHANGED mishaps \/ Mishap
  BY <1>1, <1>2 DEF MachineStep, StartSetup, Killed, Commit, ClearFailed, RemoveByHand, Release,
                    DropStore
<1>3. UNCHANGED mishaps \/ Mishap
  BY <1>2, StepKinds, GitHubCost
<1>4. mishaps \in Nat
  BY WorkspaceAssumption DEF MachineOK
<1>5. QED
  BY <1>3, <1>4 DEF Mishap

-----------------------------------------------------------------------------
(* Processes.                                                              *)

\* Whatever a step makes of a process, it goes on with a task of its own worker.
LEMMA JobsKept ==
  ASSUME JobsOK, RemoteOK, CNext
  PROVE  JobsOK'
<1>1. ASSUME NEW p \in Process, NEW s \in Slot, NEW step \in Step, Start(p, s, step)
      PROVE  JobsOK'
  BY <1>1 DEF Start, JobsOK, Job
<1>2. ASSUME NEW p \in Process, NEW step \in Step, ~At(p, "idle"), Go(p, step) PROVE JobsOK'
  BY <1>2 DEF Go, At, JobsOK, Job
<1>3. ASSUME NEW p \in Process, Stop(p) PROVE JobsOK'
  BY <1>3, SlotOfProcess DEF Stop, JobsOK, Job, Idle
<1>4. ASSUME UNCHANGED run PROVE JobsOK'
  BY <1>4 DEF JobsOK
<1>5. ASSUME NEW p \in Process, SetupStep(p) PROVE JobsOK'
  <2>1. ~At(p, "idle")
    BY <1>5 DEF SetupStep, CreateWorktree, LegacyClone, WriteFiles, At
  <2>2. Go(p, "files") \/ Go(p, "clone") \/ Stop(p)
    BY <1>5 DEF SetupStep, CreateWorktree, LegacyClone, WriteFiles
  <2>3. QED
    BY <1>2, <1>3, <2>1, <2>2 DEF Step
<1>6. ASSUME NEW p \in Process, Lookup(p) PROVE JobsOK'
  <2>1. ~At(p, "idle")
    BY <1>6 DEF Lookup, At
  <2>2. CASE Go(p, "create")
    BY <1>2, <2>1, <2>2 DEF Step
  <2>3. CASE \E n \in DOMAIN prs :
               run' = [run EXCEPT ![p] = [step |-> "comment", slot |-> run[p].slot, pr |-> n]]
    <3>1. DOMAIN prs \subseteq Nat
      BY DEF RemoteOK
    <3>2. QED
      BY <2>1, <2>3, <3>1 DEF JobsOK, Job, Step, At
  <2>4. QED
    BY <1>6, <2>2, <2>3 DEF Lookup
<1>7. ASSUME NEW p \in Process, Create(p) PROVE JobsOK'
  <2>1. ~At(p, "idle")
    BY <1>7 DEF Create, At
  <2>2. CASE run' = [run EXCEPT ![p].step = "comment", ![p].pr = Len(prs')]
             /\ prs' = Append(prs, [slot |-> run[p].slot, open |-> TRUE])
    <3>1. Len(prs') \in Nat
      BY <2>2 DEF RemoteOK, JobsOK, Job, Request
    <3>2. QED
      BY <2>1, <2>2, <3>1 DEF JobsOK, Job, Step, At
  <2>3. QED
    BY <1>3, <1>7, <2>2 DEF Create
<1>8. ASSUME NEW p \in Process, SubmitStep(p) PROVE JobsOK'
  <2>1. ASSUME EnsureFork(p) \/ PollFork(p) \/ ReadRemote(p) \/ AddRemote(p) \/ Push(p)
               \/ Announce(p)
        PROVE  JobsOK'
    <3>1. ~At(p, "idle")
      BY <2>1 DEF EnsureFork, PollFork, ReadRemote, AddRemote, Push, Announce, At
    <3>2. Stop(p) \/ \E step \in Step : Go(p, step)
      BY <2>1 DEF EnsureFork, PollFork, ReadRemote, AddRemote, Push, Announce, Step
    <3>3. QED
      BY <1>2, <1>3, <3>1, <3>2
  <2>2. QED
    BY <1>6, <1>7, <1>8, <2>1 DEF SubmitStep
<1>9. ASSUME NEW p \in Process, NEW s \in Slot, SetsUp(p, s) \/ StartSubmit(p, s)
      PROVE  JobsOK'
  BY <1>1, <1>9 DEF SetsUp, StartSetup, StartSubmit, Step
<1>10. ASSUME NEW p \in Process, Dies(p) PROVE JobsOK'
  BY <1>3, <1>10 DEF Dies, Killed
<1>11. ASSUME NEW s \in Slot, Works(s) \/ Clears(s) \/ AgentPushes(s) \/ AgentOpens(s)
       PROVE  UNCHANGED run
  BY <1>11 DEF Works, Commit, Clears, ClearFailed, AgentPushes, AgentOpens
<1>12. ASSUME Loses \/ (\E w \in Worker : ForkAppears(w)) \/ \E n \in DOMAIN prs : ClosePR(n)
       PROVE  UNCHANGED run
  BY <1>12 DEF Loses, Release, RemoveByHand, DropStore, ForkAppears, ClosePR, wsVars
<1>13. QED
  BY <1>4, <1>5, <1>8, <1>9, <1>10, <1>11, <1>12 DEF CNext, SetsOn

-----------------------------------------------------------------------------
(* Attempts and the branches they begin.                                   *)

\* A step that may have cost a mishap owes nothing; one that did not must leave
\* alone whatever counts.
LEMMA AttemptsByMishap ==
  ASSUME MachineOK, AttemptsOK, Mishap, UNCHANGED attempts
  PROVE  AttemptsOK'
BY WorkspaceAssumption DEF MachineOK, AttemptsOK, Mishap

LEMMA AttemptsQuiet ==
  ASSUME MachineOK, AttemptsOK, UNCHANGED attempts, mishaps' \in Nat, mishaps' >= mishaps,
         \A s \in Slot : /\ ws'[s].kind = "none" <=> ws[s].kind = "none"
                         /\ Tended(s) => Tended(s)' \/ ws[s].kind = "none"
  PROVE  AttemptsOK'
<1>1. mishaps \in Nat /\ \A s \in Slot : attempts[s] \in Nat
  BY WorkspaceAssumption DEF MachineOK
<1>2. ASSUME NEW s \in Slot
      PROVE  /\ attempts'[s] <= mishaps' + 1
             /\ ws'[s].kind = "none" \/ ~Tended(s)' => attempts'[s] <= mishaps'
  BY <1>1, <1>2 DEF AttemptsOK
<1>3. QED
  BY <1>2 DEF AttemptsOK

\* Tending survives unless a process leaves the writing of the files.
LEMMA TendedKept ==
  ASSUME UNCHANGED ws, NEW s \in Slot, Tended(s),
         \A p \in Process : run[p].step = "files" => run'[p] = run[p]
  PROVE  Tended(s)'
BY DEF Tended

LEMMA AttemptsKept ==
  ASSUME MachineOK, RemoteOK, JobsOK, AttemptsOK, CNext
  PROVE  AttemptsOK'
<1>0. /\ mishaps \in Nat /\ \A s \in Slot : attempts[s] \in Nat
      /\ mishaps' \in Nat /\ mishaps' >= mishaps
  BY WorkspaceAssumption, MishapsGrow DEF MachineOK
<1>r. run \in [Process -> Job]
  BY DEF JobsOK
<1>1. ASSUME NEW p \in Process, CreateWorktree(p) PROVE AttemptsOK'
  <2>s. PICK s \in Slot : s = run[p].slot
    BY <1>r DEF Job
  <2>0. s \in Slot /\ ~(run[p].step = "files")
    BY <1>1 DEF CreateWorktree, At
  <2>1. CASE Mishap /\ UNCHANGED <<attempts, ws>>
    BY <2>1, AttemptsByMishap
  <2>2. CASE CanAdd(s) /\ attempts' = [attempts EXCEPT ![s] = @ + 1] /\ Mishap
             /\ UNCHANGED ws
    <3>1. ASSUME NEW x \in Slot PROVE attempts'[x] <= mishaps'
      BY <1>0, <2>0, <2>2 DEF AttemptsOK, CanAdd, Mishap, MachineOK
    <3>2. QED
      BY <1>0, <2>2, <3>1 DEF AttemptsOK, MachineOK
  <2>3. CASE Go(p, "clone") /\ UNCHANGED <<ws, attempts, mishaps>>
    <3>1. ASSUME NEW x \in Slot, Tended(x) PROVE Tended(x)'
      BY <1>r, <2>0, <2>3, <3>1, TendedKept DEF Go
    <3>2. QED
      BY <1>0, <2>3, <3>1, AttemptsQuiet
  <2>4. CASE /\ CanAdd(s) /\ ws' = [ws EXCEPT ![s] = Begun(s, "tree", NoTip)]
             /\ attempts' = [attempts EXCEPT ![s] = @ + 1] /\ Go(p, "files")
             /\ UNCHANGED mishaps
    <3>1. ws'[s].kind # "none" /\ Tended(s)' /\ attempts'[s] <= mishaps' + 1
      BY <1>0, <1>r, <2>s, <2>0, <2>4 DEF MachineOK, Begun, CanAdd, AttemptsOK, Tended, Go
    <3>2. ASSUME NEW x \in Slot, x # s
          PROVE  /\ ws'[x] = ws[x] /\ attempts'[x] = attempts[x]
                 /\ Tended(x) => Tended(x)'
      <4>1. ws'[x] = ws[x] /\ attempts'[x] = attempts[x]
        BY <2>4, <3>2 DEF MachineOK
      <4>2. ASSUME NEW q \in Process, run[q].step = "files" PROVE run'[q] = run[q]
        BY <1>r, <2>0, <2>4, <4>2 DEF Go
      <4>3. QED
        BY <4>1, <4>2 DEF Tended
    <3>3. ASSUME NEW x \in Slot
          PROVE  /\ attempts'[x] <= mishaps' + 1
                 /\ ws'[x].kind = "none" \/ ~Tended(x)' => attempts'[x] <= mishaps'
      <4>1. CASE x = s
        BY <3>1, <4>1
      <4>2. CASE x # s
        <5>1. ws'[x] = ws[x] /\ attempts'[x] = attempts[x] /\ (Tended(x) => Tended(x)')
          BY <3>2, <4>2
        <5>2. /\ attempts[x] <= mishaps + 1
              /\ ws[x].kind = "none" \/ ~Tended(x) => attempts[x] <= mishaps
          BY DEF AttemptsOK
        <5>3. mishaps' = mishaps
          BY <2>4
        <5>4. QED
          BY <5>1, <5>2, <5>3
      <4>3. QED
        BY <4>1, <4>2
    <3>4. QED
      BY <3>3 DEF AttemptsOK
  <2>5. QED
    BY <1>1, <2>s, <2>1, <2>2, <2>3, <2>4 DEF CreateWorktree
<1>2. ASSUME NEW p \in Process, LegacyClone(p) PROVE AttemptsOK'
  <2>s. PICK s \in Slot : s = run[p].slot
    BY <1>r DEF Job
  <2>0. s \in Slot /\ ~(run[p].step = "files")
    BY <1>2 DEF LegacyClone, At
  <2>1. CASE Mishap /\ UNCHANGED attempts
    BY <2>1, AttemptsByMishap
  <2>2. CASE Stop(p) /\ UNCHANGED <<ws, attempts, mishaps>>
    <3>1. ASSUME NEW x \in Slot, Tended(x) PROVE Tended(x)'
      BY <1>r, <2>0, <2>2, <3>1, TendedKept DEF Stop
    <3>2. QED
      BY <1>0, <2>2, <3>1, AttemptsQuiet
  <2>3. CASE /\ ws[s].kind = "none" /\ ws' = [ws EXCEPT ![s] = Begun(s, "clone", NewTip(s))]
             /\ attempts' = [attempts EXCEPT ![s] = @ + 1] /\ Go(p, "files")
             /\ UNCHANGED mishaps
    <3>1. ws'[s].kind # "none" /\ Tended(s)' /\ attempts'[s] <= mishaps' + 1
      BY <1>0, <1>r, <2>s, <2>0, <2>3 DEF MachineOK, Begun, AttemptsOK, Tended, Go
    <3>2. ASSUME NEW x \in Slot, x # s
          PROVE  /\ ws'[x] = ws[x] /\ attempts'[x] = attempts[x]
                 /\ Tended(x) => Tended(x)'
      <4>1. ws'[x] = ws[x] /\ attempts'[x] = attempts[x]
        BY <2>3, <3>2 DEF MachineOK
      <4>2. ASSUME NEW q \in Process, run[q].step = "files" PROVE run'[q] = run[q]
        BY <1>r, <2>0, <2>3, <4>2 DEF Go
      <4>3. QED
        BY <4>1, <4>2 DEF Tended
    <3>3. ASSUME NEW x \in Slot
          PROVE  /\ attempts'[x] <= mishaps' + 1
                 /\ ws'[x].kind = "none" \/ ~Tended(x)' => attempts'[x] <= mishaps'
      <4>1. CASE x = s
        BY <3>1, <4>1
      <4>2. CASE x # s
        <5>1. ws'[x] = ws[x] /\ attempts'[x] = attempts[x] /\ (Tended(x) => Tended(x)')
          BY <3>2, <4>2
        <5>2. /\ attempts[x] <= mishaps + 1
              /\ ws[x].kind = "none" \/ ~Tended(x) => attempts[x] <= mishaps
          BY DEF AttemptsOK
        <5>3. mishaps' = mishaps
          BY <2>3
        <5>4. QED
          BY <5>1, <5>2, <5>3
      <4>3. QED
        BY <4>1, <4>2
    <3>4. QED
      BY <3>3 DEF AttemptsOK
  <2>4. QED
    BY <1>2, <2>s, <2>1, <2>2, <2>3 DEF LegacyClone
<1>3. ASSUME NEW p \in Process, WriteFiles(p) PROVE AttemptsOK'
  <2> DEFINE s == run[p].slot
  <2>0. s \in Slot
    BY <1>r DEF Job
  <2>1. ASSUME NEW x \in Slot, x # s
        PROVE  ws'[x] = ws[x] /\ (Tended(x) => Tended(x)')
    BY <1>3, <1>r, <2>0, <2>1 DEF WriteFiles, Tended, Stop, MachineOK
  <2>2. ws'[s].kind = ws[s].kind /\ (ws[s].kind = "none" \/ ws'[s].lease)
    BY <1>3, <2>0 DEF WriteFiles, MachineOK, Directory
  <2>3. ASSUME NEW x \in Slot
        PROVE  /\ ws'[x].kind = "none" <=> ws[x].kind = "none"
               /\ Tended(x) => Tended(x)' \/ ws[x].kind = "none"
    BY <2>1, <2>2 DEF Tended
  <2>4. QED
    BY <1>0, <1>3, <2>3, AttemptsQuiet DEF WriteFiles
<1>4. ASSUME NEW p \in Process, NEW s \in Slot, StartSetup(p, s) \/ StartSubmit(p, s)
      PROVE  AttemptsOK'
  <2>1. ASSUME NEW x \in Slot, Tended(x) PROVE Tended(x)'
    BY <1>4, <1>r, <2>1, TendedKept DEF StartSetup, StartSubmit, Start, At
  <2>2. QED
    BY <1>0, <1>4, <2>1, AttemptsQuiet DEF StartSetup, StartSubmit
<1>5. ASSUME NEW s \in Slot, Commit(s) PROVE AttemptsOK'
  <2>1. ASSUME NEW x \in Slot PROVE ws'[x].kind = ws[x].kind /\ ws'[x].lease = ws[x].lease
    BY <1>5 DEF Commit, MachineOK, Directory
  <2>2. ASSUME NEW x \in Slot, Tended(x) PROVE Tended(x)'
    BY <1>5, <2>1, <2>2 DEF Tended, Commit
  <2>3. QED
    BY <1>0, <1>5, <2>1, <2>2, AttemptsQuiet DEF Commit
<1>6. ASSUME NEW s \in Slot, ClearFailed(s) PROVE AttemptsOK'
  <2>1. ~Tended(s)
    BY <1>6 DEF ClearFailed, Tended, At
  <2>2. ASSUME NEW x \in Slot, x # s
        PROVE  ws'[x] = ws[x] /\ (Tended(x) => Tended(x)')
    BY <1>6, <2>2 DEF ClearFailed, Removed, Tended, MachineOK
  <2>3. QED
    BY <1>0, <1>6, <2>1, <2>2 DEF AttemptsOK, ClearFailed
<1>7. ASSUME NEW p \in Process, SubmitStep(p) PROVE AttemptsOK'
  <2>1. MachineStep \/ GitHubStep
    BY StepKinds
  <2>2. UNCHANGED <<ws, attempts>>
    BY <1>7 DEF SubmitStep, EnsureFork, PollFork, ReadRemote, AddRemote, Push, Lookup, Create,
                Announce, ghVars
  <2>3. ~(run[p].step = "files")
    BY <1>7 DEF SubmitStep, EnsureFork, PollFork, ReadRemote, AddRemote, Push, Lookup, Create,
                Announce, At
  <2>4. ASSUME NEW q \in Process, q # p PROVE run'[q] = run[q]
    BY <1>7, <1>r, <2>4 DEF SubmitStep, EnsureFork, PollFork, ReadRemote, AddRemote, Push,
                Lookup, Create, Announce, Go, Stop
  <2>5. ASSUME NEW x \in Slot, Tended(x) PROVE Tended(x)'
    BY <2>2, <2>3, <2>4, <2>5, TendedKept
  <2>6. QED
    BY <1>0, <2>2, <2>5, AttemptsQuiet
<1>8. ASSUME UNCHANGED <<ws, run, attempts>> PROVE AttemptsOK'
  <2>1. ASSUME NEW x \in Slot, Tended(x) PROVE Tended(x)'
    BY <1>8, <2>1, TendedKept
  <2>2. QED
    BY <1>0, <1>8, <2>1, AttemptsQuiet
<1>9. ASSUME Loses \/ \E p \in Process : Dies(p) PROVE AttemptsOK'
  BY <1>9, AttemptsByMishap DEF Loses, Dies, Killed, Release, RemoveByHand, DropStore
<1>10. ASSUME (\E s \in Slot : AgentPushes(s) \/ AgentOpens(s))
              \/ (\E w \in Worker : ForkAppears(w)) \/ \E n \in DOMAIN prs : ClosePR(n)
       PROVE  UNCHANGED <<ws, run, attempts>>
  BY <1>10 DEF AgentPushes, AgentOpens, ForkAppears, ClosePR, wsVars
<1>11. QED
  BY <1>1, <1>2, <1>3, <1>4, <1>5, <1>6, <1>7, <1>8, <1>9, <1>10
     DEF CNext, SetsUp, SetsOn, SetupStep, Works, Clears

LEMMA BornHereKept ==
  ASSUME MachineOK, JobsOK, BornHere, CNext
  PROVE  BornHere'
<1>0. ASSUME NEW x \in Slot, ws'[x] = ws[x], branch'[x] = branch[x] \/ branch'[x] = NoTip
                                                               \/ ws[x].kind = "none"
      PROVE  /\ ws'[x].lease => ws'[x].kind # "none"
             /\ ws'[x].kind # "none" /\ TipOf(x)' # NoTip => TipOf(x)'.attempt = ws'[x].attempt
  BY <1>0 DEF BornHere, TipOf
<1>1. ASSUME NEW p \in Process, CreateWorktree(p) PROVE BornHere'
  <2>s. PICK s \in Slot : s = run[p].slot
    BY DEF JobsOK, Job
  <2>1. CASE ws' = [ws EXCEPT ![s] = Begun(s, "tree", NoTip)] /\ CanAdd(s)
             /\ branch' = [branch EXCEPT ![s] = IF @ = NoTip THEN NewTip(s) ELSE @]
    <3>1. ws'[s].kind = "tree" /\ TipOf(s)'.attempt = ws'[s].attempt
      BY <2>1 DEF MachineOK, Begun, NewTip, CanAdd, TipOf
    <3>2. ASSUME NEW x \in Slot, x # s PROVE ws'[x] = ws[x] /\ branch'[x] = branch[x]
      BY <2>1, <3>2 DEF MachineOK
    <3>3. QED
      BY <1>0, <3>1, <3>2 DEF BornHere
  <2>2. CASE UNCHANGED <<ws, branch>>
    BY <1>0, <2>2 DEF BornHere
  <2>3. CASE UNCHANGED ws /\ CanAdd(s) /\ branch' = [branch EXCEPT ![s] = NewTip(s)]
    <3>1. ASSUME NEW x \in Slot PROVE branch'[x] = branch[x] \/ ws[x].kind = "none"
      BY <2>3 DEF MachineOK, CanAdd
    <3>2. QED
      BY <1>0, <2>3, <3>1 DEF BornHere
  <2>4. QED
    BY <1>1, <2>s, <2>1, <2>2, <2>3 DEF CreateWorktree
<1>2. ASSUME NEW p \in Process, LegacyClone(p) PROVE BornHere'
  <2>s. PICK s \in Slot : s = run[p].slot
    BY DEF JobsOK, Job
  <2>1. ASSUME NEW h \in {NoTip, NewTip(s)}, ws' = [ws EXCEPT ![s] = Begun(s, "clone", h)],
               UNCHANGED branch
        PROVE  BornHere'
    <3>1. ws'[s].kind = "clone" /\ (TipOf(s)' # NoTip => TipOf(s)'.attempt = ws'[s].attempt)
      BY <2>1 DEF MachineOK, Begun, NewTip, TipOf
    <3>2. ASSUME NEW x \in Slot, x # s PROVE ws'[x] = ws[x] /\ branch'[x] = branch[x]
      BY <2>1, <3>2 DEF MachineOK
    <3>3. QED
      BY <1>0, <3>1, <3>2 DEF BornHere
  <2>2. CASE UNCHANGED <<ws, branch>>
    BY <1>0, <2>2 DEF BornHere
  <2>3. QED
    BY <1>2, <2>s, <2>1, <2>2 DEF LegacyClone
<1>3. ASSUME NEW p \in Process, WriteFiles(p) PROVE BornHere'
  <2>s. PICK s \in Slot : s = run[p].slot
    BY DEF JobsOK, Job
  <2>1. CASE ws[s].kind = "none" /\ UNCHANGED <<ws, branch>>
    BY <1>0, <2>1 DEF BornHere
  <2>2. CASE ws[s].kind # "none" /\ ws' = [ws EXCEPT ![s].lease = TRUE] /\ UNCHANGED branch
    <3>1. ws'[s].kind = ws[s].kind /\ ws'[s].attempt = ws[s].attempt /\ ws'[s].head = ws[s].head
      BY <2>2 DEF MachineOK, Directory
    <3>2. ASSUME NEW x \in Slot, x # s PROVE ws'[x] = ws[x] /\ branch'[x] = branch[x]
      BY <2>2, <3>2 DEF MachineOK
    <3>3. TipOf(s)' = TipOf(s)
      BY <2>2, <3>1 DEF TipOf
    <3>4. QED
      BY <1>0, <2>2, <3>1, <3>2, <3>3 DEF BornHere
  <2>3. QED
    BY <1>3, <2>s, <2>1, <2>2 DEF WriteFiles
<1>4. ASSUME NEW s \in Slot, Commit(s) PROVE BornHere'
  <2>1. ASSUME NEW x \in Slot, x # s PROVE ws'[x] = ws[x] /\ branch'[x] = branch[x]
    BY <1>4, <2>1 DEF Commit, MachineOK
  <2>2. ws'[s].kind = ws[s].kind /\ ws'[s].attempt = ws[s].attempt /\ ws'[s].lease = ws[s].lease
    BY <1>4 DEF Commit, MachineOK, Directory
  <2>3. TipOf(s) \in Tip
    BY <1>4, TipType DEF Commit
  <2>4. TipOf(s)'.attempt = TipOf(s).attempt
    <3>1. CASE ws[s].kind = "tree"
      BY <1>4, <2>2, <2>3, <3>1 DEF Commit, MachineOK, TipOf, Tip
    <3>2. CASE ws[s].kind # "tree"
      BY <1>4, <2>2, <2>3, <3>2 DEF Commit, MachineOK, TipOf, Tip, Directory
    <3>3. QED
      BY <3>1, <3>2
  <2>5. TipOf(s) # NoTip
    BY <1>4 DEF Commit
  <2>6. QED
    BY <1>0, <2>1, <2>2, <2>4, <2>5 DEF BornHere
<1>5. ASSUME NEW s \in Slot, NEW known, Removed(s, known) PROVE BornHere'
  <2>1. ASSUME NEW x \in Slot, x # s PROVE ws'[x] = ws[x] /\ branch'[x] = branch[x]
    BY <1>5, <2>1 DEF Removed, MachineOK
  <2>2. ws'[s].kind = "none" /\ ~ws'[s].lease
    BY <1>5 DEF Removed, MachineOK, NoWorkspace
  <2>3. QED
    BY <1>0, <2>1, <2>2 DEF BornHere
<1>6. ASSUME NEW w \in Worker, DropStore(w) PROVE BornHere'
  <2>1. ASSUME NEW x \in Slot
        PROVE  ws'[x] = ws[x] /\ (branch'[x] = branch[x] \/ branch'[x] = NoTip)
    BY <1>6 DEF DropStore
  <2>2. QED
    BY <1>0, <2>1 DEF BornHere
<1>7. ASSUME UNCHANGED <<ws, branch>> PROVE BornHere'
  BY <1>0, <1>7 DEF BornHere
<1>8. CASE GitHubStep
  BY <1>7, <1>8, GitHubCost
<1>9. CASE MachineStep
  <2>1. ASSUME NEW p \in Process, NEW s \in Slot, StartSetup(p, s) PROVE BornHere'
    BY <1>7, <2>1 DEF StartSetup
  <2>2. ASSUME NEW p \in Process, Killed(p) PROVE BornHere'
    BY <1>7, <2>2 DEF Killed
  <2>3. ASSUME NEW s \in Slot, ClearFailed(s) \/ RemoveByHand(s) PROVE BornHere'
    BY <1>5, <2>3 DEF ClearFailed, RemoveByHand
  <2>4. ASSUME NEW p \in Process, NEW s \in Slot, Release(p, s) PROVE BornHere'
    BY <1>5, <2>4 DEF Release
  <2>5. QED
    BY <1>1, <1>2, <1>3, <1>4, <1>6, <1>9, <2>1, <2>2, <2>3, <2>4 DEF MachineStep, SetupStep
<1>10. QED
  BY <1>8, <1>9, StepKinds

-----------------------------------------------------------------------------
(* GitHub's side.                                                          *)

\* A pull request keeps its head, and none disappears.
LEMMA PullRequestsStay ==
  ASSUME RemoteOK, JobsOK, CNext
  PROVE  /\ prs' \in Seq(Request)
         /\ \A n \in DOMAIN prs : n \in DOMAIN prs' /\ prs'[n].slot = prs[n].slot
<1>1. ASSUME NEW s \in Slot, prs' = Append(prs, [slot |-> s, open |-> TRUE])
      PROVE  /\ prs' \in Seq(Request)
             /\ \A n \in DOMAIN prs : n \in DOMAIN prs' /\ prs'[n].slot = prs[n].slot
  BY <1>1 DEF RemoteOK, Request
<1>2. ASSUME NEW n \in DOMAIN prs, ClosePR(n)
      PROVE  /\ prs' \in Seq(Request)
             /\ \A m \in DOMAIN prs : m \in DOMAIN prs' /\ prs'[m].slot = prs[m].slot
  <2>1. prs \in Seq(Request) /\ n \in 1..Len(prs) /\ DOMAIN prs = 1..Len(prs)
    BY <1>2 DEF RemoteOK
  <2>2. prs[n] \in Request
    BY <2>1
  <2>3. [prs[n] EXCEPT !.open = FALSE] \in Request
        /\ [prs[n] EXCEPT !.open = FALSE].slot = prs[n].slot
    BY <2>2 DEF Request
  <2>4. prs' = [prs EXCEPT ![n] = [prs[n] EXCEPT !.open = FALSE]]
    BY <1>2 DEF ClosePR
  <2>5. QED
    BY <2>1, <2>3, <2>4
<1>3. ASSUME NEW p \in Process, SubmitStep(p)
      PROVE  UNCHANGED prs \/ \E s \in Slot : prs' = Append(prs, [slot |-> s, open |-> TRUE])
  BY <1>3 DEF SubmitStep, EnsureFork, PollFork, ReadRemote, AddRemote, Push, Lookup, Create,
              Announce, ghVars, JobsOK, Job
<1>4. CASE UNCHANGED prs
  BY <1>4 DEF RemoteOK
<1>5. CASE GitHubStep
  BY <1>1, <1>2, <1>3, <1>4, <1>5
     DEF GitHubStep, StartSubmit, AgentPushes, AgentOpens, ForkAppears, ghVars
<1>6. QED
  BY <1>4, <1>5, StepKinds

LEMMA RemoteKept ==
  ASSUME MachineOK, JobsOK, RemoteOK, CNext
  PROVE  RemoteOK'
<1>1. prs' \in Seq(Request)
  BY PullRequestsStay
<1>2. ASSUME NEW p \in Process, SubmitStep(p)
      PROVE  /\ fork' \in [Worker -> {"none", "pending", "ready"}]
             /\ remotes' \subseteq Worker \cup Slot
             /\ pushed' \in [Slot -> Tip \cup {NoTip}]
  <2>1. run[p].slot \in Slot /\ run[p].slot[1] \in Worker
    BY DEF JobsOK, Job, Worker
  <2>2. TipOf(run[p].slot) \in Tip \cup {NoTip}
    BY <2>1, TipType
  <2>3. CASE EnsureFork(p)
    BY <2>3, SlotOfProcess DEF EnsureFork, RemoteOK
  <2>4. CASE AddRemote(p)
    BY <2>1, <2>4 DEF AddRemote, RemoteOK, Config
  <2>5. CASE Push(p)
    BY <2>1, <2>2, <2>5 DEF Push, RemoteOK
  <2>6. CASE PollFork(p) \/ ReadRemote(p) \/ Lookup(p) \/ Create(p) \/ Announce(p)
    BY <2>6 DEF PollFork, ReadRemote, Lookup, Create, Announce, RemoteOK, ghVars
  <2>7. QED
    BY <1>2, <2>3, <2>4, <2>5, <2>6 DEF SubmitStep
<1>3. ASSUME NEW s \in Slot, AgentPushes(s)
      PROVE  pushed' \in [Slot -> Tip \cup {NoTip}] /\ UNCHANGED <<fork, remotes>>
  BY <1>3, TipType DEF AgentPushes, RemoteOK
<1>4. ASSUME NEW w \in Worker, ForkAppears(w)
      PROVE  /\ fork' \in [Worker -> {"none", "pending", "ready"}]
             /\ UNCHANGED <<remotes, pushed>>
  BY <1>4 DEF ForkAppears, RemoteOK
<1>5. ASSUME remotes' = remotes \/ remotes' = Kept, UNCHANGED <<fork, pushed>>
      PROVE  RemoteOK'
  BY <1>1, <1>5 DEF RemoteOK, Kept
<1>6. ASSUME GitHubStep PROVE RemoteOK'
  <2>1. ASSUME NEW n, ClosePR(n) PROVE UNCHANGED <<fork, remotes, pushed>>
    BY <2>1 DEF ClosePR
  <2>2. ASSUME NEW s, AgentOpens(s) PROVE UNCHANGED <<fork, remotes, pushed>>
    BY <2>2 DEF AgentOpens
  <2>3. ASSUME NEW p, NEW s, StartSubmit(p, s) PROVE UNCHANGED <<fork, remotes, pushed>>
    BY <2>3 DEF StartSubmit, ghVars
  <2>4. QED
    BY <1>1, <1>2, <1>3, <1>4, <1>6, <2>1, <2>2, <2>3 DEF GitHubStep, RemoteOK
<1>7. QED
  BY <1>5, <1>6, StepKinds

-----------------------------------------------------------------------------
(* What a process is about to report, and what the issue was told.         *)

\* A process that has pushed knows a branch that is there; one that is about to
\* comment has a pull request of its own task in hand.
Reported ==
  \A p \in Process :
    /\ run[p].step \in {"lookup", "create", "comment"} => pushed[run[p].slot] # NoTip
    /\ At(p, "comment") => /\ run[p].pr \in DOMAIN prs
                           /\ prs[run[p].pr].slot = run[p].slot

\* Every comment names a pull request of its task.
Told ==
  \A t \in trail : /\ t[1] \in Followed
                   /\ t[2] \in DOMAIN prs
                   /\ prs[t[2]].slot = t[1]

LEMMA ReportedKept ==
  ASSUME MachineOK, JobsOK, RemoteOK, Reported, CNext
  PROVE  Reported'
<1>0. \A n \in DOMAIN prs : n \in DOMAIN prs' /\ prs'[n].slot = prs[n].slot
  BY PullRequestsStay
<1>r. run \in [Process -> Job]
  BY DEF JobsOK
<1>a. \A s \in Slot : pushed[s] # NoTip => pushed'[s] # NoTip
  <2>1. ASSUME NEW p \in Process, Push(p)
        PROVE  \A s \in Slot : pushed[s] # NoTip => pushed'[s] # NoTip
    BY <2>1 DEF Push, Pushable, RemoteOK
  <2>2. ASSUME NEW s \in Slot, AgentPushes(s)
        PROVE  \A x \in Slot : pushed[x] # NoTip => pushed'[x] # NoTip
    BY <2>2 DEF AgentPushes, Pushable, RemoteOK
  <2>3. ASSUME NEW p \in Process, SubmitStep(p), ~Push(p) PROVE UNCHANGED pushed
    BY <2>3 DEF SubmitStep, EnsureFork, PollFork, ReadRemote, AddRemote, Lookup, Create, Announce,
                ghVars
  <2>4. ASSUME NEW n, ClosePR(n) PROVE UNCHANGED pushed
    BY <2>4 DEF ClosePR
  <2>5. CASE GitHubStep
    BY <2>1, <2>2, <2>3, <2>4, <2>5 DEF GitHubStep, StartSubmit, AgentOpens, ForkAppears, ghVars
  <2>6. QED
    BY <2>5, StepKinds
<1>1. ASSUME NEW q \in Process, run'[q] = run[q]
      PROVE  /\ run'[q].step \in {"lookup", "create", "comment"} => pushed'[run'[q].slot] # NoTip
             /\ At(q, "comment")' => /\ run'[q].pr \in DOMAIN prs'
                                     /\ prs'[run'[q].pr].slot = run'[q].slot
  <2>1. run[q].slot \in Slot
    BY <1>r DEF Job
  <2>2. /\ run[q].step \in {"lookup", "create", "comment"} => pushed[run[q].slot] # NoTip
        /\ run[q].step = "comment" => /\ run[q].pr \in DOMAIN prs
                                      /\ prs[run[q].pr].slot = run[q].slot
    BY DEF Reported, At
  <2>3. run'[q].step = run[q].step /\ run'[q].slot = run[q].slot /\ run'[q].pr = run[q].pr
    BY <1>1
  <2>4. /\ run[q].step = "comment" => /\ run[q].pr \in DOMAIN prs'
                                      /\ prs'[run[q].pr].slot = run[q].slot
    BY <1>0, <2>2
  <2>5. run[q].step \in {"lookup", "create", "comment"} => pushed'[run[q].slot] # NoTip
    BY <1>a, <2>1, <2>2
  <2>6. QED
    BY <2>3, <2>4, <2>5 DEF At
<1>2. ASSUME NEW p \in Process,
             \A q \in Process \ {p} : run'[q] = run[q],
             run'[p].step \notin {"lookup", "create", "comment"}
      PROVE  Reported'
  BY <1>1, <1>2 DEF Reported, At
<1>3. ASSUME UNCHANGED run PROVE Reported'
  BY <1>1, <1>3 DEF Reported
<1>4. ASSUME NEW p \in Process, SetupStep(p) PROVE Reported'
  <2>1. (\E step \in {"files", "clone"} : Go(p, step)) \/ Stop(p)
    BY <1>4 DEF SetupStep, CreateWorktree, LegacyClone, WriteFiles
  <2>2. /\ \A q \in Process \ {p} : run'[q] = run[q]
        /\ run'[p].step \in {"files", "clone", "idle"}
    BY <1>r, <2>1 DEF Go, Stop, Idle, Job
  <2>3. QED
    BY <1>2, <2>2
<1>5. ASSUME NEW p \in Process,
             EnsureFork(p) \/ PollFork(p) \/ ReadRemote(p) \/ AddRemote(p) \/ Announce(p)
      PROVE  Reported'
  <2>1. (\E step \in {"remote", "poll", "push", "add"} : Go(p, step)) \/ Stop(p)
    BY <1>5 DEF EnsureFork, PollFork, ReadRemote, AddRemote, Announce
  <2>2. /\ \A q \in Process \ {p} : run'[q] = run[q]
        /\ run'[p].step \in {"remote", "poll", "push", "add", "idle"}
    BY <1>r, <2>1 DEF Go, Stop, Idle, Job
  <2>3. QED
    BY <1>2, <2>2
<1>6. ASSUME NEW p \in Process, Push(p) PROVE Reported'
  <2>1. CASE Stop(p)
    <3>1. /\ \A q \in Process \ {p} : run'[q] = run[q]
          /\ run'[p].step = "idle"
      BY <1>r, <2>1 DEF Stop, Idle
    <3>2. QED
      BY <1>2, <3>1
  <2>2. CASE Go(p, "lookup") /\ Pushable(run[p].slot)
             /\ pushed' = [pushed EXCEPT ![run[p].slot] = TipOf(run[p].slot)]
    <3>1. /\ \A q \in Process \ {p} : run'[q] = run[q]
          /\ run'[p].step = "lookup" /\ run'[p].slot = run[p].slot /\ run[p].slot \in Slot
      BY <1>r, <2>2 DEF Go, Job
    <3>2. pushed'[run'[p].slot] # NoTip
      BY <2>2, <3>1 DEF Pushable, RemoteOK
    <3>3. QED
      BY <1>1, <3>1, <3>2 DEF Reported, At
  <2>3. QED
    BY <1>6, <2>1, <2>2 DEF Push
<1>7. ASSUME NEW p \in Process, Lookup(p) PROVE Reported'
  <2>1. \A q \in Process \ {p} : run'[q] = run[q]
    BY <1>r, <1>7 DEF Lookup, Go
  <2>2. pushed'[run[p].slot] # NoTip
    BY <1>7, <1>a, <1>r DEF Lookup, At, Reported, Job
  <2>3. CASE Go(p, "create")
    <3>1. run'[p].step = "create" /\ run'[p].slot = run[p].slot
      BY <1>r, <2>3 DEF Go, Job
    <3>2. QED
      BY <1>1, <2>1, <2>2, <3>1 DEF Reported, At
  <2>4. ASSUME NEW n \in DOMAIN prs, Matches(run[p].slot, n),
               run' = [run EXCEPT ![p] = [step |-> "comment", slot |-> run[p].slot, pr |-> n]]
        PROVE  Reported'
    <3>1. run'[p].step = "comment" /\ run'[p].slot = run[p].slot /\ run'[p].pr = n
      BY <1>r, <2>4
    <3>2. n \in DOMAIN prs' /\ prs'[n].slot = run[p].slot
      BY <1>0, <2>4 DEF Matches
    <3>3. QED
      BY <1>1, <2>1, <2>2, <3>1, <3>2 DEF Reported, At
  <2>5. QED
    BY <1>7, <2>3, <2>4 DEF Lookup
<1>8. ASSUME NEW p \in Process, Create(p) PROVE Reported'
  <2>1. CASE Stop(p)
    <3>1. /\ \A q \in Process \ {p} : run'[q] = run[q]
          /\ run'[p].step = "idle"
      BY <1>r, <2>1 DEF Stop, Idle
    <3>2. QED
      BY <1>2, <3>1
  <2>2. CASE /\ prs' = Append(prs, [slot |-> run[p].slot, open |-> TRUE])
             /\ run' = [run EXCEPT ![p].step = "comment", ![p].pr = Len(prs')]
    <3>1. /\ \A q \in Process \ {p} : run'[q] = run[q]
          /\ run'[p].step = "comment" /\ run'[p].slot = run[p].slot /\ run'[p].pr = Len(prs')
      BY <1>r, <2>2 DEF Job
    <3>2. Len(prs') \in DOMAIN prs' /\ prs'[Len(prs')].slot = run[p].slot
      BY <2>2, <1>r DEF RemoteOK, Request, Job
    <3>3. pushed'[run[p].slot] # NoTip
      BY <1>8, <1>a, <1>r DEF Create, At, Reported, Job
    <3>4. QED
      BY <1>1, <3>1, <3>2, <3>3 DEF Reported, At
  <2>3. QED
    BY <1>8, <2>1, <2>2 DEF Create
<1>9. ASSUME NEW p \in Process, NEW s \in Slot, SetsUp(p, s) \/ StartSubmit(p, s)
      PROVE  Reported'
  <2>1. /\ \A q \in Process \ {p} : run'[q] = run[q]
        /\ run'[p].step \in {"store", "push", "fork"}
    BY <1>r, <1>9 DEF SetsUp, StartSetup, StartSubmit, Start, At
  <2>2. QED
    BY <1>2, <2>1
<1>10. ASSUME NEW p \in Process, Dies(p) PROVE Reported'
  <2>1. /\ \A q \in Process \ {p} : run'[q] = run[q]
        /\ run'[p].step = "idle"
    BY <1>r, <1>10 DEF Dies, Killed, Stop, Idle
  <2>2. QED
    BY <1>2, <2>1
<1>11. ASSUME NEW s \in Slot, Works(s) \/ Clears(s) \/ AgentPushes(s) \/ AgentOpens(s)
       PROVE  UNCHANGED run
  BY <1>11 DEF Works, Commit, Clears, ClearFailed, AgentPushes, AgentOpens
<1>12. ASSUME Loses \/ (\E w \in Worker : ForkAppears(w)) \/ \E n \in DOMAIN prs : ClosePR(n)
       PROVE  UNCHANGED run
  BY <1>12 DEF Loses, Release, RemoveByHand, DropStore, ForkAppears, ClosePR, wsVars
<1>13. QED
  BY <1>3, <1>4, <1>5, <1>6, <1>7, <1>8, <1>9, <1>10, <1>11, <1>12
     DEF CNext, SetsOn, SubmitStep

LEMMA ToldKept ==
  ASSUME JobsOK, RemoteOK, Reported, Told, CNext
  PROVE  Told'
<1>1. \A n \in DOMAIN prs : n \in DOMAIN prs' /\ prs'[n].slot = prs[n].slot
  BY PullRequestsStay
<1>2. ASSUME NEW p \in Process, SubmitStep(p), ~Announce(p) PROVE UNCHANGED trail
  BY <1>2 DEF SubmitStep, EnsureFork, PollFork, ReadRemote, AddRemote, Push, Lookup, Create, ghVars
<1>3. ASSUME NEW n, ClosePR(n) PROVE UNCHANGED trail
  BY <1>3 DEF ClosePR
<1>4. CASE UNCHANGED trail
  BY <1>1, <1>4 DEF Told
<1>5. ASSUME NEW p \in Process, Announce(p) PROVE Told'
  <2>1. /\ run[p].slot \in Slot /\ run[p].slot[1] = WorkerOf[p]
        /\ run[p].pr \in DOMAIN prs /\ prs[run[p].pr].slot = run[p].slot
    BY <1>5 DEF Announce, At, JobsOK, Job, Reported
  <2>2. run[p].slot \in Followed
    BY <2>1 DEF Followed
  <2>3. trail' = trail \cup {<<run[p].slot, run[p].pr>>} /\ prs' = prs
    BY <1>5 DEF Announce
  <2>4. QED
    BY <2>1, <2>2, <2>3 DEF Told
<1>6. CASE GitHubStep
  BY <1>2, <1>3, <1>4, <1>5, <1>6
     DEF GitHubStep, StartSubmit, AgentPushes, AgentOpens, ForkAppears, ghVars
<1>7. QED
  BY <1>4, <1>6, StepKinds

\* GitHub allows a head one open pull request.
OneOpen == \A s \in Slot : \A m, n \in OpenOf(s) : m = n

\* What a step does to the open pull requests, and so to the ones there ever were.
Opens(s) ==
  /\ OpenOf(s) = {}
  /\ prs' = Append(prs, [slot |-> s, open |-> TRUE])

LEMMA OpenAfterAppend ==
  ASSUME RemoteOK, NEW s \in Slot, Opens(s)
  PROVE  /\ OpenOf(s)' = {Len(prs) + 1}
         /\ \A x \in Slot \ {s} : OpenOf(x)' = OpenOf(x)
         /\ {prs'[n].slot : n \in DOMAIN prs'} = {prs[n].slot : n \in DOMAIN prs} \cup {s}
<1>1. /\ Len(prs) \in Nat /\ DOMAIN prs = 1..Len(prs)
      /\ DOMAIN prs' = DOMAIN prs \cup {Len(prs) + 1}
      /\ \A n \in DOMAIN prs : prs'[n] = prs[n]
      /\ prs'[Len(prs) + 1] = [slot |-> s, open |-> TRUE]
  BY DEF RemoteOK, Opens, Request
<1>2. Len(prs) + 1 \notin DOMAIN prs
  BY <1>1
<1>3. OpenOf(s)' = {Len(prs) + 1}
  BY <1>1 DEF OpenOf, Opens
<1>4. ASSUME NEW x \in Slot \ {s} PROVE OpenOf(x)' = OpenOf(x)
  BY <1>1 DEF OpenOf
<1>5. {prs'[n].slot : n \in DOMAIN prs'} = {prs[n].slot : n \in DOMAIN prs} \cup {s}
  BY <1>1
<1>6. QED
  BY <1>3, <1>4, <1>5

LEMMA OpenAfterClose ==
  ASSUME RemoteOK, NEW n \in DOMAIN prs, ClosePR(n), NEW s \in Slot, s = prs[n].slot
  PROVE  /\ n \in OpenOf(s)
         /\ OpenOf(s)' = OpenOf(s) \ {n}
         /\ \A x \in Slot \ {s} : OpenOf(x)' = OpenOf(x)
         /\ {prs'[m].slot : m \in DOMAIN prs'} = {prs[m].slot : m \in DOMAIN prs}
<1>0. /\ DOMAIN prs = 1..Len(prs) /\ \A m \in DOMAIN prs : prs[m] \in Request
  BY DEF RemoteOK
<1>1. /\ DOMAIN prs' = DOMAIN prs
      /\ \A m \in DOMAIN prs \ {n} : prs'[m] = prs[m]
      /\ prs'[n] = [prs[n] EXCEPT !.open = FALSE]
  BY <1>0 DEF ClosePR
<1>2. prs'[n].slot = prs[n].slot /\ prs'[n].open = FALSE
  BY <1>0, <1>1 DEF Request
<1>3. n \in OpenOf(s)
  BY <1>0 DEF OpenOf, ClosePR
<1>4. OpenOf(s)' = OpenOf(s) \ {n}
  BY <1>1, <1>2 DEF OpenOf
<1>5. ASSUME NEW x \in Slot \ {s} PROVE OpenOf(x)' = OpenOf(x)
  BY <1>1, <1>2 DEF OpenOf
<1>6. {prs'[m].slot : m \in DOMAIN prs'} = {prs[m].slot : m \in DOMAIN prs}
  BY <1>1, <1>2
<1>7. QED
  BY <1>3, <1>4, <1>5, <1>6

LEMMA OneOpenKept ==
  ASSUME JobsOK, RemoteOK, OneOpen, CNext
  PROVE  OneOpen'
<1>1. ASSUME NEW s \in Slot, Opens(s) PROVE OneOpen'
  BY <1>1, OpenAfterAppend DEF OneOpen
<1>2. ASSUME NEW n \in DOMAIN prs, ClosePR(n) PROVE OneOpen'
  <2>1. PICK s \in Slot : s = prs[n].slot
    <3>1. prs[n] \in Request
      BY DEF RemoteOK
    <3>2. QED
      BY <3>1 DEF Request
  <2>2. QED
    BY <1>2, <2>1, OpenAfterClose DEF OneOpen
<1>3. CASE UNCHANGED prs
  BY <1>3 DEF OneOpen, OpenOf
<1>4. ASSUME NEW p \in Process, SubmitStep(p)
      PROVE  UNCHANGED prs \/ \E s \in Slot : Opens(s)
  BY <1>4 DEF SubmitStep, EnsureFork, PollFork, ReadRemote, AddRemote, Push, Lookup, Create,
              Announce, ghVars, JobsOK, Job, Opens
<1>5. CASE GitHubStep
  BY <1>1, <1>2, <1>3, <1>4, <1>5
     DEF GitHubStep, StartSubmit, AgentPushes, AgentOpens, ForkAppears, ghVars, Opens
<1>6. QED
  BY <1>3, <1>5, StepKinds

-----------------------------------------------------------------------------
(* The theorems.                                                           *)

CInv ==
  /\ MachineOK /\ RemoteOK /\ JobsOK
  /\ AttemptsOK /\ BornHere
  /\ Reported /\ Told /\ OneOpen

\* At the start at most one pull request is there, of nobody followed.
LEMMA InitialRequests ==
  ASSUME CInit
  PROVE  /\ prs \in Seq(Request)
         /\ \A m, n \in DOMAIN prs : m = n
         /\ \A n \in DOMAIN prs : prs[n].slot \notin Followed
<1>1. CASE prs = <<>>
  BY <1>1
<1>2. ASSUME NEW s \in Slot \ Followed, prs = <<[slot |-> s, open |-> TRUE]>>
      PROVE  /\ prs \in Seq(Request)
             /\ \A m, n \in DOMAIN prs : m = n
             /\ \A n \in DOMAIN prs : prs[n].slot \notin Followed
  BY <1>2 DEF Request
<1>3. QED
  BY <1>1, <1>2 DEF CInit, Elsewhere

LEMMA CInitInv ==
  ASSUME CInit
  PROVE  CInv
<1>1. MachineOK
  BY WorkspaceAssumption, NoWorkspaceType DEF CInit, WsInit, MachineOK
<1>2. RemoteOK
  <2>1. [attempt |-> 1, commits |-> 1] \in Tip
    BY WorkspaceAssumption DEF Tip
  <2>2. QED
    BY <2>1, InitialRequests DEF CInit, RemoteOK
<1>3. JobsOK
  BY SlotOfProcess DEF CInit, WsInit, JobsOK, Idle
<1>4. AttemptsOK
  BY WorkspaceAssumption DEF CInit, WsInit, AttemptsOK
<1>5. BornHere
  BY DEF CInit, WsInit, BornHere, NoWorkspace
<1>6. Reported
  BY DEF CInit, WsInit, Reported, Idle, At
<1>7. Told
  BY DEF CInit, Told
<1>8. OneOpen
  BY InitialRequests DEF OneOpen, OpenOf
<1>9. QED
  BY <1>1, <1>2, <1>3, <1>4, <1>5, <1>6, <1>7, <1>8 DEF CInv

LEMMA CInvKept ==
  ASSUME CInv, [CNext]_allVars
  PROVE  CInv'
<1>1. CASE CNext
  <2>1. MachineOK'
    BY <1>1, StepKinds, MachineKept, GitHubCost DEF CInv
  <2>2. RemoteOK' /\ JobsOK' /\ OneOpen' /\ Told'
    BY <1>1, RemoteKept, JobsKept, OneOpenKept, ToldKept DEF CInv
  <2>3. AttemptsOK' /\ BornHere' /\ Reported'
    BY <1>1, AttemptsKept, BornHereKept, ReportedKept DEF CInv
  <2>4. QED
    BY <2>1, <2>2, <2>3 DEF CInv
<1>2. CASE UNCHANGED allVars
  BY <1>2 DEF allVars, wsVars, ghVars, CInv, MachineOK, RemoteOK, JobsOK, AttemptsOK, Tended,
              BornHere, TipOf, Reported, At, Told, OneOpen, OpenOf
<1>3. QED
  BY <1>1, <1>2

\* The conjuncts above hold in every state of workspaces, submits and GitHub's
\* other actors, for any number of workers, tasks, processes and mishaps.
THEOREM ContributionInvariant == CSpec => []CInv
<1>1. CInit => CInv
  BY CInitInv
<1>2. CInv /\ [CNext]_allVars => CInv'
  BY CInvKept
<1>3. QED
  BY <1>1, <1>2, PTL DEF CSpec

\* Every branch, workspace, fork, request and process stays well formed; in
\* particular no attempt is counted beyond its bound, and a process that reports
\* a pull request has one in hand.
THEOREM ContributionTypeCorrect == CSpec => []CTypeOK
<1>1. CInv => CTypeOK
  BY DEF CInv, CTypeOK, WsTypeOK, MachineOK, RemoteOK, JobsOK, Reported, Directory, Job, At
<1>2. QED
  BY <1>1, ContributionInvariant, PTL

\* No killed setup, leftover branch or earlier claim ever puts another attempt's
\* work under a workspace's lease (setup_workspace, create_worktree).
THEOREM FreshWork == CSpec => []FreshStart
<1>1. CInv => FreshStart
  BY DEF CInv, BornHere, FreshStart
<1>2. QED
  BY <1>1, ContributionInvariant, PTL

\* A submit reports only a pull request of its own branch, whoever else works on
\* a branch of the same name (client/submit.py _find_open_pr).
THEOREM OwnWork == CSpec => []OwnWorkReported
<1>1. CInv => OwnWorkReported
  BY DEF CInv, Reported, OwnWorkReported
<1>2. QED
  BY <1>1, ContributionInvariant, PTL

-----------------------------------------------------------------------------
(* The refinement: every step of a submit is an abstract step or none.     *)

\* Zero or one: what the abstract specification counts.
LEMMA OpenCount ==
  ASSUME CInv, NEW s \in Slot
  PROVE  /\ Cardinality(OpenOf(s)) = 0 <=> OpenOf(s) = {}
         /\ OpenOf(s) # {} => Cardinality(OpenOf(s)) = 1
<1>1. CASE OpenOf(s) = {}
  BY <1>1, FS_EmptySet
<1>2. CASE OpenOf(s) # {}
  <2>1. PICK n : n \in OpenOf(s)
    BY <1>2
  <2>2. OpenOf(s) = {n}
    BY <2>1 DEF CInv, OneOpen
  <2>3. Cardinality({n}) = 1
    BY FS_Singleton
  <2>4. QED
    BY <1>2, <2>2, <2>3
<1>3. QED
  BY <1>1, <1>2

\* The refinement mapping, as Contribution's Published states it.
public == [s \in Followed |-> pushed[s]]
open == [s \in Followed |-> Cardinality(OpenOf(s))]
opened == {prs[n].slot : n \in DOMAIN prs} \cap Followed
announced == {c[1] : c \in {t \in trail : prs[t[2]].slot = t[1]}}

LEMMA AnnouncedOf ==
  ASSUME Told
  PROVE  announced = {t[1] : t \in trail}
BY DEF Told, announced

\* A push moves one branch on and nothing else.
LEMMA PushRefines ==
  ASSUME CInv, CInv', NEW s \in Slot, Pushable(s),
         pushed' = [pushed EXCEPT ![s] = TipOf(s)], UNCHANGED <<prs, trail>>
  PROVE  [Published!Next]_(Published!vars)
<1>1. UNCHANGED <<open, opened, announced>>
  BY DEF open, opened, announced, OpenOf
<1>2. CASE s \in Followed
  <2>1. public' = [public EXCEPT ![s] = TipOf(s)]
    BY <1>2 DEF public, CInv, RemoteOK, Followed
  <2>2. TipOf(s) \in Tip /\ (public[s] # NoTip => Extends(TipOf(s), public[s]))
    BY <1>2, TipType DEF CInv, Pushable, FastForward, public
  <2>3. Published!Push(s)
    BY <1>1, <2>1, <2>2 DEF Published!Push, public, open, opened, announced
  <2>4. QED
    BY <1>2, <2>3 DEF Published!Next
<1>3. CASE s \notin Followed
  <2>1. public' = public
    BY <1>3 DEF public, CInv, RemoteOK, Followed
  <2>2. QED
    BY <1>1, <2>1 DEF Published!vars, public, open, opened, announced
<1>4. QED
  BY <1>2, <1>3

LEMMA OpenRefines ==
  ASSUME CInv, CInv', NEW s \in Slot, Opens(s), pushed[s] # NoTip, UNCHANGED <<pushed, trail>>
  PROVE  [Published!Next]_(Published!vars)
<1>1. public' = public /\ announced' = announced
  BY AnnouncedOf DEF public, CInv, announced, Told
<1>2. /\ OpenOf(s)' = {Len(prs) + 1}
      /\ \A x \in Slot \ {s} : OpenOf(x)' = OpenOf(x)
      /\ opened' = (opened \cup {s}) \cap Followed
  BY OpenAfterAppend DEF CInv, opened
<1>3. CASE s \in Followed
  <2>1. opened' = opened \cup {s}
    BY <1>2, <1>3 DEF opened
  <2>2. open[s] = 0
    BY <1>3, OpenCount DEF open, Opens
  <2>3. Cardinality(OpenOf(s)') = 1
    BY <1>2, FS_Singleton
  <2>4. open' = [open EXCEPT ![s] = 1]
    BY <1>2, <1>3, <2>3 DEF open, Followed
  <2>5. public[s] # NoTip
    BY <1>3 DEF public
  <2>6. Published!Open(s)
    BY <1>1, <2>1, <2>2, <2>4, <2>5 DEF Published!Open, public, open, opened, announced
  <2>7. QED
    BY <1>3, <2>6 DEF Published!Next
<1>4. CASE s \notin Followed
  <2>1. opened' = opened
    BY <1>2, <1>4 DEF opened
  <2>2. open' = open
    BY <1>2, <1>4 DEF open, Followed
  <2>3. QED
    BY <1>1, <2>1, <2>2 DEF Published!vars, public, open, opened, announced
<1>5. QED
  BY <1>3, <1>4

LEMMA CloseRefines ==
  ASSUME CInv, CInv', NEW n \in DOMAIN prs, ClosePR(n)
  PROVE  [Published!Next]_(Published!vars)
<1>0. PICK s \in Slot : s = prs[n].slot
  <2>1. prs[n] \in Request
    BY DEF CInv, RemoteOK
  <2>2. QED
    BY <2>1 DEF Request
<1>1. public' = public /\ announced' = announced
  BY AnnouncedOf DEF public, CInv, announced, Told, ClosePR
<1>2. /\ n \in OpenOf(s)
      /\ OpenOf(s)' = OpenOf(s) \ {n}
      /\ \A x \in Slot \ {s} : OpenOf(x)' = OpenOf(x)
      /\ opened' = opened
  BY <1>0, OpenAfterClose DEF CInv, opened
<1>3. CASE s \in Followed
  <2>1. open[s] = 1
    BY <1>2, <1>3, OpenCount DEF open
  <2>2. OpenOf(s)' = {}
    BY <1>2 DEF CInv, OneOpen
  <2>3. open' = [open EXCEPT ![s] = 0]
    BY <1>2, <1>3, <2>2, FS_EmptySet DEF open, Followed
  <2>4. Published!Close(s)
    BY <1>1, <1>2, <2>1, <2>3 DEF Published!Close, public, open, opened, announced
  <2>5. QED
    BY <1>3, <2>4 DEF Published!Next
<1>4. CASE s \notin Followed
  <2>1. open' = open
    BY <1>2, <1>4 DEF open, Followed
  <2>2. QED
    BY <1>1, <1>2, <2>1 DEF Published!vars, public, open, opened, announced
<1>5. QED
  BY <1>3, <1>4

LEMMA AnnounceRefines ==
  ASSUME CInv, CInv', NEW p \in Process, Announce(p)
  PROVE  [Published!Next]_(Published!vars)
<1>0. PICK s \in Slot : s = run[p].slot
  BY DEF CInv, JobsOK, Job
<1>1. /\ run[p].step = "comment" /\ trail' = trail \cup {<<s, run[p].pr>>}
      /\ UNCHANGED <<pushed, prs>>
  BY <1>0 DEF Announce, At
<1>2. /\ s \in Followed /\ run[p].pr \in DOMAIN prs /\ prs[run[p].pr].slot = s
  BY <1>0, <1>1 DEF CInv, JobsOK, Reported, Followed, At
<1>3. UNCHANGED <<public, open, opened>>
  BY <1>1 DEF public, open, opened, OpenOf
<1>4. announced' = announced \cup {s}
  <2>1. announced = {t[1] : t \in trail} /\ announced' = {t[1] : t \in trail'}
    BY AnnouncedOf DEF CInv, announced, Told
  <2>2. <<s, run[p].pr>>[1] = s
    OBVIOUS
  <2>3. {t[1] : t \in trail \cup {<<s, run[p].pr>>}} = {t[1] : t \in trail} \cup {s}
    BY <2>2, Zenon
  <2>4. QED
    BY <1>1, <2>1, <2>3
<1>5. s \in opened
  BY <1>2 DEF opened
<1>6. Published!Announce(s)
  BY <1>3, <1>4, <1>5 DEF Published!Announce, public, open, opened, announced
<1>7. QED
  BY <1>2, <1>6 DEF Published!Next

LEMMA StepRefines ==
  ASSUME CInv, CInv', [CNext]_allVars
  PROVE  [Published!Next]_(Published!vars)
<1>1. CASE UNCHANGED <<pushed, prs, trail>>
  BY <1>1 DEF Published!vars, OpenOf
<1>2. ASSUME NEW p \in Process, SubmitStep(p) PROVE [Published!Next]_(Published!vars)
  <2>1. run[p].slot \in Slot
    BY DEF CInv, JobsOK, Job
  <2>2. ASSUME Push(p) PROVE [Published!Next]_(Published!vars)
    BY <1>1, <2>1, <2>2, PushRefines DEF Push
  <2>3. ASSUME Create(p) PROVE [Published!Next]_(Published!vars)
    <3>1. pushed[run[p].slot] # NoTip
      BY <2>3 DEF Create, At, CInv, Reported
    <3>2. UNCHANGED <<pushed, trail>> /\ (UNCHANGED prs \/ Opens(run[p].slot))
      BY <2>3 DEF Create, Opens
    <3>3. QED
      BY <1>1, <2>1, <3>1, <3>2, OpenRefines
  <2>4. ASSUME Announce(p) PROVE [Published!Next]_(Published!vars)
    BY <2>4, AnnounceRefines
  <2>5. ASSUME EnsureFork(p) \/ PollFork(p) \/ ReadRemote(p) \/ AddRemote(p) \/ Lookup(p)
        PROVE  UNCHANGED <<pushed, prs, trail>>
    BY <2>5 DEF EnsureFork, PollFork, ReadRemote, AddRemote, Lookup, ghVars
  <2>6. QED
    BY <1>1, <1>2, <2>2, <2>3, <2>4, <2>5 DEF SubmitStep
<1>3. ASSUME NEW s \in Slot, AgentPushes(s) PROVE [Published!Next]_(Published!vars)
  BY <1>3, PushRefines DEF AgentPushes
<1>4. ASSUME NEW s \in Slot, AgentOpens(s) PROVE [Published!Next]_(Published!vars)
  BY <1>4, OpenRefines DEF AgentOpens, Opens
<1>5. ASSUME NEW n \in DOMAIN prs, ClosePR(n) PROVE [Published!Next]_(Published!vars)
  BY <1>5, CloseRefines
<1>6. CASE GitHubStep
  <2>1. ASSUME NEW p, NEW s, StartSubmit(p, s) PROVE UNCHANGED <<pushed, prs, trail>>
    BY <2>1 DEF StartSubmit, ghVars
  <2>2. ASSUME NEW w, ForkAppears(w) PROVE UNCHANGED <<pushed, prs, trail>>
    BY <2>2 DEF ForkAppears
  <2>3. QED
    BY <1>1, <1>2, <1>3, <1>4, <1>5, <1>6, <2>1, <2>2 DEF GitHubStep
<1>7. CASE UNCHANGED allVars
  BY <1>1, <1>7 DEF allVars, ghVars
<1>8. QED
  BY <1>1, <1>6, <1>7, StepKinds

LEMMA InitRefines ==
  ASSUME CInit
  PROVE  Published!Init
<1>1. ASSUME NEW s \in Followed PROVE OpenOf(s) = {} /\ pushed[s] = NoTip
  <2>1. OpenOf(s) = {} /\ s \in Slot
    BY InitialRequests DEF OpenOf, Followed
  <2>2. QED
    BY <2>1 DEF CInit
<1>2. public = [s \in Followed |-> NoTip]
  BY <1>1 DEF public
<1>3. open = [s \in Followed |-> 0]
  BY <1>1, FS_EmptySet DEF open
<1>4. opened = {}
  BY InitialRequests DEF opened
<1>5. announced = {}
  BY DEF CInit, announced
<1>6. QED
  BY <1>2, <1>3, <1>4, <1>5 DEF Published!Init, public, open, opened, announced

\* Submitting implements the abstract publication: pushed work only grows, one
\* pull request at a time proposes it, the issue hears only of one that was
\* opened (client/submit.py submit_at).
THEOREM PublicationRefinement == CSpec => ImplementsPublication
<1>1. CInit => Published!Init
  BY InitRefines
<1>2. CInv /\ CInv' /\ [CNext]_allVars => [Published!Next]_(Published!vars)
  BY StepRefines
<1>3. QED
  BY <1>1, <1>2, ContributionInvariant, PTL DEF CSpec, ImplementsPublication, Published!Spec
=============================================================================
