----------------------------- MODULE Lifecycle ------------------------------
(***************************************************************************)
(* The lifecycle labels of one task issue, on top of its lease protocol.   *)
(* Three programs write them, none of them under a lock:                   *)
(*   sync    orchestrator/leases.py sync_lease_labels, from cli.py's       *)
(*           sync-leases: list the issues, read the thread, edit           *)
(*   intake  .github/workflows/issue-intake.yml and gate/state/intake_cli  *)
(*   recon   gate/reconcile/cli.py, daily                                  *)
(* Lease sees all of it as Relabel.  The labels choir/task and             *)
(* choir/type:* are always there once added and are left out, and so are   *)
(* the retired heartbeat:* labels, which no program adds any more.         *)
(***************************************************************************)
EXTENDS Lease

CONSTANTS
  Record,          \* the task records a body may parse to
  BadBody,         \* a body that does not parse
  HalfSnapshots,   \* may an event show an edit's added label beside the removed?
  Threshold,       \* [reconcile] stale_after_days, in clock ticks
  WritersFail,     \* may a request of these programs fail?
  MaxEdits         \* bound: how often the body is edited

ASSUME LifecycleAssumption ==
  /\ BadBody \notin Record
  /\ HalfSnapshots \in BOOLEAN
  /\ Threshold \in Nat
  /\ WritersFail \in BOOLEAN
  /\ MaxEdits \in Nat

VARIABLES
  body,      \* the record the issue body parses to, or BadBody
  acks,      \* the records with a choir-intake-ack comment
  updated,   \* the issue's updated_at
  sync,      \* the orchestrator's sweep: its listing, instant and decision
  intake,    \* the one intake run (the concurrency group holds one)
  recon,     \* the step the reconciliation run is at
  edits,     \* edits of the body so far
  fault      \* the one failure explored: what it hit, or "none"

lifeVars == <<body, acks, updated, sync, intake, recon, edits, fault>>
leaseVars == <<thread, clock, pc, now, sess, target, mine, outcome, wins>>
allVars == <<vars, lifeVars>>

Body == Record \cup {BadBody}

\* One `gh issue edit`.
Edit == [add : SUBSET Label, remove : SUBSET Label]
Adding(l) == [add |-> {l}, remove |-> {}]
Removing(l) == [add |-> {}, remove |-> {l}]
Edited(labels, edit) == (labels \cup edit.add) \ edit.remove

SyncIdle == [step |-> "idle", labels |-> {}, at |-> 0, want |-> "available"]
NoRun == [step |-> "none", body |-> BadBody, fresh |-> FALSE, todo |-> <<>>]
NewRun(b) == [step |-> "parse", body |-> b, fresh |-> FALSE, todo |-> <<>>]

LifeInit ==
  /\ Init
  /\ issue = [open |-> TRUE, labels |-> {"available"}, pinAhead |-> FALSE]
  /\ body \in Body
  /\ acks = {}
  /\ updated = 0
  /\ sync = SyncIdle
  /\ intake = NewRun(body)
  /\ recon = "idle"
  /\ edits = 0
  /\ fault = "none"

\* The bound: one request fails.
Fail(kind) ==
  /\ WritersFail
  /\ fault = "none"
  /\ fault' = kind

Relabeled(labels) ==
  /\ issue' = [issue EXCEPT !.labels = labels]
  /\ updated' = IF labels # issue.labels THEN clock ELSE updated

-----------------------------------------------------------------------------
(* What starts an intake run.                                              *)

\* Mutation: only tasks on offer are looked at again.
MutOnlyAvailable(labels) == "available" \in labels

\* The job's `if`: the labels of the event's snapshot.
Onboarding(labels) == labels \cap {"available", "invalid"} # {}

\* A body edited or a label added by a person (the orchestrator runs under
\* one's login): a new run on the body b, which cancels the one in progress
\* also when its own job is then skipped.
Trigger(labels, b) == intake' = IF Onboarding(labels) THEN NewRun(b) ELSE NoRun

Snapshots(edit) ==
  {Edited(issue.labels, edit)}
    \cup (IF HalfSnapshots THEN {issue.labels \cup edit.add} ELSE {})

\* An edit under a person's login; adding what is there already is no event.
EditByPerson(edit) ==
  /\ Relabeled(Edited(issue.labels, edit))
  /\ IF edit.add \subseteq issue.labels THEN UNCHANGED intake
     ELSE \E labels \in Snapshots(edit) : Trigger(labels, body)

\* An edit with the workflow token starts no run.
EditByBot(edit) == Relabeled(Edited(issue.labels, edit))

-----------------------------------------------------------------------------
(* sync-leases                                                             *)

\* The listing, and then the one instant the whole sweep is decided against.
SyncList ==
  /\ sync.step = "idle"
  /\ issue.open
  /\ issue.labels \cap {"available", "claimed"} # {}
  /\ sync' = [step |-> "listed", labels |-> issue.labels, at |-> clock, want |-> "available"]
  /\ UNCHANGED <<leaseVars, issue, body, acks, updated, intake, recon, edits, fault>>

Wanted(decision) == IF decision.holder = NoWorker THEN "available" ELSE "claimed"

\* Read the thread; go on only if the listed labels do not say so already.
SyncDecide ==
  /\ sync.step = "listed"
  /\ \E n \in Readable :
       LET want == Wanted(Decide(thread, n, sync.at)) IN
       sync' = IF want \in sync.labels THEN SyncIdle
               ELSE [sync EXCEPT !.step = "edit", !.want = want]
  /\ UNCHANGED <<leaseVars, issue, body, acks, updated, intake, recon, edits, fault>>

\* One add, and one remove of the other label if it was in the listing.
PairedEdit ==
  [ add    |-> {sync.want},
    remove |-> ({"available", "claimed"} \ {sync.want}) \cap sync.labels ]

SyncEdit ==
  /\ sync.step = "edit"
  /\ EditByPerson(PairedEdit)
  /\ sync' = SyncIdle
  /\ UNCHANGED <<leaseVars, body, acks, recon, edits, fault>>

\* A request fails and the sweep with it; of the edit one half may be done.
SyncFails ==
  /\ sync.step # "idle"
  /\ \/ Fail("sweep") /\ UNCHANGED <<issue, updated, intake>>
     \/ /\ sync.step = "edit"
        /\ Fail("edit")
        /\ \E half \in {[PairedEdit EXCEPT !.remove = {}], [PairedEdit EXCEPT !.add = {}]} :
             EditByPerson(half)
  /\ sync' = SyncIdle
  /\ UNCHANGED <<leaseVars, body, acks, recon, edits>>

-----------------------------------------------------------------------------
(* issue-intake                                                            *)

\* A maintainer edits the body, perhaps only the prose around the record.
EditBody ==
  /\ edits < MaxEdits
  /\ edits' = edits + 1
  /\ \E b \in Body : body' = b /\ Trigger(issue.labels, b)
  /\ updated' = clock
  /\ UNCHANGED <<leaseVars, issue, acks, sync, recon, fault>>

\* build_payload: should_post_comment, add_labels and remove_labels.
Unacknowledged(b, prior) == b = BadBody \/ b \notin prior

\* Mutation: the old label goes before the new one is there.
MutRemoveFirst(b) == IF b = BadBody THEN <<Removing("available"), Adding("invalid")>>
                     ELSE <<Removing("invalid"), Adding("available")>>

LabelEdits(b) == IF b = BadBody THEN <<Adding("invalid"), Removing("available")>>
                 ELSE <<Adding("available"), Removing("invalid")>>

\* Fetch the comments (the marker scan sees none if that fails) and validate
\* the body of the event.
IntakeParse ==
  /\ intake.step = "parse"
  /\ \E prior \in {acks, {}} :
       /\ \/ prior = acks /\ UNCHANGED fault
          \/ prior # acks /\ Fail("fetch")
       /\ intake' = [intake EXCEPT !.step = "comment",
                                   !.fresh = Unacknowledged(intake.body, prior),
                                   !.todo = LabelEdits(intake.body)]
  /\ UNCHANGED <<leaseVars, issue, body, acks, updated, sync, recon, edits>>

\* jq's `.should_post_comment // true`: the alternative replaces false as well.
ShouldPost(run) == IF run.fresh THEN run.fresh ELSE TRUE

IntakeComment ==
  /\ intake.step = "comment"
  /\ intake' = [intake EXCEPT !.step = "labels"]
  /\ IF ShouldPost(intake)
       THEN /\ acks' = acks \cup ({intake.body} \cap Record)
            /\ updated' = clock
       ELSE UNCHANGED <<acks, updated>>
  /\ UNCHANGED <<leaseVars, issue, body, sync, recon, edits, fault>>

\* Mutation: the loop over the labels runs once too often.
MutOnceTooOften(run) == [run EXCEPT !.todo = Tail(@)]

AfterLabel(run) ==
  IF Len(run.todo) = 1 THEN NoRun ELSE [run EXCEPT !.todo = Tail(@)]

\* One label after the other, each attempt `|| true`.
IntakeLabel ==
  /\ intake.step = "labels"
  /\ \/ EditByBot(Head(intake.todo)) /\ UNCHANGED fault
     \/ Fail("edit") /\ UNCHANGED <<issue, updated>>
  /\ intake' = AfterLabel(intake)
  /\ UNCHANGED <<leaseVars, body, acks, sync, recon, edits>>

\* The run dies: its setup or its comment fails (`set -e`), or the runner is lost.
IntakeFails ==
  /\ intake.step # "none"
  /\ Fail("intake")
  /\ intake' = NoRun
  /\ UNCHANGED <<leaseVars, issue, body, acks, updated, sync, recon, edits>>

-----------------------------------------------------------------------------
(* reconcile                                                               *)

\* List the claimed issues; take one that has been quiet beyond the threshold.
ReconList ==
  /\ recon = "idle"
  /\ issue.open
  /\ "claimed" \in issue.labels
  /\ clock - updated > Threshold
  /\ recon' = "comment"
  /\ UNCHANGED <<leaseVars, issue, body, acks, updated, sync, intake, edits, fault>>

ReconComment ==
  /\ recon = "comment"
  /\ recon' = "edit"
  /\ updated' = clock
  /\ UNCHANGED <<leaseVars, issue, body, acks, sync, intake, edits, fault>>

\* Mutation: the reclaim also writes the release its claimant never posted.
MutRelease ==
  /\ recon = "edit"
  /\ recon' = "idle"
  /\ EditByBot([add |-> {"available"}, remove |-> {"claimed"}])
  /\ thread' = Append(thread, [ login   |-> CHOOSE l \in Login : TRUE,
                                session |-> NoSession,
                                action  |-> "release",
                                stamp   |-> clock ])
  /\ UNCHANGED <<clock, pc, now, sess, target, mine, outcome, wins>>
  /\ UNCHANGED <<body, acks, sync, intake, edits, fault>>

\* Demote the label, whatever has happened since the listing.
ReconEdit ==
  /\ recon = "edit"
  /\ recon' = "idle"
  /\ EditByBot([add |-> {"available"}, remove |-> {"claimed"}])
  /\ UNCHANGED <<leaseVars, body, acks, sync, intake, edits, fault>>

\* The first request that fails abandons the issue until the next day.
ReconFails ==
  /\ recon # "idle"
  /\ Fail("recon")
  /\ recon' = "idle"
  /\ UNCHANGED <<leaseVars, issue, body, acks, updated, sync, intake, edits>>

-----------------------------------------------------------------------------
(* The clients' calls.  A new comment moves updated_at; whether editing one *)
(* does is GitHub's affair.                                                *)

ClientCall(c) ==
  /\ Call(c)
  /\ updated' \in IF thread' = thread THEN {updated}
                  ELSE IF Len(thread') > Len(thread) THEN {clock}
                  ELSE {updated, clock}
  /\ UNCHANGED <<body, acks, sync, intake, recon, edits, fault>>

Wait == Tick /\ UNCHANGED lifeVars

Sync == SyncList \/ SyncDecide \/ SyncEdit \/ SyncFails
Intake == IntakeParse \/ IntakeComment \/ IntakeLabel \/ IntakeFails
Recon == ReconList \/ ReconComment \/ ReconEdit \/ ReconFails

LifeNext ==
  \/ \E c \in Client : ClientCall(c)
  \/ Wait
  \/ Sync \/ EditBody \/ Intake \/ Recon

LifeSpec == LifeInit /\ [][LifeNext]_allVars

\* The orchestrator sweeps on a loop, GitHub runs its workflows to the end, a
\* call goes on once begun, and time passes.
LifeFairness ==
  /\ WF_allVars(Wait)
  /\ WF_allVars(Sync)
  /\ WF_allVars(Intake)
  /\ WF_allVars(ReconComment \/ ReconEdit)
  /\ \A c \in Client : WF_allVars(Advance(c) /\ ClientCall(c))

LifeLiveSpec == LifeSpec /\ LifeFairness

-----------------------------------------------------------------------------
(* Properties.                                                             *)

\* Every program's unfinished work is well formed; the sweep never acts on a
\* listing taken after the instant it decides against.
LifeTypeOK ==
  /\ body \in Body
  /\ acks \subseteq Record
  /\ updated \in 0..clock
  /\ sync \in [step : {"idle", "listed", "edit"}, labels : SUBSET Label,
               at : 0..clock, want : {"available", "claimed"}]
  /\ intake.step \in {"none", "parse", "comment", "labels"}
  /\ intake.body \in Body
  /\ intake.fresh \in BOOLEAN
  /\ intake.todo \in Seq(Edit)
  /\ intake.step \in {"comment", "labels"} => intake.todo # <<>>
  /\ recon \in {"idle", "comment", "edit"}
  /\ edits \in 0..MaxEdits
  /\ fault \in {"none", "sweep", "edit", "fetch", "intake", "recon"}

\* Whatever these programs do to the labels is a Relabel for the lease protocol.
ImplementsLease == Spec

\* However the writers interleave, no task drops off the board: one of its
\* labels says available, claimed or invalid, and so some program still looks
\* after it (sync_lease_labels skips an issue with neither of its two labels,
\* intake one without available and invalid).  Any of the programs may die
\* between two requests; only an edit that is lost in part - the add failed,
\* the remove did not - can do it.
NeverUnlabelled ==
  fault # "edit" => issue.labels \cap {"available", "claimed", "invalid"} # {}

\* The labels end up right where it matters: once the body parses for good, a
\* free task becomes claimable and stays so, and a held one says so, although
\* every writer acts on what it read earlier, a sweep may die half-way and the
\* daily reconciliation does not read the lease (orchestrator/leases.py, "bring
\* the lifecycle labels into line with the lease comments").
InLine ==
  IF CurrentLease.holder = NoWorker THEN Eligible ELSE "claimed" \in issue.labels

LabelsCatchUp ==
  /\ <>[](body \in Record)
  /\ [](fault \notin {"edit", "intake"})
  => <>[]InLine

\* No program is between two requests.
AtRest == sync = SyncIdle /\ intake = NoRun /\ recon = "idle"

\* "Preserves the single-state-label invariant [...] exactly one lifecycle label
\* at a time" (orchestrator/leases.py): with no writer at work, the task carries
\* one of them.
SingleStateLabel ==
  AtRest => \E l \in Label : issue.labels = {l}

\* "If the marker for the current canonical record already exists,
\* should_post_comment is set to false" (gate/state/intake_cli.py), and the
\* comment post is skipped: no record is acknowledged twice.
NoRepeatedAck ==
  [][IntakeComment /\ ShouldPost(intake) => intake.body \notin acks]_allVars
=============================================================================
