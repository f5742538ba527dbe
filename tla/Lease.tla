------------------------------- MODULE Lease --------------------------------
(***************************************************************************)
(* The comment-only lease protocol of one task issue: the calls            *)
(*   claim (client/lease.py), prepare_task (client/task.py),               *)
(*   heartbeat (client/heartbeat.py) and release (client/release.py)       *)
(* made by several clients over one comment thread.  A call is several     *)
(* GitHub requests; other clients, the clock, label writers and crashes    *)
(* interleave between any two of them.                                     *)
(***************************************************************************)
EXTENDS LeaseArbiter

CONSTANTS
  Client,         \* machines running the choir client, one call at a time each
  LoginOf,        \* the GitHub account of each client
  IssueStates,    \* what label writers and maintainers may make of the issue
  ReuseSession,   \* may a claim pass the session kept in the workspace?
  Faulty,         \* may requests fail, and clients crash?
  ReplicaLag,     \* how many of the newest comments a read may miss
  MaxSkew,        \* how far a client's clock may be off
  MaxCall,        \* bound: ticks a call may take, between its requests
  Patient,        \* clients that claim again whenever a claim did not win
  MaxComments,    \* bound: length of the thread
  MaxClock        \* bound: the last instant explored

\* What claim reads of the issue and of .choir/project.toml: pinAhead says the
\* project's protocol pin is newer than the clients (fails open if unreadable).
Label == {"available", "claimed", "in-review", "done", "invalid"}
Issue == [open : BOOLEAN, labels : SUBSET Label, pinAhead : BOOLEAN]

ASSUME LeaseAssumption ==
  /\ LoginOf \in [Client -> Login]
  /\ ReuseSession \in BOOLEAN
  /\ Faulty \in BOOLEAN
  /\ ReplicaLag \in Nat
  /\ MaxSkew \in Nat
  /\ MaxCall \in Nat
  /\ Patient \subseteq Client
  /\ MaxComments \in Nat
  /\ MaxClock \in Nat
  /\ IssueStates \subseteq Issue

VARIABLES
  thread,    \* the lease comments of the issue, in id order
  clock,     \* GitHub's clock
  issue,     \* the issue record a claim pre-checks
  pc,        \* the request each client makes next
  now,       \* the instant the client's call captured when it began
  sess,      \* the session the call runs under
  target,    \* heartbeat_target: the comment to edit, or 0 to post
  mine,      \* the session kept in the client's workspace, or NoSession
  outcome,   \* the ClaimResult of the client's last claim
  wins       \* history: every ClaimResult that said WON

vars == <<thread, clock, issue, pc, now, sess, target, mine, outcome, wins>>

Steps == {"idle", "read", "post", "reread", "setup", "beatread", "beat", "release"}
NoResult == [kind |-> "none", worker |-> NoWorker]
Result == [kind : {"none", "won", "lost", "skipped", "error"}, worker : Holder]
Win == [worker : Worker, reason : {"claimed", "reclaimed"}, seen : Nat]

Init ==
  /\ thread = <<>>
  /\ clock = 0
  /\ issue \in IssueStates
  /\ pc = [c \in Client |-> "idle"]
  /\ now = [c \in Client |-> 0]
  /\ sess = [c \in Client |-> NoSession]
  /\ target = [c \in Client |-> 0]
  /\ mine = [c \in Client |-> NoSession]
  /\ outcome = [c \in Client |-> NoResult]
  /\ wins = {}

-----------------------------------------------------------------------------
(* Reading and writing the thread.                                         *)

Me(c) == <<LoginOf[c], sess[c]>>

\* A read may be answered by a replica that lacks the newest comments.
Readable == {n \in 0..Len(thread) : Len(thread) - n <= ReplicaLag}

LeaseComment(c, action, session) ==
  [login |-> LoginOf[c], session |-> session, action |-> action, stamp |-> clock]

\* The bound: GitHub refuses a comment on a full thread.
Full == Len(thread) = MaxComments

PostComment(comment) ==
  /\ ~Full
  /\ thread' = Append(thread, comment)

\* A PATCH by the author: GitHub moves updated_at, the lease block is the same.
Touched(comment, stamp) == [comment EXCEPT !.stamp = stamp]
EditComment(i) == thread' = [thread EXCEPT ![i] = Touched(thread[i], clock)]

\* What a client's clock may say at this instant.
LocalTimes == clock - MaxSkew .. clock + MaxSkew

Goto(c, step) == pc' = [pc EXCEPT ![c] = step]

\* The call is over; its locals are gone.
Return(c) ==
  /\ Goto(c, "idle")
  /\ now' = [now EXCEPT ![c] = 0]
  /\ sess' = [sess EXCEPT ![c] = NoSession]
  /\ target' = [target EXCEPT ![c] = 0]

Report(c, kind) == outcome' = [outcome EXCEPT ![c] = [kind |-> kind, worker |-> Me(c)]]

-----------------------------------------------------------------------------
(* claim                                                                   *)

\* secrets.token_hex: an id no comment, call or workspace carries.
FreshSessions ==
  Session \ ( {thread[i].session : i \in 1..Len(thread)}
                \cup {sess[c] : c \in Client} \cup {mine[c] : c \in Client} )

\* A claim passes no session and mints one, or passes the workspace's.
ClaimSessions(c) ==
  FreshSessions \cup (IF ReuseSession THEN {mine[c]} \ {NoSession} ELSE {})

\* The pre-checks, on a projection of the lease that may lag behind it.
Eligible ==
  /\ issue.open
  /\ "invalid" \notin issue.labels
  /\ "available" \in issue.labels
  /\ ~issue.pinAhead

Begin(c) ==
  /\ pc[c] = "idle"
  /\ Eligible
  /\ \E s \in ClaimSessions(c), t \in LocalTimes :
       /\ sess' = [sess EXCEPT ![c] = s]
       /\ now' = [now EXCEPT ![c] = t]
  /\ Goto(c, "read")
  /\ outcome' = [outcome EXCEPT ![c] = NoResult]
  /\ UNCHANGED <<thread, clock, issue, target, mine, wins>>

\* A pre-check failed: SKIPPED before anything is read or written.
Skip(c) ==
  /\ pc[c] = "idle"
  /\ ~Eligible
  /\ outcome' = [outcome EXCEPT ![c] = [kind |-> "skipped", worker |-> NoWorker]]
  /\ UNCHANGED <<thread, clock, issue, pc, now, sess, target, mine, wins>>

\* The first read: stop if somebody else holds the lease.
ReadBefore(c) ==
  /\ pc[c] = "read"
  /\ \E n \in Readable :
       LET held == Decide(thread, n, now[c]).holder IN
       IF held \in {NoWorker, Me(c)}
         THEN /\ Goto(c, "post")
              /\ UNCHANGED <<now, sess, target, outcome>>
         ELSE /\ Report(c, "lost")
              /\ Return(c)
  /\ UNCHANGED <<thread, clock, issue, mine, wins>>

PostClaim(c) ==
  /\ pc[c] = "post"
  /\ PostComment(LeaseComment(c, "claim", sess[c]))
  /\ Goto(c, "reread")
  /\ UNCHANGED <<clock, issue, now, sess, target, mine, outcome, wins>>

\* The re-read after the settle: the thread says who won.
ReadAfter(c) ==
  /\ pc[c] = "reread"
  /\ \E n \in Readable :
       LET decided == Decide(thread, n, now[c]) IN
       \/ /\ decided.holder = Me(c)
          /\ Report(c, "won")
          /\ wins' = wins \cup
               {[worker |-> Me(c), reason |-> decided.reason, seen |-> n]}
          /\ Goto(c, "setup")
          /\ UNCHANGED <<now, sess, target>>
       \/ /\ decided.holder = NoWorker
          /\ Report(c, "error")
          /\ Return(c)
          /\ UNCHANGED wins
       \/ /\ decided.holder \notin {NoWorker, Me(c)}
          /\ Report(c, "lost")
          /\ Return(c)
          /\ UNCHANGED wins
  /\ UNCHANGED <<thread, clock, issue, mine>>

\* Mutation: a failed request is reported as a lost race.
MutFailureIsLoss(c) ==
  /\ \/ Faulty /\ pc[c] \in {"read", "post", "reread"}
     \/ Full /\ pc[c] = "post"
  /\ Report(c, "lost")
  /\ Return(c)
  /\ UNCHANGED <<thread, clock, issue, mine, wins>>

\* A read or the post fails before it takes effect.
ClaimFails(c) ==
  /\ \/ Faulty /\ pc[c] \in {"read", "post", "reread"}
     \/ Full /\ pc[c] = "post"
  /\ Report(c, "error")
  /\ Return(c)
  /\ UNCHANGED <<thread, clock, issue, mine, wins>>

\* The post fails for the client, but the comment is there.
PostClaimUnacknowledged(c) ==
  /\ Faulty
  /\ pc[c] = "post"
  /\ PostComment(LeaseComment(c, "claim", sess[c]))
  /\ Report(c, "error")
  /\ Return(c)
  /\ UNCHANGED <<clock, issue, mine, wins>>

-----------------------------------------------------------------------------
(* prepare_task, after a WON                                               *)

\* The workspace is built and records the session; the first beat follows.
Setup(c) ==
  /\ pc[c] = "setup"
  /\ mine[c] = NoSession
  /\ mine' = [mine EXCEPT ![c] = sess[c]]
  /\ Goto(c, "beatread")
  /\ UNCHANGED <<thread, clock, issue, now, sess, target, outcome, wins>>

\* A workspace is in the way, the issue no longer parses, or a clone fails:
\* the lease is held, the session forgotten.
SetupFails(c) ==
  /\ pc[c] = "setup"
  /\ Faulty \/ mine[c] # NoSession
  /\ Return(c)
  /\ UNCHANGED <<thread, clock, issue, mine, outcome, wins>>

\* The user deletes the workspace directory, as a failed setup tells them to.
RemoveWorkspace(c) ==
  /\ Faulty
  /\ pc[c] = "idle"
  /\ mine[c] # NoSession
  /\ mine' = [mine EXCEPT ![c] = NoSession]
  /\ UNCHANGED <<thread, clock, issue, pc, now, sess, target, outcome, wins>>

-----------------------------------------------------------------------------
(* heartbeat                                                               *)

\* Mutations of heartbeat_target: an index off by one; the newest heartbeat of
\* the login, whatever its session.
MutOffByOne(n, w) ==
  IF CommentsOf(thread, n, w) = {} THEN 0
  ELSE LET last == LatestByWorker(thread, n, w) IN
       IF thread[last].action = "heartbeat" THEN last + 1 ELSE 0
MutAnySession(n, w) ==
  LET beats == {i \in 1..n : thread[i].login = w[1] /\ thread[i].action = "heartbeat"}
  IN  IF beats = {} THEN 0 ELSE CHOOSE i \in beats : \A j \in beats : j <= i

\* heartbeat_target: our id-highest comment if it is a heartbeat, else post.
BeatTarget(n, w) ==
  IF CommentsOf(thread, n, w) = {} THEN 0
  ELSE LET last == LatestByWorker(thread, n, w) IN
       IF thread[last].action = "heartbeat" THEN last ELSE 0

\* Mutation: beat without asking who holds the lease.
MutBlindBeat(c, session, n, t) == TRUE

\* Login and session must both be the holder's.
Holds(c, session, n, t) == Decide(thread, n, t).holder = <<LoginOf[c], session>>

\* Capture now, read, and go on only as the holder.
CheckHolder(c, session) ==
  \E t \in LocalTimes, n \in Readable :
    IF Holds(c, session, n, t)
      THEN /\ now' = [now EXCEPT ![c] = t]
           /\ sess' = [sess EXCEPT ![c] = session]
           /\ target' = [target EXCEPT ![c] = BeatTarget(n, <<LoginOf[c], session>>)]
           /\ Goto(c, "beat")
      ELSE Return(c)

\* prepare_task's first beat, under the session just won.
FirstBeat(c) ==
  /\ pc[c] = "beatread"
  /\ CheckHolder(c, sess[c])
  /\ UNCHANGED <<thread, clock, issue, mine, outcome, wins>>

\* A later beat from the library, under the workspace's session.
Heartbeat(c) ==
  /\ pc[c] = "idle"
  /\ mine[c] # NoSession
  /\ CheckHolder(c, mine[c])
  /\ UNCHANGED <<thread, clock, issue, mine, outcome, wins>>

\* `choir heartbeat`: the command passes no session, so heartbeat's default
\* stands whatever the workspace recorded.
CmdSession == NoSession

CmdHeartbeat(c) ==
  /\ pc[c] = "idle"
  /\ CheckHolder(c, CmdSession)
  /\ UNCHANGED <<thread, clock, issue, mine, outcome, wins>>

WriteBeat(c) ==
  IF target[c] = 0
    THEN PostComment(LeaseComment(c, "heartbeat", sess[c]))
    ELSE EditComment(target[c])

Beat(c) ==
  /\ pc[c] = "beat"
  /\ WriteBeat(c)
  /\ Return(c)
  /\ UNCHANGED <<clock, issue, mine, outcome, wins>>

\* The read or the write of a beat fails; the call returns False.
BeatFails(c) ==
  /\ \/ Faulty /\ pc[c] \in {"beatread", "beat"}
     \/ Full /\ pc[c] = "beat" /\ target[c] = 0
  /\ Return(c)
  /\ UNCHANGED <<thread, clock, issue, mine, outcome, wins>>

-----------------------------------------------------------------------------
(* release                                                                 *)

\* Only the holder's login may release; whoever asks carries no session.
CheckRelease(c) ==
  /\ pc[c] = "idle"
  /\ \E t \in LocalTimes, n \in Readable :
       LET held == Decide(thread, n, t).holder IN
       /\ held # NoWorker
       /\ held[1] = LoginOf[c]
       /\ now' = [now EXCEPT ![c] = t]
  /\ Goto(c, "release")
  /\ UNCHANGED <<thread, clock, issue, sess, target, mine, outcome, wins>>

\* Post the release, then tear the workspace down unless told to keep it.
Release(c) ==
  /\ pc[c] = "release"
  /\ PostComment(LeaseComment(c, "release", NoSession))
  /\ \/ mine' = [mine EXCEPT ![c] = NoSession]
     \/ UNCHANGED mine
  /\ Return(c)
  /\ UNCHANGED <<clock, issue, outcome, wins>>

\* The post raises, whether or not the comment landed: the workspace stays.
ReleaseFails(c) ==
  /\ pc[c] = "release"
  /\ \/ Faulty /\ PostComment(LeaseComment(c, "release", NoSession))
     \/ (Faulty \/ Full) /\ UNCHANGED thread
  /\ Return(c)
  /\ UNCHANGED <<clock, issue, mine, outcome, wins>>

-----------------------------------------------------------------------------
(* The world                                                               *)

\* The process dies between two requests; the workspace survives.
Crash(c) ==
  /\ Faulty
  /\ pc[c] # "idle"
  /\ Return(c)
  /\ UNCHANGED <<thread, clock, issue, mine, outcome, wins>>

\* Time passes, but no call outlives MaxCall ticks (building the workspace,
\* between two calls, may take any time).
Tick ==
  /\ clock < MaxClock
  /\ \A c \in Client : pc[c] \notin {"idle", "setup", "beatread"} => clock < now[c] + MaxCall
  /\ clock' = clock + 1
  /\ UNCHANGED <<thread, issue, pc, now, sess, target, mine, outcome, wins>>

\* Label writers and maintainers: the issue changes under the clients.
Relabel ==
  /\ issue' \in IssueStates
  /\ issue' # issue
  /\ UNCHANGED <<thread, clock, pc, now, sess, target, mine, outcome, wins>>

Call(c) ==
  \/ Begin(c) \/ Skip(c) \/ ReadBefore(c) \/ PostClaim(c) \/ ReadAfter(c)
  \/ ClaimFails(c) \/ PostClaimUnacknowledged(c)
  \/ Setup(c) \/ SetupFails(c) \/ RemoveWorkspace(c)
  \/ FirstBeat(c) \/ Heartbeat(c) \/ CmdHeartbeat(c) \/ Beat(c) \/ BeatFails(c)
  \/ CheckRelease(c) \/ Release(c) \/ ReleaseFails(c)
  \/ Crash(c)

Next == (\E c \in Client : Call(c)) \/ Tick \/ Relabel

Spec == Init /\ [][Next]_vars

\* What the scheduling justifies: GitHub's clock runs, a call that has started
\* goes on to its next request, and a patient client - an agent looping over
\* the open tasks - claims until it wins.  Nobody has to beat or release.
Advance(c) ==
  \/ ReadBefore(c) \/ PostClaim(c) \/ ReadAfter(c) \/ ClaimFails(c)
  \/ Setup(c) \/ SetupFails(c) \/ FirstBeat(c) \/ Beat(c) \/ BeatFails(c)
  \/ Release(c) \/ ReleaseFails(c)

Fairness ==
  /\ WF_vars(Tick)
  /\ \A c \in Client : WF_vars(Advance(c))
  /\ \A c \in Patient : WF_vars(outcome[c].kind # "won" /\ Begin(c))

LiveSpec == Spec /\ Fairness
-----------------------------------------------------------------------------
(* Properties.                                                             *)

CurrentHolder == HolderAfter(thread)[Len(thread)]
CurrentLease == Decide(thread, Len(thread), clock)

ReleasedBetween(login, i, j) ==
  \E k \in i+1 .. j : thread[k].action = "release" /\ thread[k].login = login

\* Every call's locals, every comment and every reported result is well formed,
\* and no reader has seen comments that are not there.
TypeOK ==
  /\ thread \in Seq(Comment)
  /\ clock \in Int
  /\ issue \in Issue
  /\ pc \in [Client -> Steps]
  /\ now \in [Client -> Int]
  /\ sess \in [Client -> Session \cup {NoSession}]
  /\ target \in [Client -> Nat]
  /\ \A c \in Client : target[c] <= Len(thread)
  /\ mine \in [Client -> Session \cup {NoSession}]
  /\ outcome \in [Client -> Result]
  /\ wins \in SUBSET Win
  /\ \A w \in wins : w.seen <= Len(thread)

\* claim never tells two workers that they hold the lease as claimants unless
\* the first one's login released it between the two decisions - whatever the
\* replicas lag, the clocks differ, the requests or the clients fail, and also
\* when two sessions race under one login (client/lease.py claim, step 5).
ClaimedExclusive ==
  \A a, b \in wins :
    /\ a.reason = "claimed" /\ b.reason = "claimed"
    /\ a.worker # b.worker
    /\ a.seen <= b.seen
    => ReleasedBetween(a.worker[1], a.seen, b.seen)

\* A win stands at this instant: its worker's last comment is fresh and its
\* login has released nothing since.
Standing(w) ==
  /\ FreshWorker(thread, Len(thread), w.worker, clock)
  /\ ~ReleasedBetween(w.worker[1], w.seen, Len(thread))

\* At no instant do two workers both have reason to believe they hold the
\* lease: staleness hands it on only from a worker that is gone ("a holder
\* quiet for longer than stale_after_hours loses the lease").
OneStandingWinner ==
  \A a, b \in wins : a.worker # b.worker => ~(Standing(a) /\ Standing(b))

\* A client told LOST_RACE is not the claimant whose lease everybody else sees:
\* otherwise the task would sit held by a worker that has walked away.  If it is
\* named at all it is as the heir of a holder gone stale since, which decide_lease
\* makes of any fresh claimant.
NoFalseLoss ==
  \A c \in Client : outcome[c].kind = "lost" =>
    /\ CurrentHolder # outcome[c].worker
    /\ CurrentLease.holder = outcome[c].worker => CurrentLease.reason = "reclaimed"

\* Nothing anybody posts or edits takes the claim from its holder except a
\* release by that holder's own login (decide_lease: "a non-holder's is noise").
OnlyOwnReleaseFrees ==
  [][ CurrentHolder # NoWorker /\ CurrentHolder' # CurrentHolder =>
        /\ Len(thread') = Len(thread) + 1
        /\ thread'[Len(thread')].action = "release"
        /\ thread'[Len(thread')].login = CurrentHolder[1] ]_vars

\* A beat that is written counts: it moves the stamp decide_lease reads this
\* worker's freshness from, although the comment to edit was picked before.
\* (Where reads lag it fails: a client that misses its own heartbeat posts a
\* second one, and edits the first when a later read misses that.)
BeatRefreshes ==
  [][ \A c \in Client :
        pc[c] = "beat" /\ pc'[c] = "idle" /\ thread' # thread =>
          FreshWorker(thread', Len(thread'), Me(c), clock + StaleAfter) ]_vars

\* What a release does, whichever of the login's sessions held and whoever waits:
\* no claim of the releasing login holds the lease afterwards.  At most it is named
\* once more as the heir of another login's stale claim, which decide_lease matches
\* no release against.
ReleaseFrees ==
  [][ \A c \in Client :
        Release(c) => LET after == CurrentLease' IN
          after.holder # NoWorker /\ after.holder[1] = LoginOf[c] =>
            after.reason = "reclaimed" /\ CurrentHolder'[1] # LoginOf[c] ]_vars

\* "decide_lease frees the lease the moment the holder's release comment lands"
\* (client/release.py): the releasing login holds nothing afterwards.  Not so of an
\* heir, and no run states it.
ReleaseAlwaysFrees ==
  [][ \A c \in Client :
        Release(c) => LET after == CurrentLease' IN
          after.holder = NoWorker \/ after.holder[1] # LoginOf[c] ]_vars

\* `choir heartbeat` by the client that holds the lease finds it the holder: it
\* is what a long task "calls to keep its claim alive" (cli.py cmd_heartbeat).
CmdHeartbeatBeats ==
  \A c \in Client :
    mine[c] # NoSession /\ Holds(c, mine[c], Len(thread), clock)
      => Holds(c, CmdSession, Len(thread), clock)

\* A race is decided: once a claim is in the thread, somebody is told WON.
\* The contenders never all read each other as the winner.
RaceDecided ==
  (\E i \in 1..Len(thread) : thread[i].action = "claim") ~> (wins # {})

\* A task whose worker walked away without a release goes to a patient client
\* once the staleness window is over: the abandoned claim never blocks it.
\* (While time remains, and unless the bounds leave nothing to claim with; a
\* patient client that already holds the lease may keep it by its beats.)
HeldByPatient ==
  \E c \in Patient, w \in wins :
    w.worker[1] = LoginOf[c] /\ w.worker = CurrentLease.holder

AbandonedTaskTaken ==
  [] ( /\ clock + StaleAfter < MaxClock
       /\ \E c \in Patient : outcome[c].kind # "won"
       /\ [](\A c \in Client \ Patient : pc[c] = "idle")
       => <>( \/ \E c \in Patient : outcome[c].kind = "won"
              \/ HeldByPatient \/ Full \/ FreshSessions = {} ) )
=============================================================================
