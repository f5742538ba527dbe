---------------------------- MODULE LeaseProofs -----------------------------
(***************************************************************************)
(* Proofs about the lease protocol, for any number of clients, sessions,   *)
(* comments and failures, any replica lag and any clock skew: alone, and   *)
(* beside the programs that write the task's labels (Lifecycle).           *)
(***************************************************************************)
EXTENDS Lifecycle, LeaseArbiterProofs, SequenceTheorems

Sess == Session \cup {NoSession}

-----------------------------------------------------------------------------
(* What a step may do to the thread.                                       *)

LEMMA MeType ==
  ASSUME TypeOK, NEW c \in Client
  PROVE  Me(c) \in Worker /\ LoginOf[c] \in Login
BY LeaseAssumption DEF TypeOK, Me, Worker

LEMMA PostType ==
  ASSUME TypeOK, NEW c \in Client, NEW s \in Sess,
         NEW a \in {"claim", "heartbeat", "release"},
         PostComment(LeaseComment(c, a, s))
  PROVE  /\ LeaseComment(c, a, s) \in Comment
         /\ thread' = Append(thread, LeaseComment(c, a, s))
BY LeaseAssumption DEF TypeOK, PostComment, LeaseComment, Comment, Sess

\* The thread is append-only but for the stamps, one comment at a time: no step
\* rewrites what a reader has already folded.
Extended(t, u) ==
  /\ u \in Seq(Comment)
  /\ Len(t) <= Len(u)
  /\ Len(u) <= Len(t) + 1
  /\ Agree(t, u, Len(t))

LEMMA AppendExtends ==
  ASSUME NEW t \in Seq(Comment), NEW x \in Comment
  PROVE  Extended(t, Append(t, x))
BY DEF Extended, Agree, SameKey

LEMMA TouchedType ==
  ASSUME NEW x \in Comment, NEW stamp \in Int
  PROVE  Touched(x, stamp) \in Comment /\ SameKey(x, Touched(x, stamp))
BY DEF Touched, Comment, SameKey

LEMMA EditExtends ==
  ASSUME NEW t \in Seq(Comment), NEW i \in 1..Len(t), NEW stamp \in Int
  PROVE  Extended(t, [t EXCEPT ![i] = Touched(t[i], stamp)])
<1> DEFINE u == [t EXCEPT ![i] = Touched(t[i], stamp)]
<1>1. Touched(t[i], stamp) \in Comment /\ SameKey(t[i], Touched(t[i], stamp))
  BY TouchedType
<1>2. u \in Seq(Comment) /\ Len(u) = Len(t)
  BY <1>1
<1>3. \A k \in 1..Len(t) : SameKey(t[k], u[k])
  BY <1>1 DEF SameKey
<1>4. QED
  BY <1>2, <1>3 DEF Extended, Agree

LEMMA SameExtends ==
  ASSUME NEW t \in Seq(Comment)
  PROVE  Extended(t, t)
BY DEF Extended, Agree, SameKey

LEMMA ThreadExtended ==
  ASSUME TypeOK, [Next]_vars
  PROVE  Extended(thread, thread')
<1> USE DEF Sess
<1>0. thread \in Seq(Comment) /\ clock \in Int
  BY DEF TypeOK
<1>1. ASSUME NEW c \in Client, Call(c)
      PROVE  Extended(thread, thread')
  <2>1. CASE PostClaim(c)
    BY <2>1, PostType, AppendExtends, <1>0 DEF PostClaim, TypeOK
  <2>2. CASE PostClaimUnacknowledged(c)
    BY <2>2, PostType, AppendExtends, <1>0 DEF PostClaimUnacknowledged, TypeOK
  <2>3. CASE Beat(c)
    <3>1. CASE target[c] = 0
      BY <2>3, <3>1, PostType, AppendExtends, <1>0 DEF Beat, WriteBeat, TypeOK
    <3>2. CASE target[c] # 0
      <4>1. target[c] \in 1..Len(thread)
        BY <3>2 DEF TypeOK
      <4>2. thread' = [thread EXCEPT ![target[c]] = Touched(thread[target[c]], clock)]
        BY <2>3, <3>2 DEF Beat, WriteBeat, EditComment
      <4>3. QED
        BY <4>1, <4>2, EditExtends, <1>0
    <3>3. QED
      BY <3>1, <3>2
  <2>4. CASE Release(c)
    BY <2>4, PostType, AppendExtends, <1>0 DEF Release
  <2>5. CASE ReleaseFails(c)
    <3>1. CASE PostComment(LeaseComment(c, "release", NoSession))
      BY <3>1, PostType, AppendExtends, <1>0
    <3>2. CASE UNCHANGED thread
      BY <3>2, SameExtends, <1>0
    <3>3. QED
      BY <2>5, <3>1, <3>2 DEF ReleaseFails
  <2>6. CASE UNCHANGED thread
    BY <2>6, SameExtends, <1>0
  <2>7. QED
    BY <1>1, <2>1, <2>2, <2>3, <2>4, <2>5, <2>6
       DEF Call, Begin, Skip, ReadBefore, ReadAfter, ClaimFails, Setup, SetupFails,
           RemoveWorkspace, FirstBeat, Heartbeat, CmdHeartbeat, BeatFails,
           CheckRelease, Crash
<1>2. CASE Tick
  BY <1>2, SameExtends, <1>0 DEF Tick
<1>3. CASE Relabel
  BY <1>3, SameExtends, <1>0 DEF Relabel
<1>4. CASE UNCHANGED vars
  BY <1>4, SameExtends, <1>0 DEF vars
<1>5. QED
  BY <1>1, <1>2, <1>3, <1>4 DEF Next

-----------------------------------------------------------------------------
(* Type correctness.                                                       *)

\* The part of TypeOK that is about the calls' locals.
LocalsOK ==
  /\ pc \in [Client -> Steps]
  /\ now \in [Client -> Int]
  /\ sess \in [Client -> Sess]
  /\ target \in [Client -> Nat]
  /\ \A c \in Client : target[c] <= Len(thread)

LEMMA TypeSplit ==
  TypeOK <=> /\ thread \in Seq(Comment)
             /\ clock \in Int
             /\ issue \in Issue
             /\ LocalsOK
             /\ mine \in [Client -> Sess]
             /\ outcome \in [Client -> Result]
             /\ wins \in SUBSET Win
             /\ \A w \in wins : w.seen <= Len(thread)
BY DEF TypeOK, LocalsOK, Sess

LEMMA ReturnType ==
  ASSUME LocalsOK, NEW c \in Client, Return(c),
         thread \in Seq(Comment), Extended(thread, thread')
  PROVE  LocalsOK'
<1>1. Len(thread) \in Nat /\ Len(thread') \in Nat /\ Len(thread) <= Len(thread')
  BY DEF Extended
<1>2. QED
  BY <1>1 DEF LocalsOK, Return, Goto, Steps, Sess

\* A step to another request that leaves the call's locals and the thread's
\* length alone or longer.
LEMMA GotoType ==
  ASSUME LocalsOK, NEW c \in Client, NEW step \in Steps, Goto(c, step),
         UNCHANGED <<now, sess, target>>,
         thread \in Seq(Comment), Extended(thread, thread')
  PROVE  LocalsOK'
<1>1. Len(thread) \in Nat /\ Len(thread') \in Nat /\ Len(thread) <= Len(thread')
  BY DEF Extended
<1>2. QED
  BY <1>1 DEF LocalsOK, Goto

LEMMA LocalsKept ==
  ASSUME LocalsOK, UNCHANGED <<pc, now, sess, target>>,
         thread \in Seq(Comment), Extended(thread, thread')
  PROVE  LocalsOK'
<1>1. Len(thread) \in Nat /\ Len(thread') \in Nat /\ Len(thread) <= Len(thread')
  BY DEF Extended
<1>2. QED
  BY <1>1 DEF LocalsOK

LEMMA BeatTargetType ==
  ASSUME TypeOK, NEW n \in Readable, NEW w
  PROVE  BeatTarget(n, w) \in Nat /\ BeatTarget(n, w) <= Len(thread)
<1>1. n \in Nat /\ n <= Len(thread) /\ Len(thread) \in Nat
  BY DEF Readable, TypeOK
<1>2. CASE CommentsOf(thread, n, w) = {}
  BY <1>1, <1>2 DEF BeatTarget
<1>3. CASE CommentsOf(thread, n, w) # {}
  <2>1. LatestByWorker(thread, n, w) \in 1..n
    BY <1>1, <1>3, LatestByWorkerType DEF CommentsOf
  <2>2. QED
    BY <1>1, <1>3, <2>1 DEF BeatTarget
<1>4. QED
  BY <1>2, <1>3

LEMMA CheckHolderType ==
  ASSUME TypeOK, NEW c \in Client, NEW s \in Sess, CheckHolder(c, s), UNCHANGED thread
  PROVE  LocalsOK'
<1>0. LocalsOK /\ thread \in Seq(Comment) /\ Extended(thread, thread') /\ clock \in Int
  BY TypeSplit, SameExtends
<1>1. PICK t \in LocalTimes, n \in Readable :
        IF Holds(c, s, n, t)
          THEN /\ now' = [now EXCEPT ![c] = t]
               /\ sess' = [sess EXCEPT ![c] = s]
               /\ target' = [target EXCEPT ![c] = BeatTarget(n, <<LoginOf[c], s>>)]
               /\ Goto(c, "beat")
          ELSE Return(c)
  BY DEF CheckHolder
<1>2. CASE Holds(c, s, n, t)
  <2>1. t \in Int
    BY <1>0, LeaseAssumption DEF LocalTimes
  <2>2. /\ BeatTarget(n, <<LoginOf[c], s>>) \in Nat
        /\ BeatTarget(n, <<LoginOf[c], s>>) <= Len(thread)
    BY BeatTargetType
  <2>3. QED
    BY <1>0, <1>1, <1>2, <2>1, <2>2 DEF LocalsOK, Goto, Steps
<1>3. CASE ~Holds(c, s, n, t)
  BY <1>0, <1>1, <1>3, ReturnType
<1>4. QED
  BY <1>2, <1>3

LEMMA ReportType ==
  ASSUME TypeOK, NEW c \in Client,
         NEW kind \in {"none", "won", "lost", "skipped", "error"}, Report(c, kind)
  PROVE  outcome' \in [Client -> Result]
BY MeType DEF TypeOK, Report, Result, Holder

LEMMA InitType == Init => TypeOK
BY LeaseAssumption DEF Init, TypeOK, Steps, NoResult, Result, Holder

\* A win is recorded for the caller, as the decision over what it read.
LEMMA WinType ==
  ASSUME TypeOK, NEW c \in Client, NEW n \in Readable,
         Decide(thread, n, now[c]).holder = Me(c)
  PROVE  LET win == [worker |-> Me(c), reason |-> Decide(thread, n, now[c]).reason,
                     seen |-> n]
         IN  /\ win \in Win /\ win.seen <= Len(thread)
             /\ win.reason = "claimed" => HolderAfter(thread)[n] = Me(c)
<1>1. Me(c) \in Worker /\ Me(c) # NoWorker
  BY MeType, ArbiterAssumption
<1>2. /\ Decide(thread, n, now[c]).reason \in {"claimed", "reclaimed"}
      /\ Decide(thread, n, now[c]).reason = "claimed" => HolderAfter(thread)[n] = Me(c)
  BY <1>1, DecideClaimed
<1>3. n \in Nat /\ n <= Len(thread)
  BY DEF Readable, TypeOK
<1>4. QED
  BY <1>1, <1>2, <1>3 DEF Win

LEMMA NextType ==
  ASSUME TypeOK, [Next]_vars
  PROVE  TypeOK'
<1> DEFINE CallOK ==
      /\ clock' \in Int
      /\ issue' \in Issue
      /\ LocalsOK'
      /\ mine' \in [Client -> Sess]
      /\ outcome' \in [Client -> Result]
      /\ wins' \in SUBSET Win
      /\ \A w \in wins' : w.seen <= Len(thread')
<1>1. Extended(thread, thread')
  BY ThreadExtended
<1>2. /\ thread \in Seq(Comment) /\ clock \in Int /\ issue \in Issue /\ LocalsOK
      /\ mine \in [Client -> Sess] /\ outcome \in [Client -> Result]
      /\ wins \in SUBSET Win /\ \A w \in wins : w.seen <= Len(thread)
  BY TypeSplit
<1>3. \A w \in wins : w.seen <= Len(thread')
  BY <1>1, <1>2 DEF Extended, Win
<1>4. ASSUME NEW c \in Client, Call(c)
      PROVE  CallOK
  <2>1. CASE Begin(c)
    <3>1. PICK s \in ClaimSessions(c), t \in LocalTimes :
            /\ sess' = [sess EXCEPT ![c] = s]
            /\ now' = [now EXCEPT ![c] = t]
      BY <2>1 DEF Begin
    <3>2. s \in Sess /\ t \in Int
      BY <1>2, LeaseAssumption DEF ClaimSessions, FreshSessions, LocalTimes, Sess
    <3>3. LocalsOK'
      BY <2>1, <3>1, <3>2, <1>2 DEF Begin, LocalsOK, Goto, Steps
    <3>4. outcome' \in [Client -> Result]
      BY <2>1, <1>2 DEF Begin, NoResult, Result, Holder
    <3>5. QED
      BY <2>1, <3>3, <3>4, <1>2, <1>3 DEF Begin
  <2>2. CASE Skip(c)
    <3>1. outcome' \in [Client -> Result]
      BY <2>2, <1>2 DEF Skip, Result, Holder
    <3>2. LocalsOK'
      BY <2>2, <1>1, <1>2, LocalsKept DEF Skip
    <3>3. QED
      BY <2>2, <3>1, <3>2, <1>2, <1>3 DEF Skip
  <2>3. CASE ReadBefore(c)
    <3>1. \/ Goto(c, "post") /\ UNCHANGED <<now, sess, target, outcome>>
          \/ Report(c, "lost") /\ Return(c)
      BY <2>3 DEF ReadBefore
    <3>2. LocalsOK'
      BY <3>1, <1>1, <1>2, GotoType, ReturnType DEF Steps
    <3>3. outcome' \in [Client -> Result]
      BY <3>1, <1>2, ReportType
    <3>4. QED
      BY <2>3, <3>2, <3>3, <1>2, <1>3 DEF ReadBefore
  <2>4. CASE PostClaim(c)
    <3>1. LocalsOK'
      BY <2>4, <1>1, <1>2, GotoType DEF PostClaim, Steps
    <3>2. QED
      BY <2>4, <3>1, <1>2, <1>3 DEF PostClaim
  <2>5. CASE ReadAfter(c)
    <3>1. PICK n \in Readable :
            LET decided == Decide(thread, n, now[c]) IN
            \/ /\ decided.holder = Me(c)
               /\ Report(c, "won")
               /\ wins' = wins \cup
                    {[worker |-> Me(c), reason |-> decided.reason, seen |-> n]}
               /\ Goto(c, "setup")
               /\ UNCHANGED <<now, sess, target>>
            \/ Report(c, "error") /\ Return(c) /\ UNCHANGED wins
            \/ Report(c, "lost") /\ Return(c) /\ UNCHANGED wins
      BY <2>5 DEF ReadAfter
    <3>2. LocalsOK'
      BY <3>1, <1>1, <1>2, GotoType, ReturnType DEF Steps
    <3>3. outcome' \in [Client -> Result]
      BY <3>1, ReportType
    <3>4. wins' \in SUBSET Win /\ \A w \in wins' : w.seen <= Len(thread)
      BY <3>1, <1>2, WinType
    <3>5. QED
      BY <2>5, <3>2, <3>3, <3>4, <1>2 DEF ReadAfter
  <2>6. CASE ClaimFails(c) \/ PostClaimUnacknowledged(c)
    <3>1. outcome' \in [Client -> Result]
      BY <2>6, ReportType DEF ClaimFails, PostClaimUnacknowledged
    <3>2. LocalsOK'
      BY <2>6, <1>1, <1>2, ReturnType DEF ClaimFails, PostClaimUnacknowledged
    <3>3. QED
      BY <2>6, <3>1, <3>2, <1>2, <1>3 DEF ClaimFails, PostClaimUnacknowledged
  <2>7. CASE Setup(c)
    <3>1. LocalsOK'
      BY <2>7, <1>1, <1>2, GotoType DEF Setup, Steps
    <3>2. mine' \in [Client -> Sess]
      BY <2>7, <1>2 DEF Setup, LocalsOK
    <3>3. QED
      BY <2>7, <3>1, <3>2, <1>2, <1>3 DEF Setup
  <2>8. CASE SetupFails(c) \/ Beat(c) \/ BeatFails(c) \/ ReleaseFails(c) \/ Crash(c)
    <3>1. Return(c) /\ UNCHANGED <<clock, issue, mine, outcome, wins>>
      BY <2>8 DEF SetupFails, Beat, BeatFails, ReleaseFails, Crash
    <3>2. LocalsOK'
      BY <3>1, <1>1, <1>2, ReturnType
    <3>3. QED
      BY <3>1, <3>2, <1>2, <1>3
  <2>9. CASE RemoveWorkspace(c)
    <3>1. LocalsOK'
      BY <2>9, <1>1, <1>2, LocalsKept DEF RemoveWorkspace
    <3>2. mine' \in [Client -> Sess]
      BY <2>9, <1>2 DEF RemoveWorkspace, Sess
    <3>3. QED
      BY <2>9, <3>1, <3>2, <1>2, <1>3 DEF RemoveWorkspace
  <2>10. CASE FirstBeat(c) \/ Heartbeat(c) \/ CmdHeartbeat(c)
    <3>1. PICK s \in Sess : CheckHolder(c, s)
      BY <2>10, <1>2 DEF FirstBeat, Heartbeat, CmdHeartbeat, CmdSession, LocalsOK, Sess
    <3>2. UNCHANGED <<thread, clock, issue, mine, outcome, wins>>
      BY <2>10 DEF FirstBeat, Heartbeat, CmdHeartbeat
    <3>3. LocalsOK'
      BY <3>1, <3>2, CheckHolderType
    <3>4. QED
      BY <3>2, <3>3, <1>2, <1>3
  <2>11. CASE CheckRelease(c)
    <3>1. PICK t \in LocalTimes : now' = [now EXCEPT ![c] = t]
      BY <2>11 DEF CheckRelease
    <3>2. t \in Int
      BY <1>2, LeaseAssumption DEF LocalTimes
    <3>3. LocalsOK'
      BY <2>11, <3>1, <3>2, <1>2 DEF CheckRelease, LocalsOK, Goto, Steps
    <3>4. QED
      BY <2>11, <3>3, <1>2, <1>3 DEF CheckRelease
  <2>12. CASE Release(c)
    <3>1. LocalsOK'
      BY <2>12, <1>1, <1>2, ReturnType DEF Release
    <3>2. mine' \in [Client -> Sess]
      BY <2>12, <1>2 DEF Release, Sess
    <3>3. QED
      BY <2>12, <3>1, <3>2, <1>2, <1>3 DEF Release
  <2>13. QED
    BY <1>4, <2>1, <2>2, <2>3, <2>4, <2>5, <2>6, <2>7, <2>8, <2>9, <2>10, <2>11, <2>12
       DEF Call
<1>5. CASE Tick
  <2>1. LocalsOK'
    BY <1>5, <1>1, <1>2, LocalsKept DEF Tick
  <2>2. QED
    BY <1>5, <2>1, <1>1, <1>2, TypeSplit DEF Tick, TypeOK, LocalsOK, Sess
<1>6. CASE Relabel
  <2>1. LocalsOK'
    BY <1>6, <1>1, <1>2, LocalsKept DEF Relabel
  <2>2. QED
    BY <1>6, <2>1, <1>1, <1>2, LeaseAssumption DEF Relabel, TypeOK, LocalsOK, Sess
<1>7. CASE UNCHANGED vars
  BY <1>7 DEF TypeOK, vars
<1>8. thread' \in Seq(Comment)
  BY <1>1 DEF Extended
<1>9. CASE \E c \in Client : Call(c)
  BY <1>4, <1>8, <1>9 DEF TypeOK, LocalsOK, Sess
<1>10. QED
  BY <1>5, <1>6, <1>7, <1>9 DEF Next

\* Every reachable state is well formed: comments and results have their
\* fields, and nobody's view or edit target lies beyond the thread.
THEOREM TypeCorrect == Spec => []TypeOK
<1>1. Init => TypeOK
  BY InitType
<1>2. TypeOK /\ [Next]_vars => TypeOK'
  BY NextType
<1>3. QED
  BY <1>1, <1>2, PTL DEF Spec

-----------------------------------------------------------------------------
(* Exclusion.                                                              *)

\* What makes ClaimedExclusive inductive: a claim that was told "claimed" was
\* the fold's holder of the prefix it read, and since nothing but stamps in
\* that prefix ever changes, it still is.
WinsHeld ==
  \A a \in wins : a.reason = "claimed" => HolderAfter(thread)[a.seen] = a.worker

LEMMA WinsHeldNext ==
  ASSUME TypeOK, WinsHeld, [Next]_vars
  PROVE  WinsHeld'
<1>1. Extended(thread, thread') /\ thread \in Seq(Comment) /\ thread' \in Seq(Comment)
  BY ThreadExtended DEF TypeOK, Extended
<1>2. ASSUME NEW n \in Nat, n <= Len(thread)
      PROVE  HolderAfter(thread')[n] = HolderAfter(thread)[n]
  <2>1. n <= Len(thread') /\ Agree(thread, thread', n)
    BY <1>1, <1>2 DEF Extended, Agree
  <2>2. QED
    BY <1>1, <1>2, <2>1, HolderAfterPrefix
<1>3. ASSUME NEW a \in wins, a.reason = "claimed"
      PROVE  HolderAfter(thread')[a.seen] = a.worker
  <2>1. a.seen \in Nat /\ a.seen <= Len(thread)
    BY DEF TypeOK, Win
  <2>2. QED
    BY <1>2, <1>3, <2>1 DEF WinsHeld
<1>4. ASSUME NEW c \in Client, ReadAfter(c)
      PROVE  WinsHeld'
  <2>1. PICK n \in Readable :
          \/ UNCHANGED wins
          \/ /\ Decide(thread, n, now[c]).holder = Me(c)
             /\ wins' = wins \cup
                  {[worker |-> Me(c), reason |-> Decide(thread, n, now[c]).reason,
                    seen |-> n]}
    BY <1>4 DEF ReadAfter
  <2>2. CASE UNCHANGED wins
    BY <2>2, <1>3 DEF WinsHeld
  <2>3. CASE /\ Decide(thread, n, now[c]).holder = Me(c)
             /\ wins' = wins \cup
                  {[worker |-> Me(c), reason |-> Decide(thread, n, now[c]).reason,
                    seen |-> n]}
    <3> DEFINE win == [worker |-> Me(c), reason |-> Decide(thread, n, now[c]).reason,
                       seen |-> n]
    <3>1. win.reason = "claimed" => HolderAfter(thread)[n] = Me(c)
      BY <2>3, WinType
    <3>2. n \in Nat /\ n <= Len(thread)
      BY DEF Readable, TypeOK
    <3>3. win.reason = "claimed" => HolderAfter(thread')[win.seen] = win.worker
      BY <3>1, <3>2, <1>2
    <3>4. \A a \in wins' : a \in wins \/ a = win
      BY <2>3
    <3> HIDE DEF win
    <3>5. QED
      BY <3>3, <3>4, <1>3 DEF WinsHeld
  <2>4. QED
    BY <2>1, <2>2, <2>3
<1>5. CASE UNCHANGED wins
  BY <1>5, <1>3 DEF WinsHeld
<1>6. QED
  BY <1>4, <1>5
     DEF Next, Call, vars, Begin, Skip, ReadBefore, PostClaim, ClaimFails,
         PostClaimUnacknowledged, Setup, SetupFails, RemoveWorkspace, FirstBeat,
         Heartbeat, CmdHeartbeat, Beat, BeatFails, CheckRelease, Release,
         ReleaseFails, Crash, Tick, Relabel

\* The invariant excludes two unreleased winners.
LEMMA WinsHeldExclusive ==
  ASSUME TypeOK, WinsHeld
  PROVE  ClaimedExclusive
<1>1. SUFFICES ASSUME NEW a \in wins, NEW b \in wins,
                      a.reason = "claimed", b.reason = "claimed",
                      a.worker # b.worker, a.seen <= b.seen,
                      ~ReleasedBetween(a.worker[1], a.seen, b.seen)
               PROVE  FALSE
  BY DEF ClaimedExclusive
<1>2. /\ thread \in Seq(Comment) /\ a.worker \in Worker
      /\ a.seen \in 0..Len(thread) /\ b.seen \in a.seen..Len(thread)
  BY <1>1 DEF TypeOK, Win
<1>3. a.worker # NoWorker
  BY <1>2, ArbiterAssumption
<1>4. HolderAfter(thread)[a.seen] = a.worker
  BY <1>1 DEF WinsHeld
<1>5. \A k \in a.seen+1 .. b.seen :
        ~(thread[k].action = "release" /\ thread[k].login = a.worker[1])
  BY <1>1 DEF ReleasedBetween
<1>6. HolderAfter(thread)[b.seen] = a.worker
  BY <1>2, <1>3, <1>4, <1>5, HeldUntilReleased
<1>7. QED
  BY <1>1, <1>6 DEF WinsHeld

\* claim tells at most one worker that it holds the lease as claimant until
\* that worker's login releases it - for every number of clients and comments,
\* every lag, skew, failure and staleness window, and under one login or many.
THEOREM ClaimExclusion == Spec => []ClaimedExclusive
<1>1. Init => WinsHeld
  BY DEF Init, WinsHeld
<1>2. TypeOK /\ WinsHeld /\ [Next]_vars => WinsHeld'
  BY WinsHeldNext
<1>3. TypeOK /\ WinsHeld => ClaimedExclusive
  BY WinsHeldExclusive
<1>4. QED
  BY <1>1, <1>2, <1>3, TypeCorrect, PTL DEF Spec

LEMMA HolderKept ==
  ASSUME TypeOK, [Next]_vars, CurrentHolder # NoWorker, CurrentHolder' # CurrentHolder
  PROVE  /\ Len(thread') = Len(thread) + 1
         /\ thread'[Len(thread')].action = "release"
         /\ thread'[Len(thread')].login = CurrentHolder[1]
<1> DEFINE n == Len(thread)
<1>1. /\ thread \in Seq(Comment) /\ thread' \in Seq(Comment) /\ n \in Nat
      /\ n <= Len(thread') /\ Len(thread') <= n + 1 /\ Agree(thread, thread', n)
  BY ThreadExtended DEF TypeOK, Extended
<1>2. HolderAfter(thread')[n] = CurrentHolder
  BY <1>1, HolderAfterPrefix DEF CurrentHolder
<1>3. Len(thread') = n + 1
  BY <1>1, <1>2 DEF CurrentHolder
<1>4. CurrentHolder' = NextHolder(CurrentHolder, thread'[n+1])
  <2>1. CurrentHolder' = HolderAfter(thread')[n+1]
    BY <1>3 DEF CurrentHolder
  <2>2. HolderAfter(thread')[n+1] = NextHolder(HolderAfter(thread')[n+1-1], thread'[n+1])
    BY <1>1, <1>3, HolderAfterStep
  <2>3. n+1-1 = n
    BY <1>1
  <2>4. QED
    BY <2>1, <2>2, <2>3, <1>2
<1>5. QED
  BY <1>3, <1>4 DEF NextHolder

\* No claim, beat, failure or passing of time takes the lease from the fold's
\* holder: only a release comment by the holder's own login does.
THEOREM HolderSecure == Spec => OnlyOwnReleaseFrees
<1>1. TypeOK /\ [Next]_vars =>
        [ CurrentHolder # NoWorker /\ CurrentHolder' # CurrentHolder =>
            /\ Len(thread') = Len(thread) + 1
            /\ thread'[Len(thread')].action = "release"
            /\ thread'[Len(thread')].login = CurrentHolder[1] ]_vars
  BY HolderKept
<1>2. QED
  BY <1>1, TypeCorrect, PTL DEF Spec, OnlyOwnReleaseFrees

\* A release ends every claim of its login: what the fold makes of the thread with
\* it is nobody, or a claimant of another login, who alone can have an heir.
THEOREM ReleasesFree == Spec => ReleaseFrees
<1> DEFINE Freed(c) ==
      LET after == CurrentLease' IN
        after.holder # NoWorker /\ after.holder[1] = LoginOf[c] =>
          after.reason = "reclaimed" /\ CurrentHolder'[1] # LoginOf[c]
<1>1. ASSUME TypeOK, NEW c \in Client, Release(c) PROVE Freed(c)
  <2> DEFINE n == Len(thread)
  <2> DEFINE x == LeaseComment(c, "release", NoSession)
  <2>1. x \in Comment /\ thread' = Append(thread, x) /\ thread \in Seq(Comment) /\ n \in Nat
    BY <1>1, PostType DEF Release, TypeOK, Sess
  <2>2. thread' \in Seq(Comment) /\ Len(thread') = n + 1 /\ thread'[n+1] = x /\ n+1 \in 1..Len(thread')
    BY <2>1
  <2>3. CurrentHolder' = NextHolder(HolderAfter(thread')[n], x)
    <3>1. HolderAfter(thread')[n+1] = NextHolder(HolderAfter(thread')[n+1-1], thread'[n+1])
      BY <2>2, HolderAfterStep
    <3>2. n+1-1 = n
      BY <2>1
    <3>3. QED
      BY <2>2, <3>1, <3>2 DEF CurrentHolder
  <2>4. x.action = "release" /\ x.login = LoginOf[c]
    BY DEF LeaseComment
  <2>5. CurrentHolder' = NoWorker \/ CurrentHolder'[1] # LoginOf[c]
    BY <2>3, <2>4 DEF NextHolder
  <2>6. \/ CurrentLease'.holder = NoWorker
        \/ CurrentLease'.holder = CurrentHolder' /\ CurrentHolder' # NoWorker
        \/ CurrentLease'.reason = "reclaimed" /\ CurrentHolder' # NoWorker
    BY DEF CurrentLease, CurrentHolder, Decide
  <2>7. QED
    BY <2>5, <2>6
<1>2. TypeOK /\ [Next]_vars => [\A c \in Client : Release(c) => Freed(c)]_vars
  BY <1>1
<1>3. QED
  BY <1>2, TypeCorrect, PTL DEF Spec, ReleaseFrees

-----------------------------------------------------------------------------
(***************************************************************************)
(* A beat that is written counts, where reads do not lag: the comment it   *)
(* edits was picked before, and is still the one decide_lease will read    *)
(* the worker's freshness from.  What makes that so is that nobody else    *)
(* writes under the worker's name meanwhile: two clients never share a     *)
(* session, and no lease is held without one.                              *)
(***************************************************************************)

-----------------------------------------------------------------------------
(* The newest comment of a worker.                                         *)

Newest(t, w, i) ==
  i \in CommentsOf(t, Len(t), w) /\ \A j \in CommentsOf(t, Len(t), w) : j <= i

LEMMA NewestIsLatest ==
  ASSUME NEW t \in Seq(Comment), NEW w, NEW i, Newest(t, w, i)
  PROVE  LatestByWorker(t, Len(t), w) = i
<1>1. CommentsOf(t, Len(t), w) \subseteq Nat
  BY DEF CommentsOf
<1>2. \A k \in CommentsOf(t, Len(t), w) :
        (\A j \in CommentsOf(t, Len(t), w) : j <= k) => k = i
  BY <1>1 DEF Newest
<1>3. QED
  BY <1>2 DEF Newest, LatestByWorker

\* It stays the newest as long as the worker does not comment.
LEMMA NewestKept ==
  ASSUME NEW t \in Seq(Comment), NEW u, Extended(t, u), NEW w, NEW i, Newest(t, w, i),
         \A k \in 1..Len(u) : k > Len(t) => WorkerOf(u[k]) # w
  PROVE  Newest(u, w, i)
<1>1. Len(t) \in Nat /\ Len(u) \in Nat /\ Len(t) <= Len(u)
  BY DEF Extended
<1>2. \A k \in 1..Len(t) : WorkerOf(u[k]) = WorkerOf(t[k])
  BY DEF Extended, Agree, SameKey, WorkerOf
<1>3. CommentsOf(u, Len(u), w) = CommentsOf(t, Len(t), w)
  BY <1>1, <1>2 DEF CommentsOf
<1>4. QED
  BY <1>3 DEF Newest

-----------------------------------------------------------------------------
(* The invariant.                                                          *)

\* The sessions a client may write under.
Owns(c) == {sess[c], mine[c]} \ {NoSession}

Apart == \A c, d \in Client : c # d => Owns(c) \cap Owns(d) = {}

ClaimsNamed ==
  \A i \in 1..Len(thread) : thread[i].action = "claim" => thread[i].session # NoSession

CallsNamed ==
  \A c \in Client :
    pc[c] \in {"read", "post", "reread", "setup", "beatread", "beat"}
      => sess[c] # NoSession

\* A beat about to be written edits its worker's newest comment, if it edits.
BeatAimed ==
  \A c \in Client :
    pc[c] = "beat" /\ target[c] # 0 => Newest(thread, Me(c), target[c])

BeatInv == TypeOK /\ Apart /\ ClaimsNamed /\ CallsNamed /\ BeatAimed

\* Nobody holds the lease without a session: `choir heartbeat` never beats.
LEMMA HolderNamed ==
  ASSUME TypeOK, ClaimsNamed, NEW n \in Readable, NEW t, NEW login \in Login
  PROVE  Decide(thread, n, t).holder # <<login, NoSession>>
<1> DEFINE w == <<login, NoSession>>
<1>1. thread \in Seq(Comment) /\ n \in 0..Len(thread)
  BY DEF TypeOK, Readable
<1>2. w # NoWorker
  BY ArbiterAssumption DEF Worker
<1>3. ~Claimant(thread, n, w)
  BY <1>1 DEF Claimant, ClaimsNamed, WorkerOf
<1> HIDE DEF w
<1>4. Decide(thread, n, t).holder # w
  BY <1>1, <1>2, <1>3, DecidedClaimed
<1>5. QED
  BY <1>4 DEF w

-----------------------------------------------------------------------------
(* What a call does to the sessions, to the thread and to its own request. *)

LEMMA OthersKept ==
  ASSUME TypeOK, NEW d \in Client, Call(d), NEW c \in Client, c # d
  PROVE  /\ pc'[c] = pc[c] /\ sess'[c] = sess[c]
         /\ target'[c] = target[c] /\ mine'[c] = mine[c]
BY DEF TypeOK, Call, Begin, Skip, ReadBefore, PostClaim, ReadAfter, ClaimFails,
       PostClaimUnacknowledged, Setup, SetupFails, RemoveWorkspace, FirstBeat, Heartbeat,
       CmdHeartbeat, CheckHolder, Beat, BeatFails, CheckRelease, Release, ReleaseFails,
       Crash, Return, Goto

\* A session is one's own, the workspace's, or new.
LEMMA OwnsMoves ==
  ASSUME TypeOK, NEW d \in Client, Call(d)
  PROVE  Owns(d)' \subseteq Owns(d) \cup FreshSessions
<1>1. /\ sess'[d] \in {sess[d], mine[d], NoSession} \cup FreshSessions
      /\ mine'[d] \in {mine[d], sess[d], NoSession}
  BY DEF TypeOK, Call, Begin, ClaimSessions, Skip, ReadBefore, PostClaim, ReadAfter,
         ClaimFails, PostClaimUnacknowledged, Setup, SetupFails, RemoveWorkspace,
         FirstBeat, Heartbeat, CmdHeartbeat, CmdSession, CheckHolder, Beat, BeatFails,
         CheckRelease, Release, ReleaseFails, Crash, Return, Goto
<1>2. QED
  BY <1>1 DEF Owns

\* A call writes one comment under its own session or none, or touches one.
Writes(d) ==
  \E a \in {"claim", "heartbeat", "release"}, s \in {sess[d], NoSession} :
    /\ thread' = Append(thread, LeaseComment(d, a, s))
    /\ a = "claim" => s = sess[d] /\ pc[d] = "post"

LEMMA CallWrites ==
  ASSUME NEW d \in Client, Call(d)
  PROVE  \/ UNCHANGED thread
         \/ Beat(d) /\ target[d] # 0 /\ EditComment(target[d])
         \/ Writes(d)
<1>1. CASE PostClaim(d) \/ PostClaimUnacknowledged(d)
  BY <1>1 DEF PostClaim, PostClaimUnacknowledged, PostComment, Writes
<1>2. CASE Beat(d)
  BY <1>2 DEF Beat, WriteBeat, PostComment, Writes
<1>3. CASE Release(d) \/ ReleaseFails(d)
  BY <1>3 DEF Release, ReleaseFails, PostComment, Writes
<1>4. CASE UNCHANGED thread
  BY <1>4
<1>5. QED
  BY <1>1, <1>2, <1>3, <1>4
     DEF Call, Begin, Skip, ReadBefore, ReadAfter, ClaimFails, Setup, SetupFails,
         RemoveWorkspace, FirstBeat, Heartbeat, CmdHeartbeat, BeatFails, CheckRelease,
         Crash

\* Where reads do not lag, a client is about to beat in its own name only, and
\* aims at its newest comment.
LEMMA AimsOwn ==
  ASSUME ReplicaLag = 0, TypeOK, ClaimsNamed, NEW d \in Client, NEW s \in Sess,
         CheckHolder(d, s), UNCHANGED thread, pc'[d] = "beat"
  PROVE  /\ sess'[d] = s /\ s # NoSession
         /\ target'[d] # 0 => Newest(thread, <<LoginOf[d], s>>, target'[d])
<1> DEFINE w == <<LoginOf[d], s>>
<1>1. PICK t \in LocalTimes, n \in Readable :
        IF Holds(d, s, n, t)
          THEN /\ now' = [now EXCEPT ![d] = t]
               /\ sess' = [sess EXCEPT ![d] = s]
               /\ target' = [target EXCEPT ![d] = BeatTarget(n, w)]
               /\ Goto(d, "beat")
          ELSE Return(d)
  BY DEF CheckHolder
<1>2. Holds(d, s, n, t)
  BY <1>1 DEF Return, Goto, TypeOK
<1>3. sess'[d] = s /\ target'[d] = BeatTarget(n, w)
  BY <1>1, <1>2 DEF TypeOK
<1>4. LoginOf[d] \in Login
  BY LeaseAssumption
<1>5. s # NoSession
  BY <1>2, <1>4, HolderNamed DEF Holds
<1>6. n = Len(thread) /\ n \in Nat
  BY DEF Readable, TypeOK
<1>7. ASSUME BeatTarget(n, w) # 0
      PROVE  Newest(thread, w, BeatTarget(n, w))
  <2>1. CommentsOf(thread, n, w) # {} /\ BeatTarget(n, w) = LatestByWorker(thread, n, w)
    BY <1>7 DEF BeatTarget
  <2>2. QED
    BY <1>6, <2>1, LatestByWorkerType DEF Newest
<1>8. QED
  BY <1>3, <1>5, <1>7

\* What a client's own call does to its request.
LEMMA OwnStep ==
  ASSUME ReplicaLag = 0, BeatInv, NEW d \in Client, Call(d)
  PROVE  /\ pc'[d] \in {"read", "post", "reread", "setup", "beatread", "beat"}
              => sess'[d] # NoSession
         /\ pc'[d] = "beat" /\ target'[d] # 0
              => UNCHANGED thread /\ Newest(thread, <<LoginOf[d], sess'[d]>>, target'[d])
<1> DEFINE Good ==
      /\ pc'[d] \in {"read", "post", "reread", "setup", "beatread", "beat"}
           => sess'[d] # NoSession
      /\ pc'[d] = "beat" /\ target'[d] # 0
           => UNCHANGED thread /\ Newest(thread, <<LoginOf[d], sess'[d]>>, target'[d])
<1>0. TypeOK /\ ClaimsNamed
  BY DEF BeatInv
<1>1. CASE Return(d)
  <2>1. pc'[d] = "idle"
    BY <1>0, <1>1 DEF Return, Goto, TypeOK
  <2>2. QED
    BY <2>1
<1>2. CASE Begin(d)
  <2>1. pc'[d] = "read"
    BY <1>0, <1>2 DEF Begin, Goto, TypeOK
  <2>2. PICK s \in ClaimSessions(d) : sess'[d] = s
    BY <1>0, <1>2 DEF Begin, TypeOK
  <2>3. s # NoSession
    BY ArbiterAssumption DEF ClaimSessions, FreshSessions
  <2>4. QED
    BY <2>1, <2>2, <2>3
<1>3. ASSUME UNCHANGED sess, Goto(d, "post") \/ Goto(d, "reread") \/ Goto(d, "setup")
                               \/ Goto(d, "beatread"),
             pc[d] \in {"read", "post", "reread", "setup"}
      PROVE  Good
  <2>1. pc'[d] \in {"post", "reread", "setup", "beatread"}
    BY <1>0, <1>3 DEF Goto, TypeOK
  <2>2. QED
    BY <1>3, <2>1 DEF BeatInv, CallsNamed
<1>4. ASSUME pc[d] = "idle", UNCHANGED pc
      PROVE  Good
  BY <1>4
<1>5. ASSUME NEW s \in Sess, CheckHolder(d, s), UNCHANGED thread
      PROVE  Good
  <2>1. pc'[d] \in {"idle", "beat"}
    BY <1>0, <1>5 DEF CheckHolder, Return, Goto, TypeOK
  <2>2. QED
    BY <1>0, <1>5, <2>1, AimsOwn
<1>6. CASE CheckRelease(d)
  <2>1. pc'[d] = "release"
    BY <1>0, <1>6 DEF CheckRelease, Goto, TypeOK
  <2>2. QED
    BY <2>1
<1>7. CASE FirstBeat(d) \/ Heartbeat(d) \/ CmdHeartbeat(d)
  <2>1. sess[d] \in Sess /\ mine[d] \in Sess /\ NoSession \in Sess
    BY <1>0 DEF TypeOK, Sess
  <2>2. QED
    BY <1>5, <1>7, <2>1 DEF FirstBeat, Heartbeat, CmdHeartbeat, CmdSession
<1>8. CASE ReadBefore(d)
  BY <1>1, <1>3, <1>8 DEF ReadBefore
<1>9. CASE ReadAfter(d)
  BY <1>1, <1>3, <1>9 DEF ReadAfter
<1>10. CASE PostClaim(d) \/ Setup(d)
  BY <1>3, <1>10 DEF PostClaim, Setup
<1>11. CASE Skip(d) \/ RemoveWorkspace(d)
  BY <1>4, <1>11 DEF Skip, RemoveWorkspace
<1>12. QED
  BY <1>1, <1>2, <1>6, <1>7, <1>8, <1>9, <1>10, <1>11
     DEF Call, ClaimFails, PostClaimUnacknowledged, SetupFails, Beat, BeatFails, Release,
         ReleaseFails, Crash

-----------------------------------------------------------------------------
(* Every step keeps the invariant.                                         *)

\* A call's comment is not another client's.
LEMMA NotOthers ==
  ASSUME BeatInv, NEW d \in Client, Writes(d), NEW c \in Client, c # d,
         sess[c] # NoSession
  PROVE  /\ Len(thread') = Len(thread) + 1
         /\ WorkerOf(thread'[Len(thread')]) # Me(c)
<1>1. PICK a \in {"claim", "heartbeat", "release"}, s \in {sess[d], NoSession} :
        thread' = Append(thread, LeaseComment(d, a, s))
  BY DEF Writes
<1>2. thread \in Seq(Comment)
  BY DEF BeatInv, TypeOK
<1>3. /\ Len(thread') = Len(thread) + 1
      /\ thread'[Len(thread')] = LeaseComment(d, a, s)
  BY <1>1, <1>2
<1>4. sess[c] # NoSession /\ sess[c] # sess[d]
  BY DEF BeatInv, Apart, Owns
<1>5. s # sess[c]
  BY <1>4
<1>6. QED
  BY <1>3, <1>5 DEF WorkerOf, LeaseComment, Me

LEMMA CallKeeps ==
  ASSUME ReplicaLag = 0, BeatInv, NEW d \in Client, Call(d), TypeOK'
  PROVE  BeatInv'
<1>0. TypeOK /\ thread \in Seq(Comment) /\ Extended(thread, thread')
  BY ThreadExtended DEF BeatInv, TypeOK, Next
<1>1. Apart'
  <2>1. Owns(d)' \subseteq Owns(d) \cup FreshSessions
    BY <1>0, OwnsMoves
  <2>2. \A c \in Client : c # d => Owns(c)' = Owns(c)
    BY <1>0, OthersKept DEF Owns
  <2>3. \A c \in Client : Owns(c) \cap FreshSessions = {}
    BY DEF Owns, FreshSessions
  <2> HIDE DEF Owns
  <2>4. ASSUME NEW b \in Client, NEW c \in Client, b # c
        PROVE  Owns(b)' \cap Owns(c)' = {}
    BY <2>1, <2>2, <2>3, <2>4 DEF BeatInv, Apart
  <2>5. QED
    BY <2>4 DEF Apart
<1>2. CallsNamed'
  <2>1. ASSUME NEW c \in Client,
               pc'[c] \in {"read", "post", "reread", "setup", "beatread", "beat"}
        PROVE  sess'[c] # NoSession
    BY <1>0, <2>1, OwnStep, OthersKept DEF BeatInv, CallsNamed
  <2>2. QED
    BY <2>1 DEF CallsNamed
<1>3. ClaimsNamed'
  <2>1. CASE Len(thread') = Len(thread)
    BY <1>0, <2>1 DEF BeatInv, ClaimsNamed, Extended, Agree, SameKey
  <2>2. CASE Writes(d)
    <3>1. PICK a \in {"claim", "heartbeat", "release"}, s \in {sess[d], NoSession} :
            /\ thread' = Append(thread, LeaseComment(d, a, s))
            /\ a = "claim" => s = sess[d] /\ pc[d] = "post"
      BY <2>2 DEF Writes
    <3>2. a = "claim" => s # NoSession
      BY <3>1 DEF BeatInv, CallsNamed
    <3>3. LeaseComment(d, a, s).action = a /\ LeaseComment(d, a, s).session = s
      BY DEF LeaseComment
    <3>4. \A i \in 1..Len(thread') :
            \/ i \in 1..Len(thread) /\ thread'[i] = thread[i]
            \/ thread'[i] = LeaseComment(d, a, s)
      BY <1>0, <3>1
    <3>5. QED
      BY <3>2, <3>3, <3>4 DEF BeatInv, ClaimsNamed
  <2>3. QED
    BY <1>0, <2>1, <2>2, CallWrites DEF EditComment
<1>4. BeatAimed'
  <2>1. ASSUME NEW c \in Client, pc'[c] = "beat", target'[c] # 0
        PROVE  Newest(thread', <<LoginOf[c], sess'[c]>>, target'[c])
    <3>1. CASE c = d
      BY <2>1, <3>1, OwnStep
    <3>2. CASE c # d
      <4>1. pc[c] = "beat" /\ Newest(thread, Me(c), target[c]) /\ sess'[c] = sess[c]
            /\ target'[c] = target[c]
        BY <1>0, <2>1, <3>2, OthersKept DEF BeatInv, BeatAimed
      <4>2. \A k \in 1..Len(thread') : k > Len(thread) => WorkerOf(thread'[k]) # Me(c)
        <5>1. CASE Len(thread') = Len(thread)
          BY <1>0, <5>1 DEF Extended
        <5>2. CASE Writes(d)
          BY <1>0, <3>2, <4>1, <5>2, NotOthers DEF BeatInv, CallsNamed
        <5>3. QED
          BY <1>0, <5>1, <5>2, CallWrites DEF EditComment
      <4>3. Newest(thread', Me(c), target[c])
        BY <1>0, <4>1, <4>2, NewestKept
      <4>4. QED
        BY <4>1, <4>3 DEF Me
    <3>3. QED
      BY <3>1, <3>2
  <2>2. QED
    BY <2>1 DEF BeatAimed, Me
<1>5. QED
  BY <1>1, <1>2, <1>3, <1>4 DEF BeatInv

LEMMA BeatInvNext ==
  ASSUME ReplicaLag = 0, BeatInv, [Next]_vars
  PROVE  BeatInv'
<1>1. TypeOK'
  BY NextType DEF BeatInv
<1>2. ASSUME NEW d \in Client, Call(d)
      PROVE  BeatInv'
  BY <1>1, <1>2, CallKeeps
<1>3. CASE Tick \/ Relabel \/ UNCHANGED vars
  <2>1. UNCHANGED <<thread, pc, sess, target, mine>>
    BY <1>3 DEF Tick, Relabel, vars
  <2>2. QED
    BY <1>1, <2>1
       DEF BeatInv, Apart, Owns, ClaimsNamed, CallsNamed, BeatAimed, Newest, Me
<1>4. QED
  BY <1>2, <1>3 DEF Next

-----------------------------------------------------------------------------
(* A written beat counts.                                                  *)

LEMMA BeatCounts ==
  ASSUME BeatInv, [Next]_vars, NEW c \in Client,
         pc[c] = "beat", pc'[c] = "idle", thread' # thread
  PROVE  FreshWorker(thread', Len(thread'), Me(c), clock + StaleAfter)
<1>0. /\ TypeOK /\ thread \in Seq(Comment) /\ clock \in Int /\ StaleAfter \in Nat
      /\ Extended(thread, thread') /\ thread' \in Seq(Comment)
  BY ThreadExtended, ArbiterAssumption DEF BeatInv, TypeOK, Extended
<1>1. Beat(c)
  <2>1. PICK d \in Client : Call(d)
    BY DEF Next, Tick, Relabel, vars
  <2>2. d = c
    BY <1>0, <2>1, OthersKept
  <2>3. QED
    BY <2>1, <2>2 DEF Call, Begin, Skip, ReadBefore, PostClaim, ReadAfter, ClaimFails,
       PostClaimUnacknowledged, Setup, SetupFails, RemoveWorkspace, FirstBeat, Heartbeat,
       CmdHeartbeat, BeatFails, CheckRelease, Release, ReleaseFails, Crash
<1>2. \E i \in 1..Len(thread') : Newest(thread', Me(c), i) /\ thread'[i].stamp = clock
  <2>1. CASE target[c] = 0
    <3>1. thread' = Append(thread, LeaseComment(c, "heartbeat", sess[c]))
      BY <1>1, <2>1 DEF Beat, WriteBeat, PostComment
    <3>2. /\ Len(thread') = Len(thread) + 1
          /\ thread'[Len(thread')] = LeaseComment(c, "heartbeat", sess[c])
      BY <1>0, <3>1
    <3>3. /\ WorkerOf(thread'[Len(thread')]) = Me(c)
          /\ thread'[Len(thread')].stamp = clock
      BY <3>2 DEF LeaseComment, WorkerOf, Me
    <3>4. Newest(thread', Me(c), Len(thread'))
      BY <1>0, <3>2, <3>3 DEF Newest, CommentsOf
    <3>5. QED
      BY <1>0, <3>2, <3>3, <3>4
  <2>2. CASE target[c] # 0
    <3>1. Newest(thread, Me(c), target[c])
      BY <2>2 DEF BeatInv, BeatAimed
    <3>2. thread' = [thread EXCEPT ![target[c]] = Touched(thread[target[c]], clock)]
      BY <1>1, <2>2 DEF Beat, WriteBeat, EditComment
    <3>3. target[c] \in 1..Len(thread) /\ Len(thread') = Len(thread)
      BY <1>0, <3>1, <3>2 DEF Newest, CommentsOf
    <3>4. Newest(thread', Me(c), target[c])
      BY <1>0, <3>1, <3>3, NewestKept
    <3>5. thread'[target[c]].stamp = clock
      BY <1>0, <3>2, <3>3 DEF Touched, Comment
    <3>6. QED
      BY <3>3, <3>4, <3>5
  <2>3. QED
    BY <2>1, <2>2
<1>3. PICK i \in 1..Len(thread') : Newest(thread', Me(c), i) /\ thread'[i].stamp = clock
  BY <1>2
<1>4. LatestByWorker(thread', Len(thread'), Me(c)) = i
  BY <1>0, <1>3, NewestIsLatest
<1>5. QED
  BY <1>0, <1>3, <1>4 DEF FreshWorker, IsFresh

\* Where reads do not lag, every heartbeat that is written moves the stamp its
\* worker's freshness is read from, whoever else claims, beats or releases, under
\* the same login too, between its read and its write.
THEOREM WrittenBeatsCount ==
  ASSUME ReplicaLag = 0
  PROVE  Spec => BeatRefreshes
<1>1. Init => BeatInv
  BY InitType
     DEF Init, BeatInv, Apart, Owns, ClaimsNamed, CallsNamed, BeatAimed
<1>2. BeatInv /\ [Next]_vars => BeatInv'
  BY BeatInvNext
<1>3. BeatInv /\ [Next]_vars =>
        [ \A c \in Client :
            pc[c] = "beat" /\ pc'[c] = "idle" /\ thread' # thread =>
              FreshWorker(thread', Len(thread'), Me(c), clock + StaleAfter) ]_vars
  BY BeatCounts
<1>4. QED
  BY <1>1, <1>2, <1>3, PTL DEF Spec, BeatRefreshes

-----------------------------------------------------------------------------
(***************************************************************************)
(* Nobody is told LOST_RACE for a lease that is its own, where every       *)
(* client has a login to itself, mints a session per claim and reads the   *)
(* whole thread, and clocks differ by no more than the staleness window.   *)
(* Calls may take any time.                                                *)
(***************************************************************************)

\* The conditions.
Alone == \A c, d \in Client : LoginOf[c] = LoginOf[d] => c = d
Minting == ReuseSession = FALSE
Current == ReplicaLag = 0
Close == MaxSkew <= StaleAfter

-----------------------------------------------------------------------------
(* The invariant.                                                          *)

\* What a call captured as now is an instant its client's clock could show.
NowSeen == \A c \in Client : pc[c] \in {"read", "post", "reread"} => now[c] <= clock + MaxSkew

\* A client that is about to claim has not commented under this session.
NotYet(t, w) == \A i \in 1..Len(t) : WorkerOf(t[i]) # w

\* w's only comment, and its login's last one, is a claim no older than `stamp`.
JustClaimed(t, w, stamp) ==
  \E p \in 1..Len(t) :
    /\ WorkerOf(t[p]) = w
    /\ t[p].stamp >= stamp
    /\ \A j \in 1..Len(t) : /\ WorkerOf(t[j]) = w => j = p
                            /\ t[j].login = w[1] => j <= p

NeverHeld(t, w) == \A n \in 0..Len(t) : HolderAfter(t)[n] # w

ClaimsOK(c) ==
  /\ pc[c] \in {"read", "post"} => NotYet(thread, Me(c))
  /\ pc[c] = "reread" => JustClaimed(thread, Me(c), now[c] - MaxSkew)
  /\ pc[c] \in {"read", "post", "reread"} => outcome[c].kind = "none"
  /\ outcome[c].kind = "lost" =>
       /\ outcome[c].worker \in Worker
       /\ outcome[c].worker[1] = LoginOf[c]
       /\ NeverHeld(thread, outcome[c].worker)

LossInv == TypeOK /\ NowSeen /\ \A c \in Client : ClaimsOK(c)

-----------------------------------------------------------------------------
(* The fold.                                                               *)

LEMMA NotYetNeverHeld ==
  ASSUME NEW t \in Seq(Comment), NEW w, w # NoWorker, NotYet(t, w)
  PROVE  NeverHeld(t, w)
BY HolderClaimed DEF NeverHeld, NotYet, Claimant

\* A fresh claim that is its login's last word either never held the lease or
\* holds it.
LEMMA ClaimedOrNever ==
  ASSUME NEW t \in Seq(Comment), NEW w, w # NoWorker, NEW at \in Int,
         JustClaimed(t, w, at - StaleAfter),
         Decide(t, Len(t), at).holder # w
  PROVE  NeverHeld(t, w)
<1> DEFINE L == Len(t)
<1>1. PICK p \in 1..L :
        /\ WorkerOf(t[p]) = w
        /\ t[p].stamp >= at - StaleAfter
        /\ \A j \in 1..L : /\ WorkerOf(t[j]) = w => j = p
                           /\ t[j].login = w[1] => j <= p
  BY DEF JustClaimed
<1>2. FreshWorker(t, L, w, at)
  <2>1. Newest(t, w, p)
    BY <1>1 DEF Newest, CommentsOf
  <2>2. LatestByWorker(t, L, w) = p
    BY <2>1, NewestIsLatest
  <2>3. QED
    BY <1>1, <2>2 DEF FreshWorker, IsFresh
<1>3. HolderAfter(t)[L] # w
  BY <1>2 DEF Decide
<1>4. ASSUME NEW n \in 0..L, HolderAfter(t)[n] = w
      PROVE  FALSE
  <2>1. PICK i \in 1..n : t[i].action = "claim" /\ WorkerOf(t[i]) = w
    BY <1>4, HolderClaimed DEF Claimant
  <2>2. p <= n
    BY <1>1, <2>1
  <2>3. \A k \in n+1 .. L : ~(t[k].action = "release" /\ t[k].login = w[1])
    BY <1>1, <2>2
  <2>4. L \in n..Len(t)
    OBVIOUS
  <2>5. HolderAfter(t)[L] = w
    BY <1>4, <2>3, <2>4, HeldUntilReleased
  <2>6. QED
    BY <1>3, <2>5
<1>5. QED
  BY <1>4 DEF NeverHeld

-----------------------------------------------------------------------------
(* What a longer or touched thread keeps.                                  *)

LEMMA NotYetKept ==
  ASSUME NEW t \in Seq(Comment), NEW u, Extended(t, u), NEW w, NotYet(t, w),
         \A k \in 1..Len(u) : k > Len(t) => WorkerOf(u[k]) # w
  PROVE  NotYet(u, w)
<1>1. ASSUME NEW k \in 1..Len(u)
      PROVE  WorkerOf(u[k]) # w
  <2>1. CASE k <= Len(t)
    <3>1. k \in 1..Len(t) /\ WorkerOf(u[k]) = WorkerOf(t[k])
      BY <2>1 DEF Extended, Agree, SameKey, WorkerOf
    <3>2. QED
      BY <3>1 DEF NotYet
  <2>2. CASE k > Len(t)
    BY <2>2
  <2>3. QED
    BY <2>1, <2>2
<1>2. QED
  BY <1>1 DEF NotYet

LEMMA JustClaimedKept ==
  ASSUME NEW t \in Seq(Comment), NEW u, Extended(t, u), NEW w, NEW stamp \in Int,
         JustClaimed(t, w, stamp),
         \A k \in 1..Len(u) : k > Len(t) => u[k].login # w[1],
         \A k \in 1..Len(t) : u[k].stamp = t[k].stamp \/ u[k].stamp >= stamp
  PROVE  JustClaimed(u, w, stamp)
<1>1. PICK p \in 1..Len(t) :
        /\ WorkerOf(t[p]) = w
        /\ t[p].stamp >= stamp
        /\ \A j \in 1..Len(t) : /\ WorkerOf(t[j]) = w => j = p
                                /\ t[j].login = w[1] => j <= p
  BY DEF JustClaimed
<1>2. p \in 1..Len(u) /\ Len(t) \in Nat /\ Len(u) \in Nat
  BY DEF Extended
<1>3. \A k \in 1..Len(t) : WorkerOf(u[k]) = WorkerOf(t[k]) /\ u[k].login = t[k].login
  BY DEF Extended, Agree, SameKey, WorkerOf
<1>4. \A k \in 1..Len(u) : k > Len(t) => WorkerOf(u[k]) # w
  BY DEF WorkerOf
<1>5. ASSUME NEW j \in 1..Len(u)
      PROVE  /\ WorkerOf(u[j]) = w => j = p
             /\ u[j].login = w[1] => j <= p
  <2>1. CASE j \in 1..Len(t)
    BY <1>1, <1>3, <2>1
  <2>2. CASE j > Len(t)
    BY <1>4, <2>2
  <2>3. QED
    BY <1>2, <2>1, <2>2
<1>6. u[p].stamp >= stamp
  BY <1>1
<1>7. WorkerOf(u[p]) = w
  BY <1>1, <1>3
<1>8. QED
  BY <1>2, <1>5, <1>6, <1>7 DEF JustClaimed

LEMMA NeverHeldKept ==
  ASSUME NEW t \in Seq(Comment), NEW u, Extended(t, u), NEW w, w # NoWorker,
         NeverHeld(t, w),
         \A k \in 1..Len(u) :
           k > Len(t) => ~(u[k].action = "claim" /\ WorkerOf(u[k]) = w)
  PROVE  NeverHeld(u, w)
<1>1. /\ u \in Seq(Comment) /\ Len(t) \in Nat /\ Len(u) \in Nat
      /\ Len(t) <= Len(u) /\ Len(u) <= Len(t) + 1
  BY DEF Extended
<1>2. ASSUME NEW n \in 0..Len(t)
      PROVE  HolderAfter(u)[n] # w
  <2>1. Agree(t, u, n)
    BY DEF Extended, Agree
  <2>2. HolderAfter(t)[n] = HolderAfter(u)[n]
    BY <1>1, <2>1, HolderAfterPrefix
  <2>3. QED
    BY <2>2 DEF NeverHeld
<1>3. ASSUME Len(u) = Len(t) + 1
      PROVE  HolderAfter(u)[Len(u)] # w
  <2>1. HolderAfter(u)[Len(u)] = NextHolder(HolderAfter(u)[Len(u)-1], u[Len(u)])
    BY <1>1, <1>3, HolderAfterStep
  <2>2. Len(u)-1 = Len(t) /\ HolderAfter(u)[Len(u)-1] # w
    BY <1>1, <1>2, <1>3
  <2>3. ~(u[Len(u)].action = "claim" /\ WorkerOf(u[Len(u)]) = w)
    BY <1>1, <1>3
  <2>4. QED
    BY <2>1, <2>2, <2>3 DEF NextHolder
<1>4. QED
  BY <1>1, <1>2, <1>3 DEF NeverHeld

-----------------------------------------------------------------------------
(* What a call does to the thread.                                         *)

\* d's comments carry d's login; only a claim call claims; a touched comment is
\* as new as the clock.
LEMMA CallThread ==
  ASSUME TypeOK, NEW d \in Client, Call(d)
  PROVE  /\ Extended(thread, thread')
         /\ \A k \in 1..Len(thread') : k > Len(thread) =>
              /\ thread'[k].login = LoginOf[d]
              /\ thread'[k].action = "claim" => pc[d] = "post"
         /\ \A k \in 1..Len(thread) : thread'[k].stamp \in {thread[k].stamp, clock}
<1>1. Extended(thread, thread') /\ thread \in Seq(Comment)
  BY ThreadExtended DEF Next, TypeOK
<1>2. CASE UNCHANGED thread
  BY <1>1, <1>2 DEF TypeOK
<1>3. CASE EditComment(target[d])
  <2>1. Len(thread') = Len(thread)
    BY <1>1, <1>3 DEF EditComment
  <2>2. \A k \in 1..Len(thread) : thread'[k].stamp \in {thread[k].stamp, clock}
    BY <1>1, <1>3 DEF EditComment, Touched, Comment
  <2>3. QED
    BY <1>1, <2>1, <2>2
<1>4. CASE Writes(d)
  <2>1. PICK a \in {"claim", "heartbeat", "release"}, s \in {sess[d], NoSession} :
          /\ thread' = Append(thread, LeaseComment(d, a, s))
          /\ a = "claim" => s = sess[d] /\ pc[d] = "post"
    BY <1>4 DEF Writes
  <2>2. LeaseComment(d, a, s).login = LoginOf[d] /\ LeaseComment(d, a, s).action = a
    BY DEF LeaseComment
  <2>3. /\ Len(thread') = Len(thread) + 1
        /\ thread'[Len(thread) + 1] = LeaseComment(d, a, s)
        /\ \A k \in 1..Len(thread) : thread'[k] = thread[k]
    BY <1>1, <2>1
  <2>4. QED
    BY <1>1, <2>1, <2>2, <2>3
<1>5. QED
  BY <1>2, <1>3, <1>4, CallWrites

LEMMA OutcomeKept ==
  ASSUME TypeOK, NEW d \in Client, Call(d), NEW c \in Client, c # d
  PROVE  outcome'[c] = outcome[c] /\ now'[c] = now[c]
BY DEF TypeOK, Call, Begin, Skip, ReadBefore, PostClaim, ReadAfter, ClaimFails,
       PostClaimUnacknowledged, Setup, SetupFails, RemoveWorkspace, FirstBeat, Heartbeat,
       CmdHeartbeat, CheckHolder, Beat, BeatFails, CheckRelease, Release, ReleaseFails,
       Crash, Return, Report

-----------------------------------------------------------------------------
(* Every step keeps the invariant.                                         *)

LEMMA MeIs ==
  ASSUME TypeOK, NEW c \in Client
  PROVE  Me(c) \in Worker /\ Me(c) # NoWorker /\ Me(c)[1] = LoginOf[c]
BY MeType, ArbiterAssumption DEF Me

\* Another client's call.
LEMMA OthersOK ==
  ASSUME Alone, LossInv, NEW d \in Client, Call(d), NEW c \in Client, c # d
  PROVE  ClaimsOK(c)'
<1>0. TypeOK /\ thread \in Seq(Comment) /\ clock \in Int /\ MaxSkew \in Nat
      /\ now[c] \in Int /\ Len(thread) \in Nat
  BY LeaseAssumption DEF LossInv, TypeOK
<1>1. /\ pc'[c] = pc[c] /\ sess'[c] = sess[c] /\ now'[c] = now[c]
      /\ outcome'[c] = outcome[c] /\ Me(c)' = Me(c)
  BY <1>0, OthersKept, OutcomeKept DEF Me
<1>2. /\ Extended(thread, thread')
      /\ \A k \in 1..Len(thread') : k > Len(thread) => thread'[k].login # LoginOf[c]
      /\ \A k \in 1..Len(thread) : thread'[k].stamp \in {thread[k].stamp, clock}
  BY <1>0, CallThread DEF Alone
<1>3. \A w : w[1] = LoginOf[c] =>
        \A k \in 1..Len(thread') : k > Len(thread) => WorkerOf(thread'[k]) # w
  BY <1>2 DEF WorkerOf
<1>4. Me(c)[1] = LoginOf[c]
  BY <1>0, MeIs
<1>5. ASSUME pc[c] \in {"read", "post"}
      PROVE  NotYet(thread', Me(c))
  <2>1. NotYet(thread, Me(c))
    BY <1>5 DEF LossInv, ClaimsOK
  <2>2. QED
    BY <1>0, <1>2, <1>3, <1>4, <2>1, NotYetKept
<1>6. ASSUME pc[c] = "reread"
      PROVE  JustClaimed(thread', Me(c), now[c] - MaxSkew)
  <2>1. JustClaimed(thread, Me(c), now[c] - MaxSkew)
    BY <1>6 DEF LossInv, ClaimsOK
  <2>2. clock >= now[c] - MaxSkew
    BY <1>0, <1>6 DEF LossInv, NowSeen
  <2>3. \A k \in 1..Len(thread) :
          thread'[k].stamp = thread[k].stamp \/ thread'[k].stamp >= now[c] - MaxSkew
    BY <1>2, <2>2
  <2>4. now[c] - MaxSkew \in Int
    BY <1>0
  <2>5. QED
    BY <1>0, <1>2, <1>4, <2>1, <2>3, <2>4, JustClaimedKept
<1>7. ASSUME outcome[c].kind = "lost"
      PROVE  NeverHeld(thread', outcome[c].worker)
  <2>1. /\ outcome[c].worker # NoWorker /\ outcome[c].worker[1] = LoginOf[c]
        /\ NeverHeld(thread, outcome[c].worker)
    BY <1>7, ArbiterAssumption DEF LossInv, ClaimsOK
  <2>2. QED
    BY <1>0, <1>2, <1>3, <2>1, NeverHeldKept
<1>8. QED
  BY <1>1, <1>5, <1>6, <1>7 DEF LossInv, ClaimsOK

\* What was lost before stays lost while the client does not claim.
LEMMA StillLost ==
  ASSUME LossInv, NEW d \in Client, Call(d), outcome[d].kind = "lost"
  PROVE  /\ outcome[d].worker \in Worker
         /\ outcome[d].worker[1] = LoginOf[d]
         /\ NeverHeld(thread', outcome[d].worker)
<1>0. TypeOK /\ thread \in Seq(Comment)
  BY DEF LossInv, TypeOK
<1>1. pc[d] # "post"
  BY DEF LossInv, ClaimsOK
<1>2. /\ outcome[d].worker \in Worker /\ outcome[d].worker[1] = LoginOf[d]
      /\ NeverHeld(thread, outcome[d].worker) /\ outcome[d].worker # NoWorker
  BY ArbiterAssumption DEF LossInv, ClaimsOK
<1>3. QED
  BY <1>0, <1>1, <1>2, CallThread, NeverHeldKept

LEMMA OwnOK ==
  ASSUME Minting, Current, Close, LossInv, NEW d \in Client, Call(d)
  PROVE  ClaimsOK(d)'
<1> DEFINE Out == pc'[d] \notin {"read", "post", "reread"}
<1>0. /\ TypeOK /\ thread \in Seq(Comment) /\ clock \in Int /\ MaxSkew \in Nat
      /\ StaleAfter \in Nat /\ now[d] \in Int /\ Len(thread) \in Nat
  BY LeaseAssumption, ArbiterAssumption DEF LossInv, TypeOK
<1>1. Me(d) \in Worker /\ Me(d) # NoWorker /\ Me(d)[1] = LoginOf[d]
  BY <1>0, MeIs
<1>2. ASSUME Out, outcome'[d].kind # "lost"
      PROVE  ClaimsOK(d)'
  BY <1>2 DEF ClaimsOK
<1>3. ASSUME Out, UNCHANGED outcome
      PROVE  ClaimsOK(d)'
  BY <1>3, StillLost DEF ClaimsOK
<1>4. ASSUME Out, NeverHeld(thread, Me(d)), UNCHANGED thread, outcome'[d].worker = Me(d)
      PROVE  ClaimsOK(d)'
  BY <1>1, <1>4 DEF ClaimsOK
<1>5. ASSUME NEW kind, Report(d, kind)
      PROVE  outcome'[d].kind = kind /\ outcome'[d].worker = Me(d)
  BY <1>0, <1>5 DEF Report, TypeOK
<1>6. ASSUME Return(d)
      PROVE  Out
  BY <1>0, <1>6 DEF Return, Goto, TypeOK
<1>7. CASE Begin(d)
  <2>1. PICK s \in FreshSessions : sess'[d] = s
    BY <1>0, <1>7 DEF Begin, ClaimSessions, Minting, TypeOK
  <2>2. /\ pc'[d] = "read" /\ outcome'[d] = NoResult /\ UNCHANGED thread
        /\ Me(d)' = <<LoginOf[d], s>>
    BY <1>0, <1>7, <2>1 DEF Begin, Goto, TypeOK, Me
  <2>3. NotYet(thread, <<LoginOf[d], s>>)
    BY <2>1 DEF FreshSessions, NotYet, WorkerOf
  <2>4. QED
    BY <2>2, <2>3 DEF ClaimsOK, NoResult
<1>8. CASE Skip(d)
  <2>1. Out /\ outcome'[d].kind = "skipped"
    BY <1>0, <1>8 DEF Skip, TypeOK
  <2>2. QED
    BY <1>2, <2>1
<1>9. CASE ReadBefore(d)
  <2>1. NotYet(thread, Me(d)) /\ outcome[d].kind = "none" /\ UNCHANGED thread
    BY <1>9 DEF ReadBefore, LossInv, ClaimsOK
  <2>2. CASE Goto(d, "post") /\ UNCHANGED <<now, sess, target, outcome>>
    <3>1. pc'[d] = "post" /\ Me(d)' = Me(d)
      BY <1>0, <2>2 DEF Goto, TypeOK, Me
    <3>2. QED
      BY <2>1, <2>2, <3>1 DEF ClaimsOK
  <2>3. CASE Report(d, "lost") /\ Return(d)
    <3>1. NeverHeld(thread, Me(d))
      BY <1>0, <1>1, <2>1, NotYetNeverHeld
    <3>2. QED
      BY <1>4, <1>5, <1>6, <2>1, <2>3, <3>1
  <2>4. QED
    BY <1>9, <2>2, <2>3 DEF ReadBefore
<1>10. CASE PostClaim(d)
  <2>1. /\ NotYet(thread, Me(d)) /\ outcome[d].kind = "none"
        /\ now[d] <= clock + MaxSkew
    BY <1>10 DEF PostClaim, LossInv, ClaimsOK, NowSeen
  <2>2. /\ pc'[d] = "reread" /\ UNCHANGED <<now, sess, outcome>> /\ Me(d)' = Me(d)
        /\ thread' = Append(thread, LeaseComment(d, "claim", sess[d]))
    BY <1>0, <1>10 DEF PostClaim, PostComment, Goto, TypeOK, Me
  <2>3. /\ Len(thread') = Len(thread) + 1
        /\ thread'[Len(thread')] = LeaseComment(d, "claim", sess[d])
        /\ \A k \in 1..Len(thread) : thread'[k] = thread[k]
    BY <1>0, <2>2
  <2>4. /\ WorkerOf(thread'[Len(thread')]) = Me(d)
        /\ thread'[Len(thread')].stamp = clock
    BY <2>3 DEF LeaseComment, WorkerOf, Me
  <2>5. \A j \in 1..Len(thread') : WorkerOf(thread'[j]) = Me(d) => j = Len(thread')
    BY <1>0, <2>1, <2>3 DEF NotYet
  <2>6. JustClaimed(thread', Me(d), now[d] - MaxSkew)
    <3>1. Len(thread') \in 1..Len(thread') /\ clock >= now[d] - MaxSkew
      BY <1>0, <2>1, <2>3
    <3>2. QED
      BY <2>4, <2>5, <3>1 DEF JustClaimed
  <2>7. QED
    BY <2>1, <2>2, <2>6 DEF ClaimsOK
<1>11. CASE ReadAfter(d)
  <2>1. JustClaimed(thread, Me(d), now[d] - MaxSkew) /\ UNCHANGED thread
    BY <1>11 DEF ReadAfter, LossInv, ClaimsOK
  <2>2. JustClaimed(thread, Me(d), now[d] - StaleAfter)
    <3>1. now[d] - MaxSkew >= now[d] - StaleAfter
      BY <1>0 DEF Close
    <3>2. \A i \in 1..Len(thread) : thread[i].stamp \in Int
      <4>1. \A i \in 1..Len(thread) : thread[i] \in Comment
        BY <1>0
      <4>2. QED
        BY <4>1 DEF Comment
    <3>3. \A i \in 1..Len(thread) : thread[i].stamp >= now[d] - MaxSkew
                                      => thread[i].stamp >= now[d] - StaleAfter
      BY <1>0, <3>1, <3>2
    <3>4. QED
      BY <2>1, <3>3 DEF JustClaimed
  <2>3. PICK n \in Readable :
          \/ Report(d, "won") /\ Goto(d, "setup")
          \/ Report(d, "error") /\ Return(d)
          \/ /\ Decide(thread, n, now[d]).holder # Me(d)
             /\ Report(d, "lost") /\ Return(d)
    BY <1>11 DEF ReadAfter
  <2>4. n = Len(thread)
    BY <1>0 DEF Readable, Current
  <2>5. CASE Report(d, "won") /\ Goto(d, "setup")
    <3>1. Out
      BY <1>0, <2>5 DEF Goto, TypeOK
    <3>2. QED
      BY <1>2, <1>5, <2>5, <3>1
  <2>6. CASE Report(d, "error") /\ Return(d)
    BY <1>2, <1>5, <1>6, <2>6
  <2>7. CASE /\ Decide(thread, n, now[d]).holder # Me(d)
             /\ Report(d, "lost") /\ Return(d)
    <3>1. NeverHeld(thread, Me(d))
      BY <1>0, <1>1, <2>2, <2>4, <2>7, ClaimedOrNever
    <3>2. QED
      BY <1>4, <1>5, <1>6, <2>1, <2>7, <3>1
  <2>8. QED
    BY <2>3, <2>5, <2>6, <2>7
<1>12. CASE ClaimFails(d) \/ PostClaimUnacknowledged(d)
  <2>1. Report(d, "error") /\ Return(d)
    BY <1>12 DEF ClaimFails, PostClaimUnacknowledged
  <2>2. QED
    BY <1>2, <1>5, <1>6, <2>1
<1>13. CASE Setup(d) \/ RemoveWorkspace(d) \/ CheckRelease(d)
  <2>1. Out /\ UNCHANGED outcome
    BY <1>0, <1>13 DEF Setup, RemoveWorkspace, CheckRelease, Goto, TypeOK
  <2>2. QED
    BY <1>3, <2>1
<1>14. CASE FirstBeat(d) \/ Heartbeat(d) \/ CmdHeartbeat(d)
  <2>1. Out /\ UNCHANGED outcome
    BY <1>0, <1>14 DEF FirstBeat, Heartbeat, CmdHeartbeat, CheckHolder, Return, Goto, TypeOK
  <2>2. QED
    BY <1>3, <2>1
<1>15. CASE \/ SetupFails(d) \/ Beat(d) \/ BeatFails(d) \/ Release(d)
            \/ ReleaseFails(d) \/ Crash(d)
  <2>1. Return(d) /\ UNCHANGED outcome
    BY <1>15 DEF SetupFails, Beat, BeatFails, Release, ReleaseFails, Crash
  <2>2. QED
    BY <1>3, <1>6, <2>1
<1>16. QED
  BY <1>7, <1>8, <1>9, <1>10, <1>11, <1>12, <1>13, <1>14, <1>15 DEF Call

\* No call captures an instant its client's clock cannot show, and none after it.
LEMMA NowKept ==
  ASSUME LossInv, NEW d \in Client, Call(d)
  PROVE  NowSeen'
<1>0. TypeOK /\ clock \in Int /\ MaxSkew \in Nat
  BY LeaseAssumption DEF LossInv, TypeOK
<1>1. UNCHANGED clock
  BY DEF Call, Begin, Skip, ReadBefore, PostClaim, ReadAfter, ClaimFails,
       PostClaimUnacknowledged, Setup, SetupFails, RemoveWorkspace, FirstBeat, Heartbeat,
       CmdHeartbeat, Beat, BeatFails, CheckRelease, Release, ReleaseFails, Crash
<1>2. ASSUME NEW c \in Client, c # d, pc'[c] \in {"read", "post", "reread"}
      PROVE  now'[c] <= clock + MaxSkew
  BY <1>0, <1>2, OthersKept, OutcomeKept DEF LossInv, NowSeen
<1>3. ASSUME pc'[d] \in {"read", "post", "reread"}
      PROVE  now'[d] <= clock + MaxSkew
  <2>1. \/ now'[d] \in LocalTimes
        \/ now'[d] = now[d] /\ pc[d] \in {"read", "post", "reread"}
    BY <1>0, <1>3
    DEF TypeOK, Call, Begin, Skip, ReadBefore, PostClaim, ReadAfter, ClaimFails,
        PostClaimUnacknowledged, Setup, SetupFails, RemoveWorkspace, FirstBeat, Heartbeat,
        CmdHeartbeat, CheckHolder, Beat, BeatFails, CheckRelease, Release, ReleaseFails,
        Crash, Return, Goto
  <2>2. QED
    BY <1>0, <2>1, <1>3 DEF LossInv, NowSeen, LocalTimes
<1>4. QED
  BY <1>1, <1>2, <1>3 DEF NowSeen

LEMMA LossInvNext ==
  ASSUME Alone, Minting, Current, Close, LossInv, [Next]_vars
  PROVE  LossInv'
<1>1. TypeOK'
  BY NextType DEF LossInv
<1>2. ASSUME NEW d \in Client, Call(d)
      PROVE  LossInv'
  <2>1. \A c \in Client : ClaimsOK(c)'
    BY <1>2, OthersOK, OwnOK
  <2>2. QED
    BY <1>1, <1>2, <2>1, NowKept DEF LossInv
<1>3. CASE Tick \/ Relabel \/ UNCHANGED vars
  <2>1. /\ UNCHANGED <<thread, pc, sess, now, outcome>>
        /\ clock' = clock \/ clock' = clock + 1
    BY <1>3 DEF Tick, Relabel, vars
  <2>2. NowSeen'
    BY <2>1, LeaseAssumption DEF LossInv, TypeOK, NowSeen
  <2>3. \A c \in Client : ClaimsOK(c)'
    BY <2>1 DEF LossInv, ClaimsOK, NotYet, JustClaimed, NeverHeld, Me
  <2>4. QED
    BY <1>1, <2>2, <2>3 DEF LossInv
<1>4. QED
  BY <1>2, <1>3 DEF Next

\* A client that was told LOST_RACE is not, now or later, the claimant all others
\* see, unless it claims again: nobody walks away from a task that then sits there
\* held by that claim.  Only as the heir of a stale holder may it be named.
THEOREM LossesAreTrue ==
  ASSUME Alone, Minting, Current, Close
  PROVE  Spec => []NoFalseLoss
<1>1. Init => LossInv
  BY InitType DEF Init, LossInv, NowSeen, ClaimsOK, NoResult
<1>2. LossInv /\ [Next]_vars => LossInv'
  BY LossInvNext
<1>3. LossInv => NoFalseLoss
  <2>1. SUFFICES ASSUME LossInv, NEW c \in Client, outcome[c].kind = "lost"
                 PROVE  /\ CurrentHolder # outcome[c].worker
                        /\ CurrentLease.holder = outcome[c].worker
                             => CurrentLease.reason = "reclaimed"
    BY DEF NoFalseLoss
  <2>2. NeverHeld(thread, outcome[c].worker) /\ Len(thread) \in 0..Len(thread)
    BY <2>1 DEF LossInv, ClaimsOK, TypeOK
  <2>3. CurrentHolder # outcome[c].worker
    BY <2>2 DEF NeverHeld, CurrentHolder
  <2>4. outcome[c].worker # NoWorker
    BY <2>1, ArbiterAssumption DEF LossInv, ClaimsOK, Worker
  <2>5. \/ CurrentLease.holder \in {NoWorker, CurrentHolder}
        \/ CurrentLease.reason = "reclaimed"
    BY DEF CurrentLease, CurrentHolder, Decide
  <2>6. QED
    BY <2>3, <2>4, <2>5
<1>4. QED
  BY <1>1, <1>2, <1>3, PTL DEF Spec

-----------------------------------------------------------------------------
(***************************************************************************)
(* Two workers never both have reason to believe they hold the lease,      *)
(* where calls take no time, clocks agree, reads see the whole thread and  *)
(* every claim mints its session: a win that is fresh and unreleased is    *)
(* the lease decide_lease gives at this instant, and that is one worker.   *)
(* Staleness, the passing on of leases, failures, crashes and logins with  *)
(* several sessions are all there.                                         *)
(***************************************************************************)

-----------------------------------------------------------------------------
(* The lease a whole thread decides at an instant.                         *)

HolderOf(t) == HolderAfter(t)[Len(t)]
Fresh(t, at, w) == FreshWorker(t, Len(t), w, at)
Heirs(t, at) == Successors(t, Len(t), HolderOf(t), at)
Leased(t, at) == Decide(t, Len(t), at).holder

Leads(t, at, i) == i \in Heirs(t, at) /\ \A j \in Heirs(t, at) : i <= j

LEMMA LeadsUnique ==
  ASSUME NEW t \in Seq(Comment), NEW at, NEW i, Leads(t, at, i)
  PROVE  i = CHOOSE k \in Heirs(t, at) : \A j \in Heirs(t, at) : k <= j
<1>1. Heirs(t, at) \subseteq Nat
  BY DEF Heirs, Successors
<1>2. QED
  BY <1>1 DEF Leads

LEMMA HeirsLead ==
  ASSUME NEW t \in Seq(Comment), NEW at, Heirs(t, at) # {}
  PROVE  \E i : Leads(t, at, i)
<1>1. Heirs(t, at) \in SUBSET Nat
  BY DEF Heirs, Successors
<1>2. QED
  BY <1>1, NatMin DEF Leads

\* The lease goes to the fold's holder while it is fresh, then to its first
\* fresh heir.
IsLeased(t, at, w) ==
  /\ HolderOf(t) # NoWorker
  /\ \/ Fresh(t, at, HolderOf(t)) /\ w = HolderOf(t)
     \/ /\ ~Fresh(t, at, HolderOf(t))
        /\ \E i : Leads(t, at, i) /\ w = WorkerOf(t[i])

LEMMA LeasedIs ==
  ASSUME NEW t \in Seq(Comment), NEW at, NEW w, w # NoWorker
  PROVE  Leased(t, at) = w <=> IsLeased(t, at, w)
<1> DEFINE h == HolderOf(t)
           first == CHOOSE k \in Heirs(t, at) : \A j \in Heirs(t, at) : k <= j
<1>1. Leased(t, at) =
        IF h = NoWorker THEN NoWorker
        ELSE IF Fresh(t, at, h) THEN h
        ELSE IF Heirs(t, at) # {} THEN WorkerOf(t[first])
        ELSE NoWorker
  BY DEF Leased, Decide, HolderOf, Fresh, Heirs
<1>2. Heirs(t, at) # {} <=> \E i : Leads(t, at, i)
  BY HeirsLead DEF Leads
<1>3. \A i : Leads(t, at, i) => i = first
  BY LeadsUnique
<1> HIDE DEF first, h
<1>4. QED
  BY <1>1, <1>2, <1>3 DEF h, IsLeased

LEMMA LeasedClaimed ==
  ASSUME NEW t \in Seq(Comment), NEW at, Leased(t, at) # NoWorker
  PROVE  Claimant(t, Len(t), Leased(t, at)) /\ Fresh(t, at, Leased(t, at))
<1>1. Claimant(t, Len(t), Leased(t, at))
  BY DecidedClaimed DEF Leased
<1>2. \A i : Leads(t, at, i) => Fresh(t, at, WorkerOf(t[i]))
  BY DEF Leads, Heirs, Successors, Fresh
<1>3. IsLeased(t, at, Leased(t, at))
  BY LeasedIs
<1>4. QED
  BY <1>1, <1>2, <1>3 DEF IsLeased

-----------------------------------------------------------------------------
(* How the lease moves with time and with the thread.                      *)

\* Whoever was stale stays so.
LEMMA StaleStays ==
  ASSUME NEW t \in Seq(Comment), NEW w, Claimant(t, Len(t), w), NEW at \in Int,
         NEW later \in Int, at <= later, Fresh(t, later, w)
  PROVE  Fresh(t, at, w)
<1> DEFINE i == LatestByWorker(t, Len(t), w)
<1>1. i \in 1..Len(t)
  <2>1. CommentsOf(t, Len(t), w) # {} /\ Len(t) \in Nat
    BY DEF Claimant, CommentsOf
  <2>2. QED
    BY <2>1, LatestByWorkerType DEF CommentsOf
<1>2. t[i] \in Comment
  BY <1>1
<1>3. t[i].stamp \in Int
  BY <1>2 DEF Comment
<1>4. t[i].stamp >= later - StaleAfter
  BY DEF Fresh, FreshWorker, IsFresh
<1> HIDE DEF i
<1>5. t[i].stamp >= at - StaleAfter
  BY <1>3, <1>4, ArbiterAssumption
<1>6. QED
  BY <1>5 DEF i, Fresh, FreshWorker, IsFresh

\* A lease is kept over time by a worker that is fresh in the end.
LEMMA LeaseOutlasts ==
  ASSUME NEW t \in Seq(Comment), NEW w, w # NoWorker, NEW at \in Int,
         NEW later \in Int, at <= later, Leased(t, at) = w, Fresh(t, later, w)
  PROVE  Leased(t, later) = w
<1>0. IsLeased(t, at, w) /\ (Leased(t, later) = w <=> IsLeased(t, later, w))
  BY LeasedIs
<1>1. HolderOf(t) # NoWorker
  BY <1>0 DEF IsLeased
<1>2. Claimant(t, Len(t), HolderOf(t))
  BY <1>1, HolderClaimed DEF HolderOf
<1>3. CASE w = HolderOf(t)
  BY <1>0, <1>1, <1>3 DEF IsLeased
<1>4. CASE w # HolderOf(t)
  <2>1. ~Fresh(t, at, HolderOf(t))
    BY <1>0, <1>4 DEF IsLeased
  <2>2. ~Fresh(t, later, HolderOf(t))
    BY <1>2, <2>1, StaleStays
  <2>3. PICK i : Leads(t, at, i) /\ w = WorkerOf(t[i])
    BY <1>0, <1>4 DEF IsLeased
  <2>4. Heirs(t, later) \subseteq Heirs(t, at)
    <3>1. \A j \in 1..Len(t) : t[j].action = "claim" => Claimant(t, Len(t), WorkerOf(t[j]))
      BY DEF Claimant
    <3>2. QED
      BY <3>1, StaleStays DEF Heirs, Successors, Fresh
  <2>5. i \in Heirs(t, later)
    BY <2>3 DEF Leads, Heirs, Successors, Fresh
  <2>6. Leads(t, later, i)
    BY <2>3, <2>4, <2>5 DEF Leads
  <2>7. QED
    BY <1>0, <1>1, <2>2, <2>3, <2>6 DEF IsLeased
<1>5. QED
  BY <1>3, <1>4

\* u judges everybody who has claimed in t as t does.
SameFresh(t, u, at) ==
  \A w : Claimant(t, Len(t), w) => (Fresh(u, at, w) <=> Fresh(t, at, w))

LEMMA ClaimsKept ==
  ASSUME NEW t \in Seq(Comment), NEW u, Extended(t, u), NEW w,
         \A k \in 1..Len(u) :
           k > Len(t) => ~(u[k].action = "claim" /\ WorkerOf(u[k]) = w)
  PROVE  /\ Claims(u, Len(u), w) = Claims(t, Len(t), w)
         /\ FirstClaim(u, Len(u), w) = FirstClaim(t, Len(t), w)
<1>1. Len(t) \in Nat /\ Len(u) \in Nat /\ Len(t) <= Len(u)
  BY DEF Extended
<1>2. \A k \in 1..Len(t) : WorkerOf(u[k]) = WorkerOf(t[k]) /\ u[k].action = t[k].action
  BY DEF Extended, Agree, SameKey, WorkerOf
<1>3. Claims(u, Len(u), w) = Claims(t, Len(t), w)
  BY <1>1, <1>2 DEF Claims, CommentsOf
<1>4. QED
  BY <1>3 DEF FirstClaim

\* A thread that gains no claim, keeps its holder and judges claimants alike
\* decides alike.
LEMMA SameLease ==
  ASSUME NEW t \in Seq(Comment), NEW u, Extended(t, u), NEW at, SameFresh(t, u, at),
         HolderOf(u) = HolderOf(t),
         \A k \in 1..Len(u) : k > Len(t) => u[k].action # "claim"
  PROVE  Leased(u, at) = Leased(t, at)
<1>1. Len(t) \in Nat /\ Len(u) \in Nat /\ Len(t) <= Len(u) /\ u \in Seq(Comment)
  BY DEF Extended
<1>2. \A k \in 1..Len(t) : WorkerOf(u[k]) = WorkerOf(t[k]) /\ u[k].action = t[k].action
  BY DEF Extended, Agree, SameKey, WorkerOf
<1>3. \A w : FirstClaim(u, Len(u), w) = FirstClaim(t, Len(t), w)
  BY ClaimsKept
<1>4. \A k \in 1..Len(t) : t[k].action = "claim" =>
        (Fresh(u, at, WorkerOf(t[k])) <=> Fresh(t, at, WorkerOf(t[k])))
  BY DEF SameFresh, Claimant
<1>5. Heirs(u, at) = Heirs(t, at)
  <2>1. ASSUME NEW k
        PROVE  k \in Heirs(u, at) <=> k \in Heirs(t, at)
    BY <1>1, <1>2, <1>3, <1>4 DEF Heirs, Successors, Fresh
  <2>2. QED
    BY <2>1
<1>6. \A i : Leads(u, at, i) <=> Leads(t, at, i)
  BY <1>5 DEF Leads
<1>7. \A i : Leads(t, at, i) => WorkerOf(u[i]) = WorkerOf(t[i])
  BY <1>2 DEF Leads, Heirs, Successors
<1>8. HolderOf(t) # NoWorker =>
        (Fresh(u, at, HolderOf(t)) <=> Fresh(t, at, HolderOf(t)))
  BY HolderClaimed DEF SameFresh, HolderOf
<1>9. ASSUME NEW w, w # NoWorker
      PROVE  Leased(u, at) = w <=> Leased(t, at) = w
  <2>1. /\ Leased(t, at) = w <=> IsLeased(t, at, w)
        /\ Leased(u, at) = w <=> IsLeased(u, at, w)
    BY <1>1, <1>9, LeasedIs
  <2>2. IsLeased(u, at, w) <=> IsLeased(t, at, w)
    BY <1>6, <1>7, <1>8 DEF IsLeased
  <2>3. QED
    BY <2>1, <2>2
<1>10. QED
  BY <1>9

\* u is t with one more comment; u is t with one comment edited.
Posted(t, x, u) == u = Append(t, x)
Beaten(t, i, at, u) == u = [t EXCEPT ![i] = Touched(t[i], at)]

LEMMA PostedParts ==
  ASSUME NEW t \in Seq(Comment), NEW x \in Comment, NEW u, Posted(t, x, u)
  PROVE  /\ Extended(t, u) /\ u \in Seq(Comment) /\ Len(t) \in Nat
         /\ Len(u) = Len(t) + 1 /\ u[Len(u)] = x
         /\ \A k \in 1..Len(t) : u[k] = t[k]
BY AppendExtends DEF Posted

LEMMA BeatenParts ==
  ASSUME NEW t \in Seq(Comment), NEW i \in 1..Len(t), NEW at \in Int, NEW u,
         Beaten(t, i, at, u)
  PROVE  Extended(t, u) /\ Len(u) = Len(t)
<1>1. Extended(t, [t EXCEPT ![i] = Touched(t[i], at)])
  BY EditExtends
<1>2. QED
  BY <1>1 DEF Beaten

\* A claim moves no lease that is held.
LEMMA ClaimedLease ==
  ASSUME NEW t \in Seq(Comment), NEW x \in Comment, x.action = "claim",
         NotYet(t, WorkerOf(x)), NEW u, Posted(t, x, u), NEW at, SameFresh(t, u, at),
         HolderOf(u) = HolderOf(t), Leased(t, at) # NoWorker
  PROVE  Leased(u, at) = Leased(t, at)
<1>1. /\ Extended(t, u) /\ u \in Seq(Comment) /\ Len(t) \in Nat
      /\ Len(u) = Len(t) + 1 /\ u[Len(u)] = x
      /\ \A k \in 1..Len(t) : u[k] = t[k]
  BY PostedParts
<1>2. IsLeased(t, at, Leased(t, at))
  BY LeasedIs
<1>3. HolderOf(t) # NoWorker
  BY <1>2 DEF IsLeased
<1>4. Fresh(u, at, HolderOf(t)) <=> Fresh(t, at, HolderOf(t))
  BY <1>3, HolderClaimed DEF SameFresh, HolderOf
<1>5. ASSUME NEW i, Leads(t, at, i)
      PROVE  Leads(u, at, i) /\ WorkerOf(u[i]) = WorkerOf(t[i])
  <2>1. /\ i \in 1..Len(t) /\ t[i].action = "claim" /\ u[i] = t[i]
        /\ i = FirstClaim(t, Len(t), WorkerOf(t[i])) /\ WorkerOf(t[i]) # HolderOf(t)
        /\ Fresh(t, at, WorkerOf(t[i]))
    BY <1>1, <1>5 DEF Leads, Heirs, Successors, Fresh
  <2>2. \A v : v # WorkerOf(x) => FirstClaim(u, Len(u), v) = FirstClaim(t, Len(t), v)
    BY <1>1, ClaimsKept
  <2>3. \A k \in 1..Len(t) : WorkerOf(t[k]) # WorkerOf(x)
    BY DEF NotYet
  <2>4. \A k \in 1..Len(t) : t[k].action = "claim" =>
          (Fresh(u, at, WorkerOf(t[k])) <=> Fresh(t, at, WorkerOf(t[k])))
    BY DEF SameFresh, Claimant
  <2>5. i \in Heirs(u, at)
    BY <1>1, <2>1, <2>2, <2>3, <2>4 DEF Heirs, Successors, Fresh
  <2>6. ASSUME NEW j \in Heirs(u, at)
        PROVE  i <= j
    <3>1. j \in 1..Len(u)
      BY DEF Heirs, Successors
    <3>2. CASE j \in 1..Len(t)
      <4>1. j \in Heirs(t, at)
        BY <1>1, <2>2, <2>3, <2>4, <3>2 DEF Heirs, Successors, Fresh
      <4>2. QED
        BY <1>5, <4>1 DEF Leads
    <3>3. CASE j = Len(t) + 1
      BY <1>1, <2>1, <3>3
    <3>4. QED
      BY <1>1, <3>1, <3>2, <3>3
  <2>7. QED
    BY <2>1, <2>5, <2>6 DEF Leads
<1>6. IsLeased(u, at, Leased(t, at))
  BY <1>2, <1>4, <1>5 DEF IsLeased
<1>7. QED
  BY <1>1, <1>6, LeasedIs

-----------------------------------------------------------------------------
(* Writing changes nobody's freshness but the writer's.                    *)

LEMMA FreshSame ==
  ASSUME NEW t \in Seq(Comment), NEW u, Extended(t, u), NEW at, NEW w,
         Claimant(t, Len(t), w),
         \A k \in 1..Len(u) : k > Len(t) => WorkerOf(u[k]) # w,
         \A k \in 1..Len(t) : WorkerOf(t[k]) = w => u[k].stamp = t[k].stamp
  PROVE  Fresh(u, at, w) <=> Fresh(t, at, w)
<1>1. Len(t) \in Nat /\ Len(u) \in Nat /\ Len(t) <= Len(u)
  BY DEF Extended
<1>2. \A k \in 1..Len(t) : WorkerOf(u[k]) = WorkerOf(t[k])
  BY DEF Extended, Agree, SameKey, WorkerOf
<1>3. CommentsOf(u, Len(u), w) = CommentsOf(t, Len(t), w)
  BY <1>1, <1>2 DEF CommentsOf
<1>4. LatestByWorker(u, Len(u), w) = LatestByWorker(t, Len(t), w)
  BY <1>3 DEF LatestByWorker
<1>5. LatestByWorker(t, Len(t), w) \in CommentsOf(t, Len(t), w)
  <2>1. CommentsOf(t, Len(t), w) # {}
    BY DEF Claimant, CommentsOf
  <2>2. QED
    BY <1>1, <2>1, LatestByWorkerType
<1>6. u[LatestByWorker(t, Len(t), w)].stamp = t[LatestByWorker(t, Len(t), w)].stamp
  BY <1>5 DEF CommentsOf
<1>7. QED
  BY <1>4, <1>6 DEF Fresh, FreshWorker

LEMMA TouchedFresh ==
  ASSUME NEW t \in Seq(Comment), NEW at \in Int, NEW i \in 1..Len(t), NEW u,
         Beaten(t, i, at, u), Fresh(t, at, WorkerOf(t[i]))
  PROVE  SameFresh(t, u, at)
<1> DEFINE v == WorkerOf(t[i])
<1>1. /\ Extended(t, u) /\ Len(u) = Len(t)
      /\ \A k \in 1..Len(t) : u[k].stamp = t[k].stamp \/ (k = i /\ u[k].stamp = at)
  <2>1. Extended(t, u)
    BY EditExtends DEF Beaten
  <2>2. t[i] \in Comment
    OBVIOUS
  <2>3. QED
    BY <2>1, <2>2 DEF Beaten, Touched, Comment
<1>2. ASSUME NEW w, Claimant(t, Len(t), w)
      PROVE  Fresh(u, at, w) <=> Fresh(t, at, w)
  <2>1. CASE w # v
    BY <1>1, <1>2, <2>1, FreshSame
  <2>2. CASE w = v
    <3> DEFINE l == LatestByWorker(t, Len(t), v)
    <3>1. CommentsOf(u, Len(u), v) = CommentsOf(t, Len(t), v)
      BY <1>1 DEF Extended, Agree, SameKey, CommentsOf, WorkerOf
    <3>2. LatestByWorker(u, Len(u), v) = l
      BY <3>1 DEF LatestByWorker
    <3>3. l \in 1..Len(t)
      <4>1. i \in CommentsOf(t, Len(t), v) /\ Len(t) \in Nat
        BY DEF CommentsOf
      <4>2. QED
        BY <4>1, LatestByWorkerType DEF CommentsOf
    <3>4. t[l].stamp >= at - StaleAfter
      BY DEF Fresh, FreshWorker, IsFresh
    <3> HIDE DEF l
    <3>5. u[l].stamp >= at - StaleAfter
      BY <1>1, <3>3, <3>4, ArbiterAssumption
    <3>6. QED
      BY <2>2, <3>2, <3>5 DEF Fresh, FreshWorker, IsFresh
  <2>3. QED
    BY <2>1, <2>2
<1>3. QED
  BY <1>2 DEF SameFresh

LEMMA AppendFresh ==
  ASSUME NEW t \in Seq(Comment), NEW at \in Int, NEW x \in Comment, x.stamp = at,
         NEW u, Posted(t, x, u),
         Claimant(t, Len(t), WorkerOf(x)) => Fresh(t, at, WorkerOf(x))
  PROVE  SameFresh(t, u, at) /\ Fresh(u, at, WorkerOf(x))
<1>1. /\ Extended(t, u) /\ u \in Seq(Comment) /\ Len(t) \in Nat
      /\ Len(u) = Len(t) + 1 /\ u[Len(u)] = x
      /\ \A k \in 1..Len(t) : u[k] = t[k]
  BY PostedParts
<1>2. Newest(u, WorkerOf(x), Len(u))
  BY <1>1 DEF Newest, CommentsOf
<1>3. LatestByWorker(u, Len(u), WorkerOf(x)) = Len(u)
  BY <1>1, <1>2, NewestIsLatest
<1>4. Fresh(u, at, WorkerOf(x))
  BY <1>1, <1>3, ArbiterAssumption DEF Fresh, FreshWorker, IsFresh
<1>5. ASSUME NEW w, Claimant(t, Len(t), w), w # WorkerOf(x)
      PROVE  Fresh(u, at, w) <=> Fresh(t, at, w)
  BY <1>1, <1>5, FreshSame
<1>6. QED
  BY <1>4, <1>5 DEF SameFresh

LEMMA AppendHolder ==
  ASSUME NEW t \in Seq(Comment), NEW x \in Comment, NEW u, Posted(t, x, u)
  PROVE  HolderOf(u) = NextHolder(HolderOf(t), x)
<1>1. /\ Extended(t, u) /\ u \in Seq(Comment) /\ Len(t) \in Nat
      /\ Len(u) = Len(t) + 1 /\ u[Len(u)] = x
  BY PostedParts
<1>2. Agree(t, u, Len(t))
  BY <1>1 DEF Extended
<1>3. HolderAfter(u)[Len(t)] = HolderOf(t)
  BY <1>1, <1>2, HolderAfterPrefix DEF HolderOf
<1>4. HolderAfter(u)[Len(u)] = NextHolder(HolderAfter(u)[Len(u)-1], u[Len(u)])
  BY <1>1, HolderAfterStep
<1>5. Len(u)-1 = Len(t)
  BY <1>1
<1>6. QED
  BY <1>1, <1>3, <1>4, <1>5 DEF HolderOf

-----------------------------------------------------------------------------
(* The invariant.                                                          *)

\* Calls take no time, and every clock is GitHub's.
AtOnce == MaxSkew = 0 /\ MaxCall = 0

NowIsClock ==
  \A c \in Client :
    pc[c] \in {"read", "post", "reread", "beat", "release"} => now[c] = clock

Unclaimed == \A c \in Client : pc[c] \in {"read", "post"} => NotYet(thread, Me(c))

WinsClaimed == \A w \in wins : Claimant(thread, Len(thread), w.worker)

\* Who is about to beat is fresh: nobody comes back from being stale.
BeatsFresh ==
  \A c \in Client : pc[c] = "beat" =>
    Claimant(thread, Len(thread), Me(c)) /\ Fresh(thread, clock, Me(c))

\* A release that is about to be posted takes the lease from no other login: if
\* the fold's holder is stale, the lease is the releaser's own, as an heir.
ReleasesOwn ==
  \A c \in Client : pc[c] = "release" =>
    \/ HolderOf(thread) = NoWorker
    \/ Fresh(thread, clock, HolderOf(thread))
    \/ Leased(thread, clock) # NoWorker /\ Leased(thread, clock)[1] = LoginOf[c]

\* A win that stands is the lease of this instant.
Stands == \A w \in wins : Standing(w) => Leased(thread, clock) = w.worker

StandInv ==
  /\ BeatInv /\ NowIsClock /\ Unclaimed /\ WinsClaimed
  /\ BeatsFresh /\ ReleasesOwn /\ Stands

-----------------------------------------------------------------------------
(* What a call does to the lease.                                          *)

PostedBy(d, a, s) ==
  /\ Posted(thread, LeaseComment(d, a, s), thread')
  /\ LeaseComment(d, a, s) \in Comment

LEMMA WhatCallsWrite ==
  ASSUME TypeOK, NEW d \in Client, Call(d)
  PROVE  \/ UNCHANGED thread
         \/ /\ pc[d] = "beat" /\ target[d] # 0
            /\ Beaten(thread, target[d], clock, thread')
         \/ pc[d] = "beat" /\ PostedBy(d, "heartbeat", sess[d])
         \/ pc[d] = "post" /\ PostedBy(d, "claim", sess[d])
         \/ pc[d] = "release" /\ PostedBy(d, "release", NoSession)
<1>1. \A a \in {"claim", "heartbeat", "release"}, s \in {sess[d], NoSession} :
        LeaseComment(d, a, s) \in Comment
  BY LeaseAssumption DEF TypeOK, LeaseComment, Comment
<1>2. CASE PostClaim(d) \/ PostClaimUnacknowledged(d)
  BY <1>1, <1>2 DEF PostClaim, PostClaimUnacknowledged, PostComment, PostedBy, Posted
<1>3. CASE Beat(d)
  BY <1>1, <1>3 DEF Beat, WriteBeat, PostComment, EditComment, PostedBy, Posted, Beaten
<1>4. CASE Release(d) \/ ReleaseFails(d)
  BY <1>1, <1>4 DEF Release, ReleaseFails, PostComment, PostedBy, Posted
<1>5. CASE UNCHANGED thread
  BY <1>5
<1>6. QED
  BY <1>2, <1>3, <1>4, <1>5
     DEF Call, Begin, Skip, ReadBefore, ReadAfter, ClaimFails, Setup, SetupFails,
         RemoveWorkspace, FirstBeat, Heartbeat, CmdHeartbeat, BeatFails, CheckRelease,
         Crash

\* Nothing, as far as the lease goes; a claim where there is none; the release of
\* the fold's holder.
Quiet ==
  /\ HolderOf(thread') = HolderOf(thread)
  /\ Leased(thread', clock) = Leased(thread, clock)
Taken ==
  /\ Leased(thread, clock) = NoWorker
  /\ \/ HolderOf(thread') = HolderOf(thread)
     \/ Fresh(thread', clock, HolderOf(thread'))
Freed(d) ==
  /\ pc[d] = "release"
  /\ HolderOf(thread) # NoWorker /\ HolderOf(thread)[1] = LoginOf[d]
  /\ HolderOf(thread') = NoWorker
  /\ Len(thread') = Len(thread) + 1
  /\ thread'[Len(thread')].action = "release"
  /\ thread'[Len(thread')].login = LoginOf[d]

LEMMA PostedMoves ==
  ASSUME TypeOK, NEW d, NEW a, NEW s, PostedBy(d, a, s),
         LET w == <<LoginOf[d], s>> IN
           Claimant(thread, Len(thread), w) => Fresh(thread, clock, w)
  PROVE  /\ SameFresh(thread, thread', clock)
         /\ Fresh(thread', clock, <<LoginOf[d], s>>)
         /\ HolderOf(thread') = NextHolder(HolderOf(thread), LeaseComment(d, a, s))
<1> DEFINE x == LeaseComment(d, a, s)
<1>1. /\ x.stamp = clock /\ WorkerOf(x) = <<LoginOf[d], s>> /\ x \in Comment
      /\ thread \in Seq(Comment) /\ clock \in Int /\ Posted(thread, x, thread')
  BY DEF TypeOK, PostedBy, LeaseComment, WorkerOf
<1> HIDE DEF x
<1>2. SameFresh(thread, thread', clock) /\ Fresh(thread', clock, WorkerOf(x))
  BY <1>1, AppendFresh
<1>3. HolderOf(thread') = NextHolder(HolderOf(thread), x)
  BY <1>1, AppendHolder
<1>4. QED
  BY <1>1, <1>2, <1>3 DEF x

LEMMA LeaseMoves ==
  ASSUME StandInv, NEW d \in Client, Call(d)
  PROVE  SameFresh(thread, thread', clock) /\ (Quiet \/ Taken \/ Freed(d))
<1>0. TypeOK /\ thread \in Seq(Comment) /\ clock \in Int /\ Len(thread) \in Nat
  BY DEF StandInv, BeatInv, TypeOK
<1>1. CASE UNCHANGED thread
  BY <1>1 DEF Quiet, SameFresh
<1>2. CASE /\ pc[d] = "beat" /\ target[d] # 0
           /\ Beaten(thread, target[d], clock, thread')
  <2>1. target[d] \in 1..Len(thread) /\ WorkerOf(thread[target[d]]) = Me(d)
    BY <1>2 DEF StandInv, BeatInv, BeatAimed, Newest, CommentsOf
  <2>2. SameFresh(thread, thread', clock)
    BY <1>0, <1>2, <2>1, TouchedFresh DEF StandInv, BeatsFresh
  <2>3. Extended(thread, thread') /\ Len(thread') = Len(thread)
    BY <1>0, <1>2, <2>1, BeatenParts
  <2>4. HolderOf(thread') = HolderOf(thread)
    <3>1. thread' \in Seq(Comment) /\ Agree(thread, thread', Len(thread))
      BY <2>3 DEF Extended
    <3>2. HolderAfter(thread)[Len(thread)] = HolderAfter(thread')[Len(thread)]
      BY <1>0, <2>3, <3>1, HolderAfterPrefix
    <3>3. QED
      BY <2>3, <3>2 DEF HolderOf
  <2>5. Leased(thread', clock) = Leased(thread, clock)
    BY <1>0, <2>2, <2>3, <2>4, SameLease
  <2>6. QED
    BY <2>2, <2>4, <2>5 DEF Quiet
<1>3. CASE pc[d] = "beat" /\ PostedBy(d, "heartbeat", sess[d])
  <2>1. /\ SameFresh(thread, thread', clock)
        /\ HolderOf(thread')
             = NextHolder(HolderOf(thread), LeaseComment(d, "heartbeat", sess[d]))
    BY <1>0, <1>3, PostedMoves DEF StandInv, BeatsFresh, Me
  <2>2. HolderOf(thread') = HolderOf(thread)
    BY <2>1 DEF NextHolder, LeaseComment
  <2>3. /\ Extended(thread, thread') /\ Len(thread') = Len(thread) + 1
        /\ thread'[Len(thread')].action = "heartbeat"
    BY <1>0, <1>3, PostedParts DEF PostedBy, LeaseComment
  <2>4. Leased(thread', clock) = Leased(thread, clock)
    BY <1>0, <2>1, <2>2, <2>3, SameLease
  <2>5. QED
    BY <2>1, <2>2, <2>4 DEF Quiet
<1>4. CASE pc[d] = "post" /\ PostedBy(d, "claim", sess[d])
  <2> DEFINE x == LeaseComment(d, "claim", sess[d])
  <2>1. /\ x.action = "claim" /\ WorkerOf(x) = Me(d) /\ x \in Comment
        /\ Posted(thread, x, thread')
    BY <1>4 DEF LeaseComment, WorkerOf, Me, PostedBy
  <2>2. NotYet(thread, Me(d)) /\ ~Claimant(thread, Len(thread), Me(d))
    BY <1>4 DEF StandInv, Unclaimed, NotYet, Claimant
  <2>3. /\ SameFresh(thread, thread', clock) /\ Fresh(thread', clock, Me(d))
        /\ HolderOf(thread') = NextHolder(HolderOf(thread), x)
    BY <1>0, <1>4, <2>2, PostedMoves DEF Me
  <2> HIDE DEF x
  <2>4. CASE HolderOf(thread) = NoWorker
    <3>1. HolderOf(thread') = Me(d)
      BY <2>1, <2>3, <2>4 DEF NextHolder
    <3>2. Leased(thread, clock) = NoWorker
      BY <1>0, <2>4, LeasedIs DEF IsLeased
    <3>3. QED
      BY <2>3, <3>1, <3>2 DEF Taken
  <2>5. CASE HolderOf(thread) # NoWorker
    <3>1. HolderOf(thread') = HolderOf(thread)
      BY <2>1, <2>3, <2>5 DEF NextHolder
    <3>2. CASE Leased(thread, clock) = NoWorker
      BY <2>3, <3>1, <3>2 DEF Taken
    <3>3. CASE Leased(thread, clock) # NoWorker
      <4>1. Leased(thread', clock) = Leased(thread, clock)
        BY <1>0, <2>1, <2>2, <2>3, <3>1, <3>3, ClaimedLease
      <4>2. QED
        BY <2>3, <3>1, <4>1 DEF Quiet
    <3>4. QED
      BY <3>2, <3>3
  <2>6. QED
    BY <2>4, <2>5
<1>5. CASE pc[d] = "release" /\ PostedBy(d, "release", NoSession)
  <2> DEFINE x == LeaseComment(d, "release", NoSession)
  <2>1. /\ x.action = "release" /\ x.login = LoginOf[d] /\ x \in Comment
        /\ Posted(thread, x, thread')
    BY <1>5 DEF LeaseComment, PostedBy
  <2>2. ~Claimant(thread, Len(thread), <<LoginOf[d], NoSession>>)
    BY DEF StandInv, BeatInv, ClaimsNamed, Claimant, WorkerOf
  <2>3. /\ SameFresh(thread, thread', clock)
        /\ HolderOf(thread') = NextHolder(HolderOf(thread), x)
    BY <1>0, <1>5, <2>2, PostedMoves
  <2> HIDE DEF x
  <2>4. /\ Extended(thread, thread') /\ Len(thread') = Len(thread) + 1
        /\ thread'[Len(thread')] = x
    BY <1>0, <2>1, PostedParts
  <2>5. CASE HolderOf(thread) # NoWorker /\ HolderOf(thread)[1] = LoginOf[d]
    <3>1. HolderOf(thread') = NoWorker
      BY <2>1, <2>3, <2>5 DEF NextHolder
    <3>2. QED
      BY <1>5, <2>1, <2>3, <2>4, <2>5, <3>1 DEF Freed
  <2>6. CASE ~(HolderOf(thread) # NoWorker /\ HolderOf(thread)[1] = LoginOf[d])
    <3>1. HolderOf(thread') = HolderOf(thread)
      BY <2>1, <2>3, <2>6 DEF NextHolder
    <3>2. Leased(thread', clock) = Leased(thread, clock)
      BY <1>0, <2>1, <2>3, <2>4, <3>1, SameLease
    <3>3. QED
      BY <2>3, <3>1, <3>2 DEF Quiet
  <2>7. QED
    BY <2>5, <2>6
<1>6. QED
  BY <1>0, <1>1, <1>2, <1>3, <1>4, <1>5, WhatCallsWrite

-----------------------------------------------------------------------------
(* What a call keeps.                                                      *)

LEMMA ClaimantKept ==
  ASSUME NEW t \in Seq(Comment), NEW u, Extended(t, u), NEW w, Claimant(t, Len(t), w)
  PROVE  Claimant(u, Len(u), w)
<1>1. Len(t) \in Nat /\ Len(u) \in Nat /\ Len(t) <= Len(u)
  BY DEF Extended
<1>2. \A k \in 1..Len(t) : WorkerOf(u[k]) = WorkerOf(t[k]) /\ u[k].action = t[k].action
  BY DEF Extended, Agree, SameKey, WorkerOf
<1>3. QED
  BY <1>1, <1>2 DEF Claimant

\* The clocks are one, and reads are whole: what a call sees is this instant's.
LEMMA SeesNow ==
  ASSUME Current, AtOnce, TypeOK
  PROVE  /\ LocalTimes = {clock}
         /\ \A n \in Readable : n = Len(thread)
BY DEF Current, AtOnce, TypeOK, LocalTimes, Readable

LEMMA CallKeepsNow ==
  ASSUME Current, AtOnce, StandInv, NEW d \in Client, Call(d)
  PROVE  UNCHANGED clock /\ NowIsClock'
<1>0. TypeOK /\ LocalTimes = {clock}
  BY SeesNow DEF StandInv, BeatInv
<1>1. UNCHANGED clock
  BY DEF Call, Begin, Skip, ReadBefore, PostClaim, ReadAfter, ClaimFails,
       PostClaimUnacknowledged, Setup, SetupFails, RemoveWorkspace, FirstBeat, Heartbeat,
       CmdHeartbeat, Beat, BeatFails, CheckRelease, Release, ReleaseFails, Crash
<1>2. ASSUME NEW c \in Client, c # d,
             pc'[c] \in {"read", "post", "reread", "beat", "release"}
      PROVE  now'[c] = clock
  BY <1>0, <1>2, OthersKept, OutcomeKept DEF StandInv, NowIsClock
<1>3. ASSUME pc'[d] \in {"read", "post", "reread", "beat", "release"}
      PROVE  now'[d] = clock
  <2>1. \/ now'[d] \in LocalTimes
        \/ now'[d] = now[d] /\ pc[d] \in {"read", "post", "reread", "beat", "release"}
    BY <1>0, <1>3
    DEF TypeOK, Call, Begin, Skip, ReadBefore, PostClaim, ReadAfter, ClaimFails,
        PostClaimUnacknowledged, Setup, SetupFails, RemoveWorkspace, FirstBeat, Heartbeat,
        CmdHeartbeat, CheckHolder, Beat, BeatFails, CheckRelease, Release, ReleaseFails,
        Crash, Return, Goto
  <2>2. QED
    BY <1>0, <2>1 DEF StandInv, NowIsClock
<1>4. QED
  BY <1>1, <1>2, <1>3 DEF NowIsClock

LEMMA CallKeepsUnclaimed ==
  ASSUME Minting, StandInv, NEW d \in Client, Call(d)
  PROVE  Unclaimed'
<1>0. TypeOK /\ BeatInv /\ thread \in Seq(Comment) /\ Extended(thread, thread')
  BY ThreadExtended DEF StandInv, BeatInv, TypeOK, Next
<1>1. ASSUME NEW c \in Client, c # d, pc'[c] \in {"read", "post"}
      PROVE  NotYet(thread', <<LoginOf[c], sess'[c]>>)
  <2>1. pc[c] \in {"read", "post"} /\ sess'[c] = sess[c] /\ sess[c] # NoSession
    BY <1>0, <1>1, OthersKept DEF BeatInv, CallsNamed
  <2>2. \A k \in 1..Len(thread') : k > Len(thread) => WorkerOf(thread'[k]) # Me(c)
    <3>1. CASE Len(thread') = Len(thread)
      BY <1>0, <3>1 DEF Extended
    <3>2. CASE Writes(d)
      BY <1>0, <1>1, <2>1, <3>2, NotOthers
    <3>3. QED
      BY <1>0, <3>1, <3>2, CallWrites DEF EditComment
  <2>3. NotYet(thread', Me(c))
    BY <1>0, <2>1, <2>2, NotYetKept DEF StandInv, Unclaimed
  <2>4. QED
    BY <2>1, <2>3 DEF Me
<1>2. ASSUME pc'[d] \in {"read", "post"}
      PROVE  NotYet(thread', <<LoginOf[d], sess'[d]>>)
  <2>1. CASE Begin(d)
    <3>1. PICK s \in FreshSessions : sess'[d] = s
      BY <1>0, <2>1 DEF Begin, ClaimSessions, Minting, TypeOK
    <3>2. NotYet(thread, <<LoginOf[d], s>>) /\ UNCHANGED thread
      BY <2>1 DEF Begin, FreshSessions, NotYet, WorkerOf
    <3>3. QED
      BY <3>1, <3>2
  <2>2. CASE ReadBefore(d)
    <3>1. UNCHANGED <<thread, sess>>
      BY <1>0, <1>2, <2>2 DEF ReadBefore, Return, Goto, TypeOK
    <3>2. QED
      BY <2>2, <3>1 DEF ReadBefore, StandInv, Unclaimed, Me
  <2>3. CASE Skip(d) \/ RemoveWorkspace(d)
    BY <1>0, <1>2, <2>3 DEF Skip, RemoveWorkspace, TypeOK
  <2>4. QED
    BY <1>0, <1>2, <2>1, <2>2, <2>3
    DEF TypeOK, Call, PostClaim, ReadAfter, ClaimFails, PostClaimUnacknowledged, Setup,
        SetupFails, FirstBeat, Heartbeat, CmdHeartbeat, CheckHolder, Beat, BeatFails,
        CheckRelease, Release, ReleaseFails, Crash, Return, Goto
<1>3. QED
  BY <1>1, <1>2 DEF Unclaimed, Me

\* A win is this instant's lease.
LEMMA CallWins ==
  ASSUME Current, AtOnce, StandInv, NEW d \in Client, Call(d)
  PROVE  \/ UNCHANGED wins
         \/ /\ UNCHANGED thread
            /\ \E w : /\ wins' = wins \cup {w}
                      /\ w.worker = Leased(thread, clock) /\ w.worker # NoWorker
<1>0. TypeOK /\ \A n \in Readable : n = Len(thread)
  BY SeesNow DEF StandInv, BeatInv
<1>1. CASE ReadAfter(d)
  <2>1. now[d] = clock
    BY <1>1 DEF ReadAfter, StandInv, NowIsClock
  <2>2. PICK n \in Readable :
          \/ /\ Decide(thread, n, now[d]).holder = Me(d)
             /\ \E w : wins' = wins \cup {w} /\ w.worker = Me(d)
          \/ UNCHANGED wins
    BY <1>1 DEF ReadAfter
  <2>3. UNCHANGED thread /\ Me(d) # NoWorker
    BY <1>0, <1>1, MeIs DEF ReadAfter
  <2>4. QED
    BY <1>0, <2>1, <2>2, <2>3 DEF Leased
<1>2. CASE UNCHANGED wins
  BY <1>2
<1>3. QED
  BY <1>1, <1>2
  DEF Call, Begin, Skip, ReadBefore, PostClaim, ClaimFails, PostClaimUnacknowledged,
      Setup, SetupFails, RemoveWorkspace, FirstBeat, Heartbeat, CmdHeartbeat, Beat,
      BeatFails, CheckRelease, Release, ReleaseFails, Crash

LEMMA CallKeepsWins ==
  ASSUME Current, AtOnce, StandInv, NEW d \in Client, Call(d)
  PROVE  WinsClaimed'
<1>0. TypeOK /\ thread \in Seq(Comment) /\ Extended(thread, thread')
  BY ThreadExtended DEF StandInv, BeatInv, TypeOK, Next
<1>1. \A w \in wins : Claimant(thread', Len(thread'), w.worker)
  BY <1>0, ClaimantKept DEF StandInv, WinsClaimed
<1>2. ASSUME NEW w, w.worker = Leased(thread, clock), w.worker # NoWorker,
             UNCHANGED thread
      PROVE  Claimant(thread', Len(thread'), w.worker)
  BY <1>0, <1>2, LeasedClaimed
<1>3. QED
  BY <1>1, <1>2, CallWins DEF WinsClaimed

LEMMA CallKeepsBeats ==
  ASSUME Current, AtOnce, StandInv, NEW d \in Client, Call(d)
  PROVE  BeatsFresh'
<1>0. /\ TypeOK /\ thread \in Seq(Comment) /\ Extended(thread, thread')
      /\ LocalTimes = {clock} /\ \A n \in Readable : n = Len(thread)
      /\ UNCHANGED clock
  BY ThreadExtended, SeesNow, CallKeepsNow DEF StandInv, BeatInv, TypeOK, Next
<1>1. ASSUME NEW c \in Client, c # d, pc'[c] = "beat"
      PROVE  /\ Claimant(thread', Len(thread'), <<LoginOf[c], sess'[c]>>)
             /\ Fresh(thread', clock, <<LoginOf[c], sess'[c]>>)
  <2>1. pc[c] = "beat" /\ sess'[c] = sess[c]
    BY <1>0, <1>1, OthersKept
  <2>2. Claimant(thread, Len(thread), Me(c)) /\ Fresh(thread, clock, Me(c))
    BY <2>1 DEF StandInv, BeatsFresh
  <2>3. SameFresh(thread, thread', clock)
    BY LeaseMoves
  <2>4. Claimant(thread', Len(thread'), Me(c)) /\ Fresh(thread', clock, Me(c))
    BY <1>0, <2>2, <2>3, ClaimantKept DEF SameFresh
  <2>5. QED
    BY <2>1, <2>4 DEF Me
<1>2. ASSUME NEW s \in Sess, CheckHolder(d, s), UNCHANGED thread, pc'[d] = "beat"
      PROVE  /\ Claimant(thread', Len(thread'), <<LoginOf[d], sess'[d]>>)
             /\ Fresh(thread', clock, <<LoginOf[d], sess'[d]>>)
  <2>1. Holds(d, s, Len(thread), clock) /\ sess'[d] = s
    BY <1>0, <1>2 DEF CheckHolder, Return, Goto, TypeOK
  <2>2. Leased(thread, clock) = <<LoginOf[d], s>>
    BY <2>1 DEF Holds, Leased
  <2>3. <<LoginOf[d], s>> # NoWorker
    BY LeaseAssumption, ArbiterAssumption DEF Worker, Sess
  <2>4. QED
    BY <1>0, <1>2, <2>1, <2>2, <2>3, LeasedClaimed
<1>3. ASSUME pc'[d] = "beat"
      PROVE  /\ Claimant(thread', Len(thread'), <<LoginOf[d], sess'[d]>>)
             /\ Fresh(thread', clock, <<LoginOf[d], sess'[d]>>)
  <2>1. CASE FirstBeat(d) \/ Heartbeat(d) \/ CmdHeartbeat(d)
    BY <1>0, <1>2, <1>3, <2>1
    DEF FirstBeat, Heartbeat, CmdHeartbeat, CmdSession, TypeOK, Sess
  <2>2. CASE Skip(d) \/ RemoveWorkspace(d)
    BY <1>3, <2>2 DEF Skip, RemoveWorkspace
  <2>3. QED
    BY <1>0, <1>3, <2>1, <2>2
    DEF TypeOK, Call, Begin, ReadBefore, PostClaim, ReadAfter, ClaimFails,
        PostClaimUnacknowledged, Setup, SetupFails, Beat, BeatFails, CheckRelease,
        Release, ReleaseFails, Crash, Return, Goto
<1>4. QED
  BY <1>0, <1>1, <1>3 DEF BeatsFresh, Me

LEMMA CallKeepsReleases ==
  ASSUME Current, AtOnce, StandInv, NEW d \in Client, Call(d)
  PROVE  ReleasesOwn'
<1> DEFINE Own(c) ==
      \/ HolderOf(thread) = NoWorker
      \/ Fresh(thread, clock, HolderOf(thread))
      \/ Leased(thread, clock) # NoWorker /\ Leased(thread, clock)[1] = LoginOf[c]
<1>0. /\ TypeOK /\ thread \in Seq(Comment) /\ Len(thread) \in Nat
      /\ LocalTimes = {clock} /\ \A n \in Readable : n = Len(thread)
      /\ UNCHANGED clock
  BY SeesNow, CallKeepsNow DEF StandInv, BeatInv, TypeOK
<1>1. SameFresh(thread, thread', clock) /\ (Quiet \/ Taken \/ Freed(d))
  BY LeaseMoves
<1>2. HolderOf(thread) # NoWorker =>
        (Fresh(thread', clock, HolderOf(thread)) <=> Fresh(thread, clock, HolderOf(thread)))
  BY <1>0, <1>1, HolderClaimed DEF SameFresh, HolderOf
<1>3. ASSUME NEW c \in Client, c # d, pc'[c] = "release"
      PROVE  \/ HolderOf(thread') = NoWorker
             \/ Fresh(thread', clock, HolderOf(thread'))
             \/ /\ Leased(thread', clock) # NoWorker
                /\ Leased(thread', clock)[1] = LoginOf[c]
  <2>1. Own(c)
    BY <1>0, <1>3, OthersKept DEF StandInv, ReleasesOwn
  <2>2. CASE Quiet
    BY <1>2, <2>1, <2>2 DEF Quiet
  <2>3. CASE Taken
    BY <1>2, <2>1, <2>3 DEF Taken
  <2>4. CASE Freed(d)
    BY <2>4 DEF Freed
  <2>5. QED
    BY <1>1, <2>2, <2>3, <2>4
<1>4. ASSUME pc'[d] = "release"
      PROVE  /\ UNCHANGED thread
             /\ Leased(thread, clock) # NoWorker /\ Leased(thread, clock)[1] = LoginOf[d]
  <2>1. CASE CheckRelease(d)
    BY <1>0, <2>1 DEF CheckRelease, Leased
  <2>2. CASE Skip(d) \/ RemoveWorkspace(d)
    BY <1>4, <2>2 DEF Skip, RemoveWorkspace
  <2>3. QED
    BY <1>0, <1>4, <2>1, <2>2
    DEF TypeOK, Call, Begin, ReadBefore, PostClaim, ReadAfter, ClaimFails,
        PostClaimUnacknowledged, Setup, SetupFails, FirstBeat, Heartbeat, CmdHeartbeat,
        CheckHolder, Beat, BeatFails, Release, ReleaseFails, Crash, Return, Goto
<1>5. QED
  BY <1>0, <1>3, <1>4 DEF ReleasesOwn

\* What stands after a call stood before it.
LEMMA StoodBefore ==
  ASSUME StandInv, NEW d \in Client, Call(d), UNCHANGED clock, NEW w \in wins,
         Standing(w)'
  PROVE  Standing(w) /\ (Freed(d) => w.worker[1] # LoginOf[d])
<1>0. /\ TypeOK /\ thread \in Seq(Comment) /\ Extended(thread, thread')
      /\ Len(thread) \in Nat /\ Len(thread') \in Nat /\ Len(thread) <= Len(thread')
      /\ w.seen \in Nat /\ w.seen <= Len(thread)
  BY ThreadExtended DEF StandInv, BeatInv, TypeOK, Next, Win, Extended
<1>1. Claimant(thread, Len(thread), w.worker)
  BY DEF StandInv, WinsClaimed
<1>2. SameFresh(thread, thread', clock)
  BY LeaseMoves
<1>3. Fresh(thread', clock, w.worker)
  BY DEF Standing, Fresh
<1>4. Fresh(thread, clock, w.worker)
  BY <1>1, <1>2, <1>3 DEF SameFresh
<1>5. \A k \in w.seen+1 .. Len(thread') :
        ~(thread'[k].action = "release" /\ thread'[k].login = w.worker[1])
  BY DEF Standing, ReleasedBetween
<1>6. \A k \in 1..Len(thread) :
        thread'[k].action = thread[k].action /\ thread'[k].login = thread[k].login
  BY <1>0 DEF Extended, Agree, SameKey
<1>7. \A k \in w.seen+1 .. Len(thread) :
        ~(thread[k].action = "release" /\ thread[k].login = w.worker[1])
  BY <1>0, <1>5, <1>6
<1>8. Standing(w)
  BY <1>4, <1>7 DEF Standing, ReleasedBetween, Fresh
<1>9. Freed(d) => w.worker[1] # LoginOf[d]
  <2>1. Len(thread') = Len(thread) + 1 => Len(thread') \in w.seen+1 .. Len(thread')
    BY <1>0
  <2>2. QED
    BY <1>5, <2>1 DEF Freed
<1>10. QED
  BY <1>8, <1>9

LEMMA CallKeepsStands ==
  ASSUME Current, AtOnce, StandInv, NEW d \in Client, Call(d)
  PROVE  Stands'
<1>0. /\ TypeOK /\ thread \in Seq(Comment) /\ UNCHANGED clock
      /\ \A w \in wins : w.worker # NoWorker
  BY CallKeepsNow, ArbiterAssumption DEF StandInv, BeatInv, TypeOK, Win
<1>1. ASSUME NEW w \in wins, Standing(w)'
      PROVE  Leased(thread', clock) = w.worker
  <2>1. Standing(w) /\ (Freed(d) => w.worker[1] # LoginOf[d])
    BY <1>0, <1>1, StoodBefore
  <2>2. Leased(thread, clock) = w.worker /\ w.worker # NoWorker
    BY <1>0, <2>1 DEF StandInv, Stands
  <2>3. CASE Quiet
    BY <2>2, <2>3 DEF Quiet
  <2>4. CASE Taken
    BY <2>2, <2>4 DEF Taken
  <2>5. CASE Freed(d)
    <3>1. /\ pc[d] = "release" /\ HolderOf(thread) # NoWorker
          /\ HolderOf(thread)[1] = LoginOf[d] /\ w.worker[1] # LoginOf[d]
      BY <2>1, <2>5 DEF Freed
    <3>2. Fresh(thread, clock, HolderOf(thread))
      BY <2>2, <3>1 DEF StandInv, ReleasesOwn
    <3>3. IsLeased(thread, clock, w.worker)
      BY <1>0, <2>2, LeasedIs
    <3>4. QED
      BY <3>1, <3>2, <3>3 DEF IsLeased
  <2>6. QED
    BY <2>3, <2>4, <2>5, LeaseMoves
<1>2. ASSUME NEW w, UNCHANGED thread, w.worker = Leased(thread, clock)
      PROVE  Leased(thread', clock) = w.worker
  BY <1>2
<1>3. QED
  BY <1>0, <1>1, <1>2, CallWins DEF Stands

\* Time passes only between calls.
LEMMA TickKeeps ==
  ASSUME AtOnce, StandInv, Tick, BeatInv'
  PROVE  StandInv'
<1>0. /\ TypeOK /\ thread \in Seq(Comment) /\ clock \in Int
      /\ \A w \in wins : w.worker # NoWorker
  BY ArbiterAssumption DEF StandInv, BeatInv, TypeOK, Win
<1>1. /\ clock' = clock + 1 /\ UNCHANGED <<thread, pc, now, sess, wins>>
  BY DEF Tick
<1>2. \A c \in Client : pc[c] \in {"idle", "setup", "beatread"}
  <2>1. SUFFICES ASSUME NEW c \in Client, pc[c] \notin {"idle", "setup", "beatread"}
                 PROVE  FALSE
    OBVIOUS
  <2>2. now[c] = clock
    BY <1>0, <2>1 DEF StandInv, NowIsClock, TypeOK, Steps
  <2>3. QED
    BY <1>0, <2>1, <2>2 DEF Tick, AtOnce
<1>3. NowIsClock' /\ Unclaimed' /\ BeatsFresh' /\ ReleasesOwn'
  BY <1>1, <1>2 DEF NowIsClock, Unclaimed, BeatsFresh, ReleasesOwn
<1>4. WinsClaimed'
  BY <1>1 DEF StandInv, WinsClaimed
<1>5. ASSUME NEW w \in wins, Standing(w)'
      PROVE  Leased(thread, clock + 1) = w.worker
  <2>1. Fresh(thread, clock + 1, w.worker) /\ clock + 1 \in Int /\ clock <= clock + 1
    BY <1>0, <1>1, <1>5 DEF Standing, Fresh
  <2>2. Fresh(thread, clock, w.worker)
    BY <1>0, <2>1, StaleStays DEF StandInv, WinsClaimed
  <2>3. Standing(w)
    BY <1>1, <1>5, <2>2 DEF Standing, Fresh, ReleasedBetween
  <2>4. Leased(thread, clock) = w.worker
    BY <2>3 DEF StandInv, Stands
  <2>5. QED
    BY <1>0, <2>1, <2>4, LeaseOutlasts
<1>6. Stands'
  BY <1>1, <1>5 DEF Stands
<1>7. QED
  BY <1>3, <1>4, <1>6 DEF StandInv

LEMMA StandInvNext ==
  ASSUME Minting, Current, AtOnce, StandInv, [Next]_vars
  PROVE  StandInv'
<1>1. BeatInv'
  BY BeatInvNext DEF Current, StandInv
<1>2. ASSUME NEW d \in Client, Call(d)
      PROVE  StandInv'
  BY <1>1, <1>2, CallKeepsNow, CallKeepsUnclaimed, CallKeepsWins, CallKeepsBeats,
     CallKeepsReleases, CallKeepsStands DEF StandInv
<1>3. CASE Tick
  BY <1>1, <1>3, TickKeeps
<1>4. CASE Relabel \/ UNCHANGED vars
  <2>1. UNCHANGED <<thread, clock, pc, now, sess, wins>>
    BY <1>4 DEF Relabel, vars
  <2>2. QED
    BY <1>1, <2>1
    DEF StandInv, NowIsClock, Unclaimed, WinsClaimed, BeatsFresh, ReleasesOwn, Stands,
        Standing, ReleasedBetween, Me
<1>5. QED
  BY <1>2, <1>3, <1>4 DEF Next

\* Two workers never both have reason to believe they hold the lease: of all the
\* wins ever reported, those that are fresh and unreleased name one worker - also
\* when a login claims in several sessions, leases go stale and are passed on, and
\* clients fail.
THEOREM OneWinnerStands ==
  ASSUME Minting, Current, AtOnce
  PROVE  Spec => []OneStandingWinner
<1>1. Init => StandInv
  <2>1. Init => BeatInv
    BY InitType DEF Init, BeatInv, Apart, Owns, ClaimsNamed, CallsNamed, BeatAimed
  <2>2. QED
    BY <2>1 DEF Init, StandInv, NowIsClock, Unclaimed, WinsClaimed, BeatsFresh,
                ReleasesOwn, Stands
<1>2. StandInv /\ [Next]_vars => StandInv'
  BY StandInvNext
<1>3. StandInv => OneStandingWinner
  BY DEF StandInv, Stands, OneStandingWinner
<1>4. QED
  BY <1>1, <1>2, <1>3, PTL DEF Spec
-----------------------------------------------------------------------------
(* The lease protocol beside the programs that write the task's labels:    *)
(* Lifecycle implements Lease, so what is proved of the lease alone holds  *)
(* of the system with all of them at work.                                 *)

Sweep == [ step : {"idle", "listed", "edit"}, labels : SUBSET Label,
           at : Int, want : {"available", "claimed"} ]
IntakeRun == [ step : {"none", "parse", "comment", "labels"}, body : Body,
               fresh : BOOLEAN, todo : Seq(Edit) ]

\* The unfinished work of the label writers only ever adds and removes labels.
WorkOK ==
  /\ body \in Body
  /\ sync \in Sweep
  /\ intake \in IntakeRun
  /\ intake.step \in {"comment", "labels"} => intake.todo # <<>>

-----------------------------------------------------------------------------
LEMMA EditType ==
  ASSUME NEW l \in Label
  PROVE  Adding(l) \in Edit /\ Removing(l) \in Edit
BY DEF Adding, Removing, Edit

LEMMA RunType ==
  ASSUME NEW b \in Body
  PROVE  NoRun \in IntakeRun /\ NewRun(b) \in IntakeRun
BY DEF NoRun, NewRun, IntakeRun, Body

LEMMA LabelEditsType ==
  ASSUME NEW b \in Body
  PROVE  LabelEdits(b) \in Seq(Edit) /\ LabelEdits(b) # <<>>
<1>1. {"available", "invalid"} \subseteq Label
  BY DEF Label
<1>2. \A l \in {"available", "invalid"} : Adding(l) \in Edit /\ Removing(l) \in Edit
  BY <1>1, EditType
<1>3. QED
  BY <1>2 DEF LabelEdits

LEMMA TailRemains ==
  ASSUME NEW S, NEW s \in Seq(S), s # <<>>, Len(s) # 1
  PROVE  Tail(s) \in Seq(S) /\ Tail(s) # <<>>
<1>1. Tail(s) \in Seq(S) /\ Len(Tail(s)) = Len(s) - 1
  BY HeadTailProperties
<1>2. Len(s) \in Nat
  BY LenProperties
<1>3. ASSUME Tail(s) = <<>> PROVE FALSE
  <2>1. Len(<<>>) = 0
    OBVIOUS
  <2>2. Len(Tail(s)) = Len(<<>>)
    BY ONLY <1>3, Zenon
  <2>3. ASSUME NEW n \in Nat, n - 1 = 0 PROVE n = 1
    BY <2>3
  <2>4. Len(s) - 1 = 0
    BY ONLY <1>1, <2>1, <2>2, Zenon
  <2>5. QED
    BY ONLY <1>2, <2>3, <2>4, Len(s) # 1, Zenon
<1>4. QED
  BY <1>1, <1>3

\* An edit of the labels is a Relabel of the lease protocol, or nothing.
LEMMA RelabeledIsRelabel ==
  ASSUME IssueStates = Issue, TypeOK, NEW edit \in Edit,
         Relabeled(Edited(issue.labels, edit)), UNCHANGED leaseVars
  PROVE  Relabel \/ UNCHANGED vars
<1>1. issue \in Issue
  BY DEF TypeOK
<1>2. Edited(issue.labels, edit) \in SUBSET Label
  BY <1>1 DEF Edited, Edit, Issue
<1>3. issue' \in Issue
  BY <1>1, <1>2 DEF Relabeled, Issue
<1>4. QED
  BY <1>3 DEF Relabel, leaseVars, vars

LEMMA EditByPersonIntake ==
  ASSUME WorkOK, NEW edit \in Edit, EditByPerson(edit)
  PROVE  intake' = intake \/ intake' = NoRun \/ \E b \in Body : intake' = NewRun(b)
BY DEF EditByPerson, Trigger, WorkOK

LEMMA PairedEditType ==
  ASSUME WorkOK
  PROVE  /\ PairedEdit \in Edit
         /\ [PairedEdit EXCEPT !.remove = {}] \in Edit
         /\ [PairedEdit EXCEPT !.add = {}] \in Edit
<1>1. sync.want \in Label /\ sync.labels \subseteq Label
  BY DEF WorkOK, Sweep, Label
<1>2. QED
  BY <1>1 DEF PairedEdit, Edit

\* Whatever intake becomes when an edit starts a run or none is well formed.
LEMMA NewWork ==
  ASSUME WorkOK, UNCHANGED body, sync' \in Sweep,
         intake' = intake \/ intake' = NoRun \/ \E b \in Body : intake' = NewRun(b)
  PROVE  WorkOK'
<1>1. CASE intake' = intake
  BY <1>1 DEF WorkOK
<1>2. CASE intake' = NoRun
  BY <1>2, RunType DEF WorkOK, NoRun
<1>3. CASE \E b \in Body : intake' = NewRun(b)
  BY <1>3, RunType DEF WorkOK, NewRun
<1>4. QED
  BY <1>1, <1>2, <1>3

-----------------------------------------------------------------------------
LEMMA SyncStep ==
  ASSUME IssueStates = Issue, TypeOK, WorkOK, Sync
  PROVE  (Relabel \/ UNCHANGED vars) /\ WorkOK'
<1>0. issue.labels \in SUBSET Label /\ clock \in Int
  BY DEF TypeOK, Issue
<1>1. SyncIdle \in Sweep
  BY DEF SyncIdle, Sweep
<1>2. CASE SyncList
  BY <1>2, <1>0 DEF SyncList, WorkOK, Sweep, vars, leaseVars
<1>3. CASE SyncDecide
  <2>1. \A d : Wanted(d) \in {"available", "claimed"}
    BY DEF Wanted
  <2>2. sync' \in Sweep
    BY <1>3, <1>1, <2>1 DEF SyncDecide, WorkOK, Sweep
  <2>3. QED
    BY <1>3, <2>2 DEF SyncDecide, WorkOK, vars, leaseVars
<1>4. CASE SyncEdit
  <2>1. EditByPerson(PairedEdit) /\ PairedEdit \in Edit
    BY <1>4, PairedEditType DEF SyncEdit
  <2>2. Relabel \/ UNCHANGED vars
    BY <1>4, <2>1, RelabeledIsRelabel DEF SyncEdit, EditByPerson
  <2>3. QED
    BY <1>1, <1>4, <2>1, <2>2, EditByPersonIntake, NewWork DEF SyncEdit
<1>5. CASE SyncFails
  <2>1. CASE UNCHANGED <<issue, intake>>
    BY <1>5, <2>1, <1>1, NewWork DEF SyncFails, vars, leaseVars
  <2>2. CASE \E half \in {[PairedEdit EXCEPT !.remove = {}], [PairedEdit EXCEPT !.add = {}]} :
               EditByPerson(half)
    <3>1. PICK half \in Edit : EditByPerson(half)
      BY <2>2, PairedEditType
    <3>2. Relabel \/ UNCHANGED vars
      BY <1>5, <3>1, RelabeledIsRelabel DEF SyncFails, EditByPerson
    <3>3. QED
      BY <1>1, <1>5, <3>1, <3>2, EditByPersonIntake, NewWork DEF SyncFails
  <2>3. QED
    BY <1>5, <2>1, <2>2 DEF SyncFails
<1>6. QED
  BY <1>2, <1>3, <1>4, <1>5 DEF Sync

LEMMA EditBodyStep ==
  ASSUME WorkOK, EditBody
  PROVE  UNCHANGED vars /\ WorkOK'
<1>1. PICK b \in Body : body' = b /\ Trigger(issue.labels, b)
  BY DEF EditBody
<1>2. intake' \in IntakeRun /\ intake'.step \notin {"comment", "labels"}
  BY <1>1, RunType DEF Trigger, NoRun, NewRun
<1>3. QED
  BY <1>1, <1>2 DEF EditBody, WorkOK, vars, leaseVars

LEMMA IntakeStep ==
  ASSUME IssueStates = Issue, TypeOK, WorkOK, Intake
  PROVE  (Relabel \/ UNCHANGED vars) /\ WorkOK'
<1>1. intake \in IntakeRun /\ intake.body \in Body
  BY DEF WorkOK, IntakeRun
<1>2. CASE IntakeParse
  <2>1. PICK prior : intake' = [intake EXCEPT !.step = "comment",
                                  !.fresh = Unacknowledged(intake.body, prior),
                                  !.todo = LabelEdits(intake.body)]
    BY <1>2 DEF IntakeParse
  <2>2. intake' \in IntakeRun /\ intake'.todo # <<>>
    <3>1. Unacknowledged(intake.body, prior) \in BOOLEAN
      BY DEF Unacknowledged
    <3>2. QED
      BY <1>1, <2>1, <3>1, LabelEditsType DEF IntakeRun
  <2>3. QED
    BY <1>2, <2>2 DEF IntakeParse, WorkOK, vars, leaseVars
<1>3. CASE IntakeComment
  <2>1. intake' \in IntakeRun /\ intake'.todo # <<>>
    BY <1>1, <1>3 DEF IntakeComment, WorkOK, IntakeRun
  <2>2. UNCHANGED <<vars, body, sync>>
    BY <1>3 DEF IntakeComment, vars, leaseVars
  <2>3. QED
    BY <2>1, <2>2 DEF WorkOK
<1>4. CASE IntakeLabel
  <2>1. /\ intake.todo \in Seq(Edit) /\ intake.todo # <<>> /\ Head(intake.todo) \in Edit
    BY <1>1, <1>4 DEF IntakeLabel, WorkOK, IntakeRun
  <2>2. Relabel \/ UNCHANGED vars
    BY <1>4, <2>1, RelabeledIsRelabel DEF IntakeLabel, EditByBot, vars, leaseVars
  <2>3. /\ intake' \in IntakeRun
        /\ intake'.step \in {"comment", "labels"} => intake'.todo # <<>>
    <3>1. CASE Len(intake.todo) = 1
      BY <1>1, <1>4, <3>1, RunType DEF IntakeLabel, AfterLabel, NoRun
    <3>2. CASE Len(intake.todo) # 1
      <4>1. Tail(intake.todo) \in Seq(Edit) /\ Tail(intake.todo) # <<>>
        BY <2>1, <3>2, TailRemains
      <4>2. QED
        BY <1>1, <1>4, <3>2, <4>1 DEF IntakeLabel, AfterLabel, IntakeRun
    <3>3. QED
      BY <3>1, <3>2
  <2>4. QED
    BY <1>4, <2>2, <2>3 DEF IntakeLabel, WorkOK
<1>5. CASE IntakeFails
  BY <1>1, <1>5, RunType DEF IntakeFails, WorkOK, NoRun, vars, leaseVars
<1>6. QED
  BY <1>2, <1>3, <1>4, <1>5 DEF Intake

LEMMA ReconStep ==
  ASSUME IssueStates = Issue, TypeOK, WorkOK, Recon
  PROVE  (Relabel \/ UNCHANGED vars) /\ WorkOK'
<1>1. CASE ReconEdit
  <2>1. [add |-> {"available"}, remove |-> {"claimed"}] \in Edit
    BY DEF Edit, Label
  <2>2. QED
    BY <1>1, <2>1, RelabeledIsRelabel DEF ReconEdit, EditByBot, WorkOK
<1>2. CASE ReconList \/ ReconComment \/ ReconFails
  BY <1>2 DEF ReconList, ReconComment, ReconFails, WorkOK, vars, leaseVars
<1>3. QED
  BY <1>1, <1>2 DEF Recon

\* Every step of the composed system is a step of the lease protocol or leaves
\* its variables alone.
LEMMA LifeNextIsNext ==
  ASSUME IssueStates = Issue, TypeOK, WorkOK, [LifeNext]_allVars
  PROVE  [Next]_vars /\ WorkOK'
<1>1. ASSUME NEW c \in Client, ClientCall(c)
      PROVE  Next /\ WorkOK'
  BY <1>1 DEF ClientCall, Next, WorkOK
<1>2. CASE Wait
  BY <1>2 DEF Wait, Next, WorkOK, lifeVars
<1>3. CASE Sync \/ Intake \/ Recon
  BY <1>3, SyncStep, IntakeStep, ReconStep DEF Next
<1>4. CASE EditBody
  BY <1>4, EditBodyStep
<1>5. CASE UNCHANGED allVars
  BY <1>5 DEF allVars, lifeVars, WorkOK
<1>6. QED
  BY <1>1, <1>2, <1>3, <1>4, <1>5 DEF LifeNext

LEMMA LifeInitOK == LifeInit => Init /\ TypeOK /\ WorkOK
<1> SUFFICES ASSUME LifeInit PROVE Init /\ TypeOK /\ WorkOK
  OBVIOUS
<1>1. Init /\ TypeOK
  BY InitType DEF LifeInit
<1>2. SyncIdle \in Sweep
  BY DEF SyncIdle, Sweep
<1>3. QED
  BY <1>1, <1>2, RunType DEF LifeInit, WorkOK, NewRun

\* The label sync, the intake workflow and the reconciliation, with their
\* failures and in every interleaving, are nothing but Relabel to the lease
\* protocol: the composed system implements it.
THEOREM Refinement ==
  ASSUME IssueStates = Issue
  PROVE  LifeSpec => ImplementsLease
<1>1. LifeInit => Init /\ TypeOK /\ WorkOK
  BY LifeInitOK
<1>2. TypeOK /\ WorkOK /\ [LifeNext]_allVars => [Next]_vars /\ WorkOK'
  BY LifeNextIsNext
<1>3. TypeOK /\ [Next]_vars => TypeOK'
  BY NextType
<1>4. QED
  BY <1>1, <1>2, <1>3, PTL DEF LifeSpec, ImplementsLease, Spec

\* So no label writer can make two claims win the same lease.
COROLLARY LifecycleClaimExclusion ==
  ASSUME IssueStates = Issue
  PROVE  LifeSpec => []ClaimedExclusive
BY Refinement, ClaimExclusion DEF ImplementsLease

-----------------------------------------------------------------------------
(* The labels of a task.                                                   *)

OnOffer == {"available", "claimed"}

\* What is left of a run that writes labels.
LeftToWrite ==
  {LabelEdits(b) : b \in Body} \cup {<<Removing("available")>>, <<Removing("invalid")>>}

\* A run that has one label left to remove has added the other, which no other
\* program takes away: nobody else removes invalid, and whoever removes one of
\* available and claimed adds the other in the same edit.
OnBoard ==
  /\ intake.step \in {"comment", "labels"} => intake.todo \in LeftToWrite
  /\ intake.step = "comment" => intake.todo = LabelEdits(intake.body)
  /\ fault # "edit" =>
       /\ issue.labels \cap {"available", "claimed", "invalid"} # {}
       /\ intake.step = "labels" /\ intake.todo = <<Removing("available")>> =>
            "invalid" \in issue.labels
       /\ intake.step = "labels" /\ intake.todo = <<Removing("invalid")>> =>
            issue.labels \cap OnOffer # {}

LEMMA LabelEditsSteps ==
  ASSUME NEW b \in Body
  PROVE  /\ Len(LabelEdits(b)) = 2
         /\ Head(LabelEdits(b)) = IF b = BadBody THEN Adding("invalid") ELSE Adding("available")
         /\ Tail(LabelEdits(b)) = IF b = BadBody THEN <<Removing("available")>>
                                  ELSE <<Removing("invalid")>>
BY DEF LabelEdits

LEMMA OneLeft ==
  ASSUME NEW e
  PROVE  Len(<<e>>) = 1 /\ Head(<<e>>) = e
OBVIOUS

LEMMA Distinct ==
  /\ <<Removing("available")>> # <<Removing("invalid")>>
  /\ \A b \in Body : LabelEdits(b) \notin {<<Removing("available")>>, <<Removing("invalid")>>}
<1>1. Removing("available") # Removing("invalid")
  BY DEF Removing
<1>2. ASSUME NEW b \in Body, NEW e PROVE LabelEdits(b) # <<e>>
  <2>1. Len(LabelEdits(b)) = 2 /\ Len(<<e>>) = 1
    BY LabelEditsSteps, OneLeft
  <2>2. QED
    BY <2>1
<1>3. QED
  BY <1>1, <1>2

\* Invalid stays, and so does being on offer, whatever a program but intake does.
LEMMA OnBoardKept ==
  ASSUME OnBoard,
         intake' = intake \/ intake' = NoRun \/ \E b \in Body : intake' = NewRun(b),
         fault' # "edit" => /\ fault # "edit"
                            /\ "invalid" \in issue.labels => "invalid" \in issue.labels'
                            /\ issue.labels \cap OnOffer # {} => issue.labels' \cap OnOffer # {}
  PROVE  OnBoard'
<1>1. fault' # "edit" => issue.labels' \cap {"available", "claimed", "invalid"} # {}
  BY DEF OnBoard, OnOffer
<1>2. CASE intake' = intake
  BY <1>1, <1>2 DEF OnBoard
<1>3. CASE intake' = NoRun
  BY <1>1, <1>3 DEF OnBoard, NoRun
<1>4. CASE \E b \in Body : intake' = NewRun(b)
  BY <1>1, <1>4 DEF OnBoard, NewRun
<1>5. QED
  BY <1>2, <1>3, <1>4

LEMMA RelabeledLabels ==
  ASSUME TypeOK, NEW labels, Relabeled(labels)
  PROVE  issue.labels' = labels
BY DEF TypeOK, Issue, Relabeled

LEMMA SyncOnBoard ==
  ASSUME TypeOK, WorkOK, OnBoard, Sync
  PROVE  OnBoard'
<1>1. CASE SyncList \/ SyncDecide
  BY <1>1, OnBoardKept DEF SyncList, SyncDecide
<1>2. CASE SyncEdit
  <2>1. EditByPerson(PairedEdit) /\ UNCHANGED fault
    BY <1>2 DEF SyncEdit
  <2>2. issue.labels' = Edited(issue.labels, PairedEdit)
    BY <2>1, RelabeledLabels DEF EditByPerson
  <2>3. sync.want \in OnOffer
    BY DEF WorkOK, Sweep, OnOffer
  <2>4. /\ "invalid" \in issue.labels => "invalid" \in issue.labels'
        /\ sync.want \in issue.labels'
    BY <2>2, <2>3 DEF Edited, PairedEdit, OnOffer
  <2>5. PairedEdit \in Edit
    BY PairedEditType
  <2>6. intake' = intake \/ intake' = NoRun \/ \E b \in Body : intake' = NewRun(b)
    BY <2>1, <2>5, EditByPersonIntake
  <2>7. QED
    BY <2>1, <2>3, <2>4, <2>6, OnBoardKept
<1>3. CASE SyncFails
  <2>1. CASE Fail("sweep") /\ UNCHANGED <<issue, updated, intake>>
    BY <2>1, OnBoardKept DEF Fail
  <2>2. CASE /\ Fail("edit")
             /\ \E half \in {[PairedEdit EXCEPT !.remove = {}], [PairedEdit EXCEPT !.add = {}]} :
                  EditByPerson(half)
    <3>1. PICK half \in Edit : EditByPerson(half)
      BY <2>2, PairedEditType
    <3>2. intake' = intake \/ intake' = NoRun \/ \E b \in Body : intake' = NewRun(b)
      BY <3>1, EditByPersonIntake
    <3>3. QED
      BY <2>2, <3>2, OnBoardKept DEF Fail
  <2>3. QED
    BY <1>3, <2>1, <2>2 DEF SyncFails
<1>4. QED
  BY <1>1, <1>2, <1>3 DEF Sync

LEMMA ReconOnBoard ==
  ASSUME TypeOK, OnBoard, Recon
  PROVE  OnBoard'
<1>1. CASE ReconEdit
  <2>1. issue.labels' = Edited(issue.labels, [add |-> {"available"}, remove |-> {"claimed"}])
    BY <1>1, RelabeledLabels DEF ReconEdit, EditByBot
  <2>2. /\ "invalid" \in issue.labels => "invalid" \in issue.labels'
        /\ "available" \in issue.labels'
    BY <2>1 DEF Edited
  <2>3. QED
    BY <1>1, <2>2, OnBoardKept DEF ReconEdit, OnOffer
<1>2. CASE ReconList \/ ReconComment
  BY <1>2, OnBoardKept DEF ReconList, ReconComment
<1>3. CASE ReconFails
  BY <1>3, OnBoardKept DEF ReconFails, Fail
<1>4. QED
  BY <1>1, <1>2, <1>3 DEF Recon

LEMMA LabelOnBoard ==
  ASSUME TypeOK, WorkOK, OnBoard, IntakeLabel
  PROVE  OnBoard'
<1>0. intake \in IntakeRun
  BY DEF WorkOK
<1>1. intake.step = "labels" /\ intake' = AfterLabel(intake)
  BY DEF IntakeLabel
<1>2. \/ /\ issue.labels' = Edited(issue.labels, Head(intake.todo))
         /\ UNCHANGED fault
      \/ UNCHANGED issue /\ fault' = "edit" /\ fault = "none"
  BY RelabeledLabels DEF IntakeLabel, EditByBot, Fail
<1>3. CASE \E b \in Body : intake.todo = LabelEdits(b)
  <2>1. PICK b \in Body : intake.todo = LabelEdits(b)
    BY <1>3
  <2>2. /\ Len(intake.todo) = 2
        /\ Head(intake.todo) = IF b = BadBody THEN Adding("invalid") ELSE Adding("available")
        /\ Tail(intake.todo) = IF b = BadBody THEN <<Removing("available")>>
                               ELSE <<Removing("invalid")>>
    BY <2>1, LabelEditsSteps
  <2>3. intake' = [intake EXCEPT !.todo = Tail(intake.todo)]
    BY <1>1, <2>2 DEF AfterLabel
  <2>4. intake'.step = "labels" /\ intake'.todo = Tail(intake.todo)
    BY <1>0, <1>1, <2>3 DEF IntakeRun
  <2>5. fault' # "edit" =>
          issue.labels' = issue.labels \cup (IF b = BadBody THEN {"invalid"} ELSE {"available"})
    BY <1>2, <2>2 DEF Edited, Adding
  <2>6. intake'.todo \in LeftToWrite
    BY <2>2, <2>4 DEF LeftToWrite
  <2>7. CASE b = BadBody
    BY <2>2, <2>4, <2>5, <2>6, <2>7, Distinct DEF OnBoard
  <2>8. CASE b # BadBody
    BY <2>2, <2>4, <2>5, <2>6, <2>8, Distinct DEF OnBoard, OnOffer
  <2>9. QED
    BY <2>7, <2>8
<1>4. CASE intake.todo \in {<<Removing("available")>>, <<Removing("invalid")>>}
  <2>1. Len(intake.todo) = 1
    BY <1>4, OneLeft
  <2>2. intake' = NoRun
    BY <1>1, <2>1 DEF AfterLabel
  <2>3. intake'.step = "none"
    BY <2>2 DEF NoRun
  <2>4. fault' # "edit" => issue.labels' \cap {"available", "claimed", "invalid"} # {}
    <3>1. CASE intake.todo = <<Removing("available")>>
      <4>1. Head(intake.todo) = Removing("available")
        BY <3>1, OneLeft
      <4>2. QED
        BY <1>1, <1>2, <3>1, <4>1 DEF OnBoard, Edited, Removing
    <3>2. CASE intake.todo = <<Removing("invalid")>>
      <4>1. Head(intake.todo) = Removing("invalid")
        BY <3>2, OneLeft
      <4>2. QED
        BY <1>1, <1>2, <3>2, <4>1 DEF OnBoard, Edited, Removing, OnOffer
    <3>3. QED
      BY <1>4, <3>1, <3>2
  <2>5. QED
    BY <2>3, <2>4 DEF OnBoard
<1>5. QED
  BY <1>1, <1>3, <1>4 DEF OnBoard, LeftToWrite

LEMMA IntakeOnBoard ==
  ASSUME TypeOK, WorkOK, OnBoard, Intake
  PROVE  OnBoard'
<1>0. intake \in IntakeRun /\ intake.body \in Body
  BY DEF WorkOK, IntakeRun
<1>1. CASE IntakeParse
  <2>1. PICK prior : intake' = [intake EXCEPT !.step = "comment",
                                  !.fresh = Unacknowledged(intake.body, prior),
                                  !.todo = LabelEdits(intake.body)]
    BY <1>1 DEF IntakeParse
  <2>2. /\ intake'.step = "comment" /\ intake'.todo = LabelEdits(intake.body)
        /\ intake'.body = intake.body
    BY <1>0, <2>1 DEF IntakeRun
  <2>3. UNCHANGED issue /\ (fault' # "edit" => fault # "edit")
    BY <1>1 DEF IntakeParse, Fail
  <2>4. QED
    BY <1>0, <2>2, <2>3 DEF OnBoard, LeftToWrite
<1>2. CASE IntakeComment
  <2>1. /\ intake.step = "comment" /\ intake'.step = "labels"
        /\ intake'.todo = intake.todo /\ UNCHANGED <<issue, fault>>
    BY <1>0, <1>2 DEF IntakeComment, IntakeRun
  <2>2. intake.todo = LabelEdits(intake.body)
    BY <2>1 DEF OnBoard
  <2>3. intake.todo \notin {<<Removing("available")>>, <<Removing("invalid")>>}
    BY <1>0, <2>2, Distinct
  <2>4. QED
    BY <2>1, <2>3 DEF OnBoard
<1>3. CASE IntakeLabel
  BY <1>3, LabelOnBoard
<1>4. CASE IntakeFails
  BY <1>4, OnBoardKept DEF IntakeFails, Fail
<1>5. QED
  BY <1>1, <1>2, <1>3, <1>4 DEF Intake

LEMMA CallFrame ==
  ASSUME NEW c \in Client, Call(c)
  PROVE  UNCHANGED <<clock, issue>>
BY DEF Call, Begin, Skip, ReadBefore, PostClaim, ReadAfter, ClaimFails,
       PostClaimUnacknowledged, Setup, SetupFails, RemoveWorkspace, FirstBeat, Heartbeat,
       CmdHeartbeat, Beat, BeatFails, CheckRelease, Release, ReleaseFails, Crash

LEMMA OnBoardNext ==
  ASSUME TypeOK, WorkOK, OnBoard, [LifeNext]_allVars
  PROVE  OnBoard'
<1>1. ASSUME NEW c \in Client, ClientCall(c)
      PROVE  OnBoard'
  BY <1>1, CallFrame, OnBoardKept DEF ClientCall
<1>2. CASE Wait
  BY <1>2, OnBoardKept DEF Wait, Tick, lifeVars
<1>3. CASE Sync \/ Intake \/ Recon
  BY <1>3, SyncOnBoard, IntakeOnBoard, ReconOnBoard
<1>4. CASE EditBody
  <2>1. intake' = NoRun \/ \E b \in Body : intake' = NewRun(b)
    BY <1>4 DEF EditBody, Trigger
  <2>2. QED
    BY <1>4, <2>1, OnBoardKept DEF EditBody
<1>5. CASE UNCHANGED allVars
  BY <1>5, OnBoardKept DEF allVars, vars, lifeVars
<1>6. QED
  BY <1>1, <1>2, <1>3, <1>4, <1>5 DEF LifeNext

\* No task drops off the board unless an edit is lost in part: however many
\* programs write its labels, whatever they listed before, and wherever they die.
THEOREM AlwaysOnBoard ==
  ASSUME IssueStates = Issue
  PROVE  LifeSpec => []NeverUnlabelled
<1>1. LifeInit => Init /\ TypeOK /\ WorkOK
  BY LifeInitOK
<1>2. LifeInit => OnBoard
  BY DEF LifeInit, OnBoard, NewRun
<1>3. TypeOK /\ WorkOK /\ [LifeNext]_allVars => [Next]_vars /\ WorkOK'
  BY LifeNextIsNext
<1>4. TypeOK /\ [Next]_vars => TypeOK'
  BY NextType
<1>5. TypeOK /\ WorkOK /\ OnBoard /\ [LifeNext]_allVars => OnBoard'
  BY OnBoardNext
<1>6. OnBoard => NeverUnlabelled
  BY DEF OnBoard, NeverUnlabelled
<1>7. QED
  BY <1>1, <1>2, <1>3, <1>4, <1>5, <1>6, PTL DEF LifeSpec

-----------------------------------------------------------------------------
(* Type correctness.                                                       *)

\* The instants the writers remember are past, and the rest is in its range.
Bounds ==
  /\ clock \in Nat
  /\ updated \in 0..clock
  /\ sync.at \in 0..clock
  /\ acks \subseteq Record
  /\ recon \in {"idle", "comment", "edit"}
  /\ edits \in 0..MaxEdits
  /\ fault \in {"none", "sweep", "edit", "fetch", "intake", "recon"}

\* A step that ends in the same instant and leaves the counters alone.
LEMMA BoundsKept ==
  ASSUME Bounds, UNCHANGED <<clock, acks, edits>>,
         updated' \in {updated, clock}, sync'.at \in {0, sync.at, clock},
         recon' \in {"idle", "comment", "edit"},
         fault' \in {"none", "sweep", "edit", "fetch", "intake", "recon"}
  PROVE  Bounds'
BY DEF Bounds

LEMMA SyncBounds ==
  ASSUME WorkOK, Bounds, Sync
  PROVE  Bounds'
<1>0. SyncIdle.at = 0 /\ sync \in Sweep
  BY DEF SyncIdle, WorkOK
<1>1. CASE SyncList
  BY <1>1, BoundsKept DEF SyncList, leaseVars, Bounds
<1>2. CASE SyncDecide
  <2>1. sync'.at \in {0, sync.at}
    BY <1>0, <1>2 DEF SyncDecide, Sweep
  <2>2. QED
    BY <1>2, <2>1, BoundsKept DEF SyncDecide, leaseVars, Bounds
<1>3. CASE SyncEdit
  <2>1. updated' \in {updated, clock}
    BY <1>3 DEF SyncEdit, EditByPerson, Relabeled
  <2>2. QED
    BY <1>0, <1>3, <2>1, BoundsKept DEF SyncEdit, leaseVars, Bounds
<1>4. CASE SyncFails
  <2>1. updated' \in {updated, clock}
    BY <1>4 DEF SyncFails, EditByPerson, Relabeled
  <2>2. fault' \in {"sweep", "edit"}
    BY <1>4 DEF SyncFails, Fail
  <2>3. QED
    BY <1>0, <1>4, <2>1, <2>2, BoundsKept DEF SyncFails, leaseVars, Bounds
<1>5. QED
  BY <1>1, <1>2, <1>3, <1>4 DEF Sync

LEMMA IntakeBounds ==
  ASSUME Bounds, Intake
  PROVE  Bounds'
<1>1. CASE IntakeParse \/ IntakeFails
  <2>1. fault' \in {fault, "fetch", "intake"}
    BY <1>1 DEF IntakeParse, IntakeFails, Fail
  <2>2. QED
    BY <1>1, <2>1, BoundsKept DEF IntakeParse, IntakeFails, leaseVars, Bounds
<1>2. CASE IntakeComment
  <2>1. acks' \subseteq Record /\ updated' \in {updated, clock}
    BY <1>2 DEF IntakeComment, Bounds
  <2>2. UNCHANGED <<clock, sync, recon, edits, fault>>
    BY <1>2 DEF IntakeComment, leaseVars
  <2>3. QED
    BY <2>1, <2>2 DEF Bounds
<1>3. CASE IntakeLabel
  <2>1. updated' \in {updated, clock} /\ fault' \in {fault, "edit"}
    BY <1>3 DEF IntakeLabel, EditByBot, Relabeled, Fail
  <2>2. QED
    BY <1>3, <2>1, BoundsKept DEF IntakeLabel, leaseVars, Bounds
<1>4. QED
  BY <1>1, <1>2, <1>3 DEF Intake

LEMMA ReconBounds ==
  ASSUME Bounds, Recon
  PROVE  Bounds'
<1>1. /\ updated' \in {updated, clock}
      /\ fault' \in {fault, "recon"}
      /\ recon' \in {"idle", "comment", "edit"}
  BY DEF Recon, ReconList, ReconComment, ReconEdit, ReconFails, EditByBot, Relabeled, Fail
<1>2. UNCHANGED <<clock, acks, sync, edits>>
  BY DEF Recon, ReconList, ReconComment, ReconEdit, ReconFails, leaseVars
<1>3. QED
  BY <1>1, <1>2, BoundsKept DEF Bounds

LEMMA BoundsNext ==
  ASSUME WorkOK, Bounds, [LifeNext]_allVars
  PROVE  Bounds'
<1>1. ASSUME NEW c \in Client, ClientCall(c)
      PROVE  Bounds'
  <2>1. UNCHANGED clock
    BY <1>1, CallFrame DEF ClientCall
  <2>2. updated' \in {updated, clock}
    BY <1>1 DEF ClientCall
  <2>3. QED
    BY <1>1, <2>1, <2>2, BoundsKept DEF ClientCall, Bounds
<1>2. CASE Wait
  BY <1>2 DEF Wait, Tick, lifeVars, Bounds
<1>3. CASE Sync \/ Intake \/ Recon
  BY <1>3, SyncBounds, IntakeBounds, ReconBounds
<1>4. CASE EditBody
  BY <1>4, LifecycleAssumption DEF EditBody, leaseVars, Bounds
<1>5. CASE UNCHANGED allVars
  BY <1>5 DEF allVars, vars, lifeVars, Bounds
<1>6. QED
  BY <1>1, <1>2, <1>3, <1>4, <1>5 DEF LifeNext

\* Every writer's unfinished work is well formed, and no sweep acts on a listing
\* of a later instant than it decides against.
THEOREM LifecycleTypeCorrect ==
  ASSUME IssueStates = Issue
  PROVE  LifeSpec => []LifeTypeOK
<1>1. LifeInit => Init /\ TypeOK /\ WorkOK
  BY LifeInitOK
<1>2. LifeInit => Bounds
  BY LifecycleAssumption DEF LifeInit, Init, Bounds, SyncIdle
<1>3. TypeOK /\ WorkOK /\ [LifeNext]_allVars => [Next]_vars /\ WorkOK'
  BY LifeNextIsNext
<1>4. TypeOK /\ [Next]_vars => TypeOK'
  BY NextType
<1>5. WorkOK /\ Bounds /\ [LifeNext]_allVars => Bounds'
  BY BoundsNext
<1>6. WorkOK /\ Bounds => LifeTypeOK
  BY DEF WorkOK, Bounds, Sweep, IntakeRun, LifeTypeOK
<1>7. QED
  BY <1>1, <1>2, <1>3, <1>4, <1>5, <1>6, PTL DEF LifeSpec
=============================================================================
