---------------------------- MODULE LeaseArbiter ----------------------------
(***************************************************************************)
(* Who holds a task's lease, decided from its comment thread alone:        *)
(* gate/state/lease_arbiter.py.  The client and the orchestrator evaluate  *)
(* these operators over their own reading of the thread; nothing else      *)
(* arbitrates.                                                             *)
(*                                                                         *)
(* A thread is the sequence of an issue's lease comments in id order (ids  *)
(* are server-assigned and monotonic, so the index stands for the id).     *)
(* Every operator takes the number n of comments the reader saw, because a *)
(* read replica may lag behind the thread.                                 *)
(***************************************************************************)
EXTENDS Integers, Sequences

CONSTANTS
  Login,        \* GitHub logins
  Session,      \* worker-session ids (client/lease.py new_session)
  NoSession,    \* the empty session: legacy clients, CLI beats, releases
  NoWorker,     \* Python's None as a holder
  StaleAfter    \* DEFAULT_STALE_AFTER_HOURS, in clock ticks

Worker == Login \X (Session \cup {NoSession})
Holder == Worker \cup {NoWorker}

ASSUME ArbiterAssumption ==
  /\ NoSession \notin Session
  /\ NoWorker \notin Worker
  /\ StaleAfter \in Nat

Comment == [ login   : Login,
             session : Session \cup {NoSession},
             action  : {"claim", "heartbeat", "release"},
             stamp   : Int ]

WorkerOf(comment) == <<comment.login, comment.session>>

-----------------------------------------------------------------------------
(* The holder fold of decide_lease's loop.                                 *)

\* Mutations of NextHolder: the last claim wins; anybody's release counts; a
\* release must come from the very session that holds.
MutLastClaimWins(holder, comment) ==
  CASE comment.action = "claim" -> WorkerOf(comment)
    [] comment.action = "release" /\ holder # NoWorker /\ comment.login = holder[1] -> NoWorker
    [] OTHER -> holder
MutAnyRelease(holder, comment) ==
  CASE comment.action = "claim" /\ holder = NoWorker -> WorkerOf(comment)
    [] comment.action = "release" -> NoWorker
    [] OTHER -> holder
MutReleaseBySession(holder, comment) ==
  CASE comment.action = "claim" /\ holder = NoWorker -> WorkerOf(comment)
    [] comment.action = "release" /\ WorkerOf(comment) = holder -> NoWorker
    [] OTHER -> holder

NextHolder(holder, comment) ==
  IF comment.action = "claim" /\ holder = NoWorker
    THEN WorkerOf(comment)
  ELSE IF comment.action = "release" /\ holder # NoWorker
            /\ comment.login = holder[1]
    THEN NoWorker
  ELSE holder

\* HolderAfter(t)[n]: the loop's `holder` after its first n comments.
HolderAfter(t) ==
  LET h[n \in 0..Len(t)] ==
        IF n = 0 THEN NoWorker ELSE NextHolder(h[n-1], t[n])
  IN  h

-----------------------------------------------------------------------------
(* Freshness.                                                              *)

\* Mutations: the comparison the wrong way round; no staleness at all.
MutInverted(stamp, now) == stamp < now - StaleAfter
MutNeverStale(stamp, now) == TRUE

\* A stamp from the future is fresh, as in the code.
IsFresh(stamp, now) == stamp >= now - StaleAfter

CommentsOf(t, n, w) == {i \in 1..n : WorkerOf(t[i]) = w}

\* The index of w's id-highest comment among the first n.
LatestByWorker(t, n, w) ==
  CHOOSE i \in CommentsOf(t, n, w) : \A j \in CommentsOf(t, n, w) : j <= i

FreshWorker(t, n, w, now) == IsFresh(t[LatestByWorker(t, n, w)].stamp, now)

-----------------------------------------------------------------------------
(* The decision.                                                           *)

\* claim_order holds every worker that ever claimed, by its first claim: the
\* loop appends at the first claim, and a re-claim never moves an entry.
Claims(t, n, w) == {i \in CommentsOf(t, n, w) : t[i].action = "claim"}
\* Mutation: a re-claim moves the worker to the end of claim_order.
MutLastClaim(t, n, w) == CHOOSE i \in Claims(t, n, w) : \A j \in Claims(t, n, w) : i >= j

FirstClaim(t, n, w) == CHOOSE i \in Claims(t, n, w) : \A j \in Claims(t, n, w) : i <= j

\* The indices of the first claims of the fresh claimants other than `holder`.
Successors(t, n, holder, now) ==
  {i \in 1..n : LET w == WorkerOf(t[i]) IN
       /\ t[i].action = "claim"
       /\ i = FirstClaim(t, n, w)
       /\ w # holder
       /\ FreshWorker(t, n, w, now)}

\* decide_lease over the first n comments of t, read at `now`.  The reasons
\* are "released" (also for a thread with no claim), "claimed", "reclaimed"
\* (a stale holder's lease passed on) and "stale" (nobody fresh to pass it to).
Decide(t, n, now) ==
  LET holder == HolderAfter(t)[n]
      next   == Successors(t, n, holder, now)
  IN  IF holder = NoWorker
        THEN [holder |-> NoWorker, reason |-> "released"]
      ELSE IF FreshWorker(t, n, holder, now)
        THEN [holder |-> holder, reason |-> "claimed"]
      ELSE IF next # {}
        THEN [holder |-> WorkerOf(t[CHOOSE i \in next : \A j \in next : i <= j]),
              reason |-> "reclaimed"]
      ELSE [holder |-> NoWorker, reason |-> "stale"]
=============================================================================
