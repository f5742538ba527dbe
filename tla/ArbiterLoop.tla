---------------------------- MODULE ArbiterLoop -----------------------------
(***************************************************************************)
(* decide_lease as its loop runs: one iteration per comment, with the      *)
(* loop's own variables.  LeaseArbiter states the same decision without    *)
(* the loop, which is what the protocol is modelled and proved with; the   *)
(* two are compared here over every thread of up to MaxComments comments.  *)
(***************************************************************************)
EXTENDS LeaseArbiter, SequencesExt

CONSTANTS MaxComments, \* bound: length of the threads compared
          Stamps,      \* the updated_at values tried
          Clock        \* the values of `now` tried

ASSUME LoopAssumption == MaxComments \in Nat /\ Stamps \subseteq Int /\ Clock \subseteq Int

VARIABLES ordered,     \* the comments read so far, by id
          holder,      \* the loop's holder
          claimOrder,  \* its claim_order
          superseded,  \* its superseded logins, in order
          latest       \* latest_by_worker: worker -> its latest comment

vars == <<ordered, holder, claimOrder, superseded, latest>>

Init == /\ ordered = <<>>
        /\ holder = NoWorker
        /\ claimOrder = <<>>
        /\ superseded = <<>>
        /\ latest = [w \in {} |-> <<>>]

Remember(comment) ==
  latest' = [w \in DOMAIN latest \cup {WorkerOf(comment)} |->
               IF w = WorkerOf(comment) THEN comment ELSE latest[w]]

AppendNew(seq, x) == IF Contains(seq, x) THEN seq ELSE Append(seq, x)

\* A claim while nobody holds the lease.
ClaimFree(comment) ==
  /\ comment.action = "claim"
  /\ holder = NoWorker
  /\ holder' = WorkerOf(comment)
  /\ claimOrder' = Append(claimOrder, WorkerOf(comment))
  /\ UNCHANGED superseded

\* A claim against a held lease.
ClaimHeld(comment) ==
  /\ comment.action = "claim"
  /\ holder # NoWorker
  /\ holder # WorkerOf(comment)
  /\ claimOrder' = AppendNew(claimOrder, WorkerOf(comment))
  /\ superseded' = AppendNew(superseded, comment.login)
  /\ UNCHANGED holder

ByHolder(comment) == holder # NoWorker /\ comment.login = holder[1]

\* A release by the holder's login, whatever session posted it.
ReleaseHeld(comment) ==
  /\ comment.action = "release"
  /\ ByHolder(comment)
  /\ holder' = NoWorker
  /\ UNCHANGED <<claimOrder, superseded>>

\* Heartbeats, the holder's own re-claim, and a release by anyone else.
Ignored(comment) ==
  /\ \/ comment.action = "heartbeat"
     \/ comment.action = "claim" /\ holder = WorkerOf(comment)
     \/ comment.action = "release" /\ ~ByHolder(comment)
  /\ UNCHANGED <<holder, claimOrder, superseded>>

Iterate(comment) ==
  /\ Len(ordered) < MaxComments
  /\ ordered' = Append(ordered, comment)
  /\ Remember(comment)
  /\ \/ ClaimFree(comment)
     \/ ClaimHeld(comment)
     \/ ReleaseHeld(comment)
     \/ Ignored(comment)

Next == \E comment \in [ login : Login, session : Session \cup {NoSession},
                         action : {"claim", "heartbeat", "release"},
                         stamp : Stamps ] : Iterate(comment)

Spec == Init /\ [][Next]_vars

-----------------------------------------------------------------------------
(* The code after the loop.                                                *)

Fresh(w, now) == IsFresh(latest[w].stamp, now)

\* The places in claim_order the last search stops at, were it to go on.
Heirs(now) == {i \in DOMAIN claimOrder :
                 claimOrder[i] # holder /\ Fresh(claimOrder[i], now)}

\* Kept(seq, login)[i]: s for s in seq if s != login, of the first i.
Kept(seq, login) ==
  LET kept[i \in 0..Len(seq)] ==
        IF i = 0 THEN <<>>
        ELSE IF seq[i] = login THEN kept[i-1] ELSE Append(kept[i-1], seq[i])
  IN  kept

\* Mutation: the heir stays on the list.
MutHeirListed(seq, login) == seq

Without(seq, login) == Kept(seq, login)[Len(seq)]

Told(worker, why, lost) == [holder |-> worker, reason |-> why, superseded |-> lost]

Answer(now) ==
  IF holder = NoWorker THEN Told(NoWorker, "released", superseded)
  ELSE IF Fresh(holder, now) THEN Told(holder, "claimed", superseded)
  ELSE IF Heirs(now) # {}
    THEN LET heir == claimOrder[CHOOSE i \in Heirs(now) : \A j \in Heirs(now) : i <= j]
         IN  Told(heir, "reclaimed", Without(superseded, heir[1]))
  ELSE Told(NoWorker, "stale", superseded)

-----------------------------------------------------------------------------
\* Whatever the thread and the clock, the loop of decide_lease and the
\* declarative Decide name the same holder for the same reason; nor does _fresh
\* ever look for a worker that the latest comments do not know.
LoopDecides ==
  \A now \in Clock :
    LET decided == Decide(ordered, Len(ordered), now)
    IN  Answer(now).holder = decided.holder /\ Answer(now).reason = decided.reason

\* The claims of a thread that met another worker's lease, and a login's first.
LostClaims(t) ==
  {j \in 1..Len(t) : /\ t[j].action = "claim"
                     /\ HolderAfter(t)[j-1] \notin {NoWorker, WorkerOf(t[j])}}
LossesOf(t, login) == {j \in LostClaims(t) : t[j].login = login}
FirstLoss(t, login) ==
  CHOOSE j \in LossesOf(t, login) : \A k \in LossesOf(t, login) : j <= k

\* "Claimants whose claim was not the earliest, in id order": the superseded
\* logins decide_lease answers with are those that lost a claim to another
\* worker's lease, whatever was released since, each once, in the order of their
\* first lost claims; but a worker is not told that it lost the lease it is named
\* for as heir, even if it was another session of its login that lost.
SupersededLost ==
  \A now \in Clock :
    LET told == Answer(now)
        heir == IF told.reason = "reclaimed" THEN {told.holder[1]} ELSE {}
    IN  /\ Range(told.superseded) = {ordered[j].login : j \in LostClaims(ordered)} \ heir
        /\ \A i, j \in 1..Len(told.superseded) :
             i < j => FirstLoss(ordered, told.superseded[i])
                        < FirstLoss(ordered, told.superseded[j])
=============================================================================
