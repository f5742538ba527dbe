---------------------------- MODULE Publication -----------------------------
(***************************************************************************)
(* What `choir submit` promises about a task's work, told without any of   *)
(* its requests: the branch a reviewer sees only ever grows, no work is    *)
(* proposed twice at once, and the issue is told of a pull request that    *)
(* was really opened for this task's own work.                             *)
(***************************************************************************)
EXTENDS Naturals

CONSTANTS
  Slot,          \* the tasks worked on
  Work,          \* what a branch may hold
  NoWork,        \* nothing has been pushed
  Extends(_, _)  \* does the first work hold all of the second?

VARIABLES
  public,    \* the work on the pushed branch, per slot
  open,      \* the pull requests open for it
  opened,    \* the slots a pull request was ever opened for
  announced  \* the slots whose issue names one

vars == <<public, open, opened, announced>>

Init ==
  /\ public = [s \in Slot |-> NoWork]
  /\ open = [s \in Slot |-> 0]
  /\ opened = {}
  /\ announced = {}

Push(s) ==
  /\ \E w \in Work :
       /\ public[s] # NoWork => Extends(w, public[s])
       /\ public' = [public EXCEPT ![s] = w]
  /\ UNCHANGED <<open, opened, announced>>

Open(s) ==
  /\ public[s] # NoWork
  /\ open[s] = 0
  /\ open' = [open EXCEPT ![s] = 1]
  /\ opened' = opened \cup {s}
  /\ UNCHANGED <<public, announced>>

Close(s) ==
  /\ open[s] = 1
  /\ open' = [open EXCEPT ![s] = 0]
  /\ UNCHANGED <<public, opened, announced>>

Announce(s) ==
  /\ s \in opened
  /\ announced' = announced \cup {s}
  /\ UNCHANGED <<public, open, opened>>

Next == \E s \in Slot : Push(s) \/ Open(s) \/ Close(s) \/ Announce(s)

Spec == Init /\ [][Next]_vars
=============================================================================
