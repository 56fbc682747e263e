------------------------------- MODULE Turns -------------------------------
(***************************************************************************)
(* What the lock files and the state files of one working tree promise the *)
(* people who use it: one run or merge works at a time, and what is told   *)
(* of a branch is the result of the last one that worked on it, or that it *)
(* died.  A merge alone may go back on it, to what it had read before it   *)
(* had the tree.  RunLocks is shown to implement this.                     *)
(***************************************************************************)
CONSTANTS Pids, Branches, Nobody

VARIABLES
    owner,   \* who works in the tree, and on which branch; Nobody
    report   \* what there is to tell of each branch

Init ==
    /\ owner = Nobody
    /\ report = [b \in Branches |-> "none"]

\* a run takes the tree, and the earlier result of the branch is no longer told
BeginRun(p, b) ==
    /\ owner = Nobody
    /\ owner' = [pid |-> p, branch |-> b]
    /\ report' = [report EXCEPT ![b] = "running"]

BeginMerge(p, b) ==
    /\ owner = Nobody /\ report[b] # "none"
    /\ owner' = [pid |-> p, branch |-> b]
    /\ UNCHANGED report

\* what a merge had read: ready, by a state of before, or of a run that had just begun, which
\* reads as its death
Recalled == {"ready", "died"}

Recall ==
    /\ owner # Nobody /\ report[owner.branch] # "running"
    /\ \E r \in Recalled : report' = [report EXCEPT ![owner.branch] = r]
    /\ UNCHANGED owner

\* a run has its result; a merge has merged, or leaves what was told
Conclude ==
    /\ owner # Nobody
    /\ LET told == report[owner.branch]
       IN  \E r \in IF told = "running" THEN {"result", "ready"}
                     ELSE {"merged", told} \cup Recalled :
              report' = [report EXCEPT ![owner.branch] = r]
    /\ owner' = Nobody

\* killed from outside, or by `stop`
Vanish ==
    /\ owner # Nobody
    /\ report' = [report EXCEPT ![owner.branch] = IF @ = "running" THEN "died" ELSE @]
    /\ owner' = Nobody

\* `stop` has the last word, over a result that came while it was killing, too
Close(b) ==
    /\ owner = Nobody /\ report[b] # "none"
    /\ report' = [report EXCEPT ![b] = "stopped"]
    /\ UNCHANGED owner

Forget(b) ==
    /\ owner # Nobody => owner.branch # b
    /\ report' = [report EXCEPT ![b] = "none"]
    /\ UNCHANGED owner

Next ==
    \/ \E p \in Pids, b \in Branches : BeginRun(p, b) \/ BeginMerge(p, b)
    \/ Recall \/ Conclude \/ Vanish
    \/ \E b \in Branches : Close(b) \/ Forget(b)

Spec == Init /\ [][Next]_<<owner, report>>
=============================================================================
