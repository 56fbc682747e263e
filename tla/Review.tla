------------------------------- MODULE Review -------------------------------
(***************************************************************************)
(* What the runs over one branch promise its author, commits and files     *)
(* left out: verdicts are given one at a time and kept, an approved round  *)
(* is put to the sandbox, ready to merge is told of a round that passed    *)
(* there in the same run, and a run that tells nothing has died.  A review *)
(* may start over, but never within a judgement.  Pipeline is shown to     *)
(* implement this.                                                         *)
(***************************************************************************)
EXTENDS Naturals, Sequences, SequencesExt

VARIABLES
    rounds,   \* the verdicts of the review, in order
    checks,   \* the sandbox's results, each with the number of the round it is for
    at,       \* how far the live run is; rest when there is none
    told      \* what state.json tells of the last run; "nothing" while one is at work

Verdicts == {"APPROVE", "CHANGES_REQUESTED", "NEEDS_INFO"}
Results == {"PASS", "FAIL"}

Init ==
    /\ rounds = <<>> /\ checks = <<>>
    /\ at = "rest" /\ told = "none"

Judged(v) == rounds # <<>> /\ Last(rounds) = v
Checked(r) == checks # <<>> /\ Last(checks) = [round |-> Len(rounds), result |-> r]

Begin ==
    /\ at = "rest" /\ at' = "begun"
    /\ told' = "nothing"
    /\ UNCHANGED <<rounds, checks>>

\* the reviewer's commits were rewritten: the checks stay, the rounds are counted anew
StartOver ==
    /\ at = "begun" /\ rounds # <<>>
    /\ rounds' = <<>>
    /\ UNCHANGED <<checks, at, told>>

\* a dry run ends here, over the review as it is or started over
EndDry ==
    /\ at = "begun" /\ at' = "done"
    /\ rounds' \in {rounds, <<>>} /\ told' = "preflight"
    /\ UNCHANGED checks

\* one round of a run; the author is asked once in a review
Judge(v) ==
    /\ at = "begun" /\ at' = "judged"
    /\ v = "NEEDS_INFO" => \A i \in DOMAIN rounds : rounds[i] # v
    /\ rounds' = Append(rounds, v)
    /\ UNCHANGED <<checks, told>>

\* an approved round is validated by the run that judged it, or by a later one if it has no
\* result yet
Validate(r) ==
    /\ Judged("APPROVE")
    /\ \/ at = "judged"
       \/ at = "begun" /\ \A i \in DOMAIN checks : checks[i].round # Len(rounds)
    /\ at' = "checked"
    /\ checks' = Append(checks, [round |-> Len(rounds), result |-> r])
    /\ UNCHANGED <<rounds, told>>

TellReady ==
    /\ at = "checked" /\ Judged("APPROVE") /\ Checked("PASS")
    /\ at' = "done" /\ told' = "ready_to_merge"
    /\ UNCHANGED <<rounds, checks>>

TellFix ==
    /\ \/ at = "judged" /\ (Judged("CHANGES_REQUESTED") \/ Judged("NEEDS_INFO"))
       \/ at = "checked" /\ Checked("FAIL")
    /\ at' = "done" /\ told' = "needs_action"
    /\ UNCHANGED <<rounds, checks>>

\* a refusal or an error, which may come after the result, too: its exit code is told instead
GiveUp ==
    /\ at \notin {"rest", "stopping"} /\ at' = "stopping"
    /\ UNCHANGED <<rounds, checks, told>>

TellStop ==
    /\ at = "stopping" /\ at' = "done"
    /\ told' \in {"needs_action", "error"} \cup IF rounds = <<>> THEN {} ELSE {"needs_human"}
    /\ UNCHANGED <<rounds, checks>>

\* the run is over, killed or not
Leave ==
    /\ at # "rest" /\ at' = "rest"
    /\ told' = IF told = "nothing" THEN "died" ELSE told
    /\ UNCHANGED <<rounds, checks>>

\* revali stop, of a live run or of a dead one
Close ==
    /\ at # "rest" \/ told = "died"
    /\ at' = "rest" /\ told' = "stopped"
    /\ UNCHANGED <<rounds, checks>>

\* revali reset
Forget ==
    /\ at = "rest" /\ told # "none"
    /\ rounds' = <<>> /\ checks' = <<>> /\ told' = "none"
    /\ UNCHANGED at

Next ==
    \/ Begin \/ StartOver \/ EndDry
    \/ \E v \in Verdicts : Judge(v)
    \/ \E r \in Results : Validate(r)
    \/ TellReady \/ TellFix \/ GiveUp \/ TellStop
    \/ Leave \/ Close \/ Forget

Spec == Init /\ [][Next]_<<rounds, checks, at, told>>
=============================================================================
