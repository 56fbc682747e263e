------------------------------ MODULE Landing ------------------------------
(***************************************************************************)
(* What `revali merge` promises over one branch, however often it is tried *)
(* and killed: the merge is told only of a merged pull request, and once   *)
(* told it is never tried again; the issue is commented on after that, by  *)
(* one merge; the branch goes only when it is merged; and the review's     *)
(* record is whole until it is filed.  MergeFlow is shown to implement     *)
(* this.                                                                   *)
(***************************************************************************)
EXTENDS Naturals

VARIABLES
    archives,  \* merged reviews are filed in an archive
    merged,    \* the pull request is
    told,      \* state.json says so
    branch,    \* the local branch is there
    record,    \* the places that have the review's record whole
    comments,  \* on the issue that the branch fixes
    at         \* how far the live merge is; rest when there is none

Init ==
    /\ archives \in BOOLEAN
    /\ merged = FALSE /\ told = FALSE /\ branch = TRUE
    /\ record = {"here"} /\ comments = 0 /\ at = "rest"

Begin ==
    /\ at = "rest" /\ ~told /\ "here" \in record
    /\ at' = "trying"
    /\ UNCHANGED <<archives, merged, told, branch, record, comments>>

\* gh merges the pull request or finds it merged, and may delete the branch
Merge ==
    /\ at = "trying"
    /\ merged' = TRUE /\ branch' \in {branch, FALSE}
    /\ UNCHANGED <<archives, told, record, comments, at>>

Tell ==
    /\ at = "trying" /\ merged
    /\ told' = TRUE /\ at' = "told"
    /\ UNCHANGED <<archives, merged, branch, record, comments>>

\* a comment whose answer is lost is made twice
Comment ==
    /\ at = "told" /\ at' = "after"
    /\ \E n \in 0 .. 2 : comments' = comments + n
    /\ UNCHANGED <<archives, merged, told, branch, record>>

DropBranch ==
    /\ at = "after"
    /\ branch' = FALSE
    /\ UNCHANGED <<archives, merged, told, record, comments, at>>

\* moved to the archive, or copied there; dropped here once it is there, or when there is none
File ==
    /\ at = "after" /\ at' \in {"after", "rest"}
    /\ \/ archives /\ record' \in {{"archive"}, record \cup {"archive"}}
       \/ (archives => "archive" \in record) /\ record' = record \ {"here"}
    /\ UNCHANGED <<archives, merged, told, branch, comments>>

\* done, refused or killed
Leave ==
    /\ at # "rest" /\ at' = "rest"
    /\ UNCHANGED <<archives, merged, told, branch, record, comments>>

Next == Begin \/ Merge \/ Tell \/ Comment \/ DropBranch \/ File \/ Leave

Spec == Init /\ [][Next]_<<archives, merged, told, branch, record, comments, at>>
=============================================================================
