----------------------------- MODULE MergeFlow -----------------------------
(***************************************************************************)
(* `revali merge` from its first check to the archived review directory:   *)
(* cmd_merge, do_merge and what they call, with GitHub, the checks on the  *)
(* pull request, the local repository and the people who work beside it.   *)
(* The locks are RunLocks' matter: here one merge runs at a time, and any  *)
(* number of them one after the other.                                     *)
(***************************************************************************)
EXTENDS Naturals

CONSTANTS
    Layouts,    \* "plain"; "linked": a linked worktree, base elsewhere; "primary": so is base here
    WaitsForCI, \* [merge] wait_for_checks
    MaxPolls,   \* looks at the checks until the timeout
    MaxKills,   \* bound: kills
    MaxMoves    \* bound: what people do

ASSUME MergeAssumption ==
    /\ Layouts \subseteq {"plain", "linked", "primary"}
    /\ WaitsForCI \in BOOLEAN
    /\ MaxPolls \in Nat /\ MaxKills \in Nat /\ MaxMoves \in Nat

Commits == {"done", "mine"}   \* the tip that was validated; one more of the author's

VARIABLES
    calm,     \* nobody acts while a merge is live or takes a pushed commit back, and every
              \* answer of GitHub arrives
    archives, \* merged reviews are archived ([paths] archive_dir)
    layout,   \* where the working tree is
    fixer,    \* the commit whose message says `Fixes #n` of the branch's issue
    ci,       \* the checks on the pull request
    pr,       \* the pull request: its commits, those that were merged, the checks at that time
    local,    \* the local repository: what is checked out, the branch's commits, if it exists
    dirty,    \* uncommitted changes
    stage,    \* state.json
    here,     \* .revali/<branch>/: "full", "part" or "none" of the review's record
    archive,  \* its directory in the archive, likewise
    comments, \* comments on that issue
    pc,
    fixes,    \* referenced_issues found the issue
    polls,
    said,     \* how the last merge ended
    kills, moves

vars == <<calm, archives, layout, fixer, ci, pr, local, dirty, stage, here, archive, comments,
          pc, fixes, polls, said, kills, moves>>
Config == <<calm, archives, layout, fixer>>
World == <<Config, kills, moves, ci>>
Record == <<stage, here, archive>>

Validated == {"done"}   \* state.head_sha

Init ==
    /\ calm \in BOOLEAN /\ archives \in BOOLEAN
    /\ layout \in Layouts /\ fixer \in Commits
    /\ ci \in {"none", "pending", "green", "failed"}
    /\ pr = [open |-> TRUE, tip |-> Validated, merged |-> {}, ci |-> "none"]
    /\ local = [on |-> "feature", tip |-> Validated, branch |-> TRUE]
    /\ dirty = FALSE /\ stage = "ready_to_merge" /\ here = "full" /\ archive = "none"
    /\ comments = 0 /\ pc = "idle" /\ fixes = FALSE /\ polls = 0 /\ said = "nothing"
    /\ kills = 0 /\ moves = 0

-----------------------------------------------------------------------------
(* What goes before the merge *)

GoTo(label) == pc' = label /\ UNCHANGED said
\* a Stop: the stage stays, so merge can be tried again
Stop(why) == pc' = "idle" /\ said' = why

\* cmd_merge: the state of the branch checked out
Begin ==
    /\ pc = "idle" /\ local.on = "feature" /\ here # "none" /\ stage = "ready_to_merge"
    /\ GoTo("check") /\ polls' = 0 /\ fixes' = FALSE
    /\ UNCHANGED <<World, pr, local, dirty, Record, comments>>

\* (mutant) HEAD may have moved
MergeableWherever == ~dirty /\ layout # "primary"
Mergeable == ~dirty /\ local.tip = Validated /\ layout # "primary"

Check ==
    /\ pc = "check"
    /\ \/ Mergeable /\ GoTo(IF WaitsForCI THEN "wait" ELSE "read")
       \/ Stop("refused")   \* or: the configuration, the login, no pull request, a detached HEAD
    /\ UNCHANGED <<World, pr, local, dirty, Record, comments, fixes, polls>>

\* (mutants) red checks are not pending; no timeout
WaitForGreen ==
    /\ pc = "wait"
    /\ \/ ci # "pending" /\ GoTo("read") /\ UNCHANGED polls
       \/ ci = "pending" /\ polls < MaxPolls /\ GoTo("wait") /\ polls' = polls + 1
       \/ ci = "pending" /\ polls >= MaxPolls /\ Stop("refused") /\ UNCHANGED polls
    /\ UNCHANGED <<World, pr, local, dirty, Record, comments, fixes>>
WaitForEver ==
    /\ pc = "wait"
    /\ \/ ci \in {"none", "green"} /\ GoTo("read")
       \/ ci = "failed" /\ Stop("refused")
       \/ ci = "pending" /\ GoTo("wait")
    /\ UNCHANGED <<World, pr, local, dirty, Record, comments, fixes, polls>>

\* one turn of wait_for_checks; a command that fails with nothing on stdout counts as no checks
Wait ==
    /\ pc = "wait"
    /\ \/ ci \in {"none", "green"} /\ GoTo("read") /\ UNCHANGED polls
       \/ ~calm /\ GoTo("read") /\ UNCHANGED polls
       \/ ci = "failed" /\ Stop("refused") /\ UNCHANGED polls
       \/ ci = "pending" /\ polls < MaxPolls /\ GoTo("wait") /\ polls' = polls + 1
       \/ ci = "pending" /\ polls >= MaxPolls /\ Stop("refused") /\ UNCHANGED polls
    /\ UNCHANGED <<World, pr, local, dirty, Record, comments, fixes>>

\* the branch's messages are read before --delete-branch makes them unreachable
ReadMessages ==
    /\ pc = "read"
    /\ fixes' \in {FALSE, (fixer \in local.tip)}
    /\ GoTo("merge")
    /\ UNCHANGED <<World, pr, local, dirty, Record, comments, polls>>

-----------------------------------------------------------------------------
(* gh pr merge *)

Merged == [pr EXCEPT !.open = FALSE, !.merged = IF pr.open THEN pr.tip ELSE @,
                     !.ci = IF pr.open THEN ci ELSE @]

\* merged; --delete-branch also switches to base and deletes the branch, or fails at that
GhMerges ==
    /\ pc = "merge"
    /\ pr' = Merged
    /\ \/ layout = "plain" /\ local' = [local EXCEPT !.on = "base", !.branch = FALSE]
          /\ GoTo("record")
       \/ layout = "plain" /\ UNCHANGED local /\ GoTo("ask")
       \/ layout = "linked" /\ UNCHANGED local /\ GoTo("record")
    /\ UNCHANGED <<World, dirty, Record, comments, fixes, polls>>

GhRefuses ==
    /\ pc = "merge"
    /\ GoTo("ask")
    /\ UNCHANGED <<World, pr, local, dirty, Record, comments, fixes, polls>>

\* (mutant) the exit code is not looked behind
AskNobody ==
    /\ pc = "ask"
    /\ GoTo("record")
    /\ UNCHANGED <<World, pr, local, dirty, Record, comments, fixes, polls>>

\* pr_merged: no answer is a "no"
AskGitHub ==
    /\ pc = "ask"
    /\ \/ ~pr.open /\ GoTo("record")
       \/ (pr.open \/ ~calm) /\ Stop("gh pr merge failed")
    /\ UNCHANGED <<World, pr, local, dirty, Record, comments, fixes, polls>>

\* (mutant) the stage is left for later
RecordLater ==
    /\ pc = "record"
    /\ GoTo("comment")
    /\ UNCHANGED <<World, pr, local, dirty, Record, comments, fixes, polls>>

RecordMerged ==
    /\ pc = "record"
    /\ stage' = "merged"
    /\ GoTo("comment")
    /\ UNCHANGED <<World, pr, local, dirty, here, archive, comments, fixes, polls>>

\* comment_after_merge: a failure is a warning, after the one more try of every gh command
Comment ==
    /\ pc = "comment"
    /\ \E n \in (IF ~fixes THEN {0} ELSE IF calm THEN {0, 1} ELSE 0 .. 2) :
          comments' = comments + n
    /\ GoTo("switch")
    /\ UNCHANGED <<World, pr, local, dirty, Record, fixes, polls>>

-----------------------------------------------------------------------------
(* The local part *)

\* checkout of the base, or of the commit fetched in a linked worktree; git may refuse
Switch ==
    /\ pc = "switch"
    /\ local' \in {local, [local EXCEPT !.on = IF layout = "linked" THEN "detached" ELSE "base"]}
    /\ GoTo("delete")
    /\ UNCHANGED <<World, pr, dirty, Record, comments, fixes, polls>>

DeleteBranch ==
    /\ pc = "delete"
    /\ \/ local.on # "feature" /\ local' = [local EXCEPT !.branch = FALSE]
       \/ UNCHANGED local
    /\ GoTo("file")
    /\ UNCHANGED <<World, pr, dirty, Record, comments, fixes, polls>>

\* archive_review_dir: a rename, or a new directory for a copy, or none of both
File ==
    /\ pc = "file"
    /\ \/ ~archives /\ GoTo("clear") /\ UNCHANGED <<here, archive>>
       \/ archives /\ here' = "none" /\ archive' = "full" /\ Stop("merged")
       \/ archives /\ archive' = "part" /\ GoTo("copy") /\ UNCHANGED here
       \/ archives /\ Stop("merged") /\ UNCHANGED <<here, archive>>
    /\ UNCHANGED <<World, pr, local, dirty, stage, comments, fixes, polls>>

\* (mutant) a copy that fails is cleared up after like one that succeeds
CopyAnyway ==
    /\ pc = "copy"
    /\ archive' \in {"full", "part"}
    /\ GoTo("clear")
    /\ UNCHANGED <<World, pr, local, dirty, stage, here, comments, fixes, polls>>

\* the copy, or the removal of a half of it
Copy ==
    /\ pc = "copy"
    /\ \/ archive' = "full" /\ GoTo("clear")
       \/ archive' \in {"none", "part"} /\ Stop("merged")
    /\ UNCHANGED <<World, pr, local, dirty, stage, here, comments, fixes, polls>>

\* remove_tree, file by file; what cannot be deleted stays
Clear ==
    /\ pc = "clear"
    /\ \/ here = "full" /\ here' = "part" /\ GoTo("clear")
       \/ here' \in {here, "none"} /\ Stop("merged")
    /\ UNCHANGED <<World, pr, local, dirty, stage, archive, comments, fixes, polls>>

MergeStep ==
    \/ Check \/ Wait \/ ReadMessages \/ GhMerges \/ GhRefuses \/ AskGitHub
    \/ RecordMerged \/ Comment \/ Switch \/ DeleteBranch \/ File \/ Copy \/ Clear

-----------------------------------------------------------------------------
(* Kills, and what others do *)

Die ==
    /\ pc # "idle" /\ kills < MaxKills
    /\ kills' = kills + 1
    /\ Stop("died")
    /\ UNCHANGED <<Config, moves, ci, pr, local, dirty, Record, comments, fixes, polls>>

Move ==
    /\ calm => pc = "idle"
    /\ moves < MaxMoves /\ moves' = moves + 1
    /\ UNCHANGED <<Config, kills, Record, comments, pc, fixes, polls, said>>

AuthorCommits ==
    /\ Move /\ local.on = "feature"
    /\ local' = [local EXCEPT !.tip = Commits]
    /\ UNCHANGED <<ci, pr, dirty>>

\* new commits, new checks
AuthorPushes ==
    /\ Move /\ local.branch /\ pr.open
    /\ pr' = [pr EXCEPT !.tip = @ \cup local.tip]
    /\ ci' = IF local.tip \subseteq pr.tip \/ ci = "none" THEN ci ELSE "pending"
    /\ UNCHANGED <<local, dirty>>

AuthorUndoes ==
    /\ ~calm /\ Move /\ local.on = "feature"
    /\ local' = [local EXCEPT !.tip = Validated]
    /\ UNCHANGED <<ci, pr, dirty>>

AuthorEdits ==
    /\ Move
    /\ dirty' = ~dirty
    /\ UNCHANGED <<ci, pr, local>>

ChecksEnd ==
    /\ ci = "pending" /\ ci' \in {"green", "failed"}
    /\ UNCHANGED <<Config, pr, local, dirty, Record, comments, pc, fixes, polls, said,
                   kills, moves>>

Next ==
    \/ Begin \/ MergeStep \/ Die
    \/ AuthorCommits \/ AuthorPushes \/ AuthorUndoes \/ AuthorEdits \/ ChecksEnd

Spec == Init /\ [][Next]_vars

FairSpec == Spec /\ WF_vars(MergeStep)

-----------------------------------------------------------------------------
(* Properties *)

\* The types of what a merge works on.
TypeOK ==
    /\ calm \in BOOLEAN /\ archives \in BOOLEAN
    /\ layout \in Layouts /\ fixer \in Commits
    /\ ci \in {"none", "pending", "green", "failed"}
    /\ pr \in [open : BOOLEAN, tip : SUBSET Commits, merged : SUBSET Commits,
               ci : {"none", "pending", "green", "failed"}]
    /\ local \in [on : {"feature", "base", "detached"}, tip : SUBSET Commits, branch : BOOLEAN]
    /\ dirty \in BOOLEAN /\ stage \in {"ready_to_merge", "merged"}
    /\ here \in {"full", "part", "none"} /\ archive \in {"full", "part", "none"}
    /\ comments \in Nat /\ fixes \in BOOLEAN /\ polls \in 0 .. MaxPolls
    /\ pc \in {"idle", "check", "wait", "read", "merge", "ask", "record", "comment", "switch",
               "delete", "file", "copy", "clear"}
    /\ said \in {"nothing", "refused", "gh pr merge failed", "merged", "died"}
    /\ kills \in 0 .. MaxKills /\ moves \in 0 .. MaxMoves

\* The record of the review is somewhere in full at every moment, whatever fails or is killed:
\* in the working tree until it is in the archive (archive_review_dir), or until the merge is
\* recorded when there is no archive.
RecordKept ==
    \/ here = "full" \/ archive = "full"
    \/ ~archives /\ stage = "merged" /\ ~pr.open

\* The stage says merged only of a pull request that is: gh's exit code is not enough.
MergedIsMerged == stage = "merged" => ~pr.open

\* What is merged is what was reviewed and validated (the HEAD check of do_merge).  Said of a
\* merge nobody interferes with: HEAD is compared before the wait for the checks, and gh pr merge
\* names the pull request only, so what is pushed during the wait is merged with it.
MergesWhatWasValidated == calm => pr.merged \subseteq Validated

\* The local branch is deleted only when its commits are in what was merged, and never while it
\* is checked out; a commit made during the merge goes with the branch.
WorkKept == calm /\ ~local.branch => local.tip \subseteq pr.merged /\ local.on # "feature"

\* An issue is commented on at most once, by a merge that brought in the commit that fixes it;
\* a comment whose answer is lost is made again.
CommentedOnce == calm /\ comments > 0 => comments = 1 /\ fixer \in pr.merged

\* With wait_for_checks nothing is merged over checks that are red or still running, unless gh's
\* answer about them is lost or the checks start again.
ChecksHeeded == calm /\ WaitsForCI /\ ~pr.open => pr.ci \in {"none", "green"}

\* A merge ends, however long the checks take.
MergeEnds == pc # "idle" ~> pc = "idle"

\* The abstract view: GitHub's answer, what the stage tells, the places with the whole record.
merged == ~pr.open
told == stage = "merged"
branch == local.branch
record == (IF here = "full" THEN {"here"} ELSE {})
              \cup (IF archive = "full" THEN {"archive"} ELSE {})
at ==
    CASE pc = "idle" -> "rest"
      [] pc \in {"check", "wait", "read", "merge", "ask", "record"} -> "trying"
      [] pc = "comment" -> "told"
      [] OTHER -> "after"

Promise == INSTANCE Landing

\* However often merge is tried, killed or disturbed, it keeps the promise of Landing: merged is
\* told only of a merged pull request and never tried again, the comment and the filing of the
\* record come after that, and no step leaves the review without a whole record before its time.
KeepsLanding == Promise!Spec
=============================================================================
