-------------------------- MODULE MergeFlowProofs --------------------------
(***************************************************************************)
(* What holds of every merge, for every value of MergeFlow's constants:    *)
(* the stage says merged only of a pull request that is, and the record of *)
(* the review is somewhere in full at every moment; of one nobody          *)
(* interferes with, what it merges, deletes and comments on; and that all  *)
(* of them together keep the promise of Landing.                           *)
(***************************************************************************)
EXTENDS MergeFlow, TLAPS

Before == {"check", "wait", "read", "merge", "ask", "record"}
After == {"comment", "switch", "delete", "file", "copy", "clear"}

-----------------------------------------------------------------------------
(* The pull request and the local repository *)

Checks == {"none", "pending", "green", "failed"}
PullRequests == [open : BOOLEAN, tip : SUBSET Commits, merged : SUBSET Commits, ci : Checks]
Repositories == [on : {"feature", "base", "detached"}, tip : SUBSET Commits, branch : BOOLEAN]

\* The part of TypeOK that the arguments below need.
Shapes == pr \in PullRequests /\ local \in Repositories /\ ci \in Checks

\* What gh makes of the pull request it merges.
LEMMA MergedShape ==
    ASSUME Shapes PROVE Merged \in PullRequests /\ ~Merged.open
  BY DEF Shapes, Merged, PullRequests, Checks

\* Every step keeps the shapes.
LEMMA ShapesStep == ASSUME Shapes, Next PROVE Shapes'
<1>1. CASE Begin \/ Check \/ Wait \/ ReadMessages \/ GhRefuses \/ AskGitHub \/ RecordMerged
           \/ Comment \/ File \/ Copy \/ Clear \/ Die
  <2>1. UNCHANGED <<pr, local, ci>>
    BY <1>1 DEF Begin, Check, Wait, ReadMessages, GhRefuses, AskGitHub, RecordMerged, Comment,
                File, Copy, Clear, Die, World, Config
  <2> QED BY <2>1 DEF Shapes
<1>2. CASE GhMerges
  <2>1. pr' \in PullRequests /\ ci' \in Checks
    BY <1>2, MergedShape DEF GhMerges, World, Config, Shapes
  <2>2. [local EXCEPT !.on = "base", !.branch = FALSE] \in Repositories
    BY DEF Shapes, Repositories
  <2>3. local' \in Repositories
    BY <1>2, <2>2 DEF GhMerges, Shapes
  <2> QED BY <2>1, <2>3 DEF Shapes
<1>3. CASE Switch
  <2>1. UNCHANGED <<pr, ci>>
    BY <1>3 DEF Switch, World, Config
  <2>2. local' \in Repositories
    BY <1>3 DEF Switch, Shapes, Repositories
  <2> QED BY <2>1, <2>2 DEF Shapes
<1>4. CASE DeleteBranch
  <2>1. UNCHANGED <<pr, ci>>
    BY <1>4 DEF DeleteBranch, World, Config
  <2>2. local' \in Repositories
    BY <1>4 DEF DeleteBranch, Shapes, Repositories
  <2> QED BY <2>1, <2>2 DEF Shapes
<1>5. CASE AuthorCommits \/ AuthorUndoes
  <2>1. UNCHANGED <<pr, ci>>
    BY <1>5 DEF AuthorCommits, AuthorUndoes
  <2>2. local' \in Repositories
    BY <1>5 DEF AuthorCommits, AuthorUndoes, Shapes, Repositories, Commits, Validated
  <2> QED BY <2>1, <2>2 DEF Shapes
<1>6. CASE AuthorPushes
  <2>1. UNCHANGED local
    BY <1>6 DEF AuthorPushes
  <2>2. ci' \in Checks
    BY <1>6 DEF AuthorPushes, Shapes, Checks
  <2>3. pr' \in PullRequests
    BY <1>6 DEF AuthorPushes, Shapes, PullRequests, Repositories
  <2> QED BY <2>1, <2>2, <2>3 DEF Shapes
<1>7. CASE AuthorEdits
  BY <1>7 DEF AuthorEdits, Shapes
<1>8. CASE ChecksEnd
  BY <1>8 DEF ChecksEnd, Shapes, Checks
<1> QED
  BY <1>1, <1>2, <1>3, <1>4, <1>5, <1>6, <1>7, <1>8 DEF Next, MergeStep

\* The shapes in every state.
LEMMA ShapesAlways == Spec => []Shapes
<1>1. Init => Shapes
  <2> SUFFICES ASSUME Init PROVE Shapes
    OBVIOUS
  <2>1. pr \in PullRequests
    BY DEF Init, PullRequests, Checks, Commits, Validated
  <2>2. local \in Repositories
    BY DEF Init, Repositories, Commits, Validated
  <2>3. ci \in Checks
    BY DEF Init, Checks
  <2> QED BY <2>1, <2>2, <2>3 DEF Shapes
<1>2. Shapes /\ [Next]_vars => Shapes'
  <2>1. Shapes /\ UNCHANGED vars => Shapes'
    BY DEF Shapes, vars
  <2> QED BY <2>1, ShapesStep
<1> QED
  BY <1>1, <1>2, PTL DEF Spec

\* What is configured, and what counts; the rest of TypeOK with the shapes.
Configured ==
    /\ calm \in BOOLEAN /\ archives \in BOOLEAN
    /\ layout \in Layouts /\ fixer \in Commits
Counters ==
    /\ comments \in Nat /\ polls \in 0 .. MaxPolls
    /\ kills \in 0 .. MaxKills /\ moves \in 0 .. MaxMoves
Words ==
    /\ dirty \in BOOLEAN /\ fixes \in BOOLEAN
    /\ stage \in {"ready_to_merge", "merged"}
    /\ here \in {"full", "part", "none"} /\ archive \in {"full", "part", "none"}
    /\ pc \in {"idle", "check", "wait", "read", "merge", "ask", "record", "comment", "switch",
               "delete", "file", "copy", "clear"}
    /\ said \in {"nothing", "refused", "gh pr merge failed", "merged", "died"}

\* Nobody changes the configuration.
LEMMA ConfiguredStep == ASSUME Configured, Next PROVE Configured'
<1>1. UNCHANGED Config
  BY DEF Next, MergeStep, Begin, Check, Wait, ReadMessages, GhMerges, GhRefuses, AskGitHub,
         RecordMerged, Comment, Switch, DeleteBranch, File, Copy, Clear, Die, AuthorCommits,
         AuthorPushes, AuthorUndoes, AuthorEdits, ChecksEnd, Move, World
<1> QED
  BY <1>1 DEF Configured, Config

\* The bounds are kept, and a comment more is a number.
LEMMA CountersStep == ASSUME Counters, Next PROVE Counters'
<1> USE MergeAssumption DEF Counters, World
<1>1. CASE Begin \/ Check \/ ReadMessages \/ GhMerges \/ GhRefuses \/ AskGitHub \/ RecordMerged
           \/ Switch \/ DeleteBranch \/ File \/ Copy \/ Clear
  <2>1. UNCHANGED <<comments, kills, moves>>
    BY <1>1 DEF Begin, Check, ReadMessages, GhMerges, GhRefuses, AskGitHub, RecordMerged, Switch,
                DeleteBranch, File, Copy, Clear
  <2>2. polls' = polls \/ polls' = 0
    BY <1>1 DEF Begin, Check, ReadMessages, GhMerges, GhRefuses, AskGitHub, RecordMerged, Switch,
                DeleteBranch, File, Copy, Clear
  <2> QED BY <2>1, <2>2
<1>2. CASE Wait
  BY <1>2 DEF Wait
<1>3. CASE Comment
  BY <1>3 DEF Comment
<1>4. CASE Die
  BY <1>4 DEF Die
<1>5. CASE AuthorCommits \/ AuthorPushes \/ AuthorUndoes \/ AuthorEdits \/ ChecksEnd
  BY <1>5 DEF AuthorCommits, AuthorPushes, AuthorUndoes, AuthorEdits, ChecksEnd, Move
<1> QED
  BY <1>1, <1>2, <1>3, <1>4, <1>5 DEF Next, MergeStep

\* What is no, or the answer to a question, is a Boolean.
LEMMA NoOrTheAnswer ==
    ASSUME NEW a, NEW s, NEW b, b \in {FALSE, (a \in s)}
    PROVE  b \in BOOLEAN
<1>1. CASE a \in s
  <2>1. (a \in s) = TRUE
    BY <1>1
  <2> QED BY <2>1
<1>2. CASE a \notin s
  <2>1. (a \in s) = FALSE
    BY <1>2
  <2> QED BY <2>1
<1> QED
  BY <1>1, <1>2

\* Every label, stage and state of the record is one of those named.
LEMMA WordsStep == ASSUME Words, Next PROVE Words'
<1> USE DEF Words, GoTo, Stop, Record
<1>1. CASE Begin \/ Check \/ Wait
  BY <1>1 DEF Begin, Check, Wait
<1>2. CASE ReadMessages
  <2>1. fixes' \in {FALSE, (fixer \in local.tip)}
    BY <1>2 DEF ReadMessages
  <2>2. fixes' \in BOOLEAN
    <3> DEFINE b == fixes'
               tip == local.tip
    <3>1. b \in {FALSE, (fixer \in tip)}
      BY <2>1
    <3> HIDE DEF b, tip
    <3>2. b \in BOOLEAN
      BY <3>1, NoOrTheAnswer, Zenon
    <3> QED BY <3>2 DEF b
  <2>3. pc' = "merge" /\ UNCHANGED <<dirty, stage, here, archive, said>>
    BY <1>2 DEF ReadMessages
  <2> QED BY <2>2, <2>3
<1>3. CASE GhMerges \/ GhRefuses \/ AskGitHub
  BY <1>3 DEF GhMerges, GhRefuses, AskGitHub
<1>4. CASE RecordMerged \/ Comment \/ Switch \/ DeleteBranch
  BY <1>4 DEF RecordMerged, Comment, Switch, DeleteBranch
<1>5. CASE File \/ Copy \/ Clear
  BY <1>5 DEF File, Copy, Clear
<1>6. CASE Die
  BY <1>6 DEF Die
<1>7. CASE AuthorCommits \/ AuthorPushes \/ AuthorUndoes \/ AuthorEdits \/ ChecksEnd
  BY <1>7 DEF AuthorCommits, AuthorPushes, AuthorUndoes, AuthorEdits, ChecksEnd, Move
<1> QED
  BY <1>1, <1>2, <1>3, <1>4, <1>5, <1>6, <1>7 DEF Next, MergeStep

\* The types of everything a merge works on, within the bounds of the model.
THEOREM TypesHold == Spec => []TypeOK
<1>1. Init => Configured /\ Counters /\ Words
  <2>1. Init => Configured
    BY DEF Init, Configured
  <2>2. Init => Counters
    BY MergeAssumption DEF Init, Counters
  <2>3. Init => Words
    BY DEF Init, Words
  <2> QED BY <2>1, <2>2, <2>3
<1>2. Configured /\ Counters /\ Words /\ [Next]_vars => (Configured /\ Counters /\ Words)'
  <2>1. Configured /\ UNCHANGED vars => Configured'
    BY DEF vars, Configured
  <2>2. Counters /\ UNCHANGED vars => Counters'
    BY DEF vars, Counters
  <2>3. Words /\ UNCHANGED vars => Words'
    BY DEF vars, Words
  <2> QED BY <2>1, <2>2, <2>3, ConfiguredStep, CountersStep, WordsStep
<1>3. Shapes /\ Configured /\ Counters /\ Words => TypeOK
  BY DEF Shapes, PullRequests, Repositories, Checks, Configured, Counters, Words, TypeOK
<1> QED
  BY <1>1, <1>2, <1>3, ShapesAlways, PTL DEF Spec

-----------------------------------------------------------------------------
(* The record of the review *)

\* The inductive form.  Which half of the merge a run is in tells the stage, and a merge that
\* has not come to clearing the directory finds it as the review left it: the stage lets no
\* second merge begin on what a first one has cleared half away.
RecordInv ==
    /\ stage = "merged" => ~pr.open
    /\ pc = "record" => ~pr.open
    /\ pc \in Before => stage = "ready_to_merge"
    /\ pc \in After => stage = "merged"
    /\ pc \in Before \cup (After \ {"clear"}) => here = "full"
    /\ pc = "clear" /\ archives => archive = "full"
    /\ here # "full" => stage = "merged" /\ (archives => archive = "full")

\* A step of a merge keeps it.
LEMMA RecordThroughMerge ==
    ASSUME Shapes, RecordInv, Begin \/ MergeStep PROVE RecordInv'
<1> USE DEF RecordInv, Before, After, World, Config, Record, GoTo, Stop
<1>1. CASE Begin
  BY <1>1 DEF Begin
<1>2. CASE Check
  BY <1>2 DEF Check
<1>3. CASE Wait
  BY <1>3 DEF Wait
<1>4. CASE ReadMessages
  BY <1>4 DEF ReadMessages
<1>5. CASE GhMerges
  <2>1. pr' = Merged /\ ~Merged.open
    BY <1>5, MergedShape DEF GhMerges
  <2> QED BY <1>5, <2>1 DEF GhMerges
<1>6. CASE GhRefuses
  BY <1>6 DEF GhRefuses
<1>7. CASE AskGitHub
  BY <1>7 DEF AskGitHub
<1>8. CASE RecordMerged
  BY <1>8 DEF RecordMerged
<1>9. CASE Comment
  BY <1>9 DEF Comment
<1>10. CASE Switch
  BY <1>10 DEF Switch
<1>11. CASE DeleteBranch
  BY <1>11 DEF DeleteBranch
<1>12. CASE File
  BY <1>12 DEF File
<1>13. CASE Copy
  BY <1>13 DEF Copy
<1>14. CASE Clear
  BY <1>14 DEF Clear
<1> QED
  BY <1>1, <1>2, <1>3, <1>4, <1>5, <1>6, <1>7, <1>8, <1>9, <1>10, <1>11, <1>12, <1>13, <1>14
     DEF MergeStep

\* So does what others do: a kill ends the run, nobody opens the pull request again.
LEMMA RecordThroughOthers ==
    ASSUME Shapes, RecordInv,
           Die \/ AuthorCommits \/ AuthorPushes \/ AuthorUndoes \/ AuthorEdits \/ ChecksEnd
    PROVE  RecordInv'
<1>1. CASE Die
  BY <1>1 DEF Die, RecordInv, Before, After, Record, Stop, Config
<1>2. CASE AuthorPushes
  <2>1. pr'.open = pr.open
    BY <1>2 DEF AuthorPushes, Shapes, PullRequests
  <2> QED BY <1>2, <2>1 DEF AuthorPushes, Move, RecordInv, Record, Config
<1>3. CASE AuthorCommits \/ AuthorUndoes \/ AuthorEdits \/ ChecksEnd
  <2>1. UNCHANGED <<pr, pc, stage, here, archive, archives>>
    BY <1>3 DEF AuthorCommits, AuthorUndoes, AuthorEdits, ChecksEnd, Move, Record, Config
  <2> QED BY <2>1 DEF RecordInv
<1> QED
  BY <1>1, <1>2, <1>3

\* The inductive invariant in every state.
LEMMA RecordAlways == Spec => []RecordInv
<1>1. Init => RecordInv
  BY DEF Init, RecordInv, Before, After
<1>2. Shapes /\ RecordInv /\ [Next]_vars => RecordInv'
  <2> SUFFICES ASSUME Shapes, RecordInv, [Next]_vars PROVE RecordInv'
    OBVIOUS
  <2>1. CASE Next
    BY <2>1, RecordThroughMerge, RecordThroughOthers DEF Next
  <2>2. CASE UNCHANGED vars
    BY <2>2 DEF vars, RecordInv
  <2> QED
    BY <2>1, <2>2
<1> QED
  BY <1>1, <1>2, ShapesAlways, PTL DEF Spec

\* The stage says merged only of a pull request that is, however often gh, git or a kill ended
\* a merge on the way (do_merge).
THEOREM MergedHolds == Spec => []MergedIsMerged
<1>1. RecordInv => MergedIsMerged
  BY DEF RecordInv, MergedIsMerged
<1> QED
  BY <1>1, RecordAlways, PTL

\* The record of the review is in full in the working tree or in the archive, or the merge is
\* recorded and no archive was asked for (archive_review_dir, remove_tree).
THEOREM RecordHolds == Spec => []RecordKept
<1>1. RecordInv => RecordKept
  BY DEF RecordInv, RecordKept
<1> QED
  BY <1>1, RecordAlways, PTL

-----------------------------------------------------------------------------
(* A merge nobody interferes with *)

\* What holds of the commits.  Nobody takes a pushed commit back, so the pull request never has
\* more than the branch; HEAD was compared in Check and has stayed since, so what gh merges is
\* the validated tip, and a branch that is gone was at that tip.
CommitsInv ==
    calm =>
        /\ Validated \subseteq pr.tip /\ pr.tip \subseteq local.tip
        /\ pr.merged \subseteq Validated
        /\ ~pr.open => pr.merged = Validated
        /\ pc \notin {"idle", "check"} => local.tip = Validated
        /\ ~local.branch => ~pr.open /\ local.tip = Validated /\ local.on # "feature"

\* What holds of the comments and the checks.  One merge only comes as far as the comment, the
\* one that changes the stage; it has read the messages of the validated commits.
AnswersInv ==
    calm =>
        /\ fixes => fixer \in Validated
        /\ pc = "comment" => comments = 0
        /\ comments = 0 \/ (comments = 1 /\ fixer \in Validated /\ stage = "merged")
        /\ WaitsForCI /\ pc \in {"read", "merge"} => ci \in {"none", "green"}
        /\ WaitsForCI /\ ~pr.open => pr.ci \in {"none", "green"}

\* gh merges the tip it finds, once.
LEMMA MergedCommits ==
    ASSUME Shapes, CommitsInv, calm, pc = "merge"
    PROVE  /\ Merged.tip = pr.tip /\ ~Merged.open /\ Merged.merged = Validated
           /\ Merged.ci = IF pr.open THEN ci ELSE pr.ci
<1>1. pr.open => pr.tip = Validated
  BY DEF CommitsInv
<1>2. Merged.merged = IF pr.open THEN pr.tip ELSE pr.merged
  BY DEF Merged, Shapes, PullRequests
<1>3. Merged.tip = pr.tip /\ ~Merged.open /\ Merged.ci = IF pr.open THEN ci ELSE pr.ci
  BY DEF Merged, Shapes, PullRequests
<1> QED
  BY <1>1, <1>2, <1>3 DEF CommitsInv

\* A step of a merge keeps the commits.
LEMMA CommitsThroughMerge ==
    ASSUME Shapes, RecordInv, CommitsInv, Begin \/ MergeStep PROVE CommitsInv'
<1> SUFFICES ASSUME calm' PROVE CommitsInv'
  BY DEF CommitsInv
<1>0. calm
  BY DEF Begin, MergeStep, Check, Wait, ReadMessages, GhMerges, GhRefuses, AskGitHub,
         RecordMerged, Comment, Switch, DeleteBranch, File, Copy, Clear, World, Config
<1>1. CASE Begin
  BY <1>0, <1>1 DEF Begin, CommitsInv, GoTo
<1>2. CASE Check
  BY <1>0, <1>2 DEF Check, CommitsInv, GoTo, Stop, Mergeable
<1>3. CASE Wait \/ ReadMessages \/ GhRefuses \/ AskGitHub \/ RecordMerged \/ Comment \/ File
           \/ Copy \/ Clear
  <2>1. UNCHANGED <<pr, local>> /\ pc \notin {"idle", "check"}
    BY <1>3 DEF Wait, ReadMessages, GhRefuses, AskGitHub, RecordMerged, Comment, File, Copy,
                Clear
  <2> QED BY <1>0, <2>1 DEF CommitsInv
<1>4. CASE GhMerges
  <2>1. pc = "merge" /\ pr' = Merged /\ local.tip = Validated
    BY <1>0, <1>4 DEF GhMerges, CommitsInv
  <2>2. /\ pr'.tip = pr.tip /\ ~pr'.open /\ pr'.merged = Validated
    BY <1>0, <2>1, MergedCommits
  <2>3. local' = local \/ (local'.tip = local.tip /\ local'.on # "feature")
    BY <1>4 DEF GhMerges, Shapes, Repositories
  <2> QED BY <1>0, <2>1, <2>2, <2>3 DEF CommitsInv
<1>5. CASE Switch
  <2>1. local'.tip = local.tip /\ local'.branch = local.branch /\ (local.on # "feature" => local'.on # "feature")
    BY <1>5 DEF Switch, Shapes, Repositories
  <2>2. UNCHANGED pr /\ pc = "switch"
    BY <1>5 DEF Switch
  <2> QED BY <1>0, <2>1, <2>2 DEF CommitsInv
<1>6. CASE DeleteBranch
  <2>1. pc = "delete" /\ UNCHANGED pr /\ ~pr.open
    BY <1>6 DEF DeleteBranch, RecordInv, After
  <2>2. local' = local \/ (local'.tip = local.tip /\ local'.on = local.on /\ local.on # "feature")
    BY <1>6 DEF DeleteBranch, Shapes, Repositories
  <2> QED BY <1>0, <2>1, <2>2 DEF CommitsInv
<1> QED
  BY <1>1, <1>2, <1>3, <1>4, <1>5, <1>6 DEF MergeStep

\* What others do keeps the commits: they act between merges only.
LEMMA CommitsThroughOthers ==
    ASSUME Shapes, CommitsInv,
           Die \/ AuthorCommits \/ AuthorPushes \/ AuthorUndoes \/ AuthorEdits \/ ChecksEnd
    PROVE  CommitsInv'
<1> SUFFICES ASSUME calm' PROVE CommitsInv'
  BY DEF CommitsInv
<1>0. calm
  BY DEF Die, AuthorCommits, AuthorPushes, AuthorUndoes, AuthorEdits, ChecksEnd, Move, Config
<1>1. CASE Die \/ AuthorEdits \/ ChecksEnd
  <2>1. UNCHANGED <<pr, local>> /\ (pc' = pc \/ pc' = "idle")
    BY <1>1 DEF Die, AuthorEdits, ChecksEnd, Move, Stop
  <2> QED BY <1>0, <2>1 DEF CommitsInv
<1>2. CASE AuthorCommits
  <2>1. pc' = "idle" /\ local.on = "feature" /\ UNCHANGED pr
    BY <1>0, <1>2 DEF AuthorCommits, Move
  <2>2. local'.tip = Commits /\ local'.branch = local.branch /\ local'.on = local.on
    BY <1>2 DEF AuthorCommits, Shapes, Repositories
  <2>3. pr.tip \subseteq Commits
    BY DEF Shapes, PullRequests
  <2> QED BY <1>0, <2>1, <2>2, <2>3 DEF CommitsInv
<1>3. CASE AuthorPushes
  <2>1. pc' = "idle" /\ pr.open /\ local.branch /\ UNCHANGED local
    BY <1>0, <1>3 DEF AuthorPushes, Move
  <2>2. pr'.tip = pr.tip \cup local.tip /\ pr'.open = pr.open /\ pr'.merged = pr.merged
    BY <1>3 DEF AuthorPushes, Shapes, PullRequests
  <2> QED BY <1>0, <2>1, <2>2 DEF CommitsInv
<1>4. CASE AuthorUndoes
  BY <1>0, <1>4 DEF AuthorUndoes
<1> QED
  BY <1>1, <1>2, <1>3, <1>4

\* The commits in every state.
LEMMA CommitsAlways == Spec => []CommitsInv
<1>1. Init => CommitsInv
  BY DEF Init, CommitsInv
<1>2. Shapes /\ RecordInv /\ CommitsInv /\ [Next]_vars => CommitsInv'
  <2> SUFFICES ASSUME Shapes, RecordInv, CommitsInv, [Next]_vars PROVE CommitsInv'
    OBVIOUS
  <2>1. CASE Next
    BY <2>1, CommitsThroughMerge, CommitsThroughOthers DEF Next
  <2>2. CASE UNCHANGED vars
    BY <2>2 DEF vars, CommitsInv
  <2> QED
    BY <2>1, <2>2
<1> QED
  BY <1>1, <1>2, ShapesAlways, RecordAlways, PTL DEF Spec

\* A step of a merge keeps the comments and the checks.
LEMMA AnswersThroughMerge ==
    ASSUME Shapes, RecordInv, CommitsInv, AnswersInv, Begin \/ MergeStep PROVE AnswersInv'
<1> SUFFICES ASSUME calm' PROVE AnswersInv'
  BY DEF AnswersInv
<1>0. calm /\ fixer' = fixer
  BY DEF Begin, MergeStep, Check, Wait, ReadMessages, GhMerges, GhRefuses, AskGitHub,
         RecordMerged, Comment, Switch, DeleteBranch, File, Copy, Clear, World, Config
<1>1. CASE Begin
  BY <1>0, <1>1 DEF Begin, AnswersInv, GoTo, World, Record
<1>2. CASE Check
  BY <1>0, <1>2 DEF Check, AnswersInv, GoTo, Stop, World, Record
<1>3. CASE Wait
  BY <1>0, <1>3 DEF Wait, AnswersInv, GoTo, Stop, World, Record
<1>4. CASE ReadMessages
  <2>1. local.tip = Validated
    BY <1>0, <1>4 DEF ReadMessages, CommitsInv
  <2> QED BY <1>0, <1>4, <2>1 DEF ReadMessages, AnswersInv, GoTo, World, Record
<1>5. CASE GhMerges
  <2>1. pr' = Merged /\ pc = "merge" /\ pc' # "comment" /\ pc' \notin {"read", "merge"}
    BY <1>5 DEF GhMerges, GoTo
  <2>2. Merged.ci = IF pr.open THEN ci ELSE pr.ci
    BY <1>0, <2>1, MergedCommits
  <2>3. UNCHANGED <<ci, comments, fixes, stage>>
    BY <1>5 DEF GhMerges, World, Record
  <2> QED BY <1>0, <2>1, <2>2, <2>3 DEF AnswersInv
<1>6. CASE GhRefuses \/ AskGitHub \/ Switch \/ DeleteBranch \/ File \/ Copy \/ Clear
  <2>1. UNCHANGED <<pr, ci, comments, fixes, stage>> /\ pc' \notin {"read", "merge", "comment"}
    BY <1>6 DEF GhRefuses, AskGitHub, Switch, DeleteBranch, File, Copy, Clear, GoTo, Stop, World,
                Record
  <2> QED BY <1>0, <2>1 DEF AnswersInv
<1>7. CASE RecordMerged
  <2>1. UNCHANGED <<pr, ci, comments, fixes>> /\ pc' = "comment"
    BY <1>7 DEF RecordMerged, GoTo, World
  <2>2. stage = "ready_to_merge"
    BY <1>7 DEF RecordMerged, RecordInv, Before
  <2> QED BY <1>0, <2>1, <2>2 DEF AnswersInv
<1>8. CASE Comment
  <2>1. UNCHANGED <<pr, ci, fixes, stage>> /\ pc' = "switch" /\ comments = 0
    BY <1>0, <1>8 DEF Comment, AnswersInv, GoTo, World, Record
  <2>2. stage = "merged"
    BY <1>8 DEF Comment, RecordInv, After
  <2>3. comments' = 0 \/ (comments' = 1 /\ fixes)
    BY <1>0, <1>8, <2>1 DEF Comment
  <2> QED BY <1>0, <2>1, <2>2, <2>3 DEF AnswersInv
<1> QED
  BY <1>1, <1>2, <1>3, <1>4, <1>5, <1>6, <1>7, <1>8 DEF MergeStep

\* What others do keeps them: checks start again between merges only.
LEMMA AnswersThroughOthers ==
    ASSUME Shapes, AnswersInv,
           Die \/ AuthorCommits \/ AuthorPushes \/ AuthorUndoes \/ AuthorEdits \/ ChecksEnd
    PROVE  AnswersInv'
<1> SUFFICES ASSUME calm' PROVE AnswersInv'
  BY DEF AnswersInv
<1>0. calm /\ fixer' = fixer /\ UNCHANGED <<comments, fixes, stage>>
  BY DEF Die, AuthorCommits, AuthorPushes, AuthorUndoes, AuthorEdits, ChecksEnd, Move, Config,
         Record
<1>1. CASE Die \/ AuthorCommits \/ AuthorUndoes \/ AuthorEdits
  <2>1. UNCHANGED <<pr, ci>> /\ (pc' = pc \/ pc' = "idle")
    BY <1>1 DEF Die, AuthorCommits, AuthorUndoes, AuthorEdits, Move, Stop
  <2> QED BY <1>0, <2>1 DEF AnswersInv
<1>2. CASE AuthorPushes
  <2>1. pc' = "idle" /\ pr'.open = pr.open /\ pr'.ci = pr.ci
    BY <1>0, <1>2 DEF AuthorPushes, Move, Shapes, PullRequests
  <2> QED BY <1>0, <2>1 DEF AnswersInv
<1>3. CASE ChecksEnd
  BY <1>0, <1>3 DEF ChecksEnd, AnswersInv
<1> QED
  BY <1>1, <1>2, <1>3

\* The comments and the checks in every state.
LEMMA AnswersAlways == Spec => []AnswersInv
<1>1. Init => AnswersInv
  BY DEF Init, AnswersInv
<1>2. Shapes /\ RecordInv /\ CommitsInv /\ AnswersInv /\ [Next]_vars => AnswersInv'
  <2> SUFFICES ASSUME Shapes, RecordInv, CommitsInv, AnswersInv, [Next]_vars PROVE AnswersInv'
    OBVIOUS
  <2>1. CASE Next
    BY <2>1, AnswersThroughMerge, AnswersThroughOthers DEF Next
  <2>2. CASE UNCHANGED vars
    BY <2>2 DEF vars, AnswersInv
  <2> QED
    BY <2>1, <2>2
<1> QED
  BY <1>1, <1>2, ShapesAlways, RecordAlways, CommitsAlways, PTL DEF Spec

\* Of a merge nobody interferes with, however often it was tried and killed: what it merges is
\* what was validated (the HEAD check of do_merge).
THEOREM ValidatedMerged == Spec => []MergesWhatWasValidated
<1>1. CommitsInv => MergesWhatWasValidated
  BY DEF CommitsInv, MergesWhatWasValidated
<1> QED
  BY <1>1, CommitsAlways, PTL

\* The local branch is deleted only when the merge has its commits, and while it is not checked
\* out (gh's --delete-branch, and delete_local_branch after the switch).
THEOREM BranchKept == Spec => []WorkKept
<1>1. CommitsInv => WorkKept
  BY DEF CommitsInv, WorkKept
<1> QED
  BY <1>1, CommitsAlways, PTL

\* One comment on the issue at most, and only for a merge that has the commit that fixes it
\* (comment_after_merge after the recorded stage).
THEOREM OneComment == Spec => []CommentedOnce
<1>1. RecordInv /\ CommitsInv /\ AnswersInv => CommentedOnce
  <2> SUFFICES ASSUME RecordInv, CommitsInv, AnswersInv, calm, comments > 0
               PROVE  comments = 1 /\ fixer \in pr.merged
    BY DEF CommentedOnce
  <2>1. comments = 1 /\ fixer \in Validated /\ stage = "merged"
    BY DEF AnswersInv
  <2>2. pr.merged = Validated
    BY <2>1 DEF RecordInv, CommitsInv
  <2> QED BY <2>1, <2>2
<1> QED
  BY <1>1, RecordAlways, CommitsAlways, AnswersAlways, PTL

\* Nothing is merged over checks that are red or still running (wait_for_checks).
THEOREM ChecksHold == Spec => []ChecksHeeded
<1>1. AnswersInv => ChecksHeeded
  BY DEF AnswersInv, ChecksHeeded
<1> QED
  BY <1>1, AnswersAlways, PTL
-----------------------------------------------------------------------------
(* The promise of Landing *)

\* The archive is empty until a merge that is recorded files the review there, and half of a
\* copy is in it while that merge copies.
ArchiveInv ==
    /\ stage # "merged" => archive = "none"
    /\ pc \in After \ {"copy", "clear"} => archive = "none"
    /\ pc = "copy" => archives /\ archive = "part"

\* Every step keeps it.
LEMMA ArchiveStep == ASSUME RecordInv, ArchiveInv, Next PROVE ArchiveInv'
<1> USE DEF RecordInv, ArchiveInv, Before, After, Record, GoTo, Stop
<1>1. CASE Begin \/ Check \/ Wait \/ ReadMessages \/ GhMerges \/ GhRefuses \/ AskGitHub
  <2>1. UNCHANGED <<stage, archive>> /\ stage = "ready_to_merge" /\ pc' \notin After
    BY <1>1 DEF Begin, Check, Wait, ReadMessages, GhMerges, GhRefuses, AskGitHub
  <2> QED BY <2>1
<1>2. CASE RecordMerged
  BY <1>2 DEF RecordMerged
<1>3. CASE Comment \/ Switch \/ DeleteBranch
  BY <1>3 DEF Comment, Switch, DeleteBranch
<1>4. CASE File
  BY <1>4 DEF File, World, Config
<1>5. CASE Copy \/ Clear
  BY <1>5 DEF Copy, Clear
<1>6. CASE Die
  BY <1>6 DEF Die
<1>7. CASE AuthorCommits \/ AuthorPushes \/ AuthorUndoes \/ AuthorEdits \/ ChecksEnd
  BY <1>7 DEF AuthorCommits, AuthorPushes, AuthorUndoes, AuthorEdits, ChecksEnd, Move, Config
<1> QED
  BY <1>1, <1>2, <1>3, <1>4, <1>5, <1>6, <1>7 DEF Next, MergeStep

\* It holds in every state.
LEMMA ArchiveAlways == Spec => []ArchiveInv
<1>1. Init => ArchiveInv
  BY DEF Init, ArchiveInv, After
<1>2. RecordInv /\ ArchiveInv /\ [Next]_vars => ArchiveInv'
  <2>1. ArchiveInv /\ UNCHANGED vars => ArchiveInv'
    BY DEF vars, ArchiveInv
  <2> QED BY <2>1, ArchiveStep
<1> QED
  BY <1>1, <1>2, RecordAlways, PTL DEF Spec

\* What Landing sees.
seen == <<archives, merged, told, branch, record, comments, at>>

\* The steps up to the merge: it begins on a whole record, and gh merges or finds it merged.
LEMMA TryingMaps ==
    ASSUME Shapes, RecordInv,
           Begin \/ Check \/ Wait \/ ReadMessages \/ GhMerges \/ GhRefuses \/ AskGitHub
    PROVE  Promise!Begin \/ Promise!Merge \/ Promise!Leave \/ UNCHANGED seen
<1>1. UNCHANGED <<archives, stage, here, archive, comments>>
  BY DEF Begin, Check, Wait, ReadMessages, GhMerges, GhRefuses, AskGitHub, World, Config, Record
<1>2. UNCHANGED <<archives, told, record, comments>>
  BY <1>1 DEF told, record
<1>3. CASE Begin
  <2>1. at = "rest" /\ at' = "trying" /\ ~told /\ UNCHANGED <<pr, local>>
    BY <1>3 DEF Begin, GoTo, at, told
  <2>2. here = "full"
    BY <1>3 DEF Begin, RecordInv
  <2>3. "here" \in record
    BY <2>2 DEF record
  <2> QED BY <1>2, <2>1, <2>3 DEF Promise!Begin, merged, branch
<1>4. CASE Check \/ Wait \/ ReadMessages \/ GhRefuses \/ AskGitHub
  <2>1. at = "trying" /\ at' \in {"trying", "rest"} /\ UNCHANGED <<pr, local>>
    BY <1>4 DEF Check, Wait, ReadMessages, GhRefuses, AskGitHub, GoTo, Stop, at
  <2> QED BY <1>2, <2>1 DEF Promise!Leave, merged, branch, seen
<1>5. CASE GhMerges
  <2>1. at = "trying" /\ at' = "trying"
    BY <1>5 DEF GhMerges, GoTo, at
  <2>2. pr' = Merged /\ ~Merged.open
    BY <1>5, MergedShape DEF GhMerges
  <2>3. branch' \in {branch, FALSE}
    BY <1>5 DEF GhMerges, Shapes, Repositories, branch
  <2> QED BY <1>2, <2>1, <2>2, <2>3 DEF Promise!Merge, merged
<1> QED
  BY <1>3, <1>4, <1>5

\* The stage, the comment and the branch: the pull request is merged when the stage says so.
LEMMA ToldMaps ==
    ASSUME Shapes, RecordInv, RecordMerged \/ Comment \/ Switch \/ DeleteBranch
    PROVE  Promise!Tell \/ Promise!Comment \/ Promise!DropBranch \/ UNCHANGED seen
<1>1. UNCHANGED <<archives, pr, here, archive>>
  BY DEF RecordMerged, Comment, Switch, DeleteBranch, World, Config, Record
<1>2. UNCHANGED <<archives, merged, record>>
  BY <1>1 DEF merged, record
<1>3. CASE RecordMerged
  <2>1. at = "trying" /\ at' = "told" /\ told' /\ UNCHANGED <<local, comments>>
    BY <1>3 DEF RecordMerged, GoTo, at, told
  <2>2. merged
    BY <1>3 DEF RecordMerged, RecordInv, merged
  <2> QED BY <1>2, <2>1, <2>2 DEF Promise!Tell, branch, told
<1>4. CASE Comment
  <2>1. at = "told" /\ at' = "after" /\ UNCHANGED <<local, stage>>
    BY <1>4 DEF Comment, GoTo, at, Record
  <2>2. \E n \in 0 .. 2 : comments' = comments + n
    BY <1>4 DEF Comment
  <2> QED BY <1>2, <2>1, <2>2 DEF Promise!Comment, branch, told
<1>5. CASE Switch
  <2>1. at = "after" /\ at' = "after" /\ UNCHANGED <<stage, comments>>
    BY <1>5 DEF Switch, GoTo, at, Record
  <2>2. branch' = branch
    BY <1>5 DEF Switch, Shapes, Repositories, branch
  <2> QED BY <1>2, <2>1, <2>2 DEF seen, told
<1>6. CASE DeleteBranch
  <2>1. at = "after" /\ at' = "after" /\ UNCHANGED <<stage, comments>>
    BY <1>6 DEF DeleteBranch, GoTo, at, Record
  <2>2. branch' = FALSE \/ branch' = branch
    BY <1>6 DEF DeleteBranch, Shapes, Repositories, branch
  <2> QED BY <1>2, <2>1, <2>2 DEF Promise!DropBranch, seen, told
<1> QED
  BY <1>3, <1>4, <1>5, <1>6

\* The filing of the record: nothing is dropped here that the archive should have and has not.
LEMMA FilingMaps ==
    ASSUME RecordInv, ArchiveInv, File \/ Copy \/ Clear
    PROVE  Promise!File \/ Promise!Leave \/ UNCHANGED seen
<1>1. UNCHANGED <<archives, pr, local, stage, comments>>
  BY DEF File, Copy, Clear, World, Config
<1>2. UNCHANGED <<archives, merged, told, branch, comments>>
  BY <1>1 DEF merged, told, branch
<1>3. at = "after" /\ at' \in {"after", "rest"}
  BY DEF File, Copy, Clear, GoTo, Stop, at
<1>4. CASE record' = record
  BY <1>2, <1>3, <1>4 DEF Promise!Leave, seen
<1>5. CASE archives /\ record' \in {{"archive"}, record \cup {"archive"}}
  BY <1>2, <1>3, <1>5 DEF Promise!File
<1>6. CASE (archives => "archive" \in record) /\ record' = record \ {"here"}
  BY <1>2, <1>3, <1>6 DEF Promise!File
<1>7. CASE File
  <2>1. archive = "none"
    BY <1>7 DEF File, ArchiveInv, After
  <2>2. CASE UNCHANGED <<here, archive>> \/ (archive' = "part" /\ UNCHANGED here)
    BY <1>4, <2>1, <2>2 DEF record
  <2>3. CASE archives /\ here' = "none" /\ archive' = "full"
    BY <1>5, <2>3 DEF record
  <2> QED BY <1>7, <2>2, <2>3 DEF File
<1>8. CASE Copy
  <2>1. archive = "part" /\ archives /\ UNCHANGED here
    BY <1>8 DEF Copy, ArchiveInv
  <2>2. CASE archive' = "full"
    BY <1>5, <2>1, <2>2 DEF record
  <2>3. CASE archive' \in {"none", "part"}
    BY <1>4, <2>1, <2>3 DEF record
  <2> QED BY <1>8, <2>2, <2>3 DEF Copy
<1>9. CASE Clear
  <2>1. (archives => archive = "full") /\ UNCHANGED archive
    BY <1>9 DEF Clear, RecordInv
  <2>2. CASE here' = here
    BY <1>4, <2>1, <2>2 DEF record
  <2>3. CASE here' # here
    <3>1. here' # "full"
      BY <1>9, <2>3 DEF Clear
    <3>2. record' = record \ {"here"} /\ (archives => "archive" \in record)
      BY <2>1, <3>1 DEF record
    <3> QED BY <1>6, <3>2
  <2> QED BY <2>2, <2>3
<1> QED
  BY <1>7, <1>8, <1>9

\* A kill is the end of a merge; what people do is not seen.
LEMMA OthersUnseen ==
    ASSUME Shapes,
           Die \/ AuthorCommits \/ AuthorPushes \/ AuthorUndoes \/ AuthorEdits \/ ChecksEnd
    PROVE  Promise!Leave \/ UNCHANGED seen
<1>1. UNCHANGED <<archives, stage, here, archive, comments>>
  BY DEF Die, AuthorCommits, AuthorPushes, AuthorUndoes, AuthorEdits, ChecksEnd, Move, Config,
         Record
<1>2. UNCHANGED <<archives, told, record, comments>>
  BY <1>1 DEF told, record
<1>3. UNCHANGED <<merged, branch>>
  <2>1. pr'.open = pr.open
    BY DEF Die, AuthorCommits, AuthorPushes, AuthorUndoes, AuthorEdits, ChecksEnd, Shapes,
           PullRequests
  <2>2. local'.branch = local.branch
    BY DEF Die, AuthorCommits, AuthorPushes, AuthorUndoes, AuthorEdits, ChecksEnd, Shapes,
           Repositories
  <2> QED BY <2>1, <2>2 DEF merged, branch
<1>4. CASE Die
  <2>1. at # "rest" /\ at' = "rest"
    BY <1>4 DEF Die, Stop, at
  <2> QED BY <1>2, <1>3, <2>1 DEF Promise!Leave
<1>5. CASE AuthorCommits \/ AuthorPushes \/ AuthorUndoes \/ AuthorEdits \/ ChecksEnd
  <2>1. pc' = pc
    BY <1>5 DEF AuthorCommits, AuthorPushes, AuthorUndoes, AuthorEdits, ChecksEnd, Move
  <2> QED BY <1>2, <1>3, <2>1 DEF seen, at
<1> QED
  BY <1>4, <1>5

\* However often merge is tried, killed or disturbed, it keeps the promise of Landing (cmd_merge,
\* do_merge, comment_after_merge, archive_review_dir, remove_tree).
THEOREM KeepsLandingHolds == Spec => KeepsLanding
<1>1. Init => Promise!Init
  BY DEF Init, Promise!Init, merged, told, branch, record, at
<1>2. Shapes /\ RecordInv /\ ArchiveInv /\ [Next]_vars => [Promise!Next]_seen
  <2> SUFFICES ASSUME Shapes, RecordInv, ArchiveInv, [Next]_vars
               PROVE  Promise!Next \/ UNCHANGED seen
    OBVIOUS
  <2>1. CASE Begin \/ Check \/ Wait \/ ReadMessages \/ GhMerges \/ GhRefuses \/ AskGitHub
    BY <2>1, TryingMaps DEF Promise!Next
  <2>2. CASE RecordMerged \/ Comment \/ Switch \/ DeleteBranch
    BY <2>2, ToldMaps DEF Promise!Next
  <2>3. CASE File \/ Copy \/ Clear
    BY <2>3, FilingMaps DEF Promise!Next
  <2>4. CASE Die \/ AuthorCommits \/ AuthorPushes \/ AuthorUndoes \/ AuthorEdits \/ ChecksEnd
    BY <2>4, OthersUnseen DEF Promise!Next
  <2>5. CASE UNCHANGED vars
    BY <2>5 DEF vars, seen, merged, told, branch, record, at
  <2> QED
    BY <2>1, <2>2, <2>3, <2>4, <2>5 DEF Next, MergeStep
<1> QED
  BY <1>1, <1>2, ShapesAlways, RecordAlways, ArchiveAlways, PTL
     DEF Spec, KeepsLanding, Promise!Spec, seen

=============================================================================
