----------------------------- MODULE MCPipeline -----------------------------
(***************************************************************************)
(* Pipeline on small instances: each cfg gives the constants their values. *)
(* Below are further statements of the documentation that the code does    *)
(* not keep.  No run lists them; as an INVARIANT of a cfg, each shows how. *)
(***************************************************************************)
EXTENDS Pipeline

\* _rerun_bookkeeping refuses a rerun with no change: after CHANGES_REQUESTED no session starts
\* on the very HEAD that round left.
RerunNeedsChange ==
    pc = "reviewing" /\ st.rounds # <<>> =>
        LET last == Last(st.rounds)
        IN  last.verdict = "CHANGES_REQUESTED" =>
                ctxHead # IF last.test_commit # 0 THEN last.test_commit ELSE last.head_sha

\* docs/workflow.md: an APPROVE that was never validated is validated by the next run when HEAD
\* is still where that round left it, so the review is not paid twice.
ApprovedNotPaidTwice ==
    pc = "reviewing" /\ st.rounds # <<>> =>
        LET last == Last(st.rounds)
            left == IF last.test_commit # 0 THEN last.test_commit ELSE last.head_sha
        IN  ~ /\ last.verdict = "APPROVE" /\ left = ctxHead
              /\ \A i \in DOMAIN st.validations : st.validations[i].head_sha # left

\* preflight: rebase onto the base and run again.  That run's push is one the remote takes.
RebasedPushAccepted ==
    pc = "branch_push" /\ TreeUnmoved => PushAccepted(st.force_push)

\* docs/side-effects.md: the review starts over when a rewrite gave the reviewer's commits new
\* ids, that is, when a commit of a recorded round left the branch.
RestartOnlyAfterRewrite ==
    pc = "bookkeeping" /\ Rewritten(st) =>
        \E i \in DOMAIN st.rounds :
            st.rounds[i].test_commit # 0 /\ ~HeadContains(st.rounds[i].test_commit)

\* The head that is told READY TO MERGE is the one GitHub has; it need not be when the author
\* commits between the check and the push, and takes the commit back (RacyAuthor, "undo").
ReadyIsPublished == Ready => remote # <<>> /\ disk.head_sha = HeadOf(remote)

\* docs/side-effects.md: merge is refused unless the last run ended READY TO MERGE and HEAD
\* has not moved.  The gate is cmd_merge's, with do_merge's check of HEAD.
MergeGate == Recorded /\ disk.stage = "ready_to_merge" /\ disk.head_sha = Head_
MergeOnlyWhenReady == pc = "idle" /\ MergeGate => lastEnd = "result" /\ disk.last_exit = 0
=============================================================================
