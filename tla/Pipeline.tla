------------------------------ MODULE Pipeline ------------------------------
(***************************************************************************)
(* One branch checked out in one working tree, and the runs of revali over *)
(* it: preflight, draft PR, reviewer round, validation, result.  A run     *)
(* works on a State object in memory (st), writes it to state.json (disk)  *)
(* at fixed points, commits and pushes on the same branch the author works *)
(* on, and can be killed, stopped or hit by an exception between any two   *)
(* of these steps.  The next run starts from whatever disk, branch and     *)
(* working tree were left.  At most one run is live: the lock files that   *)
(* see to that are the subject of module RunLocks.                         *)
(***************************************************************************)
EXTENDS Naturals, Integers, Sequences, FiniteSets, SequencesExt

CONSTANTS
    MaxFixes,       \* [review] max_fixes
    HasSuite,       \* the project has a `test` step and the change is not kind docs
    ReuseBaseline,  \* [validate] reuse_baseline
    Ignored,        \* git already ignores the state directory on the base branch
    RacyAuthor,     \* the author may move HEAD between a check and the effect it guards
    NoState,        \* there is no state.json
    Moves,          \* what the author does to the branch besides being behind its base
    MaxRuns,        \* bound: runs started
    MaxCommits,     \* bound: commit ids handed out
    MaxFaults       \* bound: kills, stops and exceptions

ASSUME PipelineAssumption ==
    /\ MaxFixes \in Nat /\ MaxRuns \in Nat /\ MaxCommits \in Nat /\ MaxFaults \in Nat
    /\ {HasSuite, ReuseBaseline, Ignored, RacyAuthor} \subseteq BOOLEAN
    /\ Moves \subseteq {"commit", "rebase", "amend", "squash", "undo"}

VARIABLES
    local,    \* the commits of the branch beyond its base, oldest first
    remote,   \* the same on GitHub; <<>> before the first push
    behind,   \* the base has moved on and is no ancestor of HEAD
    drafts,   \* uncommitted reviewer files lie under test_dir
    disk,     \* state.json
    pr,       \* the pull request: none, draft or ready
    pc,       \* where the live run is; idle when there is none
    st,       \* the live run's State object
    ctxHead,  \* ctx.head_sha, the HEAD the run believes in
    round,    \* the review round in progress: what _run_round will record
    resume,   \* resume_round > 0
    dry,      \* run --dry-run
    suite,    \* the validation that goes on is to run the existing suite
    tested,   \* the HEAD the running sandbox session cloned
    stop,     \* exit code of the Stop being raised
    nextId,   \* next fresh commit id
    runs, faults,
    passed,   \* history: commits on which the existing suite passed in a sandbox
    cleared,  \* history: commits a sandbox session cloned for a validation that passed
    asked,    \* history: the HEAD an exit 2 asked a fix for; 0 once a session has started since
    cycles,   \* history: reviewer sessions started on another HEAD after such an exit 2
    lastEnd   \* history: how the last run ended, or that it has no result yet

repoVars == <<local, remote, behind, nextId>>
runVars  == <<pc, st, ctxHead, round, resume, dry, suite, tested, stop>>
history  == <<passed, cleared, asked, cycles, lastEnd>>
vars     == <<repoVars, drafts, disk, pr, runVars, runs, faults, history>>

-----------------------------------------------------------------------------
(* Data *)

Stages == {"preflight", "pr", "review", "validate", "ready_to_merge",
           "needs_action", "needs_human", "error", "stopped"}
TerminalStages == {"ready_to_merge", "needs_action", "needs_human", "error", "stopped"}
Verdicts == {"APPROVE", "CHANGES_REQUESTED", "NEEDS_INFO"}
Results == {"PASS", "FAIL"}

Authors == {"author", "revali", "reviewer"}  \* reviewer: carries the Revali-Round trailer
Commit == [id : Nat, by : Authors]
Round == [verdict : Verdicts, head_sha : Nat, test_commit : Nat]  \* 0: no test commit
InProgress == [verdict : Verdicts, head_sha : Nat, test_commit : Nat, files : BOOLEAN]
Validation == [round : Nat, result : Results, head_sha : Nat]

State == [stage : Stages, last_exit : -1..3,
          rounds : Seq(Round), validations : Seq(Validation),
          fixes : Nat, head_sha : Nat, baseline_sha : Nat, test_commits : SUBSET Nat,
          last_verdict : Verdicts \cup Results \cup {""},
          needs_info_used : BOOLEAN, force_push : BOOLEAN,
          reviewer_running : BOOLEAN, pending : BOOLEAN, pr_number : {0, 1}]

FreshState ==
    [stage |-> "preflight", last_exit |-> -1, rounds |-> <<>>, validations |-> <<>>,
     fixes |-> 0, head_sha |-> 0, baseline_sha |-> 0, test_commits |-> {},
     last_verdict |-> "", needs_info_used |-> FALSE, force_push |-> FALSE,
     reviewer_running |-> FALSE, pending |-> FALSE, pr_number |-> 0]

NoRound == [verdict |-> "NEEDS_INFO", head_sha |-> 0, test_commit |-> 0, files |-> FALSE]

Ids(branch) == {branch[i].id : i \in DOMAIN branch}
ReviewerIds(branch) ==
    {branch[i].id : i \in {j \in DOMAIN branch : branch[j].by = "reviewer"}}
HeadOf(branch) == branch[Len(branch)].id
Head_ == HeadOf(local)

\* gitops.head_contains
HeadContains(c) == c \in Ids(local)

\* (mutant) the exit code is not looked at: a death in preflight keeps the previous stage
RunDiedByStage(s) == s.stage \notin TerminalStages /\ s.stage # "preflight"

\* state.run_died: with no live process, the state file holds no result
RunDied(s) == s.last_exit < 0 \/ (s.stage \notin TerminalStages /\ s.stage # "preflight")

\* the absence of a state file is no state
ASSUME NoStateAssumption == NoState \notin State

Init ==
    /\ local = <<[id |-> 1, by |-> "author"]>>
    /\ remote = <<>> /\ behind = FALSE /\ nextId = 2
    /\ drafts = FALSE /\ disk = NoState /\ pr = "none"
    /\ pc = "idle" /\ st = FreshState /\ ctxHead = 0 /\ round = NoRound
    /\ resume = FALSE /\ dry = FALSE /\ suite = FALSE /\ tested = 0 /\ stop = 0
    /\ runs = 0 /\ faults = 0
    /\ passed = {} /\ cleared = {} /\ asked = 0 /\ cycles = 0 /\ lastEnd = "none"

-----------------------------------------------------------------------------
(* Helpers *)

Save(s) == st' = s /\ disk' = s

\* State.set_stage with an exit code, and the flags an unfinished session leaves, taken back
SetStage(s, stage, code) == [s EXCEPT !.stage = stage, !.last_exit = code]
SessionForgotten(s) == [s EXCEPT !.reviewer_running = FALSE, !.pending = FALSE]

GoTo(step) == pc' = step

\* raise Stop(code): nothing but the control moves until _record_stop
RaiseStop(code) ==
    /\ GoTo("stopping") /\ stop' = code

\* (mutant) only the branch name is compared
BranchUnmoved == TRUE

\* check_tree_unmoved
TreeUnmoved == Head_ = ctxHead

\* the run's volatile part, once the process is gone
Gone ==
    /\ pc' = "idle" /\ st' = FreshState /\ ctxHead' = 0 /\ round' = NoRound
    /\ resume' = FALSE /\ dry' = FALSE /\ suite' = FALSE /\ tested' = 0 /\ stop' = 0

\* the fields an ordinary step of the run leaves alone
Calm == UNCHANGED <<behind, dry, suite, runs, faults, cleared, asked, cycles, lastEnd>>
CalmBut == UNCHANGED <<behind, dry, suite, runs, faults>>

-----------------------------------------------------------------------------
(* The run, step by step *)

\* _run_foreground and the head of _pipeline: load, mark "no result yet", save
StartRun(d) ==
    /\ pc = "idle" /\ runs < MaxRuns
    /\ LET s == IF disk = NoState THEN FreshState ELSE disk
       IN  Save([s EXCEPT !.last_exit = -1])
    /\ dry' = d /\ runs' = runs + 1
    /\ GoTo("started")
    /\ lastEnd' = "running"
    /\ UNCHANGED <<repoVars, drafts, pr, ctxHead, round, resume, suite, tested, stop, faults,
                   passed, cleared, asked, cycles>>

\* review.interruption_cleanup: what an unfinished session left behind goes first
CleanUp ==
    /\ pc = "started"
    /\ IF st.reviewer_running /\ ~dry
       THEN /\ drafts' = FALSE
            /\ Save(SessionForgotten(st))
       ELSE UNCHANGED <<drafts, st, disk>>
    /\ GoTo("checks")
    /\ Calm
    /\ UNCHANGED <<local, remote, nextId, pr, ctxHead, round, resume, tested, stop, passed>>

\* preflight refuses: locate, check_tree, check_github, check_runner, check_secrets (1),
\* check_base, check_diff_size, check_lint (2)
PreflightRefuses ==
    /\ pc \in {"started", "checks"}
    /\ \E code \in {1, 2} : RaiseStop(code)
    /\ Calm
    /\ UNCHANGED <<local, remote, nextId, drafts, disk, pr, st, ctxHead, round, resume, tested,
                   passed>>

\* preflight accepts the tree: check_tree tolerates the pending files, check_base reads HEAD
PreflightPasses ==
    /\ pc = "checks"
    /\ drafts => st.pending
    /\ ~behind
    /\ ctxHead' = Head_
    /\ GoTo(IF st.rounds = <<>> /\ ~dry /\ HasSuite THEN "baseline" ELSE "bookkeeping")
    /\ Calm
    /\ UNCHANGED <<local, remote, nextId, drafts, disk, pr, st, round, resume, tested, stop,
                   passed>>

\* validate.baseline: the sandbox clones HEAD as it is by then ...
BaselineClones ==
    /\ pc = "baseline" /\ tested = 0
    /\ tested' = Head_
    /\ Calm
    /\ UNCHANGED <<local, remote, nextId, drafts, disk, pr, pc, st, ctxHead, round, resume,
                   stop, passed>>

\* ... and its verdict is booked for the HEAD preflight read
BaselineEnds ==
    /\ pc = "baseline" /\ tested # 0
    /\ \/ /\ Save([st EXCEPT !.baseline_sha = ctxHead])
          /\ passed' = passed \cup {tested}
          /\ GoTo("bookkeeping") /\ tested' = 0
          /\ UNCHANGED stop
       \/ /\ RaiseStop(1)
          /\ UNCHANGED <<st, disk, passed, tested>>
    /\ Calm
    /\ UNCHANGED <<local, remote, nextId, drafts, pr, ctxHead, round, resume>>

\* first part of _rerun_bookkeeping: a recorded test commit left HEAD, the review restarts
Rewritten(s) == s.rounds # <<>> /\ \E c \in s.test_commits : ~HeadContains(c)

\* (mutant) the restart forgets that the remote still has the dropped commits
RestartedUnforced(s) ==
    IF Rewritten(s)
    THEN [s EXCEPT !.rounds = <<>>, !.test_commits = {}, !.fixes = 0,
                   !.needs_info_used = FALSE, !.last_verdict = "", !.baseline_sha = 0]
    ELSE s

Restarted(s) ==
    IF Rewritten(s)
    THEN [s EXCEPT !.rounds = <<>>, !.test_commits = {}, !.fixes = 0,
                   !.needs_info_used = FALSE, !.last_verdict = "",
                   !.baseline_sha = 0, !.force_push = TRUE]
    ELSE s

\* a rerun after CHANGES_REQUESTED or FAIL is a fix cycle
AwaitsFix(s) ==
    /\ s.rounds # <<>> /\ s.stage = "needs_action"
    /\ s.last_verdict \in {"CHANGES_REQUESTED", "FAIL"}

CountedFix(s) == IF AwaitsFix(s) THEN [s EXCEPT !.fixes = @ + 1] ELSE s

\* (mutant) the trailers are not read back
NotRecovered(s) == s

\* review.recover_test_ownership: the trailer commits of the branch are read back
Recovered(s) == [s EXCEPT !.test_commits = ReviewerIds(local) \cup @]

\* (mutants) HEAD is not compared; whether the round was validated is not looked at
AwaitsWherever(s) ==
    /\ s.rounds # <<>> /\ Last(s.rounds).verdict = "APPROVE"
    /\ \A i \in DOMAIN s.validations : s.validations[i].round # Len(s.rounds)

AwaitsAgain(s) ==
    /\ s.rounds # <<>>
    /\ LET last == Last(s.rounds)
       IN  /\ last.verdict = "APPROVE"
           /\ ctxHead = IF last.test_commit # 0 THEN last.test_commit ELSE last.head_sha

\* _approved_round_awaiting_validation
AwaitsValidation(s) ==
    /\ s.rounds # <<>>
    /\ LET last == Last(s.rounds)
       IN  /\ last.verdict = "APPROVE"
           /\ \A i \in DOMAIN s.validations : s.validations[i].round # Len(s.rounds)
           /\ ctxHead = IF last.test_commit # 0 THEN last.test_commit ELSE last.head_sha

\* _rerun_bookkeeping, then _stages up to the recorded preflight stage (or the dry run's end)
Bookkeeping ==
    /\ pc = "bookkeeping"
    /\ LET restarted == Restarted(st)
           booked == Recovered(CountedFix(restarted))
       IN  IF AwaitsFix(restarted) /\ ctxHead = restarted.head_sha
           THEN /\ RaiseStop(2)             \* nothing changed since the last review
                /\ st' = restarted
                /\ UNCHANGED <<disk, resume, lastEnd>>
           ELSE IF booked.fixes > MaxFixes
           THEN /\ RaiseStop(3)
                /\ st' = booked
                /\ UNCHANGED <<disk, resume, lastEnd>>
           ELSE /\ resume' = AwaitsValidation(booked)
                /\ Save([booked EXCEPT !.head_sha = ctxHead, !.stage = "preflight",
                                       !.last_exit = IF dry THEN 0 ELSE @])
                /\ GoTo(IF dry THEN "closing" ELSE "pr")
                /\ lastEnd' = IF dry THEN "result" ELSE lastEnd
                /\ UNCHANGED stop
    /\ asked' = IF Rewritten(st) THEN 0 ELSE asked
    /\ cycles' = IF Rewritten(st) THEN 0 ELSE cycles
    /\ CalmBut
    /\ UNCHANGED <<local, remote, nextId, drafts, pr, ctxHead, round, tested, passed, cleared>>

\* ensure_gitignore: the line is there already
StateDirIgnored == Ignored \/ \E i \in DOMAIN local : local[i].by = "revali"

\* stage pr; pr.ensure_pr: check_tree_unmoved, ...
EnsureIgnored ==
    /\ pc = "pr"
    /\ Save([st EXCEPT !.stage = "pr"])
    /\ IF TreeUnmoved
       THEN GoTo(IF StateDirIgnored THEN "pushing" ELSE "ignoring") /\ UNCHANGED stop
       ELSE RaiseStop(1)
    /\ Calm
    /\ UNCHANGED <<local, remote, nextId, drafts, pr, ctxHead, round, resume, tested, passed>>

\* ... the commit of the .gitignore line, which a hook may refuse, ...
CommitIgnored ==
    /\ pc = "ignoring"
    /\ \/ /\ local' = Append(local, [id |-> nextId, by |-> "revali"])
          /\ nextId' = nextId + 1 /\ ctxHead' = nextId
          /\ GoTo("pushing")
          /\ UNCHANGED stop
       \/ RaiseStop(1) /\ UNCHANGED <<local, nextId, ctxHead>>
    /\ Calm
    /\ UNCHANGED <<remote, drafts, disk, pr, st, round, resume, tested, passed>>

\* ... and, like _stages after a test commit, check_tree_unmoved before a push
CheckBeforePush ==
    /\ pc \in {"pushing", "push_tests"}
    /\ IF TreeUnmoved
       THEN GoTo(IF pc = "pushing" THEN "branch_push" ELSE "tests_push") /\ UNCHANGED stop
       ELSE RaiseStop(1)
    /\ Calm
    /\ UNCHANGED <<local, remote, nextId, drafts, disk, pr, st, ctxHead, round, resume, tested,
                   passed>>

\* git push accepts a fast-forward, or anything with --force-with-lease
PushAccepted(force) == force \/ IsPrefix(remote, local)

\* pr.ensure_pr: the push of the branch as it is by then
PushBranch ==
    /\ pc = "branch_push"
    /\ \/ /\ PushAccepted(st.force_push)
          /\ remote' = local
          /\ GoTo("pushed")
          /\ UNCHANGED stop
       \/ /\ RaiseStop(1)        \* rejected, or no network
          /\ UNCHANGED remote
    /\ Calm
    /\ UNCHANGED <<local, nextId, drafts, disk, pr, st, ctxHead, round, resume, tested, passed>>

\* pr.ensure_pr: the flag is cleared, the open PR is reused or a draft is created;
\* a closed PR or a failing gh ends the run
EnsurePR ==
    /\ pc = "pushed"
    /\ \/ /\ pr' = IF pr = "none" THEN "draft" ELSE pr
          /\ disk' = [st EXCEPT !.force_push = FALSE, !.pr_number = 1]
          /\ st' = [disk' EXCEPT !.head_sha = ctxHead]   \* saved with the next stage
          /\ GoTo(IF resume THEN "approved" ELSE "review")
          /\ UNCHANGED stop
       \/ /\ Save([st EXCEPT !.force_push = FALSE])
          /\ RaiseStop(1)
          /\ UNCHANGED pr
    /\ Calm
    /\ UNCHANGED <<local, remote, nextId, drafts, ctxHead, round, resume, tested, passed>>

\* (mutant) the marks are taken back, the files stay
RoundStopsMessily ==
    /\ UNCHANGED drafts
    /\ Save(SessionForgotten(st))
    /\ RaiseStop(1)

\* run_round's handler of Stop: discard_round_leftovers, clear the flag, save, re-raise
RoundStops ==
    /\ drafts' = FALSE
    /\ Save(SessionForgotten(st))
    /\ RaiseStop(1)

\* stage review, check_tree_unmoved, reviewer_running on disk before the session is spawned
BeginReview ==
    /\ pc = "review"
    /\ Save([st EXCEPT !.stage = "review", !.reviewer_running = TRUE])
    /\ GoTo(IF TreeUnmoved THEN "reviewing" ELSE "abandon")
    /\ asked' = IF TreeUnmoved THEN 0 ELSE asked
    /\ cycles' = IF TreeUnmoved /\ asked \notin {0, ctxHead} THEN cycles + 1 ELSE cycles
    /\ CalmBut
    /\ UNCHANGED <<local, remote, nextId, drafts, pr, ctxHead, round, resume, tested, stop,
                   passed, cleared, lastEnd>>

\* the session writes (or rewrites, or deletes) its test files while it runs
ReviewerWrites ==
    /\ pc = "reviewing"
    /\ drafts' = ~drafts
    /\ Calm
    /\ UNCHANGED <<local, remote, nextId, disk, pr, pc, st, ctxHead, round, resume, tested,
                   stop, passed>>

\* the session fails, its answer or its files are refused twice (spawn_reviewer,
\* guard_worktree, restore_protected_tests, lint_check, smoke_run), or the tree moved
ReviewFails ==
    /\ pc \in {"reviewing", "abandon"}
    /\ RoundStops
    /\ Calm
    /\ UNCHANGED <<local, remote, nextId, pr, ctxHead, round, resume, tested, passed>>

\* compute_verdict: a second NEEDS_INFO counts as CHANGES_REQUESTED
ReviewEnds ==
    /\ pc = "reviewing"
    /\ \E v \in Verdicts :
         /\ v = "NEEDS_INFO" => ~st.needs_info_used
         /\ round' = [verdict |-> v, head_sha |-> ctxHead, test_commit |-> 0, files |-> drafts]
         /\ GoTo(IF drafts /\ v # "NEEDS_INFO" THEN "commit" ELSE "record")
    /\ Calm
    /\ UNCHANGED <<local, remote, nextId, drafts, disk, pr, st, ctxHead, resume, tested, stop,
                   passed>>

\* (mutant) the run waits for the branch to come back instead of giving up
WaitBeforeCommit ==
    /\ pc = "commit" /\ TreeUnmoved
    /\ GoTo("committing")
    /\ Calm
    /\ UNCHANGED <<local, remote, nextId, drafts, disk, pr, st, ctxHead, round, resume, tested,
                   stop, passed>>

\* check_tree_unmoved before commit_tests
CheckBeforeCommit ==
    /\ pc = "commit"
    /\ GoTo(IF TreeUnmoved THEN "committing" ELSE "abandon")
    /\ Calm
    /\ UNCHANGED <<local, remote, nextId, drafts, disk, pr, st, ctxHead, round, resume, tested,
                   stop, passed>>

\* commit_tests, with the trailer
CommitTests ==
    /\ pc = "committing"
    /\ \/ /\ local' = Append(local, [id |-> nextId, by |-> "reviewer"])
          /\ nextId' = nextId + 1
          /\ drafts' = FALSE
          /\ ctxHead' = nextId
          /\ round' = [round EXCEPT !.test_commit = nextId]
          /\ st' = [st EXCEPT !.test_commits = @ \cup {nextId}]
          /\ GoTo("record")
          /\ UNCHANGED <<disk, stop>>
       \/ /\ RoundStops          \* a commit hook refused it
          /\ UNCHANGED <<local, nextId, ctxHead, round>>
    /\ Calm
    /\ UNCHANGED <<remote, pr, resume, tested, passed>>

\* (mutant) the question is not remembered
WithRoundOnly(s, r) ==
    [s EXCEPT !.rounds = Append(@, [verdict |-> r.verdict, head_sha |-> r.head_sha,
                                    test_commit |-> r.test_commit]),
              !.last_verdict = r.verdict,
              !.pending = (r.verdict = "NEEDS_INFO" /\ r.files),
              !.reviewer_running = FALSE]

\* the tail of _run_round: the round, the verdict and the pending files are saved at once
WithRound(s, r) ==
    [s EXCEPT !.rounds = Append(@, [verdict |-> r.verdict, head_sha |-> r.head_sha,
                                    test_commit |-> r.test_commit]),
              !.last_verdict = r.verdict,
              !.pending = (r.verdict = "NEEDS_INFO" /\ r.files),
              !.needs_info_used = @ \/ r.verdict = "NEEDS_INFO",
              !.reviewer_running = FALSE]

RecordRound ==
    /\ pc = "record"
    /\ Save(WithRound(st, round))
    /\ GoTo(IF round.test_commit # 0 THEN "push_tests" ELSE "outcome")
    /\ Calm
    /\ UNCHANGED <<local, remote, nextId, drafts, pr, ctxHead, round, resume, tested, stop,
                   passed>>

\* (mutant) the state keeps naming the HEAD of before the test commit
PushTestsUnnamed ==
    /\ pc = "tests_push"
    /\ \/ /\ PushAccepted(FALSE)
          /\ remote' = local
          /\ GoTo("outcome")
          /\ UNCHANGED <<st, stop>>
       \/ /\ RaiseStop(1)
          /\ UNCHANGED <<remote, st>>
    /\ Calm
    /\ UNCHANGED <<local, nextId, drafts, disk, pr, ctxHead, round, resume, tested, passed>>

\* _stages: the push of the test commit, or of what the branch is by then (never forced)
PushTests ==
    /\ pc = "tests_push"
    /\ \/ /\ PushAccepted(FALSE)
          /\ remote' = local
          /\ st' = [st EXCEPT !.head_sha = round.test_commit]
          /\ GoTo("outcome")
          /\ UNCHANGED stop
       \/ /\ RaiseStop(1)
          /\ UNCHANGED <<remote, st>>
    /\ Calm
    /\ UNCHANGED <<local, nextId, drafts, disk, pr, ctxHead, round, resume, tested, passed>>

\* _stages: the comment, then the author's turn, or on to validation
Outcome ==
    /\ pc = "outcome"
    /\ IF round.verdict = "APPROVE"
       THEN GoTo("approved") /\ Save(st) /\ UNCHANGED lastEnd
       ELSE /\ Save(SetStage(st, "needs_action", 2))
            /\ GoTo("closing")
            /\ lastEnd' = "result"
    /\ asked' = IF round.verdict = "CHANGES_REQUESTED" THEN ctxHead ELSE asked
    /\ CalmBut
    /\ UNCHANGED <<local, remote, nextId, drafts, pr, ctxHead, round, resume, tested, stop,
                   passed, cleared, cycles>>

\* _validate_and_finish: check_tree_unmoved, stage validate
BeginValidation ==
    /\ pc = "approved"
    /\ IF TreeUnmoved
       THEN /\ Save([st EXCEPT !.stage = "validate"])
            /\ GoTo("validate")
            /\ UNCHANGED stop
       ELSE RaiseStop(1) /\ UNCHANGED <<st, disk>>
    /\ Calm
    /\ UNCHANGED <<local, remote, nextId, drafts, pr, ctxHead, round, resume, tested, passed>>

\* (mutant) the commits since the baseline are not looked at
ReusableIfContained(s) == ReuseBaseline /\ s.baseline_sha # 0 /\ HeadContains(s.baseline_sha)

\* validate.baseline_reusable: only the reviewer's commits since the baseline
BaselineReusable(s) ==
    /\ ReuseBaseline /\ s.baseline_sha # 0 /\ HeadContains(s.baseline_sha)
    /\ \A i, j \in DOMAIN local :
          local[i].id = s.baseline_sha /\ i < j => local[j].by = "reviewer"

\* the validation is recorded for the last round and the HEAD the run believes in
WithValidation(s, r) ==
    [s EXCEPT !.validations = Append(@, [round |-> Len(s.rounds), result |-> r,
                                         head_sha |-> ctxHead]),
              !.last_verdict = r]

\* run_validation settles which steps there are to run, ...
ValidationChooses ==
    /\ pc = "validate"
    /\ suite' = (HasSuite /\ ~BaselineReusable(st))
    /\ GoTo("cloning")
    /\ UNCHANGED <<repoVars, drafts, disk, pr, st, ctxHead, round, resume, dry, tested, stop, runs,
                   faults, history>>

\* ... and where none is left (kind docs, or no suite to run and no file for new_test), that is
\* a PASS without a sandbox
NothingToRun ==
    /\ pc = "validate"
    /\ HasSuite => BaselineReusable(st)
    /\ Save(WithValidation(st, "PASS"))
    /\ GoTo("validated")
    /\ Calm
    /\ UNCHANGED <<local, remote, nextId, drafts, pr, ctxHead, round, resume, tested, stop, passed>>

\* the sandbox clones HEAD
ValidationClones ==
    /\ pc = "cloning"
    /\ tested' = Head_
    /\ GoTo("validating")
    /\ Calm
    /\ UNCHANGED <<local, remote, nextId, drafts, disk, pr, st, ctxHead, round, resume, stop,
                   passed>>

\* PASS or FAIL is recorded; a sandbox that breaks is no verdict
ValidationEnds ==
    /\ pc = "validating"
    /\ tested' = 0 /\ suite' = FALSE
    /\ \/ \E r \in Results :
            /\ Save(WithValidation(st, r))
            /\ passed' = IF r = "PASS" /\ suite THEN passed \cup {tested} ELSE passed
            /\ cleared' = IF r = "PASS" THEN cleared \cup {tested} ELSE cleared
            /\ GoTo("validated")
            /\ UNCHANGED stop
       \/ /\ RaiseStop(1)
          /\ UNCHANGED <<st, disk, passed, cleared>>
    /\ UNCHANGED <<repoVars, drafts, pr, ctxHead, round, resume, dry, runs, faults, asked, cycles,
                   lastEnd>>

\* _validate_and_finish: the result stage; mark_ready follows
Finish ==
    /\ pc = "validated"
    /\ IF st.last_verdict = "PASS"
       THEN /\ Save(SetStage(st, "ready_to_merge", 0))
            /\ GoTo("mark_ready")
       ELSE /\ Save(SetStage(st, "needs_action", 2))
            /\ GoTo("closing")
    /\ asked' = IF st.last_verdict = "FAIL" THEN ctxHead ELSE asked
    /\ lastEnd' = "result"
    /\ CalmBut
    /\ UNCHANGED <<local, remote, nextId, drafts, pr, ctxHead, round, resume, tested, stop,
                   passed, cleared, cycles>>

\* pr.mark_ready; a failing gh is a warning
MarkReady ==
    /\ pc = "mark_ready"
    /\ pr' \in {pr, "ready"}
    /\ GoTo("closing")
    /\ Calm
    /\ UNCHANGED <<local, remote, nextId, drafts, disk, st, ctxHead, round, resume, tested,
                   stop, passed>>

\* _record_stop
StageForExit(code) ==
    IF code = 2 THEN "needs_action" ELSE IF code = 3 THEN "needs_human" ELSE "error"

RecordStop ==
    /\ pc = "stopping"
    /\ Save(SetStage(st, StageForExit(stop), stop))
    /\ GoTo("recorded")
    /\ lastEnd' = "result"
    /\ CalmBut
    /\ UNCHANGED <<local, remote, nextId, drafts, pr, ctxHead, round, resume, tested, stop,
                   passed, cleared, asked, cycles>>

\* the PR body, the history row, the summary, the locks: the result is on disk already
Exit ==
    /\ pc \in {"closing", "recorded"}
    /\ Gone
    /\ UNCHANGED <<repoVars, drafts, disk, pr, runs, faults, history>>

-----------------------------------------------------------------------------
(* What interrupts a run, and the other subcommands *)

\* an exception other than Stop: _pipeline records it, run_round's clean-up is skipped
Raise ==
    /\ pc \notin {"idle", "stopping", "recorded"} /\ faults < MaxFaults
    /\ faults' = faults + 1
    /\ RaiseStop(1)
    /\ UNCHANGED <<repoVars, drafts, disk, pr, st, ctxHead, round, resume, dry, suite, tested,
                   runs, history>>

\* a kill, Ctrl-C, a power cut, or a state file _record_stop cannot write
Die ==
    /\ pc # "idle" /\ faults < MaxFaults
    /\ faults' = faults + 1
    /\ Gone
    /\ lastEnd' = IF lastEnd = "running" THEN "died" ELSE lastEnd
    /\ UNCHANGED <<repoVars, drafts, disk, pr, runs, passed, cleared, asked, cycles>>

\* cmd_stop with a live pid: kill, then close whatever the state says
StopLive ==
    /\ pc # "idle" /\ faults < MaxFaults
    /\ faults' = faults + 1
    /\ Gone
    /\ disk' = SetStage(disk, "stopped", 1)
    /\ lastEnd' = "stopped"
    /\ UNCHANGED <<repoVars, drafts, pr, runs, passed, cleared, asked, cycles>>

\* cmd_stop without one: only a run that died is closed
StopDead ==
    /\ pc = "idle" /\ disk # NoState
    /\ RunDied(disk)
    /\ disk' = SetStage(disk, "stopped", 1)
    /\ lastEnd' = "stopped"
    /\ UNCHANGED <<repoVars, drafts, pr, runVars, runs, faults, passed, cleared, asked, cycles>>

\* cmd_reset: the reviewer's uncommitted files go with the state that tolerated them
Reset ==
    /\ pc = "idle" /\ disk # NoState
    /\ drafts' = IF disk.pending \/ disk.reviewer_running THEN FALSE ELSE drafts
    /\ disk' = NoState
    /\ lastEnd' = "none" /\ asked' = 0 /\ cycles' = 0
    /\ UNCHANGED <<repoVars, pr, runVars, runs, faults, passed, cleared>>

-----------------------------------------------------------------------------
(* The author, in the same working tree *)

\* between a check_tree_unmoved (or check_base's rev_parse) and what it guards
Windows == {"baseline", "ignoring", "branch_push", "committing", "tests_push", "validate",
            "cloning"}
AuthorMayAct == RacyAuthor \/ pc \notin Windows

AuthorUnchanged == UNCHANGED <<drafts, disk, pr, runVars, runs, faults, history>>

AuthorCommits ==
    /\ "commit" \in Moves /\ AuthorMayAct /\ nextId <= MaxCommits
    /\ local' = Append(local, [id |-> nextId, by |-> "author"])
    /\ nextId' = nextId + 1
    /\ UNCHANGED <<remote, behind>> /\ AuthorUnchanged

\* the commits from k on get new ids and keep their trailers
Rewrite(k) ==
    /\ AuthorMayAct /\ nextId + Len(local) - k <= MaxCommits
    /\ local' = [i \in DOMAIN local |->
                   IF i < k THEN local[i] ELSE [local[i] EXCEPT !.id = nextId + i - k]]
    /\ nextId' = nextId + Len(local) - k + 1
    /\ UNCHANGED remote /\ AuthorUnchanged

\* git rebase onto the base that moved, as preflight asks
AuthorRebases ==
    /\ "rebase" \in Moves /\ behind
    /\ Rewrite(1)
    /\ behind' = FALSE

\* git commit --amend, or an interactive rebase of the last commits
AuthorAmends ==
    /\ "amend" \in Moves
    /\ \E k \in DOMAIN local : Rewrite(k)
    /\ UNCHANGED behind

\* everything folded into one commit of the author's: the trailer is gone
AuthorSquashes ==
    /\ "squash" \in Moves /\ AuthorMayAct /\ Len(local) > 1 /\ nextId <= MaxCommits
    /\ local' = <<[id |-> nextId,
                   by |-> IF \E i \in DOMAIN local : local[i].by = "revali"
                          THEN "revali" ELSE "author"]>>
    /\ nextId' = nextId + 1
    /\ UNCHANGED <<remote, behind>> /\ AuthorUnchanged

\* git reset to the previous commit
AuthorUndoes ==
    /\ "undo" \in Moves /\ AuthorMayAct /\ Len(local) > 1
    /\ local' = Front(local)
    /\ UNCHANGED <<remote, behind, nextId>> /\ AuthorUnchanged

BaseMoves ==
    /\ "rebase" \in Moves /\ ~behind
    /\ behind' = TRUE
    /\ UNCHANGED <<local, remote, nextId>> /\ AuthorUnchanged

Author ==
    AuthorCommits \/ AuthorRebases \/ AuthorAmends \/ AuthorSquashes \/ AuthorUndoes \/ BaseMoves

RunStep ==
    \/ CleanUp \/ PreflightRefuses \/ PreflightPasses \/ BaselineClones \/ BaselineEnds
    \/ Bookkeeping \/ EnsureIgnored \/ CommitIgnored \/ CheckBeforePush \/ PushBranch \/ EnsurePR
    \/ BeginReview \/ ReviewFails \/ ReviewEnds
    \/ CheckBeforeCommit \/ CommitTests \/ RecordRound \/ PushTests \/ Outcome
    \/ BeginValidation \/ ValidationChooses \/ NothingToRun \/ ValidationClones
    \/ ValidationEnds \/ Finish \/ MarkReady
    \/ RecordStop \/ Exit

Next ==
    \/ \E d \in BOOLEAN : StartRun(d)
    \/ RunStep
    \/ ReviewerWrites
    \/ Raise \/ Die \/ StopLive \/ StopDead \/ Reset
    \/ Author

Spec == Init /\ [][Next]_vars

\* a process that is neither killed nor raises goes on
FairSpec == Spec /\ WF_vars(RunStep)

-----------------------------------------------------------------------------
(* Properties *)

PCs == {"idle", "started", "checks", "baseline", "bookkeeping", "pr", "ignoring", "pushing",
        "branch_push", "pushed", "review", "reviewing", "abandon", "commit", "committing",
        "record", "push_tests", "tests_push", "outcome", "approved", "validate", "cloning",
        "validating", "validated", "mark_ready", "stopping", "recorded", "closing"}

RepoTypes ==
    /\ local \in Seq(Commit) /\ local # <<>> /\ remote \in Seq(Commit)
    /\ behind \in BOOLEAN /\ drafts \in BOOLEAN /\ nextId \in Nat
    /\ pr \in {"none", "draft", "ready"}

StateTypes ==
    /\ disk \in State \cup {NoState} /\ st \in State
    /\ round \in InProgress

RunTypes ==
    /\ pc \in PCs /\ ctxHead \in Nat /\ tested \in Nat /\ stop \in 0..3
    /\ resume \in BOOLEAN /\ dry \in BOOLEAN /\ suite \in BOOLEAN /\ runs \in Nat /\ faults \in Nat

HistoryTypes ==
    /\ passed \in SUBSET Nat /\ cleared \in SUBSET Nat /\ asked \in Nat /\ cycles \in Nat
    /\ lastEnd \in {"none", "running", "result", "died", "stopped"}

\* The types of everything above: what state.json and a run hold at any time, the stage being
\* one that run_died, merge and the stage list know.
TypeOK == RepoTypes /\ StateTypes /\ RunTypes /\ HistoryTypes

Recorded == disk # NoState
Ready == Recorded /\ disk.stage = "ready_to_merge" /\ disk.last_exit = 0

\* READY TO MERGE is only ever recorded for a head whose last round is an APPROVE of exactly
\* that head (plus the reviewer's own commit right on top of it), that was pushed, and whose PASS
\* for this very round is a sandbox's that cloned it: unless there was nothing to run, the project
\* having no suite, or a baseline to reuse on which the suite passed (_stages,
\* _validate_and_finish, run_validation).
ReadyIsEarned ==
    Ready =>
        /\ disk.rounds # <<>> /\ disk.validations # <<>>
        /\ LET r == Last(disk.rounds)
               v == Last(disk.validations)
           IN  /\ r.verdict = "APPROVE"
               /\ v.result = "PASS" /\ v.round = Len(disk.rounds) /\ v.head_sha = disk.head_sha
               /\ disk.head_sha = IF r.test_commit # 0 THEN r.test_commit ELSE r.head_sha
               /\ remote # <<>> /\ disk.head_sha = HeadOf(remote)
               /\ \/ disk.head_sha \in cleared
                  \/ HasSuite => ReuseBaseline /\ disk.baseline_sha \in passed
               /\ \A i \in DOMAIN local :
                     local[i].id = r.test_commit => i > 1 /\ local[i - 1].id = r.head_sha

\* What is left of that when the author moves HEAD between a check of the run's and what it
\* guards: the head that is told READY TO MERGE is the one the last round approved, or that
\* round's own test commit, and the last validation names both and passed (_stages,
\* _approved_round_awaiting_validation, _validate_and_finish).  Not that GitHub has it: a push
\* takes the branch as it is by then (MCPipeline's ReadyIsPublished).
ReadyIsJudged ==
    Ready =>
        /\ disk.rounds # <<>> /\ disk.validations # <<>>
        /\ LET r == Last(disk.rounds)
               v == Last(disk.validations)
           IN  /\ r.verdict = "APPROVE"
               /\ disk.head_sha = IF r.test_commit # 0 THEN r.test_commit ELSE r.head_sha
               /\ v.result = "PASS" /\ v.round = Len(disk.rounds) /\ v.head_sha = disk.head_sha

\* With READY TO MERGE and HEAD where it was, the existing suite passed in a sandbox on HEAD
\* or on an ancestor with nothing but the reviewer's commits since: skipping it on a reused
\* baseline (baseline_reusable) never lets an author's commit through unrun.
SuiteCovered ==
    Ready /\ HasSuite /\ disk.head_sha = Head_ =>
        \E i \in DOMAIN local :
            /\ local[i].id \in passed
            /\ \A j \in DOMAIN local : j > i => local[j].by = "reviewer"

\* Whatever killed the last run, reviewer files in the tree are known to the state: as an
\* interrupted session's, which the next run deletes, or as pending ones, which it tolerates.
\* So check_tree never refuses the tree because of a new file of the reviewer's on the pattern;
\* a committed one that a stopped session changed is ReviewRound's NoHalfWritten.
NoOrphanDrafts ==
    pc = "idle" /\ drafts => Recorded /\ (disk.reviewer_running \/ disk.pending)

\* While the reviewer works on the HEAD the run checked, every trailer commit of the branch is
\* known to the state, whatever forgot it: a death between commit and save, a rebase, a reset.
OwnTestsKnown ==
    pc = "reviewing" /\ TreeUnmoved => ReviewerIds(local) \subseteq st.test_commits

\* With no run live, the state file reads as died exactly when the last run was killed before
\* it recorded a result and nobody has acknowledged that with `stop` (run_died, cmd_wait).
DeathIsReported ==
    pc = "idle" /\ Recorded => (RunDied(disk) <=> lastEnd = "died")

\* The reviewer asks the author questions at most once per review (needs_info_used), even
\* though the flag and the round are written by a process that may die around them.
AsksOnce ==
    Recorded =>
        Cardinality({i \in DOMAIN disk.rounds : disk.rounds[i].verdict = "NEEDS_INFO"}) <= 1

\* The history of the review is append-only: a saved state extends the saved rounds and
\* validations or starts the rounds over, and then the next push is forced; only reset drops it.
HistoryKept ==
    [][Recorded /\ disk' # NoState =>
         /\ \/ IsPrefix(disk.rounds, disk'.rounds) /\ disk'.fixes >= disk.fixes
            \/ disk'.rounds = <<>> /\ disk'.fixes = 0 /\ disk'.force_push
         /\ IsPrefix(disk.validations, disk'.validations)]_disk

\* What the run pushes after a round is what it reviewed plus its own test commit: a commit the
\* author slips in while the session runs is never pushed under the reviewer's
\* (docs/workflow.md: "commits and pushes nothing from that point").
PushesOnlyItsOwn ==
    [][pc = "tests_push" /\ remote' # remote =>
         /\ Len(remote') > 1
         /\ remote'[Len(remote')].id = round.test_commit
         /\ remote'[Len(remote') - 1].id = round.head_sha]_remote

\* A run that is not killed and whose commands return comes to its end.
RunEnds == pc # "idle" ~> pc = "idle"

\* The abstract view: the verdicts and results on disk, how far the run is, what is told (with
\* no run live, what `wait` and `stop` make of it: run_died).
VerdictsOf(s) == [i \in DOMAIN s.rounds |-> s.rounds[i].verdict]
ResultsOf(s) ==
    [i \in DOMAIN s.validations |->
        [round |-> s.validations[i].round, result |-> s.validations[i].result]]

rounds == IF Recorded THEN VerdictsOf(disk) ELSE <<>>
checks == IF Recorded THEN ResultsOf(disk) ELSE <<>>
at ==
    CASE pc = "idle" -> "rest"
      [] pc \in {"push_tests", "tests_push", "outcome"} -> "judged"
      [] pc \in {"approved", "validate", "cloning", "validating"} ->
            IF resume THEN "begun" ELSE "judged"
      [] pc = "validated" -> "checked"
      [] pc = "stopping" -> "stopping"
      [] pc \in {"mark_ready", "closing", "recorded"} -> "done"
      [] OTHER -> "begun"
told ==
    IF ~Recorded THEN "none"
    ELSE IF pc = "idle" THEN IF RunDied(disk) THEN "died" ELSE disk.stage
    ELSE IF disk.last_exit < 0 THEN "nothing" ELSE disk.stage

Promise == INSTANCE Review

\* Whatever kills a run and whatever the author does to the branch, the runs keep the promise:
\* one verdict a round, approved rounds validated, ready only after a pass, no silent death.
KeepsReview == Promise!Spec

(* Statements of the documentation that the code does not keep *)

\* docs/workflow.md: each cycle of exit 2, fix and rerun counts against review.max_fixes.
FixCyclesCounted == pc = "reviewing" => st.fixes >= cycles
=============================================================================
