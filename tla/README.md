# revali in TLA+

revali takes one feature branch from "the author thinks it is done" to "merged": preflight
checks, a draft pull request, a reviewer session that also writes tests, a validation in a
sandbox, and `merge`. It is a sequential Python program, but not an undisturbed one: the author
(a person, or an agent in another session) keeps working in the same working tree, the process
can be killed at any line, other subcommands (`stop`, `reset`, `wait`, `merge`) act on the same
files, and everything a run knows about the past comes from one JSON file and the branch itself.
These modules model that.

## The system and its parts

| part | state it keeps | operations | what it talks to |
|---|---|---|---|
| run pipeline (`pipeline.py`, `preflight.py`) | the State object in memory, `ctx.head_sha` | `run`, `run --dry-run`, the stages, the recording of results | everything below |
| state file (`state.py`) | `state.json` per branch | `load`, `save`, `set_stage`, `run_died` | read by every subcommand |
| locks (`state.py`) | `lock` per branch, `tree.lock` per working tree | acquire, release, look for a live owner | all subcommands, `procs.pid_alive` |
| review round (`review.py`) | the reviewer's files under `test_dir`, test commits | spawn, guard, lint, smoke run, commit, record, clean-up | working tree, git, sandbox |
| test archive (`testarchive.py`) | archived test files | place_back, take, remove_placed, rebuild | working tree |
| validation (`validate.py`) | baseline commit, validations | baseline, its reuse, run_validation, rerun on base, diagnosis | sandbox, issues |
| sandbox runners (`runners.py`) | a clone, inputs and logs per label, on the host that runs the steps | stage, run the script, fetch, clean up, report | a git worktree, WSL or a host over ssh |
| issues (`issues.py`) | the issues opened for this branch | already_open, maybe_open, comment_after_merge | GitHub |
| pull request (`pr.py`) | number and draft state | ensure_pr, mark_ready, comments | GitHub, git push |
| merge (`merge.py`) | - | wait_for_checks, do_merge, the local follow-up, archiving | GitHub, git |
| pure helpers (`models.py`, `timing.py`, `changedoc.py`, `secretscan.py`, `config.py`) | - | functions of their inputs | - |

The hard behaviours: a death between any two writes and what the next run makes of it; the
author's commits, amends, rebases and resets between the run's check of HEAD and what it
guards; verdicts and baselines recorded for one commit and used for another; counters and flags
of a review that is restarted; lock files that are read and then written; GitHub effects that
happen before they are recorded; a script on another host that goes on when the connection to it
is lost; a reviewer that may write, change and delete anything, and is sent back once.

What makes each part correct: *pipeline* - READY TO MERGE is only said of what was approved, pushed
and validated; a result is recorded for every run that was not killed. *State file* - a death is
told from a result; the history of a review is never lost by accident. *Review round* - the
reviewer's files never get stuck in the tree, its commits are always recognised as its own, its
commit never covers somebody else's work, and holds nothing that did not pass the checks.
*Baseline* - a skipped suite did run on what is validated. *Validation* - the session on the branch
decides, and nothing that comes after it takes a failure back. *Sandbox* - a report is that of its
own session, and whole. *Locks* - one run per working tree, and every command finds it. *Merge* -
merges only what is ready. *Issues* - the record names only issues that exist, each for something
new. *Test archive* - no archived test is lost, no copy blocks the next run, no file of the
author's is touched.

## Modules

### `Pipeline` - the core

One branch, one working tree, at most one live run. A branch is a sequence of commits beyond its
base (`local`, and `remote` on GitHub), each with an id and who made it: the author, revali (the
`.gitignore` commit) or the reviewer (the `Revali-Round` trailer). `disk` is `state.json`, `st`
the live run's State object, `pc` the line it is at, `ctxHead` is `ctx.head_sha`, `drafts` says
that uncommitted reviewer files lie under `test_dir`. A step of the model is the code between
two points where something outside can show: a save, a git or gh command, a sandbox session.

| code | actions |
|---|---|
| `_run_foreground`, `_pipeline` | `StartRun`, `Exit`, `Raise` (the handler of other exceptions) |
| `interruption_cleanup` | `CleanUp` |
| `preflight` | `PreflightRefuses`, `PreflightPasses`, `BaselineClones`, `BaselineEnds` |
| `_rerun_bookkeeping`, `_approved_round_awaiting_validation`, head of `_stages` | `Bookkeeping`, with `Restarted`, `CountedFix`, `Recovered`, `AwaitsValidation` |
| `ensure_pr` | `EnsureIgnored`, `CommitIgnored`, `CheckBeforePush`, `PushBranch`, `EnsurePR` |
| `run_round`, `_run_round` | `BeginReview`, `ReviewerWrites`, `ReviewFails`, `ReviewEnds`, `CheckBeforeCommit`, `CommitTests`, `RecordRound` |
| the rest of `_stages` | `CheckBeforePush`, `PushTests`, `Outcome` |
| `_validate_and_finish`, `run_validation` | `BeginValidation`, `ValidationChooses`, `NothingToRun`, `ValidationClones`, `ValidationEnds`, `Finish`, `MarkReady` |
| `_record_stop` | `RecordStop` |
| `cmd_stop`, `cmd_reset` | `StopLive`, `StopDead`, `Reset` |
| kill, power cut | `Die` |
| the author | `AuthorCommits`, `AuthorAmends`, `AuthorRebases`, `AuthorSquashes`, `AuthorUndoes`, `BaseMoves` |

What the abstraction merges or leaves out:

- Every `check_tree_unmoved` and what it guards are separate steps, with the author let in between
  where `RacyAuthor` is TRUE (`Windows`: the baseline's clone, the commit of the `.gitignore` line,
  both pushes, the commit of the tests, and a validation's choice of its steps and its clone). A
  push takes the branch as it is by then. Inside a review round only its outcomes are here; what
  leads to them is `ReviewRound`.
- What a validation is to run is settled before its session (`suite`). Where nothing is left to run
  it is a PASS without a sandbox (`NothingToRun`); that the reviewer's tests alone are left, or
  that not even they are, is a choice of the model whenever the suite is not to run.
- The two saves of a comment (`pending_effect`, written and never read back) are merged into
  `Outcome`. Deleting the leftovers of a session and clearing its mark is one step.
- When `reset` cannot locate the project it prints the paths for the author to delete by hand:
  the model lets the author do that at once.
- The runs have a suite and reuse its baseline; the proofs hold for the other values too.
  `HasSuite = FALSE` is a project without a `test` step, or a change of kind `docs`.
- The stage `merged`, archive mode and the change of `tests` mode, files the OS refuses to delete,
  a closed pull request's text, and `clean` are not in this module.

### The promise `Review`

What the runs over one branch promise its author, without commits, files or the steps in between:
`rounds`, the verdicts of the review; `checks`, the sandbox's results, each with the round it is
for; `at`, how far the live run is (`rest`, `begun`, `judged`, `checked`, `stopping`, `done`);
`told`, what `state.json` says of the last run. An approved round is validated by the run that
judged it, or by a later one if it has no result yet; ready is told only of a round that passed in
the same run; a run that told nothing has died, and nothing else reads as dead; the author is asked
once in a review. `Pipeline` refines it (`KeepsReview`) with the mapping at the end of the module:
verdicts and results are those on disk, `told` is what `wait` and `stop` make of the file
(`RunDied`). The code may do less than `Review` allows: `ApprovedNotPaidTwice` is not promised.

### `RunLocks`, and the promise `Turns`

The processes of one working tree around its two lock files: the branch lock and `tree.lock`. Each
process has a subcommand (`cmd`), a line (`pc`) and the branch it is about (`br`); `disk` reduces
each branch's `state.json` to what the subcommands ask of it; `head` is the branch checked out.

| code | actions |
|---|---|
| `_run_detached` (the parent) | `Start`, `LookLock`, `LookTree`, `SweepTree`, `Spawn`, then both locks for the child (`peer`) |
| `_run_foreground` (the child, or `run` in the foreground) | `Locate`, `AskLock`, `TakeLock`, `AskTree`, `ClearTree`, `TakeTree`, `GiveBack`, `Load`, `Preflight`, `Finish`, `LeaveLock`, `LeaveTree` |
| `cmd_merge`, the saves of `do_merge` | `LookState`, then as above, `Intend` and `Finish` with `Outcomes` |
| `cmd_wait` | `WaitLock`, `WaitState`, `DropLock` |
| `cmd_reset` | `ResetLock`, `ResetState`, `DropLock` |
| `cmd_stop`, `_close_stopped` | `StopLock`, `StopTree`, `StopSweep`, `Kill`, `StopDrop`, `StopDropTree`, `Close` |
| kill; `git checkout` | `Die`, `Checkout` |

A look at a lock file and the question whether its pid lives are one step: a pid only goes from
alive to dead, so the time that matters is the one from the look to the write or removal it leads
to. `loaded` is what `cmd_merge` read before it had the locks; it saves that, not what is on disk
by then, when it notes what it is about to do (merge.py:203) and when it stops (pipeline.py:963).
Load and save of the state are one step in `Load` and `Close`. Pids are not reused, a kill is
immediate (the code sends SIGTERM and waits up to five seconds for it, pipeline.py:888-894), and
one turn of `wait`'s loop is one `wait`. `Sessions` is the number of subcommands that may be going
on at once, detached runs not counted. With `Sessions = 1` the locks keep their promise (`turns`);
with 2 `OneRun` is violated, because a lock file is read and then written (state.py:257), so two
`run` started together can both find it free. docs/workflow.md:76-79 promises one pipeline per tree
without that condition. `Mortal` are the commands a kill may hit. A `run` that is killed between
spawning its child and writing the locks for it leaves a child that no lock file names until it
takes the locks itself (pipeline.py:154), and a `run` that looks in that time can go on beside it;
so `turns` has every command that takes the locks for itself in it, and not the parent. The author
checks out a branch only when a started run has found out where it is; without that, the child
locks the branch it finds, whatever its parent looked at; nor is a `stop` from another branch in
that moment covered. A run started between the look and the removal of `wait` or `reset` is a
second subcommand, so it is not covered either: its lock file would go (pipeline.py:688). `Turns`
is the abstract view, an owner of the tree and a report per branch, which `RunLocks` refines
(`KeepsTurns`). It lets a merge put back what it had read (`Recall`): ready, over a result of a run
in between, or the beginning of one, which then reads as a death.

### `MergeFlow`, and the promise `Landing`

One `merge` after another, from `cmd_merge`'s gate to the archived review directory, with GitHub
(`pr`, `ci`), the local repository (`local`), the state's stage and the two places the review's
record can be (`here`, `archive`).

| code | actions |
|---|---|
| `cmd_merge`, first half of `do_merge` | `Begin`, `Check` |
| `wait_for_checks`, `pr_checks` | `Wait`, at most `MaxPolls` times |
| `_branch_messages` | `ReadMessages` |
| `gh pr merge`, `pr_merged` | `GhMerges`, `GhRefuses`, `AskGitHub` |
| the stage, `comment_after_merge` | `RecordMerged`, `Comment` |
| `_worktree_follow_up`, `_delete_local_branch` | `Switch`, `DeleteBranch` |
| `archive_review_dir`, `remove_tree` | `File`, `Copy`, `Clear` |
| kill; the author; CI | `Die`, `AuthorCommits`, `AuthorPushes`, `AuthorUndoes`, `AuthorEdits`, `ChecksEnd` |

`pending_effect` is left out (nothing reads it), and so are the locks (`RunLocks`). Two variables
are chosen at the start and stay: `archives` (an archive directory is configured) and `calm`
(nobody acts while a merge is live or takes a pushed commit back, and every answer of GitHub
arrives). Some properties are said of calm behaviours only; the others hold with every disturbance.
`Landing` is the abstract view: whether the pull request is merged, whether the stage tells it, the
places that have the record whole, and how far the live merge is. `MergeFlow` refines it
(`KeepsLanding`), disturbed or not: told is only what is merged, a merge that is told is never
tried again, comment and filing come after it, the branch goes only when it is merged, and the
record is dropped here only when it is in the archive or there is none.

### `KnownIssues`, `Issues`, `Validation`

`KnownIssues` is `issues.already_open` as an operator on the list of recorded issues, each reduced
to the tests it names. `Issues` is `maybe_open` with what it leaves on disk and on GitHub
(`opened`): `Diagnose`, `Ask`, `Intend` (the save before), `Create` (`gh issue create` with the
second try of `run_retry`, which may fail with or without having opened the issue), `Keep`,
`GiveUp`, `TimeOut` (of `gh label list` or `gh issue create`: no `GhError`, so nobody catches it),
`Record`; `Die` anywhere, and `Reset`, which forgets. `Validation` puts it into
`run_validation`:

| code | actions |
|---|---|
| `run_validation` up to its session, `steps_with_files` | `Choose`, with `WithFiles` |
| `runner.run` on the branch | `Session`, with `Outcomes`, `IsVerdict` |
| `rerun_on_base`, `BaseRerun.available` | `Rerun` |
| `_diagnose`, `base_failures` | `ReadEvidence`, with `DiagnosisMissing` |
| `maybe_open` | `OpenIssue`, `IssueTimesOut` |
| the entry in the state | `RecordFail` |

`Outcomes` is what `Sandbox` can answer: a report with or without a failed step, or one of two
exceptions. A dry run, which is never validated, is not here; a PASS is recorded by `Pipeline`.

### `Sandbox`

`Runner.run` of the three runners, session after session of one label, and the bash script on the
host. The caller (`pc`, `results`, `res`, `error`, `answer`) and the scripts (`at`) run beside each
other: a call that times out or breaks off ends for the caller only. `inbox`, `rlogs` and `clone`
are the three directories on the host. A row of the results file carries two things the file does
not have, the session that wrote it and the session whose clone it ran in, for the properties.

| code | actions |
|---|---|
| `stage_inputs` | `Begin`, with `Staged` |
| `SshRunner.run` | `Bundle`, `Mkdir`, `Upload`, `Start`, `Return`, `Fetch`, `Cleanup`, `Conclude` |
| `WslRunner.run` | `Wslpath`, `Start`, `Return`, `Conclude` |
| `LocalRunner.run` | `Worktree`, `LocalStep`, `Cleanup`, `Conclude` |
| `SANDBOX_SCRIPT`, `render_script` | `ScriptBegins`, `ScriptClones`, `ScriptStep`, `ScriptSweeps` |
| `report_from_results` | `Built`, `Conclude` |
| kills of the caller and of the script | `Killed`, `ScriptDies` |

A copy of the logs that breaks off leaves the results file out, empty or whole; removing the three
directories is one step. Running the scripts of two labels at once is no interaction: they share
nothing but the two parent directories, which are removed only when empty.

### `ReviewRound`

`_run_round` in commit mode, file by file. A path is outside `test_dir`, a test of the author, or a
name under `test_dir` that the base does not have, on `test_file_pattern` or off it. A content is
nothing, what the author committed, or what the reviewer wrote, told apart by what the checks can
tell: good, failing lint until it is formatted (`loose`), failing it for good (`red`), or passing
it and not to be run (`broken`).

| code | actions |
|---|---|
| `interruption_cleanup`, `discard_round_leftovers` | `CleanUp`, `Stopped`, with `DiscardLeftovers` |
| `check_tree`; `branch_test_commits`, `recover_test_ownership` | `Begin`; `Ours`, `Taken`, `Recovered` |
| `spawn_reviewer`, `validate_shape` | `Spawn`, `Session` |
| `guard_worktree`, `restore_protected_tests`, `format_files`, `lint_check` | `Check` |
| `smoke_run` | `Smoke`, with `Smokes`, `CannotRun` |
| the second attempt, the Stops after it | `SendBack`, `Settle` |
| `ac_gaps`, `is_blocking`, `compute_verdict` | `Verdict`, `RoundVerdict` |
| `commit_tests` | `Add`, `Commit` |
| the record | `Record`, with `Pending` |
| kill; the author between runs | `Killed`, `AuthorCleans`, `AuthorCommits` |

The reviewer's answer is reduced to what the rules ask of it: its verdict, whether anything blocks,
whether a criterion has a gap, whether there is a question. Of the history since the base the model
keeps what the code asks git for: whose commit was the newest that added a path (`added`), and
which paths some test commit added or modified (`touched`). Between runs the author cleans the tree
and commits under the reviewer's names: it creates a file, or deletes one and creates it again, and
has taken it over; it deletes one; or it edits one in place, and it stays the reviewer's. What it
creates passes lint. That a rewrite of the branch drops test commits is `Pipeline`'s matter,
without files. An exception other than a Stop is a `Killed`: both leave the mark.

### `TestArchive`

`[review] tests = "archive"`, file by file: `head`, `tree` and `archive` give each path its content
(nothing, the author's, or written by the n-th session), `hidden` is what git ignores, `disk` and
`st` are the state's three lists and its flag.

| code | actions |
|---|---|
| `interruption_cleanup`, `run_round`'s handler of a Stop | `Sweep`, `SweepSaved`, with `Deletable`, `Restorable`, `Swept` |
| `cmd_reset`, `_reset_test_dir` | `Reset` |
| `check_tree`, `rebuild` | `PreflightPasses`, `EndsEarly` |
| `_run_round` | `BeginRound`, `Session`, `SessionFails`, `Judge`, `Record` |
| `place_back` | `PlaceBack`, `CopyOne` |
| `take` | `MoveOne`, `Taken` |
| kill; the author between runs | `Kill`, `CommitAll`, `CleanTree`, `Draft`, `Hide` |

`reset` and `rebuild` are one step each; an exception inside `place_back` is a `Kill`, since both
leave the flag. Any delete and any move can fail. The author acts between runs only, and keeps
untracked files of their own off `test_file_pattern` or in `.gitignore` (`Draft`), as
docs/side-effects.md:149-150 asks: the sweep after an interrupted session, and `reset`, would
delete one on the pattern. Three things the properties name as exceptions are what the code does:
an archived file that `.gitignore` covers by now is dropped as if the reviewer had deleted it; a
pending file off `test_file_pattern` that could not be deleted is forgotten by the next sweep; a
path that an interrupted round listed before the copy was written is deleted though the author has
put a file there since.

### `Models`

`models.resolve`: a ladder's tiers are numbered from the weakest, a model id is the set of tiers
whose names it contains, and a tier's own name may contain another's. Ladders do not name a tier
twice, which `load_project_config` does not check. A model is looked up by the first tier, weakest
first, whose name its id contains (models.py:25-28), so an author at a tier whose name contains a
weaker one's is taken for the weaker: with tiers `gpt`, `gpt-x`, `gpt-x-pro` the reviewer of an
author at the top is `gpt-x`. `RolesApart` says of such an author only that the reviewer is no
higher than it should be.

### The modules of proofs

`PipelineProofs`, `RunLocksProofs`, `MergeFlowProofs`, `ReviewRoundProofs`, `ValidationProofs`,
`SandboxProofs`, `TestArchiveProofs` and `ModelsProofs` hold theorems about the module each is
named after, for every value of its constants; see below.

### `MCPipeline`, `MCRunLocks`, `MCMergeFlow`, `MCValidation`, `MCTestArchive`, `MCReviewRound`, `MCSandbox`

The modules the configurations run. `MCPipeline` also has six statements of the documentation that
the code does not keep and no run lists.

## Runs

Every bound is a constant: runs, commits, sessions, rounds, validations, kills (`MaxFaults`,
`MaxKills`), polls, moves of the author. They are chosen so that the hazard in question fits: two
runs for a death and the run that finds what it left; three for a verdict, a run that is refused
and the rerun that should have counted, or for an archived round, one that is interrupted and the
next; four processes for a parent, its child and two others; four tests for a union of issues with
one too many in it; three tiers for a top, a bottom and something between; two sessions of two
steps for results, directories or a script of the first in the second's way; two recorded rounds
with one file of each kind for a file that is new, pending, or committed before, and one commit of
the author that takes it over, deletes it or edits it. The run `crash` has one fault, since TLC
also checks liveness there; what it checks of safety is proved for any number of them. Every system
stops when its bounds are used up, so deadlock is not checked.

| run | properties | what it shows |
|---|---|---|
| `crash` | `NoOrphanDrafts`, `ReadyIsJudged`, `HistoryKept`, `KeepsReview`, `RunEnds` | two runs, a fault anywhere, an author who commits and rebases between any two steps: the next run can always go on, what is told keeps the promise of `Review`, ready is told of the head that was approved and passed, and under fairness every run comes to its end, with a result or without |
| `fixes` | `ReadyIsEarned`, `SuiteCovered`, `OwnTestsKnown`, `PushesOnlyItsOwn` | three runs of fix cycles, the first with a `.gitignore` line to commit, with commits, amends, squashes and undos while they are live, but no deaths |
| `turns` | `OneRun`, `RunIsNamed`, `StopStops`, `KeepsTurns` | one subcommand at a time with detached runs behind it, two branches, a kill: one run at a time, always named by both lock files and found by `stop`, and a report that only a merge takes back |
| `validations` | `RecordedAsOpened`, `NothingRecordedTwice`, `NamesThemAll`, `NewestPreferred`, `EnvironmentIsNoVerdict`, `FailStands` | three validations with every outcome of session, rerun and diagnosis, refusals, lost answers, a kill and a reset; `already_open` against its docstring on every record that comes up |
| `merges` | `RecordKept`, `KeepsLanding`, `MergesWhatWasValidated`, `WorkKept`, `CommentedOnce`, `ChecksHeeded`, `MergeEnds` | merges repeated after two kills and failing commands, with and without an archive, calm or with people acting in the middle and lost answers |
| `archive` | `CopiesNeverBlock`, `RoundArchived`, `NothingLost`, `AuthorsStay` | three runs, two kills, failing deletes and moves, resets, commits, `.gitignore` lines and the author's own files |
| `rounds` | `AuthorsFilesStand`, `NextRunAccepts`, `CommittedWasChecked`, `ApprovedIsCovered` | two rounds with a reviewer that writes and deletes anything, Stops, kills, refused commits and files that cannot be deleted, and an author who takes a file of the reviewer's over |
| `sandbox` | `ReportIsOwn`, `CleanExitIsWhole`, `HostEndsClean` | two sessions of a label with each runner, failing, slow and lost calls, scripts that go on alone, kills on both sides |
| `models` | `RolesApart`, `FallbackIsBelow` | every ladder of three tiers, author and request |

Runs that find what the documentation says and the code does not do (each is a finding):

| run | property | what happens |
|---|---|---|
| `cycles` | `FixCyclesCounted` | exit 2, a run that preflight refuses, the author's fix, a rerun: the run in between has replaced the stage by which the fix cycle is counted, and the session on the fix starts with `fixes = 0` |
| `dropped` | `PassMeansRun` | the connection to the sandbox is lost after a step that passed: the rows written so far come back as a report without a failed step, and a validation takes that for a PASS |
| `leftovers` | `NoHalfWritten` | a round that stops after its session changed a test committed in an earlier round leaves the change in the tree, and the next run refuses it |

### What the properties assume

A property that holds under a condition says so in its definition or by a constant of its run. The
other side of each is what the code does:

- `ReadyIsEarned`, `SuiteCovered` and `PushesOnlyItsOwn` are checked with `RacyAuthor = FALSE`:
  they say that the checks are in the right places, not that the windows between a check and the
  git command after it are closed. With `RacyAuthor = TRUE` an author's commit between
  `check_tree_unmoved` and `git commit` of the tests lies under the reviewer's and is pushed with
  it (review.py:1397; docs/workflow.md:83-86 says that nothing is); one between the check and
  `git push`, taken back later, is on GitHub while another head is told READY TO MERGE (pr.py:43,
  pipeline.py:476; `ReadyIsPublished` in `MCPipeline`); and the sandbox runs what HEAD is when it
  clones, under the name of `ctx.head_sha`, with the steps chosen before (validate.py:185, 225).
  The run `crash` has it TRUE: what is left of `ReadyIsEarned` there is `ReadyIsJudged`.
- `OwnTestsKnown` and `ReadyIsJudged` are proved with `RacyAuthor = FALSE` or with a state
  directory that git ignores already. Otherwise the run commits the `.gitignore` line on top of
  whatever the author has just put there, and takes that commit for the HEAD it checked (pr.py:31).
- The properties of `RunLocks` need `Sessions = 1`, and a parent that is not killed while it hands
  over to its child (see `RunLocks`).
- `MergesWhatWasValidated` and `WorkKept` are said of calm merges: HEAD is compared before the wait
  for the checks and `gh pr merge` names the pull request only, so what is pushed in between is
  merged (merge.py:199; docs/side-effects.md:98-99 says refused). `ChecksHeeded` and
  `CommentedOnce` too: `pr_checks` takes a command that fails without output for "no checks", and
  every `gh` command is tried twice.
- `ReportIsOwn` and `CleanExitIsWhole` leave out sessions during which the script of an earlier
  session of the same label was still running (`overlap`): it writes into the same results file and
  its clean-up takes the clone away. They also need a script call that returned 0, or, for
  `ReportIsOwn`, no results of an earlier session on the host (`leftover`): when the script call
  fails before its first line, a results file that a killed caller left there is fetched.
- `HostEndsClean` excepts scripts the host killed, and is said of a clean-up that went through.
- `CommittedWasChecked` excepts the smoke run of a round whose reviewer asked: its tests are not
  tried, and are committed when the rules make another verdict of the question (review.py:1337,
  1393). It also excepts a smoke run whose connection was lost: the report of what ran until then
  has no failed step, and `smoke_run` takes it (runners.py:647, review.py:968), as `dropped` shows
  for validation. Helpers off the pattern only ever hold good content in the model, and a new file
  outside `test_dir` is treated like an edit there. `ApprovedIsCovered` excepts an answer
  NEEDS_INFO without a question (review.py:846).
- `FailStands` excepts a timeout of git, scp or a worktree removal in the rerun on the base: it is
  a `ProcTimeout`, which `rerun_on_base` does not catch (validate.py:351). The run ends with exit 1
  and no recorded FAIL. docs/sandbox.md:30-33 says that the run goes on. The same of
  `gh label list` and `gh issue create` in `maybe_open`, which catches `GhError` only (issues.py:245, 261);
  issues.py:198-200 and docs/side-effects.md:89-90 say that the result stands.
- `NextRunAccepts` and `RoundArchived` are said of recorded rounds, `ChecksHeeded` of merges whose
  `gh` answers: a command that fails without a word is outside it.
- `NoHalfWritten` speaks of files on `test_file_pattern` that exist, and lets off those a refused
  `git commit` left in the index: these, helpers off the pattern and deletions of the reviewer's
  own tests stay as well.

Other disagreements met while modelling, which no run repeats:

- the same detour as in `cycles`, with no fix at all: the reviewer is started on the refused head
  (`RerunNeedsChange`, pipeline.py:345);
- after a restart rounds count from 1, and an old validation of round 1 is taken for the new
  round's, so an approved head is reviewed again (`ApprovedNotPaidTwice`, pipeline.py:390);
- after the rebase preflight asks for, with no test commit in the branch, the push is not forced
  and is rejected (`RebasedPushAccepted`, pipeline.py:319);
- test commits recovered while no rounds exist are never dropped, and a later run starts over for
  them (`RestartOnlyAfterRewrite`, review.py:296);
- a run killed in preflight leaves the earlier stage `ready_to_merge`, and merge accepts it
  (`MergeOnlyWhenReady`, pipeline.py:935);
- the head told READY TO MERGE need not be the one on GitHub (`ReadyIsPublished`, see above); the
  six are defined in `MCPipeline`;
- `wait` answers with an earlier run's result when the detached child died before its first save
  (pipeline.py:198); `stop` overwrites a result recorded between its look and its kill
  (pipeline.py:897); merge saves the state it loaded before it had the locks over what a run
  recorded in between (pipeline.py:934, 963);
- a validation can open its issue twice, when the answer to `gh issue create` is lost
  (gitops.py:389) or the run dies before the save (issues.py:273);
- merge reports a failure for a merged pull request when `pr_merged`'s own command fails
  (merge.py:258);
- a session that ends in a Stop leaves its edits of the author's tracked tests, and of files
  outside `test_dir` (review.py:1312, before `guard_worktree`);
- a refused `git commit` leaves the reviewer's files in the index (review.py:990); if one of them
  was pending, the clean-up's `git checkout HEAD` of it fails and raises a Stop of its own, in this
  run and the next (review.py:606).

### Fairness

`FairSpec` of `Pipeline` assumes weak fairness of `RunStep`, the run's own next step, and that of
`MergeFlow` of `MergeStep`, the merge's. Neither waits for anybody: no step of a run waits for the
author (a refused check raises Stop), the wait for the checks has a deadline, and what talks to a
network, an engine or a sandbox has a timeout. The local git commands have none (`git commit` with
its hooks, pr.py:24 and review.py:991; `checkout` and `branch`, merge.py:226 and 245): that they
return is assumed. `RunEnds` says that a run comes to its end, not that it has a result by then.
`FairSpec` of `Sandbox` assumes it of the caller and of each script that is alive: every call of
the caller has a timeout (scp's unless `transfer_timeout_min = 0`), and every step of a script runs
under `timeout`. Nothing is assumed of the author, of CI, of kills, or of which outcome a step has.

## Proofs

The proofs use no assumption but those named in the modules:

- what the constants are: bounds are naturals and flags Booleans, the absence of a state file is
  not a state (`NoStateAssumption`), the four kinds of paths are disjoint
  (`ReviewRoundAssumption`), the configured steps are among the four (`ValidationAssumption`),
  there are finitely many pids and two values that are none and no branch (`RunLocksAssumption`),
  `test_file_pattern` picks from the paths (`TestArchiveAssumption`), a ladder has a tier
  (`ModelsAssumption`);
- `OneAtATime` in the theorems about `RunLocks`: what the section above says of `Sessions` and
  `Mortal`;
- `TreeIsOurs` in three theorems about `Pipeline`: `RacyAuthor = FALSE`, as in the run `fixes`; in
  two, `OwnTestsKnownHolds` and `ReadyIsJudgedHolds`, `TreeIsOurs \/ Ignored = TRUE`, the second as
  in the run `crash`.

Otherwise they hold for every value of the constants, so for any number of files, rounds, tests,
kills, processes, branches, tiers and runs.

`PipelineProofs`:

- `TypesInvariant`, `TypeCorrect`: `TypeOK` is inductive once it is known that a live run has a
  state file (`LiveState`), which `StopLive` needs to close one. The lemmas before it say once
  which updates keep a state record a state record.
- `DeathReported`: `DeathIsReported`, which says by a history variable what the run `crash` checks
  as a part of `KeepsReview`, speaks of idle moments only. The inductive form (`ReportInv`) says
  what the exit code and the stage on disk are while a run is live, by whether it has a result yet,
  so that a death at any step leaves what the property says.
- `DraftsKnown`: `NoOrphanDrafts` likewise. The inductive form (`DraftInv`) says that files in the
  tree are marked on disk at every moment, and that the live run's own marks agree with the disk
  except inside the steps between the session's end and the save of its round.
- `AsksOnceHolds`: `AsksOnce`, of which the same is true. The inductive form (`AskInv`) says it of
  the state in memory and of the one on disk, with the position of the one round of questions, and
  that the flag which `compute_verdict` read is unchanged until that round is recorded: flag and
  round are saved in one write, which is why no death between them lets the reviewer ask twice.
- `HistoryKeptHolds`: the action property `HistoryKept`. `BooksInv`: a live run and the disk tell
  the same history, except that a run that is stopping may hold a count or a restart it has not
  saved.
- `OwnTestsKnownHolds`: `OwnTestsKnown`. `KnownInv`: from the bookkeeping to the end of the session
  every trailer commit up to the HEAD the run believes in is known, *as long as the branch has that
  commit*. The author moves the branch under a live run, so nothing can be said of HEAD itself.
  `IgnoringInv` says when the `.gitignore` line is still to be committed; that commit makes a HEAD
  of its own, which is why the theorem has an assumption.
- `KeepsReviewHolds`: `Pipeline` implements `Review`, whatever the author does. The abstract rules
  speak of what the code reads from memory and saves later, so the mapping rests on `ReviewInv`:
  besides `BooksInv`, `ReportInv` and `AskInv`, `JudgedInv` says that the verdict the run acts on
  is that of the last round it recorded, that what is validated is an approval, and that an
  approval that is resumed has no result yet; `CheckedInv`, that in `validated` the last result is
  for the last round and the HEAD the run believes in; `StopInv`, that a run that gives up holds
  the review that is on disk and asks for a person only over rounds there are. One lemma per kind
  of step (`StartMaps` to `RestMaps`) then names the step of `Review` it is, or that it is not
  seen. `Bookkeeping` was the one to be careful about: one step of the code may start the review
  over and still end the run, of a dry run, but never with a request to fix (`BookingStops`).
- `ReadyIsJudgedHolds`: `ReadyIsJudged`, from the same parts and what the run holds of the round it
  acts on. An author who moves HEAD at the wrong moment can get a commit reviewed by nobody under
  the reviewer's, and another head on GitHub, but not a head called ready that the last round did
  not approve or the last validation does not name. Left out is that author on a branch whose
  `.gitignore` line the run commits: that a resumed run never commits it on top of what was
  approved rests there on GitHub refusing the push, which is not proved.
- `ReadyIsEarnedHolds`, `SuiteCoveredHolds`, `PushesOnlyItsOwnHolds`, under `TreeIsOurs`:
  `ReadyIsEarned`, `SuiteCovered`, `PushesOnlyItsOwn`. What a round or a validation recorded is
  about commits that a later rewrite may have dropped, and that a later run meets again. The
  argument rests on ids: they only grow, and every step `Continues` the branch (a commit made
  before the step is on the branch after it only where it was, over the same commits). So a fact of
  the form "as long as the branch has commit `c`, up to `c` ..." persists (`LinePersists`,
  `TopPersists`, `CoverPersists`), and with it that each recorded round fits the branch and that
  the baseline passed (`SoundInv`). Over it, `SettledInv` has the checks' outcomes in the order of
  a run: HEAD is where the run believes it inside a window (`WindowInv`, the only place where
  `TreeIsOurs` is used), the round in progress is about that HEAD (`RoundInv`, `FitInv`), so is
  what is pushed (`PushedInv`), what a resumed approval goes on from (`LastInv`) and what the
  sandbox's verdict is booked for (`VerdictInv`), the steps it was given are right for it
  (`CoverInv`: where the suite is not to run, the baseline covers the HEAD that is validated), and
  the reused baseline is no younger than it (`AgeInv`). One part is not obvious from the code: a
  resumed approval is validated at the approved HEAD only because `ensure_pr` makes no `.gitignore`
  commit on top of it, and it makes none because every round was reviewed on a branch that had the
  line already (`LineInv`, `NoLineInv`, and `HasLine` in `RoundFits`).

  The lemmas `QuietSteps` to `ValidationDoes` before these theorems state once what each step does
  to the review that `state.json` tells of; most steps do nothing to it, which makes each invariant
  a matter of the few that do.

`RunLocksProofs`, under `OneAtATime`, for any number of processes and branches:

- `OneRunHolds`, `RunIsNamedHolds`, `StopStopsHolds`: `OneRun`, `RunIsNamed`, `StopStops`, all from
  one invariant `Inv`. Its core is `HeldLock` and `HeldTree` (from which step on a run is named in
  the lock of its branch and in `tree.lock`, by its parent first and by itself again later) and
  `Alone` and `Looked` (what a command knows at each of its steps: that no run is alive, or only
  that none is on its own branch). What a command has looked at stays true because only a run's own
  end and its parent can change it. That the two files back each other up is needed at one place: a
  child rewrites `tree.lock` between clearing and taking it, and a `stop` in that moment finds it
  by its branch lock, which it can because it looks on the branch the tree is on (`Homes`).
- `KeepsTurnsHolds`: `RunLocks` implements `Turns`. `OneOwner` makes the mapped owner a function of
  the state; then each step is one of the abstract view (`Load` begins a run, `TakeTree` of a merge
  begins a merge, `Intend` recalls what it had read, the ends and deaths end one, `Close` and
  `ResetState` change a report), or is not seen there (`Unseen`).

`MergeFlowProofs`, for every layout, configuration and disturbance:

- `MergedHolds`: `MergedIsMerged`, which the run `merges` checks as a part of `KeepsLanding`; and
  `RecordHolds`: `RecordKept`. Both from `RecordInv`: which half of the merge a run is in tells the
  stage (`Before`, `After`), and a directory that is no longer whole is one whose merge is
  recorded, so that no second merge begins on what a first one has half cleared away. That the
  invariant needs this is why a merge killed in `Clear` is safe. `Shapes`, the types of `pr` and
  `local`, is proved before it, and `TypesHold` adds the rest of `TypeOK`.
- `KeepsLandingHolds`: `MergeFlow` implements `Landing`. Besides `RecordInv` it needs `ArchiveInv`:
  the archive holds nothing before a recorded merge files there, so that a copy that starts, or
  breaks off, never takes away a record that was whole.
- `ValidatedMerged`: `MergesWhatWasValidated`; `BranchKept`: `WorkKept`. From `CommitsInv`: in
  a calm behaviour the pull request never holds a commit the local branch lacks, both hold just the
  validated ones from the check of HEAD on, and a branch that was deleted held nothing else.
- `OneComment`: `CommentedOnce`; `ChecksHold`: `ChecksHeeded`. From `AnswersInv`: a comment comes
  with the stage `merged` on disk, which refuses the next merge, so the step that makes it is come
  to once; and what `Wait` saw of the checks still holds when gh merges.

`ReviewRoundProofs`, over `Typed`, the types and what is committed under each kind of path:

- `AuthorsHold`: `AuthorsFilesStand`, from `AuthorsInv`: the files the state calls the reviewer's
  while a round goes on, those in the index and those an attempt found never include one of the
  author's, which are back in the tree after the guard and the restore. Between runs the state may
  still call a file the author took over the reviewer's; that the run then reads it back
  (`RecoveredOurs`) needs every file of the state's list to be one a test commit touched, and that
  in turn that a file the reviewer deleted was on the list (`CommitOurs`).
- `NextRunHolds`: `NextRunAccepts`, from `IndexInv` (the mark is on disk from the session on; the
  index is empty but between add and commit, or after a refused one, and then no pending file is in
  it) and `RoundInv`.
- `CommittedChecked`: `CommittedWasChecked`; `ApprovalCovered`: `ApprovedIsCovered`. From
  `RoundInv`: between check and commit everything that differs from HEAD is among the attempt's
  files, and what was found of them by lint and the smoke run is still true of the tree.

`ValidationProofs`:

- `SessionDecides`: `EnvironmentIsNoVerdict`; `FailureStands`: `FailStands`. From `VerdictInv`:
  every step after the session knows that a test step failed on the branch.
- `IssuesAreReal`: `RecordedAsOpened`, from `RecordInv`: besides the record, the number held
  between gh's answer and the save. It needs nothing of `AlreadyOpen`: the record is right whatever
  is asked of it.
- `AnswersNameThemAll`: `NamesThemAll`; `NewestIsPreferred`: `NewestPreferred`. Both are facts of
  `already_open` on any list of issues (`OpenAnswers`), not of the few lists a run reaches. The
  loop that thins is the recursive function of `Kept`: `ThinningExists` shows that a function with
  its equation exists, `KeptByPosition` that what is kept of the first positions is decided there.
  Both are inductions, done as an argument about the least position that is wrong
  (`LeastAndGreatest`), since the library's induction theorems cannot be instantiated. Why the
  union names every test is that the newest issue naming it was picked for it; why each kept issue
  has a test of its own is that the newer ones do not name it and the older kept ones did not.
- `RecordedOnce`: `NothingRecordedTwice`, from `OnceInv`: what `Ask` found of the record still
  holds of it when `Keep` writes there.
- `IssueTypesHold`: `TypeOK` of `Issues`, from `TypesInv`, which counts how often gh may still be
  asked by this validation.

`SandboxProofs`, for any number of steps and sessions and each runner:

- `TypesHold`: `TypeOK`; `ReportIsOwnHolds`: `ReportIsOwn`; `CleanExitIsWholeHolds`:
  `CleanExitIsWhole`. A report is built long after its rows were written and by another process.
  The invariant follows them: where a script is says what lies in its results file (`LogsFit`), as
  long as the caller waits for it or can still read it, whatever became of the connection; what the
  caller has fetched is what that file held (`Taken`); and no other script lives (`Scripts`) unless
  `overlap` says so.

`TestArchiveProofs`, for any paths and any pattern:

- `TypesHold`: `TypeOK`; `RoundArchivedHolds`: `RoundArchived`; `CopiesNeverBlockHolds`:
  `CopiesNeverBlock`. From `Inv`: which of the lists in memory are on disk at each step (`Course`),
  what is already moved and what is still to move while a round is taken (`Taking`), and that each
  untracked file of the reviewer's is marked, pending or listed as a copy (`Covered`), also by what
  a sweep is about to save.
- `NothingLostHolds`: `NothingLost`; `AuthorsStayHolds`: `AuthorsStay`, both action properties.
  From the same `Inv`: `Present` (an archived file is in the tree from its copy to the judgement
  unless the reviewer deleted it), and `Known` and `InTheWay` (a file of the author's in the way of
  a round was pending, ignored, or a copy the author made their own).

`ModelsProofs`, for ladders of any length:

- `RolesApartHolds`: `RolesApart`; `FallbackIsBelowHolds`: `FallbackIsBelow`. The lemmas before
  them say what the weakest and strongest tier of a set are, and what `resolve` picks for each
  request.

Only model-checked: `RunEnds`, `MergeEnds` and `HostEndsClean`, which are liveness under fairness.
`TypeOK` is proved wherever a module has one: `Pipeline`, `RunLocks` (a part of `Inv`),
`ReviewRound`, `MergeFlow`, `Issues`, `Sandbox` and `TestArchive`.

## Plan

Done: `Pipeline` and `Review`, `RunLocks` and `Turns`, `MergeFlow` and `Landing`, `KnownIssues`,
`Issues`, `Validation`, `Models`, `TestArchive`, `ReviewRound`, `Sandbox`, and the proofs above.

What is left, in this order:

1. That `ReviewRound` implements the round of `Pipeline`, and `Sandbox` the outcomes of
   `Validation`.
2. The composition of `MergeFlow` and `RunLocks`: a run started between merge's release of the
   locks and the move of the review directory (pipeline.py:966).
3. Ownership of files across a rewrite of the branch, the files of `ReviewRound` on the commits of
   `Pipeline`; the change of `tests` mode between runs; the temp-and-rename write of the state
   file.

## Not modelled

- Timing (`timing.py`): durations for log lines; nothing depends on them.
- The change document, the configuration and the command line (`changedoc.py`, `config.py`,
  `cli.py`): parsers of text. What the control depends on (kind, acceptance criteria, modes and
  flags) are constants or choices of the modules.
- Engines (`engines/`): one subprocess call and the reading of its JSON; its outcomes are choices
  of `ReviewRound`, `Pipeline` and `Validation`.
- The secret scan (`secretscan.py`): regular expressions over a diff; its refusal is one of
  `PreflightRefuses`.
- Statistics (`stats.py`): reads a log nothing else reads.
- The archive backfill tool: no run depends on what it writes.
- Prompts, comments, reports, quoting and paths: text.
