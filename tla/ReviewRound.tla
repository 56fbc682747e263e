---------------------------- MODULE ReviewRound ----------------------------
(***************************************************************************)
(* Review rounds in commit mode, from the reviewer's session to the commit *)
(* of its tests (review.run_round).  The reviewer writes where it likes;   *)
(* what it wrote is put back, formatted, linted and tried in the sandbox,  *)
(* it is sent back once, and in the end its files are committed, left      *)
(* pending with a question, or discarded.  Between runs the author commits *)
(* under the reviewer's names too; whose a file is, a run reads back from  *)
(* the history.  The files are told apart by where they lie and by what    *)
(* the checks can tell of them.                                            *)
(***************************************************************************)
EXTENDS Naturals, Sequences, FiniteSets

CONSTANTS
    Outside,    \* tracked files outside test_dir
    Suite,      \* the author's tracked files under test_dir
    Names,      \* names under test_dir on test_file_pattern that the base does not have
    Asides,     \* names under test_dir off the pattern that the base does not have
    HasLint,    \* [project] lint is not empty
    MaxRounds,  \* bound: rounds recorded
    MaxMoves    \* bound: the author's commits under the reviewer's names

ASSUME ReviewRoundAssumption ==
    /\ HasLint \in BOOLEAN /\ MaxRounds \in Nat /\ MaxMoves \in Nat
    /\ Outside \cap (Suite \cup Names \cup Asides) = {}
    /\ Suite \cap (Names \cup Asides) = {} /\ Names \cap Asides = {}

VARIABLES
    head,     \* what HEAD has under each path
    tree,     \* what the working tree has
    staged,   \* paths added to the index and not committed
    added,    \* whose commit was the newest that added a path, of those the base does not have
    touched,  \* the paths some test commit added or modified
    moves,    \* bound: the author's commits so far
    st,       \* the state, as saved
    smokes,   \* kind feature or fix: the tests are tried before they are committed
    pc,       \* where _run_round is
    answer,   \* the reviewer's structured output, kept until the next round
    found,    \* of the attempt: the files, and what is wrong with them
    bounces,  \* the reviewer has been sent back
    how,      \* history: how the last round ended, once it has: its verdict, or a stop
    untried   \* history: paths committed by a round that did not try them to the end

history == <<head, added, touched, moves>>
vars == <<history, tree, staged, st, smokes, pc, answer, found, bounces, how, untried>>

-----------------------------------------------------------------------------
(* Data *)

New == Names \cup Asides
Inside == Suite \cup New
Paths == Outside \cup Inside

\* base: what the author committed.  loose fails lint until it is formatted, red fails it for
\* good, broken passes it and cannot be run
Content == {"absent", "base", "good", "loose", "red", "broken"}
Tracked == {p \in Paths : head[p] # "absent"}
Dirty == {p \in Paths : tree[p] # head[p]} \cup staged
Existing == {p \in Paths : tree[p] # "absent"}

Verdicts == {"APPROVE", "CHANGES_REQUESTED", "NEEDS_INFO"}
\* blocking: a blocking finding, an unjustified change of a test or a dependency; gaps: acceptance
\* criteria neither covered nor given a reason; questions: some that are not blank
Answer == {a \in [verdict : Verdicts, blocking : BOOLEAN, gaps : BOOLEAN, questions : BOOLEAN] :
              a.questions => a.verdict = "NEEDS_INFO"}
NoAnswer == [verdict |-> "NEEDS_INFO", blocking |-> FALSE, gaps |-> FALSE, questions |-> FALSE]
\* cut: the report of the smoke run ends early, without a failed step
NothingFound ==
    [files |-> {}, restored |-> FALSE, lint |-> FALSE, smoke |-> FALSE, cut |-> FALSE]

State == [test_files : SUBSET Inside, pending : SUBSET Inside, running : BOOLEAN,
          needs_info_used : BOOLEAN, rounds : 0..MaxRounds]

Init ==
    /\ head = [p \in Paths |-> IF p \in Outside \cup Suite THEN "base" ELSE "absent"]
    /\ tree = head /\ staged = {}
    /\ st = [test_files |-> {}, pending |-> {}, running |-> FALSE,
             needs_info_used |-> FALSE, rounds |-> 0]
    /\ added = [p \in New |-> "nobody"] /\ touched = {} /\ moves = 0
    /\ smokes \in BOOLEAN
    /\ pc = "idle" /\ answer = NoAnswer /\ found = NothingFound /\ bounces = 0 /\ how = "none"
    /\ untried = {}

-----------------------------------------------------------------------------
(* The rules of a verdict *)

\* (mutant) no acceptance criterion is looked at once the reviewer has a question
VerdictAsking(a, gaps, may_ask) ==
    IF a.verdict = "NEEDS_INFO" /\ may_ask THEN "NEEDS_INFO"
    ELSE IF a.blocking THEN "CHANGES_REQUESTED" ELSE "APPROVE"

\* compute_verdict: reasons beat what the reviewer said, and NEEDS_INFO counts only with a
\* question, once, and when there is no other reason
Verdict(a, gaps, may_ask) ==
    LET asks == a.verdict = "NEEDS_INFO" /\ a.questions
    IN  IF asks /\ may_ask /\ ~a.blocking /\ ~gaps THEN "NEEDS_INFO"
        ELSE IF a.blocking \/ gaps \/ asks \/ a.verdict = "CHANGES_REQUESTED"
        THEN "CHANGES_REQUESTED" ELSE "APPROVE"

\* asked: the gaps of a reviewer that asks are left out
Asked(a) == a.verdict = "NEEDS_INFO"
RoundVerdict(a) == Verdict(a, a.gaps /\ ~Asked(a), ~st.needs_info_used)

-----------------------------------------------------------------------------
(* Cleaning up *)

\* discard_unfinished_tests takes the untracked files on the pattern; some cannot be deleted
Unfinished == {p \in Names : head[p] = "absent" /\ tree[p] # "absent" /\ p \notin staged}
\* drop_pending_tests takes a pending file git tracks back to HEAD; one that is only in the index
\* is not there
ToRestore == st.pending \cap (Tracked \cup staged) \cap Existing
CannotRestore == ~ (ToRestore \subseteq Tracked)

\* discard_round_leftovers; a restore that fails raises a Stop of its own
DiscardLeftovers(stuck) ==
    /\ stuck \subseteq Unfinished
    /\ tree' = [p \in Paths |->
                  IF p \in Unfinished \ stuck THEN "absent"
                  ELSE IF p \in ToRestore /\ ~CannotRestore THEN head[p] ELSE tree[p]]
    /\ st' = IF CannotRestore THEN st ELSE [st EXCEPT !.pending = stuck, !.running = FALSE]

-----------------------------------------------------------------------------
(* The round *)

Round == <<answer, found, bounces>>
NoRound == found' = NothingFound /\ bounces' = 0
End(as) == pc' = "idle" /\ how' = as /\ NoRound
Recorded == how \in Verdicts

\* raise Stop out of _run_round
RaiseStop == pc' = "stopping" /\ UNCHANGED how

\* interruption_cleanup: the next run starts by clearing up after an interrupted round
CleanUp ==
    /\ pc = "idle" /\ st.running
    /\ \E stuck \in SUBSET Unfinished : DiscardLeftovers(stuck)
    /\ UNCHANGED <<untried, history, staged, smokes, pc, Round, how>>

\* branch_test_commits: the files of the test commits that HEAD has, by who added them last
Ours == {p \in touched \cap Tracked : added[p] = "reviewer"}
Taken == {p \in touched \cap Tracked : added[p] # "reviewer"}

\* (mutant) what the state has stays the reviewer's
RecoveredKept == Ours \cup st.test_files

\* recover_test_ownership
Recovered == Ours \cup (st.test_files \ Taken)

\* preflight: a clean tree but for the pending files; then the ownership of the reviewer's
\* committed files is read back from the branch
Begin ==
    /\ pc = "idle" /\ ~st.running /\ st.rounds < MaxRounds
    /\ Dirty \subseteq st.pending
    /\ st' = [st EXCEPT !.test_files = Recovered]
    /\ pc' = "spawn" /\ how' = "none" /\ answer' = NoAnswer
    /\ UNCHANGED <<untried, history, tree, staged, smokes, found, bounces>>

Spawn ==
    /\ pc = "spawn" /\ pc' = "session"
    /\ st' = [st EXCEPT !.running = TRUE]
    /\ UNCHANGED <<untried, history, tree, staged, smokes, Round, how>>

\* what a session can leave under a path; an author's test file modified is as one deleted, a
\* new file outside test_dir as a tracked one edited, and helpers off the pattern are in order
Writes(p) ==
    CASE p \in Outside -> {tree[p], "red"}
      [] p \in Suite -> {tree[p], "absent"}
      [] p \in Names -> {tree[p]} \cup (Content \ {"base"})
      [] p \in Asides -> {tree[p], "good", "absent"}

\* the reviewer's session: it writes, and fails, or answers
Session ==
    /\ pc = "session"
    /\ tree' \in {t \in [Paths -> Content] : \A p \in Paths : t[p] \in Writes(p)}
    /\ \/ RaiseStop
       \/ pc' = "answered" /\ UNCHANGED how
    /\ UNCHANGED <<untried, history, staged, st, smokes, Round>>

\* restore_protected_tests: tracked files under test_dir that are not the reviewer's own
Protected(t) == {p \in Inside \ st.test_files : head[p] # "absent" /\ t[p] # head[p]}

\* guard_worktree: what lies outside test_dir goes back to HEAD
OutsidePutBack(t) == [p \in Paths |-> IF p \in Outside THEN head[p] ELSE t[p]]

\* format_files; it may be unset, fail or time out, and is not judged
Formatted(t, files) ==
    {t, [p \in Paths |-> IF p \in files /\ t[p] = "loose" THEN "good" ELSE t[p]]}

\* lint runs over the whole tree, if the reviewer wrote anything
LintRed(t, files) == HasLint /\ files # {} /\ \E p \in Paths : t[p] \in {"loose", "red"}

\* guard, restore, collect, format, lint; the answer is what the session said
Check ==
    /\ pc = "answered"
    /\ UNCHANGED <<untried, history, staged, st, smokes, bounces>>
    /\ LET guarded  == OutsidePutBack(tree)
           theirs   == Protected(guarded)
           restored == [p \in Paths |-> IF p \in theirs THEN head[p] ELSE guarded[p]]
           files    == {p \in Inside : restored[p] # head[p]}
       IN  IF \E p \in Outside : tree[p] # head[p]
           THEN tree' = guarded /\ RaiseStop /\ UNCHANGED <<answer, found>>
           ELSE /\ tree' \in Formatted(restored, files)
                /\ answer' \in Answer
                /\ found' = [files |-> files, restored |-> theirs # {},
                             lint |-> LintRed(tree', files), smoke |-> FALSE, cut |-> FALSE]
                /\ UNCHANGED how
                \* lint may time out
                /\ pc' \in {"smoke"} \cup (IF HasLint /\ files # {} THEN {"stopping"} ELSE {})

\* (mutant) only on the first attempt
SmokesOnce == found.files # {} /\ smokes /\ bounces = 0 /\ ~Asked(answer)

\* a reviewer that asks has its tests not tried
Smokes == found.files # {} /\ smokes /\ ~Asked(answer)

\* new_test exits with neither 0 nor 1
CannotRun == \E p \in found.files : tree[p] = "broken"

\* smoke_run; a sandbox that fails, or a setup or build that does, is a Stop.  A report without
\* a failed step will do, also one that a lost connection cut short (report_from_results)
Smoke ==
    /\ pc = "smoke"
    /\ UNCHANGED <<untried, history, tree, staged, st, smokes, answer, bounces>>
    /\ \/ Smokes /\ RaiseStop /\ UNCHANGED found
       \/ /\ \E cut \in {FALSE, Smokes} :
                found' = [found EXCEPT !.smoke = Smokes /\ CannotRun /\ ~cut, !.cut = cut]
          /\ pc' = "judge" /\ UNCHANGED how

Problems == found.restored \/ found.lint \/ found.smoke \/ (answer.gaps /\ ~Asked(answer))

SendBack ==
    /\ pc = "judge" /\ Problems /\ bounces = 0
    /\ pc' = "spawn" /\ bounces' = 1 /\ answer' = NoAnswer /\ found' = NothingFound
    /\ UNCHANGED <<untried, history, tree, staged, st, smokes, how>>

\* the second attempt stands: without its tests in order there is no round
Settle ==
    /\ pc = "judge" /\ (~Problems \/ bounces = 1)
    /\ UNCHANGED <<untried, history, tree, staged, st, smokes, Round>>
    /\ IF found.restored \/ found.lint \/ found.smoke THEN RaiseStop
       ELSE /\ UNCHANGED how
            /\ pc' = IF found.files # {} /\ RoundVerdict(answer) # "NEEDS_INFO"
                     THEN "add" ELSE "record"

\* commit_tests: git add, whose failure nothing on the way out handles, ...
Add ==
    /\ pc = "add"
    /\ UNCHANGED <<untried, history, tree, st, smokes>>
    /\ \/ staged' = found.files /\ pc' = "commit" /\ UNCHANGED <<Round, how>>
       \/ UNCHANGED staged /\ answer' = NoAnswer /\ End("none")

\* ... and git commit, which a hook may refuse
Commit ==
    /\ pc = "commit"
    /\ UNCHANGED <<tree, st, smokes, moves, Round>>
    /\ \/ /\ head' = [p \in Paths |-> IF p \in staged THEN tree[p] ELSE head[p]]
          /\ added' = [p \in New |-> IF p \in (staged \cap Existing) \ Tracked
                                     THEN "reviewer" ELSE added[p]]
          /\ touched' = touched \cup (staged \cap Existing)
          /\ untried' = IF Asked(answer) \/ found.cut THEN untried \cup staged
                        ELSE untried \ staged
          /\ staged' = {} /\ pc' = "record" /\ UNCHANGED how
       \/ RaiseStop /\ UNCHANGED <<head, added, touched, staged, untried>>

\* (mutant) a question adds nothing to the pending list
PendingKept(verdict) == IF verdict = "NEEDS_INFO" THEN st.pending ELSE {}

\* the files a question leaves uncommitted, for the next preflight to tolerate
Pending(verdict) == IF verdict = "NEEDS_INFO" THEN found.files ELSE {}

Record ==
    /\ pc = "record"
    /\ LET verdict == RoundVerdict(answer)
       IN  /\ st' = [st EXCEPT
                    !.test_files = IF verdict = "NEEDS_INFO" THEN @ ELSE @ \cup found.files,
                    !.pending = Pending(verdict),
                    !.running = FALSE,
                    !.needs_info_used = @ \/ verdict = "NEEDS_INFO",
                    !.rounds = @ + 1]
           /\ End(verdict)
    /\ UNCHANGED <<untried, history, tree, staged, smokes, answer>>

\* run_round's handler
Stopped ==
    /\ pc = "stopping"
    /\ \E stuck \in SUBSET Unfinished : DiscardLeftovers(stuck)
    /\ answer' = NoAnswer /\ End("stopped")
    /\ UNCHANGED <<untried, history, staged, smokes>>

Killed ==
    /\ pc # "idle" /\ answer' = NoAnswer /\ End("none")
    /\ UNCHANGED <<untried, history, tree, staged, st, smokes>>

\* between runs the author throws away whatever is not committed and not pending
AuthorCleans ==
    /\ pc = "idle" /\ ~ (Dirty \subseteq st.pending)
    /\ staged' = {}
    /\ tree' = [p \in Paths |-> IF p \in st.pending \ staged THEN tree[p] ELSE head[p]]
    /\ UNCHANGED <<untried, history, st, smokes, pc, Round, how>>

\* the author's commit of one path, whatever the tree had there: created, or deleted and created
\* again, it is the author's; deleted, it is nobody's; edited in place, whose it was
AuthorCommits ==
    /\ pc = "idle" /\ moves < MaxMoves
    /\ moves' = moves + 1
    /\ \E p \in New, by \in {"author", "nobody", "reviewer"} :
        /\ by # "author" => head[p] # "absent"
        /\ by = "reviewer" => added[p] = "reviewer"
        /\ LET to == IF by = "nobody" THEN "absent" ELSE "base"
           IN  head' = [head EXCEPT ![p] = to] /\ tree' = [tree EXCEPT ![p] = to]
        /\ added' = [added EXCEPT ![p] = by]
        /\ staged' = staged \ {p}
    /\ UNCHANGED <<untried, touched, st, smokes, pc, Round, how>>

Next ==
    \/ CleanUp \/ Begin \/ Spawn \/ Session \/ Check \/ Smoke \/ SendBack \/ Settle
    \/ Add \/ Commit \/ Record \/ Stopped \/ Killed \/ AuthorCleans
    \/ AuthorCommits

Spec == Init /\ [][Next]_vars

-----------------------------------------------------------------------------
(* Properties *)

TypeOK ==
    /\ head \in [Paths -> Content] /\ tree \in [Paths -> Content]
    /\ staged \subseteq Inside /\ st \in State /\ smokes \in BOOLEAN
    /\ pc \in {"idle", "spawn", "session", "answered", "smoke", "judge", "add", "commit",
               "record", "stopping"}
    /\ answer \in Answer /\ bounces \in {0, 1}
    /\ found \in [files : SUBSET Inside, restored : BOOLEAN, lint : BOOLEAN, smoke : BOOLEAN,
                  cut : BOOLEAN]
    /\ how \in {"none", "stopped"} \cup Verdicts /\ untried \subseteq Inside
    /\ added \in [New -> {"nobody", "reviewer", "author"}] /\ touched \subseteq Inside
    /\ moves \in 0..MaxMoves

(***************************************************************************)
(* Whatever the reviewer does, the author's files are what the author      *)
(* committed: never part of a test commit, and back in the tree when a     *)
(* round comes to commit or record.  A name the author has created since,  *)
(* or deleted and created again, is the author's, whoever had it before.   *)
(***************************************************************************)
AuthorsFilesStand ==
    \A p \in Outside \cup Suite \cup {q \in New : added[q] = "author"} :
        head[p] = "base" /\ (pc \in {"add", "commit", "record"} => tree[p] = "base")

(***************************************************************************)
(* A round that was recorded leaves a tree the next run accepts: what it   *)
(* did not commit is in the pending list.                                  *)
(***************************************************************************)
NextRunAccepts ==
    (pc = "idle" /\ Recorded) => Dirty \subseteq st.pending

(***************************************************************************)
(* README: the reviewer's tests are committed once they pass lint and a    *)
(* smoke run.  Lint always, with the exact content that is committed; the  *)
(* smoke run unless the reviewer asked and the rules made another verdict  *)
(* of it, or its report was cut short.                                     *)
(***************************************************************************)
CommittedWasChecked ==
    \A p \in New :
        /\ HasLint => head[p] \notin {"loose", "red"}
        /\ smokes /\ head[p] = "broken" => p \in untried

(***************************************************************************)
(* An approval has no blocking finding, and no acceptance criterion        *)
(* without a test or a reason but where the reviewer said NEEDS_INFO and   *)
(* had no question: the gaps of one that says it asks are not looked at.   *)
(***************************************************************************)
ApprovedIsCovered ==
    how = "APPROVE" =>
        ~answer.blocking /\ (~answer.gaps \/ (Asked(answer) /\ ~answer.questions))

(***************************************************************************)
(* run_round's docstring: whatever stops a round before the tests are      *)
(* committed leaves no half-written test files behind.  Said of the        *)
(* reviewer's files on the pattern that are there; files a refused commit  *)
(* left in the index are let off.                                          *)
(***************************************************************************)
NoHalfWritten ==
    (pc = "idle" /\ how = "stopped") =>
        Dirty \cap Existing \cap {p \in Names : added[p] # "author"}
            \subseteq st.pending \cup staged
=============================================================================
