----------------------------- MODULE Validation -----------------------------
(***************************************************************************)
(* One validation of an approved round, from its sandbox session to its    *)
(* entry in the state (validate.run_validation): when the session fails in *)
(* a test step, the reviewer's tests run once more on the base, a session  *)
(* of the diagnoser reads both outputs, and an issue may be opened (module *)
(* Issues).  What comes after the session is evidence: the session alone   *)
(* decides, and each of the three may fail in several ways.                *)
(***************************************************************************)
EXTENDS Issues

CONSTANTS
    Steps,        \* the configured steps: "new_test" and some of "setup", "build", "test"
    WantsFiles,   \* new_test names the reviewer's files through {files}
    RerunOnBase   \* [validate] rerun_on_base

ASSUME ValidationAssumption ==
    /\ Steps \subseteq {"setup", "build", "test", "new_test"} /\ "new_test" \in Steps
    /\ {WantsFiles, RerunOnBase} \subseteq BOOLEAN

VARIABLES
    at,      \* where run_validation is
    files,   \* the branch has reviewer test files
    which,   \* the steps this validation runs
    broken,  \* the step that failed on the branch, if one did
    base,    \* what the rerun on the base came to
    ended    \* how the last validation ended; timeout: a ProcTimeout went past its handlers

vvars == <<at, files, which, broken, base, ended>>
allVars == <<vars, vvars>>

Environment == {"setup", "build"}
TestSteps == {"test", "new_test"}

VInit ==
    /\ Init
    /\ at = "off" /\ files = FALSE /\ which = {} /\ broken = "" /\ base = "" /\ ended = ""

-----------------------------------------------------------------------------

\* what Runner.run can come to over these steps: a report whose last step failed, one without
\* a failed step, or an exception
Outcomes(steps) ==
    [kind : {"report"}, failed : steps, timedOut : BOOLEAN]
        \cup [kind : {"report", "RunnerError", "ProcTimeout"}, failed : {""}, timedOut : {FALSE}]

\* steps_with_files: without a file to name a new_test that asks for them is left out
WithFiles(steps, any) == IF WantsFiles /\ ~any THEN steps \ {"new_test"} ELSE steps

Finish(how) == at' = "off" /\ ended' = how /\ files' = FALSE /\ which' = {}

\* run_validation chooses its steps: `test` is left out when the baseline already ran it on this
\* tree; a change of kind docs runs nothing
Choose ==
    /\ at = "off" /\ pc = "idle" /\ validations < MaxValidations
    /\ UNCHANGED vars
    /\ broken' = "" /\ base' = ""
    /\ \E any, reused, docs \in BOOLEAN :
         LET steps == IF docs THEN {}
                      ELSE WithFiles(IF reused THEN Steps \ {"test"} ELSE Steps, any)
         IN  IF steps \cap TestSteps = {} THEN Finish("PASS")
             ELSE at' = "session" /\ files' = any /\ which' = steps /\ ended' = ""

\* (mutant) a failed setup is a failed validation
IsVerdictAlways(step) == TRUE

\* setup and build are the environment: no verdict
IsVerdict(step) == step \notin Environment

\* the session on the branch
Session ==
    /\ at = "session"
    /\ UNCHANGED <<vars, base>>
    /\ \E o \in Outcomes(which) :
         /\ broken' = o.failed
         /\ IF o.kind # "report" THEN Finish("error")
            ELSE IF o.failed = "" THEN Finish("PASS")
            ELSE IF ~IsVerdict(o.failed) THEN Finish("error")
            ELSE at' = "base" /\ UNCHANGED <<files, which, ended>>

\* only a RunnerError is turned into a reason
Escapes(kind) == kind = "ProcTimeout"

\* a report without a failed step may end before new_test
Usable(o) == o.kind = "report" /\ ~o.timedOut /\ o.failed \in {"", "new_test"}

\* rerun_on_base: no result is usable unless setup and build passed and new_test came to its end
Rerun ==
    /\ at = "base"
    /\ UNCHANGED <<vars, broken>>
    /\ \/ \* nothing to rerun, not asked to, or the files cannot be read
          base' = "not run" /\ at' = "diagnose" /\ UNCHANGED <<files, which, ended>>
       \/ /\ broken = "new_test" /\ RerunOnBase /\ files
          /\ \E o \in Outcomes(Steps \ {"test"}) :
               IF Escapes(o.kind) THEN base' = "" /\ Finish("timeout")
               ELSE /\ at' = "diagnose" /\ UNCHANGED <<files, which, ended>>
                    /\ base' \in (IF Usable(o) THEN {"usable"} ELSE {})
                                   \cup (IF Usable(o) /\ o.failed # "" THEN {} ELSE {"unavailable"})

\* (mutant) a diagnoser session that stops ends the run
DiagnosisLost == Finish("error") /\ UNCHANGED vars

\* _diagnose catches the Stop of its session, and takes an answer off the schema for none
DiagnosisMissing ==
    /\ at' = "issue" /\ UNCHANGED ended
    /\ Diagnose /\ failing' = {}

\* the diagnoser's session, and the failures of its answer that are bugs of the base
ReadEvidence ==
    /\ at = "diagnose"
    /\ files' = FALSE /\ which' = {} /\ base' = "" /\ UNCHANGED broken
    /\ \/ DiagnosisMissing
       \/ Diagnose /\ at' = "issue" /\ UNCHANGED ended

\* maybe_open, one step at a time, and the entry in the state
OpenIssue == at = "issue" /\ (Ask \/ Intend \/ Create \/ Keep \/ GiveUp) /\ UNCHANGED vvars
IssueTimesOut == at = "issue" /\ TimeOut /\ Finish("timeout") /\ UNCHANGED <<broken, base>>
RecordFail ==
    /\ at = "issue" /\ Record
    /\ Finish("FAIL") /\ UNCHANGED <<broken, base>>

\* killed, anywhere
DieAnywhere ==
    /\ at # "off" /\ Finish("killed")
    /\ \/ Die
       \/ /\ pc = "idle" /\ kills < MaxKills /\ kills' = kills + 1
          /\ UNCHANGED <<opened, issues, disk, pc, failing, link, answer, validations, resets>>
    /\ broken' = "" /\ base' = ""

ResetBetween == at = "off" /\ Reset /\ UNCHANGED vvars

VNext ==
    \/ Choose \/ Session \/ Rerun \/ ReadEvidence \/ OpenIssue \/ IssueTimesOut \/ RecordFail
    \/ DieAnywhere \/ ResetBetween

VSpec == VInit /\ [][VNext]_allVars

-----------------------------------------------------------------------------
(* Properties *)

(***************************************************************************)
(* The session on the branch decides, and nothing else: a validation is    *)
(* recorded as FAIL when a test step failed there, never for setup, build  *)
(* or the sandbox, and a PASS had no failed step.                          *)
(***************************************************************************)
EnvironmentIsNoVerdict ==
    /\ ended = "FAIL" => broken \in TestSteps
    /\ ended = "PASS" => broken = ""
    /\ broken \in Environment => ended = "error"

(***************************************************************************)
(* A test that failed on the branch is recorded whatever becomes of the    *)
(* rerun, the diagnosis and the issue: no error of theirs takes its place. *)
(* What can is a kill, and a command's timeout that nobody catches: on the *)
(* way to the sandbox of the rerun, of gh label list or gh issue create.   *)
(***************************************************************************)
FailStands == ended = "error" => broken \notin TestSteps

=============================================================================
