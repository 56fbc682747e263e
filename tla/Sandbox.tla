------------------------------ MODULE Sandbox ------------------------------
(***************************************************************************)
(* Sandbox sessions (runners.py): the calls of Runner.run over one label,  *)
(* one after the other, by the ssh, the wsl and the local runner.  A       *)
(* session stages its inputs, has a script run on the host, takes the rows *)
(* of the results file back and builds the report from them.  Calls over   *)
(* the network fail and time out, the host kills a script, the process     *)
(* that waits for the session is killed; a script that nobody waits for    *)
(* goes on running, in directories the next session of the label uses.     *)
(***************************************************************************)
EXTENDS Naturals, Integers, Sequences, FiniteSets, SequencesExt

CONSTANTS
    NSteps,       \* the steps of every session: setup, build, test, new_test, less
    Transports,   \* the runners: a subset of {"ssh", "wsl", "local"}
    MaxSessions   \* bound: sessions of the label

ASSUME SandboxAssumption ==
    /\ NSteps \in Nat \ {0} /\ MaxSessions \in Nat
    /\ Transports \subseteq {"ssh", "wsl", "local"}

VARIABLES
    transport,  \* plat.runner
    pc,         \* where the caller is
    session,    \* the number of the session, 0 before the first
    results,    \* <label>.results in logs_dir
    res,        \* what the call that ran the script returned
    error,      \* the exception on its way to the caller
    answer,     \* what the last session gave its caller: the rows of a report, or no report
    inbox,      \* host: <label>-in, the session whose inputs it holds, 0 when absent
    rlogs,      \* host: <label>-logs and the results file in it
    clone,      \* host: the session that made the clone under <label>, 0 when absent
    at,         \* where the script of each session is
    overlap,    \* history: a script of an earlier session ran during this one
    leftover,   \* history: this session found the results of an earlier one on the host
    swept       \* history: the last session's clean-up went through

client == <<pc, session, results, res, error, answer>>
host   == <<inbox, rlogs, clone, at>>
vars   == <<transport, client, host, overlap, leftover, swept>>

-----------------------------------------------------------------------------
(* Data *)

Sessions == 1..MaxSessions

\* a line of the results file; `by` and `tree` (whose clone the step ran in) are not in it
Row == [step : 0..NSteps, ok : BOOLEAN, by : Sessions, tree : 0..MaxSessions]
NoDir == [dir |-> FALSE, file |-> FALSE, rows |-> <<>>]
Dir(rows) == [dir |-> TRUE, file |-> TRUE, rows |-> rows]
EmptyDir == [NoDir EXCEPT !.dir = TRUE]

\* a script: not started, at its first lines, cloning, at step i, sweeping, ended, or killed
Off == -3
Dead == -2
Fresh == -1
Cloning == 0
Sweeping == NSteps + 1
Ended == NSteps + 2
Live(s) == at[s] \in Fresh..Sweeping
OrphansLive == \E s \in Sessions \ {session} : Live(s)

Open == pc # "idle"
Errors == {"none", "RunnerError", "ProcTimeout"}
NoReport(kind) == [report |-> FALSE, error |-> kind, rows |-> <<>>]
Report(rows) == [report |-> TRUE, error |-> "none", rows |-> rows]

Init ==
    /\ transport \in Transports
    /\ pc = "idle" /\ session = 0 /\ results = NoDir /\ res = "none"
    /\ error = "none" /\ answer = NoReport("none")
    /\ inbox = 0 /\ rlogs = NoDir /\ clone = 0 /\ at = [s \in Sessions |-> Off]
    /\ overlap = FALSE /\ leftover = FALSE /\ swept = FALSE

-----------------------------------------------------------------------------
(* The caller: Runner.run *)

\* (mutant) the results of an earlier session of the label stay in the logs directory
StagedKeeping == results

\* stage_inputs: a stale results file is dropped
Staged == EmptyDir

\* Runner.run up to its first call on the host
Begin ==
    /\ ~Open /\ session < MaxSessions
    /\ session' = session + 1
    /\ results' = Staged
    /\ res' = "none" /\ error' = "none" /\ answer' = NoReport("none")
    /\ overlap' = (\E s \in Sessions : Live(s))
    /\ leftover' = rlogs.file
    /\ swept' = FALSE
    /\ pc' = CASE transport = "ssh" -> "bundle"
               [] transport = "wsl" -> "start"
               [] transport = "local" -> "worktree"
    /\ UNCHANGED <<transport, host>>

History == UNCHANGED <<transport, overlap, leftover, swept>>
\* raising inside the try block: the finally clause cleans up first
Raise(kind) == error' = kind /\ pc' = "cleanup"
\* an exception nothing on the way out of Runner.run handles
Escape(kind) ==
    /\ pc' = "idle" /\ error' = kind /\ answer' = NoReport(kind)
    /\ UNCHANGED <<session, results, res, host>> /\ History

\* git bundle create, before the try block
Bundle ==
    /\ pc = "bundle"
    /\ \/ /\ pc' = "mkdir"
          /\ UNCHANGED <<session, results, res, error, answer, host>> /\ History
       \/ Escape("RunnerError")
       \/ Escape("ProcTimeout")

\* ssh mkdir -p: what an earlier session left in the two directories stays there
Mkdir ==
    /\ pc = "mkdir"
    /\ UNCHANGED <<session, results, res, answer, inbox, clone, at>> /\ History
    /\ \/ /\ pc' = "upload" /\ UNCHANGED error
          /\ rlogs' = [rlogs EXCEPT !.dir = TRUE]
       \/ /\ \E kind \in {"RunnerError", "ProcTimeout"} : Raise(kind)
          /\ rlogs' \in {rlogs, [rlogs EXCEPT !.dir = TRUE]}

\* scp of bundle, script, commands and extra files
Upload ==
    /\ pc = "upload"
    /\ UNCHANGED <<session, results, res, answer, rlogs, clone, at>> /\ History
    /\ \/ pc' = "start" /\ inbox' = session /\ UNCHANGED error
       \/ /\ \E kind \in {"RunnerError", "ProcTimeout"} : Raise(kind)
          /\ inbox' \in {inbox, session}

\* the script is started, or the connection fails: only a timeout raises here, a failed
\* call goes on to fetch the logs
Start ==
    /\ pc = "start"
    /\ UNCHANGED <<session, results, error, answer, inbox, rlogs, clone>> /\ History
    /\ \/ pc' = "wait" /\ at' = [at EXCEPT ![session] = Fresh] /\ UNCHANGED res
       \/ pc' = "fetch" /\ res' = "failed" /\ UNCHANGED at

\* wsl asks for its paths first, one call each
Wslpath ==
    /\ pc = "start" /\ transport = "wsl"
    /\ \E kind \in {"RunnerError", "ProcTimeout"} : Escape(kind)

\* the call returns: the script ended, it was killed or the connection was lost, or the
\* session took too long; in the last two cases the script may well be running on
Return ==
    /\ pc = "wait"
    /\ UNCHANGED <<session, results, answer, host>> /\ History
    /\ \/ at[session] = Ended /\ res' = "ok" /\ pc' = "fetch" /\ UNCHANGED error
       \/ res' = "failed" /\ pc' = "fetch" /\ UNCHANGED error
       \/ Raise("RunnerError") /\ UNCHANGED res

\* scp of the logs fails: only a results file that is not there makes it an error
FetchFailed(copied) ==
    IF copied.file THEN pc' = "cleanup" /\ UNCHANGED error ELSE Raise("RunnerError")

\* the logs come back; wsl's script wrote them in logs_dir itself.  A copy that breaks off
\* leaves the small results file out, empty or whole
Fetch ==
    /\ pc = "fetch"
    /\ UNCHANGED <<session, res, answer, host>> /\ History
    /\ IF transport = "wsl"
       THEN pc' = "cleanup" /\ UNCHANGED <<results, error>>
       ELSE \/ /\ rlogs.dir /\ pc' = "cleanup" /\ UNCHANGED error
               /\ results' = IF rlogs.file THEN rlogs ELSE results
            \/ /\ results' \in {results} \cup
                     (IF rlogs.file THEN {Dir(<<>>), rlogs} ELSE {})
               /\ FetchFailed(results')
            \/ /\ Raise("ProcTimeout") /\ UNCHANGED results

\* the finally clauses: _cleanup of the ssh runner takes inbox, logs and clone away, whatever
\* happened, and only logs its failure; wsl leaves the host alone; local's worktree removal
\* may time out, and that exception replaces the report
Cleanup ==
    /\ pc = "cleanup" /\ pc' = "report"
    /\ UNCHANGED <<transport, session, results, res, answer, at, overlap, leftover>>
    /\ \/ /\ transport = "ssh"
          /\ inbox' = 0 /\ rlogs' = NoDir /\ clone' = 0 /\ swept' = TRUE
          /\ UNCHANGED error
       \/ UNCHANGED <<inbox, rlogs, clone, swept, error>>
       \/ /\ transport = "local" /\ error' = "ProcTimeout"
          /\ UNCHANGED <<inbox, rlogs, clone, swept>>

\* report_from_results gives a report: rows there are, and the clone did not fail
Built(rows) == rows # <<>> /\ \A i \in DOMAIN rows : rows[i].step # 0

\* the tail of run and report_from_results; the script's exit code counts only when there
\* is no results file
Conclude ==
    /\ pc = "report" /\ pc' = "idle"
    /\ answer' = IF error # "none" THEN NoReport(error)
                 ELSE IF Built(results.rows) THEN Report(results.rows)
                 ELSE NoReport("RunnerError")
    /\ UNCHANGED <<session, results, res, error, host>> /\ History

\* the process is killed: no finally clause runs, and the script does not know
Killed ==
    /\ Open /\ pc' = "idle"
    /\ UNCHANGED <<session, results, res, error, answer, host>> /\ History

-----------------------------------------------------------------------------
(* The local runner: no script, no label on the host *)

Worktree ==
    /\ pc = "worktree"
    /\ \/ /\ pc' = "steps" /\ results' = Dir(<<>>)
          /\ UNCHANGED <<session, res, error, answer, host>> /\ History
       \/ Escape("RunnerError")
       \/ Escape("ProcTimeout")

\* another step is run: none is left out and none comes after one that was not ok
StepsGoOn(rows) == Len(rows) < NSteps /\ \A i \in DOMAIN rows : rows[i].ok

LocalStep ==
    /\ pc = "steps"
    /\ UNCHANGED <<session, error, answer, host>> /\ History
    /\ IF StepsGoOn(results.rows)
       THEN /\ \E ok \in BOOLEAN :
                 results' = Dir(Append(results.rows,
                     [step |-> Len(results.rows) + 1, ok |-> ok, by |-> session, tree |-> session]))
            /\ UNCHANGED <<pc, res>>
       ELSE pc' = "cleanup" /\ res' = "ok" /\ UNCHANGED results

-----------------------------------------------------------------------------
(* The script on the host: SANDBOX_SCRIPT *)

\* what the script sees as its logs directory
Logs == IF transport = "wsl" THEN results ELSE rlogs
Write(logs) ==
    IF transport = "wsl" THEN results' = logs /\ UNCHANGED rlogs
                         ELSE rlogs' = logs /\ UNCHANGED results
\* appending to a file of a directory that is gone fails, and the script goes on
Written(row) == IF Logs.dir THEN Write(Dir(Append(Logs.rows, row))) ELSE UNCHANGED <<results, rlogs>>

ScriptMoves(s, to) ==
    /\ at' = [at EXCEPT ![s] = to]
    /\ UNCHANGED <<transport, pc, session, res, error, answer, inbox, leftover, swept>>
    /\ overlap' = (overlap \/ s # session)

\* (mutant) the results file of an earlier session is appended to
TruncatedNot == Logs

\* `: > "$RES"`
Truncated == Dir(<<>>)

\* the results file is emptied, the directory of the clone is made new
ScriptBegins(s) ==
    /\ at[s] = Fresh
    /\ IF Logs.dir THEN Write(Truncated) ELSE UNCHANGED <<results, rlogs>>
    /\ clone' = s
    /\ ScriptMoves(s, Cloning)

\* (mutant) a script whose clone failed just exits
AfterFailedCloneExit == Ended

\* `cleanup; exit 0` after a clone or checkout that failed
AfterFailedClone == Sweeping

\* the bundle and the steps' commands are there; wsl needs no upload
InputsThere == transport = "ssh" => inbox # 0

\* clone and checkout; git makes the directory when it has gone meanwhile
ScriptClones(s) ==
    /\ at[s] = Cloning
    /\ \/ /\ InputsThere
          /\ clone' = IF clone = 0 THEN s ELSE clone
          /\ UNCHANGED <<results, rlogs>>
          /\ ScriptMoves(s, 1)
       \/ /\ UNCHANGED clone
          /\ Written([step |-> 0, ok |-> FALSE, by |-> s, tree |-> clone])
          /\ ScriptMoves(s, AfterFailedClone)

\* `run_step i || { cleanup; exit 0; }`, one after the other
AfterStep(i, ok) == IF ok THEN i + 1 ELSE Sweeping

\* run_step: the command runs in whatever lies under the clone's path, with a time limit;
\* without a logs directory to redirect to a step does not run at all, and counts as failed
ScriptStep(s) ==
    /\ at[s] \in 1..NSteps /\ UNCHANGED clone
    /\ \E ok \in BOOLEAN :
         /\ ok => clone # 0 /\ InputsThere
         /\ Written([step |-> at[s], ok |-> ok, by |-> s, tree |-> clone])
         /\ ScriptMoves(s, AfterStep(at[s], ok /\ Logs.dir))

\* cleanup of the script: the clone goes, whoever made it
ScriptSweeps(s) ==
    /\ at[s] = Sweeping /\ clone' = 0
    /\ UNCHANGED <<results, rlogs>>
    /\ ScriptMoves(s, Ended)

\* the host kills it, or goes down
ScriptDies(s) ==
    /\ Live(s)
    /\ UNCHANGED <<results, rlogs, clone>>
    /\ ScriptMoves(s, Dead)

-----------------------------------------------------------------------------
CallerStep ==
    \/ Bundle \/ Mkdir \/ Upload \/ Wslpath \/ Start \/ Return \/ Fetch \/ Cleanup \/ Conclude
    \/ Worktree \/ LocalStep
ScriptGoesOn(s) == ScriptBegins(s) \/ ScriptClones(s) \/ ScriptStep(s) \/ ScriptSweeps(s)

Next ==
    \/ Begin
    \/ CallerStep
    \/ Killed
    \/ \E s \in Sessions : ScriptGoesOn(s) \/ ScriptDies(s)

Spec == Init /\ [][Next]_vars

\* every call of the caller has a timeout (scp one too, unless transfer_timeout_min is 0), and
\* every step of a script has one
Fairness ==
    /\ WF_vars(CallerStep)
    /\ \A s \in Sessions : WF_vars(ScriptGoesOn(s))
FairSpec == Spec /\ Fairness

-----------------------------------------------------------------------------
(* Properties *)

TypeOK ==
    /\ transport \in Transports
    /\ pc \in {"idle", "bundle", "mkdir", "upload", "start", "wait", "fetch", "cleanup",
               "report", "worktree", "steps"}
    /\ session \in 0..MaxSessions
    /\ \A l \in {results, rlogs} : {l.dir, l.file} \subseteq BOOLEAN /\ l.rows \in Seq(Row)
    /\ res \in {"none", "ok", "failed"} /\ error \in Errors
    /\ answer.report \in BOOLEAN /\ answer.error \in Errors /\ answer.rows \in Seq(Row)
    /\ inbox \in 0..MaxSessions /\ clone \in 0..MaxSessions
    /\ at \in [Sessions -> Off..Ended]
    /\ {overlap, leftover, swept} \subseteq BOOLEAN

Answered == ~Open /\ answer.report
OwnRow(row) == row.by = session /\ row.tree = session
NoStepFailed(rows) == \A i \in DOMAIN rows : rows[i].ok

(***************************************************************************)
(* A report is what its own session ran: with no script of an earlier      *)
(* session still running, the rows are those of this session's steps on    *)
(* its own checkout, in order, each after one that was ok -- unless the    *)
(* script call failed and an earlier session's results lay on the host.    *)
(***************************************************************************)
ReportIsOwn ==
    (Answered /\ ~overlap /\ (res = "ok" \/ ~leftover)) =>
        \A i \in DOMAIN answer.rows :
            /\ OwnRow(answer.rows[i]) /\ answer.rows[i].step = i
            /\ i < Len(answer.rows) => answer.rows[i].ok

(***************************************************************************)
(* When the script call returned 0, with no script of an earlier session   *)
(* running, a report without a failed step means that every step ran.      *)
(***************************************************************************)
CleanExitIsWhole ==
    (Answered /\ ~overlap /\ res = "ok" /\ NoStepFailed(answer.rows)) =>
        {answer.rows[i].step : i \in DOMAIN answer.rows} = 1..NSteps

(***************************************************************************)
(* The clean-up of an ssh session that went through holds: when all has    *)
(* come to rest neither inputs, logs nor clone are left on the host, even  *)
(* if the script outlived its connection -- unless the host killed one.    *)
(***************************************************************************)
HostEndsClean ==
    <>[]((swept /\ ~Open /\ \A s \in Sessions : at[s] # Dead) =>
            inbox = 0 /\ ~rlogs.dir /\ clone = 0)

(***************************************************************************)
(* docs/sandbox.md: the sandbox runs setup, build, test, new_test.  Said   *)
(* of every session: a report without a failed step means every step ran.  *)
(***************************************************************************)
PassMeansRun ==
    (Answered /\ NoStepFailed(answer.rows)) =>
        {answer.rows[i].step : i \in DOMAIN answer.rows} = 1..NSteps
=============================================================================
