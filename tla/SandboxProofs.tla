--------------------------- MODULE SandboxProofs ---------------------------
(***************************************************************************)
(* Proofs about module Sandbox, for any number of steps and sessions and   *)
(* whichever runners there are: a report holds what its own session ran,   *)
(* and after a clean exit nothing is missing from it.                      *)
(***************************************************************************)
EXTENDS Sandbox, TLAPS

USE SandboxAssumption

-----------------------------------------------------------------------------
(* The inductive invariant *)

LogsDir == [dir : BOOLEAN, file : BOOLEAN, rows : Seq(Row)]
Answer == [report : BOOLEAN, error : Errors, rows : Seq(Row)]

\* TypeOK, with the records as records
TypedData ==
    /\ results \in LogsDir /\ rlogs \in LogsDir /\ answer \in Answer
    /\ overlap \in BOOLEAN /\ leftover \in BOOLEAN /\ swept \in BOOLEAN
Typed ==
    /\ transport \in Transports
    /\ pc \in {"idle", "bundle", "mkdir", "upload", "start", "wait", "fetch", "cleanup",
               "report", "worktree", "steps"}
    /\ session \in 0..MaxSessions
    /\ res \in {"none", "ok", "failed"} /\ error \in Errors
    /\ inbox \in 0..MaxSessions /\ clone \in 0..MaxSessions
    /\ at \in [Sessions -> Off..Ended]

\* the rows of this session, in order; a clone that failed has step 0
Own(rows) ==
    \A i \in DOMAIN rows :
        /\ OwnRow(rows[i])
        /\ rows[i].step \in {0, i} /\ (rows[i].step = 0 => ~rows[i].ok)
        /\ i < Len(rows) => rows[i].ok
Whole(rows) == NoStepFailed(rows) => Len(rows) = NSteps

\* the transport decides where the caller can be
Route ==
    /\ pc \in {"bundle", "mkdir", "upload"} => transport = "ssh"
    /\ pc \in {"start", "wait", "fetch"} => transport \in {"ssh", "wsl"}
    /\ pc \in {"worktree", "steps"} => transport = "local"
    /\ Open => session \in Sessions /\ ~answer.report

\* scripts run for the session that started them; one that exited cleanly came to its end
Scripts ==
    /\ \A s \in Sessions : s > session \/ transport = "local" => at[s] = Off
    /\ ~overlap => \A s \in Sessions \ {session} : ~Live(s)
    /\ pc \in {"bundle", "mkdir", "upload", "start"} => at[session] = Off
    /\ res = "ok" /\ transport # "local" => session \in Sessions /\ at[session] = Ended

\* the caller waits for the script of this session, or can still read its logs
Watched ==
    \/ transport = "ssh" /\ pc \in {"bundle", "mkdir", "upload", "start", "wait", "fetch"}
    \/ transport = "wsl" /\ session \in Sessions

\* what lies in the logs goes with where the script is, and the clone is its own
Fits(rows) ==
    /\ at[session] \in Cloning..Ended \/ ~leftover => Own(rows)
    /\ at[session] = Cloning => rows = <<>>
    /\ at[session] \in 1..NSteps => Len(rows) = at[session] - 1 /\ NoStepFailed(rows)
    /\ at[session] \in {Sweeping, Ended} => Whole(rows)
LogsFit ==
    Watched /\ ~overlap =>
        /\ Fits(Logs.rows)
        /\ at[session] \in Cloning..NSteps => clone = session

\* the directory of the logs is there for the script, and an absent file has no rows
LogsThere ==
    /\ transport = "ssh" /\ pc \in {"upload", "start", "wait", "fetch"} => rlogs.dir
    /\ transport = "wsl" /\ session \in Sessions => results.dir
    /\ ~rlogs.file => rlogs.rows = <<>>

\* what the caller has of the results, before it is an answer
Taken ==
    /\ pc \in {"bundle", "mkdir", "upload", "start", "wait", "fetch"} /\ transport = "ssh" =>
           results.rows = <<>>
    /\ pc = "steps" => Own(results.rows) /\ Len(results.rows) <= NSteps
    /\ pc \in {"cleanup", "report"} /\ transport # "wsl" /\ ~overlap =>
           /\ res = "ok" \/ ~leftover => Own(results.rows)
           /\ res = "ok" /\ results.rows # <<>> => Whole(results.rows)

Inv == Typed /\ TypedData /\ Route /\ Scripts /\ LogsFit /\ LogsThere /\ Taken /\ ReportIsOwn /\ CleanExitIsWhole

-----------------------------------------------------------------------------
(* Directories, answers and rows *)

\* The values the results directories and the answer are given, and their fields.
LEMMA Values ==
    /\ NoDir \in LogsDir /\ NoDir.dir = FALSE /\ NoDir.file = FALSE /\ NoDir.rows = <<>>
    /\ EmptyDir \in LogsDir /\ EmptyDir.dir = TRUE /\ EmptyDir.file = FALSE /\ EmptyDir.rows = <<>>
    /\ \A rows \in Seq(Row) : /\ Dir(rows) \in LogsDir /\ Dir(rows).dir = TRUE /\ Dir(rows).file = TRUE
                              /\ Dir(rows).rows = rows
                              /\ Report(rows) \in Answer /\ Report(rows).report = TRUE
                              /\ Report(rows).rows = rows
    /\ Dir(<<>>) \in LogsDir /\ Dir(<<>>).dir = TRUE /\ Dir(<<>>).file = TRUE /\ Dir(<<>>).rows = <<>>
    /\ \A kind \in Errors : NoReport(kind) \in Answer /\ NoReport(kind).report = FALSE
    /\ \A l \in LogsDir : /\ l.dir \in BOOLEAN /\ l.file \in BOOLEAN /\ l.rows \in Seq(Row)
                          /\ [l EXCEPT !.dir = TRUE] \in LogsDir
                          /\ [l EXCEPT !.dir = TRUE].dir = TRUE
                          /\ [l EXCEPT !.dir = TRUE].file = l.file
                          /\ [l EXCEPT !.dir = TRUE].rows = l.rows
    /\ \A a \in Answer : a.report \in BOOLEAN /\ a.rows \in Seq(Row)
<1>1. NoDir \in LogsDir /\ NoDir.dir = FALSE /\ NoDir.file = FALSE /\ NoDir.rows = <<>>
  BY DEF NoDir, LogsDir
<1>2. \A rows \in Seq(Row) : /\ Dir(rows) \in LogsDir /\ Dir(rows).dir = TRUE /\ Dir(rows).file = TRUE
                             /\ Dir(rows).rows = rows
  BY DEF Dir, LogsDir
<1>3. Dir(<<>>) \in LogsDir /\ Dir(<<>>).dir = TRUE /\ Dir(<<>>).file = TRUE /\ Dir(<<>>).rows = <<>>
  <2>1. <<>> \in Seq(Row)
    OBVIOUS
  <2> QED BY <1>2, <2>1
<1>4. \A rows \in Seq(Row) : /\ Report(rows) \in Answer /\ Report(rows).report = TRUE
                             /\ Report(rows).rows = rows
  BY DEF Report, Answer, Errors
<1>5. \A kind \in Errors : NoReport(kind) \in Answer /\ NoReport(kind).report = FALSE
  BY DEF NoReport, Answer
<1>6. \A l \in LogsDir : /\ l.dir \in BOOLEAN /\ l.file \in BOOLEAN /\ l.rows \in Seq(Row)
                         /\ [l EXCEPT !.dir = TRUE] \in LogsDir
                         /\ [l EXCEPT !.dir = TRUE].dir = TRUE
                         /\ [l EXCEPT !.dir = TRUE].file = l.file
                         /\ [l EXCEPT !.dir = TRUE].rows = l.rows
  BY DEF LogsDir
<1>7. EmptyDir \in LogsDir /\ EmptyDir.dir = TRUE /\ EmptyDir.file = FALSE /\ EmptyDir.rows = <<>>
  BY <1>1, <1>6 DEF EmptyDir
<1>8. \A a \in Answer : a.report \in BOOLEAN /\ a.rows \in Seq(Row)
  BY DEF Answer
<1> QED BY <1>1, <1>2, <1>3, <1>4, <1>5, <1>6, <1>7, <1>8

\* A row of this session that is the next one can be appended to rows without a failed step.
LEMMA OwnAppend ==
    ASSUME NEW rows \in Seq(Row), NEW row \in Row, Own(rows), NoStepFailed(rows), OwnRow(row),
           row.step \in {0, Len(rows) + 1}, row.step = 0 => ~row.ok
    PROVE  /\ Append(rows, row) \in Seq(Row) /\ Len(Append(rows, row)) = Len(rows) + 1
           /\ Own(Append(rows, row))
           /\ NoStepFailed(Append(rows, row)) <=> row.ok
<1> DEFINE new == Append(rows, row)
<1>1. new \in Seq(Row) /\ Len(new) = Len(rows) + 1 /\ DOMAIN new = 1..(Len(rows) + 1)
  OBVIOUS
<1>2. /\ \A i \in 1..Len(rows) : new[i] = rows[i]
      /\ new[Len(rows) + 1] = row /\ DOMAIN rows = 1..Len(rows)
  OBVIOUS
<1>3. Own(new)
  BY <1>1, <1>2 DEF Own, NoStepFailed
<1>4. NoStepFailed(new) <=> row.ok
  BY <1>1, <1>2 DEF NoStepFailed
<1> QED BY <1>1, <1>3, <1>4

\* No rows are nobody else's rows.
LEMMA NoRows ==
    /\ <<>> \in Seq(Row) /\ Len(<<>>) = 0 /\ DOMAIN <<>> = {}
    /\ Own(<<>>) /\ NoStepFailed(<<>>)
<1>1. <<>> \in Seq(Row) /\ Len(<<>>) = 0 /\ DOMAIN <<>> = {}
  OBVIOUS
<1> QED BY <1>1 DEF Own, NoStepFailed

\* Rows of this session without a failed step name one step each.
LEMMA WholeRows ==
    ASSUME NEW rows \in Seq(Row), Own(rows), Len(rows) = NSteps, NoStepFailed(rows)
    PROVE  {rows[i].step : i \in DOMAIN rows} = 1..NSteps
<1>1. DOMAIN rows = 1..NSteps
  OBVIOUS
<1>2. \A i \in 1..NSteps : rows[i].step = i
  BY <1>1 DEF Own, NoStepFailed
<1> QED BY <1>1, <1>2

-----------------------------------------------------------------------------
(* Every step keeps it *)

USE DEF Inv, Sessions, Off, Dead, Fresh, Cloning, Sweeping, Ended, Live, Open, Errors,
        client, host, Raise, Escape, History, Answered, OwnRow, Watched,
        Logs, Write, Written, ScriptMoves

\* A row that is written is appended, where there is a directory.
LEMMA LogsWritten ==
    ASSUME Typed, TypedData, transport' = transport, NEW row \in Row, Written(row)
    PROVE  /\ Logs \in LogsDir
           /\ Logs.dir => /\ Logs'.rows = Append(Logs.rows, row)
                          /\ Logs'.dir = TRUE /\ Logs'.file = TRUE
           /\ ~Logs.dir => UNCHANGED Logs
           /\ results' \in LogsDir /\ rlogs' \in LogsDir
           /\ IF transport = "wsl" THEN UNCHANGED rlogs ELSE UNCHANGED results
<1>1. Logs \in LogsDir /\ Logs.rows \in Seq(Row)
  BY Values DEF TypedData
<1>2. Append(Logs.rows, row) \in Seq(Row)
  BY <1>1
<1>3. /\ Logs.dir => Logs' = Dir(Append(Logs.rows, row))
      /\ ~Logs.dir => Logs' = Logs
      /\ IF transport = "wsl" THEN UNCHANGED rlogs ELSE UNCHANGED results
  OBVIOUS
<1>4. LET new == Dir(Append(Logs.rows, row))
      IN new \in LogsDir /\ new.rows = Append(Logs.rows, row) /\ new.dir = TRUE /\ new.file = TRUE
  BY <1>2, Values
<1>5. Logs' \in LogsDir
  BY <1>1, <1>3, <1>4
<1>6. results' \in LogsDir /\ rlogs' \in LogsDir
  BY <1>3, <1>5 DEF TypedData
<1> QED BY <1>1, <1>3, <1>4, <1>6

\* A session begins with an empty results directory.
LEMMA BeginKeeps ==
    ASSUME Inv, Begin
    PROVE  Inv'
<1>1. Typed'
  BY Values, NoRows DEF Begin, Staged, Typed
<1>2. TypedData'
  BY Values, NoRows DEF Begin, Staged, Typed, TypedData
<1>3. (Route /\ Scripts)'
  BY Values, NoRows DEF Begin, Staged, Typed, Route, Scripts
<1>4. LogsFit'
  <2>1. /\ session' \in Sessions /\ at'[session'] = Off /\ UNCHANGED <<transport, rlogs, at>>
        /\ results' = EmptyDir /\ leftover' = rlogs.file
    BY DEF Begin, Staged, Typed, Scripts
  <2>2. results'.rows = <<>> /\ (~leftover' => rlogs'.rows = <<>>)
    BY <2>1, Values DEF LogsThere
  <2>3. ~leftover' \/ transport = "wsl" => DOMAIN Logs'.rows = {}
    BY <2>1, <2>2, NoRows
  <2>4. ~leftover' => Own(Logs.rows)'
    BY <2>3 DEF Own
  <2>5. Fits(Logs.rows)'
    BY <2>1, <2>4 DEF Fits, Own
  <2> QED BY <2>1, <2>5 DEF LogsFit
<1>5. LogsThere'
  BY Values, NoRows DEF Begin, Staged, Typed, TypedData, LogsThere
<1>6. Taken'
  BY Values, NoRows DEF Begin, Staged, Typed, TypedData, Taken, Own, Whole, NoStepFailed
<1>7. (ReportIsOwn /\ CleanExitIsWhole)'
  BY Values, NoRows DEF Begin, Staged, Typed, TypedData, ReportIsOwn, CleanExitIsWhole
<1> QED BY <1>1, <1>2, <1>3, <1>4, <1>5, <1>6, <1>7

\* The bundle is made.
LEMMA BundleKeeps ==
    ASSUME Inv, Bundle
    PROVE  Inv'
<1>1. (Typed /\ TypedData)'
  BY Values DEF Bundle, Typed, TypedData
<1>2. (Route /\ Scripts)'
  BY Values DEF Bundle, Typed, Route, Scripts
<1>3. (LogsFit /\ LogsThere)'
  BY Values DEF Bundle, Typed, TypedData, Route, Scripts, LogsThere, LogsFit, Fits, Own, Whole,
         NoStepFailed
<1>4. Taken'
  BY Values DEF Bundle, Typed, TypedData, Taken, Own, Whole, NoStepFailed
<1>5. (ReportIsOwn /\ CleanExitIsWhole)'
  BY Values DEF Bundle, Typed, TypedData, ReportIsOwn, CleanExitIsWhole
<1> QED BY <1>1, <1>2, <1>3, <1>4, <1>5

\* The directory is there for the upload, and nothing in it has changed.
LEMMA MkdirLogs ==
    ASSUME Inv, Mkdir
    PROVE LogsFit' /\ LogsThere'
<1>1. session \in Sessions /\ transport = "ssh" /\ at[session] = Off
  BY DEF Mkdir, Route, Scripts
<1>2. UNCHANGED <<session, results, at, overlap, leftover, transport, clone>> /\ pc = "mkdir" /\ pc' \in {"upload", "cleanup"}
  BY DEF Mkdir
<1>3. /\ rlogs' \in {rlogs, [rlogs EXCEPT !.dir = TRUE]}
      /\ pc' = "upload" => rlogs' = [rlogs EXCEPT !.dir = TRUE]
  BY DEF Mkdir
<1>4. rlogs \in LogsDir
  BY DEF TypedData
<1>5. rlogs'.rows = rlogs.rows /\ rlogs'.file = rlogs.file
  BY <1>3, <1>4 DEF LogsDir
<1>6. pc' = "upload" => rlogs'.dir
  BY <1>3, <1>4 DEF LogsDir
<1>7. LogsFit'
  BY <1>1, <1>2, <1>5 DEF LogsFit, Fits, Own, Whole, NoStepFailed, Typed
<1>8. LogsThere'
  BY <1>1, <1>2, <1>5, <1>6 DEF LogsThere
<1> QED BY <1>7, <1>8

\* The directories are made on the host.
LEMMA MkdirKeeps ==
    ASSUME Inv, Mkdir
    PROVE  Inv'
<1>1. LogsFit' /\ LogsThere'
  BY MkdirLogs
<1>2. (Typed /\ TypedData)'
  BY Values DEF Mkdir, Typed, TypedData
<1>3. (Route /\ Scripts)'
  BY Values DEF Mkdir, Typed, Route, Scripts
<1>4. Taken'
  BY Values DEF Mkdir, Typed, TypedData, Route, Taken, Own, Whole, NoStepFailed
<1>5. (ReportIsOwn /\ CleanExitIsWhole)'
  BY Values DEF Mkdir, Typed, TypedData, ReportIsOwn, CleanExitIsWhole
<1> QED BY <1>1, <1>2, <1>3, <1>4, <1>5

\* The inputs are uploaded.
LEMMA UploadKeeps ==
    ASSUME Inv, Upload
    PROVE  Inv'
<1>1. (Typed /\ TypedData)'
  BY Values DEF Upload, Typed, TypedData
<1>2. (Route /\ Scripts)'
  BY Values DEF Upload, Typed, Route, Scripts
<1>3. (LogsFit /\ LogsThere)'
  BY Values DEF Upload, Typed, TypedData, LogsFit, Fits, Own, Whole, NoStepFailed, Route, LogsThere
<1>4. Taken'
  BY Values DEF Upload, Typed, TypedData, Route, Taken, Own, Whole, NoStepFailed
<1>5. (ReportIsOwn /\ CleanExitIsWhole)'
  BY Values DEF Upload, Typed, TypedData, ReportIsOwn, CleanExitIsWhole
<1> QED BY <1>1, <1>2, <1>3, <1>4, <1>5

\* The script that is started is the first of its session.
LEMMA StartScripts ==
    ASSUME Inv, Start
    PROVE Typed' /\ Scripts'
<1>1. session \in Sessions /\ transport \in {"ssh", "wsl"} /\ at[session] = Off
  BY DEF Start, Route, Scripts
<1>2. UNCHANGED <<transport, session, error, inbox, clone, overlap>>
  BY DEF Start
<1>3. CASE pc' = "wait" /\ at' = [at EXCEPT ![session] = Fresh] /\ UNCHANGED res
  <2>1. Typed'
    BY <1>1, <1>2, <1>3 DEF Typed
  <2>2. Scripts'
    BY <1>1, <1>2, <1>3 DEF Typed, Scripts
  <2> QED BY <2>1, <2>2
<1>4. CASE pc' = "fetch" /\ res' = "failed" /\ UNCHANGED at
  <2>1. Typed'
    BY <1>1, <1>2, <1>4 DEF Typed
  <2>2. Scripts'
    BY <1>1, <1>2, <1>4 DEF Typed, Scripts
  <2> QED BY <2>1, <2>2
<1> QED BY <1>3, <1>4 DEF Start

\* The script is started.
LEMMA StartKeeps ==
    ASSUME Inv, Start
    PROVE  Inv'
<1>1. Typed' /\ Scripts'
  BY StartScripts
<1>2. TypedData'
  BY Values DEF Start, Typed, TypedData
<1>3. Route'
  BY Values DEF Start, Typed, Route
<1>4. (LogsFit /\ LogsThere)'
  BY Values DEF Start, Typed, TypedData, Route, Scripts, LogsFit, Fits, Own, Whole, NoStepFailed,
         LogsThere
<1>5. Taken'
  BY Values DEF Start, Typed, TypedData, Taken, Own, Whole, NoStepFailed
<1>6. (ReportIsOwn /\ CleanExitIsWhole)'
  BY Values DEF Start, Typed, TypedData, ReportIsOwn, CleanExitIsWhole
<1> QED BY <1>1, <1>2, <1>3, <1>4, <1>5, <1>6

\* A path cannot be had.
LEMMA WslpathKeeps ==
    ASSUME Inv, Wslpath
    PROVE  Inv'
<1>1. (Typed /\ TypedData)'
  BY Values DEF Wslpath, Typed, TypedData
<1>2. (Route /\ Scripts)'
  BY Values DEF Wslpath, Typed, Route, Scripts
<1>3. (LogsFit /\ LogsThere)'
  BY Values DEF Wslpath, Typed, TypedData, LogsFit, Fits, Own, Whole, NoStepFailed, LogsThere
<1>4. Taken'
  BY Values DEF Wslpath, Typed, TypedData, Taken, Own, Whole, NoStepFailed
<1>5. (ReportIsOwn /\ CleanExitIsWhole)'
  BY Values DEF Wslpath, Typed, TypedData, ReportIsOwn, CleanExitIsWhole
<1> QED BY <1>1, <1>2, <1>3, <1>4, <1>5

\* The call returns: cleanly only when the script came to its end.
LEMMA ReturnKeeps ==
    ASSUME Inv, Return
    PROVE  Inv'
<1>1. (Typed /\ TypedData)'
  BY Values DEF Return, Typed, TypedData
<1>2. (Route /\ Scripts)'
  BY Values DEF Return, Typed, Route, TypedData, Scripts
<1>3. (LogsFit /\ LogsThere)'
  BY Values DEF Return, Typed, TypedData, LogsFit, Fits, Own, Whole, NoStepFailed, LogsThere
<1>4. Taken'
  BY Values DEF Return, Typed, TypedData, Route, Taken, Own, Whole, NoStepFailed
<1>5. (ReportIsOwn /\ CleanExitIsWhole)'
  BY Values DEF Return, Typed, TypedData, ReportIsOwn, CleanExitIsWhole
<1> QED BY <1>1, <1>2, <1>3, <1>4, <1>5

\* What is fetched is what the script of this session wrote, or nothing.
LEMMA FetchTaken ==
    ASSUME Inv, Fetch
    PROVE LogsFit' /\ Taken'
<1>1. /\ pc = "fetch" /\ pc' = "cleanup" /\ transport \in {"ssh", "wsl"} /\ session \in Sessions
      /\ UNCHANGED <<session, res, rlogs, clone, at, transport, overlap, leftover>>
  BY DEF Fetch, FetchFailed, Route
<1>2. CASE transport = "wsl"
  <2>1. UNCHANGED results
    BY <1>2 DEF Fetch
  <2>2. LogsFit'
    BY <1>1, <1>2, <2>1 DEF LogsFit, Fits, Own, Whole, NoStepFailed
  <2>3. Taken'
    BY <1>1, <1>2 DEF Taken
  <2> QED BY <2>2, <2>3
<1>3. CASE transport = "ssh"
  <2>1. LogsFit'
    BY <1>1, <1>3 DEF LogsFit
  <2>2. results.rows = <<>>
    BY <1>1, <1>3 DEF Taken
  <2>3. results' = results \/ results' = rlogs \/ results' = Dir(<<>>)
    BY <1>3 DEF Fetch
  <2>4. results'.rows = <<>> \/ results'.rows = rlogs.rows
    BY <2>2, <2>3, Values
  <2>5. CASE results'.rows = <<>>
    <3>1. DOMAIN results'.rows = {}
      BY <2>5, NoRows
    <3>2. Own(results.rows)'
      BY <3>1 DEF Own
    <3> QED BY <1>1, <2>1, <2>5, <3>1 DEF Taken, Own
  <2>6. CASE results'.rows = rlogs.rows
    <3>1. ~overlap => Fits(rlogs.rows)
      BY <1>1, <1>3 DEF LogsFit
    <3>2. res = "ok" => at[session] = Ended
      BY <1>3 DEF Scripts
    <3>3. ~overlap => /\ res = "ok" \/ ~leftover => Own(rlogs.rows)
                      /\ res = "ok" => Whole(rlogs.rows)
      BY <3>1, <3>2 DEF Fits
    <3>4. /\ Own(rlogs.rows) => Own(results.rows)'
          /\ Whole(rlogs.rows) => Whole(results.rows)'
      BY <1>1, <2>6 DEF Own, Whole, NoStepFailed
    <3> QED BY <1>1, <2>1, <3>3, <2>6 DEF Taken, Own, Whole, NoStepFailed
  <2> QED BY <2>1, <2>4, <2>5, <2>6
<1> QED BY <1>1, <1>2, <1>3

\* The logs are fetched.
LEMMA FetchKeeps ==
    ASSUME Inv, Fetch
    PROVE  Inv'
<1>1. LogsFit' /\ Taken'
  BY FetchTaken
<1>2. (Typed /\ TypedData)'
  BY Values, NoRows DEF Fetch, FetchFailed, Typed, TypedData
<1>3. (Route /\ Scripts)'
  BY Values, NoRows DEF Fetch, FetchFailed, Typed, Route, Scripts
<1>4. LogsThere'
  BY Values, NoRows DEF Fetch, FetchFailed, Typed, TypedData, LogsThere
<1>5. (ReportIsOwn /\ CleanExitIsWhole)'
  BY Values, NoRows DEF Fetch, FetchFailed, Typed, TypedData, ReportIsOwn, CleanExitIsWhole
<1> QED BY <1>1, <1>2, <1>3, <1>4, <1>5

\* Cleaning up leaves no directory or the one there was.
LEMMA CleanupTypes ==
    ASSUME Inv, Cleanup
    PROVE TypedData'
<1>1. UNCHANGED <<results, answer, overlap, leftover>>
  BY DEF Cleanup
<1>2. rlogs' = rlogs \/ rlogs' = NoDir
  BY DEF Cleanup
<1>3. swept' = swept \/ swept' = TRUE
  BY Zenon DEF Cleanup
<1>4. swept' \in BOOLEAN
  BY <1>3 DEF TypedData
<1>5. rlogs' \in LogsDir
  BY <1>2, Values DEF TypedData
<1> QED BY <1>1, <1>4, <1>5 DEF TypedData

\* The caller cleans up.
LEMMA CleanupKeeps ==
    ASSUME Inv, Cleanup
    PROVE  Inv'
<1>1. TypedData'
  BY CleanupTypes
<1>2. Typed'
  BY Values DEF Cleanup, Typed
<1>3. (Route /\ Scripts)'
  BY Values DEF Cleanup, Typed, Route, Scripts
<1>4. (LogsFit /\ LogsThere)'
  BY Values DEF Cleanup, Typed, TypedData, LogsFit, Fits, Own, Whole, NoStepFailed, LogsThere
<1>5. Taken'
  BY Values DEF Cleanup, Typed, TypedData, Taken, Own, Whole, NoStepFailed
<1>6. (ReportIsOwn /\ CleanExitIsWhole)'
  BY Values DEF Cleanup, Typed, TypedData, ReportIsOwn, CleanExitIsWhole
<1> QED BY <1>1, <1>2, <1>3, <1>4, <1>5, <1>6

\* A report is built from rows of this session, and after a clean exit from all of them.
LEMMA ConcludeAnswer ==
    ASSUME Inv, Conclude
    PROVE ReportIsOwn' /\ CleanExitIsWhole'
<1>1. /\ pc = "report" /\ pc' = "idle" /\ session \in Sessions
      /\ UNCHANGED <<session, results, res, at, transport, overlap, leftover>>
  BY DEF Conclude, Route
<1>2. CASE answer'.report = FALSE
  BY <1>2 DEF ReportIsOwn, CleanExitIsWhole
<1>3. CASE Built(results.rows) /\ answer' = Report(results.rows)
  <2>1. results.rows \in Seq(Row) /\ answer'.rows = results.rows
    BY <1>3, Values DEF TypedData
  <2>2. ~overlap => /\ res = "ok" \/ ~leftover => Own(results.rows)
                    /\ res = "ok" => Whole(results.rows)
    <3>1. CASE transport = "wsl"
      BY <1>1, <3>1 DEF LogsFit, Fits, Scripts
    <3>2. CASE transport # "wsl"
      BY <1>1, <1>3, <3>2 DEF Taken, Built
    <3> QED BY <3>1, <3>2
  <2>3. ~overlap /\ (res = "ok" \/ ~leftover) =>
           \A i \in DOMAIN results.rows :
              /\ OwnRow(results.rows[i]) /\ results.rows[i].step = i
              /\ i < Len(results.rows) => results.rows[i].ok
    BY <1>3, <2>2 DEF Own, Built
  <2>4. ~overlap /\ res = "ok" /\ NoStepFailed(results.rows) =>
           {results.rows[i].step : i \in DOMAIN results.rows} = 1..NSteps
    BY <2>1, <2>2, WholeRows DEF Whole
  <2>5. ReportIsOwn'
    BY <1>1, <2>1, <2>3 DEF ReportIsOwn
  <2>6. CleanExitIsWhole'
    BY <1>1, <2>1, <2>4 DEF CleanExitIsWhole, NoStepFailed
  <2> QED BY <2>5, <2>6
<1>4. answer'.report = FALSE \/ (Built(results.rows) /\ answer' = Report(results.rows))
  BY Values DEF Conclude, Typed
<1> QED BY <1>2, <1>3, <1>4

\* The session is answered.
LEMMA ConcludeKeeps ==
    ASSUME Inv, Conclude
    PROVE  Inv'
<1>1. ReportIsOwn' /\ CleanExitIsWhole'
  BY ConcludeAnswer
<1>2. (Typed /\ TypedData)'
  BY Values DEF Conclude, Built, Typed, TypedData
<1>3. (Route /\ Scripts)'
  BY Values DEF Conclude, Built, Typed, Route, Scripts
<1>4. (LogsFit /\ LogsThere)'
  BY Values DEF Conclude, Built, Typed, TypedData, LogsFit, Fits, Own, Whole, NoStepFailed,
         LogsThere
<1>5. Taken'
  BY Values DEF Conclude, Built, Typed, TypedData, Taken, Own, Whole, NoStepFailed
<1> QED BY <1>1, <1>2, <1>3, <1>4, <1>5

\* The caller is killed.
LEMMA KilledKeeps ==
    ASSUME Inv, Killed
    PROVE  Inv'
<1>1. (Typed /\ TypedData)'
  BY Values DEF Killed, Typed, TypedData
<1>2. (Route /\ Scripts)'
  BY Values DEF Killed, Typed, Route, Scripts
<1>3. (LogsFit /\ LogsThere)'
  BY Values DEF Killed, Typed, TypedData, LogsFit, Fits, Own, Whole, NoStepFailed, LogsThere
<1>4. Taken'
  BY Values DEF Killed, Typed, TypedData, Taken, Own, Whole, NoStepFailed
<1>5. (ReportIsOwn /\ CleanExitIsWhole)'
  BY Values DEF Killed, Typed, TypedData, Route, ReportIsOwn, CleanExitIsWhole
<1> QED BY <1>1, <1>2, <1>3, <1>4, <1>5

\* The local runner makes its worktree.
LEMMA WorktreeKeeps ==
    ASSUME Inv, Worktree
    PROVE  Inv'
<1>1. (Typed /\ TypedData)'
  BY Values, NoRows DEF Worktree, Typed, TypedData
<1>2. (Route /\ Scripts)'
  BY Values, NoRows DEF Worktree, Typed, Route, Scripts
<1>3. (LogsFit /\ LogsThere)'
  BY Values, NoRows DEF Worktree, Typed, TypedData, Route, LogsFit, Fits, Own, Whole,
         NoStepFailed, LogsThere
<1>4. Taken'
  BY Values, NoRows DEF Worktree, Typed, TypedData, Taken, Own, Whole, NoStepFailed
<1>5. (ReportIsOwn /\ CleanExitIsWhole)'
  BY Values, NoRows DEF Worktree, Typed, TypedData, ReportIsOwn, CleanExitIsWhole
<1> QED BY <1>1, <1>2, <1>3, <1>4, <1>5

\* The local runner appends one row of its own per step.
LEMMA LocalStepRows ==
    ASSUME Inv, LocalStep
    PROVE TypedData' /\ Taken'
<1>1. /\ pc = "steps" /\ transport = "local" /\ session \in Sessions
      /\ results.rows \in Seq(Row) /\ Own(results.rows) /\ Len(results.rows) <= NSteps
      /\ UNCHANGED <<transport, session, overlap, leftover, swept, rlogs, answer>>
  BY Values DEF LocalStep, Route, TypedData, Taken
<1>2. CASE StepsGoOn(results.rows)
  <2>1. PICK ok \in BOOLEAN :
            results' = Dir(Append(results.rows,
                         [step |-> Len(results.rows) + 1, ok |-> ok, by |-> session, tree |-> session]))
    BY <1>2 DEF LocalStep
  <2> DEFINE row == [step |-> Len(results.rows) + 1, ok |-> ok, by |-> session, tree |-> session]
  <2>2. row \in Row /\ OwnRow(row) /\ row.step = Len(results.rows) + 1
    BY <1>1, <1>2 DEF Row, StepsGoOn
  <2>3. NoStepFailed(results.rows) /\ Len(results.rows) < NSteps
    BY <1>2 DEF StepsGoOn, NoStepFailed
  <2>4. /\ Append(results.rows, row) \in Seq(Row) /\ Own(Append(results.rows, row))
        /\ Len(Append(results.rows, row)) = Len(results.rows) + 1
    BY <1>1, <2>2, <2>3, OwnAppend
  <2>5. results' = Dir(Append(results.rows, row))
    BY <2>1
  <2> HIDE DEF row
  <2>6. results' \in LogsDir /\ results'.rows = Append(results.rows, row)
    BY <2>4, <2>5, Values
  <2>7. TypedData'
    BY <1>1, <2>6 DEF TypedData
  <2>8. pc' = "steps"
    BY <1>1, <1>2 DEF LocalStep
  <2>9. Len(results'.rows) <= NSteps
    BY <1>1, <2>3, <2>4, <2>6
  <2>10. Own(results.rows)'
    BY <1>1, <2>4, <2>6 DEF Own
  <2>11. Taken'
    BY <1>1, <2>8, <2>9, <2>10 DEF Taken, Own
  <2> QED BY <2>7, <2>11
<1>3. CASE ~StepsGoOn(results.rows)
  <2>1. pc' = "cleanup" /\ UNCHANGED results
    BY <1>3 DEF LocalStep
  <2>2. Whole(results.rows)
    BY <1>1, <1>3 DEF StepsGoOn, Whole, NoStepFailed
  <2>3. TypedData'
    BY <1>1, <2>1 DEF TypedData
  <2>4. Taken'
    BY <1>1, <2>1, <2>2 DEF Taken, Own, Whole, NoStepFailed
  <2> QED BY <2>3, <2>4
<1> QED BY <1>2, <1>3

\* The local runner runs a step.
LEMMA LocalStepKeeps ==
    ASSUME Inv, LocalStep
    PROVE  Inv'
<1>1. TypedData' /\ Taken'
  BY LocalStepRows
<1>2. Typed'
  BY Values DEF LocalStep, StepsGoOn, Typed
<1>3. (Route /\ Scripts)'
  BY Values DEF LocalStep, StepsGoOn, Typed, Route, TypedData, Scripts
<1>4. (LogsFit /\ LogsThere)'
  BY Values DEF LocalStep, StepsGoOn, Typed, TypedData, Route, LogsFit, Fits, Own, Whole,
         NoStepFailed, LogsThere
<1>5. (ReportIsOwn /\ CleanExitIsWhole)'
  BY Values DEF LocalStep, StepsGoOn, Typed, TypedData, ReportIsOwn, CleanExitIsWhole
<1> QED BY <1>1, <1>2, <1>3, <1>4, <1>5

\* The script of this session empties the results file.
LEMMA ScriptBeginsLogs ==
    ASSUME Inv, NEW s \in Sessions, ScriptBegins(s)
    PROVE LogsFit'
<1>1. /\ UNCHANGED <<transport, pc, session, leftover>> /\ at[s] = Fresh /\ clone' = s
      /\ at' = [at EXCEPT ![s] = Cloning]
      /\ overlap' = (overlap \/ s # session)
  BY DEF ScriptBegins
<1>2. CASE Watched /\ ~overlap /\ s = session
  <2>1. Logs.dir
    BY <1>1, <1>2 DEF LogsThere, Scripts
  <2>2. Logs'.rows = <<>>
    BY <1>1, <2>1, Values DEF ScriptBegins, Truncated
  <2>3. at'[session] = Cloning
    BY <1>1, <1>2 DEF Typed
  <2>4. DOMAIN Logs'.rows = {}
    BY <2>2, NoRows
  <2>5. Fits(Logs.rows)'
    BY <1>1, <2>2, <2>3, <2>4 DEF Fits, Own
  <2> QED BY <1>1, <1>2, <2>5 DEF LogsFit
<1>3. CASE ~(Watched /\ ~overlap /\ s = session)
  BY <1>1, <1>3 DEF LogsFit
<1> QED BY <1>2, <1>3

\* A script begins.
LEMMA ScriptBeginsKeeps ==
    ASSUME Inv, NEW s \in Sessions, ScriptBegins(s)
    PROVE  Inv'
<1>1. LogsFit'
  BY ScriptBeginsLogs
<1>2. (Typed /\ TypedData)'
  BY Values, NoRows DEF ScriptBegins, Truncated, Typed, TypedData
<1>3. (Route /\ Scripts)'
  BY Values, NoRows DEF ScriptBegins, Truncated, Typed, Route, TypedData, Scripts
<1>4. LogsThere'
  BY Values, NoRows DEF ScriptBegins, Truncated, Typed, TypedData, LogsThere
<1>5. Taken'
  <2>1. transport # "local" /\ at[s] = Fresh
    BY DEF ScriptBegins, Scripts
  <2>2. transport = "ssh" => UNCHANGED results
    BY DEF ScriptBegins
  <2>3. overlap' = FALSE => overlap = FALSE
    BY DEF ScriptBegins, TypedData
  <2>4. UNCHANGED <<transport, pc, session, res, leftover>>
    BY DEF ScriptBegins
  <2> QED BY <2>1, <2>2, <2>3, <2>4 DEF Taken, Own, Whole, NoStepFailed, Route, Typed
<1>6. (ReportIsOwn /\ CleanExitIsWhole)'
  BY Values, NoRows DEF ScriptBegins, Truncated, Typed, TypedData, ReportIsOwn, CleanExitIsWhole
<1> QED BY <1>1, <1>2, <1>3, <1>4, <1>5, <1>6

\* It clones into a directory of its own, and a clone that failed is one row and the end.
LEMMA ScriptClonesLogs ==
    ASSUME Inv, NEW s \in Sessions, ScriptClones(s)
    PROVE  TypedData' /\ Scripts' /\ LogsFit' /\ LogsThere'
<1> DEFINE row == [step |-> 0, ok |-> FALSE, by |-> s, tree |-> clone]
<1>1. /\ UNCHANGED <<transport, pc, session, res, answer, leftover, swept>> /\ at[s] = Cloning
      /\ overlap' = (overlap \/ s # session)
  BY DEF ScriptClones
<1>2. row \in Row /\ row.step = 0 /\ ~row.ok /\ row.by = s /\ row.tree = clone
  BY DEF Row, Typed
<1> HIDE DEF row
<1>3. overlap' \in BOOLEAN
  BY <1>1 DEF TypedData
<1>4. ASSUME NEW to \in {1, Sweeping}, at' = [at EXCEPT ![s] = to]
      PROVE  Scripts'
  <2>1. \A t \in Sessions : at'[t] = IF t = s THEN to ELSE at[t]
    BY <1>4 DEF Typed
  <2>2. transport # "local" /\ s <= session
    BY <1>1 DEF Scripts, Typed
  <2>3. \A t \in Sessions : t > session \/ transport = "local" => at'[t] = Off
    BY <2>1, <2>2 DEF Scripts, Typed
  <2>4. ~overlap' => ~overlap /\ s = session
    BY <1>1
  <2>5. ~overlap' => \A t \in Sessions \ {session} : ~Live(t)'
    BY <2>1, <2>4 DEF Scripts
  <2>6. pc \in {"bundle", "mkdir", "upload", "start"} => at'[session] = Off
    BY <1>1, <2>1 DEF Scripts, Route
  <2>7. res = "ok" => session \in Sessions /\ at'[session] = Ended
    BY <1>1, <2>1, <2>2 DEF Scripts
  <2> QED BY <1>1, <2>2, <2>3, <2>5, <2>6, <2>7 DEF Scripts
<1>5. CASE UNCHANGED <<results, rlogs>> /\ clone' = (IF clone = 0 THEN s ELSE clone)
           /\ at' = [at EXCEPT ![s] = 1]
  <2>1. TypedData'
    BY <1>1, <1>3, <1>5 DEF TypedData
  <2>2. LogsThere'
    BY <1>1, <1>5 DEF LogsThere
  <2>3. LogsFit'
    <3>1. CASE Watched /\ ~overlap /\ s = session
      <4>1. Logs.rows = <<>> /\ clone = session
        BY <1>1, <3>1 DEF LogsFit, Fits
      <4>2. /\ clone' = session' /\ at'[session'] = 1 /\ Logs'.rows = <<>>
        BY <1>1, <1>5, <3>1, <4>1 DEF Typed
      <4>3. DOMAIN Logs'.rows = {} /\ Len(Logs'.rows) = 0
        BY <4>2, NoRows
      <4>4. Fits(Logs.rows)'
        BY <4>2, <4>3 DEF Fits, Own, NoStepFailed
      <4> QED BY <4>2, <4>4 DEF LogsFit
    <3>2. CASE ~(Watched /\ ~overlap /\ s = session)
      BY <1>1, <3>2 DEF LogsFit
    <3> QED BY <3>1, <3>2
  <2> QED BY <1>4, <1>5, <2>1, <2>2, <2>3
<1>6. CASE UNCHANGED clone /\ Written(row) /\ at' = [at EXCEPT ![s] = Sweeping]
  <2>1. /\ results' \in LogsDir /\ rlogs' \in LogsDir
        /\ Logs.dir => Logs'.rows = Append(Logs.rows, row) /\ Logs'.dir = TRUE /\ Logs'.file = TRUE
        /\ ~Logs.dir => UNCHANGED Logs
        /\ IF transport = "wsl" THEN UNCHANGED rlogs ELSE UNCHANGED results
    BY <1>1, <1>2, <1>6, LogsWritten
  <2>2. TypedData'
    BY <1>1, <1>3, <2>1 DEF TypedData
  <2>3. LogsThere'
    BY <1>1, <2>1 DEF LogsThere
  <2>4. LogsFit'
    <3>1. CASE Watched /\ ~overlap /\ s = session
      <4>1. Logs.rows = <<>> /\ clone = session
        BY <1>1, <3>1 DEF LogsFit, Fits
      <4>2. Logs.dir
        BY <1>1, <3>1 DEF LogsThere, Scripts
      <4>3. Logs'.rows = Append(<<>>, row) /\ OwnRow(row)
        BY <1>2, <2>1, <3>1, <4>1, <4>2
      <4>4. Own(Logs'.rows) /\ ~NoStepFailed(Logs'.rows)
        BY <1>2, <4>3, NoRows, OwnAppend
      <4>5. at'[session'] = Sweeping
        BY <1>1, <1>6, <3>1 DEF Typed
      <4>6. Fits(Logs.rows)'
        BY <1>1, <4>4, <4>5 DEF Fits, Own, Whole, NoStepFailed
      <4> QED BY <4>5, <4>6 DEF LogsFit
    <3>2. CASE ~(Watched /\ ~overlap /\ s = session)
      BY <1>1, <3>2 DEF LogsFit
    <3> QED BY <3>1, <3>2
  <2> QED BY <1>4, <1>6, <2>2, <2>3, <2>4
<1> QED BY <1>5, <1>6 DEF ScriptClones, AfterFailedClone, row

\* A script clones.
LEMMA ScriptClonesKeeps ==
    ASSUME Inv, NEW s \in Sessions, ScriptClones(s)
    PROVE  Inv'
<1>1. TypedData' /\ Scripts' /\ LogsFit' /\ LogsThere'
  BY ScriptClonesLogs
<1>2. Typed'
  BY Values, NoRows DEF ScriptClones, InputsThere, AfterFailedClone, Typed, TypedData, Route,
         Scripts
<1>3. Route'
  BY Values, NoRows DEF ScriptClones, InputsThere, AfterFailedClone, Typed, Route
<1>4. Taken'
  <2>1. transport # "local" /\ at[s] = Cloning
    BY DEF ScriptClones, Scripts
  <2>2. transport = "ssh" => UNCHANGED results
    BY DEF ScriptClones
  <2>3. overlap' = FALSE => overlap = FALSE
    BY DEF ScriptClones, TypedData
  <2>4. UNCHANGED <<transport, pc, session, res, leftover>>
    BY DEF ScriptClones
  <2> QED BY <2>1, <2>2, <2>3, <2>4 DEF Taken, Own, Whole, NoStepFailed, Route, Typed
<1>5. ReportIsOwn'
  BY Values, NoRows DEF ScriptClones, InputsThere, AfterFailedClone, Typed, TypedData, ReportIsOwn
<1>6. CleanExitIsWhole'
  BY Values, NoRows DEF ScriptClones, InputsThere, AfterFailedClone, Typed, TypedData, Route,
         Scripts, CleanExitIsWhole
<1> QED BY <1>1, <1>2, <1>3, <1>4, <1>5, <1>6

\* It writes the next row, and goes on only if that step was ok.
LEMMA ScriptStepLogs ==
    ASSUME Inv, NEW s \in Sessions, ScriptStep(s)
    PROVE  TypedData' /\ LogsFit' /\ LogsThere' /\ Taken'
<1>1. PICK ok \in BOOLEAN :
        /\ ok => clone # 0 /\ InputsThere
        /\ Written([step |-> at[s], ok |-> ok, by |-> s, tree |-> clone])
        /\ ScriptMoves(s, AfterStep(at[s], ok /\ Logs.dir))
  BY DEF ScriptStep
<1> DEFINE row == [step |-> at[s], ok |-> ok, by |-> s, tree |-> clone]
<1>2. /\ UNCHANGED <<transport, pc, session, res, answer, leftover, swept, clone>>
      /\ at[s] \in 1..NSteps /\ overlap' = (overlap \/ s # session)
      /\ at' = [at EXCEPT ![s] = AfterStep(at[s], ok /\ Logs.dir)]
  BY <1>1 DEF ScriptStep
<1>3. row \in Row /\ row.step = at[s] /\ row.ok = ok /\ row.by = s /\ row.tree = clone
  BY <1>2 DEF Row, Typed
<1>4. Written(row)
  BY <1>1
<1> HIDE DEF row
<1>5. /\ results' \in LogsDir /\ rlogs' \in LogsDir
      /\ Logs.dir => Logs'.rows = Append(Logs.rows, row) /\ Logs'.dir = TRUE /\ Logs'.file = TRUE
      /\ ~Logs.dir => UNCHANGED Logs
      /\ IF transport = "wsl" THEN UNCHANGED rlogs ELSE UNCHANGED results
  BY <1>2, <1>3, <1>4, LogsWritten
<1>6. overlap' \in BOOLEAN
  BY <1>2 DEF TypedData
<1>7. TypedData'
  BY <1>2, <1>5, <1>6 DEF TypedData
<1>8. LogsThere'
  BY <1>2, <1>5 DEF LogsThere
<1>9. LogsFit'
  <2>1. CASE Watched /\ ~overlap /\ s = session
    <3>1. /\ clone = session /\ Own(Logs.rows) /\ NoStepFailed(Logs.rows)
          /\ Len(Logs.rows) = at[s] - 1
      BY <1>2, <2>1 DEF LogsFit, Fits
    <3>2. Logs.dir /\ Logs.rows \in Seq(Row)
      <4>1. Logs.dir
        BY <1>2, <2>1 DEF LogsThere, Scripts
      <4>2. Logs.rows \in Seq(Row)
        BY Values DEF TypedData
      <4> QED BY <4>1, <4>2
    <3>3. Logs'.rows = Append(Logs.rows, row) /\ OwnRow(row) /\ row.step = Len(Logs.rows) + 1
      BY <1>2, <1>3, <1>5, <2>1, <3>1, <3>2
    <3>4. /\ Own(Logs'.rows) /\ Len(Logs'.rows) = at[s]
          /\ NoStepFailed(Logs'.rows) <=> row.ok
      <4>1. row.step # 0 /\ at[s] = Len(Logs.rows) + 1
        BY <1>2, <1>3, <3>1, <3>2
      <4> HIDE DEF Logs
      <4>2. /\ Own(Append(Logs.rows, row)) /\ Len(Append(Logs.rows, row)) = Len(Logs.rows) + 1
            /\ NoStepFailed(Append(Logs.rows, row)) <=> row.ok
        BY <1>3, <3>1, <3>2, <3>3, <4>1, OwnAppend
      <4> QED BY <3>3, <4>1, <4>2
    <3>5. at'[session'] = AfterStep(at[s], ok)
      BY <1>2, <2>1, <3>2 DEF Typed, AfterStep
    <3>6. CASE ok
      <4>1. at'[session'] = at[s] + 1 /\ Len(Logs'.rows) = at[s] /\ NoStepFailed(Logs'.rows)
        BY <1>3, <3>4, <3>5, <3>6 DEF AfterStep
      <4>2. Own(Logs.rows)' /\ NoStepFailed(Logs.rows)'
        BY <1>2, <3>4, <4>1 DEF Own, NoStepFailed
      <4>3. at[s] \in 1..NSteps /\ (at'[session'] = Sweeping => Len(Logs'.rows) = NSteps)
        BY <1>2, <4>1
      <4>4. Fits(Logs.rows)'
        BY <4>1, <4>2, <4>3 DEF Fits, Own, Whole, NoStepFailed
      <4> QED BY <1>2, <3>1, <4>4 DEF LogsFit
    <3>7. CASE ~ok
      <4>1. at'[session'] = Sweeping /\ ~NoStepFailed(Logs'.rows)
        BY <1>3, <3>4, <3>5, <3>7 DEF AfterStep
      <4>2. Fits(Logs.rows)'
        BY <1>2, <3>4, <4>1 DEF Fits, Own, Whole, NoStepFailed
      <4> QED BY <1>2, <3>1, <4>2 DEF LogsFit
    <3> QED BY <3>6, <3>7
  <2>2. CASE ~(Watched /\ ~overlap /\ s = session)
    BY <1>2, <2>2 DEF LogsFit
  <2> QED BY <2>1, <2>2
<1>10. Taken'
  <2>1. transport # "local"
    BY <1>2 DEF Scripts
  <2>2. transport = "ssh" => UNCHANGED results
    BY <1>5
  <2>3. overlap' = FALSE => overlap = FALSE
    BY <1>2 DEF TypedData
  <2> QED BY <1>2, <2>1, <2>2, <2>3 DEF Taken, Own, Whole, NoStepFailed, Route, Typed
<1> QED BY <1>7, <1>8, <1>9, <1>10

\* A script runs a step.
LEMMA ScriptStepKeeps ==
    ASSUME Inv, NEW s \in Sessions, ScriptStep(s)
    PROVE  Inv'
<1>1. TypedData' /\ LogsFit' /\ LogsThere' /\ Taken'
  BY ScriptStepLogs
<1>2. Typed'
  BY Values DEF ScriptStep, AfterStep, InputsThere, Typed
<1>3. (Route /\ Scripts)'
  BY Values DEF ScriptStep, AfterStep, InputsThere, Typed, Route, TypedData, Scripts
<1>4. (ReportIsOwn /\ CleanExitIsWhole)'
  BY Values DEF ScriptStep, AfterStep, InputsThere, Typed, TypedData, ReportIsOwn, CleanExitIsWhole
<1> QED BY <1>1, <1>2, <1>3, <1>4

\* A script sweeps.
LEMMA ScriptSweepsKeeps ==
    ASSUME Inv, NEW s \in Sessions, ScriptSweeps(s)
    PROVE  Inv'
<1>1. (Typed /\ TypedData)'
  BY Values DEF ScriptSweeps, Typed, TypedData
<1>2. (Route /\ Scripts)'
  BY Values DEF ScriptSweeps, Typed, Route, TypedData, Scripts
<1>3. LogsFit'
  <2>1. /\ UNCHANGED <<transport, pc, session, leftover, results, rlogs>>
        /\ at[s] = Sweeping /\ at' = [at EXCEPT ![s] = Ended]
        /\ overlap' = (overlap \/ s # session)
    BY DEF ScriptSweeps
  <2>2. CASE Watched /\ ~overlap /\ s = session
    <3>1. Own(Logs.rows) /\ Whole(Logs.rows) /\ at'[session] = Ended
      BY <2>1, <2>2 DEF LogsFit, Fits, Typed
    <3>2. Fits(Logs.rows)'
      BY <2>1, <3>1 DEF Fits, Own, Whole, NoStepFailed
    <3> QED BY <2>1, <3>1, <3>2 DEF LogsFit
  <2>3. CASE ~(Watched /\ ~overlap /\ s = session)
    BY <2>1, <2>3 DEF LogsFit
  <2> QED BY <2>2, <2>3
<1>4. LogsThere'
  BY Values DEF ScriptSweeps, Typed, TypedData, LogsThere
<1>5. Taken'
  BY Values DEF ScriptSweeps, Typed, TypedData, Taken, Own, Whole, NoStepFailed
<1>6. (ReportIsOwn /\ CleanExitIsWhole)'
  BY Values DEF ScriptSweeps, Typed, TypedData, ReportIsOwn, CleanExitIsWhole
<1> QED BY <1>1, <1>2, <1>3, <1>4, <1>5, <1>6

\* A script is killed.
LEMMA ScriptDiesKeeps ==
    ASSUME Inv, NEW s \in Sessions, ScriptDies(s)
    PROVE  Inv'
<1>1. (Typed /\ TypedData)'
  BY Values DEF ScriptDies, Typed, TypedData
<1>2. (Route /\ Scripts)'
  BY Values DEF ScriptDies, Typed, Route, TypedData, Scripts
<1>3. (LogsFit /\ LogsThere)'
  BY Values DEF ScriptDies, Typed, TypedData, Route, Scripts, LogsFit, Fits, Own, Whole,
         NoStepFailed, LogsThere
<1>4. Taken'
  BY Values DEF ScriptDies, Typed, TypedData, Taken, Own, Whole, NoStepFailed
<1>5. ReportIsOwn'
  BY Values DEF ScriptDies, Typed, TypedData, ReportIsOwn
<1>6. CleanExitIsWhole'
  BY Values DEF ScriptDies, Typed, TypedData, CleanExitIsWhole
<1> QED BY <1>1, <1>2, <1>3, <1>4, <1>5, <1>6

\* There was no session at first.
LEMMA InitInv ==
    Init => Inv
<1> SUFFICES ASSUME Init
             PROVE  Inv
  OBVIOUS
<1>1. Typed /\ TypedData
  <2>1. Typed
    BY DEF Init, Typed
  <2>2. TypedData
    BY Values DEF Init, TypedData
  <2> QED BY <2>1, <2>2
<1>2. Route /\ Scripts /\ LogsThere /\ Taken
  BY Values DEF Init, Route, Scripts, LogsThere, Taken
<1>3. LogsFit /\ ReportIsOwn /\ CleanExitIsWhole
  BY Values DEF Init, LogsFit, ReportIsOwn, CleanExitIsWhole
<1> QED BY <1>1, <1>2, <1>3

\* The invariant is inductive.
LEMMA NextKeeps ==
    Inv /\ [Next]_vars => Inv'
<1> SUFFICES ASSUME Inv, [Next]_vars
             PROVE  Inv'
  OBVIOUS
<1>1. CASE Begin
  BY <1>1, BeginKeeps
<1>2. CASE CallerStep
  BY <1>2, BundleKeeps, MkdirKeeps, UploadKeeps, WslpathKeeps, StartKeeps, ReturnKeeps, FetchKeeps,
     CleanupKeeps, ConcludeKeeps, WorktreeKeeps, LocalStepKeeps DEF CallerStep
<1>3. CASE Killed
  BY <1>3, KilledKeeps
<1>4. ASSUME NEW s \in Sessions, ScriptGoesOn(s) \/ ScriptDies(s)
      PROVE  Inv'
  BY <1>4, ScriptBeginsKeeps, ScriptClonesKeeps, ScriptStepKeeps, ScriptSweepsKeeps,
     ScriptDiesKeeps DEF ScriptGoesOn
<1>5. CASE UNCHANGED vars
  <2>1. (Typed /\ TypedData /\ Route /\ Scripts /\ LogsThere)'
    BY <1>5 DEF vars, Typed, TypedData, Route, Scripts, LogsThere
  <2>2. (LogsFit /\ Taken)'
    BY <1>5 DEF vars, LogsFit, Taken, Fits, Own, Whole, NoStepFailed
  <2>3. (ReportIsOwn /\ CleanExitIsWhole)'
    BY <1>5 DEF vars, ReportIsOwn, CleanExitIsWhole, NoStepFailed
  <2> QED BY <2>1, <2>2, <2>3
<1> QED BY <1>1, <1>2, <1>3, <1>4, <1>5 DEF Next

\* It holds of every behaviour.
LEMMA InvHolds ==
    Spec => []Inv
  BY InitInv, NextKeeps, PTL DEF Spec

-----------------------------------------------------------------------------
(* What follows from it *)

\* The types of the caller's variables and of what lies on the host.
THEOREM TypesHold ==
    Spec => []TypeOK
<1>1. Inv => TypeOK
  BY DEF Typed, TypedData, TypeOK, LogsDir, Answer
<1> QED BY <1>1, InvHolds, PTL

\* A report is what its own session ran, on its own checkout, in order (Runner.run,
\* report_from_results, SANDBOX_SCRIPT): with no earlier script still running, unless the script
\* call failed and the results of an earlier session lay on the host.
THEOREM ReportIsOwnHolds ==
    Spec => []ReportIsOwn
  BY InvHolds, PTL DEF Inv

\* After a script call that returned 0 a report without a failed step is a report of every step.
THEOREM CleanExitIsWholeHolds ==
    Spec => []CleanExitIsWhole
  BY InvHolds, PTL DEF Inv

=============================================================================
