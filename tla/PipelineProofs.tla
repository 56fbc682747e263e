--------------------------- MODULE PipelineProofs ---------------------------
(***************************************************************************)
(* Proofs about module Pipeline, for every value of its constants: its     *)
(* types; a run that dies without a result is told from one that ended; no *)
(* reviewer file is ever left in the tree without the state file knowing   *)
(* about it; the reviewer is asked once; what is recorded stays recorded;  *)
(* the reviewer's commits are known by the ids the branch has them under;  *)
(* the runs keep the promise of Review, and READY TO MERGE names a head    *)
(* that its last round approved and its last validation passed.  Under     *)
(* TreeIsOurs: READY TO MERGE is earned, no commit of the author's gets    *)
(* there without the existing suite, and a run pushes nothing but what it  *)
(* reviewed and the reviewer's own commit.                                 *)
(***************************************************************************)
EXTENDS Pipeline, FiniteSetTheorems, TLAPS

(* The records of state.json *)

\* What the fields of a state may be taken to be.
LEMMA StateFields ==
    ASSUME NEW s \in State
    PROVE  /\ s.rounds \in Seq(Round) /\ s.validations \in Seq(Validation)
           /\ s.fixes \in Nat /\ s.test_commits \in SUBSET Nat /\ s.last_exit \in -1..3
           /\ s.needs_info_used \in BOOLEAN /\ s.pending \in BOOLEAN
           /\ s.reviewer_running \in BOOLEAN /\ s.stage \in Stages
  BY DEF State

\* A state stays one when a field takes a value of the field's type.
LEMMA StateUpdates ==
    ASSUME NEW s \in State
    PROVE  /\ \A x \in Stages : [s EXCEPT !.stage = x] \in State
           /\ \A x \in -1..3 : [s EXCEPT !.last_exit = x] \in State
           /\ \A x \in Seq(Round) : [s EXCEPT !.rounds = x] \in State
           /\ \A x \in Seq(Validation) : [s EXCEPT !.validations = x] \in State
           /\ \A x \in Nat : [s EXCEPT !.fixes = x] \in State
           /\ \A x \in Nat : [s EXCEPT !.head_sha = x] \in State
           /\ \A x \in Nat : [s EXCEPT !.baseline_sha = x] \in State
           /\ \A x \in SUBSET Nat : [s EXCEPT !.test_commits = x] \in State
           /\ \A x \in Verdicts \cup Results \cup {""} : [s EXCEPT !.last_verdict = x] \in State
           /\ \A x \in BOOLEAN : [s EXCEPT !.needs_info_used = x] \in State
           /\ \A x \in BOOLEAN : [s EXCEPT !.force_push = x] \in State
           /\ \A x \in BOOLEAN : [s EXCEPT !.reviewer_running = x] \in State
           /\ \A x \in BOOLEAN : [s EXCEPT !.pending = x] \in State
           /\ \A x \in {0, 1} : [s EXCEPT !.pr_number = x] \in State
<1>1. \A x \in Stages : [s EXCEPT !.stage = x] \in State
  BY DEF State
<1>2. \A x \in -1..3 : [s EXCEPT !.last_exit = x] \in State
  BY DEF State
<1>3. \A x \in Seq(Round) : [s EXCEPT !.rounds = x] \in State
  BY DEF State
<1>4. \A x \in Seq(Validation) : [s EXCEPT !.validations = x] \in State
  BY DEF State
<1>5. \A x \in Nat : [s EXCEPT !.fixes = x] \in State
  BY DEF State
<1>6. \A x \in Nat : [s EXCEPT !.head_sha = x] \in State
  BY DEF State
<1>7. \A x \in Nat : [s EXCEPT !.baseline_sha = x] \in State
  BY DEF State
<1>8. \A x \in SUBSET Nat : [s EXCEPT !.test_commits = x] \in State
  BY DEF State
<1>9. \A x \in Verdicts \cup Results \cup {""} : [s EXCEPT !.last_verdict = x] \in State
  BY DEF State
<1>10. \A x \in BOOLEAN : [s EXCEPT !.needs_info_used = x] \in State
  BY DEF State
<1>11. \A x \in BOOLEAN : [s EXCEPT !.force_push = x] \in State
  BY DEF State
<1>12. \A x \in BOOLEAN : [s EXCEPT !.reviewer_running = x] \in State
  BY DEF State
<1>13. \A x \in BOOLEAN : [s EXCEPT !.pending = x] \in State
  BY DEF State
<1>14. \A x \in {0, 1} : [s EXCEPT !.pr_number = x] \in State
  BY DEF State
<1> QED BY <1>1, <1>2, <1>3, <1>4, <1>5, <1>6, <1>7,
           <1>8, <1>9, <1>10, <1>11, <1>12, <1>13, <1>14

\* set_stage keeps a state one.
LEMMA SetStageType ==
    ASSUME NEW s \in State, NEW stage \in Stages, NEW code \in -1..3
    PROVE  SetStage(s, stage, code) \in State
<1> DEFINE s1 == [s EXCEPT !.stage = stage]
           s2 == [s1 EXCEPT !.last_exit = code]
<1>1. s1 \in State
  BY StateUpdates
<1>2. s2 \in State
  BY <1>1, StateUpdates
<1> QED BY <1>2 DEF SetStage

\* So does taking back what an unfinished session left.
LEMMA SessionForgottenType ==
    ASSUME NEW s \in State
    PROVE  SessionForgotten(s) \in State
<1> DEFINE s1 == [s EXCEPT !.reviewer_running = FALSE]
           s2 == [s1 EXCEPT !.pending = FALSE]
<1>1. s1 \in State
  BY StateUpdates
<1>2. s2 \in State
  BY <1>1, StateUpdates
<1> QED BY <1>2 DEF SessionForgotten

\* So does starting the review over.
LEMMA RestartedType ==
    ASSUME NEW s \in State
    PROVE  Restarted(s) \in State
<1> DEFINE s1 == [s EXCEPT !.rounds = <<>>]
           s2 == [s1 EXCEPT !.test_commits = {}]
           s3 == [s2 EXCEPT !.fixes = 0]
           s4 == [s3 EXCEPT !.needs_info_used = FALSE]
           s5 == [s4 EXCEPT !.last_verdict = ""]
           s6 == [s5 EXCEPT !.baseline_sha = 0]
           s7 == [s6 EXCEPT !.force_push = TRUE]
<1>1. <<>> \in Seq(Round)
  OBVIOUS
<1>2. s1 \in State
  BY <1>1, StateUpdates
<1>3. s2 \in State
  BY <1>1, <1>2, StateUpdates
<1>4. s3 \in State
  BY <1>1, <1>3, StateUpdates
<1>5. s4 \in State
  BY <1>1, <1>4, StateUpdates
<1>6. s5 \in State
  BY <1>1, <1>5, StateUpdates
<1>7. s6 \in State
  BY <1>1, <1>6, StateUpdates
<1>8. s7 \in State
  BY <1>1, <1>7, StateUpdates
<1> QED BY <1>8 DEF Restarted

\* So does recording a round.
LEMMA WithRoundType ==
    ASSUME NEW s \in State,
           NEW r \in InProgress
    PROVE  WithRound(s, r) \in State
<1> DEFINE s1 == [s EXCEPT !.rounds = Append(@, [verdict |-> r.verdict, head_sha |-> r.head_sha,
                                                 test_commit |-> r.test_commit])]
           s2 == [s1 EXCEPT !.last_verdict = r.verdict]
           s3 == [s2 EXCEPT !.pending = (r.verdict = "NEEDS_INFO" /\ r.files)]
           s4 == [s3 EXCEPT !.needs_info_used = (s3.needs_info_used \/ r.verdict = "NEEDS_INFO")]
           s5 == [s4 EXCEPT !.reviewer_running = FALSE]
<1>1. r.verdict \in Verdicts /\ r.files \in BOOLEAN
  BY DEF InProgress
<1>2. [verdict |-> r.verdict, head_sha |-> r.head_sha, test_commit |-> r.test_commit] \in Round
  BY DEF Round, InProgress
<1>3. Append(s.rounds, [verdict |-> r.verdict, head_sha |-> r.head_sha,
                       test_commit |-> r.test_commit]) \in Seq(Round)
  BY <1>2, StateFields
<1>4. s1 \in State
  BY <1>1, <1>2, <1>3, StateUpdates
<1>5. s2 \in State
  BY <1>1, <1>2, <1>3, <1>4, StateUpdates
<1>6. s3 \in State
  BY <1>1, <1>2, <1>3, <1>5, StateUpdates
<1>7. s4 \in State
  BY <1>1, <1>2, <1>3, <1>6, StateUpdates
<1>8. s5 \in State
  BY <1>1, <1>2, <1>3, <1>7, StateUpdates
<1> QED BY <1>8 DEF WithRound

\* The results a run, or `revali stop`, records.
LEMMA ResultTypes ==
    ASSUME NEW s \in State
    PROVE  /\ SetStage(s, "stopped", 1) \in State
           /\ SetStage(s, "needs_action", 2) \in State
           /\ SetStage(s, "ready_to_merge", 0) \in State
           /\ \A code \in 0..3 : SetStage(s, StageForExit(code), code) \in State
<1>1. {"stopped", "needs_action", "ready_to_merge"} \subseteq Stages
  BY DEF Stages
<1>2. \A code \in 0..3 : StageForExit(code) \in Stages
  BY DEF Stages, StageForExit
<1>3. \A code \in 0..3 : code \in -1..3
  OBVIOUS
<1>4. 0 \in 0..3 /\ 1 \in 0..3 /\ 2 \in 0..3
  OBVIOUS
<1> QED BY <1>1, <1>2, <1>3, <1>4, SetStageType

\* A validation in the books.
LEMMA WithValidationType ==
    ASSUME NEW s \in State, NEW r \in Results, ctxHead \in Nat
    PROVE  WithValidation(s, r) \in State
<1> DEFINE v == [round |-> Len(s.rounds), result |-> r, head_sha |-> ctxHead]
<1>1. s.rounds \in Seq(Round) /\ s.validations \in Seq(Validation)
  BY StateFields
<1>2. v \in Validation
  BY <1>1 DEF Validation
<1>3. Append(s.validations, v) \in Seq(Validation)
  <2> HIDE DEF v
  <2> QED BY <1>1, <1>2
<1>4. [s EXCEPT !.validations = Append(@, v)] \in State
  <2> HIDE DEF v
  <2> QED BY <1>3, StateUpdates
<1>5. [s EXCEPT !.validations = Append(@, v), !.last_verdict = r] \in State
  <2> HIDE DEF v
  <2> QED BY <1>4, StateUpdates
<1> QED BY <1>5 DEF WithValidation

\* A new state, and the states the bookkeeping of a rerun makes.
LEMMA FreshStateType == FreshState \in State
  BY DEF State, FreshState, Stages, Results, Verdicts, Round, Validation

\* Counting a fix cycle keeps a state one.
LEMMA CountedFixType ==
    ASSUME NEW s \in State
    PROVE  CountedFix(s) \in State
<1>1. s.fixes + 1 \in Nat
  BY StateFields
<1> QED BY <1>1, StateUpdates DEF CountedFix

\* So does the bookkeeping of a rerun as a whole.
LEMMA BookedType ==
    ASSUME NEW s \in State, NEW head \in Nat
    PROVE  [s EXCEPT !.head_sha = head, !.stage = "preflight",
                     !.last_exit = IF dry THEN 0 ELSE @] \in State
<1> DEFINE s1 == [s EXCEPT !.head_sha = head]
           s2 == [s1 EXCEPT !.stage = "preflight"]
<1>1. s1 \in State
  BY StateUpdates
<1>2. s2 \in State
  BY <1>1, StateUpdates DEF Stages
<1>3. (IF dry THEN 0 ELSE s2.last_exit) \in -1..3
  BY <1>2, StateFields
<1>4. [s2 EXCEPT !.last_exit = IF dry THEN 0 ELSE s2.last_exit] \in State
  BY <1>2, <1>3, StateUpdates
<1> QED BY <1>4

\* What is left of a run whose process is gone.
LEMMA GoneTypes ==
    ASSUME Gone
    PROVE  /\ st' \in State /\ round' \in InProgress
           /\ pc' = "idle" /\ pc' \in PCs /\ stop' \in 0..3
           /\ ctxHead' \in Nat /\ tested' \in Nat
           /\ resume' \in BOOLEAN /\ dry' \in BOOLEAN /\ suite' \in BOOLEAN
<1>1. FreshState \in State
  BY FreshStateType
<1>2. NoRound \in InProgress
  BY DEF NoRound, InProgress, Verdicts
<1>3. "idle" \in PCs
  BY DEF PCs
<1>4. stop' \in 0..3 /\ ctxHead' \in Nat /\ tested' \in Nat
  BY DEF Gone
<1>5. resume' \in BOOLEAN /\ dry' \in BOOLEAN /\ suite' \in BOOLEAN
  BY DEF Gone
<1> QED BY <1>1, <1>2, <1>3, <1>4, <1>5 DEF Gone

(* The branch *)

\* HEAD is a commit id, whatever the branch.
LEMMA HeadType ==
    ASSUME NEW branch \in Seq(Commit), branch # <<>>
    PROVE  HeadOf(branch) \in Nat
<1>1. Len(branch) \in 1..Len(branch)
  OBVIOUS
<1>2. branch[Len(branch)] \in Commit
  BY <1>1
<1> QED BY <1>2 DEF HeadOf, Commit

\* So are the trailer commits.
LEMMA ReviewerIdsType ==
    ASSUME NEW branch \in Seq(Commit)
    PROVE  ReviewerIds(branch) \in SUBSET Nat
<1>1. ASSUME NEW i \in DOMAIN branch PROVE branch[i].id \in Nat
  <2>1. branch[i] \in Commit
    OBVIOUS
  <2> QED BY <2>1 DEF Commit
<1> QED BY <1>1 DEF ReviewerIds

\* So the test commits read back from the branch leave a state one.
LEMMA RecoveredType ==
    ASSUME NEW s \in State, local \in Seq(Commit)
    PROVE  Recovered(s) \in State
<1>1. ReviewerIds(local) \cup s.test_commits \in SUBSET Nat
  BY ReviewerIdsType, StateFields
<1> QED BY <1>1, StateUpdates DEF Recovered

\* A commit on top of the branch.
LEMMA AppendType ==
    ASSUME NEW branch \in Seq(Commit), NEW id \in Nat, NEW by \in Authors
    PROVE  /\ Append(branch, [id |-> id, by |-> by]) \in Seq(Commit)
           /\ Append(branch, [id |-> id, by |-> by]) # <<>>
<1>1. [id |-> id, by |-> by] \in Commit
  BY DEF Commit
<1> QED BY <1>1

\* What is left when the last of several commits is dropped.
LEMMA FrontType ==
    ASSUME NEW branch \in Seq(Commit), Len(branch) > 1
    PROVE  Front(branch) \in Seq(Commit) /\ Front(branch) # <<>>
<1>1. Len(branch) - 1 \in 1..Len(branch)
  OBVIOUS
<1>2. Front(branch) \in Seq(Commit) /\ Len(Front(branch)) = Len(branch) - 1
  BY <1>1 DEF Front
<1> QED BY <1>1, <1>2

\* A rewrite gives new ids to a suffix of the branch.
LEMMA RewriteType ==
    ASSUME local \in Seq(Commit), local # <<>>, nextId \in Nat, NEW k \in DOMAIN local,
    Rewrite(k)
    PROVE  local' \in Seq(Commit) /\ local' # <<>> /\ nextId' \in Nat
<1>1. k \in 1..Len(local) /\ Len(local) \in Nat
  OBVIOUS
<1>2. ASSUME NEW i \in 1..Len(local), i >= k
      PROVE  [local[i] EXCEPT !.id = nextId + i - k] \in Commit
  <2>1. local[i] \in Commit /\ nextId + i - k \in Nat
    BY <1>1, <1>2
  <2> QED BY <2>1 DEF Commit
<1>3. local' \in [1..Len(local) -> Commit]
  BY <1>1, <1>2 DEF Rewrite
<1>4. local' \in Seq(Commit) /\ Len(local') = Len(local)
  BY <1>1, <1>3
<1>5. local' # <<>>
  BY <1>1, <1>4
<1>6. nextId' \in Nat
  BY <1>1 DEF Rewrite
<1> QED BY <1>4, <1>5, <1>6

-----------------------------------------------------------------------------
(* The types *)

\* A live run has written its state before anything else, so there is one to close.
LiveState == pc # "idle" => disk \in State

IInv == TypeOK /\ LiveState

\* Every step keeps the types and a state to close.
LEMMA TypesKept ==
    ASSUME IInv, [Next]_vars
    PROVE  IInv'
<1>0. /\ RepoTypes /\ StateTypes /\ RunTypes /\ HistoryTypes /\ LiveState
      /\ Head_ \in Nat
  BY HeadType DEF IInv, TypeOK, RepoTypes, Head_
<1>1. ASSUME NEW d \in BOOLEAN, StartRun(d) PROVE IInv'
  <2>1. RepoTypes'
    BY <1>0, <1>1 DEF RepoTypes, StartRun, Save, GoTo, repoVars
  <2>2. StateTypes' /\ LiveState'
    <3>1. (IF disk = NoState THEN FreshState ELSE disk) \in State
      BY <1>0, FreshStateType DEF StateTypes
    <3>2. -1 \in -1..3
      BY <1>0
    <3>3. \A s \in State : [s EXCEPT !.last_exit = -1] \in State
      BY <1>0, <3>2, StateUpdates
    <3>4. st' = [(IF disk = NoState THEN FreshState ELSE disk) EXCEPT !.last_exit = -1] /\
          disk' = st'
      BY <1>0, <1>1 DEF StartRun, Save, GoTo, repoVars
    <3>5. st' \in State /\ disk' \in State
      BY <1>0, <3>1, <3>3, <3>4
    <3> QED BY <1>0, <1>1, <3>5 DEF StateTypes, LiveState, StartRun, Save, GoTo, repoVars
  <2>3. RunTypes'
    BY <1>0, <1>1 DEF RunTypes, PCs, StartRun, Save, GoTo, repoVars
  <2>4. HistoryTypes'
    BY <1>0, <1>1 DEF HistoryTypes, StartRun, Save, GoTo, repoVars
  <2> QED BY <2>1, <2>2, <2>3, <2>4 DEF IInv, TypeOK
<1>2. CASE CleanUp
  <2>1. RepoTypes'
    BY <1>0, <1>2 DEF RepoTypes, CleanUp, Calm, Save, GoTo
  <2>2. StateTypes' /\ LiveState'
    BY <1>0, <1>2, SessionForgottenType DEF StateTypes, LiveState, CleanUp, Calm, Save,
       GoTo
  <2>3. RunTypes'
    BY <1>0, <1>2 DEF RunTypes, PCs, CleanUp, Calm, Save, GoTo
  <2>4. HistoryTypes'
    BY <1>0, <1>2 DEF HistoryTypes, CleanUp, Calm, Save, GoTo
  <2> QED BY <2>1, <2>2, <2>3, <2>4 DEF IInv, TypeOK
<1>3. CASE PreflightRefuses
  <2>1. RepoTypes'
    BY <1>0, <1>3 DEF RepoTypes, PreflightRefuses, Calm, RaiseStop, GoTo
  <2>2. StateTypes' /\ LiveState'
    BY <1>0, <1>3 DEF StateTypes, LiveState, PreflightRefuses, Calm, RaiseStop, GoTo
  <2>3. RunTypes'
    BY <1>0, <1>3 DEF RunTypes, PCs, PreflightRefuses, Calm, RaiseStop, GoTo
  <2>4. HistoryTypes'
    BY <1>0, <1>3 DEF HistoryTypes, PreflightRefuses, Calm, RaiseStop, GoTo
  <2> QED BY <2>1, <2>2, <2>3, <2>4 DEF IInv, TypeOK
<1>4. CASE PreflightPasses
  <2>1. RepoTypes'
    BY <1>0, <1>4 DEF RepoTypes, PreflightPasses, Calm, GoTo
  <2>2. StateTypes' /\ LiveState'
    BY <1>0, <1>4 DEF StateTypes, LiveState, PreflightPasses, Calm, GoTo
  <2>3. RunTypes'
    <3>1. pc' \in PCs
      BY <1>0, <1>4 DEF RunTypes, PCs, PreflightPasses, Calm, GoTo
    <3>2. stop' \in 0..3
      BY <1>0, <1>4 DEF RunTypes, PreflightPasses, Calm, GoTo
    <3>3. tested' \in Nat /\ ctxHead' \in Nat
      BY <1>0, <1>4 DEF RunTypes, RepoTypes, PreflightPasses, Calm, GoTo
    <3>4. resume' \in BOOLEAN /\ dry' \in BOOLEAN /\ suite' \in BOOLEAN
      BY <1>0, <1>4 DEF RunTypes, PreflightPasses, Calm, GoTo
    <3>5. runs' \in Nat /\ faults' \in Nat
      BY <1>0, <1>4 DEF RunTypes, PreflightPasses, Calm, GoTo
    <3> QED BY <1>0, <3>1, <3>2, <3>3, <3>4, <3>5 DEF RunTypes
  <2>4. HistoryTypes'
    BY <1>0, <1>4 DEF HistoryTypes, PreflightPasses, Calm, GoTo
  <2> QED BY <2>1, <2>2, <2>3, <2>4 DEF IInv, TypeOK
<1>5. CASE BaselineClones
  <2>1. RepoTypes'
    BY <1>0, <1>5 DEF RepoTypes, BaselineClones, Calm
  <2>2. StateTypes' /\ LiveState'
    BY <1>0, <1>5 DEF StateTypes, LiveState, BaselineClones, Calm
  <2>3. RunTypes'
    <3>1. pc' \in PCs
      BY <1>0, <1>5 DEF RunTypes, PCs, BaselineClones, Calm
    <3>2. stop' \in 0..3
      BY <1>0, <1>5 DEF RunTypes, BaselineClones, Calm
    <3>3. tested' \in Nat /\ ctxHead' \in Nat
      BY <1>0, <1>5 DEF RunTypes, RepoTypes, BaselineClones, Calm
    <3>4. resume' \in BOOLEAN /\ dry' \in BOOLEAN /\ suite' \in BOOLEAN
      BY <1>0, <1>5 DEF RunTypes, BaselineClones, Calm
    <3>5. runs' \in Nat /\ faults' \in Nat
      BY <1>0, <1>5 DEF RunTypes, BaselineClones, Calm
    <3> QED BY <1>0, <3>1, <3>2, <3>3, <3>4, <3>5 DEF RunTypes
  <2>4. HistoryTypes'
    BY <1>0, <1>5 DEF HistoryTypes, BaselineClones, Calm
  <2> QED BY <2>1, <2>2, <2>3, <2>4 DEF IInv, TypeOK
<1>6. CASE BaselineEnds
  <2>1. RepoTypes'
    BY <1>0, <1>6 DEF RepoTypes, BaselineEnds, Calm, Save, GoTo, RaiseStop
  <2>2. StateTypes' /\ LiveState'
    <3>1. [st EXCEPT !.baseline_sha = ctxHead] \in State
      BY <1>0, StateUpdates DEF StateTypes, RunTypes
    <3> QED BY <1>0, <1>6, <3>1 DEF StateTypes, LiveState, BaselineEnds, Calm, Save, GoTo,
             RaiseStop
  <2>3. RunTypes'
    BY <1>0, <1>6 DEF RunTypes, PCs, BaselineEnds, Calm, Save, GoTo, RaiseStop
  <2>4. HistoryTypes'
    <3>1. passed' \in SUBSET Nat
      BY <1>0, <1>6 DEF HistoryTypes, RunTypes, BaselineEnds, Calm, Save, GoTo,
         RaiseStop
    <3> QED BY <1>0, <1>6, <3>1 DEF HistoryTypes, BaselineEnds, Calm, Save, GoTo, RaiseStop
  <2> QED BY <2>1, <2>2, <2>3, <2>4 DEF IInv, TypeOK
<1>7. CASE Bookkeeping
  <2>1. RepoTypes'
    BY <1>0, <1>7 DEF RepoTypes, Bookkeeping, CalmBut, Save, GoTo, RaiseStop
  <2>2. StateTypes' /\ LiveState'
    <3>1. st \in State /\ ctxHead \in Nat /\ local \in Seq(Commit)
      BY <1>0 DEF StateTypes, RunTypes, RepoTypes
    <3>2. Restarted(st) \in State
      BY <1>0, <3>1, RestartedType
    <3>3. Recovered(CountedFix(Restarted(st))) \in State
      BY <1>0, <3>1, <3>2, CountedFixType, RecoveredType
    <3>4. \A s \in State : [s EXCEPT !.head_sha = ctxHead, !.stage = "preflight",
                     !.last_exit = IF dry THEN 0 ELSE @] \in State
      BY <1>0, <3>1, BookedType
    <3> QED BY <1>0, <1>7, <3>1, <3>2, <3>3, <3>4 DEF StateTypes, LiveState, Bookkeeping,
             CalmBut, Save, GoTo, RaiseStop
  <2>3. RunTypes'
    <3>1. pc' \in PCs
      BY <1>0, <1>7 DEF RunTypes, PCs, Bookkeeping, CalmBut, Save, GoTo, RaiseStop
    <3>2. stop' \in 0..3
      BY <1>0, <1>7 DEF RunTypes, Bookkeeping, CalmBut, Save, GoTo, RaiseStop
    <3>3. tested' \in Nat /\ ctxHead' \in Nat
      BY <1>0, <1>7 DEF RunTypes, Bookkeeping, CalmBut, Save, GoTo, RaiseStop
    <3>4. resume' \in BOOLEAN /\ dry' \in BOOLEAN /\ suite' \in BOOLEAN
      BY <1>0, <1>7 DEF RunTypes, AwaitsValidation, Bookkeeping, CalmBut, Save, GoTo,
         RaiseStop
    <3>5. runs' \in Nat /\ faults' \in Nat
      BY <1>0, <1>7 DEF RunTypes, Bookkeeping, CalmBut, Save, GoTo, RaiseStop
    <3> QED BY <1>0, <3>1, <3>2, <3>3, <3>4, <3>5 DEF RunTypes
  <2>4. HistoryTypes'
    BY <1>0, <1>7 DEF HistoryTypes, Bookkeeping, CalmBut, Save, GoTo, RaiseStop
  <2> QED BY <2>1, <2>2, <2>3, <2>4 DEF IInv, TypeOK
<1>8. CASE EnsureIgnored
  <2>1. RepoTypes'
    BY <1>0, <1>8 DEF RepoTypes, EnsureIgnored, Calm, Save, GoTo, RaiseStop
  <2>2. StateTypes' /\ LiveState'
    <3>1. [st EXCEPT !.stage = "pr"] \in State
      BY <1>0, StateUpdates DEF StateTypes, Stages
    <3> QED BY <1>0, <1>8, <3>1 DEF StateTypes, LiveState, EnsureIgnored, Calm, Save, GoTo,
             RaiseStop
  <2>3. RunTypes'
    BY <1>0, <1>8 DEF RunTypes, PCs, EnsureIgnored, Calm, Save, GoTo, RaiseStop
  <2>4. HistoryTypes'
    BY <1>0, <1>8 DEF HistoryTypes, EnsureIgnored, Calm, Save, GoTo, RaiseStop
  <2> QED BY <2>1, <2>2, <2>3, <2>4 DEF IInv, TypeOK
<1>34. CASE CommitIgnored
  <2>1. RepoTypes'
    <3>1. local' = Append(local, [id |-> nextId, by |-> "revali"]) \/ local' = local
      BY <1>0, <1>34 DEF CommitIgnored, Calm, GoTo, RaiseStop
    <3>2. local' \in Seq(Commit) /\ local' # <<>>
      BY <1>0, <3>1, AppendType DEF RepoTypes, Authors
    <3>3. nextId' \in Nat /\ UNCHANGED <<remote, behind, drafts, pr>>
      BY <1>0, <1>34 DEF RepoTypes, CommitIgnored, Calm, GoTo, RaiseStop
    <3> QED BY <1>0, <3>2, <3>3 DEF RepoTypes
  <2>2. StateTypes' /\ LiveState'
    BY <1>0, <1>34 DEF StateTypes, LiveState, CommitIgnored, Calm, GoTo, RaiseStop
  <2>3. RunTypes'
    BY <1>0, <1>34 DEF RunTypes, RepoTypes, PCs, CommitIgnored, Calm, GoTo, RaiseStop
  <2>4. HistoryTypes'
    BY <1>0, <1>34 DEF HistoryTypes, CommitIgnored, Calm, GoTo, RaiseStop
  <2> QED BY <2>1, <2>2, <2>3, <2>4 DEF IInv, TypeOK
<1>35. CASE CheckBeforePush
  <2>1. RepoTypes'
    BY <1>0, <1>35 DEF RepoTypes, CheckBeforePush, Calm, GoTo, RaiseStop
  <2>2. StateTypes' /\ LiveState'
    BY <1>0, <1>35 DEF StateTypes, LiveState, CheckBeforePush, Calm, GoTo, RaiseStop
  <2>3. RunTypes'
    BY <1>0, <1>35 DEF RunTypes, PCs, CheckBeforePush, Calm, GoTo, RaiseStop
  <2>4. HistoryTypes'
    BY <1>0, <1>35 DEF HistoryTypes, CheckBeforePush, Calm, GoTo, RaiseStop
  <2> QED BY <2>1, <2>2, <2>3, <2>4 DEF IInv, TypeOK
<1>36. CASE ValidationChooses
  <2>1. RepoTypes'
    BY <1>0, <1>36 DEF RepoTypes, ValidationChooses, repoVars, GoTo
  <2>2. StateTypes' /\ LiveState'
    BY <1>0, <1>36 DEF StateTypes, LiveState, ValidationChooses, GoTo
  <2>3. RunTypes'
    BY <1>0, <1>36 DEF RunTypes, PCs, ValidationChooses, GoTo
  <2>4. HistoryTypes'
    BY <1>0, <1>36 DEF HistoryTypes, ValidationChooses, history, GoTo
  <2> QED BY <2>1, <2>2, <2>3, <2>4 DEF IInv, TypeOK
<1>37. CASE NothingToRun
  <2>1. RepoTypes'
    BY <1>0, <1>37 DEF RepoTypes, NothingToRun, Calm, Save, GoTo
  <2>2. StateTypes' /\ LiveState'
    <3>1. WithValidation(st, "PASS") \in State
      BY <1>0, WithValidationType DEF StateTypes, RunTypes, Results
    <3> QED BY <1>0, <1>37, <3>1 DEF StateTypes, LiveState, NothingToRun, Calm, Save, GoTo
  <2>3. RunTypes'
    BY <1>0, <1>37 DEF RunTypes, PCs, NothingToRun, Calm, Save, GoTo
  <2>4. HistoryTypes'
    BY <1>0, <1>37 DEF HistoryTypes, NothingToRun, Calm, Save, GoTo
  <2> QED BY <2>1, <2>2, <2>3, <2>4 DEF IInv, TypeOK
<1>9. CASE PushBranch
  <2>1. RepoTypes'
    BY <1>0, <1>9 DEF RepoTypes, PushBranch, Calm, GoTo, RaiseStop
  <2>2. StateTypes' /\ LiveState'
    BY <1>0, <1>9 DEF StateTypes, LiveState, PushBranch, Calm, GoTo, RaiseStop
  <2>3. RunTypes'
    BY <1>0, <1>9 DEF RunTypes, PCs, PushBranch, Calm, GoTo, RaiseStop
  <2>4. HistoryTypes'
    BY <1>0, <1>9 DEF HistoryTypes, PushBranch, Calm, GoTo, RaiseStop
  <2> QED BY <2>1, <2>2, <2>3, <2>4 DEF IInv, TypeOK
<1>10. CASE EnsurePR
  <2>1. RepoTypes'
    BY <1>0, <1>10 DEF RepoTypes, EnsurePR, Calm, Save, GoTo, RaiseStop
  <2>2. StateTypes' /\ LiveState'
    <3>1. FALSE \in BOOLEAN /\ 1 \in {0, 1} /\ ctxHead \in Nat /\ st \in State
      BY <1>0 DEF StateTypes, RunTypes
    <3>2. [st EXCEPT !.force_push = FALSE] \in State
      BY <1>0, <3>1, StateUpdates
    <3>3. [st EXCEPT !.force_push = FALSE, !.pr_number = 1] \in State
      BY <1>0, <3>1, <3>2, StateUpdates
    <3>4. [[st EXCEPT !.force_push = FALSE, !.pr_number = 1] EXCEPT !.head_sha = ctxHead] \in
          State
      BY <1>0, <3>1, <3>3, StateUpdates
    <3>5. disk' \in State /\ st' \in State
      BY <1>0, <1>10, <3>2, <3>3, <3>4 DEF EnsurePR, Calm, Save, GoTo, RaiseStop
    <3> QED BY <1>0, <1>10, <3>5 DEF StateTypes, LiveState, EnsurePR, Calm, Save, GoTo,
             RaiseStop
  <2>3. RunTypes'
    BY <1>0, <1>10 DEF RunTypes, PCs, EnsurePR, Calm, Save, GoTo, RaiseStop
  <2>4. HistoryTypes'
    BY <1>0, <1>10 DEF HistoryTypes, EnsurePR, Calm, Save, GoTo, RaiseStop
  <2> QED BY <2>1, <2>2, <2>3, <2>4 DEF IInv, TypeOK
<1>11. CASE BeginReview
  <2>1. RepoTypes'
    BY <1>0, <1>11 DEF RepoTypes, BeginReview, CalmBut, Save, GoTo
  <2>2. StateTypes' /\ LiveState'
    <3>1. [st EXCEPT !.stage = "review"] \in State
      BY <1>0, StateUpdates DEF StateTypes, Stages
    <3>2. [st EXCEPT !.stage = "review", !.reviewer_running = TRUE] \in State
      BY <1>0, <3>1, StateUpdates
    <3> QED BY <1>0, <1>11, <3>2 DEF StateTypes, LiveState, BeginReview, CalmBut, Save, GoTo
  <2>3. RunTypes'
    BY <1>0, <1>11 DEF RunTypes, PCs, BeginReview, CalmBut, Save, GoTo
  <2>4. HistoryTypes'
    BY <1>0, <1>11 DEF HistoryTypes, BeginReview, CalmBut, Save, GoTo
  <2> QED BY <2>1, <2>2, <2>3, <2>4 DEF IInv, TypeOK
<1>12. CASE ReviewFails
  <2>1. RepoTypes'
    BY <1>0, <1>12 DEF RepoTypes, ReviewFails, Calm, RoundStops, Save, RaiseStop, GoTo
  <2>2. StateTypes' /\ LiveState'
    BY <1>0, <1>12, SessionForgottenType DEF StateTypes, LiveState, ReviewFails, Calm,
       RoundStops, Save, RaiseStop, GoTo
  <2>3. RunTypes'
    <3>1. pc' \in PCs
      BY <1>0, <1>12 DEF RunTypes, PCs, ReviewFails, Calm, RoundStops, Save, RaiseStop,
         GoTo
    <3>2. stop' \in 0..3
      BY <1>0, <1>12 DEF RunTypes, ReviewFails, Calm, RoundStops, Save, RaiseStop, GoTo
    <3>3. tested' \in Nat /\ ctxHead' \in Nat
      BY <1>0, <1>12 DEF RunTypes, RepoTypes, ReviewFails, Calm, RoundStops, Save,
         RaiseStop, GoTo
    <3>4. resume' \in BOOLEAN /\ dry' \in BOOLEAN /\ suite' \in BOOLEAN
      BY <1>0, <1>12 DEF RunTypes, ReviewFails, Calm, RoundStops, Save, RaiseStop, GoTo
    <3>5. runs' \in Nat /\ faults' \in Nat
      BY <1>0, <1>12 DEF RunTypes, ReviewFails, Calm, RoundStops, Save, RaiseStop, GoTo
    <3> QED BY <1>0, <3>1, <3>2, <3>3, <3>4, <3>5 DEF RunTypes
  <2>4. HistoryTypes'
    BY <1>0, <1>12 DEF HistoryTypes, ReviewFails, Calm, RoundStops, Save, RaiseStop, GoTo
  <2> QED BY <2>1, <2>2, <2>3, <2>4 DEF IInv, TypeOK
<1>13. CASE ReviewEnds
  <2>1. RepoTypes'
    BY <1>0, <1>13 DEF RepoTypes, ReviewEnds, Calm, GoTo
  <2>2. StateTypes' /\ LiveState'
    <3>1. round' \in InProgress
      BY <1>0, <1>13 DEF InProgress, RunTypes, RepoTypes, ReviewEnds, Calm, GoTo
    <3> QED BY <1>0, <1>13, <3>1 DEF StateTypes, LiveState, ReviewEnds, Calm, GoTo
  <2>3. RunTypes'
    BY <1>0, <1>13 DEF RunTypes, PCs, ReviewEnds, Calm, GoTo
  <2>4. HistoryTypes'
    BY <1>0, <1>13 DEF HistoryTypes, ReviewEnds, Calm, GoTo
  <2> QED BY <2>1, <2>2, <2>3, <2>4 DEF IInv, TypeOK
<1>14. CASE CheckBeforeCommit
  <2>1. RepoTypes'
    BY <1>0, <1>14 DEF RepoTypes, CheckBeforeCommit, Calm, GoTo
  <2>2. StateTypes' /\ LiveState'
    BY <1>0, <1>14 DEF StateTypes, LiveState, CheckBeforeCommit, Calm, GoTo
  <2>3. RunTypes'
    BY <1>0, <1>14 DEF RunTypes, PCs, CheckBeforeCommit, Calm, GoTo
  <2>4. HistoryTypes'
    BY <1>0, <1>14 DEF HistoryTypes, CheckBeforeCommit, Calm, GoTo
  <2> QED BY <2>1, <2>2, <2>3, <2>4 DEF IInv, TypeOK
<1>15. CASE CommitTests
  <2>1. RepoTypes'
    <3>1. local' = Append(local, [id |-> nextId, by |-> "reviewer"]) \/ local' = local
      BY <1>0, <1>15 DEF CommitTests, Calm, GoTo, RoundStops, Save, RaiseStop
    <3>2. local' \in Seq(Commit) /\ local' # <<>>
      BY <1>0, <3>1, AppendType DEF RepoTypes, Authors
    <3>3. nextId' = nextId + 1 \/ nextId' = nextId
      BY <1>0, <1>15 DEF CommitTests, Calm, GoTo, RoundStops, Save, RaiseStop
    <3>4. nextId' \in Nat
      BY <1>0, <3>3 DEF RepoTypes
    <3>5. drafts' = FALSE \/ drafts' = drafts
      BY <1>0, <1>15 DEF CommitTests, Calm, GoTo, RoundStops, Save, RaiseStop
    <3>6. drafts' \in BOOLEAN
      BY <1>0, <3>5 DEF RepoTypes
    <3>7. UNCHANGED <<remote, behind, pr>>
      BY <1>0, <1>15 DEF CommitTests, Calm, GoTo, RoundStops, Save, RaiseStop
    <3> QED BY <1>0, <3>2, <3>4, <3>6, <3>7 DEF RepoTypes
  <2>2. StateTypes' /\ LiveState'
    <3>1. nextId \in Nat /\ st \in State /\ round \in InProgress
      BY <1>0 DEF StateTypes, RepoTypes
    <3>2. [round EXCEPT !.test_commit = nextId] \in InProgress
      BY <1>0, <3>1 DEF InProgress
    <3>3. st.test_commits \cup {nextId} \in SUBSET Nat
      BY <1>0, <3>1, StateFields
    <3>4. [st EXCEPT !.test_commits = @ \cup {nextId}] \in State
      BY <1>0, <3>1, <3>3, StateUpdates
    <3>5. SessionForgotten(st) \in State
      BY <1>0, <3>1, SessionForgottenType
    <3> QED BY <1>0, <1>15, <3>2, <3>4, <3>5 DEF StateTypes, LiveState, CommitTests, Calm, GoTo,
             RoundStops, Save, RaiseStop
  <2>3. RunTypes'
    <3>1. pc' \in PCs
      BY <1>0, <1>15 DEF RunTypes, PCs, CommitTests, Calm, GoTo, RoundStops, Save,
         RaiseStop
    <3>2. stop' \in 0..3
      BY <1>0, <1>15 DEF RunTypes, CommitTests, Calm, GoTo, RoundStops, Save, RaiseStop
    <3>3. tested' \in Nat /\ ctxHead' \in Nat
      BY <1>0, <1>15 DEF RunTypes, RepoTypes, CommitTests, Calm, GoTo, RoundStops, Save,
         RaiseStop
    <3>4. resume' \in BOOLEAN /\ dry' \in BOOLEAN /\ suite' \in BOOLEAN
      BY <1>0, <1>15 DEF RunTypes, CommitTests, Calm, GoTo, RoundStops, Save, RaiseStop
    <3>5. runs' \in Nat /\ faults' \in Nat
      BY <1>0, <1>15 DEF RunTypes, CommitTests, Calm, GoTo, RoundStops, Save, RaiseStop
    <3> QED BY <1>0, <3>1, <3>2, <3>3, <3>4, <3>5 DEF RunTypes
  <2>4. HistoryTypes'
    BY <1>0, <1>15 DEF HistoryTypes, CommitTests, Calm, GoTo, RoundStops, Save, RaiseStop
  <2> QED BY <2>1, <2>2, <2>3, <2>4 DEF IInv, TypeOK
<1>16. CASE RecordRound
  <2>1. RepoTypes'
    BY <1>0, <1>16 DEF RepoTypes, RecordRound, Calm, Save, GoTo
  <2>2. StateTypes' /\ LiveState'
    <3>1. WithRound(st, round) \in State
      BY <1>0, WithRoundType DEF StateTypes
    <3> QED BY <1>0, <1>16, <3>1 DEF StateTypes, LiveState, RecordRound, Calm, Save, GoTo
  <2>3. RunTypes'
    BY <1>0, <1>16 DEF RunTypes, PCs, RecordRound, Calm, Save, GoTo
  <2>4. HistoryTypes'
    BY <1>0, <1>16 DEF HistoryTypes, RecordRound, Calm, Save, GoTo
  <2> QED BY <2>1, <2>2, <2>3, <2>4 DEF IInv, TypeOK
<1>17. CASE PushTests
  <2>1. RepoTypes'
    BY <1>0, <1>17 DEF RepoTypes, PushTests, Calm, GoTo, RaiseStop
  <2>2. StateTypes' /\ LiveState'
    <3>1. [st EXCEPT !.head_sha = round.test_commit] \in State
      BY <1>0, StateUpdates DEF StateTypes, InProgress
    <3> QED BY <1>0, <1>17, <3>1 DEF StateTypes, LiveState, PushTests, Calm, GoTo, RaiseStop
  <2>3. RunTypes'
    <3>1. pc' \in PCs
      BY <1>0, <1>17 DEF RunTypes, PCs, PushTests, Calm, GoTo, RaiseStop
    <3>2. stop' = stop \/ stop' = 1
      BY <1>0, <1>17 DEF PushTests, Calm, GoTo, RaiseStop
    <3>3. stop' \in 0..3
      BY <1>0, <3>2 DEF RunTypes
    <3>4. tested' \in Nat /\ ctxHead' \in Nat
      BY <1>0, <1>17 DEF RunTypes, RepoTypes, PushTests, Calm, GoTo, RaiseStop
    <3>5. resume' \in BOOLEAN /\ dry' \in BOOLEAN /\ suite' \in BOOLEAN
      BY <1>0, <1>17 DEF RunTypes, PushTests, Calm, GoTo, RaiseStop
    <3>6. runs' \in Nat /\ faults' \in Nat
      BY <1>0, <1>17 DEF RunTypes, PushTests, Calm, GoTo, RaiseStop
    <3> QED BY <1>0, <3>1, <3>2, <3>3, <3>4, <3>5, <3>6 DEF RunTypes
  <2>4. HistoryTypes'
    BY <1>0, <1>17 DEF HistoryTypes, PushTests, Calm, GoTo, RaiseStop
  <2> QED BY <2>1, <2>2, <2>3, <2>4 DEF IInv, TypeOK
<1>18. CASE Outcome
  <2>1. RepoTypes'
    BY <1>0, <1>18 DEF RepoTypes, Outcome, CalmBut, Save, GoTo
  <2>2. StateTypes' /\ LiveState'
    <3>1. disk' \in State /\ st' \in State
      BY <1>0, <1>18, ResultTypes DEF StateTypes, Outcome, CalmBut, Save, GoTo
    <3> QED BY <1>0, <1>18, <3>1 DEF StateTypes, LiveState, Outcome, CalmBut, Save, GoTo
  <2>3. RunTypes'
    BY <1>0, <1>18 DEF RunTypes, PCs, Outcome, CalmBut, Save, GoTo
  <2>4. HistoryTypes'
    BY <1>0, <1>18 DEF HistoryTypes, RunTypes, Outcome, CalmBut, Save, GoTo
  <2> QED BY <2>1, <2>2, <2>3, <2>4 DEF IInv, TypeOK
<1>19. CASE BeginValidation
  <2>1. RepoTypes'
    BY <1>0, <1>19 DEF RepoTypes, BeginValidation, Calm, Save, GoTo, RaiseStop
  <2>2. StateTypes' /\ LiveState'
    <3>1. [st EXCEPT !.stage = "validate"] \in State
      BY <1>0, StateUpdates DEF StateTypes, Stages
    <3> QED BY <1>0, <1>19, <3>1 DEF StateTypes, LiveState, BeginValidation, Calm, Save, GoTo,
             RaiseStop
  <2>3. RunTypes'
    BY <1>0, <1>19 DEF RunTypes, PCs, BeginValidation, Calm, Save, GoTo, RaiseStop
  <2>4. HistoryTypes'
    BY <1>0, <1>19 DEF HistoryTypes, BeginValidation, Calm, Save, GoTo, RaiseStop
  <2> QED BY <2>1, <2>2, <2>3, <2>4 DEF IInv, TypeOK
<1>20. CASE ValidationClones
  <2>1. RepoTypes'
    BY <1>0, <1>20 DEF RepoTypes, ValidationClones, Calm, GoTo
  <2>2. StateTypes' /\ LiveState'
    BY <1>0, <1>20 DEF StateTypes, LiveState, ValidationClones, Calm, GoTo
  <2>3. RunTypes'
    <3>1. pc' \in PCs
      BY <1>0, <1>20 DEF RunTypes, PCs, ValidationClones, Calm, GoTo
    <3>2. stop' \in 0..3
      BY <1>0, <1>20 DEF RunTypes, ValidationClones, Calm, GoTo
    <3>3. tested' \in Nat /\ ctxHead' \in Nat
      BY <1>0, <1>20 DEF RunTypes, RepoTypes, ValidationClones, Calm, GoTo
    <3>4. resume' \in BOOLEAN /\ dry' \in BOOLEAN /\ suite' \in BOOLEAN
      BY <1>0, <1>20 DEF RunTypes, ValidationClones, Calm, GoTo
    <3>5. runs' \in Nat /\ faults' \in Nat
      BY <1>0, <1>20 DEF RunTypes, ValidationClones, Calm, GoTo
    <3> QED BY <1>0, <3>1, <3>2, <3>3, <3>4, <3>5 DEF RunTypes
  <2>4. HistoryTypes'
    BY <1>0, <1>20 DEF HistoryTypes, ValidationClones, Calm, GoTo
  <2> QED BY <2>1, <2>2, <2>3, <2>4 DEF IInv, TypeOK
<1>21. CASE ValidationEnds
  <2>1. RepoTypes'
    BY <1>0, <1>21 DEF RepoTypes, ValidationEnds, repoVars
  <2>2. StateTypes' /\ LiveState'
    <3>1. \A r \in Results : WithValidation(st, r) \in State
      BY <1>0, WithValidationType DEF StateTypes, RunTypes
    <3> QED BY <1>0, <1>21, <3>1 DEF StateTypes, LiveState, ValidationEnds, Save, GoTo, RaiseStop
  <2>3. RunTypes'
    <3>1. pc' \in PCs
      BY <1>0, <1>21 DEF RunTypes, PCs, ValidationEnds, Save, GoTo, RaiseStop
    <3>2. stop' = stop \/ stop' = 1
      BY <1>0, <1>21 DEF ValidationEnds, Save, GoTo, RaiseStop
    <3>3. stop' \in 0..3
      BY <1>0, <3>2 DEF RunTypes
    <3>4. tested' \in Nat /\ ctxHead' \in Nat
      BY <1>0, <1>21 DEF RunTypes, ValidationEnds, Save, GoTo, RaiseStop
    <3>5. resume' \in BOOLEAN /\ dry' \in BOOLEAN /\ suite' \in BOOLEAN
      BY <1>0, <1>21 DEF RunTypes, ValidationEnds, Save, GoTo, RaiseStop
    <3>6. runs' \in Nat /\ faults' \in Nat
      BY <1>0, <1>21 DEF RunTypes, ValidationEnds, Save, GoTo, RaiseStop
    <3> QED BY <1>0, <3>1, <3>2, <3>3, <3>4, <3>5, <3>6 DEF RunTypes
  <2>4. HistoryTypes'
    <3>1. passed' \in SUBSET Nat /\ cleared' \in SUBSET Nat
      BY <1>0, <1>21 DEF HistoryTypes, RunTypes, ValidationEnds, Save, GoTo, RaiseStop
    <3> QED BY <1>0, <1>21, <3>1 DEF HistoryTypes, ValidationEnds, Save, GoTo, RaiseStop
  <2> QED BY <2>1, <2>2, <2>3, <2>4 DEF IInv, TypeOK
<1>22. CASE Finish
  <2>1. RepoTypes'
    BY <1>0, <1>22 DEF RepoTypes, Finish, CalmBut, Save, GoTo
  <2>2. StateTypes' /\ LiveState'
    <3>1. disk' \in State /\ st' \in State
      BY <1>0, <1>22, ResultTypes DEF StateTypes, Finish, CalmBut, Save, GoTo
    <3> QED BY <1>0, <1>22, <3>1 DEF StateTypes, LiveState, Finish, CalmBut, Save, GoTo
  <2>3. RunTypes'
    BY <1>0, <1>22 DEF RunTypes, PCs, Finish, CalmBut, Save, GoTo
  <2>4. HistoryTypes'
    BY <1>0, <1>22 DEF HistoryTypes, RunTypes, Finish, CalmBut, Save, GoTo
  <2> QED BY <2>1, <2>2, <2>3, <2>4 DEF IInv, TypeOK
<1>23. CASE MarkReady
  <2>1. RepoTypes'
    BY <1>0, <1>23 DEF RepoTypes, MarkReady, Calm, GoTo
  <2>2. StateTypes' /\ LiveState'
    BY <1>0, <1>23 DEF StateTypes, LiveState, MarkReady, Calm, GoTo
  <2>3. RunTypes'
    BY <1>0, <1>23 DEF RunTypes, PCs, MarkReady, Calm, GoTo
  <2>4. HistoryTypes'
    BY <1>0, <1>23 DEF HistoryTypes, MarkReady, Calm, GoTo
  <2> QED BY <2>1, <2>2, <2>3, <2>4 DEF IInv, TypeOK
<1>24. CASE RecordStop
  <2>1. RepoTypes'
    BY <1>0, <1>24 DEF RepoTypes, RecordStop, CalmBut, Save, GoTo
  <2>2. StateTypes' /\ LiveState'
    <3>1. disk' \in State /\ st' \in State
      BY <1>0, <1>24, ResultTypes DEF StateTypes, RunTypes, RecordStop, CalmBut, Save,
         GoTo
    <3> QED BY <1>0, <1>24, <3>1 DEF StateTypes, LiveState, RecordStop, CalmBut, Save, GoTo
  <2>3. RunTypes'
    BY <1>0, <1>24 DEF RunTypes, PCs, RecordStop, CalmBut, Save, GoTo
  <2>4. HistoryTypes'
    BY <1>0, <1>24 DEF HistoryTypes, RecordStop, CalmBut, Save, GoTo
  <2> QED BY <2>1, <2>2, <2>3, <2>4 DEF IInv, TypeOK
<1>25. CASE Exit
  <2>1. RepoTypes'
    BY <1>0, <1>25 DEF RepoTypes, Exit, Gone, repoVars, history
  <2>2. StateTypes' /\ LiveState'
    <3>1. st' \in State /\ round' \in InProgress /\ pc' = "idle"
      BY <1>0, <1>25, GoneTypes DEF Exit
    <3>2. disk' \in State \cup {NoState}
      BY <1>0, <1>25, ResultTypes DEF StateTypes, LiveState, Exit, Gone, repoVars,
         history
    <3> QED BY <1>0, <3>1, <3>2 DEF StateTypes, LiveState
  <2>3. RunTypes'
    <3>1. pc' \in PCs /\ stop' \in 0..3 /\ ctxHead' \in Nat /\ tested' \in Nat
      BY <1>0, <1>25, GoneTypes DEF Exit
    <3>2. resume' \in BOOLEAN /\ dry' \in BOOLEAN /\ suite' \in BOOLEAN
      BY <1>0, <1>25, GoneTypes DEF Exit
    <3>3. runs' \in Nat /\ faults' \in Nat
      BY <1>0, <1>25 DEF RunTypes, Exit, Gone, repoVars, history
    <3> QED BY <1>0, <3>1, <3>2, <3>3 DEF RunTypes
  <2>4. HistoryTypes'
    BY <1>0, <1>25 DEF HistoryTypes, Exit, Gone, repoVars, history
  <2> QED BY <2>1, <2>2, <2>3, <2>4 DEF IInv, TypeOK
<1>26. CASE ReviewerWrites
  <2>1. RepoTypes'
    BY <1>0, <1>26 DEF RepoTypes, ReviewerWrites, Calm
  <2>2. StateTypes' /\ LiveState'
    BY <1>0, <1>26 DEF StateTypes, LiveState, ReviewerWrites, Calm
  <2>3. RunTypes'
    BY <1>0, <1>26 DEF RunTypes, PCs, ReviewerWrites, Calm
  <2>4. HistoryTypes'
    BY <1>0, <1>26 DEF HistoryTypes, ReviewerWrites, Calm
  <2> QED BY <2>1, <2>2, <2>3, <2>4 DEF IInv, TypeOK
<1>27. CASE Raise
  <2>1. RepoTypes'
    BY <1>0, <1>27 DEF RepoTypes, Raise, RaiseStop, GoTo, repoVars, history
  <2>2. StateTypes' /\ LiveState'
    BY <1>0, <1>27 DEF StateTypes, LiveState, Raise, RaiseStop, GoTo, repoVars, history
  <2>3. RunTypes'
    BY <1>0, <1>27 DEF RunTypes, PCs, Raise, RaiseStop, GoTo, repoVars, history
  <2>4. HistoryTypes'
    BY <1>0, <1>27 DEF HistoryTypes, Raise, RaiseStop, GoTo, repoVars, history
  <2> QED BY <2>1, <2>2, <2>3, <2>4 DEF IInv, TypeOK
<1>28. CASE Die
  <2>1. RepoTypes'
    BY <1>0, <1>28 DEF RepoTypes, Die, Gone, repoVars
  <2>2. StateTypes' /\ LiveState'
    <3>1. st' \in State /\ round' \in InProgress /\ pc' = "idle"
      BY <1>0, <1>28, GoneTypes DEF Die
    <3>2. disk' \in State \cup {NoState}
      BY <1>0, <1>28, ResultTypes DEF StateTypes, LiveState, Die, Gone, repoVars
    <3> QED BY <1>0, <3>1, <3>2 DEF StateTypes, LiveState
  <2>3. RunTypes'
    <3>1. pc' \in PCs /\ stop' \in 0..3 /\ ctxHead' \in Nat /\ tested' \in Nat
      BY <1>0, <1>28, GoneTypes DEF Die
    <3>2. resume' \in BOOLEAN /\ dry' \in BOOLEAN /\ suite' \in BOOLEAN
      BY <1>0, <1>28, GoneTypes DEF Die
    <3>3. runs' \in Nat /\ faults' \in Nat
      BY <1>0, <1>28 DEF RunTypes, Die, Gone, repoVars
    <3> QED BY <1>0, <3>1, <3>2, <3>3 DEF RunTypes
  <2>4. HistoryTypes'
    BY <1>0, <1>28 DEF HistoryTypes, Die, Gone, repoVars
  <2> QED BY <2>1, <2>2, <2>3, <2>4 DEF IInv, TypeOK
<1>29. CASE StopLive
  <2>1. RepoTypes'
    BY <1>0, <1>29 DEF RepoTypes, StopLive, Gone, repoVars
  <2>2. StateTypes' /\ LiveState'
    <3>1. st' \in State /\ round' \in InProgress /\ pc' = "idle"
      BY <1>0, <1>29, GoneTypes DEF StopLive
    <3>2. disk' \in State \cup {NoState}
      BY <1>0, <1>29, ResultTypes DEF StateTypes, LiveState, StopLive, Gone, repoVars
    <3> QED BY <1>0, <3>1, <3>2 DEF StateTypes, LiveState
  <2>3. RunTypes'
    <3>1. pc' \in PCs /\ stop' \in 0..3 /\ ctxHead' \in Nat /\ tested' \in Nat
      BY <1>0, <1>29, GoneTypes DEF StopLive
    <3>2. resume' \in BOOLEAN /\ dry' \in BOOLEAN /\ suite' \in BOOLEAN
      BY <1>0, <1>29, GoneTypes DEF StopLive
    <3>3. runs' \in Nat /\ faults' \in Nat
      BY <1>0, <1>29 DEF RunTypes, StopLive, Gone, repoVars
    <3> QED BY <1>0, <3>1, <3>2, <3>3 DEF RunTypes
  <2>4. HistoryTypes'
    BY <1>0, <1>29 DEF HistoryTypes, StopLive, Gone, repoVars
  <2> QED BY <2>1, <2>2, <2>3, <2>4 DEF IInv, TypeOK
<1>30. CASE StopDead
  <2>1. RepoTypes'
    BY <1>0, <1>30 DEF RepoTypes, StopDead, repoVars, runVars
  <2>2. StateTypes' /\ LiveState'
    <3>1. disk' \in State
      BY <1>0, <1>30, ResultTypes DEF StateTypes, StopDead, repoVars, runVars
    <3> QED BY <1>0, <1>30, <3>1 DEF StateTypes, LiveState, StopDead, repoVars, runVars
  <2>3. RunTypes'
    BY <1>0, <1>30 DEF RunTypes, PCs, StopDead, repoVars, runVars
  <2>4. HistoryTypes'
    BY <1>0, <1>30 DEF HistoryTypes, StopDead, repoVars, runVars
  <2> QED BY <2>1, <2>2, <2>3, <2>4 DEF IInv, TypeOK
<1>31. CASE Reset
  <2>1. RepoTypes'
    BY <1>0, <1>31 DEF RepoTypes, Reset, repoVars, runVars
  <2>2. StateTypes' /\ LiveState'
    BY <1>0, <1>31 DEF StateTypes, LiveState, Reset, repoVars, runVars
  <2>3. RunTypes'
    BY <1>0, <1>31 DEF RunTypes, PCs, Reset, repoVars, runVars
  <2>4. HistoryTypes'
    BY <1>0, <1>31 DEF HistoryTypes, Reset, repoVars, runVars
  <2> QED BY <2>1, <2>2, <2>3, <2>4 DEF IInv, TypeOK
<1>32. CASE Author
  <2>0. AuthorUnchanged
    BY <1>32 DEF Author, AuthorCommits, AuthorRebases, AuthorAmends, Rewrite, AuthorSquashes,
       AuthorUndoes, BaseMoves
  <2>1. RepoTypes'
    <3>1. UNCHANGED drafts /\ UNCHANGED pr
      BY <2>0 DEF AuthorUnchanged
    <3>2. CASE AuthorCommits
      <4>1. local' \in Seq(Commit) /\ local' # <<>>
        BY <1>0, <3>2, AppendType DEF RepoTypes, Authors, AuthorCommits
      <4> QED BY <1>0, <3>1, <3>2, <4>1 DEF RepoTypes, AuthorCommits
    <3>3. CASE AuthorRebases
      <4>1. 1 \in DOMAIN local
        BY <1>0 DEF RepoTypes
      <4>2. local' \in Seq(Commit) /\ local' # <<>> /\ nextId' \in Nat
        BY <1>0, <3>3, <4>1, RewriteType DEF RepoTypes, AuthorRebases
      <4> QED BY <1>0, <3>1, <3>3, <4>2 DEF RepoTypes, AuthorRebases, Rewrite
    <3>4. CASE AuthorAmends
      <4>1. local' \in Seq(Commit) /\ local' # <<>> /\ nextId' \in Nat
        BY <1>0, <3>4, RewriteType DEF RepoTypes, AuthorAmends
      <4> QED BY <1>0, <3>1, <3>4, <4>1 DEF RepoTypes, AuthorAmends, Rewrite
    <3>5. CASE AuthorSquashes
      <4>1. \A by \in Authors : [id |-> nextId, by |-> by] \in Commit
        BY <1>0 DEF RepoTypes, Commit
      <4>2. \E by \in Authors : local' = <<[id |-> nextId, by |-> by]>>
        BY <3>5 DEF Authors, AuthorSquashes
      <4>3. local' \in Seq(Commit) /\ local' # <<>>
        BY <4>1, <4>2
      <4> QED BY <1>0, <3>1, <3>5, <4>3 DEF RepoTypes, AuthorSquashes
    <3>6. CASE AuthorUndoes
      <4>1. local' \in Seq(Commit) /\ local' # <<>>
        BY <1>0, <3>6, FrontType DEF RepoTypes, AuthorUndoes
      <4> QED BY <1>0, <3>1, <3>6, <4>1 DEF RepoTypes, AuthorUndoes
    <3>7. CASE BaseMoves
      BY <1>0, <3>1, <3>7 DEF RepoTypes, BaseMoves
    <3> QED BY <1>32, <3>2, <3>3, <3>4, <3>5, <3>6, <3>7 DEF Author
  <2>2. StateTypes' /\ LiveState'
    BY <1>0, <2>0 DEF StateTypes, LiveState, AuthorUnchanged, runVars
  <2>3. RunTypes'
    BY <1>0, <2>0 DEF RunTypes, AuthorUnchanged, runVars
  <2>4. HistoryTypes'
    BY <1>0, <2>0 DEF HistoryTypes, AuthorUnchanged, history
  <2> QED BY <2>1, <2>2, <2>3, <2>4 DEF IInv, TypeOK
<1>33. CASE UNCHANGED vars
  BY <1>0, <1>33 DEF IInv, TypeOK, RepoTypes, StateTypes, RunTypes, HistoryTypes, LiveState,
     vars, repoVars, runVars, history
<1> QED BY <1>1, <1>2, <1>3, <1>4, <1>5, <1>6, <1>7, <1>8, <1>9, <1>10, <1>11, <1>12, <1>13,
           <1>14, <1>15, <1>16, <1>17, <1>18, <1>19, <1>20, <1>21, <1>22, <1>23, <1>24, <1>25,
           <1>26, <1>27, <1>28, <1>29, <1>30, <1>31, <1>32, <1>33, <1>34, <1>35, <1>36, <1>37
           DEF Next, RunStep

\* The first state has the types.
LEMMA TypesInit ==
    ASSUME Init
    PROVE  IInv
<1>1. RepoTypes
  <2>1. [id |-> 1, by |-> "author"] \in Commit
    BY DEF Commit, Authors
  <2>2. local \in Seq(Commit) /\ local # <<>>
    BY <2>1 DEF Init
  <2>3. remote \in Seq(Commit)
    BY DEF Init
  <2> QED BY <2>2, <2>3 DEF RepoTypes, Init
<1>2. StateTypes
  <2>1. st \in State
    BY FreshStateType DEF Init
  <2>2. round \in InProgress
    BY DEF Init, NoRound, InProgress, Verdicts
  <2> QED BY <2>1, <2>2 DEF StateTypes, Init
<1>3. RunTypes
  <2>1. pc \in PCs /\ stop \in 0..3
    BY DEF Init, PCs
  <2>2. ctxHead \in Nat /\ tested \in Nat /\ runs \in Nat /\ faults \in Nat
    BY DEF Init
  <2>3. resume \in BOOLEAN /\ dry \in BOOLEAN /\ suite \in BOOLEAN
    BY DEF Init
  <2> QED BY <2>1, <2>2, <2>3 DEF RunTypes
<1>4. HistoryTypes
  BY DEF Init, HistoryTypes
<1>5. LiveState
  BY DEF Init, LiveState
<1> QED BY <1>1, <1>2, <1>3, <1>4, <1>5 DEF IInv, TypeOK

\* Every state of every behaviour has the types, and a live run has a state file.
THEOREM TypesInvariant == Spec => []IInv
<1>1. Init => IInv
  BY TypesInit
<1>2. IInv /\ [Next]_vars => IInv'
  BY TypesKept
<1> QED BY <1>1, <1>2, PTL DEF Spec

\* TypeOK, for every value of the constants: whatever interrupts a run, state.json holds
\* a stage and an exit code that the subcommands know.
THEOREM TypeCorrect == Spec => []TypeOK
<1>1. IInv => TypeOK
  BY DEF IInv
<1> QED BY <1>1, TypesInvariant, PTL

-----------------------------------------------------------------------------
(* A death is told from a result *)

\* While no result is recorded, the exit code in memory and on disk is the -1 that StartRun
\* saved; from the step that records one, the state file reads as ended.
NoResultYet == disk.last_exit = -1 /\ st.last_exit = -1
ReportInv ==
    /\ pc \notin {"idle", "mark_ready", "closing", "stopping", "recorded"} => lastEnd = "running"
    /\ pc \in {"mark_ready", "closing", "recorded"} => lastEnd = "result"
    /\ pc = "stopping" => lastEnd \in {"running", "result"}
    /\ pc # "idle" /\ lastEnd = "running" => NoResultYet
    /\ pc # "idle" /\ lastEnd = "result" => ~RunDied(disk)
    /\ DeathIsReported

\* What a step does to the exit code when it changes other fields.
LEMMA ExitCodeKept ==
    ASSUME NEW s \in State
    PROVE  /\ Restarted(s).last_exit = s.last_exit
           /\ CountedFix(s).last_exit = s.last_exit
           /\ Recovered(s).last_exit = s.last_exit
           /\ \A r : WithRound(s, r).last_exit = s.last_exit
           /\ SessionForgotten(s).last_exit = s.last_exit
  BY DEF State, Restarted, CountedFix, Recovered, WithRound, SessionForgotten

\* A validation in the books touches neither the exit code nor the marks of a session, nor
\* anything else but the last verdict.
Booked(s, t, r) ==
    /\ t.last_exit = s.last_exit /\ t.stage = s.stage /\ t.head_sha = s.head_sha
    /\ t.reviewer_running = s.reviewer_running /\ t.pending = s.pending
    /\ t.rounds = s.rounds /\ t.fixes = s.fixes
    /\ t.needs_info_used = s.needs_info_used /\ t.test_commits = s.test_commits
    /\ t.baseline_sha = s.baseline_sha /\ t.last_verdict = r
    /\ t.validations =
          Append(s.validations, [round |-> Len(s.rounds), result |-> r, head_sha |-> ctxHead])

LEMMA ValidationKeeps ==
    ASSUME NEW s \in State, NEW r
    PROVE  Booked(s, WithValidation(s, r), r)
  BY DEF Booked, WithValidation, State

\* Recorded results are not mistaken for a death.
LEMMA ResultsAreNoDeath ==
    ASSUME NEW s \in State
    PROVE  /\ ~RunDied(SetStage(s, "stopped", 1))
           /\ ~RunDied(SetStage(s, "needs_action", 2))
           /\ ~RunDied(SetStage(s, "ready_to_merge", 0))
           /\ \A code \in 0..3 : ~RunDied(SetStage(s, StageForExit(code), code))
<1>1. \A stage, code : /\ SetStage(s, stage, code).stage = stage
                       /\ SetStage(s, stage, code).last_exit = code
  BY DEF SetStage, State
<1> QED BY <1>1 DEF RunDied, TerminalStages, StageForExit

\* Every step keeps it.
LEMMA ReportKept ==
    ASSUME IInv, ReportInv, [Next]_vars
    PROVE  ReportInv'
<1>0. st \in State /\ disk \in State \cup {NoState} /\ (pc # "idle" => disk \in State)
      /\ stop \in 0..3
  BY DEF IInv, TypeOK, StateTypes, LiveState, RunTypes
<1>1. ASSUME NEW d \in BOOLEAN, StartRun(d) PROVE ReportInv'
  BY <1>0, <1>1, ReportInv DEF ReportInv, NoResultYet, DeathIsReported, Recorded, StartRun,
     Save, GoTo, repoVars
<1>2. CASE CleanUp
  <2>1. pc # "idle" /\ lastEnd = "running" /\ NoResultYet
    BY <1>2, ReportInv DEF ReportInv, CleanUp
  <2>2. NoResultYet'
    BY <1>0, <1>2, <2>1, ExitCodeKept DEF NoResultYet, State, CleanUp, Calm, Save, GoTo
  <2>3. pc' \notin {"idle", "mark_ready", "closing", "recorded"} /\ lastEnd' = "running"
    BY <1>2, <2>1 DEF CleanUp, Calm, Save, GoTo
  <2> QED BY <2>2, <2>3 DEF ReportInv, DeathIsReported
<1>3. CASE PreflightRefuses
  BY <1>3, ReportInv DEF ReportInv, NoResultYet, DeathIsReported, PreflightRefuses, Calm,
     RaiseStop, GoTo
<1>4. CASE PreflightPasses
  BY <1>4, ReportInv DEF ReportInv, NoResultYet, DeathIsReported, PreflightPasses, Calm,
     GoTo
<1>5. CASE BaselineClones
  BY <1>5, ReportInv DEF ReportInv, NoResultYet, DeathIsReported, BaselineClones, Calm
<1>6. CASE BaselineEnds
  <2>1. pc # "idle" /\ lastEnd = "running" /\ NoResultYet
    BY <1>6, ReportInv DEF ReportInv, BaselineEnds
  <2>2. NoResultYet'
    BY <1>0, <1>6, <2>1, ExitCodeKept DEF NoResultYet, State, BaselineEnds, Calm, Save,
       GoTo, RaiseStop
  <2>3. pc' \notin {"idle", "mark_ready", "closing", "recorded"} /\ lastEnd' = "running"
    BY <1>6, <2>1 DEF BaselineEnds, Calm, Save, GoTo, RaiseStop
  <2> QED BY <2>2, <2>3 DEF ReportInv, DeathIsReported
<1>7. CASE Bookkeeping
  <2>1. pc # "idle" /\ lastEnd = "running" /\ NoResultYet
    BY <1>7, ReportInv DEF ReportInv, Bookkeeping
  <2>2. PICK booked \in State :
           /\ booked.last_exit = -1
           /\ \/ /\ st' = booked /\ UNCHANGED <<disk, lastEnd>> /\ pc' = "stopping"
              \/ /\ disk' = [booked EXCEPT !.head_sha = ctxHead, !.stage = "preflight",
                                         !.last_exit = IF dry THEN 0 ELSE @]
                 /\ st' = disk'
                 /\ pc' = IF dry THEN "closing" ELSE "pr"
                 /\ lastEnd' = IF dry THEN "result" ELSE lastEnd
    <3>1. local \in Seq(Commit)
      BY DEF IInv, TypeOK, RepoTypes
    <3>2. Restarted(st) \in State /\ Restarted(st).last_exit = -1
      BY <1>0, <2>1, RestartedType, ExitCodeKept DEF NoResultYet
    <3>3. Recovered(CountedFix(Restarted(st))) \in State
      BY <3>1, <3>2, CountedFixType, RecoveredType
    <3>4. Recovered(CountedFix(Restarted(st))).last_exit = -1
      BY <3>2, CountedFixType, ExitCodeKept
    <3> QED BY <3>2, <3>3, <3>4, <1>7 DEF Bookkeeping, CalmBut, Save, GoTo, RaiseStop
  <2>3. CASE st' = booked /\ UNCHANGED <<disk, lastEnd>> /\ pc' = "stopping"
    <3>1. NoResultYet' /\ lastEnd' = "running"
      BY <2>1, <2>2, <2>3 DEF NoResultYet
    <3> QED BY <2>3, <3>1 DEF ReportInv, DeathIsReported
  <2>4. CASE /\ disk' = [booked EXCEPT !.head_sha = ctxHead, !.stage = "preflight",
                                      !.last_exit = IF dry THEN 0 ELSE @]
             /\ st' = disk'
             /\ pc' = IF dry THEN "closing" ELSE "pr"
             /\ lastEnd' = IF dry THEN "result" ELSE lastEnd
    <3>1. disk'.stage = "preflight" /\ disk'.last_exit = IF dry THEN 0 ELSE -1
      BY <2>2, <2>4 DEF State
    <3>2. CASE dry
      <4>1. pc' = "closing" /\ lastEnd' = "result" /\ ~RunDied(disk')
        BY <2>4, <3>1, <3>2 DEF RunDied
      <4> QED BY <4>1 DEF ReportInv, DeathIsReported
    <3>3. CASE ~dry
      <4>1. pc' = "pr" /\ lastEnd' = "running" /\ NoResultYet'
        BY <2>1, <2>4, <3>1, <3>3 DEF NoResultYet
      <4> QED BY <4>1 DEF ReportInv, DeathIsReported
    <3> QED BY <3>2, <3>3
  <2> QED BY <2>2, <2>3, <2>4
<1>34. CASE CommitIgnored
  BY <1>34, ReportInv DEF ReportInv, NoResultYet, DeathIsReported, CommitIgnored, Calm, GoTo,
     RaiseStop
<1>35. CASE CheckBeforePush
  BY <1>35, ReportInv DEF ReportInv, NoResultYet, DeathIsReported, CheckBeforePush, Calm, GoTo,
     RaiseStop
<1>36. CASE ValidationChooses
  BY <1>36, ReportInv DEF ReportInv, NoResultYet, DeathIsReported, ValidationChooses, GoTo,
     repoVars, history
<1>37. CASE NothingToRun
  <2>1. pc # "idle" /\ lastEnd = "running" /\ NoResultYet
    BY <1>37, ReportInv DEF ReportInv, NothingToRun
  <2>2. NoResultYet'
    BY <1>0, <1>37, <2>1, ValidationKeeps DEF Booked, NoResultYet, NothingToRun, Save
  <2>3. pc' \notin {"idle", "mark_ready", "closing", "recorded"} /\ lastEnd' = "running"
    BY <1>37, <2>1 DEF NothingToRun, Calm, Save, GoTo
  <2> QED BY <2>2, <2>3 DEF ReportInv, DeathIsReported
<1>8. CASE EnsureIgnored
  <2>1. pc # "idle" /\ lastEnd = "running" /\ NoResultYet
    BY <1>8, ReportInv DEF ReportInv, EnsureIgnored
  <2>2. NoResultYet'
    BY <1>0, <1>8, <2>1, ExitCodeKept DEF NoResultYet, State, EnsureIgnored, Calm, Save,
       GoTo, RaiseStop
  <2>3. pc' \notin {"idle", "mark_ready", "closing", "recorded"} /\ lastEnd' = "running"
    BY <1>8, <2>1 DEF EnsureIgnored, Calm, Save, GoTo, RaiseStop
  <2> QED BY <2>2, <2>3 DEF ReportInv, DeathIsReported
<1>9. CASE PushBranch
  BY <1>9, ReportInv DEF ReportInv, NoResultYet, DeathIsReported, PushBranch, Calm, GoTo,
     RaiseStop
<1>10. CASE EnsurePR
  <2>1. pc # "idle" /\ lastEnd = "running" /\ NoResultYet
    BY <1>10, ReportInv DEF ReportInv, EnsurePR
  <2> DEFINE d == [st EXCEPT !.force_push = FALSE, !.pr_number = 1]
             e == [st EXCEPT !.force_push = FALSE]
  <2>a. /\ d.last_exit = st.last_exit /\ [d EXCEPT !.head_sha = ctxHead].last_exit = st.last_exit
        /\ e.last_exit = st.last_exit
    BY <1>0 DEF State
  <2>b. \/ disk' = d /\ st' = [d EXCEPT !.head_sha = ctxHead]
        \/ disk' = e /\ st' = e
    BY <1>10 DEF EnsurePR, Save
  <2>2. NoResultYet'
    <3> HIDE DEF d, e
    <3>1. disk'.last_exit = st.last_exit /\ st'.last_exit = st.last_exit
      BY <2>a, <2>b
    <3> QED BY <3>1, <2>1 DEF NoResultYet
  <2>3. pc' \notin {"idle", "mark_ready", "closing", "recorded"} /\ lastEnd' = "running"
    BY <1>10, <2>1 DEF EnsurePR, Calm, Save, GoTo, RaiseStop
  <2> QED BY <2>2, <2>3 DEF ReportInv, DeathIsReported
<1>11. CASE BeginReview
  BY <1>0, <1>11, ReportInv DEF ReportInv, NoResultYet, DeathIsReported, BeginReview,
     CalmBut, Save, GoTo
<1>12. CASE ReviewFails
  <2>1. pc # "idle" /\ lastEnd = "running" /\ NoResultYet
    BY <1>12, ReportInv DEF ReportInv, ReviewFails
  <2>2. NoResultYet'
    BY <1>0, <1>12, <2>1, ExitCodeKept DEF NoResultYet, State, ReviewFails, Calm,
       RoundStops, Save, RaiseStop, GoTo
  <2>3. pc' \notin {"idle", "mark_ready", "closing", "recorded"} /\ lastEnd' = "running"
    BY <1>12, <2>1 DEF ReviewFails, Calm, RoundStops, Save, RaiseStop, GoTo
  <2> QED BY <2>2, <2>3 DEF ReportInv, DeathIsReported
<1>13. CASE ReviewEnds
  BY <1>13, ReportInv DEF ReportInv, NoResultYet, DeathIsReported, ReviewEnds, Calm, GoTo
<1>14. CASE CheckBeforeCommit
  BY <1>14, ReportInv DEF ReportInv, NoResultYet, DeathIsReported, CheckBeforeCommit, Calm,
     GoTo
<1>15. CASE CommitTests
  <2>1. pc # "idle" /\ lastEnd = "running" /\ NoResultYet
    BY <1>15, ReportInv DEF ReportInv, CommitTests
  <2>2. NoResultYet'
    BY <1>0, <1>15, <2>1, ExitCodeKept DEF NoResultYet, State, CommitTests, Calm, GoTo,
       RoundStops, Save, RaiseStop
  <2>3. pc' \notin {"idle", "mark_ready", "closing", "recorded"} /\ lastEnd' = "running"
    BY <1>15, <2>1 DEF CommitTests, Calm, GoTo, RoundStops, Save, RaiseStop
  <2> QED BY <2>2, <2>3 DEF ReportInv, DeathIsReported
<1>16. CASE RecordRound
  <2>1. pc # "idle" /\ lastEnd = "running" /\ NoResultYet
    BY <1>16, ReportInv DEF ReportInv, RecordRound
  <2>2. NoResultYet'
    BY <1>0, <1>16, <2>1, ExitCodeKept DEF NoResultYet, State, RecordRound, Calm, Save,
       GoTo
  <2>3. pc' \notin {"idle", "mark_ready", "closing", "recorded"} /\ lastEnd' = "running"
    BY <1>16, <2>1 DEF RecordRound, Calm, Save, GoTo
  <2> QED BY <2>2, <2>3 DEF ReportInv, DeathIsReported
<1>17. CASE PushTests
  <2>1. pc # "idle" /\ lastEnd = "running" /\ NoResultYet
    BY <1>17, ReportInv DEF ReportInv, PushTests
  <2>2. NoResultYet'
    BY <1>0, <1>17, <2>1, ExitCodeKept DEF NoResultYet, State, PushTests, Calm, GoTo,
       RaiseStop
  <2>3. pc' \notin {"idle", "mark_ready", "closing", "recorded"} /\ lastEnd' = "running"
    BY <1>17, <2>1 DEF PushTests, Calm, GoTo, RaiseStop
  <2> QED BY <2>2, <2>3 DEF ReportInv, DeathIsReported
<1>18. CASE Outcome
  <2>1. pc # "idle" /\ lastEnd = "running" /\ NoResultYet
    BY <1>18, ReportInv DEF ReportInv, Outcome
  <2>2. CASE round.verdict = "APPROVE"
    <3>1. pc' = "approved" /\ lastEnd' = "running" /\ NoResultYet'
      BY <1>18, <2>1, <2>2 DEF NoResultYet, Outcome, CalmBut, Save, GoTo
    <3> QED BY <3>1 DEF ReportInv, DeathIsReported
  <2>3. CASE round.verdict # "APPROVE"
    <3>1. pc' = "closing" /\ lastEnd' = "result"
      BY <1>18, <2>3 DEF Outcome, CalmBut, Save, GoTo
    <3>2. ~RunDied(disk')
      BY <1>0, <1>18, <2>3, ResultsAreNoDeath DEF Outcome, CalmBut, Save, GoTo
    <3> QED BY <3>1, <3>2 DEF ReportInv, DeathIsReported
  <2> QED BY <2>2, <2>3
<1>19. CASE BeginValidation
  <2>1. pc # "idle" /\ lastEnd = "running" /\ NoResultYet
    BY <1>19, ReportInv DEF ReportInv, BeginValidation
  <2>2. NoResultYet'
    BY <1>0, <1>19, <2>1, ExitCodeKept DEF NoResultYet, State, BeginValidation, Calm,
       Save, GoTo, RaiseStop
  <2>3. pc' \notin {"idle", "mark_ready", "closing", "recorded"} /\ lastEnd' = "running"
    BY <1>19, <2>1 DEF BeginValidation, Calm, Save, GoTo, RaiseStop
  <2> QED BY <2>2, <2>3 DEF ReportInv, DeathIsReported
<1>20. CASE ValidationClones
  BY <1>20, ReportInv DEF ReportInv, NoResultYet, DeathIsReported, ValidationClones, Calm,
     GoTo
<1>21. CASE ValidationEnds
  <2>1. pc # "idle" /\ lastEnd = "running" /\ NoResultYet
    BY <1>21, ReportInv DEF ReportInv, ValidationEnds
  <2>2. NoResultYet'
    <3>1. CASE UNCHANGED <<st, disk>>
      BY <2>1, <3>1 DEF NoResultYet
    <3>2. ASSUME NEW r \in Results, st' = WithValidation(st, r), disk' = st'
          PROVE  NoResultYet'
      <4>1. WithValidation(st, r).last_exit = st.last_exit
        BY <1>0, ValidationKeeps DEF Booked
      <4> QED BY <2>1, <3>2, <4>1 DEF NoResultYet
    <3> QED BY <1>21, <3>1, <3>2 DEF ValidationEnds, Save
  <2>3. pc' \notin {"idle", "mark_ready", "closing", "recorded"} /\ lastEnd' = "running"
    BY <1>21, <2>1 DEF ValidationEnds, Save, GoTo, RaiseStop
  <2> QED BY <2>2, <2>3 DEF ReportInv, DeathIsReported
<1>22. CASE Finish
  <2>1. pc # "idle" /\ lastEnd = "running" /\ NoResultYet
    BY <1>22, ReportInv DEF ReportInv, Finish
  <2>2. lastEnd' = "result" /\ pc' \in {"mark_ready", "closing"}
    BY <1>22 DEF Finish, CalmBut, Save, GoTo
  <2>3. ~RunDied(disk')
    BY <1>0, <1>22, ResultsAreNoDeath DEF Finish, CalmBut, Save, GoTo
  <2> QED BY <2>2, <2>3 DEF ReportInv, DeathIsReported
<1>23. CASE MarkReady
  BY <1>23, ReportInv DEF ReportInv, NoResultYet, DeathIsReported, MarkReady, Calm, GoTo
<1>24. CASE RecordStop
  <2>1. pc' = "recorded" /\ lastEnd' = "result"
    BY <1>24 DEF RecordStop, CalmBut, Save, GoTo
  <2>2. ~RunDied(disk')
    BY <1>0, <1>24, ResultsAreNoDeath DEF RecordStop, CalmBut, Save, GoTo
  <2> QED BY <2>1, <2>2 DEF ReportInv, DeathIsReported
<1>25. CASE Exit
  BY <1>25, ReportInv DEF ReportInv, NoResultYet, DeathIsReported, Recorded, Exit, Gone,
     repoVars, history
<1>26. CASE ReviewerWrites
  BY <1>26, ReportInv DEF ReportInv, NoResultYet, DeathIsReported, ReviewerWrites, Calm
<1>27. CASE Raise
  BY <1>27, ReportInv DEF ReportInv, NoResultYet, DeathIsReported, Raise, RaiseStop, GoTo,
     repoVars, history
<1>28. CASE Die
  BY <1>28, ReportInv DEF ReportInv, NoResultYet, DeathIsReported, RunDied, Recorded, Die,
     Gone, repoVars
<1>29. CASE StopLive
  <2>1. pc' = "idle" /\ lastEnd' = "stopped"
    BY <1>29 DEF StopLive, Gone, repoVars
  <2>2. ~RunDied(disk')
    BY <1>0, <1>29, ResultsAreNoDeath DEF StopLive
  <2> QED BY <2>1, <2>2 DEF ReportInv, DeathIsReported
<1>30. CASE StopDead
  <2>1. pc' = "idle" /\ lastEnd' = "stopped"
    BY <1>30 DEF StopDead, repoVars, runVars
  <2>2. ~RunDied(disk')
    BY <1>0, <1>30, ResultsAreNoDeath DEF StopDead
  <2> QED BY <2>1, <2>2 DEF ReportInv, DeathIsReported
<1>31. CASE Reset
  BY <1>31, ReportInv DEF ReportInv, NoResultYet, DeathIsReported, Recorded, Reset,
     repoVars, runVars
<1>32. CASE Author
  <2>1. AuthorUnchanged
    BY <1>32 DEF Author, AuthorCommits, AuthorRebases, AuthorAmends, Rewrite, AuthorSquashes,
       AuthorUndoes, BaseMoves
  <2> QED BY <2>1, ReportInv DEF ReportInv, NoResultYet, DeathIsReported, RunDied, Recorded,
         AuthorUnchanged, runVars, history
<1>33. CASE UNCHANGED vars
  BY <1>33, ReportInv DEF ReportInv, NoResultYet, DeathIsReported, RunDied, Recorded, vars,
     runVars, history, repoVars
<1> QED BY <1>1, <1>2, <1>3, <1>4, <1>5, <1>6, <1>7, <1>8, <1>9, <1>10, <1>11, <1>12, <1>13,
           <1>14, <1>15, <1>16, <1>17, <1>18, <1>19, <1>20, <1>21, <1>22, <1>23, <1>24, <1>25,
           <1>26, <1>27, <1>28, <1>29, <1>30, <1>31, <1>32, <1>33, <1>34, <1>35, <1>36, <1>37
           DEF Next, RunStep

\* DeathIsReported, for every value of the constants: with no run live, `wait` and `status`
\* read the state file as that of a dead run exactly when the last run recorded no result and
\* nobody has closed it, whatever interrupted which step.
THEOREM DeathReported == Spec => []DeathIsReported
<1>1. Init => ReportInv
  BY DEF Init, ReportInv, NoResultYet, DeathIsReported, Recorded
<1>2. IInv /\ ReportInv /\ [Next]_vars => ReportInv'
  BY ReportKept
<1>3. ReportInv => DeathIsReported
  BY DEF ReportInv
<1> QED BY <1>1, <1>2, <1>3, TypesInvariant, PTL DEF Spec

-----------------------------------------------------------------------------
(* No reviewer file the state does not know about *)

\* Uncommitted reviewer files lie in the tree only while state.json marks a session that has
\* not finished or files kept for the next round.  Memory and disk agree on both marks at every
\* step; the mark of the session is set before the first file can appear (BeginReview), and
\* what a recorded round leaves in the tree is what a NEEDS_INFO round wrote.
Marked == disk.reviewer_running \/ disk.pending
SameMarks == st.reviewer_running = disk.reviewer_running /\ st.pending = disk.pending
InSession == {"reviewing", "abandon", "commit", "committing", "record"}
DraftInv ==
    /\ drafts => disk \in State /\ Marked
    /\ pc # "idle" => SameMarks
    /\ pc \in InSession => st.reviewer_running = TRUE
    /\ pc = "record" /\ drafts => round.files = TRUE /\ round.verdict = "NEEDS_INFO"

\* What a step does to the marks when it changes other fields.
LEMMA MarksKept ==
    ASSUME NEW s \in State
    PROVE  /\ Restarted(s).reviewer_running = s.reviewer_running
           /\ Restarted(s).pending = s.pending
           /\ CountedFix(s).reviewer_running = s.reviewer_running
           /\ CountedFix(s).pending = s.pending
           /\ Recovered(s).reviewer_running = s.reviewer_running
           /\ Recovered(s).pending = s.pending
           /\ \A stage, code :
                 /\ SetStage(s, stage, code).reviewer_running = s.reviewer_running
                 /\ SetStage(s, stage, code).pending = s.pending
  BY DEF State, Restarted, CountedFix, Recovered, SetStage

\* A step that moves neither the files nor the marks, outside a session.
LEMMA MarksUnmoved ==
    ASSUME DraftInv, drafts' = drafts, pc' \notin InSession, disk' \in State,
           disk \in State =>
               disk'.reviewer_running = disk.reviewer_running /\ disk'.pending = disk.pending,
           pc' # "idle" => SameMarks'
    PROVE  DraftInv'
<1>1. drafts' => Marked'
  BY DEF DraftInv, Marked
<1> QED BY <1>1 DEF DraftInv, InSession

\* Every step of the run, its interruptions and the author keeps the marks true.
LEMMA DraftsKept ==
    ASSUME IInv, DraftInv, [Next]_vars
    PROVE  DraftInv'
<1>0. st \in State /\ disk \in State \cup {NoState} /\ (pc # "idle" => disk \in State)
      /\ IInv'
  BY TypesKept DEF IInv, TypeOK, StateTypes, LiveState
<1>1. ASSUME NEW d \in BOOLEAN, StartRun(d) PROVE DraftInv'
  <2>1. pc' = "started" /\ drafts' = drafts /\ st' = disk'
    BY <1>1 DEF StartRun, Save, GoTo
  <2>2. disk' \in State
    BY <1>0, <2>1 DEF IInv, LiveState
  <2>3. CASE disk = NoState
    BY <2>1, <2>2, <2>3, NoStateAssumption, MarksUnmoved DEF SameMarks, InSession
  <2>4. CASE disk # NoState
    <3>1. disk' = [disk EXCEPT !.last_exit = -1] /\ disk \in State
      BY <1>0, <1>1, <2>4 DEF StartRun, Save
    <3>2. disk'.reviewer_running = disk.reviewer_running /\ disk'.pending = disk.pending
      BY <3>1 DEF State
    <3> QED BY <2>1, <2>2, <3>2, MarksUnmoved DEF SameMarks, InSession
  <2> QED BY <2>3, <2>4
<1>2. CASE CleanUp
  BY <1>0, <1>2 DEF DraftInv, Marked, SameMarks, InSession, State, CleanUp, Calm, Save, GoTo
<1>3. CASE PreflightRefuses
  BY <1>3 DEF DraftInv, Marked, SameMarks, InSession, PreflightRefuses, Calm, RaiseStop,
     GoTo
<1>4. CASE PreflightPasses
  BY <1>4 DEF DraftInv, Marked, SameMarks, InSession, PreflightPasses, Calm, GoTo
<1>5. CASE BaselineClones
  BY <1>5 DEF DraftInv, Marked, SameMarks, InSession, BaselineClones, Calm
<1>6. CASE BaselineEnds
  <2>1. SameMarks /\ pc # "idle"
    BY <1>6 DEF DraftInv, BaselineEnds
  <2>2. SameMarks' /\ disk'.reviewer_running = st.reviewer_running /\ disk'.pending = st.pending
    BY <1>0, <1>6, <2>1, MarksKept DEF SameMarks, State, BaselineEnds, Calm, Save, GoTo,
       RaiseStop
  <2>3. drafts' = drafts /\ pc' \notin InSession /\ pc' # "idle"
    BY <1>6 DEF InSession, BaselineEnds, Calm, Save, GoTo, RaiseStop
  <2>4. disk' \in State
    BY <1>0, <2>3 DEF IInv, LiveState
  <2> QED BY <2>1, <2>2, <2>3, <2>4, MarksUnmoved DEF SameMarks
<1>7. CASE Bookkeeping
  <2>1. SameMarks /\ pc # "idle"
    BY <1>7 DEF DraftInv, Bookkeeping
  <2>2. PICK booked \in State :
           /\ booked.reviewer_running = st.reviewer_running /\ booked.pending = st.pending
           /\ \/ st' = booked /\ UNCHANGED disk
              \/ /\ disk' = [booked EXCEPT !.head_sha = ctxHead, !.stage = "preflight",
                                         !.last_exit = IF dry THEN 0 ELSE @]
                 /\ st' = disk'
    <3>1. local \in Seq(Commit)
      BY <1>0 DEF IInv, TypeOK, RepoTypes
    <3>2. /\ Restarted(st) \in State
          /\ Restarted(st).reviewer_running = st.reviewer_running
          /\ Restarted(st).pending = st.pending
      BY <1>0, RestartedType, MarksKept
    <3>3. Recovered(CountedFix(Restarted(st))) \in State
      BY <3>1, <3>2, CountedFixType, RecoveredType
    <3>4. /\ Recovered(CountedFix(Restarted(st))).reviewer_running = st.reviewer_running
          /\ Recovered(CountedFix(Restarted(st))).pending = st.pending
      BY <3>2, CountedFixType, MarksKept
    <3>5. \/ st' = Restarted(st) /\ UNCHANGED disk
          \/ st' = Recovered(CountedFix(Restarted(st))) /\ UNCHANGED disk
          \/ /\ disk' = [Recovered(CountedFix(Restarted(st))) EXCEPT
                              !.head_sha = ctxHead, !.stage = "preflight",
                              !.last_exit = IF dry THEN 0 ELSE @]
             /\ st' = disk'
      BY <1>7 DEF Bookkeeping, CalmBut, Save, GoTo, RaiseStop
    <3> QED BY <3>2, <3>3, <3>4, <3>5
  <2>3. SameMarks' /\ disk'.reviewer_running = st.reviewer_running /\ disk'.pending = st.pending
    BY <2>1, <2>2 DEF SameMarks, State
  <2>4. drafts' = drafts /\ pc' \in {"stopping", "closing", "pr"}
    BY <1>7 DEF Bookkeeping, CalmBut, Save, GoTo, RaiseStop
  <2>5. disk' \in State
    BY <1>0, <2>4 DEF IInv, LiveState
  <2> QED BY <2>1, <2>3, <2>4, <2>5, MarksUnmoved DEF SameMarks, InSession
<1>34. CASE CommitIgnored
  BY <1>34 DEF DraftInv, Marked, SameMarks, InSession, CommitIgnored, Calm, GoTo, RaiseStop
<1>35. CASE CheckBeforePush
  BY <1>35 DEF DraftInv, Marked, SameMarks, InSession, CheckBeforePush, Calm, GoTo, RaiseStop
<1>36. CASE ValidationChooses
  BY <1>36 DEF DraftInv, Marked, SameMarks, InSession, ValidationChooses, GoTo
<1>37. CASE NothingToRun
  <2>1. SameMarks /\ pc # "idle"
    BY <1>37 DEF DraftInv, NothingToRun
  <2>2. SameMarks' /\ disk'.reviewer_running = st.reviewer_running /\ disk'.pending = st.pending
    BY <1>0, <1>37, <2>1, ValidationKeeps DEF Booked, SameMarks, NothingToRun, Save
  <2>3. drafts' = drafts /\ pc' \notin InSession /\ pc' # "idle"
    BY <1>37 DEF InSession, NothingToRun, Calm, Save, GoTo
  <2>4. disk' \in State
    BY <1>0, <2>3 DEF IInv, LiveState
  <2> QED BY <2>1, <2>2, <2>3, <2>4, MarksUnmoved DEF SameMarks
<1>8. CASE EnsureIgnored
  <2>1. SameMarks /\ pc # "idle"
    BY <1>8 DEF DraftInv, EnsureIgnored
  <2>2. SameMarks' /\ disk'.reviewer_running = st.reviewer_running /\ disk'.pending = st.pending
    BY <1>0, <1>8, <2>1, MarksKept DEF SameMarks, State, EnsureIgnored, Calm, Save, GoTo,
       RaiseStop
  <2>3. drafts' = drafts /\ pc' \notin InSession /\ pc' # "idle"
    BY <1>8 DEF InSession, EnsureIgnored, Calm, Save, GoTo, RaiseStop
  <2>4. disk' \in State
    BY <1>0, <2>3 DEF IInv, LiveState
  <2> QED BY <2>1, <2>2, <2>3, <2>4, MarksUnmoved DEF SameMarks
<1>9. CASE PushBranch
  BY <1>9 DEF DraftInv, Marked, SameMarks, InSession, PushBranch, Calm, GoTo, RaiseStop
<1>10. CASE EnsurePR
  <2>1. SameMarks /\ pc # "idle"
    BY <1>10 DEF DraftInv, EnsurePR
  <2>2. SameMarks' /\ disk'.reviewer_running = st.reviewer_running /\ disk'.pending = st.pending
    BY <1>0, <1>10, <2>1, MarksKept DEF SameMarks, State, EnsurePR, Calm, Save, GoTo,
       RaiseStop
  <2>3. drafts' = drafts /\ pc' \notin InSession /\ pc' # "idle"
    BY <1>10 DEF InSession, EnsurePR, Calm, Save, GoTo, RaiseStop
  <2>4. disk' \in State
    BY <1>0, <2>3 DEF IInv, LiveState
  <2> QED BY <2>1, <2>2, <2>3, <2>4, MarksUnmoved DEF SameMarks
<1>11. CASE BeginReview
  <2>1. disk' = st' /\ drafts' = drafts /\ pc' \in {"reviewing", "abandon"}
    BY <1>11 DEF BeginReview, CalmBut, Save, GoTo
  <2>2. st'.reviewer_running = TRUE
    BY <1>0, <1>11 DEF BeginReview, Save, State
  <2>3. disk' \in State
    BY <1>0, <2>1 DEF IInv, LiveState
  <2> QED BY <2>1, <2>2, <2>3 DEF DraftInv, Marked, SameMarks, InSession
<1>12. CASE ReviewFails
  BY <1>0, <1>12 DEF DraftInv, Marked, SameMarks, InSession, State, ReviewFails, Calm,
     RoundStops, Save, RaiseStop, GoTo
<1>13. CASE ReviewEnds
  <2>1. UNCHANGED <<drafts, disk, st>> /\ pc = "reviewing" /\ pc' \in {"commit", "record"}
    BY <1>13 DEF ReviewEnds, Calm, GoTo
  <2>2. pc' = "record" /\ drafts => round'.files = TRUE /\ round'.verdict = "NEEDS_INFO"
    BY <1>13 DEF ReviewEnds, GoTo
  <2> QED BY <2>1, <2>2 DEF DraftInv, Marked, SameMarks, InSession
<1>14. CASE CheckBeforeCommit
  BY <1>14 DEF DraftInv, Marked, SameMarks, InSession, CheckBeforeCommit, Calm, GoTo
<1>15. CASE CommitTests
  BY <1>0, <1>15 DEF DraftInv, Marked, SameMarks, InSession, State, CommitTests, Calm, GoTo,
     RoundStops, Save, RaiseStop
<1>16. CASE RecordRound
  <2>1. disk' = st' /\ drafts' = drafts /\ pc = "record" /\ pc' \in {"push_tests", "outcome"}
    BY <1>16 DEF RecordRound, Calm, Save, GoTo
  <2>2. disk' \in State
    BY <1>0, <2>1 DEF IInv, LiveState
  <2>3. ASSUME drafts PROVE disk'.pending = TRUE
    <3>1. round.files = TRUE /\ round.verdict = "NEEDS_INFO"
      BY <2>1, <2>3 DEF DraftInv
    <3>2. WithRound(st, round).pending = (round.verdict = "NEEDS_INFO" /\ round.files)
      BY <1>0 DEF WithRound, State
    <3> QED BY <1>16, <3>1, <3>2 DEF RecordRound, Save
  <2> QED BY <2>1, <2>2, <2>3 DEF DraftInv, Marked, SameMarks, InSession
<1>17. CASE PushTests
  BY <1>0, <1>17 DEF DraftInv, Marked, SameMarks, InSession, State, PushTests, Calm, GoTo,
     RaiseStop
<1>18. CASE Outcome
  <2>1. SameMarks /\ pc # "idle"
    BY <1>18 DEF DraftInv, Outcome
  <2>2. SameMarks' /\ disk'.reviewer_running = st.reviewer_running /\ disk'.pending = st.pending
    BY <1>0, <1>18, <2>1, MarksKept DEF SameMarks, Outcome, CalmBut, Save, GoTo
  <2>3. drafts' = drafts /\ pc' \notin InSession /\ pc' # "idle"
    BY <1>18 DEF InSession, Outcome, CalmBut, Save, GoTo
  <2>4. disk' \in State
    BY <1>0, <2>3 DEF IInv, LiveState
  <2> QED BY <2>1, <2>2, <2>3, <2>4, MarksUnmoved DEF SameMarks
<1>19. CASE BeginValidation
  <2>1. SameMarks /\ pc # "idle"
    BY <1>19 DEF DraftInv, BeginValidation
  <2>2. SameMarks' /\ disk'.reviewer_running = st.reviewer_running /\ disk'.pending = st.pending
    BY <1>0, <1>19, <2>1, MarksKept DEF SameMarks, State, BeginValidation, Calm, Save,
       GoTo, RaiseStop
  <2>3. drafts' = drafts /\ pc' \notin InSession /\ pc' # "idle"
    BY <1>19 DEF InSession, BeginValidation, Calm, Save, GoTo, RaiseStop
  <2>4. disk' \in State
    BY <1>0, <2>3 DEF IInv, LiveState
  <2> QED BY <2>1, <2>2, <2>3, <2>4, MarksUnmoved DEF SameMarks
<1>20. CASE ValidationClones
  BY <1>20 DEF DraftInv, Marked, SameMarks, InSession, ValidationClones, Calm, GoTo
<1>21. CASE ValidationEnds
  <2>1. SameMarks /\ pc # "idle"
    BY <1>21 DEF DraftInv, ValidationEnds
  <2>2. SameMarks' /\ disk'.reviewer_running = st.reviewer_running /\ disk'.pending = st.pending
    <3>1. CASE UNCHANGED <<st, disk>>
      BY <2>1, <3>1 DEF SameMarks
    <3>2. ASSUME NEW r \in Results, st' = WithValidation(st, r), disk' = st'
          PROVE  SameMarks' /\ disk'.reviewer_running = st.reviewer_running
                 /\ disk'.pending = st.pending
      <4>1. /\ WithValidation(st, r).reviewer_running = st.reviewer_running
            /\ WithValidation(st, r).pending = st.pending
        BY <1>0, ValidationKeeps DEF Booked
      <4> QED BY <2>1, <3>2, <4>1 DEF SameMarks
    <3> QED BY <1>21, <3>1, <3>2 DEF ValidationEnds, Save
  <2>3. drafts' = drafts /\ pc' \notin InSession /\ pc' # "idle"
    BY <1>21 DEF InSession, ValidationEnds, Save, GoTo, RaiseStop
  <2>4. disk' \in State
    BY <1>0, <2>3 DEF IInv, LiveState
  <2> QED BY <2>1, <2>2, <2>3, <2>4, MarksUnmoved DEF SameMarks
<1>22. CASE Finish
  <2>1. SameMarks /\ pc # "idle"
    BY <1>22 DEF DraftInv, Finish
  <2>2. SameMarks' /\ disk'.reviewer_running = st.reviewer_running /\ disk'.pending = st.pending
    BY <1>0, <1>22, <2>1, MarksKept DEF SameMarks, Finish, CalmBut, Save, GoTo
  <2>3. drafts' = drafts /\ pc' \notin InSession /\ pc' # "idle"
    BY <1>22 DEF InSession, Finish, CalmBut, Save, GoTo
  <2>4. disk' \in State
    BY <1>0, <2>3 DEF IInv, LiveState
  <2> QED BY <2>1, <2>2, <2>3, <2>4, MarksUnmoved DEF SameMarks
<1>23. CASE MarkReady
  BY <1>23 DEF DraftInv, Marked, SameMarks, InSession, MarkReady, Calm, GoTo
<1>24. CASE RecordStop
  <2>1. SameMarks /\ pc # "idle"
    BY <1>24 DEF DraftInv, RecordStop
  <2>2. SameMarks' /\ disk'.reviewer_running = st.reviewer_running /\ disk'.pending = st.pending
    BY <1>0, <1>24, <2>1, MarksKept DEF SameMarks, RecordStop, CalmBut, Save, GoTo
  <2>3. drafts' = drafts /\ pc' \notin InSession /\ pc' # "idle"
    BY <1>24 DEF InSession, RecordStop, CalmBut, Save, GoTo
  <2>4. disk' \in State
    BY <1>0, <2>3 DEF IInv, LiveState
  <2> QED BY <2>1, <2>2, <2>3, <2>4, MarksUnmoved DEF SameMarks
<1>25. CASE Exit
  BY <1>0, <1>25 DEF DraftInv, Marked, SameMarks, InSession, Exit, Gone, repoVars, history
<1>26. CASE ReviewerWrites
  BY <1>0, <1>26 DEF DraftInv, Marked, SameMarks, InSession, ReviewerWrites, Calm
<1>27. CASE Raise
  BY <1>27 DEF DraftInv, Marked, SameMarks, InSession, Raise, RaiseStop, GoTo, repoVars,
     history
<1>28. CASE Die
  BY <1>0, <1>28 DEF DraftInv, Marked, SameMarks, InSession, Die, Gone, repoVars
<1>29. CASE StopLive
  <2>1. pc' = "idle" /\ drafts' = drafts /\ disk \in State
    BY <1>0, <1>29 DEF StopLive, Gone, repoVars
  <2>2. disk' \in State
    BY <1>29, <2>1, ResultTypes DEF StopLive
  <2>3. disk'.reviewer_running = disk.reviewer_running /\ disk'.pending = disk.pending
    BY <1>29, <2>1, MarksKept DEF StopLive
  <2> QED BY <2>1, <2>2, <2>3, MarksUnmoved DEF InSession
<1>30. CASE StopDead
  <2>1. pc' = "idle" /\ drafts' = drafts /\ disk \in State
    BY <1>0, <1>30 DEF StopDead, repoVars, runVars
  <2>2. disk' \in State
    BY <1>30, <2>1, ResultTypes DEF StopDead
  <2>3. disk'.reviewer_running = disk.reviewer_running /\ disk'.pending = disk.pending
    BY <1>30, <2>1, MarksKept DEF StopDead
  <2> QED BY <2>1, <2>2, <2>3, MarksUnmoved DEF InSession
<1>31. CASE Reset
  BY <1>0, <1>31 DEF DraftInv, Marked, SameMarks, InSession, Reset, repoVars, runVars
<1>32. CASE Author
  <2>1. AuthorUnchanged
    BY <1>32 DEF Author, AuthorCommits, AuthorRebases, AuthorAmends, Rewrite, AuthorSquashes,
       AuthorUndoes, BaseMoves
  <2> QED BY <2>1 DEF DraftInv, Marked, SameMarks, InSession, AuthorUnchanged, runVars
<1>33. CASE UNCHANGED vars
  BY <1>33 DEF DraftInv, Marked, SameMarks, InSession, vars, runVars, history, repoVars
<1> QED BY <1>1, <1>2, <1>3, <1>4, <1>5, <1>6, <1>7, <1>8, <1>9, <1>10, <1>11, <1>12, <1>13,
           <1>14, <1>15, <1>16, <1>17, <1>18, <1>19, <1>20, <1>21, <1>22, <1>23, <1>24, <1>25,
           <1>26, <1>27, <1>28, <1>29, <1>30, <1>31, <1>32, <1>33, <1>34, <1>35, <1>36, <1>37
           DEF Next, RunStep

\* NoOrphanDrafts, for every value of the constants: a run may die at any step, and the next
\* one still knows whose files lie in the tree.
THEOREM DraftsKnown == Spec => []NoOrphanDrafts
<1>1. Init => DraftInv
  BY DEF Init, DraftInv, InSession
<1>2. IInv /\ DraftInv /\ [Next]_vars => DraftInv'
  BY DraftsKept
<1>3. DraftInv => NoOrphanDrafts
  BY NoStateAssumption DEF DraftInv, Marked, NoOrphanDrafts, Recorded
<1> QED BY <1>1, <1>2, <1>3, TypesInvariant, PTL DEF Spec

-----------------------------------------------------------------------------
(* What each step of a run does to the review that state.json tells of *)

\* The fields of a state that tell of the review, left alone.
SameReview(s, t) ==
    /\ t.rounds = s.rounds /\ t.validations = s.validations /\ t.fixes = s.fixes
    /\ t.needs_info_used = s.needs_info_used /\ t.test_commits = s.test_commits
    /\ t.baseline_sha = s.baseline_sha /\ t.last_verdict = s.last_verdict

\* The steps of a live run that add nothing to the review the state tells of.
Quiet ==
    \/ CleanUp \/ PreflightRefuses \/ PreflightPasses \/ BaselineClones
    \/ EnsureIgnored \/ CommitIgnored \/ CheckBeforePush \/ PushBranch \/ EnsurePR
    \/ BeginReview \/ ReviewFails \/ ReviewEnds \/ CheckBeforeCommit \/ PushTests \/ Outcome
    \/ BeginValidation \/ ValidationChooses \/ ValidationClones \/ Finish \/ MarkReady
    \/ RecordStop \/ ReviewerWrites \/ Raise

\* A quiet step leaves the review alone in memory, and what it saves is that review.
LEMMA QuietSteps ==
    ASSUME IInv, Quiet
    PROVE  /\ SameReview(st, st')
           /\ disk' = disk \/ SameReview(st, disk')
           /\ pc # "idle" /\ pc' # "idle"
<1>0. st \in State
  BY DEF IInv, TypeOK, StateTypes
<1>1. CASE CleanUp
  BY <1>0, <1>1 DEF CleanUp, Save, SessionForgotten, GoTo, Calm, SameReview, State
<1>2. CASE PreflightRefuses
  BY <1>0, <1>2 DEF PreflightRefuses, RaiseStop, Calm, GoTo, SameReview, State
<1>3. CASE PreflightPasses
  BY <1>0, <1>3 DEF PreflightPasses, GoTo, Calm, SameReview, State
<1>4. CASE BaselineClones
  BY <1>0, <1>4 DEF BaselineClones, Calm, SameReview, State
<1>5. CASE EnsureIgnored
  BY <1>0, <1>5 DEF EnsureIgnored, Save, GoTo, RaiseStop, Calm, SameReview, State
<1>21. CASE CommitIgnored
  BY <1>0, <1>21 DEF CommitIgnored, GoTo, RaiseStop, Calm, SameReview, State
<1>22. CASE CheckBeforePush
  BY <1>0, <1>22 DEF CheckBeforePush, GoTo, RaiseStop, Calm, SameReview, State
<1>23. CASE ValidationChooses
  BY <1>0, <1>23 DEF ValidationChooses, GoTo, SameReview, State
<1>6. CASE PushBranch
  BY <1>0, <1>6 DEF PushBranch, GoTo, RaiseStop, Calm, SameReview, State
<1>7. CASE EnsurePR
  <2>1. pc = "pushed" /\ pc' \in {"approved", "review", "stopping"}
    BY <1>7 DEF EnsurePR, GoTo, RaiseStop
  <2>2. CASE /\ disk' = [st EXCEPT !.force_push = FALSE, !.pr_number = 1]
             /\ st' = [disk' EXCEPT !.head_sha = ctxHead]
    <3>1. disk' \in State /\ SameReview(st, disk')
      BY <1>0, <2>2 DEF SameReview, State
    <3>2. SameReview(disk', st')
      BY <2>2, <3>1 DEF SameReview, State
    <3> QED BY <2>1, <3>1, <3>2 DEF SameReview
  <2>3. CASE Save([st EXCEPT !.force_push = FALSE])
    BY <1>0, <2>1, <2>3 DEF Save, SameReview, State
  <2> QED BY <1>7, <2>2, <2>3 DEF EnsurePR
<1>8. CASE BeginReview
  BY <1>0, <1>8 DEF BeginReview, Save, GoTo, CalmBut, SameReview, State
<1>9. CASE ReviewFails
  BY <1>0, <1>9 DEF ReviewFails, Calm, RoundStops, Save, SessionForgotten, RaiseStop, GoTo,
     SameReview, State
<1>10. CASE ReviewEnds
  BY <1>0, <1>10 DEF ReviewEnds, GoTo, Calm, SameReview, State
<1>11. CASE CheckBeforeCommit
  BY <1>0, <1>11 DEF CheckBeforeCommit, GoTo, Calm, SameReview, State
<1>12. CASE PushTests
  BY <1>0, <1>12 DEF PushTests, GoTo, RaiseStop, Calm, SameReview, State
<1>13. CASE Outcome
  BY <1>0, <1>13 DEF Outcome, Save, SetStage, GoTo, CalmBut, SameReview, State
<1>14. CASE BeginValidation
  BY <1>0, <1>14 DEF BeginValidation, Save, GoTo, RaiseStop, Calm, SameReview, State
<1>15. CASE ValidationClones
  BY <1>0, <1>15 DEF ValidationClones, GoTo, Calm, SameReview, State
<1>16. CASE Finish
  BY <1>0, <1>16 DEF Finish, Save, SetStage, GoTo, CalmBut, SameReview, State
<1>17. CASE MarkReady
  BY <1>0, <1>17 DEF MarkReady, GoTo, Calm, SameReview, State
<1>18. CASE RecordStop
  BY <1>0, <1>18 DEF RecordStop, Save, SetStage, GoTo, CalmBut, SameReview, State
<1>19. CASE ReviewerWrites
  BY <1>0, <1>19 DEF ReviewerWrites, Calm, SameReview, State
<1>20. CASE Raise
  BY <1>0, <1>20 DEF Raise, RaiseStop, GoTo, SameReview, State
<1> QED BY <1>1, <1>2, <1>3, <1>4, <1>5, <1>6, <1>7, <1>8, <1>9, <1>10, <1>11, <1>12, <1>13,
   <1>14, <1>15, <1>16, <1>17, <1>18, <1>19, <1>20,
           <1>21, <1>22, <1>23 DEF Quiet

\* The steps after which no run is live.
AtRest == Exit \/ Die \/ StopLive \/ StopDead \/ Reset

\* They leave the state file alone, close it as stopped, or remove it.
LEMMA RestSteps ==
    ASSUME IInv, AtRest
    PROVE  /\ pc' = "idle" /\ (st' = FreshState \/ st' = st)
           /\ disk' = disk \/ disk' = NoState
              \/ (disk \in State /\ SameReview(disk, disk') /\ disk'.force_push = disk.force_push
                   /\ disk'.stage = "stopped")
<1>0. disk \in State \cup {NoState} /\ (pc # "idle" => disk \in State)
  BY DEF IInv, TypeOK, StateTypes, LiveState
<1>1. CASE Exit
  BY <1>1 DEF Exit, Gone
<1>2. CASE Die
  BY <1>2 DEF Die, Gone
<1>3. CASE StopLive
  BY <1>0, <1>3 DEF StopLive, Gone, SameReview, State, SetStage
<1>4. CASE StopDead
  BY <1>0, <1>4 DEF StopDead, runVars, SameReview, State, SetStage
<1>5. CASE Reset
  BY <1>5 DEF Reset, runVars
<1> QED BY <1>1, <1>2, <1>3, <1>4, <1>5 DEF AtRest

\* A run starts from the state on disk, or from a fresh one, and saves it without a result.
LEMMA StartDoes ==
    ASSUME IInv, NEW d \in BOOLEAN, StartRun(d)
    PROVE  /\ disk' = st' /\ pc' = "started" /\ pc = "idle"
           /\ SameReview(IF disk = NoState THEN FreshState ELSE disk, st')
           /\ st'.last_exit = -1
           /\ disk # NoState => st'.force_push = disk.force_push
<1>0. disk \in State \cup {NoState} /\ FreshState \in State
  BY FreshStateType DEF IInv, TypeOK, StateTypes
<1>1. PICK s \in State : s = IF disk = NoState THEN FreshState ELSE disk
  BY <1>0
<1>2. st' = [s EXCEPT !.last_exit = -1] /\ disk' = st' /\ pc' = "started" /\ pc = "idle"
  BY <1>1 DEF StartRun, Save, GoTo
<1>3. SameReview(s, st') /\ st'.force_push = s.force_push /\ st'.last_exit = -1
  BY <1>2 DEF SameReview, State
<1> QED BY <1>1, <1>2, <1>3

\* The HEAD that a round leaves behind: its test commit, or the commit it reviewed.
HeadAfter(r) == IF r.test_commit # 0 THEN r.test_commit ELSE r.head_sha

\* The bookkeeping keeps the rounds, counting at most a fix cycle, or starts the review over
\* and remembers that the next push is forced; past it every trailer commit of the branch is
\* known, and a resumed round approved the HEAD the run believes in.
LEMMA BookingDoes ==
    ASSUME IInv, Bookkeeping
    PROVE  /\ pc = "bookkeeping" /\ pc' \in {"stopping", "closing", "pr"}
           /\ IF pc' = "stopping" THEN disk' = disk ELSE disk' = st' /\ st'.stage = "preflight"
           /\ st'.validations = st.validations
           /\ \/ /\ st'.rounds = st.rounds /\ st'.fixes >= st.fixes
                 /\ st'.needs_info_used = st.needs_info_used
                 /\ st'.baseline_sha = st.baseline_sha
              \/ /\ st'.rounds = <<>> /\ st'.fixes = 0 /\ st'.force_push = TRUE
                 /\ st'.baseline_sha = 0
           /\ pc' # "stopping" => ReviewerIds(local) \subseteq st'.test_commits
           /\ pc' # "stopping" /\ resume' = TRUE =>
                 /\ st'.rounds # <<>> /\ Last(st'.rounds).verdict = "APPROVE"
                 /\ HeadAfter(Last(st'.rounds)) = ctxHead
<1> DEFINE r == Restarted(st)
           c == CountedFix(r)
           b == Recovered(c)
<1>0. st \in State /\ local \in Seq(Commit)
  BY DEF IInv, TypeOK, StateTypes, RepoTypes
<1>1. r \in State /\ c \in State /\ b \in State
  BY <1>0, RestartedType, CountedFixType, RecoveredType
<1>2. /\ r.validations = st.validations
      /\ \/ r = st
         \/ /\ r.rounds = <<>> /\ r.fixes = 0 /\ r.force_push = TRUE /\ r.baseline_sha = 0
  BY <1>0 DEF Restarted, State
<1>3. /\ c.rounds = r.rounds /\ c.validations = r.validations /\ c.fixes >= r.fixes
      /\ r.rounds = <<>> => c.fixes = r.fixes
      /\ c.needs_info_used = r.needs_info_used /\ c.force_push = r.force_push
      /\ c.baseline_sha = r.baseline_sha
  <2>1. CASE AwaitsFix(r)
    <3>1. c = [r EXCEPT !.fixes = @ + 1] /\ r.rounds # <<>>
      BY <2>1 DEF CountedFix, AwaitsFix
    <3>2. r \in State
      BY <1>1
    <3> HIDE DEF r, c
    <3>3. c.fixes = r.fixes + 1 /\ r.fixes \in Nat
      BY <3>1, <3>2 DEF State
    <3>4. /\ c.rounds = r.rounds /\ c.validations = r.validations /\ c.force_push = r.force_push
          /\ c.needs_info_used = r.needs_info_used /\ c.baseline_sha = r.baseline_sha
      BY <3>1, <3>2 DEF State
    <3> QED BY <3>1, <3>3, <3>4
  <2>2. CASE ~AwaitsFix(r)
    <3>1. c = r
      BY <2>2 DEF CountedFix
    <3>2. r.fixes \in Nat
      BY <1>1, StateFields
    <3> QED BY <3>1, <3>2
  <2> QED BY <2>1, <2>2
<1>4. /\ b.rounds = c.rounds /\ b.validations = c.validations /\ b.fixes = c.fixes
      /\ b.needs_info_used = c.needs_info_used /\ b.force_push = c.force_push
      /\ b.baseline_sha = c.baseline_sha /\ ReviewerIds(local) \subseteq b.test_commits
  BY <1>1 DEF Recovered, State
<1>5. \/ /\ pc' = "stopping" /\ disk' = disk /\ (st' = r \/ st' = b)
      \/ /\ pc' \in {"closing", "pr"} /\ disk' = st'
         /\ st' = [b EXCEPT !.head_sha = ctxHead, !.stage = "preflight",
                            !.last_exit = IF dry THEN 0 ELSE @]
         /\ resume' = AwaitsValidation(b)
  BY DEF Bookkeeping, Save, GoTo, RaiseStop, CalmBut
<1>6. CASE pc' = "stopping"
  <2>1. r.fixes \in Nat /\ st.fixes \in Nat /\ c.fixes \in Nat
    BY <1>0, <1>1, StateFields
  <2> HIDE DEF r, b, c
  <2> QED BY <1>2, <1>3, <1>4, <1>5, <1>6, <2>1 DEF Bookkeeping
<1>7. CASE pc' # "stopping"
  <2>1. /\ st'.rounds = b.rounds /\ st'.validations = b.validations /\ st'.fixes = b.fixes
        /\ st'.needs_info_used = b.needs_info_used /\ st'.force_push = b.force_push
        /\ st'.baseline_sha = b.baseline_sha /\ st'.test_commits = b.test_commits
        /\ st'.stage = "preflight"
    BY <1>1, <1>5, <1>7 DEF State
  <2>2. resume' = TRUE =>
                 /\ b.rounds # <<>> /\ Last(b.rounds).verdict = "APPROVE"
                 /\ HeadAfter(Last(b.rounds)) = ctxHead
    BY <1>5, <1>7 DEF AwaitsValidation, HeadAfter
  <2>3. r.fixes \in Nat /\ st.fixes \in Nat /\ c.fixes \in Nat
    BY <1>0, <1>1, StateFields
  <2> HIDE DEF r, b, c
  <2> QED BY <1>2, <1>3, <1>4, <1>5, <1>7, <2>1, <2>2, <2>3 DEF Bookkeeping
<1> QED BY <1>6, <1>7

\* The rounds, the validations and what is counted over them, left alone.
SameRounds(s, t) ==
    /\ t.rounds = s.rounds /\ t.validations = s.validations /\ t.fixes = s.fixes
    /\ t.needs_info_used = s.needs_info_used

\* A baseline that passes is booked for the HEAD the run believes in, and nothing else is.
LEMMA BaselineDoes ==
    ASSUME IInv, BaselineEnds
    PROVE  /\ pc = "baseline" /\ tested # 0 /\ pc' \in {"bookkeeping", "stopping"}
           /\ SameRounds(st, st') /\ (disk' = disk \/ disk' = st')
           /\ st'.test_commits = st.test_commits
           /\ \/ pc' = "bookkeeping" /\ st'.baseline_sha = ctxHead
                   /\ passed' = passed \cup {tested}
                 /\ disk' = st' /\ st'.stage = st.stage /\ st'.last_exit = st.last_exit
                 /\ tested' = 0
              \/ pc' = "stopping" /\ st' = st /\ passed' = passed /\ disk' = disk
           /\ UNCHANGED <<local, remote, nextId, ctxHead, round, cleared, resume>>
<1>0. st \in State
  BY DEF IInv, TypeOK, StateTypes
<1>1. CASE pc' = "bookkeeping"
  BY <1>0, <1>1 DEF BaselineEnds, Save, GoTo, RaiseStop, Calm, SameRounds, State
<1>2. CASE pc' # "bookkeeping"
  BY <1>2 DEF BaselineEnds, Save, GoTo, RaiseStop, Calm, SameRounds
<1> QED BY <1>1, <1>2

\* The reviewer's tests become one commit on top of the branch, or the run stops.
LEMMA CommitDoes ==
    ASSUME IInv, CommitTests
    PROVE  /\ pc = "committing" /\ pc' \in {"record", "stopping"}
           /\ SameRounds(st, st') /\ (disk' = disk \/ SameRounds(st, disk'))
           /\ st'.baseline_sha = st.baseline_sha
                /\ (disk' = disk \/ disk'.baseline_sha = st.baseline_sha)
           /\ st'.head_sha = st.head_sha
           /\ \/ /\ pc' = "record" /\ disk' = disk
                 /\ local' = Append(local, [id |-> nextId, by |-> "reviewer"])
                 /\ nextId' = nextId + 1 /\ ctxHead' = nextId /\ round'.test_commit = nextId
                 /\ round'.head_sha = round.head_sha /\ round'.verdict = round.verdict
              \/ pc' = "stopping" /\ disk' = st' /\ disk'.last_exit = st.last_exit
                   /\ UNCHANGED <<local, nextId, ctxHead, round>>
           /\ UNCHANGED <<remote, passed, cleared, resume>>
<1>0. st \in State /\ round \in InProgress
  BY DEF IInv, TypeOK, StateTypes
<1>1. CASE RoundStops
  BY <1>0, <1>1 DEF CommitTests, RoundStops, SessionForgotten, Save, GoTo, RaiseStop, Calm,
     SameRounds, State
<1>2. CASE ~RoundStops
  <2>1. /\ local' = Append(local, [id |-> nextId, by |-> "reviewer"]) /\ nextId' = nextId + 1
        /\ ctxHead' = nextId /\ round' = [round EXCEPT !.test_commit = nextId]
        /\ st' = [st EXCEPT !.test_commits = @ \cup {nextId}] /\ pc' = "record"
        /\ pc = "committing"
        /\ UNCHANGED <<remote, passed, disk, cleared, resume>>
    BY <1>2 DEF CommitTests, GoTo, Calm
  <2>2. round'.test_commit = nextId /\ round'.head_sha = round.head_sha
        /\ round'.verdict = round.verdict
    BY <1>0, <2>1 DEF InProgress
  <2>3. SameRounds(st, st') /\ st'.baseline_sha = st.baseline_sha /\ st'.head_sha = st.head_sha
    BY <1>0, <2>1 DEF SameRounds, State
  <2> QED BY <2>1, <2>2, <2>3
<1> QED BY <1>1, <1>2

\* The steps that give a verdict of the validation, or none.
Validates == NothingToRun \/ ValidationEnds

\* A validation is appended for the last round, with what the sandbox cloned on record if there
\* was anything to run, or the run stops.
LEMMA ValidationDoes ==
    ASSUME IInv, Validates
    PROVE  /\ pc \in {"validate", "validating"} /\ pc' \in {"validated", "stopping"}
           /\ pc = "validate" => pc' = "validated"
           /\ st'.rounds = st.rounds /\ st'.fixes = st.fixes
           /\ st'.needs_info_used = st.needs_info_used
           /\ st'.test_commits = st.test_commits /\ st'.baseline_sha = st.baseline_sha
           /\ st'.head_sha = st.head_sha /\ (disk' = disk \/ disk' = st')
           /\ \/ /\ pc' = "validated" /\ disk' = st' /\ st'.last_verdict \in Results
                 /\ st'.stage = st.stage /\ st'.last_exit = st.last_exit
                 /\ st'.validations = Append(st.validations, [round |-> Len(st.rounds),
                               result |-> st'.last_verdict, head_sha |-> ctxHead])
                 /\ IF pc = "validating"
                    THEN /\ passed' = IF st'.last_verdict = "PASS" /\ suite
                                      THEN passed \cup {tested} ELSE passed
                         /\ cleared' = IF st'.last_verdict = "PASS"
                                       THEN cleared \cup {tested} ELSE cleared
                    ELSE /\ UNCHANGED <<passed, cleared>>
                         /\ HasSuite => BaselineReusable(st)
              \/ pc' = "stopping" /\ st' = st /\ disk' = disk /\ UNCHANGED <<passed, cleared>>
           /\ UNCHANGED <<local, remote, nextId, ctxHead, round, resume, pr, drafts>>
<1>0. st \in State
  BY DEF IInv, TypeOK, StateTypes
<1>1. CASE NothingToRun
  <2>1. /\ st' = WithValidation(st, "PASS") /\ disk' = st' /\ pc = "validate"
        /\ pc' = "validated" /\ (HasSuite => BaselineReusable(st))
        /\ UNCHANGED <<passed, cleared>>
        /\ UNCHANGED <<local, remote, nextId, ctxHead, round, resume, pr, drafts>>
    BY <1>1 DEF NothingToRun, Save, GoTo, Calm
  <2>2. Booked(st, st', "PASS")
    BY <1>0, <2>1, ValidationKeeps
  <2>3. "PASS" \in Results
    BY DEF Results
  <2> QED BY <2>1, <2>2, <2>3 DEF Booked
<1>2. CASE ValidationEnds /\ pc' = "stopping"
  BY <1>2 DEF ValidationEnds, Save, GoTo, RaiseStop, repoVars
<1>3. CASE ValidationEnds /\ pc' # "stopping"
  <2>1. PICK r \in Results :
          /\ st' = WithValidation(st, r)
          /\ disk' = st' /\ pc' = "validated"
          /\ passed' = IF r = "PASS" /\ suite THEN passed \cup {tested} ELSE passed
          /\ cleared' = IF r = "PASS" THEN cleared \cup {tested} ELSE cleared
    BY <1>3 DEF ValidationEnds, Save, GoTo, RaiseStop
  <2>2. pc = "validating" /\ UNCHANGED <<local, remote, nextId, ctxHead, round, resume, pr, drafts>>
    BY <1>3 DEF ValidationEnds, repoVars
  <2>3. Booked(st, st', r)
    BY <1>0, <2>1, ValidationKeeps
  <2> QED BY <2>1, <2>2, <2>3 DEF Booked
<1> QED BY <1>1, <1>2, <1>3 DEF Validates

\* The round in progress is appended to the rounds, with the mark of a question asked.
LEMMA RecordDoes ==
    ASSUME IInv, RecordRound
    PROVE  /\ pc = "record" /\ pc' = IF round.test_commit # 0 THEN "push_tests" ELSE "outcome"
           /\ disk' = st'
           /\ st'.rounds = Append(st.rounds, [verdict |-> round.verdict,
                         head_sha |-> round.head_sha,
                                             test_commit |-> round.test_commit])
           /\ st'.validations = st.validations /\ st'.fixes = st.fixes
           /\ st'.test_commits = st.test_commits
           /\ st'.baseline_sha = st.baseline_sha /\ st'.head_sha = st.head_sha
           /\ st'.last_exit = st.last_exit
           /\ (st'.needs_info_used = TRUE)
                 <=> (st.needs_info_used = TRUE \/ round.verdict = "NEEDS_INFO")
           /\ UNCHANGED <<local, remote, nextId, ctxHead, round, passed, cleared, resume>>
<1>0. st \in State /\ st.needs_info_used \in BOOLEAN
  BY StateFields DEF IInv, TypeOK, StateTypes
<1>1. /\ st' = WithRound(st, round) /\ disk' = st' /\ pc = "record"
      /\ pc' = IF round.test_commit # 0 THEN "push_tests" ELSE "outcome"
      /\ UNCHANGED <<local, remote, nextId, ctxHead, round, passed, cleared, resume>>
  BY DEF RecordRound, Save, GoTo, Calm
<1>2. /\ st'.rounds = Append(st.rounds, [verdict |-> round.verdict, head_sha |-> round.head_sha,
                                             test_commit |-> round.test_commit])
      /\ st'.validations = st.validations /\ st'.fixes = st.fixes
      /\ st'.test_commits = st.test_commits
      /\ st'.baseline_sha = st.baseline_sha /\ st'.head_sha = st.head_sha
      /\ st'.last_exit = st.last_exit
  BY <1>0, <1>1 DEF WithRound, State
<1>3. st'.needs_info_used = (st.needs_info_used \/ round.verdict = "NEEDS_INFO")
  BY <1>0, <1>1 DEF WithRound, State
<1> QED BY <1>0, <1>1, <1>2, <1>3

\* The author's moves, and steps that change nothing, as the run sees them.
Beside == UNCHANGED <<remote, drafts, disk, pr, runVars, runs, faults, history>>

\* These are all the steps there are.
LEMMA StepKinds ==
    ASSUME [Next]_vars
    PROVE  \/ \E d \in BOOLEAN : StartRun(d)
           \/ Quiet \/ AtRest
           \/ BaselineEnds \/ Bookkeeping \/ CommitTests \/ RecordRound \/ Validates
           \/ Beside
<1>1. CASE Author
  BY <1>1 DEF Author, AuthorCommits, AuthorRebases, AuthorAmends, Rewrite, AuthorSquashes,
       AuthorUndoes, BaseMoves, AuthorUnchanged, Beside
<1>2. CASE UNCHANGED vars
  BY <1>2 DEF vars, Beside, repoVars
<1> QED BY <1>1, <1>2 DEF Next, RunStep, Quiet, AtRest, Validates

-----------------------------------------------------------------------------
(* The branch *)

\* Ids grow along the branch, the next one is fresh, and the run believes in no future HEAD.
BranchInv ==
    /\ \A i \in DOMAIN local : local[i].id \in 1 .. nextId - 1
    /\ \A i, j \in DOMAIN local : i < j => local[i].id < local[j].id
    /\ nextId > 0 /\ ctxHead < nextId

\* A branch b2 shows a commit of before n only where b had it, and over the same commits.
Continues(b, n, b2) ==
    \A i \in DOMAIN b2 :
        b2[i].id < n => i \in DOMAIN b /\ \A j \in 1 .. i : b2[j] = b[j]

\* What the author and the run do to the branch: commits are added on top, given new ids from
\* some point on, folded into a new one or taken off; none is ever moved.
Stable == nextId' >= nextId /\ Continues(local, nextId, local')

\* A step that leaves the branch alone.
LEMMA BranchAlone ==
    ASSUME BranchInv, UNCHANGED <<local, nextId>>, ctxHead' < nextId, IInv
    PROVE  BranchInv' /\ Stable
  BY DEF BranchInv, Stable, Continues, IInv, TypeOK, RepoTypes, Commit

\* A step that commits on top of the branch.
LEMMA BranchAppend ==
    ASSUME BranchInv, IInv, NEW by \in Authors,
           local' = Append(local, [id |-> nextId, by |-> by]),
           nextId' = nextId + 1, ctxHead' \in {ctxHead, nextId}
    PROVE  BranchInv' /\ Stable
<1>1. local \in Seq(Commit) /\ nextId \in Nat /\ ctxHead \in Nat
  BY DEF IInv, TypeOK, RepoTypes, RunTypes
<1>2. Len(local') = Len(local) + 1 /\ DOMAIN local = 1 .. Len(local)
      /\ DOMAIN local' = 1 .. Len(local) + 1
  BY <1>1
<1>3. \A i \in DOMAIN local : local'[i] = local[i]
  BY <1>1, <1>2
<1>4. local'[Len(local) + 1].id = nextId
  BY <1>1, <1>2
<1>5. \A i \in DOMAIN local : local[i].id \in Nat
  <2>1. \A i \in DOMAIN local : local[i] \in Commit
    BY <1>1
  <2> QED BY <2>1 DEF Commit
<1>6. BranchInv'
  <2>1. \A i \in DOMAIN local' : i < Len(local) + 1 => i \in DOMAIN local
    BY <1>1, <1>2
  <2>2. \A i \in DOMAIN local : local[i].id < nextId /\ local[i].id > 0
    BY <1>1, <1>5 DEF BranchInv
  <2>3. \A i \in DOMAIN local' : local'[i].id \in 1 .. nextId' - 1
    BY <1>1, <1>2, <1>3, <1>4, <1>5, <2>1, <2>2 DEF BranchInv
  <2>4. \A i, j \in DOMAIN local' : i < j => local'[i].id < local'[j].id
    BY <1>1, <1>2, <1>3, <1>4, <1>5, <2>1, <2>2 DEF BranchInv
  <2> QED BY <1>1, <2>3, <2>4 DEF BranchInv
<1>7. Stable
  BY <1>1, <1>2, <1>3, <1>4, <1>5 DEF Stable, Continues
<1> QED BY <1>6, <1>7

\* The author's moves, rebases, amends and squashes included.
LEMMA BranchAuthor ==
    ASSUME BranchInv, IInv, Author
    PROVE  BranchInv' /\ Stable
<1>0. local \in Seq(Commit) /\ nextId \in Nat /\ ctxHead \in Nat /\ local # <<>>
  BY DEF IInv, TypeOK, RepoTypes, RunTypes
<1>1. ctxHead' = ctxHead
    BY DEF Author, AuthorCommits, AuthorRebases, AuthorAmends, Rewrite, AuthorSquashes,
       AuthorUndoes, BaseMoves, AuthorUnchanged, runVars
<1>2. CASE AuthorCommits
  BY <1>1, <1>2, BranchAppend DEF AuthorCommits, Authors
<1>3. ASSUME NEW k \in DOMAIN local, Rewrite(k) PROVE BranchInv' /\ Stable
  <2>1. DOMAIN local = 1 .. Len(local) /\ DOMAIN local' = 1 .. Len(local)
        /\ k \in 1 .. Len(local)
        /\ Len(local) \in Nat
    BY <1>0, <1>3 DEF Rewrite
  <2>2. \A i \in 1 .. Len(local) : i < k => local'[i] = local[i]
    BY <2>1, <1>3 DEF Rewrite
  <2>3. \A i \in 1 .. Len(local) : i >= k => local'[i].id = nextId + i - k
    <3> TAKE i \in 1 .. Len(local)
    <3>0. HAVE i >= k
    <3>1. local'[i] = [local[i] EXCEPT !.id = nextId + i - k]
      BY <2>1, <3>0, <1>3 DEF Rewrite
    <3>2. local[i] \in Commit
      BY <1>0
    <3> QED BY <3>1, <3>2 DEF Commit
  <2>4. nextId' = nextId + Len(local) - k + 1
    BY <1>3 DEF Rewrite
  <2>5. \A i \in 1 .. Len(local) : local[i].id \in Nat
    <3>1. \A i \in 1 .. Len(local) : local[i] \in Commit
      BY <1>0, <2>1
    <3> QED BY <3>1 DEF Commit
  <2>6. BranchInv'
    <3>1. nextId' \in Nat /\ nextId' > nextId /\ nextId' > 0 /\ ctxHead < nextId'
      BY <1>0, <1>1, <2>1, <2>4 DEF BranchInv
    <3>2. \A i \in 1 .. Len(local) : local[i].id < nextId /\ local[i].id > 0
      BY <1>0, <2>1, <2>5 DEF BranchInv
    <3>3. \A i \in 1 .. Len(local) : local'[i].id \in 1 .. nextId' - 1
      <4> TAKE i \in 1 .. Len(local)
      <4>1. CASE i < k
        BY <1>0, <4>1, <2>1, <2>2, <2>5, <3>1, <3>2
      <4>2. CASE i >= k
        BY <1>0, <4>2, <2>1, <2>3, <2>4, <3>1 DEF BranchInv
      <4> QED BY <4>1, <4>2, <2>1
    <3>4. \A i, j \in 1 .. Len(local) : i < j => local'[i].id < local'[j].id
      <4> TAKE i, j \in 1 .. Len(local)
      <4>0. HAVE i < j
      <4>1. CASE j < k
        BY <1>0, <4>0, <4>1, <2>1, <2>2 DEF BranchInv
      <4>2. CASE i < k /\ j >= k
        BY <1>0, <4>0, <4>2, <2>1, <2>2, <2>3, <2>5, <3>2
      <4>3. CASE i >= k
        BY <1>0, <4>0, <4>3, <2>1, <2>3
      <4> QED BY <4>0, <4>1, <4>2, <4>3, <2>1
    <3> QED BY <1>1, <2>1, <3>1, <3>3, <3>4 DEF BranchInv
  <2>7. Stable
    <3>1. nextId' >= nextId
      BY <1>0, <2>1, <2>4
    <3>2. \A i \in 1 .. Len(local) : local'[i].id < nextId => i < k
      BY <1>0, <2>1, <2>3
    <3>3. \A i \in 1 .. Len(local) : i < k => \A j \in 1 .. i : local'[j] = local[j]
      BY <2>1, <2>2
    <3> QED BY <2>1, <3>1, <3>2, <3>3 DEF Stable, Continues
  <2> QED BY <2>6, <2>7
<1>4. CASE AuthorRebases
  BY <1>0, <1>3, <1>4 DEF AuthorRebases
<1>5. CASE AuthorAmends
  BY <1>3, <1>5 DEF AuthorAmends
<1>6. CASE AuthorSquashes
  <2>1. local'[1].id = nextId /\ DOMAIN local' = {1} /\ nextId' = nextId + 1
    BY <1>6 DEF AuthorSquashes
  <2> QED BY <1>0, <1>1, <2>1 DEF BranchInv, Stable, Continues
<1>7. CASE AuthorUndoes
  <2>1. local' = SubSeq(local, 1, Len(local) - 1) /\ nextId' = nextId
    BY <1>7 DEF AuthorUndoes, Front
  <2>2. \A i \in DOMAIN local' : i \in DOMAIN local /\ local'[i] = local[i]
    BY <1>0, <2>1
  <2>3. DOMAIN local' = 1 .. Len(local) - 1 /\ DOMAIN local = 1 .. Len(local)
        /\ Len(local) \in Nat
    BY <1>0, <2>1
  <2> QED BY <1>0, <1>1, <2>1, <2>2, <2>3 DEF BranchInv, Stable, Continues
<1>8. CASE BaseMoves
  BY <1>0, <1>1, <1>8, BranchAlone DEF BaseMoves, BranchInv
<1> QED BY <1>2, <1>4, <1>5, <1>6, <1>7, <1>8 DEF Author

\* Every step keeps the ids growing and old commits where they were.
LEMMA BranchKept ==
    ASSUME IInv, BranchInv, [Next]_vars
    PROVE  BranchInv' /\ Stable
<1>0. local \in Seq(Commit) /\ nextId \in Nat /\ nextId > 0 /\ ctxHead < nextId /\ local # <<>>
  BY DEF IInv, TypeOK, RepoTypes, RunTypes, BranchInv
<1>1. CASE CommitIgnored
  BY <1>0, <1>1, BranchAlone, BranchAppend DEF CommitIgnored, Authors
<1>2. CASE CommitTests
  BY <1>0, <1>2, BranchAlone, BranchAppend DEF CommitTests, Authors
<1>3. CASE PreflightPasses
  BY <1>0, <1>3, BranchAlone DEF PreflightPasses, BranchInv, Head_, HeadOf
<1>4. CASE Author
  BY <1>4, BranchAuthor
<1>5. CASE ~CommitIgnored /\ ~CommitTests /\ ~PreflightPasses /\ ~Author
  <2>1. UNCHANGED <<local, nextId>> /\ ctxHead' \in {ctxHead, 0}
    BY <1>5 DEF Next, RunStep, StartRun, CleanUp, PreflightRefuses, BaselineClones,
       BaselineEnds, Bookkeeping, EnsureIgnored, CheckBeforePush, PushBranch, EnsurePR,
       BeginReview, ReviewFails, ReviewEnds, CheckBeforeCommit, RecordRound, PushTests, Outcome,
       BeginValidation, ValidationChooses, NothingToRun, ValidationClones, ValidationEnds, Finish,
       MarkReady, RecordStop, Exit, ReviewerWrites, Raise, Die, StopLive, StopDead, Reset, Gone,
       repoVars, runVars, vars
  <2> QED BY <1>0, <2>1, BranchAlone
<1> QED BY <1>1, <1>2, <1>3, <1>4, <1>5

-----------------------------------------------------------------------------
(* Questions to the author *)

\* A state has at most one round of questions, and then knows that it asked.
Asker(s) ==
    \A i, j \in DOMAIN s.rounds :
        s.rounds[i].verdict = "NEEDS_INFO" /\ s.rounds[j].verdict = "NEEDS_INFO" =>
            i = j /\ s.needs_info_used = TRUE

\* Memory and disk both know; and while a round of questions is not recorded yet, the flag
\* that compute_verdict read is still as it read it.
AskInv ==
    /\ Asker(st) /\ (Recorded => Asker(disk))
    /\ pc \in {"commit", "committing"} => round.verdict # "NEEDS_INFO"
    /\ pc = "record" /\ round.verdict = "NEEDS_INFO" => st.needs_info_used # TRUE

\* No step asks twice: neither a death between verdict and save, nor a review started over.
LEMMA AskKept ==
    ASSUME IInv, AskInv, [Next]_vars
    PROVE  AskInv'
<1>0. Asker(FreshState)
  BY DEF Asker, FreshState
<1>a. ASSUME NEW s, NEW t, Asker(s), t.rounds = s.rounds, t.needs_info_used = s.needs_info_used
      PROVE  Asker(t)
  BY <1>a DEF Asker
<1>b. disk # NoState => Asker(disk)
  BY DEF AskInv, Recorded
<1>c. Asker(st) /\ (disk # NoState <=> Recorded)
  BY DEF AskInv, Recorded
<1>d. ASSUME Asker(st)', disk' = disk \/ Asker(disk)',
             pc' \notin {"commit", "committing", "record"}
      PROVE  AskInv'
  BY <1>b, <1>d DEF AskInv, Recorded
<1>1. ASSUME NEW d \in BOOLEAN, StartRun(d) PROVE AskInv'
  <2>1. /\ disk' = st' /\ pc' = "started"
        /\ SameReview(IF disk = NoState THEN FreshState ELSE disk, st')
    BY <1>1, StartDoes
  <2>2. Asker(st)'
    BY <1>0, <1>a, <1>b, <2>1 DEF SameReview
  <2> QED BY <1>d, <2>1, <2>2
<1>2. CASE Quiet
  <2>1. SameReview(st, st') /\ (disk' = disk \/ SameReview(st, disk'))
    BY <1>2, QuietSteps
  <2>2. Asker(st)' /\ (disk' = disk \/ Asker(disk)')
    BY <1>a, <1>c, <2>1 DEF SameReview
  <2>3. CASE ReviewEnds
    <3>1. PICK v \in Verdicts :
             /\ v = "NEEDS_INFO" => ~st.needs_info_used
             /\ round'.verdict = v /\ pc' = IF drafts
                  /\ v # "NEEDS_INFO" THEN "commit" ELSE "record"
      BY <2>3 DEF ReviewEnds, GoTo
    <3>2. UNCHANGED <<st, disk>>
      BY <2>3 DEF ReviewEnds
    <3>3. pc' = "record" /\ v = "NEEDS_INFO" => st'.needs_info_used # TRUE
      BY <3>1, <3>2
    <3> QED BY <1>b, <2>2, <3>1, <3>2, <3>3 DEF AskInv, Recorded
  <2>4. CASE CheckBeforeCommit
    BY <1>b, <2>2, <2>4 DEF AskInv, Recorded, CheckBeforeCommit, GoTo, Calm
  <2>5. CASE ~ReviewEnds /\ ~CheckBeforeCommit
    <3>1. pc' \notin {"commit", "committing", "record"}
      BY <1>2, <2>5 DEF Quiet, CleanUp, PreflightRefuses, PreflightPasses, BaselineClones,
         EnsureIgnored, CommitIgnored, CheckBeforePush, PushBranch, EnsurePR, BeginReview,
         ReviewFails, PushTests, Outcome, BeginValidation, ValidationChooses, ValidationClones,
         Finish, MarkReady, RecordStop, ReviewerWrites, Raise, RoundStops, RaiseStop, GoTo, Calm,
         CalmBut
    <3> QED BY <1>d, <2>2, <3>1
  <2> QED BY <2>3, <2>4, <2>5
<1>3. CASE AtRest
  <2>1. /\ pc' = "idle" /\ (st' = FreshState \/ st' = st)
        /\ disk' = disk \/ disk' = NoState \/ (disk \in State /\ SameReview(disk, disk'))
    BY <1>3, RestSteps
  <2>2. disk' = disk \/ disk' = NoState \/ Asker(disk)'
    BY <1>a, <1>b, <2>1, NoStateAssumption DEF SameReview
  <2>3. Asker(st)'
    BY <1>0, <1>c, <2>1
  <2> QED BY <1>b, <2>1, <2>2, <2>3 DEF AskInv, Recorded
<1>4. CASE BaselineEnds
  BY <1>4, <1>a, <1>c, <1>d, BaselineDoes DEF SameRounds
<1>5. CASE Bookkeeping
  <2>1. Asker(st)'
    <3>1. \/ st'.rounds = st.rounds /\ st'.needs_info_used = st.needs_info_used
          \/ st'.rounds = <<>>
      BY <1>5, BookingDoes
    <3>2. CASE st'.rounds = <<>>
      BY <3>2 DEF Asker
    <3> QED BY <1>a, <1>c, <3>1, <3>2
  <2> QED BY <1>5, <1>d, <2>1, BookingDoes
<1>6. CASE CommitTests
  <2>1. /\ pc = "committing" /\ pc' \in {"record", "stopping"}
        /\ SameRounds(st, st') /\ (disk' = disk \/ SameRounds(st, disk'))
        /\ pc' = "record" => round'.verdict = round.verdict
    BY <1>6, CommitDoes
  <2>2. Asker(st)' /\ (disk' = disk \/ Asker(disk)')
    BY <1>a, <1>c, <2>1 DEF SameRounds
  <2> QED BY <1>b, <2>1, <2>2 DEF AskInv, Recorded
<1>7. CASE RecordRound
  <2> DEFINE n == [verdict |-> round.verdict, head_sha |-> round.head_sha,
                   test_commit |-> round.test_commit]
  <2>1. /\ disk' = st' /\ pc = "record" /\ pc' \in {"push_tests", "tests_push", "outcome"}
        /\ st'.rounds = Append(st.rounds, n)
        /\ (st'.needs_info_used = TRUE)
              <=> (st.needs_info_used = TRUE \/ round.verdict = "NEEDS_INFO")
    BY <1>7, RecordDoes
  <2>2. st.rounds \in Seq(Round)
    BY StateFields DEF IInv, TypeOK, StateTypes
  <2>3. /\ \A i \in DOMAIN st.rounds : st'.rounds[i] = st.rounds[i]
        /\ DOMAIN st'.rounds = DOMAIN st.rounds \cup {Len(st.rounds) + 1}
        /\ st'.rounds[Len(st.rounds) + 1].verdict = round.verdict
        /\ Len(st.rounds) + 1 \notin DOMAIN st.rounds
    BY <2>1, <2>2
  <2>4. round.verdict = "NEEDS_INFO" => st.needs_info_used # TRUE
    BY <2>1 DEF AskInv
  <2>5. Asker(st)'
    BY <1>c, <2>1, <2>3, <2>4 DEF Asker
  <2> QED BY <1>d, <2>1, <2>5
<1>8. CASE Validates
  BY <1>8, <1>a, <1>c, <1>d, ValidationDoes
<1>9. CASE Beside
  <2>1. UNCHANGED <<st, disk, pc, round>>
    BY <1>9 DEF Beside, runVars
  <2>2. Asker(st)' /\ (disk' # NoState => Asker(disk)')
    BY <1>b, <1>c, <2>1 DEF Asker
  <2> QED BY <2>1, <2>2 DEF AskInv, Recorded
<1> QED BY <1>1, <1>2, <1>3, <1>4, <1>5, <1>6, <1>7, <1>8, <1>9, StepKinds

\* AsksOnce, for every value of the constants: the reviewer asks the author questions at most
\* once per review, whatever kills the process that writes the flag and the round.
THEOREM AsksOnceHolds == Spec => []AsksOnce
<1>1. Init => AskInv
  <2>1. ASSUME Init PROVE AskInv
    <3>1. st = FreshState /\ disk = NoState /\ pc = "idle"
      BY <2>1 DEF Init
    <3>0. Asker(FreshState)
      BY DEF Asker, FreshState
    <3>2. Asker(st)
      BY <3>0, <3>1
    <3> QED BY <3>1, <3>2 DEF AskInv, Recorded
  <2> QED BY <2>1
<1>2. IInv /\ AskInv /\ [Next]_vars => AskInv'
  BY AskKept
<1>3. AskInv => AsksOnce
  <2> SUFFICES ASSUME AskInv, Recorded
               PROVE  Cardinality({i \in DOMAIN disk.rounds
                             : disk.rounds[i].verdict = "NEEDS_INFO"}) <= 1
    BY DEF AsksOnce
  <2> DEFINE Q == {i \in DOMAIN disk.rounds : disk.rounds[i].verdict = "NEEDS_INFO"}
  <2>1. CASE Q = {}
    <3>1. Cardinality(Q) = 0
      BY <2>1, FS_EmptySet
    <3> QED BY <3>1
  <2>2. ASSUME NEW i \in Q PROVE Cardinality(Q) <= 1
    <3>1. Q = {i}
      BY <2>2 DEF AskInv, Asker
    <3>2. Cardinality(Q) = 1
      BY <3>1, FS_Singleton
    <3> QED BY <3>2
  <2> QED BY <2>1, <2>2
<1> QED BY <1>1, <1>2, <1>3, TypesInvariant, PTL DEF Spec

-----------------------------------------------------------------------------
(* The history of the review *)

\* A sequence is a prefix of itself.
LEMMA PrefixOfItself ==
    ASSUME NEW S, NEW s \in Seq(S)
    PROVE  IsPrefix(s, s)
  BY DEF IsPrefix

\* A sequence is a prefix of what it is appended to.
LEMMA PrefixOfAppend ==
    ASSUME NEW S, NEW s \in Seq(S), NEW e \in S
    PROVE  IsPrefix(s, Append(s, e))
  BY DEF IsPrefix

\* Saving s over d loses nothing of the history but by a restart of the review, which is
\* forced.
Extends(d, s) ==
    /\ \/ IsPrefix(d.rounds, s.rounds) /\ s.fixes >= d.fixes
       \/ s.rounds = <<>> /\ s.fixes = 0 /\ s.force_push = TRUE
    /\ IsPrefix(d.validations, s.validations)

\* The history two states tell is the same.
SameBooks(d, s) == s.rounds = d.rounds /\ s.fixes = d.fixes /\ s.validations = d.validations

\* A live run and the disk tell the same history, except that a run that is stopping may hold
\* a count or a restart it has not saved.
BooksInv ==
    /\ pc \notin {"idle", "stopping"} => SameBooks(disk, st)
    /\ pc = "stopping" => Extends(disk, st)

\* Saving the same history over itself loses nothing.
LEMMA SameExtends ==
    ASSUME NEW d \in State, NEW s, SameBooks(d, s)
    PROVE  Extends(d, s)
<1>1. d.rounds \in Seq(Round) /\ d.validations \in Seq(Validation) /\ d.fixes \in Nat
  BY StateFields
<1>2. IsPrefix(d.rounds, d.rounds) /\ IsPrefix(d.validations, d.validations)
  BY <1>1, PrefixOfItself
<1> QED BY <1>1, <1>2 DEF Extends, SameBooks

\* A run that is stopping saves what it holds.
LEMMA QuietStop ==
    ASSUME IInv, Quiet, pc = "stopping"
    PROVE  pc' = "recorded" /\ disk' = st' /\ SameReview(st, st')
           /\ st'.force_push = st.force_push
<1>1. RecordStop
  BY DEF Quiet, CleanUp, PreflightRefuses, PreflightPasses, BaselineClones, EnsureIgnored,
     CommitIgnored, CheckBeforePush, PushBranch, EnsurePR, BeginReview, ReviewFails, ReviewEnds,
     CheckBeforeCommit, PushTests, Outcome, BeginValidation, ValidationChooses, ValidationClones,
     Finish, MarkReady, RecordStop, ReviewerWrites, Raise, RoundStops, RaiseStop, GoTo, Calm,
     CalmBut
<1>2. st \in State
  BY DEF IInv, TypeOK, StateTypes
<1> QED BY <1>1, <1>2 DEF RecordStop, GoTo, Save, SetStage, SameReview, State

\* Every step keeps memory and disk in line, and every save extends what is on disk.
LEMMA BooksKept ==
    ASSUME IInv, BooksInv, [Next]_vars
    PROVE  BooksInv' /\ (Recorded /\ disk' # NoState => Extends(disk, disk'))
<1>0. /\ st \in State /\ disk \in State \cup {NoState} /\ (pc # "idle" => disk \in State)
      /\ st' \in State /\ disk' \in State \cup {NoState} /\ (pc' # "idle" => disk' \in State)
  BY TypesKept DEF IInv, TypeOK, StateTypes, LiveState
<1>1. ASSUME NEW d \in BOOLEAN, StartRun(d)
      PROVE  BooksInv' /\ (Recorded /\ disk' # NoState => Extends(disk, disk'))
  <2>1. /\ disk' = st' /\ pc' = "started"
        /\ SameReview(IF disk = NoState THEN FreshState ELSE disk, st')
    BY <1>1, StartDoes
  <2>2. Recorded => SameBooks(disk, disk')
    BY <2>1 DEF SameReview, SameBooks, Recorded
  <2>3. BooksInv'
    BY <2>1 DEF BooksInv, SameBooks
  <2> QED BY <1>0, <2>2, <2>3, SameExtends DEF Recorded
<1>a. ASSUME pc # "idle", pc # "stopping", pc' # "idle", SameBooks(st, st'),
             disk' = disk \/ SameBooks(st, disk')
      PROVE  BooksInv' /\ (Recorded /\ disk' # NoState => Extends(disk, disk'))
  <2>1. SameBooks(disk, st') /\ SameBooks(disk, disk') /\ SameBooks(disk', st')
    BY <1>a DEF BooksInv, SameBooks
  <2> QED BY <1>0, <1>a, <2>1, SameExtends DEF BooksInv
<1>2. CASE Quiet
  <2>1. SameReview(st, st') /\ (disk' = disk \/ SameReview(st, disk')) /\ pc # "idle"
          /\ pc' # "idle"
    BY <1>2, QuietSteps
  <2>2. CASE pc = "stopping"
    <3>1. pc' = "recorded" /\ disk' = st' /\ SameReview(st, st')
          /\ st'.force_push = st.force_push
      BY <1>2, <2>2, QuietStop
    <3>2. Extends(disk, st)
      BY <2>2 DEF BooksInv
    <3>3. Extends(disk, disk')
      BY <3>1, <3>2 DEF Extends, SameReview
    <3> QED BY <3>1, <3>3 DEF BooksInv, SameBooks
  <2>3. CASE pc # "stopping"
    BY <1>a, <2>1, <2>3 DEF SameReview, SameBooks
  <2> QED BY <2>2, <2>3
<1>3. CASE AtRest
  <2>1. /\ pc' = "idle"
        /\ disk' = disk \/ disk' = NoState \/ (disk \in State /\ SameReview(disk, disk'))
    BY <1>3, RestSteps
  <2>2. Recorded /\ disk' # NoState => SameBooks(disk, disk')
    BY <2>1 DEF SameReview, SameBooks
  <2> QED BY <1>0, <2>1, <2>2, SameExtends DEF BooksInv, Recorded
<1>4. CASE BaselineEnds
  BY <1>4, <1>a, BaselineDoes DEF SameRounds, SameBooks
<1>5. CASE Bookkeeping
  <2>1. pc = "bookkeeping" /\ pc' \in {"stopping", "closing", "pr"} /\ SameBooks(disk, st)
        /\ disk \in State
    BY <1>0, <1>5, BookingDoes DEF BooksInv
  <2>2. Extends(disk, st')
    <3>1. CASE st'.rounds = st.rounds /\ st'.fixes >= st.fixes
      <4>1. IsPrefix(disk.rounds, st'.rounds) /\ IsPrefix(disk.validations, st'.validations)
        <5>1. st'.validations = disk.validations /\ st'.rounds = disk.rounds
          BY <1>5, <2>1, <3>1, BookingDoes DEF SameBooks
        <5> QED BY <2>1, <5>1, PrefixOfItself, StateFields
      <4> QED BY <2>1, <3>1, <4>1 DEF Extends, SameBooks
    <3>2. CASE st'.rounds = <<>> /\ st'.fixes = 0 /\ st'.force_push = TRUE
      <4>1. IsPrefix(disk.validations, st'.validations)
        <5>1. st'.validations = disk.validations
          BY <1>5, <2>1, BookingDoes DEF SameBooks
        <5> QED BY <2>1, <5>1, PrefixOfItself, StateFields
      <4> QED BY <3>2, <4>1 DEF Extends
    <3> QED BY <1>5, <3>1, <3>2, BookingDoes
  <2>3. IF pc' = "stopping" THEN disk' = disk ELSE disk' = st'
    BY <1>5, BookingDoes
  <2>4. Extends(disk, disk')
    BY <2>1, <2>2, <2>3, SameExtends DEF SameBooks
  <2> QED BY <2>1, <2>2, <2>3, <2>4 DEF BooksInv, SameBooks
<1>6. CASE CommitTests
  BY <1>6, <1>a, CommitDoes DEF SameRounds, SameBooks
<1>7. CASE RecordRound
  <2> DEFINE n == [verdict |-> round.verdict, head_sha |-> round.head_sha,
                   test_commit |-> round.test_commit]
  <2>1. /\ disk' = st' /\ pc = "record" /\ pc' \in {"push_tests", "tests_push", "outcome"}
        /\ st'.rounds = Append(st.rounds, n) /\ st'.validations = st.validations
        /\ st'.fixes = st.fixes
    BY <1>7, RecordDoes
  <2>2. SameBooks(disk, st) /\ disk \in State
    BY <1>0, <2>1 DEF BooksInv
  <2>3. disk.rounds \in Seq(Round) /\ disk.validations \in Seq(Validation) /\ disk.fixes \in Nat
        /\ n \in Round
    BY <1>0, <2>2, StateFields DEF IInv, TypeOK, StateTypes, InProgress, Round
  <2>4. IsPrefix(disk.rounds, disk'.rounds) /\ IsPrefix(disk.validations, disk'.validations)
    BY <2>1, <2>2, <2>3, PrefixOfItself, PrefixOfAppend DEF SameBooks
  <2>5. Extends(disk, disk')
    BY <2>1, <2>2, <2>3, <2>4 DEF Extends, SameBooks
  <2> QED BY <2>1, <2>5 DEF BooksInv, SameBooks
<1>8. CASE Validates
  <2>1. CASE pc' = "stopping"
    BY <1>8, <1>a, <2>1, ValidationDoes DEF SameBooks
  <2>2. CASE pc' # "stopping"
    <3> DEFINE v == [round |-> Len(st.rounds), result |-> st'.last_verdict, head_sha |-> ctxHead]
    <3>1. /\ pc \in {"validate", "validating"} /\ pc' = "validated" /\ disk' = st'
          /\ st'.last_verdict \in Results
          /\ st'.rounds = st.rounds /\ st'.fixes = st.fixes
          /\ st'.validations = Append(st.validations, v)
      BY <1>8, <2>2, ValidationDoes
    <3>2. SameBooks(disk, st) /\ disk \in State
      BY <1>0, <3>1 DEF BooksInv
    <3>3. disk.rounds \in Seq(Round) /\ disk.validations \in Seq(Validation)
          /\ disk.fixes \in Nat
      BY <3>2, StateFields
    <3>4. v \in Validation
      <4>1. st.rounds \in Seq(Round) /\ ctxHead \in Nat
        BY <1>0, StateFields DEF IInv, TypeOK, RunTypes
      <4> QED BY <3>1, <4>1 DEF Validation
    <3>5. IsPrefix(disk.rounds, disk'.rounds) /\ IsPrefix(disk.validations, disk'.validations)
      BY <3>1, <3>2, <3>3, <3>4, PrefixOfItself, PrefixOfAppend DEF SameBooks
    <3>6. Extends(disk, disk')
      BY <3>1, <3>2, <3>3, <3>5 DEF Extends, SameBooks
    <3> QED BY <3>1, <3>6 DEF BooksInv, SameBooks
  <2> QED BY <2>1, <2>2
<1>9. CASE Beside
  <2>1. UNCHANGED <<st, disk, pc>>
    BY <1>9 DEF Beside, runVars
  <2> QED BY <1>0, <2>1, SameExtends DEF BooksInv, SameBooks, Extends, Recorded
<1> QED BY <1>1, <1>2, <1>3, <1>4, <1>5, <1>6, <1>7, <1>8, <1>9, StepKinds

\* HistoryKept, for every value of the constants: rounds and validations are only ever
\* appended to, or the rounds start over and the next push is forced; only reset drops the
\* history.
THEOREM HistoryKeptHolds == Spec => HistoryKept
<1>1. Init => BooksInv
  BY DEF Init, BooksInv
<1>2. IInv /\ BooksInv /\ [Next]_vars => BooksInv'
  BY BooksKept
<1>3. IInv /\ BooksInv /\ [Next]_vars =>
        [Recorded /\ disk' # NoState =>
         /\ \/ IsPrefix(disk.rounds, disk'.rounds) /\ disk'.fixes >= disk.fixes
            \/ disk'.rounds = <<>> /\ disk'.fixes = 0 /\ disk'.force_push
         /\ IsPrefix(disk.validations, disk'.validations)]_disk
  BY BooksKept DEF Extends
<1> QED BY <1>1, <1>2, <1>3, TypesInvariant, PTL DEF Spec, HistoryKept

-----------------------------------------------------------------------------
(* The reviewer's own commits *)

\* From the bookkeeping to the end of the session.
Knowing == {"pr", "ignoring", "pushing", "branch_push", "pushed", "review", "reviewing"}

\* There the state knows every trailer commit up to the HEAD the run believes in, though the
\* author may have moved the branch meanwhile.
KnownInv ==
    pc \in Knowing =>
        \A i \in DOMAIN local :
            local[i].id = ctxHead =>
                \A j \in 1 .. i : local[j].by = "reviewer" => local[j].id \in st.test_commits

\* The quiet steps, other than two, leave the branch and the HEAD believed in alone.
LEMMA QuietBranch ==
    ASSUME Quiet, ~CommitIgnored, ~PreflightPasses
    PROVE  UNCHANGED <<local, nextId, ctxHead>> /\ (pc' \in Knowing => pc \in Knowing)
<1>1. UNCHANGED <<local, nextId, ctxHead>>
  BY DEF Quiet, CleanUp, PreflightRefuses, PreflightPasses, BaselineClones, EnsureIgnored,
     CommitIgnored, CheckBeforePush, PushBranch, EnsurePR, BeginReview, ReviewFails, ReviewEnds,
     CheckBeforeCommit, PushTests, Outcome, BeginValidation, ValidationChooses, ValidationClones,
     Finish, MarkReady, RecordStop, ReviewerWrites, Raise, RoundStops, RaiseStop, GoTo, Calm,
     CalmBut, repoVars
<1>2. pc' \in Knowing => pc \in Knowing
  BY DEF Quiet, CleanUp, PreflightRefuses, PreflightPasses, BaselineClones, EnsureIgnored,
     CommitIgnored, CheckBeforePush, PushBranch, EnsurePR, BeginReview, ReviewFails, ReviewEnds,
     CheckBeforeCommit, PushTests, Outcome, BeginValidation, ValidationChooses, ValidationClones,
     Finish, MarkReady, RecordStop, ReviewerWrites, Raise, RoundStops, RaiseStop, GoTo, Calm,
     CalmBut, Knowing
<1> QED BY <1>1, <1>2

\* Nothing moves HEAD between a check of the run's and the command right after it.
TreeIsOurs == RacyAuthor = FALSE

\* The .gitignore line is to be committed only where it is missing, and then on the HEAD the
\* run checked, unless the author moved it since.
IgnoringInv == pc = "ignoring" => Ignored = FALSE /\ (TreeIsOurs => Head_ = ctxHead)

\* Every step keeps it.
LEMMA IgnoringKept ==
    ASSUME IInv, IgnoringInv, [Next]_vars
    PROVE  IgnoringInv'
<1>0. Ignored \in BOOLEAN /\ RacyAuthor \in BOOLEAN
  BY PipelineAssumption
<1>1. CASE EnsureIgnored
  <2>1. pc' = "ignoring" => ~StateDirIgnored /\ TreeUnmoved /\ UNCHANGED <<local, ctxHead>>
    BY <1>1 DEF EnsureIgnored, RaiseStop, GoTo, Calm
  <2> QED BY <1>0, <2>1 DEF IgnoringInv, StateDirIgnored, TreeUnmoved, Head_, HeadOf
<1>2. CASE Author
  <2>1. UNCHANGED <<pc, ctxHead>>
    BY <1>2 DEF Author, AuthorCommits, AuthorRebases, AuthorAmends, Rewrite, AuthorSquashes,
       AuthorUndoes, BaseMoves, AuthorUnchanged, runVars
  <2>2. pc = "ignoring" /\ TreeIsOurs => local' = local
    BY <1>0, <1>2 DEF Author, AuthorCommits, AuthorRebases, AuthorAmends, Rewrite,
       AuthorSquashes, AuthorUndoes, BaseMoves, AuthorMayAct, Windows, TreeIsOurs
  <2> QED BY <2>1, <2>2 DEF IgnoringInv, Head_, HeadOf
<1>3. CASE UNCHANGED vars
  BY <1>3 DEF vars, repoVars, runVars, IgnoringInv, Head_, HeadOf
<1>4. CASE Quiet /\ ~EnsureIgnored
  <2>1. pc' # "ignoring"
    BY <1>4 DEF Quiet, CleanUp, PreflightRefuses, PreflightPasses, BaselineClones, CommitIgnored,
       CheckBeforePush, PushBranch, EnsurePR, BeginReview, ReviewFails, ReviewEnds,
       CheckBeforeCommit, PushTests, Outcome, BeginValidation, ValidationChooses,
       ValidationClones, Finish, MarkReady, RecordStop, ReviewerWrites, Raise, RoundStops,
       RaiseStop, GoTo, Calm, CalmBut
  <2> QED BY <2>1 DEF IgnoringInv
<1>5. CASE \/ \E d \in BOOLEAN : StartRun(d)
           \/ AtRest \/ BaselineEnds \/ Bookkeeping \/ CommitTests \/ RecordRound \/ Validates
  <2>1. pc' # "ignoring"
    BY <1>5, StartDoes, RestSteps, BaselineDoes, BookingDoes, CommitDoes, RecordDoes,
       ValidationDoes
  <2> QED BY <2>1 DEF IgnoringInv
<1> QED BY <1>1, <1>2, <1>3, <1>4, <1>5 DEF Next, RunStep, Quiet, AtRest, Validates

\* Every step keeps the reviewer's commits known.
LEMMA KnownKept ==
    ASSUME TreeIsOurs \/ Ignored = TRUE, IInv, BranchInv, IgnoringInv, KnownInv, [Next]_vars
    PROVE  KnownInv'
<1>0. /\ st \in State /\ local \in Seq(Commit) /\ local # <<>> /\ nextId \in Nat
      /\ ctxHead \in Nat
      /\ ctxHead < nextId
  BY DEF IInv, TypeOK, StateTypes, RepoTypes, RunTypes, BranchInv
<1>1. Stable
  BY BranchKept
<1>2. CASE CommitIgnored
  <2>1. pc = "ignoring" /\ st'.test_commits = st.test_commits /\ Head_ = ctxHead
    BY <1>2 DEF CommitIgnored, IgnoringInv
  <2>2. CASE UNCHANGED <<local, ctxHead>>
    BY <2>1, <2>2 DEF KnownInv, Knowing
  <2>3. CASE ~UNCHANGED <<local, ctxHead>>
    <3>1. local' = Append(local, [id |-> nextId, by |-> "revali"]) /\ ctxHead' = nextId
      BY <1>2, <2>3 DEF CommitIgnored
    <3>2. /\ Len(local) \in DOMAIN local /\ local[Len(local)].id = ctxHead
          /\ DOMAIN local = 1 .. Len(local) /\ Len(local) \in Nat
      BY <1>0, <2>1 DEF Head_, HeadOf
    <3>3. \A j \in 1 .. Len(local) : local[j].by = "reviewer" => local[j].id \in st.test_commits
      BY <2>1, <3>2 DEF KnownInv, Knowing
    <3>4. /\ DOMAIN local' = 1 .. Len(local) + 1 /\ local'[Len(local) + 1].by = "revali"
          /\ \A j \in 1 .. Len(local) : local'[j] = local[j]
      BY <1>0, <3>1
    <3>5. \A j \in DOMAIN local' : local'[j].by = "reviewer" => local'[j].id \in st'.test_commits
      BY <2>1, <3>2, <3>3, <3>4
    <3> QED BY <3>2, <3>4, <3>5 DEF KnownInv
  <2> QED BY <2>2, <2>3
<1>3. CASE PreflightPasses
  BY <1>3 DEF PreflightPasses, GoTo, KnownInv, Knowing
<1>4. CASE Quiet /\ ~CommitIgnored /\ ~PreflightPasses
  BY <1>4, QuietBranch, QuietSteps DEF SameReview, KnownInv
<1>5. CASE Bookkeeping
  <2>1. pc' \in Knowing => ReviewerIds(local) \subseteq st'.test_commits
    BY <1>5, BookingDoes DEF Knowing
  <2>2. local' = local
    BY <1>5 DEF Bookkeeping
  <2>3. DOMAIN local = 1 .. Len(local) /\ Len(local) \in Nat
    BY <1>0
  <2> QED BY <2>1, <2>2, <2>3 DEF KnownInv, ReviewerIds
<1>6. CASE Beside
  <2>1. UNCHANGED <<st, pc, ctxHead>>
    BY <1>6 DEF Beside, runVars
  <2>2. SUFFICES ASSUME pc \in Knowing, NEW i \in DOMAIN local', local'[i].id = ctxHead,
                        NEW j \in 1 .. i, local'[j].by = "reviewer"
                 PROVE  local'[j].id \in st.test_commits
    BY <2>1 DEF KnownInv
  <2>3. i \in DOMAIN local /\ local'[j] = local[j] /\ local'[i] = local[i] /\ i \in Nat
        /\ i >= 1
    <3>1. i \in DOMAIN local /\ \A k \in 1 .. i : local'[k] = local[k]
      BY <1>0, <1>1, <2>2 DEF Stable, Continues
    <3>2. i \in Nat /\ i >= 1
      BY <1>0, <3>1
    <3> QED BY <3>1, <3>2
  <2> QED BY <2>2, <2>3 DEF KnownInv
<1>7. CASE \/ \E d \in BOOLEAN : StartRun(d)
           \/ AtRest \/ BaselineEnds \/ CommitTests \/ RecordRound \/ Validates
  <2>1. pc' \notin Knowing
    BY <1>7, StartDoes, RestSteps, BaselineDoes, CommitDoes, RecordDoes, ValidationDoes DEF
       Knowing
  <2> QED BY <2>1 DEF KnownInv
<1> QED BY <1>2, <1>3, <1>4, <1>5, <1>6, <1>7, StepKinds

\* OwnTestsKnown, for every value of the other constants: while the reviewer works on the HEAD
\* the run checked, no trailer commit of the branch is unknown to the state, whatever death,
\* rebase or reset came before; unless the author moves the branch right under the commit of
\* the .gitignore line, which then hides what he brought in from the check before the session.
THEOREM OwnTestsKnownHolds ==
    ASSUME TreeIsOurs \/ Ignored = TRUE
    PROVE  Spec => []OwnTestsKnown
<1> DEFINE Known == BranchInv /\ IgnoringInv /\ KnownInv
<1>1. Init => Known
  <2>1. ASSUME Init PROVE Known
    <3>1. local = <<[id |-> 1, by |-> "author"]>> /\ nextId = 2 /\ ctxHead = 0 /\ pc = "idle"
      BY <2>1 DEF Init
    <3> QED BY <3>1 DEF BranchInv, IgnoringInv, KnownInv, Knowing
  <2> QED BY <2>1
<1>2. IInv /\ Known /\ [Next]_vars => Known'
  BY BranchKept, IgnoringKept, KnownKept
<1>3. IInv /\ Known => OwnTestsKnown
  <2> SUFFICES ASSUME IInv, KnownInv, pc = "reviewing", TreeUnmoved
               PROVE  ReviewerIds(local) \subseteq st.test_commits
    BY DEF OwnTestsKnown
  <2>1. local \in Seq(Commit) /\ local # <<>>
    BY DEF IInv, TypeOK, RepoTypes
  <2>2. /\ Len(local) \in DOMAIN local /\ local[Len(local)].id = ctxHead
        /\ DOMAIN local = 1 .. Len(local)
    BY <2>1 DEF TreeUnmoved, Head_, HeadOf
  <2>3. \A j \in DOMAIN local : local[j].by = "reviewer" => local[j].id \in st.test_commits
    BY <2>2 DEF KnownInv, Knowing
  <2> QED BY <2>3 DEF ReviewerIds
<1> HIDE DEF Known
<1> QED BY <1>1, <1>2, <1>3, TypesInvariant, PTL DEF Spec

-----------------------------------------------------------------------------
(* A result that was earned *)

\* Up to commit c, as long as branch b has it, the .gitignore line is committed, if it had to
\* be.
HasLine(b, c) ==
    Ignored \/ \A i \in DOMAIN b : b[i].id = c => \E j \in 1 .. i : b[j].by = "revali"

\* Commit c, as long as branch b has it, lies right on top of head.
OnTop(b, c, head) ==
    \A i \in DOMAIN b : b[i].id = c => i > 1 /\ b[i - 1].id = head

\* Up to commit c, as long as branch b has it, there is a commit on which the existing suite
\* passed, with nothing but the reviewer's commits since.
Covered(b, good, c) ==
    \A i \in DOMAIN b :
        b[i].id = c =>
            \E k \in 1 .. i :
                b[k].id \in good /\ \A j \in k + 1 .. i : b[j].by = "reviewer"

\* A round's commits are of the past, lie on top of each other, and have the .gitignore line.
RoundFits(b, n, r) ==
    /\ r.head_sha < n /\ r.test_commit < n
    /\ OnTop(b, r.test_commit, r.head_sha) /\ HasLine(b, HeadAfter(r))

\* A state's rounds fit the branch, and its baseline passed.
Sound(b, n, good, s) ==
    /\ \A k \in DOMAIN s.rounds : RoundFits(b, n, s.rounds[k])
    /\ s.baseline_sha < n
    /\ s.baseline_sha # 0 => s.baseline_sha \in good

\* What is true up to a commit of before n stays true of a branch that continues.
LEMMA LinePersists ==
    ASSUME NEW b \in Seq(Commit), NEW n, NEW b2 \in Seq(Commit), Continues(b, n, b2), NEW c,
           c < n, HasLine(b, c)
    PROVE  HasLine(b2, c)
<1> SUFFICES ASSUME ~Ignored, NEW i \in DOMAIN b2, b2[i].id = c
             PROVE  \E j \in 1 .. i : b2[j].by = "revali"
  BY DEF HasLine
<1>1. i \in DOMAIN b /\ (\A j \in 1 .. i : b2[j] = b[j]) /\ i \in 1 .. i
  BY DEF Continues
<1>2. b[i].id = c
  BY <1>1
<1> QED BY <1>1, <1>2 DEF HasLine

\* So does what the commit lies on.
LEMMA TopPersists ==
    ASSUME NEW b \in Seq(Commit), NEW n, NEW b2 \in Seq(Commit), Continues(b, n, b2), NEW c,
           c < n, NEW h, OnTop(b, c, h)
    PROVE  OnTop(b2, c, h)
<1> SUFFICES ASSUME NEW i \in DOMAIN b2, b2[i].id = c
             PROVE  i > 1 /\ b2[i - 1].id = h
  BY DEF OnTop
<1>1. i \in DOMAIN b /\ (\A j \in 1 .. i : b2[j] = b[j]) /\ i \in 1 .. i
  BY DEF Continues
<1>2. i > 1 /\ b[i - 1].id = h
  BY <1>1 DEF OnTop
<1>3. i - 1 \in 1 .. i
  BY <1>1, <1>2
<1> QED BY <1>1, <1>2, <1>3

\* So does that the suite covers it.
LEMMA CoverPersists ==
    ASSUME NEW b \in Seq(Commit), NEW n, NEW b2 \in Seq(Commit), Continues(b, n, b2), NEW c,
           c < n,
           NEW good, NEW good2, good \subseteq good2, Covered(b, good, c)
    PROVE  Covered(b2, good2, c)
<1> SUFFICES ASSUME NEW i \in DOMAIN b2, b2[i].id = c
             PROVE  \E k \in 1 .. i :
                b2[k].id \in good2 /\ \A j \in k + 1 .. i : b2[j].by = "reviewer"
  BY DEF Covered
<1>1. i \in DOMAIN b /\ (\A j \in 1 .. i : b2[j] = b[j]) /\ i \in 1 .. i
  BY DEF Continues
<1>2. PICK k \in 1 .. i : b[k].id \in good /\ \A j \in k + 1 .. i : b[j].by = "reviewer"
  BY <1>1 DEF Covered
<1>3. \A j \in k + 1 .. i : j \in 1 .. i
  BY <1>1
<1> QED BY <1>1, <1>2, <1>3

\* So a round that fits goes on to fit.
LEMMA FitPersists ==
    ASSUME NEW b \in Seq(Commit), NEW n \in Nat, NEW b2 \in Seq(Commit), Continues(b, n, b2),
           NEW m \in Nat, n <= m,
           NEW r \in Round \cup InProgress, RoundFits(b, n, r)
    PROVE  RoundFits(b2, m, r)
<1>1. r.head_sha \in Nat /\ r.test_commit \in Nat
  BY DEF Round, InProgress
<1>2. HeadAfter(r) < n
  BY DEF RoundFits, HeadAfter
<1>3. OnTop(b2, r.test_commit, r.head_sha) /\ HasLine(b2, HeadAfter(r))
  BY <1>2, LinePersists, TopPersists DEF RoundFits
<1> QED BY <1>1, <1>3 DEF RoundFits

\* And a sound state stays sound, whichever other fields change.
LEMMA SoundPersists ==
    ASSUME NEW b \in Seq(Commit), NEW n \in Nat, NEW b2 \in Seq(Commit), Continues(b, n, b2),
           NEW m \in Nat, n <= m,
           NEW good, NEW good2, good \subseteq good2, NEW s \in State, Sound(b, n, good, s),
           NEW t, t.rounds = s.rounds, t.baseline_sha = s.baseline_sha
    PROVE  Sound(b2, m, good2, t)
<1>1. s.rounds \in Seq(Round) /\ s.baseline_sha \in Nat
  BY DEF State
<1>2. \A k \in DOMAIN s.rounds : s.rounds[k] \in Round /\ RoundFits(b, n, s.rounds[k])
  BY <1>1 DEF Sound
<1>3. \A k \in DOMAIN s.rounds : RoundFits(b2, m, s.rounds[k])
  BY <1>2, FitPersists
<1> QED BY <1>1, <1>3 DEF Sound

\* Every step continues the branch.
LEMMA NextContinues ==
    ASSUME IInv, BranchInv, [Next]_vars
    PROVE  /\ local \in Seq(Commit) /\ nextId \in Nat /\ local' \in Seq(Commit)
           /\ nextId' \in Nat
           /\ nextId <= nextId' /\ Continues(local, nextId, local')
<1>1. Stable /\ IInv'
  BY BranchKept, TypesKept
<1> QED BY <1>1 DEF Stable, Continues, IInv, TypeOK, RepoTypes

\* Between a check and what it guards HEAD is where the run believes it, and what a sandbox
\* cloned is what its verdict is booked for.
WindowInv ==
    /\ pc \in Windows => Head_ = ctxHead
    /\ pc \in {"idle", "started", "checks"} => tested = 0
    /\ pc = "baseline" /\ tested # 0 => tested = ctxHead
    /\ pc = "validating" => tested = ctxHead

\* What the quiet steps leave alone besides.
LEMMA QuietAlone ==
    ASSUME Quiet
    PROVE  /\ UNCHANGED <<passed, cleared, resume>>
           /\ ~PushBranch /\ ~PushTests => remote' = remote
           /\ ~ReviewEnds => round' = round
           /\ ~PreflightPasses /\ ~CommitIgnored => UNCHANGED <<local, nextId, ctxHead>>
           /\ ~BaselineClones /\ ~ValidationClones => tested' = tested
<1>1. UNCHANGED <<passed, cleared, resume>>
  BY DEF Quiet, CleanUp, PreflightRefuses, PreflightPasses, BaselineClones, EnsureIgnored,
     CommitIgnored, CheckBeforePush, PushBranch, EnsurePR, BeginReview, ReviewFails, ReviewEnds,
     CheckBeforeCommit, PushTests, Outcome, BeginValidation, ValidationChooses, ValidationClones,
     Finish, MarkReady, RecordStop, ReviewerWrites, Raise, RoundStops, RaiseStop, GoTo, Calm,
     CalmBut, history, runVars
<1>2. ~PushBranch /\ ~PushTests => remote' = remote
  BY DEF Quiet, CleanUp, PreflightRefuses, PreflightPasses, BaselineClones, EnsureIgnored,
     CommitIgnored, CheckBeforePush, PushBranch, EnsurePR, BeginReview, ReviewFails, ReviewEnds,
     CheckBeforeCommit, PushTests, Outcome, BeginValidation, ValidationChooses, ValidationClones,
     Finish, MarkReady, RecordStop, ReviewerWrites, Raise, RoundStops, RaiseStop, GoTo, Calm,
     CalmBut, repoVars
<1>3. ~ReviewEnds => round' = round
  BY DEF Quiet, CleanUp, PreflightRefuses, PreflightPasses, BaselineClones, EnsureIgnored,
     CommitIgnored, CheckBeforePush, PushBranch, EnsurePR, BeginReview, ReviewFails, ReviewEnds,
     CheckBeforeCommit, PushTests, Outcome, BeginValidation, ValidationChooses, ValidationClones,
     Finish, MarkReady, RecordStop, ReviewerWrites, Raise, RoundStops, RaiseStop, GoTo, Calm,
     CalmBut, runVars
<1>4. ~PreflightPasses /\ ~CommitIgnored => UNCHANGED <<local, nextId, ctxHead>>
  BY DEF Quiet, CleanUp, PreflightRefuses, PreflightPasses, BaselineClones, EnsureIgnored,
     CommitIgnored, CheckBeforePush, PushBranch, EnsurePR, BeginReview, ReviewFails, ReviewEnds,
     CheckBeforeCommit, PushTests, Outcome, BeginValidation, ValidationChooses, ValidationClones,
     Finish, MarkReady, RecordStop, ReviewerWrites, Raise, RoundStops, RaiseStop, GoTo, Calm,
     CalmBut, repoVars, runVars
<1>5. ~BaselineClones /\ ~ValidationClones => tested' = tested
  BY DEF Quiet, CleanUp, PreflightRefuses, PreflightPasses, BaselineClones, EnsureIgnored,
     CommitIgnored, CheckBeforePush, PushBranch, EnsurePR, BeginReview, ReviewFails, ReviewEnds,
     CheckBeforeCommit, PushTests, Outcome, BeginValidation, ValidationChooses, ValidationClones,
     Finish, MarkReady, RecordStop, ReviewerWrites, Raise, RoundStops, RaiseStop, GoTo, Calm,
     CalmBut, runVars
<1> QED BY <1>1, <1>2, <1>3, <1>4, <1>5

\* This is where the author's absence from the windows is needed, and the only place.
LEMMA WindowKept ==
    ASSUME TreeIsOurs, IInv, WindowInv, [Next]_vars
    PROVE  WindowInv'
<1>1. CASE Author
  <2>1. UNCHANGED <<pc, ctxHead, tested>>
    BY <1>1 DEF Author, AuthorCommits, AuthorRebases, AuthorAmends, Rewrite, AuthorSquashes,
       AuthorUndoes, BaseMoves, AuthorUnchanged, runVars
  <2>2. pc \notin Windows \/ local' = local
    BY <1>1 DEF Author, AuthorCommits, AuthorRebases, AuthorAmends, Rewrite, AuthorSquashes,
       AuthorUndoes, BaseMoves, AuthorMayAct, Windows, TreeIsOurs
  <2> QED BY <2>1, <2>2 DEF WindowInv, Head_, HeadOf
<1>2. CASE Quiet
  <2>1. CASE PreflightPasses
    BY <2>1 DEF PreflightPasses, GoTo, Calm, WindowInv, Windows, Head_, HeadOf
  <2>2. CASE BaselineClones
    BY <2>2 DEF BaselineClones, Calm, WindowInv, Windows, Head_, HeadOf
  <2>3. CASE CheckBeforeCommit
    BY <2>3 DEF CheckBeforeCommit, GoTo, Calm, WindowInv, Windows, Head_, HeadOf, TreeUnmoved
  <2>4. CASE BeginValidation
    BY <2>4 DEF BeginValidation, GoTo, RaiseStop, Save, Calm, WindowInv, Windows, Head_, HeadOf,
       TreeUnmoved
  <2>5. CASE ValidationClones
    BY <2>5 DEF ValidationClones, GoTo, Calm, WindowInv, Windows, Head_, HeadOf
  <2>6. CASE CleanUp
    BY <2>6 DEF CleanUp, GoTo, Calm, WindowInv, Windows
  <2>7. CASE EnsureIgnored
    BY <2>7 DEF EnsureIgnored, GoTo, RaiseStop, Calm, WindowInv, Windows, Head_, HeadOf,
       TreeUnmoved
  <2>8. CASE CheckBeforePush
    BY <2>8 DEF CheckBeforePush, GoTo, RaiseStop, Calm, WindowInv, Windows, Head_, HeadOf,
       TreeUnmoved
  <2>9. CASE ValidationChooses
    BY <2>9 DEF ValidationChooses, GoTo, repoVars, WindowInv, Windows, Head_, HeadOf
  <2>10. CASE ~PreflightPasses /\ ~BaselineClones /\ ~CheckBeforeCommit /\ ~BeginValidation
              /\ ~ValidationClones /\ ~CleanUp /\ ~EnsureIgnored /\ ~CheckBeforePush
              /\ ~ValidationChooses
    <3>1. pc' \notin Windows \cup {"idle", "started", "checks", "validating"}
      BY <1>2, <2>10 DEF Quiet, Windows, PreflightRefuses, CommitIgnored, PushBranch, EnsurePR,
         BeginReview, ReviewFails, ReviewEnds, PushTests, Outcome, Finish, MarkReady, RecordStop,
         ReviewerWrites, Raise, RoundStops, RaiseStop, GoTo, Calm, CalmBut
    <3> QED BY <3>1 DEF WindowInv, Windows
  <2> QED BY <2>1, <2>2, <2>3, <2>4, <2>5, <2>6, <2>7, <2>8, <2>9, <2>10
<1>3. CASE \E d \in BOOLEAN : StartRun(d)
  BY <1>3 DEF StartRun, GoTo, WindowInv, Windows
<1>4. CASE AtRest
  BY <1>4 DEF AtRest, Exit, Die, StopLive, StopDead, Reset, Gone, runVars, WindowInv, Windows
<1>5. CASE BaselineEnds \/ Bookkeeping \/ CommitTests \/ RecordRound \/ Validates
  <2>1. pc' \notin Windows \cup {"idle", "started", "checks", "validating"}
    BY <1>5, BaselineDoes, BookingDoes, CommitDoes, RecordDoes, ValidationDoes DEF Windows
  <2> QED BY <2>1 DEF WindowInv, Windows
<1>6. CASE UNCHANGED vars
  BY <1>6 DEF vars, repoVars, runVars, WindowInv, Head_, HeadOf
<1> QED BY <1>1, <1>2, <1>3, <1>4, <1>5, <1>6 DEF Next, RunStep, Quiet, AtRest, Validates

\* Memory and disk are sound.
SoundInv ==
    /\ Sound(local, nextId, passed, st)
    /\ disk # NoState => Sound(local, nextId, passed, disk)

\* The round in progress is about the HEAD the run believes in.
RoundInv ==
    /\ pc \in {"commit", "committing"} => round.head_sha = ctxHead /\ round.test_commit = 0
    /\ pc \in {"record", "push_tests", "tests_push", "outcome"} => ctxHead = HeadAfter(round)
    /\ pc \in {"push_tests", "tests_push"} => round.test_commit # 0

\* From the .gitignore commit to the reviewer's commit.
Lined == {"pushing", "branch_push", "pushed", "review", "reviewing", "abandon", "commit",
          "committing"}

\* There the HEAD believed in has the line.
LineInv == pc \in Lined => HasLine(local, ctxHead)

\* From the verdict to its outcome the round in progress fits the branch.
FitInv ==
    pc \in {"record", "push_tests", "tests_push", "outcome"} => RoundFits(local, nextId, round)

\* Every step keeps the round in progress about the HEAD believed in.
LEMMA RoundProgress ==
    ASSUME IInv, RoundInv, BranchInv, [Next]_vars
    PROVE  RoundInv'
<1>1. CASE Quiet
  <2>1. CASE ReviewEnds
    <3>1. round'.head_sha = ctxHead /\ round'.test_commit = 0 /\ ctxHead' = ctxHead
          /\ pc' \in {"commit", "record"}
      BY <2>1 DEF ReviewEnds, GoTo
    <3> QED BY <3>1 DEF RoundInv, HeadAfter
  <2>2. CASE CommitIgnored \/ PreflightPasses
    BY <2>2 DEF CommitIgnored, PreflightPasses, RaiseStop, GoTo, RoundInv
  <2>3. CASE ~ReviewEnds /\ ~CommitIgnored /\ ~PreflightPasses
    <3>1. UNCHANGED <<ctxHead, round>>
      BY <1>1, <2>3, QuietAlone
    <3>2. /\ pc' \in {"commit", "committing"} => pc \in {"commit", "committing"}
          /\ pc' \in {"record", "push_tests", "tests_push", "outcome"}
                => pc \in {"record", "push_tests", "tests_push", "outcome"}
          /\ pc' \in {"push_tests", "tests_push"} => pc \in {"push_tests", "tests_push"}
      BY <1>1, <2>3 DEF Quiet, CleanUp, PreflightRefuses, PreflightPasses, BaselineClones,
         EnsureIgnored, CommitIgnored, CheckBeforePush, PushBranch, EnsurePR, BeginReview,
         ReviewFails, ReviewEnds, CheckBeforeCommit, PushTests, Outcome, BeginValidation,
         ValidationChooses, ValidationClones, Finish, MarkReady, RecordStop, ReviewerWrites,
         Raise, RoundStops, RaiseStop, GoTo, Calm, CalmBut
    <3> QED BY <3>1, <3>2 DEF RoundInv, HeadAfter
  <2> QED BY <2>1, <2>2, <2>3
<1>2. CASE CommitTests
  <2>1. nextId > 0
    BY DEF BranchInv
  <2> QED BY <1>2, <2>1, CommitDoes DEF RoundInv, HeadAfter
<1>3. CASE RecordRound
  BY <1>3, RecordDoes DEF RoundInv, HeadAfter
<1>4. CASE Beside
  BY <1>4 DEF Beside, runVars, RoundInv, HeadAfter
<1>5. CASE \/ \E d \in BOOLEAN : StartRun(d)
           \/ AtRest \/ BaselineEnds \/ Bookkeeping \/ Validates
  <2>1. pc' \notin {"commit", "committing", "record", "push_tests", "tests_push", "outcome"}
    BY <1>5, StartDoes, RestSteps, BaselineDoes, BookingDoes, ValidationDoes
  <2> QED BY <2>1 DEF RoundInv
<1> QED BY <1>1, <1>2, <1>3, <1>4, <1>5, StepKinds

\* HEAD is the last commit of the branch, and no other has its id.
LEMMA HeadIsLast ==
    ASSUME IInv, BranchInv
    PROVE  /\ local \in Seq(Commit) /\ Len(local) \in DOMAIN local
           /\ DOMAIN local = 1 .. Len(local) /\ Len(local) \in Nat
           /\ local[Len(local)].id = Head_ /\ Head_ < nextId
           /\ \A i \in DOMAIN local : local[i].id = Head_ => i = Len(local)
<1>1. local \in Seq(Commit) /\ local # <<>>
  BY DEF IInv, TypeOK, RepoTypes
<1>2. /\ Len(local) \in DOMAIN local /\ DOMAIN local = 1 .. Len(local) /\ Len(local) \in Nat
      /\ local[Len(local)].id = Head_
  BY <1>1 DEF Head_, HeadOf
<1>3. \A i \in DOMAIN local : local[i].id < nextId
  BY <1>2 DEF BranchInv, IInv, TypeOK, RepoTypes
<1>4. \A i \in DOMAIN local : i < Len(local) => local[i].id < local[Len(local)].id
  BY <1>2 DEF BranchInv
<1>5. \A i \in DOMAIN local : local[i].id \in Nat
  BY <1>2 DEF BranchInv, IInv, TypeOK, RepoTypes
<1> QED BY <1>1, <1>2, <1>3, <1>4, <1>5

\* Every step keeps the .gitignore line under the HEAD believed in.
LEMMA LineKept ==
    ASSUME IInv, BranchInv, LineInv, [Next]_vars
    PROVE  LineInv'
<1>0. /\ local \in Seq(Commit) /\ nextId \in Nat /\ local' \in Seq(Commit)
      /\ Continues(local, nextId, local') /\ ctxHead < nextId
  BY NextContinues DEF BranchInv
<1>a. ASSUME HasLine(local, ctxHead), ctxHead' = ctxHead PROVE LineInv'
  BY <1>0, <1>a, LinePersists DEF LineInv
<1>1. CASE EnsureIgnored \/ CommitIgnored
  <2>1. CASE pc' = "pushing"
    <3>1. /\ Head_' = ctxHead'
          /\ \E k \in DOMAIN local' : Ignored \/ local'[k].by = "revali"
      <4>1. CASE EnsureIgnored
        <5>1. local' = local /\ ctxHead' = ctxHead /\ Head_ = ctxHead /\ StateDirIgnored
          BY <2>1, <4>1 DEF EnsureIgnored, RaiseStop, GoTo, TreeUnmoved
        <5> QED BY <5>1, HeadIsLast DEF StateDirIgnored, Head_, HeadOf
      <4>2. CASE CommitIgnored
        <5>1. local' = Append(local, [id |-> nextId, by |-> "revali"]) /\ ctxHead' = nextId
          BY <2>1, <4>2 DEF CommitIgnored, RaiseStop, GoTo
        <5>2. Len(local) + 1 \in DOMAIN local' /\ local'[Len(local) + 1].by = "revali"
          BY <1>0, <5>1
        <5>3. Head_' = ctxHead'
          BY <1>0, <5>1 DEF Head_, HeadOf
        <5> QED BY <5>2, <5>3
      <4> QED BY <1>1, <4>1, <4>2
    <3>2. IInv' /\ BranchInv'
      BY TypesKept, BranchKept
    <3>3. \A i \in DOMAIN local' : local'[i].id = ctxHead' => i = Len(local')
      <4>1. (\A i \in DOMAIN local : local[i].id = Head_ => i = Len(local))'
        BY <3>2, HeadIsLast, PTL
      <4> QED BY <3>1, <4>1
    <3>4. DOMAIN local' = 1 .. Len(local')
      BY <1>0
    <3> QED BY <3>1, <3>3, <3>4 DEF LineInv, HasLine
  <2>2. CASE pc' # "pushing"
    BY <1>1, <2>2 DEF EnsureIgnored, CommitIgnored, RaiseStop, GoTo, LineInv, Lined
  <2> QED BY <2>1, <2>2
<1>2. CASE Quiet /\ ~EnsureIgnored /\ ~CommitIgnored
  <2>1. CASE PreflightPasses
    BY <2>1 DEF PreflightPasses, GoTo, LineInv, Lined
  <2>2. CASE ~PreflightPasses
    <3>1. ctxHead' = ctxHead
      BY <1>2, <2>2, QuietAlone
    <3>2. pc' \in Lined => pc \in Lined
      BY <1>2, <2>2 DEF Quiet, Lined, CleanUp, PreflightRefuses, BaselineClones,
         CheckBeforePush, PushBranch, EnsurePR, BeginReview, ReviewFails, ReviewEnds,
         CheckBeforeCommit, PushTests, Outcome, BeginValidation, ValidationChooses,
         ValidationClones, Finish, MarkReady, RecordStop, ReviewerWrites, Raise, RoundStops,
         RaiseStop, GoTo, Calm, CalmBut
    <3> QED BY <1>a, <3>1, <3>2 DEF LineInv
  <2> QED BY <2>1, <2>2
<1>3. CASE Beside
  BY <1>a, <1>3 DEF Beside, runVars, LineInv
<1>4. CASE \/ \E d \in BOOLEAN : StartRun(d)
           \/ AtRest \/ BaselineEnds \/ Bookkeeping \/ CommitTests \/ RecordRound
                \/ Validates
  <2>1. pc' \notin Lined
    BY <1>4, StartDoes, RestSteps, BaselineDoes, BookingDoes, CommitDoes, RecordDoes,
       ValidationDoes DEF Lined
  <2> QED BY <2>1 DEF LineInv
<1> QED BY <1>1, <1>2, <1>3, <1>4, StepKinds

\* Every step keeps the round in progress fitting: its test commit is made right on top of
\* the HEAD it reviewed.
LEMMA FitKept ==
    ASSUME IInv, BranchInv, WindowInv, LineInv, RoundInv, FitInv, [Next]_vars
    PROVE  FitInv'
<1>0. /\ local \in Seq(Commit) /\ nextId \in Nat /\ local' \in Seq(Commit) /\ nextId' \in Nat
      /\ nextId <= nextId' /\ Continues(local, nextId, local') /\ ctxHead < nextId
      /\ round \in InProgress
      /\ nextId > 0 /\ ctxHead \in Nat
  BY NextContinues DEF BranchInv, IInv, TypeOK, StateTypes, RunTypes
<1>a. ASSUME RoundFits(local, nextId, round), round' = round PROVE FitInv'
  BY <1>0, <1>a, FitPersists DEF FitInv
<1>1. CASE ReviewEnds
  <2>1. round'.head_sha = ctxHead /\ round'.test_commit = 0 /\ UNCHANGED <<local, nextId>>
        /\ pc = "reviewing"
    BY <1>1 DEF ReviewEnds
  <2>2. HasLine(local', HeadAfter(round'))
    BY <2>1 DEF HeadAfter, LineInv, Lined
  <2>3. OnTop(local', 0, ctxHead)
    BY <1>0, <2>1 DEF OnTop, BranchInv
  <2> QED BY <1>0, <2>1, <2>2, <2>3 DEF FitInv, RoundFits
<1>2. CASE CommitTests
  <2>1. CASE pc' = "record"
    <3>1. /\ pc = "committing" /\ local' = Append(local, [id |-> nextId, by |-> "reviewer"])
          /\ nextId' = nextId + 1 /\ ctxHead' = nextId /\ round'.test_commit = nextId
          /\ round'.head_sha = ctxHead
      BY <1>2, <2>1, CommitDoes DEF RoundInv
    <3>2. Head_ = ctxHead
      BY <3>1 DEF WindowInv, Windows
    <3>3. \A i \in DOMAIN local' : local'[i].id = nextId => i = Len(local) + 1
      BY <1>0, <3>1 DEF BranchInv
    <3>4. /\ DOMAIN local = 1 .. Len(local) /\ Len(local) \in Nat /\ Len(local) > 0
          /\ local[Len(local)].id = ctxHead
      BY <3>2, HeadIsLast
    <3>5. local'[Len(local)].id = ctxHead
      <4>1. \A i \in 1 .. Len(local) : local'[i] = local[i]
        BY <1>0, <3>1
      <4> QED BY <3>4, <4>1
    <3>6. OnTop(local', nextId, ctxHead)
      BY <3>3, <3>4, <3>5 DEF OnTop
    <3>7. HasLine(local', nextId)
      <4> SUFFICES ASSUME ~Ignored PROVE \E j \in 1 .. Len(local) + 1 : local'[j].by = "revali"
        BY <3>3 DEF HasLine
      <4>1. PICK j \in 1 .. Len(local) : local[j].by = "revali"
        BY <3>1, <3>4 DEF LineInv, Lined, HasLine
      <4> QED BY <1>0, <3>1, <3>4, <4>1
    <3> QED BY <1>0, <3>1, <3>6, <3>7 DEF FitInv, RoundFits, HeadAfter
  <2>2. CASE pc' # "record"
    BY <1>2, <2>2, CommitDoes DEF FitInv
  <2> QED BY <2>1, <2>2
<1>3. CASE Quiet /\ ~ReviewEnds
  <2>1. round' = round
    BY <1>3, QuietAlone
  <2>2. pc' \in {"record", "push_tests", "tests_push", "outcome"} =>
           pc \in {"record", "push_tests", "tests_push", "outcome"}
    BY <1>3 DEF Quiet, CleanUp, PreflightRefuses, PreflightPasses, BaselineClones, EnsureIgnored,
       CommitIgnored, CheckBeforePush, PushBranch, EnsurePR, BeginReview, ReviewFails,
       ReviewEnds, CheckBeforeCommit, PushTests, Outcome, BeginValidation, ValidationChooses,
       ValidationClones, Finish, MarkReady, RecordStop, ReviewerWrites, Raise, RoundStops,
       RaiseStop, GoTo, Calm, CalmBut
  <2> QED BY <1>a, <2>1, <2>2 DEF FitInv
<1>4. CASE RecordRound
  BY <1>4, <1>a, RecordDoes DEF FitInv
<1>5. CASE Beside
  BY <1>5, <1>a DEF Beside, runVars, FitInv
<1>6. CASE \/ \E d \in BOOLEAN : StartRun(d)
           \/ AtRest \/ BaselineEnds \/ Bookkeeping \/ Validates
  <2>1. pc' \notin {"record", "push_tests", "tests_push", "outcome"}
    BY <1>6, StartDoes, RestSteps, BaselineDoes, BookingDoes, ValidationDoes
  <2> QED BY <2>1 DEF FitInv
<1> QED BY <1>1, <1>2, <1>3, <1>4, <1>5, <1>6, StepKinds

\* What passed stays passed.
LEMMA HistoryGrows ==
    ASSUME IInv, [Next]_vars
    PROVE  passed \subseteq passed' /\ cleared \subseteq cleared'
<1>1. CASE Quiet
  BY <1>1, QuietAlone
<1>2. CASE AtRest
  BY <1>2 DEF AtRest, Exit, Die, StopLive, StopDead, Reset, history
<1>3. CASE \E d \in BOOLEAN : StartRun(d)
  BY <1>3 DEF StartRun
<1>4. CASE Bookkeeping
  BY <1>4 DEF Bookkeeping
<1>5. CASE Beside
  BY <1>5 DEF Beside, history
<1> QED BY <1>1, <1>2, <1>3, <1>4, <1>5, BaselineDoes, CommitDoes, RecordDoes, ValidationDoes,
   StepKinds

\* Every step keeps memory and disk sound.
LEMMA SoundKept ==
    ASSUME IInv, BranchInv, WindowInv, FitInv, SoundInv, [Next]_vars
    PROVE  SoundInv'
<1>0. /\ local \in Seq(Commit) /\ nextId \in Nat /\ local' \in Seq(Commit) /\ nextId' \in Nat
      /\ nextId <= nextId' /\ Continues(local, nextId, local') /\ ctxHead < nextId
      /\ nextId > 0 /\ ctxHead \in Nat /\ st \in State /\ disk \in State \cup {NoState}
      /\ FreshState \in State
  BY NextContinues, FreshStateType DEF BranchInv, IInv, TypeOK, StateTypes, RunTypes
<1>f. Sound(local, nextId, passed, FreshState)
  <2>1. FreshState.rounds = <<>> /\ FreshState.baseline_sha = 0
    BY DEF FreshState
  <2> QED BY <1>0, <2>1 DEF Sound
<1>p. passed \subseteq passed'
  BY HistoryGrows
<1>a. ASSUME NEW s \in State, Sound(local, nextId, passed, s), NEW t, t.rounds = s.rounds,
             t.baseline_sha = s.baseline_sha
      PROVE  Sound(local', nextId', passed', t)
  BY <1>0, <1>p, <1>a, SoundPersists
<1>s. Sound(local, nextId, passed, st)
        /\ (disk # NoState => disk \in State /\ Sound(local, nextId, passed, disk))
  BY <1>0 DEF SoundInv
<1>d. disk # NoState => Sound(local', nextId', passed', disk)
  BY <1>a, <1>s
<1>1. ASSUME NEW d \in BOOLEAN, StartRun(d) PROVE SoundInv'
  <2>1. PICK s \in State : s = IF disk = NoState THEN FreshState ELSE disk
    BY <1>0
  <2>2. Sound(local, nextId, passed, s)
    BY <1>f, <1>s, <2>1
  <2>3. disk' = st' /\ st'.rounds = s.rounds /\ st'.baseline_sha = s.baseline_sha
    BY <1>1, <2>1, StartDoes DEF SameReview
  <2> QED BY <1>a, <2>2, <2>3 DEF SoundInv
<1>2. CASE Quiet
  <2>1. SameReview(st, st') /\ (disk' = disk \/ SameReview(st, disk'))
    BY <1>2, QuietSteps
  <2>2. Sound(local', nextId', passed', st')
          /\ (disk' = disk \/ Sound(local', nextId', passed', disk'))
    BY <1>0, <1>a, <1>s, <2>1 DEF SameReview
  <2> QED BY <1>d, <2>2 DEF SoundInv
<1>3. CASE AtRest
  <2>1. /\ st' = FreshState \/ st' = st
        /\ disk' = disk \/ disk' = NoState \/ (disk \in State /\ SameReview(disk, disk'))
    BY <1>3, RestSteps
  <2>2. Sound(local', nextId', passed', st')
    BY <1>0, <1>a, <1>f, <1>s, <2>1
  <2>3. disk' = disk \/ disk' = NoState \/ Sound(local', nextId', passed', disk')
    BY <1>a, <1>s, <2>1, NoStateAssumption DEF SameReview
  <2> QED BY <1>d, <2>2, <2>3 DEF SoundInv
<1>4. CASE BaselineEnds
  <2>1. CASE pc' = "bookkeeping"
    <3>1. /\ pc = "baseline" /\ tested # 0 /\ SameRounds(st, st') /\ disk' = st'
          /\ st'.baseline_sha = ctxHead /\ passed' = passed \cup {tested}
          /\ UNCHANGED <<local, nextId>>
      BY <1>4, <2>1, BaselineDoes
    <3>2. tested = ctxHead
      BY <3>1 DEF WindowInv
    <3>3. Sound(local', nextId', passed', st')
      BY <1>0, <1>s, <3>1, <3>2 DEF Sound, SameRounds
    <3> QED BY <3>1, <3>3 DEF SoundInv
  <2>2. CASE pc' # "bookkeeping"
    BY <1>0, <1>4, <1>a, <1>d, <1>s, <2>2, BaselineDoes DEF SoundInv
  <2> QED BY <2>1, <2>2
<1>5. CASE Bookkeeping
  <2>1. Sound(local', nextId', passed', st')
    <3>1. CASE st'.rounds = st.rounds /\ st'.baseline_sha = st.baseline_sha
      BY <1>0, <1>a, <1>s, <3>1
    <3>2. CASE st'.rounds = <<>> /\ st'.baseline_sha = 0
      BY <1>0, <3>2 DEF Sound
    <3> QED BY <1>5, <3>1, <3>2, BookingDoes
  <2>2. disk' = disk \/ disk' = st'
    BY <1>5, BookingDoes
  <2> QED BY <1>d, <2>1, <2>2 DEF SoundInv
<1>6. CASE CommitTests
  <2>1. Sound(local', nextId', passed', st')
          /\ (disk' = disk \/ Sound(local', nextId', passed', disk'))
    BY <1>0, <1>6, <1>a, <1>s, CommitDoes DEF SameRounds
  <2> QED BY <1>d, <2>1 DEF SoundInv
<1>7. CASE RecordRound
  <2> DEFINE n == [verdict |-> round.verdict, head_sha |-> round.head_sha,
                   test_commit |-> round.test_commit]
  <2>1. /\ disk' = st' /\ pc = "record" /\ st'.rounds = Append(st.rounds, n)
        /\ st'.baseline_sha = st.baseline_sha /\ UNCHANGED <<local, nextId, passed>>
    BY <1>7, RecordDoes
  <2>2. RoundFits(local, nextId, n)
    <3>1. RoundFits(local, nextId, round)
      BY <2>1 DEF FitInv
    <3> QED BY <3>1 DEF RoundFits, HeadAfter
  <2>3. st.rounds \in Seq(Round)
    BY <1>0, StateFields
  <2>4. /\ \A k \in DOMAIN st.rounds : st'.rounds[k] = st.rounds[k]
        /\ DOMAIN st'.rounds = DOMAIN st.rounds \cup {Len(st.rounds) + 1}
        /\ st'.rounds[Len(st.rounds) + 1] = n
    BY <2>1, <2>3
  <2>5. \A k \in DOMAIN st'.rounds : RoundFits(local, nextId, st'.rounds[k])
    <3> HIDE DEF n
    <3> QED BY <1>s, <2>2, <2>4 DEF Sound
  <2>6. Sound(local', nextId', passed', st')
    BY <1>s, <2>1, <2>5 DEF Sound
  <2> QED BY <2>1, <2>6 DEF SoundInv
<1>8. CASE Validates
  <2>1. st'.rounds = st.rounds /\ st'.baseline_sha = st.baseline_sha
          /\ (disk' = disk \/ disk' = st')
    BY <1>8, ValidationDoes
  <2>2. Sound(local', nextId', passed', st')
    BY <1>0, <1>a, <1>s, <2>1
  <2> QED BY <1>d, <2>1, <2>2 DEF SoundInv
<1>9. CASE Beside
  <2>1. UNCHANGED <<st, disk>>
    BY <1>9 DEF Beside, runVars
  <2>2. Sound(local', nextId', passed', st')
    BY <1>0, <1>a, <1>s, <2>1
  <2> QED BY <1>d, <2>1, <2>2 DEF SoundInv
<1> QED BY <1>1, <1>2, <1>3, <1>4, <1>5, <1>6, <1>7, <1>8, <1>9, StepKinds

\* From the moment a baseline may be on record for the HEAD believed in.
SinceBaseline ==
    {"bookkeeping", "pr", "ignoring", "pushing", "branch_push", "pushed", "review", "reviewing",
     "abandon", "commit", "committing", "record", "push_tests", "tests_push", "outcome",
     "approved", "validate", "cloning", "validating", "validated"}

\* The baseline, while the branch has it, is no younger than that HEAD.
AgeInv ==
    pc \in SinceBaseline => (HeadContains(st.baseline_sha) => st.baseline_sha <= ctxHead)

\* Every step keeps the baseline no younger.
LEMMA AgeKept ==
    ASSUME IInv, BranchInv, SoundInv, AgeInv, [Next]_vars
    PROVE  AgeInv'
<1>0. /\ local \in Seq(Commit) /\ nextId \in Nat /\ local' \in Seq(Commit) /\ nextId' \in Nat
      /\ nextId <= nextId' /\ Continues(local, nextId, local') /\ ctxHead < nextId
      /\ nextId > 0 /\ ctxHead \in Nat /\ st \in State /\ st.baseline_sha \in Nat
      /\ st.baseline_sha < nextId
  BY NextContinues DEF BranchInv, IInv, TypeOK, StateTypes, RunTypes, SoundInv, Sound, State
<1>1. \A c \in Nat : c < nextId /\ HeadContains(c)' => HeadContains(c)
  BY <1>0 DEF HeadContains, Ids, Continues
<1>a. ASSUME st'.baseline_sha = st.baseline_sha, ctxHead' >= ctxHead, ctxHead' \in Nat,
             pc \in SinceBaseline
      PROVE  AgeInv'
  <2> SUFFICES ASSUME HeadContains(st.baseline_sha)' PROVE st'.baseline_sha <= ctxHead'
    BY DEF AgeInv
  <2>1. HeadContains(st.baseline_sha)
    BY <1>0, <1>a DEF HeadContains, Ids, Continues
  <2> QED BY <1>0, <1>a, <2>1 DEF AgeInv
<1>2. CASE PreflightPasses
  <2>1. ctxHead' = Head_ /\ UNCHANGED <<local, st>>
    BY <1>2 DEF PreflightPasses
  <2>2. \A c : HeadContains(c) => c <= Head_
    <3>1. \A i \in DOMAIN local : i < Len(local) => local[i].id < Head_
      BY HeadIsLast DEF BranchInv
    <3>2. \A i \in DOMAIN local : local[i].id \in Nat
      BY <1>0 DEF BranchInv
    <3>3. \A i \in DOMAIN local : local[i].id <= Head_
      BY <3>1, <3>2, HeadIsLast
    <3> QED BY <3>3 DEF HeadContains, Ids
  <2> QED BY <2>1, <2>2 DEF AgeInv, HeadContains
<1>3. CASE Quiet /\ ~PreflightPasses
  <2>1. st'.baseline_sha = st.baseline_sha
    BY <1>3, QuietSteps DEF SameReview
  <2>2. ctxHead' \in {ctxHead, nextId}
    <3>1. CASE CommitIgnored
      BY <3>1 DEF CommitIgnored
    <3>2. CASE ~CommitIgnored
      BY <1>3, <3>2, QuietAlone
    <3> QED BY <3>1, <3>2
  <2>3. pc' \in SinceBaseline => pc \in SinceBaseline
    BY <1>3 DEF Quiet, SinceBaseline, CleanUp, PreflightRefuses, PreflightPasses, BaselineClones,
       EnsureIgnored, CommitIgnored, CheckBeforePush, PushBranch, EnsurePR, BeginReview,
       ReviewFails, ReviewEnds, CheckBeforeCommit, PushTests, Outcome, BeginValidation,
       ValidationChooses, ValidationClones, Finish, MarkReady, RecordStop, ReviewerWrites, Raise,
       RoundStops, RaiseStop, GoTo, Calm, CalmBut
  <2> QED BY <1>0, <1>a, <2>1, <2>2, <2>3 DEF AgeInv
<1>4. CASE BaselineEnds
  BY <1>0, <1>4, BaselineDoes DEF AgeInv, SinceBaseline
<1>5. CASE Bookkeeping
  <2>1. UNCHANGED ctxHead /\ pc \in SinceBaseline
    BY <1>5 DEF Bookkeeping, SinceBaseline
  <2>2. CASE st'.baseline_sha = st.baseline_sha
    BY <1>0, <1>a, <2>1, <2>2
  <2>3. CASE st'.baseline_sha = 0
    BY <1>0, <2>1, <2>3 DEF AgeInv
  <2> QED BY <1>5, <2>2, <2>3, BookingDoes
<1>6. CASE CommitTests
  <2>1. /\ pc \in SinceBaseline /\ st'.baseline_sha = st.baseline_sha
        /\ ctxHead' \in {ctxHead, nextId}
    BY <1>6, CommitDoes DEF SinceBaseline
  <2> QED BY <1>0, <1>a, <2>1
<1>7. CASE RecordRound \/ Validates
  <2>1. pc \in SinceBaseline /\ st'.baseline_sha = st.baseline_sha /\ ctxHead' = ctxHead
    BY <1>7, RecordDoes, ValidationDoes DEF SinceBaseline
  <2> QED BY <1>0, <1>a, <2>1
<1>8. CASE Beside
  <2>1. UNCHANGED <<st, pc, ctxHead>>
    BY <1>8 DEF Beside, runVars
  <2> QED BY <1>0, <1>a, <2>1 DEF AgeInv
<1>9. CASE (\E d \in BOOLEAN : StartRun(d)) \/ AtRest
  <2>1. pc' \notin SinceBaseline
    BY <1>9, StartDoes, RestSteps DEF SinceBaseline
  <2> QED BY <2>1 DEF AgeInv
<1> QED BY <1>2, <1>3, <1>4, <1>5, <1>6, <1>7, <1>8, <1>9, StepKinds

\* The last round of s is r.
RoundSaved(s, r) ==
    /\ s.rounds # <<>> /\ Last(s.rounds).verdict = r.verdict
    /\ Last(s.rounds).head_sha = r.head_sha /\ Last(s.rounds).test_commit = r.test_commit

\* The last round of s approved head.
Approved(s, head) ==
    s.rounds # <<>> /\ Last(s.rounds).verdict = "APPROVE" /\ HeadAfter(Last(s.rounds)) = head

\* From an approval to its validation.
Validating == {"approved", "validate", "cloning", "validating", "validated"}

\* From the bookkeeping to the push.
Opening == {"pr", "ignoring", "pushing", "branch_push", "pushed"}

\* The round just recorded is the last; what is validated, or resumed, is an approval of the
\* HEAD the run believes in.
LastInv ==
    /\ pc \in {"push_tests", "tests_push", "outcome"} => RoundSaved(st, round)
    /\ pc \in Validating \/ (resume = TRUE /\ pc \in Opening) => Approved(st, ctxHead)

\* A resumed run makes no .gitignore commit on top of the approved HEAD, ...
NoLineInv == pc = "ignoring" => resume # TRUE

\* ... because that HEAD has the line already.
LEMMA NoLineKept ==
    ASSUME IInv, BranchInv, SoundInv, LastInv, NoLineInv, [Next]_vars
    PROVE  NoLineInv'
<1>0. st \in State /\ st.rounds \in Seq(Round)
  BY StateFields DEF IInv, TypeOK, StateTypes
<1>1. CASE EnsureIgnored /\ pc' = "ignoring"
  <2>1. pc = "pr" /\ ~StateDirIgnored /\ Head_ = ctxHead /\ resume' = resume
    BY <1>1 DEF EnsureIgnored, RaiseStop, GoTo, TreeUnmoved
  <2>2. ~Approved(st, ctxHead)
    <3> SUFFICES ASSUME Approved(st, ctxHead) PROVE FALSE
      OBVIOUS
    <3>1. Len(st.rounds) \in DOMAIN st.rounds
      BY <1>0 DEF Approved
    <3>2. HasLine(local, ctxHead)
      BY <3>1 DEF SoundInv, Sound, RoundFits, Approved, Last
    <3>3. Len(local) \in DOMAIN local /\ local[Len(local)].id = ctxHead
          /\ DOMAIN local = 1 .. Len(local)
      BY <2>1, HeadIsLast
    <3> QED BY <2>1, <3>2, <3>3 DEF HasLine, StateDirIgnored
  <2> QED BY <2>1, <2>2 DEF LastInv, Opening, NoLineInv
<1>2. CASE EnsureIgnored /\ pc' # "ignoring"
  BY <1>2 DEF NoLineInv
<1>3. CASE Beside
  BY <1>3 DEF Beside, runVars, NoLineInv
<1>4. CASE Quiet /\ ~EnsureIgnored
  <2>1. pc' # "ignoring"
    BY <1>4 DEF Quiet, CleanUp, PreflightRefuses, PreflightPasses, BaselineClones, CommitIgnored,
       CheckBeforePush, PushBranch, EnsurePR, BeginReview, ReviewFails, ReviewEnds,
       CheckBeforeCommit, PushTests, Outcome, BeginValidation, ValidationChooses,
       ValidationClones, Finish, MarkReady, RecordStop, ReviewerWrites, Raise, RoundStops,
       RaiseStop, GoTo, Calm, CalmBut
  <2> QED BY <2>1 DEF NoLineInv
<1>5. CASE \/ \E d \in BOOLEAN : StartRun(d)
           \/ AtRest \/ BaselineEnds \/ Bookkeeping \/ CommitTests \/ RecordRound \/ Validates
  <2>1. pc' # "ignoring"
    BY <1>5, StartDoes, RestSteps, BaselineDoes, BookingDoes, CommitDoes, RecordDoes,
       ValidationDoes
  <2> QED BY <2>1 DEF NoLineInv
<1> QED BY <1>1, <1>2, <1>3, <1>4, <1>5, StepKinds

\* Every step keeps the round just recorded the last one, and what is validated approved.
LEMMA LastKept ==
    ASSUME IInv, NoLineInv, RoundInv, LastInv, [Next]_vars
    PROVE  LastInv'
<1>0. /\ local \in Seq(Commit) /\ st \in State /\ st.rounds \in Seq(Round) /\ resume \in BOOLEAN
      /\ round \in InProgress
  BY StateFields DEF IInv, TypeOK, RepoTypes, StateTypes, RunTypes
<1>a. ASSUME st'.rounds = st.rounds, UNCHANGED <<ctxHead, round, resume>>,
             pc' \in {"push_tests", "tests_push", "outcome"} =>
                pc \in {"push_tests", "tests_push", "outcome"},
             pc' \in Validating => pc \in Validating,
             pc' \in Opening => pc \in Opening
      PROVE  LastInv'
  BY <1>a DEF LastInv, RoundSaved, Approved, HeadAfter
<1>b. ASSUME pc' \notin Validating \cup Opening \cup {"push_tests", "tests_push", "outcome"}
      PROVE  LastInv'
  BY <1>b DEF LastInv
<1>1. CASE CommitIgnored
  <2>1. pc' \in {"stopping", "pushing"} /\ resume' # TRUE
    BY <1>1 DEF CommitIgnored, RaiseStop, GoTo, NoLineInv
  <2> QED BY <2>1 DEF LastInv, Opening, Validating
<1>2. CASE EnsurePR
  <2>1. /\ pc = "pushed" /\ pc' \in {"approved", "review", "stopping"}
        /\ UNCHANGED <<resume, round, ctxHead>>
        /\ pc' = "approved" => resume = TRUE
    BY <1>0, <1>2 DEF EnsurePR, RaiseStop, GoTo
  <2>2. st'.rounds = st.rounds
    BY <1>2, QuietSteps DEF Quiet, SameReview
  <2> QED BY <2>1, <2>2 DEF LastInv, Opening, Validating, Approved
<1>3. CASE Outcome
  <2>1. /\ pc = "outcome" /\ pc' \in {"approved", "closing"}
        /\ UNCHANGED <<resume, round, ctxHead>>
        /\ pc' = "approved" => round.verdict = "APPROVE"
    BY <1>3 DEF Outcome, Save, GoTo
  <2>2. st'.rounds = st.rounds
    BY <1>3, QuietSteps DEF Quiet, SameReview
  <2>3. RoundSaved(st, round) /\ ctxHead = HeadAfter(round)
    BY <2>1 DEF LastInv, RoundInv
  <2>4. pc' = "approved" => Approved(st', ctxHead')
    BY <2>1, <2>2, <2>3 DEF RoundSaved, Approved, HeadAfter
  <2> QED BY <2>1, <2>4 DEF LastInv, Opening, Validating
<1>4. CASE Quiet /\ ~CommitIgnored /\ ~EnsurePR /\ ~Outcome
  <2>1. CASE PreflightPasses \/ ReviewEnds
    BY <1>b, <2>1 DEF PreflightPasses, ReviewEnds, GoTo, Opening, Validating
  <2>2. CASE ~PreflightPasses /\ ~ReviewEnds
    <3>1. UNCHANGED <<ctxHead, round, resume>> /\ st'.rounds = st.rounds
      BY <1>4, <2>2, QuietAlone, QuietSteps DEF SameReview
    <3>2. /\ pc' \in {"push_tests", "tests_push", "outcome"} =>
                pc \in {"push_tests", "tests_push", "outcome"}
          /\ pc' \in Validating => pc \in Validating
          /\ pc' \in Opening => pc \in Opening
      BY <1>4, <2>2 DEF Quiet, Validating, Opening, CleanUp, PreflightRefuses, PreflightPasses,
         BaselineClones, EnsureIgnored, CommitIgnored, CheckBeforePush, PushBranch, EnsurePR,
         BeginReview, ReviewFails, ReviewEnds, CheckBeforeCommit, PushTests, Outcome,
         BeginValidation, ValidationChooses, ValidationClones, Finish, MarkReady, RecordStop,
         ReviewerWrites, Raise, RoundStops, RaiseStop, GoTo, Calm, CalmBut
    <3> QED BY <1>a, <3>1, <3>2
  <2> QED BY <2>1, <2>2
<1>5. CASE Bookkeeping
  <2>1. pc' \in {"stopping", "closing", "pr"} /\ ctxHead' = ctxHead
        /\ (pc' # "stopping" /\ resume' = TRUE => Approved(st', ctxHead))
    BY <1>5, BookingDoes DEF Approved, Bookkeeping
  <2> QED BY <2>1 DEF LastInv, Opening, Validating
<1>6. CASE RecordRound
  <2> DEFINE n == [verdict |-> round.verdict, head_sha |-> round.head_sha,
                   test_commit |-> round.test_commit]
  <2>1. /\ pc' \in {"push_tests", "tests_push", "outcome"} /\ st'.rounds = Append(st.rounds, n)
        /\ round' = round
    BY <1>6, RecordDoes
  <2>2. st'.rounds # <<>> /\ Last(st'.rounds) = n
    <3>1. st.rounds \in Seq(Round) /\ n \in Round
      BY <1>0 DEF InProgress, Round
    <3> HIDE DEF n
    <3> QED BY <2>1, <3>1 DEF Last
  <2>3. RoundSaved(st', round')
    BY <2>1, <2>2 DEF RoundSaved
  <2> QED BY <2>1, <2>3 DEF LastInv, Opening, Validating
<1>7. CASE Validates
  BY <1>7, <1>a, ValidationDoes DEF Opening, Validating
<1>8. CASE Beside
  BY <1>8, <1>a DEF Beside, runVars
<1>9. CASE (\E d \in BOOLEAN : StartRun(d)) \/ AtRest \/ BaselineEnds \/ CommitTests
  BY <1>9, <1>b, StartDoes, RestSteps, BaselineDoes, CommitDoes DEF Opening, Validating
<1> QED BY <1>1, <1>2, <1>3, <1>4, <1>5, <1>6, <1>7, <1>8, <1>9, StepKinds

\* From the pull request to the verdict.
Reviewing == {"review", "reviewing", "abandon", "commit", "committing"}

\* The reviewer's commit is made and not pushed yet.
Unpublished == pc = "record" /\ round.test_commit # 0

\* What is reviewed and validated is what the state names, and what was pushed, if the author
\* leaves HEAD alone between the check and the push.
PushedInv ==
    /\ TreeIsOurs =>
          (pc \in {"pushed", "record", "outcome"} \cup Reviewing \cup Validating /\ ~Unpublished
             => remote # <<>> /\ HeadOf(remote) = ctxHead)
    /\ pc \in {"record", "outcome"} \cup Reviewing \cup Validating /\ ~Unpublished =>
          st.head_sha = ctxHead

\* Every step keeps what is believed in pushed.
LEMMA PushedKept ==
    ASSUME IInv, BranchInv, RoundInv, TreeIsOurs => WindowInv, PushedInv, [Next]_vars
    PROVE  PushedInv'
<1> DEFINE P1 == {"pushed", "record", "outcome"} \cup Reviewing \cup Validating
           P2 == {"record", "outcome"} \cup Reviewing \cup Validating
<1>0. /\ local \in Seq(Commit) /\ local # <<>> /\ st \in State /\ disk \in State \cup {NoState}
      /\ round \in InProgress
      /\ nextId > 0
  BY DEF IInv, TypeOK, RepoTypes, StateTypes, BranchInv
<1>a. ASSUME st'.head_sha = st.head_sha, UNCHANGED <<ctxHead, remote>>,
             pc' \in P1 /\ ~Unpublished' => pc \in P1 /\ ~Unpublished,
             pc' \in P2 /\ ~Unpublished' => pc \in P2 /\ ~Unpublished
      PROVE  PushedInv'
  BY <1>a DEF PushedInv, HeadOf
<1>b. ASSUME pc' \notin P1
      PROVE  PushedInv'
  BY <1>b DEF PushedInv
<1>1. CASE PushBranch
  <2>1. CASE pc' = "pushed"
    <3>1. remote' = local /\ (TreeIsOurs => Head_ = ctxHead) /\ ctxHead' = ctxHead
      BY <1>1, <2>1 DEF PushBranch, RaiseStop, GoTo, WindowInv, Windows
    <3> QED BY <1>0, <2>1, <3>1 DEF PushedInv, Head_, HeadOf, Reviewing, Validating
  <2>2. CASE pc' # "pushed"
    BY <1>1, <1>b, <2>2 DEF PushBranch, RaiseStop, GoTo, Reviewing, Validating
  <2> QED BY <2>1, <2>2
<1>2. CASE EnsurePR
  <2>1. CASE pc' = "stopping"
    BY <1>b, <2>1 DEF Reviewing, Validating
  <2>2. CASE pc' # "stopping"
    <3>1. /\ pc = "pushed" /\ pc' \in {"approved", "review"} /\ UNCHANGED <<ctxHead, remote>>
          /\ disk' = [st EXCEPT !.force_push = FALSE, !.pr_number = 1]
          /\ st' = [disk' EXCEPT !.head_sha = ctxHead]
      BY <1>2, <2>2 DEF EnsurePR, RaiseStop, GoTo
    <3>2. disk' \in State
      BY <1>0, <3>1 DEF State
    <3>3. st'.head_sha = ctxHead
      BY <3>1, <3>2 DEF State
    <3> QED BY <3>1, <3>3 DEF PushedInv, HeadOf, Unpublished
  <2> QED BY <2>1, <2>2
<1>3. CASE PushTests
  <2>1. CASE pc' = "outcome"
    <3>1. /\ pc = "tests_push" /\ remote' = local /\ (TreeIsOurs => Head_ = ctxHead)
          /\ UNCHANGED <<ctxHead, round>>
          /\ st' = [st EXCEPT !.head_sha = round.test_commit]
      BY <1>3, <2>1 DEF PushTests, RaiseStop, GoTo, WindowInv, Windows
    <3>2. st'.head_sha = round.test_commit
      BY <1>0, <3>1 DEF State
    <3>3. ctxHead = round.test_commit
      BY <3>1 DEF RoundInv, HeadAfter
    <3> QED BY <1>0, <3>1, <3>2, <3>3 DEF PushedInv, Head_, HeadOf
  <2>2. CASE pc' # "outcome"
    BY <1>3, <1>b, <2>2 DEF PushTests, RaiseStop, GoTo, Reviewing, Validating
  <2> QED BY <2>1, <2>2
<1>4. CASE PreflightPasses \/ EnsureIgnored \/ CommitIgnored \/ CheckBeforePush
  BY <1>4, <1>b DEF PreflightPasses, EnsureIgnored, CommitIgnored, CheckBeforePush, RaiseStop,
     GoTo, Reviewing, Validating
<1>5. CASE ReviewEnds
  BY <1>5 DEF ReviewEnds, GoTo, PushedInv, Reviewing, Validating, Unpublished, HeadOf
<1>6. CASE Quiet /\ ~PushBranch /\ ~EnsurePR /\ ~PushTests /\ ~PreflightPasses /\ ~EnsureIgnored
             /\ ~CommitIgnored /\ ~CheckBeforePush /\ ~ReviewEnds
  <2>1. UNCHANGED <<ctxHead, round, remote>>
    BY <1>6, QuietAlone
  <2>2. st'.head_sha = st.head_sha
    <3>1. CASE PreflightRefuses \/ BaselineClones \/ CheckBeforeCommit \/ ValidationChooses
                 \/ ValidationClones \/ MarkReady \/ ReviewerWrites \/ Raise
      BY <3>1 DEF PreflightRefuses, BaselineClones, CheckBeforeCommit, ValidationChooses,
         ValidationClones, MarkReady, ReviewerWrites, Raise, runVars
    <3>2. CASE CleanUp
      BY <1>0, <3>2 DEF CleanUp, Save, SessionForgotten, State
    <3>3. CASE BeginReview
      BY <1>0, <3>3 DEF BeginReview, Save, State
    <3>4. CASE ReviewFails
      BY <1>0, <3>4 DEF ReviewFails, RoundStops, Save, SessionForgotten, State
    <3>5. CASE Outcome
      BY <1>0, <3>5 DEF Outcome, Save, SetStage, State
    <3>6. CASE BeginValidation
      BY <1>0, <3>6 DEF BeginValidation, Save, State
    <3>7. CASE Finish
      BY <1>0, <3>7 DEF Finish, Save, SetStage, State
    <3>8. CASE RecordStop
      BY <1>0, <3>8 DEF RecordStop, Save, SetStage, State
    <3> QED BY <1>6, <3>1, <3>2, <3>3, <3>4, <3>5, <3>6, <3>7, <3>8 DEF Quiet
  <2>3. (pc' \in P1 => pc \in P1 \ {"record"}) /\ (pc' \in P2 => pc \in P2 \ {"record"})
    BY <1>6 DEF Quiet, Reviewing, Validating, Unpublished, CleanUp, PreflightRefuses,
       PreflightPasses, BaselineClones, EnsureIgnored, CommitIgnored, CheckBeforePush,
       PushBranch, EnsurePR, BeginReview, ReviewFails, ReviewEnds, CheckBeforeCommit, PushTests,
       Outcome, BeginValidation, ValidationChooses, ValidationClones, Finish, MarkReady,
       RecordStop, ReviewerWrites, Raise, RoundStops, RaiseStop, GoTo, Calm, CalmBut
  <2> QED BY <1>a, <2>1, <2>2, <2>3 DEF Unpublished
<1>7. CASE CommitTests
  <2>1. CASE pc' = "record"
    <3>1. round'.test_commit = nextId /\ nextId # 0
      BY <1>0, <1>7, <2>1, CommitDoes
    <3> QED BY <2>1, <3>1 DEF PushedInv, Unpublished, Reviewing, Validating
  <2>2. CASE pc' # "record"
    BY <1>7, <1>b, <2>2, CommitDoes DEF Reviewing, Validating
  <2> QED BY <2>1, <2>2
<1>8. CASE RecordRound
  <2>1. /\ pc = "record" /\ pc' = IF round.test_commit # 0 THEN "push_tests" ELSE "outcome"
        /\ st'.head_sha = st.head_sha /\ UNCHANGED <<ctxHead, remote, round>>
    BY <1>8, RecordDoes
  <2>2. CASE round.test_commit # 0
    BY <1>b, <2>1, <2>2 DEF Reviewing, Validating
  <2>3. CASE round.test_commit = 0
    BY <1>a, <2>1, <2>3 DEF Unpublished
  <2> QED BY <2>2, <2>3
<1>9. CASE Validates
  BY <1>9, <1>a, ValidationDoes DEF Reviewing, Validating, Unpublished
<1>10. CASE Beside
  BY <1>10, <1>a DEF Beside, runVars, Unpublished
<1>11. CASE (\E d \in BOOLEAN : StartRun(d)) \/ AtRest \/ BaselineEnds \/ Bookkeeping
  BY <1>11, <1>b, StartDoes, RestSteps, BaselineDoes, BookingDoes DEF Reviewing, Validating
<1> QED BY <1>1, <1>2, <1>3, <1>4, <1>5, <1>6, <1>7, <1>8, <1>9, <1>10, <1>11, StepKinds

\* On the HEAD believed in the suite passed, or only the reviewer's commits came since it did:
\* this is what a validation that skips the suite goes by.
CoverInv ==
    pc \in {"cloning", "validating"} /\ HasSuite /\ suite # TRUE =>
        Covered(local, passed, ctxHead)

\* A reused baseline turns into coverage of HEAD, because it is on the branch, no younger than
\* HEAD, and only the reviewer's commits follow it.
LEMMA ReusableCovers ==
    ASSUME IInv, BranchInv, SoundInv, AgeInv, pc \in SinceBaseline, BaselineReusable(st)
    PROVE  Covered(local, passed, ctxHead) /\ ReuseBaseline /\ st.baseline_sha \in passed
<1>0. local \in Seq(Commit) /\ ctxHead \in Nat /\ st.baseline_sha \in Nat
  BY DEF IInv, TypeOK, RepoTypes, StateTypes, RunTypes, State
<1>1. PICK k \in DOMAIN local : local[k].id = st.baseline_sha
  BY DEF BaselineReusable, HeadContains, Ids
<1>2. /\ ReuseBaseline /\ st.baseline_sha \in passed /\ st.baseline_sha <= ctxHead
      /\ \A j \in DOMAIN local : k < j => local[j].by = "reviewer"
  BY <1>1 DEF BaselineReusable, SoundInv, Sound, AgeInv
<1> SUFFICES ASSUME NEW i \in DOMAIN local, local[i].id = ctxHead
             PROVE  \E m \in 1 .. i :
                       local[m].id \in passed /\ \A j \in m + 1 .. i : local[j].by = "reviewer"
  BY <1>2 DEF Covered
<1>3. DOMAIN local = 1 .. Len(local) /\ Len(local) \in Nat
  BY <1>0
<1>4. k <= i
  <2>1. i < k => local[i].id < local[k].id
    BY DEF BranchInv
  <2> QED BY <1>0, <1>1, <1>2, <1>3, <2>1
<1>5. k \in 1 .. i /\ \A j \in k + 1 .. i : j \in DOMAIN local /\ k < j
  BY <1>3, <1>4
<1> QED BY <1>1, <1>2, <1>5

\* Every step keeps it: the suite is left out before the sandbox clones, on what
\* baseline_reusable sees then.
LEMMA CoverKept ==
    ASSUME IInv, BranchInv, SoundInv, AgeInv, CoverInv, [Next]_vars
    PROVE  CoverInv'
<1>0. /\ local \in Seq(Commit) /\ nextId \in Nat /\ local' \in Seq(Commit)
      /\ Continues(local, nextId, local') /\ ctxHead < nextId /\ suite \in BOOLEAN
  BY NextContinues DEF BranchInv, IInv, TypeOK, RunTypes
<1>1. CASE ValidationChooses
  <2>1. /\ pc = "validate" /\ suite' = (HasSuite /\ ~BaselineReusable(st))
        /\ UNCHANGED <<local, passed, ctxHead>>
    BY <1>1 DEF ValidationChooses, repoVars, history
  <2>2. HasSuite /\ suite' # TRUE => BaselineReusable(st)
    BY <2>1
  <2>3. BaselineReusable(st) => Covered(local, passed, ctxHead)
    BY <2>1, ReusableCovers DEF SinceBaseline
  <2> QED BY <2>1, <2>2, <2>3 DEF CoverInv
<1>2. CASE ValidationClones
  <2>1. pc = "cloning" /\ UNCHANGED <<local, passed, ctxHead, suite>>
    BY <1>2 DEF ValidationClones, Calm
  <2> QED BY <2>1 DEF CoverInv
<1>3. CASE Beside
  <2>1. UNCHANGED <<pc, ctxHead, suite, passed>>
    BY <1>3 DEF Beside, runVars, history
  <2>2. Covered(local, passed, ctxHead) => Covered(local', passed, ctxHead)
    BY <1>0, CoverPersists
  <2> QED BY <2>1, <2>2 DEF CoverInv
<1>4. CASE Quiet /\ ~ValidationChooses /\ ~ValidationClones
  <2>1. pc' \notin {"cloning", "validating"}
    BY <1>4 DEF Quiet, CleanUp, PreflightRefuses, PreflightPasses, BaselineClones, EnsureIgnored,
       CommitIgnored, CheckBeforePush, PushBranch, EnsurePR, BeginReview, ReviewFails, ReviewEnds,
       CheckBeforeCommit, PushTests, Outcome, BeginValidation, Finish, MarkReady, RecordStop,
       ReviewerWrites, Raise, RoundStops, RaiseStop, GoTo, Calm, CalmBut
  <2> QED BY <2>1 DEF CoverInv
<1>5. CASE \/ \E d \in BOOLEAN : StartRun(d)
           \/ AtRest \/ BaselineEnds \/ Bookkeeping \/ CommitTests \/ RecordRound \/ Validates
  <2>1. pc' \notin {"cloning", "validating"}
    BY <1>5, StartDoes, RestSteps, BaselineDoes, BookingDoes, CommitDoes, RecordDoes,
       ValidationDoes
  <2> QED BY <2>1 DEF CoverInv
<1> QED BY <1>1, <1>2, <1>3, <1>4, <1>5, StepKinds

\* A verdict just recorded is for the HEAD believed in. A PASS is the sandbox's that cloned it,
\* unless nothing was to run; and the suite passed there, or nothing of the author's came since
\* it did.
VerdictInv ==
    pc = "validated" =>
        /\ st.validations # <<>>
        /\ Last(st.validations).round = Len(st.rounds)
        /\ Last(st.validations).result = st.last_verdict
        /\ Last(st.validations).head_sha = ctxHead
        /\ st.last_verdict = "PASS" =>
              /\ ctxHead \in cleared \/ (HasSuite => ReuseBaseline /\ st.baseline_sha \in passed)
              /\ HasSuite => Covered(local, passed, ctxHead)

\* Every step keeps it.
LEMMA VerdictKept ==
    ASSUME IInv, BranchInv, WindowInv, SoundInv, AgeInv, CoverInv, VerdictInv, [Next]_vars
    PROVE  VerdictInv'
<1>0. /\ local \in Seq(Commit) /\ nextId \in Nat /\ local' \in Seq(Commit)
      /\ Continues(local, nextId, local') /\ ctxHead < nextId /\ ctxHead \in Nat
      /\ st \in State /\ st.validations \in Seq(Validation) /\ st.rounds \in Seq(Round)
      /\ st.baseline_sha \in Nat /\ suite \in BOOLEAN
  BY NextContinues DEF BranchInv, IInv, TypeOK, StateTypes, RunTypes, State
<1>1. CASE Validates /\ pc' = "validated"
  <2> DEFINE v == [round |-> Len(st.rounds), result |-> st'.last_verdict, head_sha |-> ctxHead]
  <2>1. /\ pc \in {"validate", "validating"} /\ st'.last_verdict \in Results
        /\ st'.rounds = st.rounds /\ st'.baseline_sha = st.baseline_sha
        /\ st'.validations = Append(st.validations, v)
        /\ UNCHANGED <<local, ctxHead>>
    BY <1>1, ValidationDoes
  <2>2. st'.validations # <<>> /\ Last(st'.validations) = v
    <3>1. v \in Validation
      BY <1>0, <2>1 DEF Validation
    <3>2. st.validations \in Seq(Validation) /\ st'.validations = Append(st.validations, v)
      BY <1>0, <2>1
    <3> HIDE DEF v
    <3> QED BY <3>1, <3>2 DEF Last
  <2>3. ASSUME st'.last_verdict = "PASS"
        PROVE  /\ \/ ctxHead \in cleared'
                  \/ HasSuite => ReuseBaseline /\ st.baseline_sha \in passed'
               /\ HasSuite => Covered(local, passed', ctxHead)
    <3>1. CASE pc = "validating"
      <4>1. tested = ctxHead
        BY <3>1 DEF WindowInv
      <4>2. /\ passed' = IF suite THEN passed \cup {tested} ELSE passed
            /\ cleared' = cleared \cup {tested}
        BY <1>1, <2>3, <3>1, ValidationDoes
      <4>3. CASE suite = TRUE
        <5>1. ctxHead \in passed'
          BY <4>1, <4>2, <4>3
        <5>2. \A i \in DOMAIN local : i \in 1 .. i /\ \A j \in i + 1 .. i : FALSE
          BY <1>0
        <5>3. Covered(local, passed', ctxHead)
          BY <5>1, <5>2 DEF Covered
        <5> QED BY <4>1, <4>2, <5>3
      <4>4. CASE suite # TRUE
        <5>1. HasSuite => Covered(local, passed, ctxHead)
          BY <3>1, <4>4 DEF CoverInv
        <5>2. passed' = passed
          BY <1>0, <4>2, <4>4
        <5> QED BY <4>1, <4>2, <5>1, <5>2
      <4> QED BY <4>3, <4>4
    <3>2. CASE pc = "validate"
      <4>1. passed' = passed /\ (HasSuite => BaselineReusable(st))
        BY <1>1, <3>2, ValidationDoes
      <4>2. BaselineReusable(st) => /\ Covered(local, passed, ctxHead)
                                    /\ ReuseBaseline /\ st.baseline_sha \in passed
        BY <3>2, ReusableCovers DEF SinceBaseline
      <4> QED BY <4>1, <4>2
    <3> QED BY <2>1, <3>1, <3>2
  <2> QED BY <2>1, <2>2, <2>3 DEF VerdictInv
<1>2. CASE Beside
  <2>1. UNCHANGED <<st, pc, ctxHead, passed, cleared>>
    BY <1>2 DEF Beside, runVars, history
  <2>2. Covered(local, passed, ctxHead) => Covered(local', passed, ctxHead)
    BY <1>0, CoverPersists
  <2> QED BY <2>1, <2>2 DEF VerdictInv
<1>3. CASE Quiet
  <2>1. pc' # "validated"
    BY <1>3 DEF Quiet, CleanUp, PreflightRefuses, PreflightPasses, BaselineClones,
       EnsureIgnored, CommitIgnored, CheckBeforePush, PushBranch, EnsurePR, BeginReview,
       ReviewFails, ReviewEnds, CheckBeforeCommit, PushTests, Outcome, BeginValidation,
       ValidationChooses, ValidationClones, Finish, MarkReady, RecordStop, ReviewerWrites, Raise,
       RoundStops, RaiseStop, GoTo, Calm, CalmBut
  <2> QED BY <2>1 DEF VerdictInv
<1>4. CASE ~Beside /\ ~Quiet /\ ~(Validates /\ pc' = "validated")
  <2>1. pc' # "validated"
    BY <1>4, StartDoes, RestSteps, BaselineDoes, BookingDoes, CommitDoes, RecordDoes, StepKinds
  <2> QED BY <2>1 DEF VerdictInv
<1> QED BY <1>1, <1>2, <1>3, <1>4

\* A run without a result has none on disk either.
LEMMA RunningExit ==
    ASSUME ReportInv, pc \notin {"idle", "mark_ready", "closing", "stopping", "recorded"}
    PROVE  st.last_exit = -1 /\ disk.last_exit = -1 /\ ~Ready
  BY DEF ReportInv, NoResultYet, Ready

\* READY TO MERGE is written by Finish only, and nothing is pushed while it is on disk.
LEMMA ReadyComes ==
    ASSUME IInv, ReportInv, [Next]_vars, ~Finish, Ready'
    PROVE  Ready /\ disk' = disk /\ remote' = remote
<1>0. st \in State /\ disk \in State \cup {NoState} /\ (pc # "idle" => disk \in State)
  BY DEF IInv, TypeOK, StateTypes, LiveState
<1>r. disk' # NoState /\ disk'.stage = "ready_to_merge" /\ disk'.last_exit = 0
  BY DEF Ready, Recorded
<1>a. ASSUME disk' = disk PROVE Ready
  BY <1>a, <1>r DEF Ready, Recorded
<1>1. ASSUME NEW d \in BOOLEAN, StartRun(d) PROVE FALSE
  BY <1>1, <1>r, StartDoes
<1>2. CASE Quiet
  <2>1. CASE RecordStop
    <3>1. disk'.stage = StageForExit(stop)
      BY <1>0, <2>1 DEF RecordStop, Save, SetStage, State
    <3> QED BY <1>r, <3>1 DEF StageForExit
  <2>2. CASE Outcome
    <3>1. st.last_exit = -1
      BY <2>2, RunningExit DEF Outcome
    <3>2. disk' = st \/ disk' = SetStage(st, "needs_action", 2)
      BY <2>2 DEF Outcome, Save
    <3>3. disk'.last_exit # 0
      <4>1. SetStage(st, "needs_action", 2).last_exit = 2
        BY <1>0 DEF SetStage, State
      <4> QED BY <3>1, <3>2, <4>1
    <3> QED BY <1>r, <3>3
  <2>3. CASE CleanUp \/ EnsureIgnored \/ BeginReview \/ ReviewFails \/ BeginValidation
    <3>1. pc \in {"started", "pr", "review", "reviewing", "abandon", "approved"}
      BY <2>3 DEF CleanUp, EnsureIgnored, BeginReview, ReviewFails, BeginValidation
    <3>2. st.last_exit = -1 /\ disk.last_exit = -1
      BY <3>1, RunningExit
    <3>3. disk'.last_exit = st.last_exit \/ disk' = disk
      <4>1. CASE CleanUp
        BY <1>0, <4>1 DEF CleanUp, Save, SessionForgotten, State
      <4>2. CASE EnsureIgnored
        BY <1>0, <4>2 DEF EnsureIgnored, Save, State
      <4>3. CASE BeginReview
        BY <1>0, <4>3 DEF BeginReview, Save, State
      <4>4. CASE ReviewFails
        BY <1>0, <4>4 DEF ReviewFails, RoundStops, Save, SessionForgotten, State
      <4>5. CASE BeginValidation
        BY <1>0, <4>5 DEF BeginValidation, Save, State
      <4> QED BY <2>3, <4>1, <4>2, <4>3, <4>4, <4>5
    <3> QED BY <1>r, <3>2, <3>3
  <2>4. CASE EnsurePR
    <3>1. st.last_exit = -1
      BY <2>4, RunningExit DEF EnsurePR
    <3>2. disk'.last_exit = st.last_exit
      BY <1>0, <2>4 DEF EnsurePR, Save, State
    <3> QED BY <1>r, <3>1, <3>2
  <2>5. CASE PushBranch \/ PushTests
    <3>1. disk' = disk /\ ~Ready
      BY <2>5, RunningExit DEF PushBranch, PushTests, RaiseStop, GoTo
    <3> QED BY <1>a, <3>1
  <2>6. CASE ~RecordStop /\ ~Outcome /\ ~EnsurePR /\ ~PushBranch /\ ~PushTests
             /\ ~(CleanUp \/ EnsureIgnored \/ BeginReview \/ ReviewFails \/ BeginValidation)
    <3>1. disk' = disk
      BY <1>2, <2>6 DEF Quiet, PreflightRefuses, PreflightPasses, BaselineClones, CommitIgnored,
         CheckBeforePush, ReviewEnds, CheckBeforeCommit,
         ValidationChooses, ValidationClones, MarkReady, ReviewerWrites, Raise
    <3>2. remote' = remote
      BY <1>2, <2>6, QuietAlone
    <3> QED BY <1>a, <3>1, <3>2
  <2> QED BY <2>1, <2>2, <2>3, <2>4, <2>5, <2>6
<1>3. CASE AtRest
  <2>1. disk' = disk
    BY <1>3, <1>r, RestSteps
  <2>2. remote' = remote
    BY <1>3 DEF AtRest, Exit, Die, StopLive, StopDead, Reset, repoVars
  <2> QED BY <1>a, <2>1, <2>2
<1>4. CASE BaselineEnds \/ CommitTests \/ RecordRound \/ Validates
  <2>1. st.last_exit = -1 /\ disk.last_exit = -1
    BY <1>4, RunningExit DEF BaselineEnds, CommitTests, RecordRound, Validates, NothingToRun,
       ValidationEnds
  <2>2. disk' = disk \/ disk'.last_exit = st.last_exit
    BY <1>4, BaselineDoes, CommitDoes, RecordDoes, ValidationDoes
  <2> QED BY <1>r, <2>1, <2>2
<1>5. CASE Bookkeeping
  <2>1. disk' = disk \/ disk'.stage = "preflight"
    BY <1>5, BookingDoes
  <2>2. remote' = remote
    BY <1>5 DEF Bookkeeping
  <2> QED BY <1>a, <1>r, <2>1, <2>2
<1>6. CASE Beside
  BY <1>6, <1>a DEF Beside
<1> QED BY <1>1, <1>2, <1>3, <1>4, <1>5, <1>6, StepKinds

\* READY TO MERGE on disk: an approval, its validation, the push and the suite are of one
\* HEAD.
ReadyInv ==
    Ready =>
        /\ Approved(disk, disk.head_sha)
        /\ disk.validations # <<>>
        /\ Last(disk.validations).result = "PASS"
        /\ Last(disk.validations).round = Len(disk.rounds)
        /\ Last(disk.validations).head_sha = disk.head_sha
        /\ remote # <<>> /\ disk.head_sha = HeadOf(remote)
        /\ disk.head_sha < nextId
        /\ \/ disk.head_sha \in cleared
           \/ HasSuite => ReuseBaseline /\ disk.baseline_sha \in passed
        /\ HasSuite => Covered(local, passed, disk.head_sha)

\* Every step keeps it, as long as it is on disk.
LEMMA ReadyKept ==
    ASSUME TreeIsOurs, IInv, BranchInv, ReportInv, LastInv, PushedInv, VerdictInv, ReadyInv,
           [Next]_vars
    PROVE  ReadyInv'
<1>0. /\ local \in Seq(Commit) /\ nextId \in Nat /\ local' \in Seq(Commit) /\ nextId <= nextId'
      /\ nextId' \in Nat
      /\ Continues(local, nextId, local') /\ ctxHead < nextId /\ st \in State
      /\ disk \in State \cup {NoState}
  BY NextContinues DEF BranchInv, IInv, TypeOK, StateTypes, RunTypes, State
<1>1. CASE Finish
  <2> SUFFICES ASSUME Ready' PROVE ReadyInv'
    BY DEF ReadyInv
  <2>1. /\ pc = "validated" /\ UNCHANGED <<local, nextId, remote, passed, cleared, ctxHead>>
        /\ st.last_verdict = "PASS" => disk' = SetStage(st, "ready_to_merge", 0)
        /\ st.last_verdict # "PASS" => disk' = SetStage(st, "needs_action", 2)
    BY <1>1 DEF Finish, Save, CalmBut
  <2>2. st.last_verdict = "PASS"
    <3>1. SetStage(st, "needs_action", 2).last_exit = 2
      BY <1>0 DEF SetStage, State
    <3> QED BY <2>1, <3>1 DEF Ready
  <2>3. disk'.rounds = st.rounds /\ disk'.validations = st.validations
        /\ disk'.head_sha = st.head_sha /\ disk'.baseline_sha = st.baseline_sha
    BY <1>0, <2>1, <2>2 DEF SetStage, State
  <2>4. /\ Approved(st, ctxHead) /\ remote # <<>> /\ HeadOf(remote) = ctxHead
        /\ st.head_sha = ctxHead
    BY <2>1 DEF LastInv, PushedInv, Validating, Unpublished, TreeIsOurs
  <2>5. /\ st.validations # <<>>
        /\ Last(st.validations).round = Len(st.rounds)
        /\ Last(st.validations).result = "PASS"
        /\ Last(st.validations).head_sha = ctxHead
        /\ ctxHead \in cleared \/ (HasSuite => ReuseBaseline /\ st.baseline_sha \in passed)
        /\ HasSuite => Covered(local, passed, ctxHead)
    BY <2>1, <2>2 DEF VerdictInv
  <2> QED BY <1>0, <2>1, <2>3, <2>4, <2>5 DEF ReadyInv, Approved, HeadOf
<1>2. CASE ~Finish
  <2> SUFFICES ASSUME Ready' PROVE ReadyInv'
    BY DEF ReadyInv
  <2>1. Ready /\ disk' = disk /\ remote' = remote
    BY <1>2, ReadyComes
  <2>2. passed \subseteq passed' /\ cleared \subseteq cleared'
    BY HistoryGrows
  <2>3. disk.head_sha \in Nat /\ disk.head_sha < nextId
    BY <1>0, <2>1 DEF ReadyInv, Ready, Recorded, State
  <2>4. HasSuite => Covered(local', passed', disk.head_sha)
    BY <1>0, <2>1, <2>2, <2>3, CoverPersists DEF ReadyInv
  <2> QED BY <1>0, <2>1, <2>2, <2>3, <2>4 DEF ReadyInv, Approved, HeadOf
<1> QED BY <1>1, <1>2

\* What the theorems under TreeIsOurs rest on.
SettledInv ==
    /\ BranchInv /\ ReportInv /\ WindowInv /\ RoundInv /\ LineInv /\ FitInv /\ SoundInv
    /\ AgeInv /\ NoLineInv /\ LastInv /\ PushedInv /\ CoverInv /\ VerdictInv /\ ReadyInv

\* It holds at the start.
LEMMA SettledInit ==
    ASSUME Init
    PROVE  SettledInv
<1>1. /\ local = <<[id |-> 1, by |-> "author"]>> /\ nextId = 2 /\ ctxHead = 0 /\ pc = "idle"
      /\ disk = NoState /\ st = FreshState /\ tested = 0 /\ lastEnd = "none"
  BY DEF Init
<1>2. BranchInv
  BY <1>1 DEF BranchInv
<1>3. ReportInv /\ WindowInv /\ RoundInv /\ LineInv /\ FitInv
  BY <1>1 DEF ReportInv, NoResultYet, DeathIsReported, Recorded, WindowInv, Windows, RoundInv,
     LineInv, Lined, FitInv
<1>4. SoundInv
  <2>1. FreshState.rounds = <<>> /\ FreshState.baseline_sha = 0
    BY DEF FreshState
  <2> QED BY <1>1, <2>1 DEF SoundInv, Sound
<1>5. AgeInv /\ NoLineInv /\ LastInv /\ PushedInv /\ CoverInv /\ VerdictInv /\ ReadyInv
  BY <1>1 DEF AgeInv, SinceBaseline, NoLineInv, LastInv, Validating, Opening, PushedInv,
     Reviewing, CoverInv, VerdictInv, ReadyInv, Ready, Recorded
<1> QED BY <1>2, <1>3, <1>4, <1>5 DEF SettledInv

\* Every step keeps it.
LEMMA SettledKept ==
    ASSUME TreeIsOurs, IInv, SettledInv, [Next]_vars
    PROVE  SettledInv'
<1>1. /\ BranchInv /\ ReportInv /\ WindowInv /\ RoundInv /\ LineInv /\ FitInv /\ SoundInv
      /\ AgeInv /\ NoLineInv /\ LastInv /\ PushedInv /\ CoverInv /\ VerdictInv /\ ReadyInv
  BY DEF SettledInv
<1>2. BranchInv' /\ ReportInv' /\ RoundInv' /\ LineInv' /\ WindowInv'
  BY <1>1, BranchKept, ReportKept, RoundProgress, LineKept, WindowKept
<1>3. FitInv' /\ SoundInv' /\ AgeInv' /\ NoLineInv' /\ LastInv'
  BY <1>1, FitKept, SoundKept, AgeKept, NoLineKept, LastKept
<1>4. PushedInv' /\ CoverInv' /\ VerdictInv' /\ ReadyInv'
  BY <1>1, PushedKept, CoverKept, VerdictKept, ReadyKept
<1> QED BY <1>2, <1>3, <1>4 DEF SettledInv

\* ReadyIsEarned, for every value of the other constants: however runs were killed, stopped
\* or resumed and whatever the author did to the branch in between, READY TO MERGE is
\* recorded only for a head that was approved, pushed and validated for that very approval: in
\* a sandbox that cloned it, unless there was nothing to run.
THEOREM ReadyIsEarnedHolds ==
    ASSUME TreeIsOurs
    PROVE  Spec => []ReadyIsEarned
<1>1. Init => SettledInv
  BY SettledInit
<1>2. IInv /\ SettledInv /\ [Next]_vars => SettledInv'
  BY SettledKept
<1>3. IInv /\ SettledInv => ReadyIsEarned
  <2> SUFFICES ASSUME IInv, SettledInv, Ready PROVE ReadyIsEarned
    BY DEF ReadyIsEarned
  <2>1. ReadyInv /\ Approved(disk, disk.head_sha) /\ disk.rounds \in Seq(Round)
    BY StateFields DEF SettledInv, ReadyInv, IInv, TypeOK, StateTypes, Ready, Recorded
  <2>2. OnTop(local, Last(disk.rounds).test_commit, Last(disk.rounds).head_sha)
    <3>1. Len(disk.rounds) \in DOMAIN disk.rounds
      BY <2>1 DEF Approved
    <3> QED BY <3>1 DEF SettledInv, SoundInv, Sound, RoundFits, Last, Ready, Recorded
  <2> QED BY <2>1, <2>2 DEF ReadyInv, Approved, HeadAfter, OnTop,
                             ReadyIsEarned
<1> QED BY <1>1, <1>2, <1>3, TypesInvariant, PTL DEF Spec

\* SuiteCovered, for every value of the other constants: a reused baseline never lets an
\* author's commit through without the existing suite.
THEOREM SuiteCoveredHolds ==
    ASSUME TreeIsOurs
    PROVE  Spec => []SuiteCovered
<1>1. Init => SettledInv
  BY SettledInit
<1>2. IInv /\ SettledInv /\ [Next]_vars => SettledInv'
  BY SettledKept
<1>3. IInv /\ SettledInv => SuiteCovered
  <2> SUFFICES ASSUME IInv, SettledInv, Ready, HasSuite, disk.head_sha = Head_
               PROVE  \E i \in DOMAIN local :
                        /\ local[i].id \in passed
                        /\ \A j \in DOMAIN local : j > i => local[j].by = "reviewer"
    BY DEF SuiteCovered
  <2>1. BranchInv /\ Covered(local, passed, Head_)
    BY DEF SettledInv, ReadyInv
  <2>2. Len(local) \in DOMAIN local /\ DOMAIN local = 1 .. Len(local)
        /\ local[Len(local)].id = Head_
    BY <2>1, HeadIsLast
  <2>3. PICK k \in 1 .. Len(local) :
           local[k].id \in passed /\ \A j \in k + 1 .. Len(local) : local[j].by = "reviewer"
    BY <2>1, <2>2 DEF Covered
  <2>4. \A j \in DOMAIN local : j > k => j \in k + 1 .. Len(local)
    BY <2>2
  <2> QED BY <2>2, <2>3, <2>4
<1> QED BY <1>1, <1>2, <1>3, TypesInvariant, PTL DEF Spec

\* PushesOnlyItsOwn, for every value of the other constants: the push after a round holds the
\* reviewer's commit on top of the one it reviewed, and nothing of the author's slipped in
\* between.
THEOREM PushesOnlyItsOwnHolds ==
    ASSUME TreeIsOurs
    PROVE  Spec => PushesOnlyItsOwn
<1>1. Init => SettledInv
  BY SettledInit
<1>2. IInv /\ SettledInv /\ [Next]_vars => SettledInv'
  BY SettledKept
<1>3. IInv /\ SettledInv /\ [Next]_vars =>
        [pc = "tests_push" /\ remote' # remote =>
           /\ Len(remote') > 1
           /\ remote'[Len(remote')].id = round.test_commit
           /\ remote'[Len(remote') - 1].id = round.head_sha]_remote
  <2> SUFFICES ASSUME IInv, SettledInv, [Next]_vars, pc = "tests_push", remote' # remote
               PROVE  /\ Len(remote') > 1
                      /\ remote'[Len(remote')].id = round.test_commit
                      /\ remote'[Len(remote') - 1].id = round.head_sha
    OBVIOUS
  <2>1. PushTests
    <3>1. Quiet
      BY StartDoes, BaselineDoes, CommitDoes, BookingDoes, RecordDoes, ValidationDoes, StepKinds
         DEF AtRest, Exit, Die, StopLive, StopDead, Reset, Gone, repoVars, Beside
    <3>2. PushBranch \/ PushTests
      BY <3>1, QuietAlone
    <3> QED BY <3>2 DEF PushBranch
  <2>2. remote' = local /\ Head_ = ctxHead
    BY <2>1 DEF PushTests, SettledInv, WindowInv, Windows
  <2>3. BranchInv /\ ctxHead = round.test_commit
        /\ OnTop(local, round.test_commit, round.head_sha)
    BY DEF SettledInv, RoundInv, HeadAfter, FitInv, RoundFits
  <2>4. Len(local) \in DOMAIN local /\ local[Len(local)].id = round.test_commit
    BY <2>2, <2>3, HeadIsLast
  <2> QED BY <2>2, <2>3, <2>4 DEF OnTop
<1> QED BY <1>1, <1>2, <1>3, TypesInvariant, PTL DEF Spec, PushesOnlyItsOwn

-----------------------------------------------------------------------------
(* The promise of Review: where a run stands and what it has judged *)

\* The last round of s is an approval.
Approving(s) == s.rounds # <<>> /\ Last(s.rounds).verdict = "APPROVE"

\* No validation of s is for its last round.
Unchecked(s) == \A i \in DOMAIN s.validations : s.validations[i].round # Len(s.rounds)

\* From the stage of the review to the outcome of the round.
Judging == {"review", "reviewing", "abandon", "commit", "committing", "record", "push_tests",
            "tests_push", "outcome"}

\* A run that judges resumes nothing; the verdict just saved is the one it acts on; what is
\* validated is an approval, and an approval resumed has no result yet.
JudgedInv ==
    /\ pc \in Judging => resume = FALSE
    /\ pc \in {"push_tests", "tests_push", "outcome"} =>
          st.rounds # <<>> /\ Last(st.rounds).verdict = round.verdict
    /\ pc \in Validating => Approving(st)
    /\ resume = TRUE /\ pc \in (Opening \cup Validating) \ {"validated"} =>
          Approving(st) /\ Unchecked(st)

\* Bookkeeping resumes an approval without a result, and only that.
LEMMA BookingResumes ==
    ASSUME IInv, Bookkeeping, pc' # "stopping"
    PROVE  /\ resume' = TRUE => Approving(st') /\ Unchecked(st')
           /\ pc' = IF dry THEN "closing" ELSE "pr"
           /\ st'.last_exit = (IF dry THEN 0 ELSE st.last_exit) /\ st'.stage = "preflight"
           /\ disk' = st'
           /\ lastEnd' = IF dry THEN "result" ELSE lastEnd
<1> DEFINE b == Recovered(CountedFix(Restarted(st)))
<1>0. st \in State /\ local \in Seq(Commit)
  BY DEF IInv, TypeOK, StateTypes, RepoTypes
<1>1. b \in State /\ b.last_exit = st.last_exit
  BY <1>0, RestartedType, CountedFixType, RecoveredType, ExitCodeKept
<1>2. /\ resume' = AwaitsValidation(b) /\ disk' = st'
      /\ st' = [b EXCEPT !.head_sha = ctxHead, !.stage = "preflight",
                         !.last_exit = IF dry THEN 0 ELSE @]
      /\ pc' = IF dry THEN "closing" ELSE "pr"
      /\ lastEnd' = IF dry THEN "result" ELSE lastEnd
  BY DEF Bookkeeping, Save, GoTo, RaiseStop
<1>3. resume' = TRUE => Approving(b) /\ Unchecked(b)
  BY <1>2 DEF AwaitsValidation, Approving, Unchecked
<1> HIDE DEF b
<1>4. /\ st'.rounds = b.rounds /\ st'.validations = b.validations /\ st'.stage = "preflight"
      /\ st'.last_exit = IF dry THEN 0 ELSE b.last_exit
  BY <1>1, <1>2 DEF State
<1> QED BY <1>1, <1>2, <1>3, <1>4 DEF Approving, Unchecked

\* The last element of a sequence just appended to.
LEMMA LastOfAppend ==
    ASSUME NEW S, NEW s \in Seq(S), NEW e \in S
    PROVE  Append(s, e) # <<>> /\ Last(Append(s, e)) = e
  BY DEF Last

\* Every step keeps it, whatever the author does meanwhile.
LEMMA JudgedKept ==
    ASSUME IInv, JudgedInv, [Next]_vars
    PROVE  JudgedInv'
<1>0. /\ st \in State /\ st.rounds \in Seq(Round) /\ resume \in BOOLEAN /\ round \in InProgress
  BY StateFields DEF IInv, TypeOK, StateTypes, RunTypes
<1>a. ASSUME st'.rounds = st.rounds, st'.validations = st.validations,
             UNCHANGED <<round, resume>>,
             pc' \in Judging => pc \in Judging,
             pc' \in {"push_tests", "tests_push", "outcome"} =>
                pc \in {"push_tests", "tests_push", "outcome"},
             pc' \in Validating => pc \in Validating,
             pc' \in (Opening \cup Validating) \ {"validated"} =>
                pc \in (Opening \cup Validating) \ {"validated"}
      PROVE  JudgedInv'
  BY <1>a DEF JudgedInv, Approving, Unchecked
<1>b. ASSUME pc' \notin Judging \cup Validating \cup Opening
      PROVE  JudgedInv'
  BY <1>b DEF JudgedInv, Judging
<1>c. ASSUME Quiet PROVE st'.rounds = st.rounds /\ st'.validations = st.validations
  BY <1>c, QuietSteps DEF SameReview
<1>1. CASE EnsureIgnored \/ CommitIgnored \/ PushBranch
  <2>1. /\ pc \in {"pr", "ignoring", "branch_push"}
        /\ pc' \in {"stopping", "ignoring", "pushing", "pushed"}
        /\ UNCHANGED <<round, resume>>
    BY <1>1 DEF EnsureIgnored, CommitIgnored, PushBranch, RaiseStop, GoTo
  <2>2. Quiet
    BY <1>1 DEF Quiet
  <2> QED BY <1>a, <1>c, <2>1, <2>2 DEF Judging, Validating, Opening
<1>2. CASE EnsurePR
  <2>1. /\ pc = "pushed" /\ UNCHANGED <<round, resume>>
        /\ pc' \in {"stopping", IF resume THEN "approved" ELSE "review"}
    BY <1>2 DEF EnsurePR, RaiseStop, GoTo
  <2>2. Quiet
    BY <1>2 DEF Quiet
  <2>3. CASE pc' = "stopping"
    BY <1>b, <2>3 DEF Judging, Validating, Opening
  <2>4. CASE pc' = "approved" /\ resume = TRUE
    <3>1. Approving(st) /\ Unchecked(st)
      BY <2>1, <2>4 DEF JudgedInv, Opening
    <3> QED BY <1>c, <2>1, <2>2, <2>4, <3>1 DEF JudgedInv, Approving, Unchecked, Judging
  <2>5. CASE pc' = "review" /\ resume = FALSE
    BY <2>1, <2>5 DEF JudgedInv, Validating, Opening
  <2> QED BY <1>0, <2>1, <2>3, <2>4, <2>5
<1>3. CASE BeginReview \/ ReviewerWrites \/ ReviewFails \/ ReviewEnds \/ CheckBeforeCommit
  <2>1. /\ pc \in Judging /\ resume' = resume
        /\ pc' \in {"reviewing", "abandon", "stopping", "commit", "committing", "record"}
    BY <1>3 DEF BeginReview, ReviewerWrites, ReviewFails, ReviewEnds, CheckBeforeCommit,
       RoundStops, RaiseStop, GoTo, Calm, Judging
  <2> QED BY <2>1 DEF JudgedInv, Judging, Validating, Opening
<1>4. CASE CommitTests
  <2>1. pc = "committing" /\ pc' \in {"record", "stopping"} /\ resume' = resume
    BY <1>4, CommitDoes
  <2> QED BY <2>1 DEF JudgedInv, Judging, Validating, Opening
<1>5. CASE RecordRound
  <2> DEFINE n == [verdict |-> round.verdict, head_sha |-> round.head_sha,
                   test_commit |-> round.test_commit]
  <2>1. /\ pc = "record" /\ pc' \in {"push_tests", "tests_push", "outcome"}
        /\ UNCHANGED <<round, resume>>
        /\ st'.rounds = Append(st.rounds, n)
    BY <1>5, RecordDoes
  <2>2. n \in Round
    BY <1>0 DEF InProgress, Round
  <2>3. st'.rounds # <<>> /\ Last(st'.rounds) = n
    <3> HIDE DEF n
    <3> QED BY <1>0, <2>1, <2>2, LastOfAppend
  <2>4. Last(st'.rounds).verdict = round'.verdict
    BY <2>1, <2>3
  <2>5. resume' = FALSE
    BY <2>1 DEF JudgedInv, Judging
  <2> QED BY <2>1, <2>3, <2>4, <2>5 DEF JudgedInv, Validating, Opening
<1>6. CASE PushTests
  <2>1. /\ pc = "tests_push" /\ pc' \in {"stopping", "outcome"} /\ UNCHANGED <<round, resume>>
    BY <1>6 DEF PushTests, RaiseStop, GoTo, Calm
  <2>2. Quiet
    BY <1>6 DEF Quiet
  <2> QED BY <1>a, <1>c, <2>1, <2>2 DEF Judging, Validating, Opening
<1>7. CASE Outcome
  <2>1. /\ pc = "outcome" /\ UNCHANGED <<round, resume>>
        /\ pc' = IF round.verdict = "APPROVE" THEN "approved" ELSE "closing"
    BY <1>7 DEF Outcome, GoTo, CalmBut
  <2>2. CASE round.verdict = "APPROVE"
    <3>1. Quiet
      BY <1>7 DEF Quiet
    <3>2. Approving(st') /\ resume' = FALSE
      BY <1>c, <2>1, <2>2, <3>1 DEF JudgedInv, Approving, Judging
    <3> QED BY <2>1, <2>2, <3>2 DEF JudgedInv, Judging
  <2>3. CASE round.verdict # "APPROVE"
    BY <1>b, <2>1, <2>3 DEF Judging, Validating, Opening
  <2> QED BY <2>2, <2>3
<1>8. CASE BeginValidation \/ ValidationChooses \/ ValidationClones
  <2>1. /\ pc \in {"approved", "validate", "cloning"}
        /\ pc' \in {"stopping", "validate", "cloning", "validating"}
        /\ UNCHANGED <<round, resume>>
    BY <1>8 DEF BeginValidation, ValidationChooses, ValidationClones, RaiseStop, GoTo, Calm
  <2>2. Quiet
    BY <1>8 DEF Quiet
  <2> QED BY <1>a, <1>c, <2>1, <2>2 DEF Judging, Validating, Opening
<1>9. CASE Validates
  <2>1. /\ pc \in {"validate", "validating"} /\ pc' \in {"validated", "stopping"}
        /\ st'.rounds = st.rounds
    BY <1>9, ValidationDoes
  <2> QED BY <2>1 DEF JudgedInv, Judging, Validating, Opening, Approving
<1>10. CASE Bookkeeping
  <2>1. pc' \in {"stopping", "closing", "pr"}
    BY <1>10, BookingDoes
  <2>2. pc' = "pr" /\ resume' = TRUE => Approving(st') /\ Unchecked(st')
    BY <1>10, BookingResumes
  <2> QED BY <2>1, <2>2 DEF JudgedInv, Judging, Validating, Opening
<1>11. CASE CleanUp \/ PreflightRefuses \/ PreflightPasses \/ BaselineClones \/ Finish
            \/ MarkReady \/ RecordStop \/ Raise
  <2>1. pc' \in {"checks", "stopping", "baseline", "bookkeeping", "mark_ready", "closing",
                 "recorded"}
    BY <1>11 DEF CleanUp, PreflightRefuses, PreflightPasses, BaselineClones, Finish, MarkReady,
       RecordStop, Raise, RaiseStop, GoTo, Calm, CalmBut
  <2> QED BY <1>b, <2>1 DEF Judging, Validating, Opening
<1>12. CASE (\E d \in BOOLEAN : StartRun(d)) \/ AtRest \/ BaselineEnds
  <2>1. pc' \in {"started", "idle", "bookkeeping", "stopping"}
    BY <1>12, StartDoes, RestSteps, BaselineDoes
  <2> QED BY <1>b, <2>1 DEF Judging, Validating, Opening
<1>13. CASE Beside
  BY <1>13, <1>a DEF Beside, runVars
<1>14. CASE CheckBeforePush
  <2>1. /\ \/ pc = "pushing" /\ pc' \in {"stopping", "branch_push"}
           \/ pc = "push_tests" /\ pc' \in {"stopping", "tests_push"}
        /\ UNCHANGED <<round, resume>>
    BY <1>14 DEF CheckBeforePush, RaiseStop, GoTo, Calm
  <2>2. Quiet
    BY <1>14 DEF Quiet
  <2> QED BY <1>a, <1>c, <2>1, <2>2 DEF Judging, Validating, Opening
<1> QED BY <1>1, <1>2, <1>3, <1>4, <1>5, <1>6, <1>7, <1>8, <1>9, <1>10, <1>11, <1>12, <1>13,
   <1>14, StepKinds DEF Quiet

\* A result just recorded is the sandbox's for the last round and the HEAD believed in.
CheckedInv ==
    pc = "validated" =>
        /\ st.validations # <<>>
        /\ Last(st.validations).round = Len(st.rounds)
        /\ Last(st.validations).result = st.last_verdict
        /\ Last(st.validations).head_sha = ctxHead

\* Every step keeps it.
LEMMA CheckedKept ==
    ASSUME IInv, CheckedInv, [Next]_vars
    PROVE  CheckedInv'
<1>0. /\ st \in State /\ st.validations \in Seq(Validation) /\ st.rounds \in Seq(Round)
      /\ ctxHead \in Nat
  BY StateFields DEF IInv, TypeOK, StateTypes, RunTypes
<1>1. CASE Validates /\ pc' = "validated"
  <2> DEFINE v == [round |-> Len(st.rounds), result |-> st'.last_verdict, head_sha |-> ctxHead]
  <2>1. /\ st'.last_verdict \in Results /\ st'.rounds = st.rounds
        /\ st'.validations = Append(st.validations, v) /\ ctxHead' = ctxHead
    BY <1>1, ValidationDoes
  <2>2. v \in Validation
    BY <1>0, <2>1 DEF Validation
  <2>3. st'.validations # <<>> /\ Last(st'.validations) = v
    <3> HIDE DEF v
    <3> QED BY <1>0, <2>1, <2>2, LastOfAppend
  <2> QED BY <2>1, <2>3 DEF CheckedInv
<1>2. CASE Beside
  BY <1>2 DEF Beside, runVars, CheckedInv
<1>3. CASE Quiet
  <2>1. pc' # "validated"
    BY <1>3 DEF Quiet, CleanUp, PreflightRefuses, PreflightPasses, BaselineClones, EnsureIgnored,
       CommitIgnored, CheckBeforePush, PushBranch, EnsurePR, BeginReview, ReviewFails,
       ReviewEnds, CheckBeforeCommit, PushTests, Outcome, BeginValidation, ValidationChooses,
       ValidationClones, Finish, MarkReady, RecordStop, ReviewerWrites, Raise, RoundStops,
       RaiseStop, GoTo, Calm, CalmBut
  <2> QED BY <2>1 DEF CheckedInv
<1>4. CASE ~Beside /\ ~Quiet /\ ~(Validates /\ pc' = "validated")
  <2>1. pc' # "validated"
    BY <1>4, StartDoes, RestSteps, BaselineDoes, BookingDoes, CommitDoes, RecordDoes, StepKinds
  <2> QED BY <2>1 DEF CheckedInv
<1> QED BY <1>1, <1>2, <1>3, <1>4

\* Fixes are counted over rounds there are.
Counted(s) == s.fixes # 0 => s.rounds # <<>>

\* A run that gives up holds the review that is on disk, and asks for a person only over the
\* rounds it counted; without a live run, a death is told by the exit code alone.
StopInv ==
    /\ Counted(st) /\ (Recorded => Counted(disk))
    /\ pc = "stopping" =>
          /\ stop \in {1, 2, 3} /\ (stop = 3 => st.rounds # <<>>)
          /\ st.rounds = disk.rounds /\ st.validations = disk.validations
    /\ pc = "idle" /\ Recorded /\ RunDied(disk) => disk.last_exit = -1

\* A bookkeeping that stops the run has not started the review over: there is a fix to wait
\* for, or there are too many, and a review started over has neither.
LEMMA BookingStops ==
    ASSUME IInv, StopInv, Bookkeeping
    PROVE  /\ Counted(st')
           /\ pc' = "stopping" =>
                /\ stop' \in {2, 3} /\ st'.rounds = st.rounds /\ st'.validations = st.validations
                /\ stop' = 3 => st'.rounds # <<>>
                /\ disk' = disk /\ lastEnd' = lastEnd
<1> DEFINE r == Restarted(st)
           c == CountedFix(r)
           b == Recovered(c)
<1>0. st \in State /\ local \in Seq(Commit)
  BY DEF IInv, TypeOK, StateTypes, RepoTypes
<1>1. r \in State /\ c \in State /\ b \in State
  BY <1>0, RestartedType, CountedFixType, RecoveredType
<1>2. r.validations = st.validations /\ (r = st \/ (r.rounds = <<>> /\ r.fixes = 0))
  <2>1. CASE Rewritten(st)
    <3>1. r = [st EXCEPT !.rounds = <<>>, !.test_commits = {}, !.fixes = 0,
                   !.needs_info_used = FALSE, !.last_verdict = "",
                   !.baseline_sha = 0, !.force_push = TRUE]
      BY <2>1 DEF Restarted
    <3> HIDE DEF r
    <3> QED BY <1>0, <3>1 DEF State
  <2>2. CASE ~Rewritten(st)
    BY <2>2 DEF Restarted
  <2> QED BY <2>1, <2>2
<1>3. /\ c.rounds = r.rounds /\ c.validations = r.validations
      /\ c.fixes = r.fixes \/ r.rounds # <<>>
  <2>1. CASE AwaitsFix(r)
    <3>1. c = [r EXCEPT !.fixes = @ + 1] /\ r.rounds # <<>>
      BY <2>1 DEF CountedFix, AwaitsFix
    <3> HIDE DEF r, c
    <3> QED BY <1>1, <3>1 DEF State
  <2>2. CASE ~AwaitsFix(r)
    BY <2>2 DEF CountedFix
  <2> QED BY <2>1, <2>2
<1>4. b.rounds = c.rounds /\ b.validations = c.validations /\ b.fixes = c.fixes
  BY <1>1 DEF Recovered, State
<1>5. Counted(st)
  BY DEF StopInv
<1>6. \/ /\ pc' = "stopping" /\ stop' = 2 /\ st' = r /\ AwaitsFix(r)
         /\ disk' = disk /\ lastEnd' = lastEnd
      \/ /\ pc' = "stopping" /\ stop' = 3 /\ st' = b /\ b.fixes > MaxFixes
         /\ disk' = disk /\ lastEnd' = lastEnd
      \/ /\ pc' \in {"closing", "pr"}
         /\ st' = [b EXCEPT !.head_sha = ctxHead, !.stage = "preflight",
                            !.last_exit = IF dry THEN 0 ELSE @]
  BY DEF Bookkeeping, Save, GoTo, RaiseStop
<1>7. MaxFixes \in Nat
  BY PipelineAssumption
<1> HIDE DEF r, c, b
<1>8. AwaitsFix(r) => r.rounds # <<>>
  BY DEF AwaitsFix
<1>9. b.fixes > MaxFixes => b.fixes # 0
  BY <1>1, <1>7, StateFields
<1>10. Counted(r) /\ Counted(b)
  BY <1>2, <1>3, <1>4, <1>5 DEF Counted
<1>11. ASSUME pc' \in {"closing", "pr"} PROVE st'.rounds = b.rounds /\ st'.fixes = b.fixes
  BY <1>1, <1>6, <1>11 DEF State
<1>12. CASE pc' \in {"closing", "pr"}
  BY <1>10, <1>11, <1>12 DEF Counted
<1>13. CASE pc' = "stopping"
  <2>1. r = st \/ (r.rounds = <<>> /\ b.rounds = <<>> /\ b.fixes = 0)
    BY <1>2, <1>3, <1>4
  <2>2. r = st
    BY <1>6, <1>8, <1>9, <1>13, <2>1
  <2> QED BY <1>2, <1>3, <1>4, <1>6, <1>8, <1>9, <1>10, <1>13, <2>2 DEF Counted
<1> QED BY <1>6, <1>12, <1>13

\* Every step keeps it.
LEMMA StopKept ==
    ASSUME IInv, BooksInv, ReportInv, StopInv, [Next]_vars
    PROVE  StopInv'
<1>0. /\ st \in State /\ disk \in State \cup {NoState} /\ (pc # "idle" => disk \in State)
  BY DEF IInv, TypeOK, StateTypes, LiveState
<1>c. ASSUME NEW s, NEW t, Counted(s), t.rounds = s.rounds, t.fixes = s.fixes
      PROVE  Counted(t)
  BY <1>c DEF Counted
<1>s. Counted(st) /\ (disk # NoState => Counted(disk)) /\ (disk # NoState <=> Recorded)
  BY DEF StopInv, Recorded
<1>d. ASSUME Counted(st)', disk' = disk \/ Counted(disk)', pc' \notin {"idle", "stopping"}
      PROVE  StopInv'
  BY <1>s, <1>d DEF StopInv, Recorded
<1>e. ASSUME pc # "idle", pc # "stopping", st'.rounds = st.rounds, st'.fixes = st.fixes,
             st'.validations = st.validations,
             disk' = disk \/ SameBooks(st, disk'), pc' = "stopping", stop' \in {1, 2}
      PROVE  StopInv'
  <2>1. SameBooks(disk, st)
    BY <1>e DEF BooksInv
  <2>2. st'.rounds = disk'.rounds /\ st'.validations = disk'.validations
    BY <1>e, <2>1 DEF SameBooks
  <2>3. Counted(st') /\ (disk' = disk \/ Counted(disk'))
    BY <1>c, <1>e, <1>s DEF SameBooks
  <2> QED BY <1>e, <1>s, <2>2, <2>3 DEF StopInv, Recorded
<1>1. ASSUME NEW d \in BOOLEAN, StartRun(d) PROVE StopInv'
  <2>1. /\ disk' = st' /\ pc' = "started"
        /\ SameReview(IF disk = NoState THEN FreshState ELSE disk, st')
    BY <1>1, StartDoes
  <2>2. Counted(FreshState)
    BY DEF Counted, FreshState
  <2>3. Counted(st')
    BY <1>s, <2>1, <2>2 DEF SameReview, Counted
  <2> QED BY <1>d, <2>1, <2>3
<1>2. CASE Quiet
  <2>1. /\ st'.rounds = st.rounds /\ st'.fixes = st.fixes /\ st'.validations = st.validations
        /\ disk' = disk \/ SameBooks(st, disk')
        /\ pc # "idle" /\ pc' # "idle"
    BY <1>2, QuietSteps DEF SameReview, SameBooks
  <2>2. CASE pc' # "stopping"
    <3>1. Counted(st') /\ (disk' = disk \/ Counted(disk'))
      BY <1>c, <1>s, <2>1 DEF SameBooks
    <3> QED BY <1>d, <2>1, <2>2, <3>1
  <2>3. CASE pc' = "stopping"
    <3>1. pc # "stopping"
      BY <1>2, <2>3, QuietStop
    <3>2. stop' \in {1, 2}
      BY <1>2, <2>3, <3>1 DEF Quiet, CleanUp, PreflightRefuses, PreflightPasses, BaselineClones,
         EnsureIgnored, CommitIgnored, CheckBeforePush, PushBranch, EnsurePR, BeginReview,
         ReviewFails, ReviewEnds, CheckBeforeCommit, PushTests, Outcome, BeginValidation,
         ValidationChooses, ValidationClones, Finish, MarkReady, RecordStop, ReviewerWrites,
         Raise, RoundStops, RaiseStop, GoTo, Calm, CalmBut
    <3> QED BY <1>e, <2>1, <2>3, <3>1, <3>2
  <2> QED BY <2>2, <2>3
<1>3. CASE AtRest
  <2>1. /\ pc' = "idle" /\ (st' = FreshState \/ st' = st)
        /\ disk' = disk \/ disk' = NoState \/ (disk \in State /\ SameReview(disk, disk'))
    BY <1>3, RestSteps
  <2>2. Counted(FreshState)
    BY DEF Counted, FreshState
  <2>3. Counted(st') /\ (disk' # NoState => Counted(disk'))
    <3>1. Counted(st')
      BY <1>s, <2>1, <2>2
    <3>2. ASSUME disk' # NoState PROVE Counted(disk')
      <4>1. CASE disk' = disk
        BY <1>s, <3>2, <4>1
      <4>2. CASE disk \in State /\ SameReview(disk, disk')
        BY <1>c, <1>s, <4>2, NoStateAssumption DEF SameReview
      <4> QED BY <2>1, <3>2, <4>1, <4>2
    <3> QED BY <3>1, <3>2
  <2>4. disk' # NoState /\ RunDied(disk') => disk'.last_exit = -1
    <3>1. CASE Exit
      <4>1. lastEnd = "result" /\ pc # "idle" /\ disk' = disk
        BY <3>1 DEF Exit, ReportInv
      <4> QED BY <4>1 DEF ReportInv
    <3>2. CASE Die
      <4>1. pc # "idle" /\ disk' = disk /\ lastEnd \in {"running", "result"}
        BY <3>2 DEF Die, ReportInv
      <4> QED BY <4>1 DEF ReportInv, NoResultYet
    <3>3. CASE StopLive \/ StopDead
      <4>1. disk \in State /\ disk' = SetStage(disk, "stopped", 1)
        BY <1>0, <3>3 DEF StopLive, StopDead
      <4> QED BY <4>1, ResultsAreNoDeath
    <3>4. CASE Reset
      BY <3>4 DEF Reset
    <3> QED BY <1>3, <3>1, <3>2, <3>3, <3>4 DEF AtRest
  <2> QED BY <2>1, <2>3, <2>4 DEF StopInv, Recorded
<1>4. CASE BaselineEnds
  <2>1. /\ pc = "baseline" /\ st'.rounds = st.rounds /\ st'.fixes = st.fixes
        /\ st'.validations = st.validations /\ (disk' = disk \/ disk' = st')
        /\ pc' \in {"bookkeeping", "stopping"}
    BY <1>4, BaselineDoes DEF SameRounds
  <2>2. disk' = disk \/ SameBooks(st, disk')
    BY <2>1 DEF SameBooks
  <2>3. Counted(st') /\ (disk' = disk \/ Counted(disk'))
    BY <1>c, <1>s, <2>1
  <2>4. pc' = "stopping" => stop' = 1
    BY <1>4 DEF BaselineEnds, RaiseStop, GoTo
  <2> QED BY <1>d, <1>e, <2>1, <2>2, <2>3, <2>4
<1>5. CASE Bookkeeping
  <2>1. /\ pc = "bookkeeping" /\ pc' \in {"stopping", "closing", "pr"} /\ Counted(st')
        /\ pc' # "stopping" => disk' = st'
    BY <1>5, BookingDoes, BookingStops
  <2>2. CASE pc' # "stopping"
    BY <1>d, <2>1, <2>2
  <2>3. CASE pc' = "stopping"
    <3>1. /\ stop' \in {2, 3} /\ st'.rounds = st.rounds /\ st'.validations = st.validations
          /\ (stop' = 3 => st'.rounds # <<>>) /\ disk' = disk
      BY <1>5, <2>3, BookingStops
    <3>2. SameBooks(disk, st)
      BY <2>1 DEF BooksInv
    <3> QED BY <1>s, <2>1, <2>3, <3>1, <3>2 DEF StopInv, Recorded, SameBooks
  <2> QED BY <2>2, <2>3
<1>6. CASE CommitTests
  <2>1. /\ pc = "committing" /\ st'.rounds = st.rounds /\ st'.fixes = st.fixes
        /\ st'.validations = st.validations /\ (disk' = disk \/ SameBooks(st, disk'))
        /\ pc' \in {"record", "stopping"}
    BY <1>6, CommitDoes DEF SameRounds, SameBooks
  <2>2. Counted(st') /\ (disk' = disk \/ Counted(disk'))
    BY <1>c, <1>s, <2>1 DEF SameBooks
  <2>3. pc' = "stopping" => stop' = 1
    BY <1>6 DEF CommitTests, RoundStops, RaiseStop, GoTo
  <2> QED BY <1>d, <1>e, <2>1, <2>2, <2>3
<1>7. CASE RecordRound
  <2> DEFINE n == [verdict |-> round.verdict, head_sha |-> round.head_sha,
                   test_commit |-> round.test_commit]
  <2>1. /\ disk' = st' /\ st'.rounds = Append(st.rounds, n)
        /\ pc' \in {"push_tests", "tests_push", "outcome"}
    BY <1>7, RecordDoes
  <2>2. st.rounds \in Seq(Round) /\ n \in Round
    BY <1>0, StateFields DEF IInv, TypeOK, StateTypes, InProgress, Round
  <2>3. st'.rounds # <<>>
    <3> HIDE DEF n
    <3> QED BY <2>1, <2>2, LastOfAppend
  <2> QED BY <1>d, <2>1, <2>3 DEF Counted
<1>8. CASE Validates
  <2>1. /\ pc \in {"validate", "validating"} /\ st'.rounds = st.rounds /\ st'.fixes = st.fixes
        /\ (disk' = disk \/ disk' = st') /\ pc' \in {"validated", "stopping"}
        /\ pc' = "stopping" => st' = st /\ disk' = disk
    BY <1>8, ValidationDoes
  <2>2. Counted(st') /\ (disk' = disk \/ Counted(disk'))
    BY <1>c, <1>s, <2>1
  <2>3. pc' = "stopping" => stop' = 1
    BY <1>8 DEF Validates, NothingToRun, ValidationEnds, RaiseStop, GoTo
  <2> QED BY <1>d, <1>e, <2>1, <2>2, <2>3
<1>9. CASE Beside
  BY <1>9 DEF Beside, runVars, StopInv, Recorded
<1> QED BY <1>1, <1>2, <1>3, <1>4, <1>5, <1>6, <1>7, <1>8, <1>9, StepKinds

(* What Review sees *)

\* The elements of a sequence over a set are in that set.
LEMMA ElementsOf ==
    ASSUME NEW S, NEW s \in Seq(S)
    PROVE  \A i \in DOMAIN s : s[i] \in S
  OBVIOUS

\* What the fields of a round, and of a validation, may be taken to be.
LEMMA RoundFields == \A r \in Round : r.verdict \in Verdicts
  BY DEF Round

LEMMA ValidationFields == \A v \in Validation : v.round \in Nat /\ v.result \in Results
  BY DEF Validation

\* The verdicts of a state's rounds.
LEMMA VerdictsAre ==
    ASSUME NEW s \in State
    PROVE  /\ VerdictsOf(s) \in Seq(Verdicts) /\ Len(VerdictsOf(s)) = Len(s.rounds)
           /\ DOMAIN VerdictsOf(s) = DOMAIN s.rounds
           /\ (VerdictsOf(s) = <<>>) <=> (s.rounds = <<>>)
           /\ s.rounds # <<>> => Last(VerdictsOf(s)) = Last(s.rounds).verdict
<1>1. PICK r \in Seq(Round) : r = s.rounds
  BY StateFields
<1>2. \A i \in DOMAIN r : r[i].verdict \in Verdicts
  BY ElementsOf, RoundFields
<1>3. VerdictsOf(s) = [i \in 1 .. Len(r) |-> r[i].verdict]
  BY <1>1 DEF VerdictsOf
<1>4. Len(r) \in Nat /\ DOMAIN r = 1 .. Len(r) /\ (r = <<>> <=> Len(r) = 0)
  OBVIOUS
<1>5. VerdictsOf(s) \in Seq(Verdicts) /\ Len(VerdictsOf(s)) = Len(r)
  BY <1>2, <1>3, <1>4
<1>6. (VerdictsOf(s) = <<>>) <=> (r = <<>>)
  BY <1>4, <1>5
<1>7. r # <<>> => Last(VerdictsOf(s)) = Last(r).verdict
  BY <1>3, <1>4, <1>5 DEF Last
<1> QED BY <1>1, <1>3, <1>4, <1>5, <1>6, <1>7

\* The results of a state's validations.
LEMMA ResultsAre ==
    ASSUME NEW s \in State
    PROVE  /\ ResultsOf(s) \in Seq([round : Nat, result : Results])
           /\ DOMAIN ResultsOf(s) = DOMAIN s.validations
           /\ \A i \in DOMAIN s.validations : ResultsOf(s)[i].round = s.validations[i].round
           /\ s.validations # <<>> =>
                /\ ResultsOf(s) # <<>>
                /\ Last(ResultsOf(s)) = [round |-> Last(s.validations).round,
                                         result |-> Last(s.validations).result]
<1>1. PICK v \in Seq(Validation) : v = s.validations
  BY StateFields
<1>2. \A i \in DOMAIN v : v[i].round \in Nat /\ v[i].result \in Results
  BY ElementsOf, ValidationFields
<1>3. ResultsOf(s) = [i \in 1 .. Len(v) |-> [round |-> v[i].round, result |-> v[i].result]]
  BY <1>1 DEF ResultsOf
<1>4. Len(v) \in Nat /\ DOMAIN v = 1 .. Len(v) /\ (v = <<>> <=> Len(v) = 0)
  OBVIOUS
<1>5. ResultsOf(s) \in Seq([round : Nat, result : Results]) /\ Len(ResultsOf(s)) = Len(v)
  BY <1>2, <1>3, <1>4
<1>6. v # <<>> => ResultsOf(s) # <<>>
  BY <1>4, <1>5
<1>7. v # <<>> => Last(ResultsOf(s)) = [round |-> Last(v).round, result |-> Last(v).result]
  BY <1>3, <1>4, <1>5 DEF Last
<1>8. \A i \in DOMAIN v : ResultsOf(s)[i].round = v[i].round
  BY <1>3, <1>4
<1> QED BY <1>1, <1>3, <1>4, <1>5, <1>6, <1>7, <1>8

\* A round appended is a verdict appended.
LEMMA VerdictAppended ==
    ASSUME NEW s \in State, NEW t, NEW e \in Round, t.rounds = Append(s.rounds, e)
    PROVE  VerdictsOf(t) = Append(VerdictsOf(s), e.verdict)
<1>1. PICK r \in Seq(Round) : r = s.rounds
  BY StateFields
<1>2. /\ VerdictsOf(t) = [i \in DOMAIN Append(r, e) |-> Append(r, e)[i].verdict]
      /\ VerdictsOf(s) = [i \in DOMAIN r |-> r[i].verdict]
  BY <1>1 DEF VerdictsOf
<1>3. e.verdict \in Verdicts /\ \A i \in DOMAIN r : r[i].verdict \in Verdicts
  BY ElementsOf, RoundFields
<1>4. [i \in DOMAIN r |-> r[i].verdict] \in Seq(Verdicts)
  BY <1>3
<1>5. Append([i \in DOMAIN r |-> r[i].verdict], e.verdict)
        = [i \in DOMAIN Append(r, e) |-> Append(r, e)[i].verdict]
  BY <1>3, <1>4
<1> QED BY <1>2, <1>5

\* A validation appended is a result appended.
LEMMA ResultAppended ==
    ASSUME NEW s \in State, NEW t, NEW e \in Validation,
           t.validations = Append(s.validations, e)
    PROVE  ResultsOf(t) = Append(ResultsOf(s), [round |-> e.round, result |-> e.result])
<1> DEFINE Short(v) == [round |-> v.round, result |-> v.result]
<1>1. PICK v \in Seq(Validation) : v = s.validations
  BY StateFields
<1>2. /\ ResultsOf(t) = [i \in DOMAIN Append(v, e) |-> Short(Append(v, e)[i])]
      /\ ResultsOf(s) = [i \in DOMAIN v |-> Short(v[i])]
  BY <1>1 DEF ResultsOf
<1>3. \A x \in Validation : Short(x) \in [round : Nat, result : Results]
  BY DEF Validation
<1> HIDE DEF Short
<1>4. [i \in DOMAIN v |-> Short(v[i])] \in Seq([round : Nat, result : Results])
  BY <1>2, ResultsAre
<1>5. Append([i \in DOMAIN v |-> Short(v[i])], Short(e))
        = [i \in DOMAIN Append(v, e) |-> Short(Append(v, e)[i])]
  BY <1>3, <1>4
<1> QED BY <1>2, <1>5 DEF Short

\* What is seen of a state that tells the same history is the same.
LEMMA SameView ==
    ASSUME NEW s, NEW t, t.rounds = s.rounds, t.validations = s.validations
    PROVE  VerdictsOf(t) = VerdictsOf(s) /\ ResultsOf(t) = ResultsOf(s)
  BY DEF VerdictsOf, ResultsOf

\* A state file is a state, and what is seen is what it holds.
LEMMA SeenOnDisk ==
    ASSUME disk \in State
    PROVE  Recorded /\ rounds = VerdictsOf(disk) /\ checks = ResultsOf(disk)
  BY NoStateAssumption DEF Recorded, rounds, checks

\* A live run without a result tells nothing.
LEMMA NothingTold ==
    ASSUME IInv, ReportInv, pc # "idle", lastEnd = "running"
    PROVE  told = "nothing" /\ disk.last_exit = -1
<1>1. disk \in State /\ disk.last_exit = -1
  BY DEF IInv, LiveState, ReportInv, NoResultYet
<1> QED BY <1>1, SeenOnDisk DEF told

\* Quiet steps are not seen in the rounds nor in the results.
LEMMA QuietSeen ==
    ASSUME IInv, BooksInv, StopInv, Quiet
    PROVE  /\ disk \in State /\ disk' \in State
           /\ disk'.rounds = disk.rounds /\ disk'.validations = disk.validations
           /\ st.rounds = disk.rounds /\ st.validations = disk.validations
           /\ UNCHANGED <<rounds, checks>>
<1>1. /\ SameReview(st, st') /\ (disk' = disk \/ SameReview(st, disk'))
      /\ pc # "idle" /\ pc' # "idle"
  BY QuietSteps
<1>2. IInv'
  BY TypesKept DEF Next, RunStep, Quiet
<1>3. disk \in State /\ disk' \in State
  BY <1>1, <1>2 DEF IInv, LiveState
<1>4. st.rounds = disk.rounds /\ st.validations = disk.validations
  BY <1>1 DEF BooksInv, SameBooks, StopInv
<1>5. disk'.rounds = disk.rounds /\ disk'.validations = disk.validations
  BY <1>1, <1>4 DEF SameReview
<1>6. rounds = VerdictsOf(disk) /\ checks = ResultsOf(disk)
  BY <1>3, SeenOnDisk
<1>7. rounds' = VerdictsOf(disk') /\ checks' = ResultsOf(disk')
  BY <1>3, NoStateAssumption DEF Recorded, rounds, checks
<1> QED BY <1>3, <1>4, <1>5, <1>6, <1>7, SameView

\* A step on the way to a result is unseen, unless it gives up.
LEMMA OnTheWay ==
    ASSUME IInv, IInv', ReportInv, ReportInv', lastEnd' = lastEnd, UNCHANGED <<rounds, checks>>,
           pc \notin {"idle", "mark_ready", "closing", "stopping", "recorded"}, pc' # "idle",
           at' = at \/ pc' = "stopping"
    PROVE  Promise!GiveUp \/ UNCHANGED <<rounds, checks, at, told>>
<1>1. lastEnd = "running"
  BY DEF ReportInv
<1>2. told = "nothing"
  BY <1>1, NothingTold
<1>3. told' = "nothing"
  <2>1. disk' \in State /\ disk'.last_exit = -1
    BY <1>1 DEF IInv, LiveState, ReportInv, NoResultYet
  <2> QED BY <2>1, NoStateAssumption DEF told, Recorded
<1>4. CASE at' = at
  BY <1>2, <1>3, <1>4
<1>5. CASE pc' = "stopping"
  <2>1. at' = "stopping" /\ at \notin {"rest", "stopping"}
    BY <1>5 DEF at
  <2> QED BY <1>2, <1>3, <2>1 DEF Promise!GiveUp
<1> QED BY <1>4, <1>5

\* What a state file tells, while there is one.
LEMMA ToldOnDisk ==
    ASSUME disk \in State
    PROVE  /\ told = IF pc = "idle"
                     THEN IF RunDied(disk) THEN "died" ELSE disk.stage
                     ELSE IF disk.last_exit < 0 THEN "nothing" ELSE disk.stage
           /\ told # "none"
           /\ disk.last_exit >= 0 => told # "nothing"
<1>1. Recorded
  BY SeenOnDisk
<1>2. disk.stage \in Stages /\ disk.last_exit \in -1..3
  BY StateFields
<1> QED BY <1>1, <1>2 DEF told, Stages

\* A run begins from what is on disk, or from a fresh state.
LEMMA StartMaps ==
    ASSUME IInv, IInv', NEW d \in BOOLEAN, StartRun(d)
    PROVE  Promise!Begin
<1>1. /\ disk' = st' /\ pc' = "started" /\ pc = "idle" /\ st'.last_exit = -1
      /\ SameReview(IF disk = NoState THEN FreshState ELSE disk, st')
  BY StartDoes
<1>2. disk' \in State /\ disk \in State \cup {NoState}
  BY <1>1 DEF IInv, LiveState, TypeOK, StateTypes
<1>3. rounds' = VerdictsOf(disk') /\ checks' = ResultsOf(disk') /\ told' = "nothing"
  BY <1>1, <1>2, NoStateAssumption DEF Recorded, rounds, checks, told
<1>4. UNCHANGED <<rounds, checks>>
  <2>1. CASE disk = NoState
    <3>1. rounds = <<>> /\ checks = <<>>
      BY <2>1 DEF Recorded, rounds, checks
    <3>2. disk'.rounds = <<>> /\ disk'.validations = <<>>
      BY <1>1, <2>1 DEF SameReview, FreshState
    <3>3. VerdictsOf(disk') = <<>> /\ ResultsOf(disk') = <<>>
      BY <3>2 DEF VerdictsOf, ResultsOf
    <3> QED BY <1>3, <3>1, <3>3
  <2>2. CASE disk # NoState
    <3>1. rounds = VerdictsOf(disk) /\ checks = ResultsOf(disk)
      BY <1>2, <2>2, SeenOnDisk
    <3>2. disk'.rounds = disk.rounds /\ disk'.validations = disk.validations
      BY <1>1, <2>2 DEF SameReview
    <3> QED BY <1>3, <3>1, <3>2, SameView
  <2> QED BY <2>1, <2>2
<1>5. at = "rest" /\ at' = "begun"
  BY <1>1 DEF at
<1> QED BY <1>3, <1>4, <1>5 DEF Promise!Begin

\* Quiet steps before a result is reached.
Preparing ==
    \/ CleanUp \/ PreflightRefuses \/ PreflightPasses \/ BaselineClones
    \/ EnsureIgnored \/ CommitIgnored \/ CheckBeforePush \/ PushBranch \/ EnsurePR
    \/ BeginReview \/ ReviewFails \/ ReviewEnds \/ CheckBeforeCommit \/ PushTests
    \/ BeginValidation \/ ValidationChooses \/ ValidationClones \/ ReviewerWrites

\* They are unseen but for giving up.
LEMMA PreparingMaps ==
    ASSUME IInv, IInv', BooksInv, StopInv, ReportInv, ReportInv', Preparing
    PROVE  Promise!GiveUp \/ UNCHANGED <<rounds, checks, at, told>>
<1>1. Quiet
  BY DEF Preparing, Quiet
<1>2. UNCHANGED <<rounds, checks>> /\ pc' # "idle"
  BY <1>1, QuietSeen, QuietSteps
<1>a. ASSUME pc \notin {"idle", "mark_ready", "closing", "stopping", "recorded"},
             lastEnd' = lastEnd, at' = at \/ pc' = "stopping"
      PROVE  Promise!GiveUp \/ UNCHANGED <<rounds, checks, at, told>>
  BY <1>2, <1>a, OnTheWay
<1>3. CASE CleanUp \/ PreflightRefuses \/ PreflightPasses \/ BaselineClones
  <2>1. /\ pc \in {"started", "checks", "baseline"} /\ lastEnd' = lastEnd
        /\ pc' \in {"checks", "baseline", "bookkeeping", "stopping"}
    BY <1>3 DEF CleanUp, PreflightRefuses, PreflightPasses, BaselineClones, RaiseStop, GoTo, Calm
  <2> QED BY <1>a, <2>1 DEF at
<1>4. CASE EnsureIgnored \/ CommitIgnored \/ PushBranch
  <2>1. /\ pc \in {"pr", "ignoring", "branch_push"} /\ lastEnd' = lastEnd
        /\ pc' \in {"ignoring", "pushing", "pushed", "stopping"}
    BY <1>4 DEF EnsureIgnored, CommitIgnored, PushBranch, RaiseStop, GoTo, Calm
  <2> QED BY <1>a, <2>1 DEF at
<1>5. CASE EnsurePR
  <2>1. /\ pc = "pushed" /\ lastEnd' = lastEnd /\ resume' = resume
        /\ pc' = "stopping" \/ pc' = IF resume THEN "approved" ELSE "review"
    BY <1>5 DEF EnsurePR, RaiseStop, GoTo, Calm
  <2> QED BY <1>a, <2>1 DEF at
<1>6. CASE BeginReview \/ ReviewFails \/ ReviewEnds \/ CheckBeforeCommit \/ ReviewerWrites
  <2>1. /\ pc \in {"review", "reviewing", "abandon", "commit"} /\ lastEnd' = lastEnd
        /\ pc' \in {"reviewing", "abandon", "commit", "committing", "record", "stopping"}
    BY <1>6 DEF BeginReview, ReviewFails, ReviewEnds, CheckBeforeCommit, ReviewerWrites,
       RoundStops, RaiseStop, GoTo, Calm, CalmBut
  <2> QED BY <1>a, <2>1 DEF at
<1>7. CASE PushTests
  <2>1. pc = "tests_push" /\ lastEnd' = lastEnd /\ pc' \in {"outcome", "stopping"}
    BY <1>7 DEF PushTests, RaiseStop, GoTo, Calm
  <2> QED BY <1>a, <2>1 DEF at
<1>8. CASE BeginValidation \/ ValidationChooses \/ ValidationClones
  <2>1. /\ pc \in {"approved", "validate", "cloning"} /\ lastEnd' = lastEnd /\ resume' = resume
        /\ pc' \in {"validate", "cloning", "validating", "stopping"}
    BY <1>8 DEF BeginValidation, ValidationChooses, ValidationClones, RaiseStop, GoTo, Calm,
       history
  <2> QED BY <1>a, <2>1 DEF at
<1>9. CASE CheckBeforePush
  <2>1. /\ \/ pc = "pushing" /\ pc' \in {"branch_push", "stopping"}
           \/ pc = "push_tests" /\ pc' \in {"tests_push", "stopping"}
        /\ lastEnd' = lastEnd
    BY <1>9 DEF CheckBeforePush, RaiseStop, GoTo, Calm
  <2> QED BY <1>a, <2>1 DEF at
<1> QED BY <1>3, <1>4, <1>5, <1>6, <1>7, <1>8, <1>9 DEF Preparing

\* The author's turn is told of a round that asks for changes or answers, and of no other.
LEMMA OutcomeMaps ==
    ASSUME IInv, IInv', BooksInv, StopInv, ReportInv, ReportInv', JudgedInv, Outcome
    PROVE  Promise!TellFix \/ UNCHANGED <<rounds, checks, at, told>>
<1>0. Quiet
  BY DEF Quiet
<1>1. /\ UNCHANGED <<rounds, checks>> /\ disk \in State /\ disk' \in State
      /\ st.rounds = disk.rounds
  BY <1>0, QuietSeen
<1>2. /\ pc = "outcome" /\ resume' = resume /\ resume = FALSE
      /\ st.rounds # <<>> /\ Last(st.rounds).verdict = round.verdict
  BY DEF Outcome, JudgedInv, Judging
<1>3. CASE round.verdict = "APPROVE"
  <2>1. pc' = "approved" /\ lastEnd' = lastEnd
    BY <1>3 DEF Outcome, GoTo
  <2>2. at' = at
    BY <1>2, <2>1 DEF at
  <2>3. Promise!GiveUp \/ UNCHANGED <<rounds, checks, at, told>>
    BY <1>1, <1>2, <2>1, <2>2, OnTheWay
  <2>4. at \notin {"rest", "stopping"} /\ at # "stopping" /\ at' # "stopping"
    BY <1>2, <2>2 DEF at
  <2> QED BY <2>3, <2>4 DEF Promise!GiveUp
<1>4. CASE round.verdict # "APPROVE"
  <2>1. pc' = "closing" /\ disk' = SetStage(st, "needs_action", 2)
    BY <1>4 DEF Outcome, GoTo, Save
  <2>2. at = "judged" /\ at' = "done"
    BY <1>2, <2>1 DEF at
  <2>3. told' = "needs_action"
    <3>1. disk'.stage = "needs_action" /\ disk'.last_exit = 2
      <4>1. st \in State
        BY DEF IInv, TypeOK, StateTypes
      <4> QED BY <2>1, <4>1 DEF SetStage, State
    <3> QED BY <1>1, <2>1, <3>1, NoStateAssumption DEF told, Recorded
  <2>4. Promise!Judged("CHANGES_REQUESTED") \/ Promise!Judged("NEEDS_INFO")
    <3>1. rounds = VerdictsOf(disk)
      BY <1>1, SeenOnDisk
    <3>2. rounds # <<>> /\ Last(rounds) = round.verdict
      BY <1>1, <1>2, <3>1, VerdictsAre
    <3>3. round.verdict \in Verdicts
      BY DEF IInv, TypeOK, StateTypes, InProgress
    <3> QED BY <1>4, <3>2, <3>3 DEF Promise!Judged, Promise!Last, Last, Verdicts
  <2> QED BY <1>1, <2>2, <2>3, <2>4 DEF Promise!TellFix
<1> QED BY <1>3, <1>4

\* Ready, or the author's turn, is told of a round approved and checked.
LEMMA FinishMaps ==
    ASSUME IInv, IInv', BooksInv, StopInv, JudgedInv, CheckedInv, Finish
    PROVE  Promise!TellReady \/ Promise!TellFix
<1>0. Quiet
  BY DEF Quiet
<1>1. /\ UNCHANGED <<rounds, checks>> /\ disk \in State /\ disk' \in State
      /\ st.rounds = disk.rounds /\ st.validations = disk.validations
  BY <1>0, QuietSeen
<1>2. /\ pc = "validated" /\ Approving(st) /\ st.validations # <<>>
      /\ Last(st.validations).round = Len(st.rounds)
      /\ Last(st.validations).result = st.last_verdict
  BY DEF Finish, JudgedInv, Validating, CheckedInv
<1>3. rounds = VerdictsOf(disk) /\ checks = ResultsOf(disk)
  BY <1>1, SeenOnDisk
<1>4. rounds # <<>> /\ Last(rounds) = "APPROVE" /\ Len(rounds) = Len(disk.rounds)
  BY <1>1, <1>2, <1>3, VerdictsAre DEF Approving
<1>5. checks # <<>> /\ Last(checks) = [round |-> Len(rounds), result |-> st.last_verdict]
  BY <1>1, <1>2, <1>3, <1>4, ResultsAre
<1>6. st \in State /\ at = "checked"
  BY <1>2 DEF IInv, TypeOK, StateTypes, at
<1>7. CASE st.last_verdict = "PASS"
  <2>1. pc' = "mark_ready" /\ disk' = SetStage(st, "ready_to_merge", 0)
    BY <1>7 DEF Finish, Save, GoTo
  <2>2. disk'.stage = "ready_to_merge" /\ disk'.last_exit = 0
    BY <1>6, <2>1 DEF SetStage, State
  <2>3. told' = "ready_to_merge" /\ at' = "done"
    BY <1>1, <2>1, <2>2, NoStateAssumption DEF told, Recorded, at
  <2> QED BY <1>1, <1>4, <1>5, <1>6, <1>7, <2>3 DEF Promise!TellReady, Promise!Judged,
     Promise!Checked, Promise!Last, Last
<1>8. CASE st.last_verdict # "PASS"
  <2>1. pc' = "closing" /\ disk' = SetStage(st, "needs_action", 2)
    BY <1>8 DEF Finish, Save, GoTo
  <2>2. disk'.stage = "needs_action" /\ disk'.last_exit = 2
    BY <1>6, <2>1 DEF SetStage, State
  <2>3. told' = "needs_action" /\ at' = "done"
    BY <1>1, <2>1, <2>2, NoStateAssumption DEF told, Recorded, at
  <2>4. st.last_verdict = "FAIL"
    <3>1. PICK v \in Seq(Validation) : v = st.validations
      BY <1>6, StateFields
    <3>2. Len(v) \in DOMAIN v
      BY <1>2, <3>1
    <3>3. Last(v).result \in Results
      BY <3>2, ElementsOf, ValidationFields DEF Last
    <3> QED BY <1>2, <1>8, <3>1, <3>3 DEF Results
  <2> QED BY <1>1, <1>5, <1>6, <2>3, <2>4 DEF Promise!TellFix, Promise!Checked,
     Promise!Last, Last
<1> QED BY <1>7, <1>8

\* A stop is told with its exit code, and a person is asked for over the rounds there are.
LEMMA RecordStopMaps ==
    ASSUME IInv, IInv', BooksInv, StopInv, RecordStop
    PROVE  Promise!TellStop
<1>0. Quiet
  BY DEF Quiet
<1>1. /\ UNCHANGED <<rounds, checks>> /\ disk \in State /\ disk' \in State
      /\ st.rounds = disk.rounds /\ rounds = VerdictsOf(disk)
  BY <1>0, QuietSeen, SeenOnDisk
<1>2. /\ pc = "stopping" /\ pc' = "recorded"
      /\ disk' = SetStage(st, StageForExit(stop), stop)
  BY DEF RecordStop, Save, GoTo
<1>3. stop \in {1, 2, 3} /\ (stop = 3 => st.rounds # <<>>)
  BY <1>2 DEF StopInv
<1>4. disk'.stage = StageForExit(stop) /\ disk'.last_exit = stop
  <2>1. st \in State
    BY DEF IInv, TypeOK, StateTypes
  <2> QED BY <1>2, <2>1 DEF SetStage, State
<1>5. told' = StageForExit(stop)
  BY <1>1, <1>2, <1>3, <1>4, NoStateAssumption DEF told, Recorded
<1>6. at = "stopping" /\ at' = "done"
  BY <1>2 DEF at
<1>7. stop = 3 => rounds # <<>>
  BY <1>1, <1>3, VerdictsAre
<1>8. told' \in {"needs_action", "error"} \cup IF rounds = <<>> THEN {} ELSE {"needs_human"}
  BY <1>3, <1>5, <1>7 DEF StageForExit
<1> QED BY <1>1, <1>6, <1>8 DEF Promise!TellStop

\* An exception is a way of giving up, before a result or after it.
LEMMA RaiseMaps ==
    ASSUME IInv, Raise
    PROVE  Promise!GiveUp
<1>1. /\ pc \notin {"idle", "stopping", "recorded"} /\ pc' = "stopping" /\ disk' = disk
  BY DEF Raise, RaiseStop, GoTo
<1>2. at \notin {"rest", "stopping"} /\ at' = "stopping"
  BY <1>1 DEF at
<1>3. UNCHANGED <<rounds, checks, told>>
  BY <1>1 DEF rounds, checks, told, Recorded
<1> QED BY <1>2, <1>3 DEF Promise!GiveUp

\* gh marks the pull request ready, or does not: the result is told already.
LEMMA MarkReadyUnseen ==
    ASSUME MarkReady
    PROVE  UNCHANGED <<rounds, checks, at, told>>
<1>1. pc = "mark_ready" /\ pc' = "closing" /\ disk' = disk
  BY DEF MarkReady, GoTo
<1> QED BY <1>1 DEF rounds, checks, told, Recorded, at

\* A baseline and a commit of tests are unseen but for giving up.
LEMMA WorkMaps ==
    ASSUME IInv, IInv', BooksInv, ReportInv, ReportInv', BaselineEnds \/ CommitTests
    PROVE  Promise!GiveUp \/ UNCHANGED <<rounds, checks, at, told>>
<1>1. /\ pc \in {"baseline", "committing"} /\ pc' \in {"bookkeeping", "record", "stopping"}
      /\ disk' = disk \/ (disk'.rounds = st.rounds /\ disk'.validations = st.validations)
  BY BaselineDoes, CommitDoes DEF SameRounds
<1>2. disk \in State /\ disk' \in State /\ st.rounds = disk.rounds
        /\ st.validations = disk.validations
  BY <1>1 DEF IInv, LiveState, BooksInv, SameBooks
<1>3. rounds = VerdictsOf(disk) /\ checks = ResultsOf(disk)
  BY <1>2, SeenOnDisk
<1>4. rounds' = VerdictsOf(disk') /\ checks' = ResultsOf(disk')
  BY <1>2, NoStateAssumption DEF Recorded, rounds, checks
<1>5. UNCHANGED <<rounds, checks>>
  BY <1>1, <1>2, <1>3, <1>4, SameView
<1>6. lastEnd' = lastEnd
  BY DEF BaselineEnds, CommitTests, Calm
<1>7. at' = at \/ pc' = "stopping"
  BY <1>1 DEF at
<1> QED BY <1>1, <1>5, <1>6, <1>7, OnTheWay

\* The bookkeeping keeps the review or starts it over, ends a dry run, or gives up.
LEMMA BookkeepingMaps ==
    ASSUME IInv, IInv', BooksInv, StopInv, ReportInv, ReportInv', Bookkeeping
    PROVE  \/ Promise!StartOver \/ Promise!EndDry \/ Promise!GiveUp
           \/ UNCHANGED <<rounds, checks, at, told>>
<1>1. pc = "bookkeeping" /\ pc' \in {"stopping", "closing", "pr"}
  BY BookingDoes
<1>2. disk \in State /\ disk' \in State /\ st.rounds = disk.rounds
        /\ st.validations = disk.validations
  BY <1>1 DEF IInv, LiveState, BooksInv, SameBooks
<1>3. rounds = VerdictsOf(disk) /\ checks = ResultsOf(disk)
  BY <1>2, SeenOnDisk
<1>4. rounds' = VerdictsOf(disk') /\ checks' = ResultsOf(disk')
  BY <1>2, NoStateAssumption DEF Recorded, rounds, checks
<1>5. at = "begun"
  BY <1>1 DEF at
<1>6. told = "nothing" /\ lastEnd = "running"
  <2>1. lastEnd = "running"
    BY <1>1 DEF ReportInv
  <2> QED BY <1>1, <2>1, NothingTold
<1>7. CASE pc' = "stopping"
  <2>1. disk' = disk /\ lastEnd' = lastEnd
    BY <1>7, BookingStops
  <2>2. UNCHANGED <<rounds, checks>>
    BY <1>3, <1>4, <2>1
  <2> QED BY <1>1, <1>7, <2>1, <2>2, OnTheWay
<1>8. CASE pc' # "stopping"
  <2>1. /\ disk' = st' /\ st'.validations = st.validations
        /\ st'.rounds = st.rounds \/ st'.rounds = <<>>
    BY <1>8, BookingDoes
  <2>2. checks' = checks /\ rounds' \in {rounds, <<>>}
    <3>1. ResultsOf(disk') = ResultsOf(disk)
      BY <1>2, <2>1 DEF ResultsOf
    <3>2. disk'.rounds = disk.rounds => VerdictsOf(disk') = VerdictsOf(disk)
      BY DEF VerdictsOf
    <3>3. disk'.rounds = <<>> => VerdictsOf(disk') = <<>>
      BY DEF VerdictsOf
    <3> QED BY <1>2, <1>3, <1>4, <2>1, <3>1, <3>2, <3>3
  <2>3. CASE dry
    <3>1. pc' = "closing" /\ disk'.last_exit = 0 /\ disk'.stage = "preflight"
      BY <1>8, <2>3, BookingResumes
    <3>2. told' = "preflight" /\ at' = "done"
      BY <1>2, <3>1, NoStateAssumption DEF told, Recorded, at
    <3> QED BY <1>5, <2>2, <3>2 DEF Promise!EndDry
  <2>4. CASE ~dry
    <3>1. pc' = "pr" /\ lastEnd' = "running" /\ disk'.last_exit = st.last_exit
      BY <1>6, <1>8, <2>4, BookingResumes
    <3>2. st.last_exit = -1
      BY <1>1, RunningExit
    <3>3. told' = "nothing" /\ at' = "begun"
      BY <1>2, <3>1, <3>2, NoStateAssumption DEF told, Recorded, at
    <3>4. CASE rounds' = rounds
      BY <1>5, <1>6, <2>2, <3>3, <3>4
    <3>5. CASE rounds' # rounds
      BY <1>5, <1>6, <2>2, <3>3, <3>5 DEF Promise!StartOver
    <3> QED BY <3>4, <3>5
  <2> QED BY <2>3, <2>4
<1> QED BY <1>7, <1>8

\* A round recorded is one verdict, and no second question.
LEMMA RecordMaps ==
    ASSUME IInv, IInv', BooksInv, ReportInv, ReportInv', AskInv, RecordRound
    PROVE  \E v \in Promise!Verdicts : Promise!Judge(v)
<1> DEFINE n == [verdict |-> round.verdict, head_sha |-> round.head_sha,
                 test_commit |-> round.test_commit]
<1>1. /\ pc = "record" /\ pc' \in {"push_tests", "tests_push", "outcome"} /\ disk' = st'
      /\ st'.rounds = Append(st.rounds, n) /\ st'.validations = st.validations
      /\ st'.last_exit = st.last_exit
  BY RecordDoes
<1>2. disk \in State /\ disk' \in State /\ st.rounds = disk.rounds
        /\ st.validations = disk.validations
  BY <1>1 DEF IInv, LiveState, BooksInv, SameBooks
<1>3. n \in Round /\ round.verdict \in Verdicts
  BY DEF IInv, TypeOK, StateTypes, InProgress, Round
<1>4. rounds = VerdictsOf(disk) /\ checks = ResultsOf(disk)
  BY <1>2, SeenOnDisk
<1>5. rounds' = VerdictsOf(disk') /\ checks' = ResultsOf(disk')
  BY <1>2, NoStateAssumption DEF Recorded, rounds, checks
<1>6. checks' = checks
  BY <1>1, <1>2, <1>4, <1>5 DEF ResultsOf
<1>7. rounds' = Append(rounds, round.verdict)
  <2>1. disk'.rounds = Append(disk.rounds, n) /\ n.verdict = round.verdict
    BY <1>1, <1>2
  <2> HIDE DEF n
  <2> QED BY <1>2, <1>3, <1>4, <1>5, <2>1, VerdictAppended
<1>8. told = "nothing" /\ told' = "nothing"
  <2>1. st.last_exit = -1 /\ disk.last_exit = -1
    BY <1>1, RunningExit
  <2>2. disk'.last_exit = -1
    BY <1>1, <2>1
  <2> QED BY <1>1, <1>2, <2>1, <2>2, NoStateAssumption DEF told, Recorded
<1>9. at = "begun" /\ at' = "judged"
  BY <1>1 DEF at
<1>10. round.verdict = "NEEDS_INFO" => \A i \in DOMAIN rounds : rounds[i] # "NEEDS_INFO"
  <2> SUFFICES ASSUME round.verdict = "NEEDS_INFO", NEW i \in DOMAIN rounds,
                      rounds[i] = "NEEDS_INFO"
               PROVE  FALSE
    OBVIOUS
  <2>1. i \in DOMAIN st.rounds /\ st.rounds[i].verdict = "NEEDS_INFO"
    BY <1>2, <1>4 DEF VerdictsOf
  <2>2. st.needs_info_used = TRUE
    BY <2>1 DEF AskInv, Asker
  <2> QED BY <1>1, <2>2 DEF AskInv
<1>11. Promise!Judge(round.verdict)
  BY <1>6, <1>7, <1>8, <1>9, <1>10 DEF Promise!Judge
<1> QED BY <1>3, <1>11 DEF Verdicts, Promise!Verdicts

\* A validation that ends with a result is one check of the last round, an approval judged by
\* this run or one resumed that had no result; another that breaks is given up.
LEMMA ValidationMaps ==
    ASSUME IInv, IInv', BooksInv, ReportInv, ReportInv', JudgedInv, Validates
    PROVE  \/ \E r \in Promise!Results : Promise!Validate(r)
           \/ Promise!GiveUp \/ UNCHANGED <<rounds, checks, at, told>>
<1> DEFINE v == [round |-> Len(st.rounds), result |-> st'.last_verdict, head_sha |-> ctxHead]
<1>1. pc \in {"validate", "validating"} /\ pc' \in {"validated", "stopping"}
  BY ValidationDoes
<1>2. disk \in State /\ disk' \in State /\ st.rounds = disk.rounds
        /\ st.validations = disk.validations
  BY <1>1 DEF IInv, LiveState, BooksInv, SameBooks
<1>3. rounds = VerdictsOf(disk) /\ checks = ResultsOf(disk)
  BY <1>2, SeenOnDisk
<1>4. rounds' = VerdictsOf(disk') /\ checks' = ResultsOf(disk')
  BY <1>2, NoStateAssumption DEF Recorded, rounds, checks
<1>5. CASE pc' = "stopping"
  <2>1. disk' = disk /\ lastEnd' = lastEnd
    BY <1>5, ValidationDoes DEF Validates, NothingToRun, ValidationEnds, GoTo
  <2>2. UNCHANGED <<rounds, checks>>
    BY <1>3, <1>4, <2>1
  <2> QED BY <1>1, <1>5, <2>1, <2>2, OnTheWay
<1>6. CASE pc' = "validated"
  <2>1. /\ disk' = st' /\ st'.rounds = st.rounds /\ st'.last_verdict \in Results
        /\ st'.last_exit = st.last_exit /\ st'.validations = Append(st.validations, v)
    BY <1>6, ValidationDoes
  <2>2. v \in Validation
    <3>1. Len(st.rounds) \in Nat /\ ctxHead \in Nat
      BY <1>2, StateFields DEF IInv, TypeOK, RunTypes
    <3> QED BY <2>1, <3>1 DEF Validation
  <2>3. Approving(st) /\ (resume = TRUE => Unchecked(st))
    BY <1>1 DEF JudgedInv, Validating
  <2>4. rounds # <<>> /\ Last(rounds) = "APPROVE" /\ Len(rounds) = Len(st.rounds)
    BY <1>2, <1>3, <2>3, VerdictsAre DEF Approving
  <2>5. rounds' = rounds
    BY <1>2, <1>3, <1>4, <2>1 DEF VerdictsOf
  <2>6. checks' = Append(checks, [round |-> Len(rounds), result |-> st'.last_verdict])
    <3>1. disk'.validations = Append(disk.validations, v)
      BY <1>2, <2>1
    <3>2. v.round = Len(rounds) /\ v.result = st'.last_verdict
      BY <2>4
    <3> HIDE DEF v
    <3>3. ResultsOf(disk') = Append(ResultsOf(disk), [round |-> v.round, result |-> v.result])
      BY <1>2, <2>2, <3>1, ResultAppended
    <3> QED BY <1>3, <1>4, <3>2, <3>3
  <2>7. told = "nothing" /\ told' = "nothing"
    <3>1. st.last_exit = -1 /\ disk.last_exit = -1
      BY <1>1, RunningExit
    <3>2. disk'.last_exit = -1
      BY <2>1, <3>1
    <3> QED BY <1>1, <1>2, <1>6, <3>1, <3>2, NoStateAssumption DEF told, Recorded
  <2>8. at' = "checked"
    BY <1>6 DEF at
  <2>9. \/ at = "judged"
        \/ at = "begun" /\ \A i \in DOMAIN checks : checks[i].round # Len(rounds)
    <3>1. CASE resume = TRUE
      <4>1. at = "begun"
        BY <1>1, <3>1 DEF at
      <4>2. \A i \in DOMAIN disk.validations : disk.validations[i].round # Len(rounds)
        BY <1>2, <2>3, <2>4, <3>1 DEF Unchecked
      <4>3. \A i \in DOMAIN checks : checks[i].round # Len(rounds)
        BY <1>2, <1>3, <4>2, ResultsAre
      <4> QED BY <4>1, <4>3
    <3>2. CASE resume # TRUE
      <4>1. resume = FALSE
        BY <3>2 DEF IInv, TypeOK, RunTypes
      <4> QED BY <1>1, <4>1 DEF at
    <3> QED BY <3>1, <3>2
  <2>10. Promise!Validate(st'.last_verdict)
    BY <2>4, <2>5, <2>6, <2>7, <2>8, <2>9 DEF Promise!Validate, Promise!Judged, Promise!Last,
       Last
  <2> QED BY <2>1, <2>10 DEF Results, Promise!Results
<1> QED BY <1>1, <1>5, <1>6

\* A run that leaves, by itself or killed, has told its result, or has died; stop and reset
\* have the last word.
LEMMA RestMaps ==
    ASSUME IInv, IInv', StopInv', AtRest
    PROVE  Promise!Leave \/ Promise!Close \/ Promise!Forget
<1>0. disk \in State \cup {NoState} /\ (pc # "idle" => disk \in State)
  BY DEF IInv, TypeOK, StateTypes, LiveState
<1>1. pc' = "idle" /\ at' = "rest"
  BY RestSteps DEF at
<1>2. pc # "idle" => at # "rest"
  <2>1. pc \in PCs
    BY DEF IInv, TypeOK, RunTypes
  <2> QED BY <2>1 DEF at, PCs
<1>3. CASE Exit \/ Die
  <2>1. pc # "idle" /\ disk' = disk
    BY <1>3 DEF Exit, Die
  <2>2. disk \in State /\ UNCHANGED <<rounds, checks>>
    BY <1>0, <2>1 DEF rounds, checks, Recorded
  <2>3. told = IF disk.last_exit < 0 THEN "nothing" ELSE disk.stage
    BY <2>1, <2>2, ToldOnDisk
  <2>4. told' = IF disk.last_exit < 0 THEN "died" ELSE disk.stage
    <3>1. Recorded /\ Recorded'
      BY <2>1, <2>2, NoStateAssumption DEF Recorded
    <3>2. told' = IF RunDied(disk) THEN "died" ELSE disk.stage
      BY <1>1, <2>1, <3>1 DEF told
    <3>3. RunDied(disk) <=> disk.last_exit < 0
      <4>1. RunDied(disk) => disk.last_exit = -1
        BY <1>1, <2>1, <3>1 DEF StopInv
      <4> QED BY <4>1 DEF RunDied
    <3> QED BY <3>2, <3>3
  <2>5. disk.last_exit >= 0 => told # "nothing"
    BY <2>2, ToldOnDisk
  <2>6. disk.last_exit \in -1..3
    BY <2>2, StateFields
  <2>7. told' = IF told = "nothing" THEN "died" ELSE told
    BY <2>3, <2>4, <2>5, <2>6
  <2> QED BY <1>1, <1>2, <2>1, <2>2, <2>7 DEF Promise!Leave
<1>4. CASE StopLive \/ StopDead
  <2>1. disk \in State /\ disk' = SetStage(disk, "stopped", 1)
    BY <1>0, <1>4 DEF StopLive, StopDead
  <2>2. /\ disk'.stage = "stopped" /\ disk'.last_exit = 1 /\ disk' \in State
        /\ disk'.rounds = disk.rounds /\ disk'.validations = disk.validations
    <3>1. disk' \in State
      BY <2>1, SetStageType DEF Stages
    <3>2. /\ disk'.stage = "stopped" /\ disk'.last_exit = 1
          /\ disk'.rounds = disk.rounds /\ disk'.validations = disk.validations
      BY <2>1 DEF SetStage, State
    <3> QED BY <3>1, <3>2
  <2>3. rounds = VerdictsOf(disk) /\ checks = ResultsOf(disk)
    BY <2>1, SeenOnDisk
  <2>4. rounds' = VerdictsOf(disk') /\ checks' = ResultsOf(disk') /\ told' = "stopped"
    <3>1. Recorded' /\ rounds' = VerdictsOf(disk') /\ checks' = ResultsOf(disk')
      BY <2>2, NoStateAssumption DEF Recorded, rounds, checks
    <3>2. ~RunDied(disk')
      BY <2>2 DEF RunDied, TerminalStages
    <3> QED BY <1>1, <2>2, <3>1, <3>2 DEF told
  <2>5. UNCHANGED <<rounds, checks>>
    BY <2>2, <2>3, <2>4, SameView
  <2>6. at # "rest" \/ told = "died"
    <3>1. CASE StopLive
      BY <1>2, <3>1 DEF StopLive
    <3>2. CASE StopDead
      <4>1. RunDied(disk) /\ pc = "idle"
        BY <3>2 DEF StopDead
      <4> QED BY <2>1, <4>1, ToldOnDisk
    <3> QED BY <1>4, <3>1, <3>2
  <2> QED BY <1>1, <2>4, <2>5, <2>6 DEF Promise!Close
<1>5. CASE Reset
  <2>1. pc = "idle" /\ disk \in State /\ disk' = NoState
    BY <1>0, <1>5 DEF Reset
  <2>2. rounds' = <<>> /\ checks' = <<>> /\ told' = "none"
    BY <2>1 DEF rounds, checks, told, Recorded
  <2>3. told # "none" /\ at = "rest"
    BY <2>1, ToldOnDisk DEF at
  <2> QED BY <1>1, <2>2, <2>3 DEF Promise!Forget
<1> QED BY <1>3, <1>4, <1>5 DEF AtRest

\* Everything the mapping relies on.
ReviewInv ==
    IInv /\ BooksInv /\ ReportInv /\ AskInv /\ JudgedInv /\ CheckedInv /\ StopInv

\* It holds of every state a run, its end or its death can leave.
LEMMA ReviewInvHolds == Spec => []ReviewInv
<1>1. Init => BooksInv /\ ReportInv /\ AskInv /\ JudgedInv /\ CheckedInv /\ StopInv
  <2> SUFFICES ASSUME Init
               PROVE  BooksInv /\ ReportInv /\ AskInv /\ JudgedInv /\ CheckedInv /\ StopInv
    OBVIOUS
  <2>1. pc = "idle" /\ disk = NoState /\ st = FreshState /\ resume = FALSE /\ ~Recorded
    BY DEF Init, Recorded
  <2>2. BooksInv /\ JudgedInv /\ CheckedInv
    BY <2>1 DEF BooksInv, JudgedInv, CheckedInv, Judging, Validating, Opening
  <2>3. ReportInv
    BY <2>1 DEF ReportInv, DeathIsReported
  <2>4. Asker(FreshState) /\ Counted(FreshState)
    BY DEF Asker, Counted, FreshState
  <2>5. AskInv /\ StopInv
    BY <2>1, <2>4 DEF AskInv, StopInv
  <2> QED BY <2>2, <2>3, <2>5
<1>2. IInv /\ BooksInv /\ [Next]_vars => BooksInv'
  BY BooksKept
<1>3. IInv /\ ReportInv /\ [Next]_vars => ReportInv'
  BY ReportKept
<1>4. IInv /\ AskInv /\ [Next]_vars => AskInv'
  BY AskKept
<1>5. IInv /\ JudgedInv /\ [Next]_vars => JudgedInv'
  BY JudgedKept
<1>6. IInv /\ CheckedInv /\ [Next]_vars => CheckedInv'
  BY CheckedKept
<1>7. IInv /\ BooksInv /\ ReportInv /\ StopInv /\ [Next]_vars => StopInv'
  BY StopKept
<1> QED BY <1>1, <1>2, <1>3, <1>4, <1>5, <1>6, <1>7, TypesInvariant, PTL DEF Spec, ReviewInv

\* Whatever kills a run, and whatever the author does to the branch meanwhile, the runs keep
\* the promise of Review: one verdict a round and one question a review, results only for
\* approved rounds, READY TO MERGE told only of a round that passed in the same run, no death
\* taken for a result (_rerun_bookkeeping, _stages, _validate_and_finish, _record_stop,
\* run_died, cmd_stop).
THEOREM KeepsReviewHolds == Spec => KeepsReview
<1>1. Init => Promise!Init
  BY DEF Init, Promise!Init, rounds, checks, at, told, Recorded
<1>2. ReviewInv /\ ReviewInv' /\ [Next]_vars
        => [Promise!Next]_<<rounds, checks, at, told>>
  <2> SUFFICES ASSUME ReviewInv, ReviewInv', [Next]_vars
               PROVE  Promise!Next \/ UNCHANGED <<rounds, checks, at, told>>
    OBVIOUS
  <2>0. /\ IInv /\ BooksInv /\ ReportInv /\ AskInv /\ JudgedInv /\ CheckedInv /\ StopInv
        /\ IInv' /\ ReportInv' /\ StopInv'
    BY DEF ReviewInv
  <2>1. ASSUME NEW d \in BOOLEAN, StartRun(d) PROVE Promise!Next
    BY <2>0, <2>1, StartMaps DEF Promise!Next
  <2>2. CASE Preparing
    BY <2>0, <2>2, PreparingMaps DEF Promise!Next
  <2>3. CASE Outcome
    BY <2>0, <2>3, OutcomeMaps DEF Promise!Next
  <2>4. CASE Finish
    BY <2>0, <2>4, FinishMaps DEF Promise!Next
  <2>5. CASE RecordStop
    BY <2>0, <2>5, RecordStopMaps DEF Promise!Next
  <2>6. CASE Raise
    BY <2>0, <2>6, RaiseMaps DEF Promise!Next
  <2>7. CASE MarkReady
    BY <2>7, MarkReadyUnseen
  <2>8. CASE BaselineEnds \/ CommitTests
    BY <2>0, <2>8, WorkMaps DEF Promise!Next
  <2>9. CASE Bookkeeping
    BY <2>0, <2>9, BookkeepingMaps DEF Promise!Next
  <2>10. CASE RecordRound
    BY <2>0, <2>10, RecordMaps DEF Promise!Next
  <2>11. CASE Validates
    BY <2>0, <2>11, ValidationMaps DEF Promise!Next
  <2>12. CASE AtRest
    BY <2>0, <2>12, RestMaps DEF Promise!Next
  <2>13. CASE Beside
    BY <2>13 DEF Beside, runVars, rounds, checks, at, told, Recorded
  <2> QED BY <2>1, <2>2, <2>3, <2>4, <2>5, <2>6, <2>7, <2>8, <2>9, <2>10, <2>11, <2>12, <2>13,
     StepKinds DEF Quiet, Preparing
<1> QED BY <1>1, <1>2, ReviewInvHolds, PTL DEF Spec, KeepsReview, Promise!Spec

-----------------------------------------------------------------------------
(* Ready, whatever the author does meanwhile *)

\* The step that records READY TO MERGE: what is told is what was approved and validated.
LEMMA FinishJudges ==
    ASSUME IInv, LastInv, CheckedInv, PushedInv, Finish
    PROVE  ReadyIsJudged'
<1>0. st \in State
  BY DEF IInv, TypeOK, StateTypes
<1> SUFFICES ASSUME Ready' PROVE ReadyIsJudged'
  BY DEF ReadyIsJudged
<1>1. /\ pc = "validated"
      /\ st.last_verdict = "PASS" => disk' = SetStage(st, "ready_to_merge", 0)
      /\ st.last_verdict # "PASS" => disk' = SetStage(st, "needs_action", 2)
  BY DEF Finish, Save
<1>2. st.last_verdict = "PASS"
  <2>1. SetStage(st, "needs_action", 2).last_exit = 2
    BY <1>0 DEF SetStage, State
  <2> QED BY <1>1, <2>1 DEF Ready
<1>3. disk'.rounds = st.rounds /\ disk'.validations = st.validations
      /\ disk'.head_sha = st.head_sha
  BY <1>0, <1>1, <1>2 DEF SetStage, State
<1>4. Approved(st, ctxHead) /\ st.head_sha = ctxHead
  BY <1>1 DEF LastInv, PushedInv, Validating, Unpublished
<1>5. /\ st.validations # <<>>
      /\ Last(st.validations).round = Len(st.rounds)
      /\ Last(st.validations).result = "PASS"
      /\ Last(st.validations).head_sha = ctxHead
  BY <1>1, <1>2 DEF CheckedInv
<1> QED BY <1>3, <1>4, <1>5 DEF ReadyIsJudged, Approved, HeadAfter

\* Every step keeps it: no other records READY TO MERGE.
LEMMA JudgementKept ==
    ASSUME IInv, ReportInv, LastInv, CheckedInv, PushedInv, ReadyIsJudged, [Next]_vars
    PROVE  ReadyIsJudged'
<1>1. CASE Finish
  BY <1>1, FinishJudges
<1>2. CASE ~Finish
  <2> SUFFICES ASSUME Ready' PROVE ReadyIsJudged'
    BY DEF ReadyIsJudged
  <2>1. Ready /\ disk' = disk
    BY <1>2, ReadyComes
  <2> QED BY <2>1 DEF ReadyIsJudged
<1> QED BY <1>1, <1>2

\* ReadyIsJudged, for every value of the other constants: no timing of the author's gets READY
\* TO MERGE told of a head that the last round did not approve or that no passing validation of
\* that round names (_stages, run_validation, _validate_and_finish). Left out is an author who
\* moves HEAD between check and command on a branch whose .gitignore line the run commits: that
\* a resumed run never commits it on top of what was approved then rests on GitHub refusing the
\* push, which is not proved here.
THEOREM ReadyIsJudgedHolds ==
    ASSUME TreeIsOurs \/ Ignored = TRUE
    PROVE  Spec => []ReadyIsJudged
<1> DEFINE Steady == TreeIsOurs => SettledInv
           Ahead == Ignored = TRUE => BranchInv /\ RoundInv /\ IgnoringInv /\ LastInv
           Pushes == BranchInv /\ RoundInv /\ LastInv /\ PushedInv
<1>1. Init => Steady /\ Ahead /\ Pushes /\ ReadyIsJudged
  <2> SUFFICES ASSUME Init PROVE Steady /\ Ahead /\ Pushes /\ ReadyIsJudged
    OBVIOUS
  <2>1. SettledInv /\ ~Ready
    BY SettledInit DEF Init, Ready, Recorded
  <2>2. IgnoringInv
    BY DEF Init, IgnoringInv
  <2> QED BY <2>1, <2>2 DEF SettledInv, ReadyIsJudged
<1>2. IInv /\ Steady /\ [Next]_vars => Steady'
  BY SettledKept DEF TreeIsOurs
<1>3. IInv /\ Ahead /\ [Next]_vars => Ahead'
  <2> SUFFICES ASSUME IInv, Ignored = TRUE, BranchInv, RoundInv, IgnoringInv, LastInv, [Next]_vars
               PROVE  BranchInv' /\ RoundInv' /\ IgnoringInv' /\ LastInv'
    OBVIOUS
  <2>1. NoLineInv
    BY DEF IgnoringInv, NoLineInv
  <2> QED BY <2>1, BranchKept, RoundProgress, IgnoringKept, LastKept
<1>4. IInv /\ Steady /\ Ahead /\ Pushes /\ Steady' /\ Ahead' /\ [Next]_vars => Pushes'
  <2> SUFFICES ASSUME IInv, Steady, Ahead, Pushes, Steady', Ahead', [Next]_vars PROVE Pushes'
    OBVIOUS
  <2>1. TreeIsOurs => WindowInv
    BY DEF SettledInv
  <2>2. BranchInv' /\ RoundInv' /\ PushedInv'
    BY <2>1, BranchKept, RoundProgress, PushedKept
  <2>3. LastInv'
    BY DEF SettledInv, TreeIsOurs
  <2> QED BY <2>2, <2>3
<1>5. ReviewInv /\ Pushes /\ ReadyIsJudged /\ [Next]_vars => ReadyIsJudged'
  BY JudgementKept DEF ReviewInv
<1>6. ReviewInv => IInv
  BY DEF ReviewInv
<1> HIDE DEF Steady, Ahead, Pushes
<1> QED BY <1>1, <1>2, <1>3, <1>4, <1>5, <1>6, ReviewInvHolds, PTL DEF Spec

=============================================================================
