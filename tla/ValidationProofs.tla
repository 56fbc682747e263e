-------------------------- MODULE ValidationProofs --------------------------
(***************************************************************************)
(* What Validation promises, for every set of tests and steps and every    *)
(* bound: the session on the branch alone decides a validation, and every  *)
(* issue the record names is one that was opened for those tests.          *)
(***************************************************************************)
EXTENDS Validation, FiniteSetTheorems, WellFoundedInduction, TLAPS

-----------------------------------------------------------------------------
(* The verdict *)

\* Where run_validation is tells what the session on the branch came to.
VerdictInv ==
    /\ at \in {"off", "session", "base", "diagnose", "issue"}
    /\ which \subseteq Steps
    /\ at \in {"base", "diagnose", "issue"} => broken \in TestSteps
    /\ at # "off" => ended = ""
    /\ at = "session" => broken = ""
    /\ EnvironmentIsNoVerdict
    /\ FailStands

LEMMA VerdictStart == VInit => VerdictInv
BY DEF VInit, VerdictInv, EnvironmentIsNoVerdict, FailStands, TestSteps, Environment

LEMMA VerdictStep == VerdictInv /\ [VNext]_allVars => VerdictInv'
<1> SUFFICES ASSUME VerdictInv, [VNext]_allVars PROVE VerdictInv'
  OBVIOUS
<1> USE DEF VerdictInv, EnvironmentIsNoVerdict, FailStands, TestSteps, Environment, Finish
<1>1. CASE Choose
  BY <1>1 DEF Choose, WithFiles
<1>2. CASE Session
  <2>1. PICK o \in Outcomes(which) :
          /\ broken' = o.failed
          /\ IF o.kind # "report" THEN Finish("error")
             ELSE IF o.failed = "" THEN Finish("PASS")
             ELSE IF ~IsVerdict(o.failed) THEN Finish("error")
             ELSE at' = "base" /\ UNCHANGED <<files, which, ended>>
    BY <1>2 DEF Session
  <2>2. o.failed \in which \cup {""} /\ (o.kind # "report" => o.failed = "")
    BY DEF Outcomes
  <2>3. o.failed \in {"", "setup", "build", "test", "new_test"}
    BY <2>2, ValidationAssumption
  <2> QED
    BY <2>1, <2>2, <2>3, <1>2 DEF Session, IsVerdict
<1>3. CASE Rerun
  BY <1>3 DEF Rerun
<1>4. CASE ReadEvidence
  BY <1>4 DEF ReadEvidence, DiagnosisMissing
<1>5. CASE OpenIssue \/ IssueTimesOut
  BY <1>5 DEF OpenIssue, IssueTimesOut, vvars
<1>6. CASE RecordFail
  BY <1>6 DEF RecordFail
<1>7. CASE DieAnywhere
  BY <1>7 DEF DieAnywhere
<1>8. CASE ResetBetween
  BY <1>8 DEF ResetBetween, vvars
<1>9. CASE UNCHANGED allVars
  BY <1>9 DEF allVars, vvars
<1> QED
  BY <1>1, <1>2, <1>3, <1>4, <1>5, <1>6, <1>7, <1>8, <1>9 DEF VNext

LEMMA VerdictAlways == VSpec => []VerdictInv
BY VerdictStart, VerdictStep, PTL DEF VSpec

(***************************************************************************)
(* A validation is recorded as FAIL when a test step failed on the branch, *)
(* never for setup, build or the sandbox; a PASS had no failed step        *)
(* (run_validation).                                                       *)
(***************************************************************************)
THEOREM SessionDecides == VSpec => []EnvironmentIsNoVerdict
<1>1. VerdictInv => EnvironmentIsNoVerdict
  BY DEF VerdictInv
<1> QED
  BY <1>1, VerdictAlways, PTL

(***************************************************************************)
(* No error of the rerun on the base, the diagnosis or the issue takes the *)
(* place of a failed test: it is recorded, but for a kill and for a        *)
(* ProcTimeout, of the rerun's sandbox, of gh label list or of gh issue    *)
(* create (rerun_on_base, _diagnose, maybe_open).                          *)
(***************************************************************************)
THEOREM FailureStands == VSpec => []FailStands
<1>1. VerdictInv => FailStands
  BY DEF VerdictInv
<1> QED
  BY <1>1, VerdictAlways, PTL

-----------------------------------------------------------------------------
(* The record of issues *)

Known(list) == \A i \in DOMAIN list :
    list[i].number \in DOMAIN opened /\ opened[list[i].number].tests = list[i].tests

\* Besides the record: between gh's answer and the save the number is that of an issue
\* opened for the failing tests.
RecordInv ==
    /\ opened \in Seq([tests : SUBSET Tests, validation : Nat])
    /\ issues \in Seq([number : Nat, tests : SUBSET Tests])
    /\ disk.issues \in Seq([number : Nat, tests : SUBSET Tests]) /\ "issues" \in DOMAIN disk
    /\ failing \subseteq Tests /\ validations \in Nat
    /\ Known(issues) /\ Known(disk.issues)
    /\ pc = "keep" => answer \in DOMAIN opened /\ opened[answer].tests = failing

\* More issues on GitHub leave the recorded ones what they are.
LEMMA KnownLasts ==
    ASSUME opened \in Seq([tests : SUBSET Tests, validation : Nat]),
           NEW e \in [tests : SUBSET Tests, validation : Nat], opened' = Append(opened, e),
           NEW list, Known(list)
    PROVE  \A i \in DOMAIN list :
               list[i].number \in DOMAIN opened' /\ opened'[list[i].number].tests = list[i].tests
<1> SUFFICES ASSUME NEW i \in DOMAIN list
             PROVE  list[i].number \in DOMAIN opened'
                        /\ opened'[list[i].number].tests = list[i].tests
  OBVIOUS
<1>1. list[i].number \in DOMAIN opened /\ opened[list[i].number].tests = list[i].tests
  BY DEF Known
<1>2. \A n \in DOMAIN opened : n \in DOMAIN opened' /\ opened'[n] = opened[n]
  OBVIOUS
<1> QED
  BY <1>1, <1>2

LEMMA NothingKnown ==
    /\ "issues" \in DOMAIN NoState /\ NoState.issues = <<>>
    /\ DOMAIN <<>> = {} /\ <<>> \in Seq([number : Nat, tests : SUBSET Tests])
<1>1. DOMAIN NoState = {"issues", "effect", "linked"}
  BY DEF NoState
<1>2. NoState.issues = <<>>
  BY DEF NoState
<1> QED
  BY <1>1, <1>2

LEMMA RecordStart == VInit => RecordInv
<1> SUFFICES ASSUME VInit PROVE RecordInv
  OBVIOUS
<1>1. /\ opened = <<>> /\ issues = <<>> /\ disk = NoState
      /\ failing = {} /\ validations = 0 /\ pc # "keep"
  BY DEF VInit, Init
<1>2. <<>> \in Seq([tests : SUBSET Tests, validation : Nat])
  OBVIOUS
<1> QED
  BY <1>1, <1>2, NothingKnown DEF RecordInv, Known

LEMMA CreateKeeps == RecordInv /\ Create => RecordInv'
<1> SUFFICES ASSUME RecordInv, Create PROVE RecordInv'
  OBVIOUS
<1>1. CASE Open
  <2> DEFINE e == [tests |-> failing, validation |-> validations]
  <2>1. opened' = Append(opened, e) /\ e \in [tests : SUBSET Tests, validation : Nat]
    BY <1>1 DEF Open, RecordInv
  <2>2. /\ opened' \in Seq([tests : SUBSET Tests, validation : Nat])
        /\ Len(opened) + 1 \in DOMAIN opened' /\ opened'[Len(opened) + 1] = e
    BY <2>1 DEF RecordInv
  <2>3. UNCHANGED <<issues, disk, failing, validations>>
    BY DEF Create
  <2>4. pc' = "keep" => answer' = Len(opened) + 1
    BY <1>1, <2>1 DEF Create, RecordInv
  <2>5. Known(issues)' /\ Known(disk.issues)'
    BY <2>1, <2>3, KnownLasts DEF RecordInv, Known
  <2> QED
    BY <2>2, <2>3, <2>4, <2>5 DEF RecordInv
<1>2. CASE UNCHANGED opened /\ pc' # "keep"
  BY <1>2 DEF Create, RecordInv, Known
<1> QED
  BY <1>1, <1>2 DEF Create

LEMMA TimeOutKeeps == RecordInv /\ TimeOut => RecordInv'
<1> SUFFICES ASSUME RecordInv, TimeOut PROVE RecordInv'
  OBVIOUS
<1>1. /\ issues' = <<>> /\ failing' = {} /\ pc' = "idle"
      /\ UNCHANGED <<disk, validations>> /\ (Open \/ UNCHANGED opened)
  BY DEF TimeOut
<1>2. CASE Open
  <2> DEFINE e == [tests |-> failing, validation |-> validations]
  <2>1. opened' = Append(opened, e) /\ e \in [tests : SUBSET Tests, validation : Nat]
    BY <1>2 DEF Open, RecordInv
  <2>2. opened' \in Seq([tests : SUBSET Tests, validation : Nat])
    BY <2>1 DEF RecordInv
  <2>3. Known(disk.issues)'
    BY <1>1, <2>1, KnownLasts DEF RecordInv, Known
  <2> QED
    BY <1>1, <2>2, <2>3, NothingKnown DEF RecordInv, Known
<1>3. CASE UNCHANGED opened
  BY <1>1, <1>3, NothingKnown DEF RecordInv, Known
<1> QED
  BY <1>1, <1>2, <1>3

LEMMA KeepKeeps == RecordInv /\ Keep => RecordInv'
<1> SUFFICES ASSUME RecordInv, Keep PROVE RecordInv'
  OBVIOUS
<1> DEFINE e == [number |-> answer, tests |-> failing]
<1>1. /\ issues' = Append(issues, e) /\ disk'.issues = issues' /\ "issues" \in DOMAIN disk'
      /\ UNCHANGED <<opened, failing, validations>> /\ pc' = "record"
  BY DEF Keep, RecordInv
<1>2. /\ e \in [number : Nat, tests : SUBSET Tests]
      /\ e.number \in DOMAIN opened /\ opened[e.number].tests = e.tests
  BY DEF Keep, RecordInv
<1>3. issues' \in Seq([number : Nat, tests : SUBSET Tests])
  BY <1>1, <1>2 DEF RecordInv
<1>4. Known(issues)'
  <2> SUFFICES ASSUME NEW i \in DOMAIN issues'
               PROVE  issues'[i].number \in DOMAIN opened
                          /\ opened[issues'[i].number].tests = issues'[i].tests
    BY <1>1 DEF Known
  <2>1. (i \in DOMAIN issues /\ issues'[i] = issues[i]) \/ issues'[i] = e
    BY <1>1, <1>2 DEF RecordInv
  <2> QED
    BY <2>1, <1>2 DEF RecordInv, Known
<1> QED
  BY <1>1, <1>3, <1>4 DEF RecordInv, Known

LEMMA RecordStep == RecordInv /\ [VNext]_allVars => RecordInv'
<1> SUFFICES ASSUME RecordInv, [VNext]_allVars PROVE RecordInv'
  OBVIOUS
<1>1. CASE UNCHANGED vars
  BY <1>1 DEF vars, RecordInv, Known
<1>2. CASE Diagnose
  BY <1>2 DEF Diagnose, RecordInv, Known
<1>3. CASE Ask
  BY <1>3 DEF Ask, RecordInv, Known
<1>4. CASE Intend \/ GiveUp
  BY <1>4 DEF Intend, GiveUp, RecordInv, Known
<1>5. CASE Create
  BY <1>5, CreateKeeps
<1>6. CASE Keep
  BY <1>6, KeepKeeps
<1>7. CASE Record
  BY <1>7 DEF Record, RecordInv, Known
<1>8. CASE Die
  BY <1>8 DEF Die, RecordInv, Known
<1>12. CASE TimeOut
  BY <1>12, TimeOutKeeps
<1>9. CASE Reset
  BY <1>9, NothingKnown DEF Reset, RecordInv, Known
<1>10. CASE DieAnywhere
  BY <1>10, <1>8 DEF DieAnywhere, RecordInv, Known
<1>11. CASE UNCHANGED allVars
  BY <1>11, <1>1 DEF allVars
<1> QED
  BY <1>1, <1>2, <1>3, <1>4, <1>5, <1>6, <1>7, <1>9, <1>10, <1>11, <1>12
     DEF VNext, Choose, Session, Rerun, ReadEvidence, DiagnosisMissing, OpenIssue, IssueTimesOut,
         RecordFail, ResetBetween

LEMMA RecordAlways == VSpec => []RecordInv
BY RecordStart, RecordStep, PTL DEF VSpec

(***************************************************************************)
(* Whatever was lost, retried or killed between gh issue create and the    *)
(* save, every recorded issue is one that exists under that number and     *)
(* names those tests (maybe_open).                                         *)
(***************************************************************************)
THEOREM IssuesAreReal == VSpec => []RecordedAsOpened
<1>1. RecordInv => RecordedAsOpened
  BY DEF RecordInv, RecordedAsOpened, Known
<1> QED
  BY <1>1, RecordAlways, PTL

-----------------------------------------------------------------------------
(* The issues already_open answers *)

\* A set of numbers up to n that is not empty has a least and a greatest one.
LEMMA LeastAndGreatest ==
    ASSUME NEW n \in Nat, NEW S \in SUBSET (0 .. n), S # {}
    PROVE  /\ \E x \in S : \A y \in S : x <= y
           /\ Max(S) \in S /\ \A y \in S : Max(S) >= y
<1>1. ASSUME NEW U \in SUBSET Nat, U # {}
      PROVE  \E x \in U : \A y \in U : x <= y
  <2>1. PICK x \in U : \A y \in U : <<y, x>> \notin OpToRel(<, Nat)
    BY <1>1, NatLessThanWellFounded, WFMin, Zenon
  <2>2. \A y \in U : ~(y < x)
    BY <2>1 DEF OpToRel
  <2> QED BY <2>2
<1>2. \E x \in S : \A y \in S : x <= y
  <2>1. S \in SUBSET Nat
    OBVIOUS
  <2> QED BY <1>1, <2>1, Zenon
<1>3. \E x \in S : \A y \in S : x >= y
  <2> DEFINE U == {n - y : y \in S}
  <2>0. \A y \in S : y \in 0 .. n
    OBVIOUS
  <2>1. U \in SUBSET Nat /\ U # {}
    <3>1. \A y \in S : n - y \in Nat
      BY <2>0
    <3> QED BY <3>1
  <2>2. PICK u \in U : \A v \in U : u <= v
    BY <1>1, <2>1, Zenon
  <2>3. PICK x \in S : u = n - x
    OBVIOUS
  <2>4. \A y \in S : n - x <= n - y
    BY <2>2, <2>3
  <2> QED BY <2>3, <2>4
<1> QED BY <1>2, <1>3 DEF Max

\* The thinning up to each position.
Thins(named, wanted, f, m) ==
    f = [i \in 0 .. m |-> IF i = 0 THEN {} ELSE Thinned(named, wanted, f[i - 1], i)]

LEMMA ThinningExists ==
    ASSUME NEW named, NEW wanted, NEW n \in Nat
    PROVE  \E f : Thins(named, wanted, f, n)
<1> DEFINE Missing == {m \in 0 .. n : ~ \E f : Thins(named, wanted, f, m)}
<1> SUFFICES ASSUME Missing # {} PROVE FALSE
  OBVIOUS
<1>1. Missing \in SUBSET (0 .. n)
  OBVIOUS
<1>2. PICK m \in Missing : \A k \in Missing : m <= k
  BY <1>1, LeastAndGreatest
<1>3. m \in 0 .. n /\ ~ \E f : Thins(named, wanted, f, m)
  OBVIOUS
<1>4. CASE m = 0
  <2> DEFINE f == [i \in 0 .. 0 |-> {}]
  <2>1. f = [i \in 0 .. 0 |-> IF i = 0 THEN {} ELSE Thinned(named, wanted, f[i - 1], i)]
    OBVIOUS
  <2> HIDE DEF f
  <2> QED BY <1>3, <1>4, <2>1 DEF Thins
<1>5. CASE m > 0
  <2>1. m - 1 \in 0 .. n /\ m - 1 \notin Missing
    BY <1>2, <1>3, <1>5
  <2>2. PICK f : Thins(named, wanted, f, m - 1)
    BY <2>1
  <2> DEFINE g == [i \in 0 .. m |-> IF i = m THEN Thinned(named, wanted, f[m - 1], m) ELSE f[i]]
  <2>3. \A i \in 0 .. m - 1 : g[i] = f[i]
    BY <1>3
  <2>4. g[m] = Thinned(named, wanted, g[m - 1], m)
    BY <1>3, <1>5, <2>3
  <2>5. \A i \in 0 .. m - 1 :
            f[i] = IF i = 0 THEN {} ELSE Thinned(named, wanted, f[i - 1], i)
    BY <2>2, <1>3 DEF Thins
  <2>6. \A i \in 0 .. m - 1 :
            g[i] = IF i = 0 THEN {} ELSE Thinned(named, wanted, g[i - 1], i)
    <3> TAKE i \in 0 .. m - 1
    <3>1. i = 0 \/ i - 1 \in 0 .. m - 1
      BY <1>3
    <3> HIDE DEF g
    <3> QED BY <3>1, <2>3, <2>5
  <2>7. g = [i \in 0 .. m |-> g[i]]
    OBVIOUS
  <2> HIDE DEF g
  <2>8. \A i \in 0 .. m :
            g[i] = IF i = 0 THEN {} ELSE Thinned(named, wanted, g[i - 1], i)
    BY <1>3, <1>5, <2>4, <2>6
  <2>9. g = [i \in 0 .. m |-> IF i = 0 THEN {} ELSE Thinned(named, wanted, g[i - 1], i)]
    BY <2>7, <2>8
  <2> QED BY <1>3, <2>9 DEF Thins
<1> QED BY <1>3, <1>4, <1>5

\* Position by position.
Stepwise(named, wanted, f, n) ==
    f[0] = {} /\ \A i \in 1 .. n : f[i] = Thinned(named, wanted, f[i - 1], i)

\* Kept is what the thinning of every position comes to.
LEMMA KeptIs ==
    ASSUME NEW named, NEW wanted, Len(named) \in Nat
    PROVE  \E f : /\ f[Len(named)] = Kept(named, wanted)
                  /\ Stepwise(named, wanted, f, Len(named))
<1> DEFINE n == Len(named)
           f == CHOOSE f : Thins(named, wanted, f, n)
<1>1. n \in Nat /\ Thins(named, wanted, f, n)
  BY ThinningExists
<1>2. Kept(named, wanted) = f[n]
  BY DEF Kept, Thins
<1> HIDE DEF f, n
<1>3. \A i \in 0 .. n : f[i] = IF i = 0 THEN {} ELSE Thinned(named, wanted, f[i - 1], i)
  BY <1>1 DEF Thins
<1>4. Stepwise(named, wanted, f, n)
  BY <1>1, <1>3 DEF Stepwise
<1> QED BY <1>2, <1>4 DEF n

\* What is kept of the first positions is decided there.
LEMMA KeptByPosition ==
    ASSUME NEW named, NEW wanted, NEW n \in Nat, NEW f, Stepwise(named, wanted, f, n)
    PROVE  \A m \in 0 .. n : \A i \in 0 .. m : f[m] \cap (1 .. i) = f[i] /\ f[i] \subseteq 1 .. i
<1> DEFINE Settled(m) == \A i \in 0 .. m : f[m] \cap (1 .. i) = f[i] /\ f[i] \subseteq 1 .. i
           Wrong == {m \in 0 .. n : ~Settled(m)}
<1> SUFFICES ASSUME Wrong # {} PROVE FALSE
  OBVIOUS
<1>1. Wrong \in SUBSET (0 .. n)
  OBVIOUS
<1>2. PICK m \in Wrong : \A k \in Wrong : m <= k
  BY <1>1, LeastAndGreatest
<1>3. m \in 0 .. n /\ ~Settled(m)
  OBVIOUS
<1>4. Settled(0)
  BY DEF Stepwise
<1>5. m > 0
  BY <1>3, <1>4
<1>6. m - 1 \in 0 .. n /\ Settled(m - 1)
  BY <1>2, <1>3, <1>5
<1>7. f[m] = f[m - 1] \/ f[m] = f[m - 1] \cup {m}
  <2>1. f[m] = Thinned(named, wanted, f[m - 1], m)
    BY <1>3, <1>5 DEF Stepwise
  <2> QED BY <2>1 DEF Thinned
<1>8. f[m - 1] \subseteq 1 .. (m - 1)
  BY <1>3, <1>5, <1>6
<1>9. Settled(m)
  <2> SUFFICES ASSUME NEW i \in 0 .. m
               PROVE  f[m] \cap (1 .. i) = f[i] /\ f[i] \subseteq 1 .. i
    OBVIOUS
  <2>1. CASE i = m
    BY <2>1, <1>3, <1>5, <1>7, <1>8
  <2>2. CASE i # m
    <3>1. i \in 0 .. m - 1
      BY <2>2, <1>3
    <3>2. f[m - 1] \cap (1 .. i) = f[i] /\ f[i] \subseteq 1 .. i
      BY <1>6, <3>1
    <3>3. f[m] \cap (1 .. i) = f[m - 1] \cap (1 .. i)
      BY <1>3, <1>7, <3>1
    <3> QED BY <3>2, <3>3
  <2> QED BY <2>1, <2>2
<1> QED BY <1>3, <1>9

\* The issues kept name all that is wanted and each of them a test that no newer one names and no
\* other kept one.
LEMMA KeptNamesAll ==
    ASSUME NEW named, NEW wanted, Len(named) \in Nat, DOMAIN named = 1 .. Len(named)
    PROVE  LET kept == Kept(named, wanted)
           IN  /\ kept \subseteq DOMAIN named
               /\ wanted \subseteq NamedBy(named, DOMAIN named) => wanted \subseteq NamedBy(named, kept)
               /\ \A i \in kept : \E t \in wanted \cap named[i] :
                      /\ t \notin NamedBy(named, Newer(named, i))
                      /\ t \notin NamedBy(named, kept \ {i})
<1> DEFINE n == Len(named)
           kept == Kept(named, wanted)
           A(i) == Adds(named, wanted, i)
<1>1. PICK f : f[n] = kept /\ Stepwise(named, wanted, f, n)
  BY KeptIs
<1>2. \A m \in 0 .. n : \A i \in 0 .. m : f[m] \cap (1 .. i) = f[i] /\ f[i] \subseteq 1 .. i
  <2>1. n \in Nat
    OBVIOUS
  <2> QED BY <1>1, <2>1, KeptByPosition
<1>3. \A i \in 0 .. n : kept \cap (1 .. i) = f[i] /\ f[i] \subseteq 1 .. i
  BY <1>1, <1>2
<1>4. kept \subseteq DOMAIN named
  BY <1>1, <1>3
<1> HIDE DEF n, kept
<1>5. n \in Nat /\ DOMAIN named = 1 .. n
  BY DEF n
<1>6. ASSUME NEW i \in 1 .. n PROVE A(i) \subseteq NamedBy(named, kept)
  <2>1. f[i] = Thinned(named, wanted, f[i - 1], i)
    BY <1>1 DEF Stepwise
  <2>2. f[i] \subseteq kept /\ f[i - 1] \subseteq kept
    BY <1>3, <1>5
  <2>3. CASE i \in Picked(named, wanted) /\ ~ (A(i) \subseteq NamedBy(named, f[i - 1]))
    <3>1. i \in kept
      BY <2>1, <2>2, <2>3 DEF Thinned
    <3> QED BY <3>1 DEF Adds, NamedBy
  <2>4. CASE i \notin Picked(named, wanted)
    BY <2>4, <1>5 DEF Picked
  <2>5. CASE A(i) \subseteq NamedBy(named, f[i - 1])
    BY <2>5, <2>2 DEF NamedBy
  <2> QED BY <2>3, <2>4, <2>5
<1>7. ASSUME wanted \subseteq NamedBy(named, DOMAIN named), NEW t \in wanted
      PROVE  t \in NamedBy(named, kept)
  <2> DEFINE S == {i \in 1 .. n : t \in named[i]}
  <2>1. S \in SUBSET (0 .. n) /\ S # {}
    BY <1>5, <1>7 DEF NamedBy
  <2>2. Max(S) \in S /\ \A y \in S : Max(S) >= y
    BY <1>5, <2>1, LeastAndGreatest
  <2> DEFINE j == Max(S)
  <2>3. j \in 1 .. n /\ t \in named[j]
    BY <2>2
  <2>4. t \notin NamedBy(named, Newer(named, j))
    <3> SUFFICES ASSUME NEW y \in 1 .. n, y > j, t \in named[y] PROVE FALSE
      BY <1>5 DEF NamedBy, Newer
    <3>1. j >= y
      BY <2>2
    <3> HIDE DEF j
    <3> QED BY <3>1, <2>3
  <2>5. t \in A(j)
    BY <1>7, <2>3, <2>4 DEF Adds
  <2> QED BY <2>3, <2>5, <1>6
<1>8. ASSUME NEW i \in kept
      PROVE  \E t \in wanted \cap named[i] :
                 /\ t \notin NamedBy(named, Newer(named, i))
                 /\ t \notin NamedBy(named, kept \ {i})
  <2>1. i \in 1 .. n
    BY <1>4, <1>5 DEF kept
  <2>2. i \in f[i] /\ i \notin f[i - 1] /\ f[i - 1] = kept \cap (1 .. (i - 1))
    BY <2>1, <1>3, <1>5
  <2>3. f[i] = Thinned(named, wanted, f[i - 1], i)
    BY <1>1, <2>1 DEF Stepwise
  <2>4. PICK t \in A(i) : t \notin NamedBy(named, f[i - 1])
    BY <2>2, <2>3 DEF Thinned
  <2>5. t \in wanted \cap named[i] /\ t \notin NamedBy(named, Newer(named, i))
    BY <2>4 DEF Adds
  <2>6. kept \ {i} \subseteq f[i - 1] \cup Newer(named, i)
    <3> SUFFICES ASSUME NEW k \in kept, k # i, k \notin Newer(named, i) PROVE k \in f[i - 1]
      OBVIOUS
    <3>1. k \in 1 .. n /\ k <= i
      BY <1>4, <1>5, <2>1 DEF kept, Newer
    <3> QED BY <3>1, <2>1, <2>2
  <2>7. t \notin NamedBy(named, kept \ {i})
    BY <2>4, <2>5, <2>6 DEF NamedBy
  <2> QED BY <2>5, <2>7
<1> QED BY <1>4, <1>7, <1>8 DEF kept

\* Each answer of already_open: some when the issues name all that is wanted between them, and then
\* they do, each with a test of its own.
LEMMA OpenAnswers ==
    ASSUME NEW named, NEW wanted, wanted # {}, Len(named) \in Nat, DOMAIN named = 1 .. Len(named)
    PROVE  LET known == AlreadyOpen(named, wanted)
           IN  /\ known \subseteq DOMAIN named
               /\ wanted \subseteq NamedBy(named, DOMAIN named) <=> known # {}
               /\ known # {} => wanted \subseteq NamedBy(named, known)
               /\ \A i \in known : ~ (wanted \cap named[i] \subseteq NamedBy(named, known \ {i}))
               /\ \A i \in DOMAIN named :
                      wanted \subseteq named[i] => \E j \in known : j >= i /\ known = {j}
               /\ Cardinality(known) > 1 =>
                      \A i \in known :
                          ~ (wanted \cap named[i] \subseteq NamedBy(named, Newer(named, i)))
<1> DEFINE known == AlreadyOpen(named, wanted)
           alone == Alone(named, wanted)
           kept  == Kept(named, wanted)
<1>1. /\ kept \subseteq DOMAIN named
      /\ wanted \subseteq NamedBy(named, DOMAIN named) => wanted \subseteq NamedBy(named, kept)
      /\ \A i \in kept : \E t \in wanted \cap named[i] :
             /\ t \notin NamedBy(named, Newer(named, i))
             /\ t \notin NamedBy(named, kept \ {i})
  BY KeptNamesAll
<1>2. alone = {i \in DOMAIN named : wanted \subseteq named[i]}
  BY DEF Alone
<1>3. known = IF alone # {} THEN {Max(alone)}
              ELSE IF wanted \subseteq NamedBy(named, DOMAIN named) THEN kept ELSE {}
  BY DEF AlreadyOpen
<1> HIDE DEF known, alone, kept
<1>4. CASE alone # {}
  <2> DEFINE j == Max(alone)
  <2>1. alone \in SUBSET (0 .. Len(named))
    BY <1>2
  <2>2. j \in alone /\ \A i \in alone : j >= i
    BY <1>4, <2>1, LeastAndGreatest
  <2> HIDE DEF j
  <2>3. known = {j}
    BY <1>3, <1>4 DEF j
  <2>4. j \in DOMAIN named /\ wanted \subseteq named[j]
    BY <1>2, <2>2
  <2>5. NamedBy(named, {j}) = named[j] /\ named[j] \subseteq NamedBy(named, DOMAIN named)
    BY <2>4 DEF NamedBy
  <2>6. NamedBy(named, known \ {j}) = {}
    BY <2>3 DEF NamedBy
  <2>7. ~ (Cardinality(known) > 1)
    <3>1. Cardinality(known) = 1
      BY <2>3, FS_Singleton, Zenon
    <3> QED BY <3>1
  <2>8. \A i \in known : ~ (wanted \cap named[i] \subseteq NamedBy(named, known \ {i}))
    BY <2>3, <2>4, <2>6
  <2>9. \A i \in DOMAIN named :
            wanted \subseteq named[i] => \E k \in known : k >= i /\ known = {k}
    BY <1>2, <2>2, <2>3
  <2> QED BY <2>3, <2>4, <2>5, <2>7, <2>8, <2>9 DEF known
<1>5. CASE alone = {}
  <2>1. \A i \in DOMAIN named : ~ (wanted \subseteq named[i])
    BY <1>2, <1>5
  <2>2. NamedBy(named, {}) = {}
    BY DEF NamedBy
  <2>3. CASE wanted \subseteq NamedBy(named, DOMAIN named)
    <3>1. known = kept /\ wanted \subseteq NamedBy(named, kept)
      BY <1>1, <1>3, <1>5, <2>3
    <3>2. known # {}
      BY <2>2, <3>1
    <3> QED BY <1>1, <2>1, <2>3, <3>1, <3>2 DEF known
  <2>4. CASE ~ (wanted \subseteq NamedBy(named, DOMAIN named))
    <3>1. known = {}
      BY <1>3, <1>5, <2>4
    <3> QED BY <2>1, <2>4, <3>1 DEF known
  <2> QED BY <2>3, <2>4
<1> QED BY <1>4, <1>5

\* The tests of a list of issues, by position.
LEMMA NamedInIs ==
    ASSUME NEW list \in Seq([number : Nat, tests : SUBSET Tests])
    PROVE  /\ Len(NamedIn(list)) = Len(list) /\ Len(list) \in Nat
           /\ DOMAIN NamedIn(list) = 1 .. Len(list) /\ DOMAIN list = 1 .. Len(list)
           /\ \A i \in DOMAIN list : NamedIn(list)[i] = list[i].tests
BY DEF NamedIn

(***************************************************************************)
(* On every record a branch can come to have and for whatever fails next:  *)
(* an answer is given exactly when the recorded issues name all the tests, *)
(* the issues listed do, and each of them names one no other does          *)
(* (already_open).                                                         *)
(***************************************************************************)
THEOREM AnswersNameThemAll == VSpec => []NamesThemAll
<1>1. ASSUME RecordInv, NEW wanted \in (SUBSET Tests) \ {{}}
      PROVE  LET named == NamedIn(disk.issues)
                 known == AlreadyOpen(named, wanted)
             IN  /\ wanted \subseteq NamedBy(named, DOMAIN named) <=> known # {}
                 /\ known # {} => wanted \subseteq NamedBy(named, known)
                 /\ \A i \in known : ~ (wanted \cap named[i] \subseteq NamedBy(named, known \ {i}))
  <2> DEFINE named == NamedIn(disk.issues)
  <2>1. Len(named) \in Nat /\ DOMAIN named = 1 .. Len(named)
    BY <1>1, NamedInIs DEF RecordInv
  <2> HIDE DEF named
  <2>2. wanted # {}
    OBVIOUS
  <2> QED BY <2>1, <2>2, OpenAnswers DEF named
<1>2. RecordInv => NamesThemAll
  BY <1>1 DEF NamesThemAll
<1> QED
  BY <1>2, RecordAlways, PTL

(***************************************************************************)
(* One issue that names all the tests is preferred to any union, the       *)
(* newest of them; a union never lists an issue whose tests newer issues   *)
(* name (already_open).                                                    *)
(***************************************************************************)
THEOREM NewestIsPreferred == VSpec => []NewestPreferred
<1>1. ASSUME RecordInv, NEW wanted \in (SUBSET Tests) \ {{}}
      PROVE  LET named == NamedIn(disk.issues)
                 known == AlreadyOpen(named, wanted)
             IN  /\ \A i \in DOMAIN named :
                       wanted \subseteq named[i] => \E j \in known : j >= i /\ known = {j}
                 /\ Cardinality(known) > 1 =>
                       \A i \in known :
                           ~ (wanted \cap named[i] \subseteq NamedBy(named, Newer(named, i)))
  <2> DEFINE named == NamedIn(disk.issues)
  <2>1. Len(named) \in Nat /\ DOMAIN named = 1 .. Len(named)
    BY <1>1, NamedInIs DEF RecordInv
  <2> HIDE DEF named
  <2>2. wanted # {}
    OBVIOUS
  <2> QED BY <2>1, <2>2, OpenAnswers DEF named
<1>2. RecordInv => NewestPreferred
  BY <1>1 DEF NewestPreferred
<1> QED
  BY <1>2, RecordAlways, PTL

-----------------------------------------------------------------------------
(* Nothing is recorded twice *)

\* No issue of a list names only what the older ones name.
SaysMore(list) == \A i \in DOMAIN list :
    ~ (list[i].tests \subseteq NamedBy(NamedIn(list), 1 .. i - 1))

\* From maybe_open's look at the record to its entry there the failing tests are not all named.
OnceInv ==
    /\ RecordInv
    /\ SaysMore(issues) /\ SaysMore(disk.issues)
    /\ pc = "ask" => failing # {}
    /\ pc \in {"intend", "create", "again", "keep"} =>
           ~ (failing \subseteq NamedBy(NamedIn(issues), DOMAIN issues))

LEMMA OnceStart == VInit => OnceInv
<1> SUFFICES ASSUME VInit PROVE OnceInv
  OBVIOUS
<1>1. issues = <<>> /\ disk = NoState /\ pc = "idle"
  BY DEF VInit, Init
<1> QED BY <1>1, RecordStart, NothingKnown DEF OnceInv, SaysMore

\* What the older issues name stays what it is when another is recorded.
LEMMA SaysMoreAppended ==
    ASSUME NEW list \in Seq([number : Nat, tests : SUBSET Tests]), SaysMore(list),
           NEW e \in [number : Nat, tests : SUBSET Tests],
           ~ (e.tests \subseteq NamedBy(NamedIn(list), DOMAIN list))
    PROVE  SaysMore(Append(list, e))
<1> DEFINE longer == Append(list, e)
<1>1. /\ longer \in Seq([number : Nat, tests : SUBSET Tests])
      /\ Len(longer) = Len(list) + 1 /\ longer[Len(list) + 1] = e
      /\ \A i \in 1 .. Len(list) : longer[i] = list[i]
  OBVIOUS
<1>2. Len(list) \in Nat /\ DOMAIN list = 1 .. Len(list)
  OBVIOUS
<1> HIDE DEF longer
<1>3. DOMAIN longer = 1 .. Len(list) + 1
  BY <1>1
<1>4. \A i \in 1 .. Len(list) : NamedIn(longer)[i] = NamedIn(list)[i]
  BY <1>1, <1>2, <1>3 DEF NamedIn
<1>5. ASSUME NEW i \in 1 .. Len(list) + 1
      PROVE  ~ (longer[i].tests \subseteq NamedBy(NamedIn(longer), 1 .. i - 1))
  <2>1. \A j \in 1 .. i - 1 : j \in 1 .. Len(list)
    BY <1>2
  <2>2. NamedBy(NamedIn(longer), 1 .. i - 1) = NamedBy(NamedIn(list), 1 .. i - 1)
    BY <1>4, <2>1 DEF NamedBy
  <2>3. CASE i = Len(list) + 1
    <3>1. 1 .. i - 1 = DOMAIN list
      BY <1>2, <2>3
    <3> QED BY <1>1, <2>2, <2>3, <3>1
  <2>4. CASE i # Len(list) + 1
    <3>1. i \in DOMAIN list
      BY <1>2, <2>4
    <3> QED BY <1>1, <1>2, <2>2, <3>1 DEF SaysMore
  <2> QED BY <2>3, <2>4
<1> QED BY <1>3, <1>5 DEF SaysMore, longer

LEMMA OnceStep == OnceInv /\ [VNext]_allVars => OnceInv'
<1> SUFFICES ASSUME OnceInv, [VNext]_allVars PROVE OnceInv'
  OBVIOUS
<1>0. RecordInv /\ RecordInv'
  BY RecordStep DEF OnceInv
<1>1. CASE UNCHANGED vars
  BY <1>0, <1>1 DEF vars, OnceInv, SaysMore
<1>2. CASE Diagnose
  BY <1>0, <1>2 DEF Diagnose, OnceInv, SaysMore
<1>3. CASE Ask
  <2> DEFINE known == AlreadyOpen(NamedIn(issues), failing)
  <2>1. /\ pc = "ask" /\ UNCHANGED <<issues, disk, failing>>
        /\ pc' = IF known # {} THEN "record" ELSE "intend"
    BY <1>3 DEF Ask
  <2>2. /\ Len(NamedIn(issues)) \in Nat
        /\ DOMAIN NamedIn(issues) = 1 .. Len(NamedIn(issues)) /\ DOMAIN issues = DOMAIN NamedIn(issues)
    BY <1>0, NamedInIs DEF RecordInv
  <2>3. failing \subseteq NamedBy(NamedIn(issues), DOMAIN issues) <=> known # {}
    BY <2>1, <2>2, OpenAnswers DEF OnceInv
  <2> HIDE DEF known
  <2> QED BY <1>0, <2>1, <2>3 DEF OnceInv, SaysMore
<1>4. CASE Intend
  <2>1. disk'.issues = issues /\ UNCHANGED <<issues, failing>> /\ pc = "intend" /\ pc' = "create"
    BY <1>0, <1>4 DEF Intend, RecordInv
  <2> QED BY <1>0, <2>1 DEF OnceInv, SaysMore
<1>5. CASE GiveUp
  <2>1. disk'.issues = issues /\ UNCHANGED issues /\ pc' = "record"
    BY <1>0, <1>5 DEF GiveUp, RecordInv
  <2> QED BY <1>0, <2>1 DEF OnceInv, SaysMore
<1>6. CASE Create
  BY <1>0, <1>6 DEF Create, OnceInv, SaysMore
<1>7. CASE Keep
  <2> DEFINE e == [number |-> answer, tests |-> failing]
  <2>1. /\ issues' = Append(issues, e) /\ disk'.issues = issues' /\ pc = "keep" /\ pc' = "record"
    BY <1>0, <1>7 DEF Keep, RecordInv
  <2>2. e \in [number : Nat, tests : SUBSET Tests] /\ e.tests = failing
    BY <1>0, <2>1 DEF RecordInv
  <2>3. SaysMore(issues')
    BY <1>0, <2>1, <2>2, SaysMoreAppended DEF OnceInv, RecordInv
  <2>4. SaysMore(issues)' /\ SaysMore(disk.issues)'
    BY <2>1, <2>3 DEF SaysMore
  <2> QED BY <1>0, <2>1, <2>4 DEF OnceInv
<1>8. CASE Record
  <2>1. disk'.issues = issues /\ issues' = <<>> /\ pc' = "idle"
    BY <1>0, <1>8 DEF Record, RecordInv
  <2> QED BY <1>0, <2>1, NothingKnown DEF OnceInv, SaysMore
<1>9. CASE Die
  BY <1>0, <1>9, NothingKnown DEF Die, OnceInv, SaysMore
<1>13. CASE TimeOut
  BY <1>0, <1>13, NothingKnown DEF TimeOut, OnceInv, SaysMore
<1>10. CASE Reset
  BY <1>0, <1>10, NothingKnown DEF Reset, OnceInv, SaysMore
<1>11. CASE DieAnywhere
  BY <1>0, <1>9, <1>11 DEF DieAnywhere, OnceInv, SaysMore
<1>12. CASE UNCHANGED allVars
  BY <1>1, <1>12 DEF allVars
<1> QED
  BY <1>1, <1>2, <1>3, <1>4, <1>5, <1>6, <1>7, <1>8, <1>10, <1>11, <1>12, <1>13
     DEF VNext, Choose, Session, Rerun, ReadEvidence, DiagnosisMissing, OpenIssue, IssueTimesOut,
         RecordFail, ResetBetween

(***************************************************************************)
(* No issue is recorded whose tests the older recorded ones already name   *)
(* between them: what already_open says of the record still holds when     *)
(* maybe_open writes there, whatever was tried again, lost or killed.      *)
(***************************************************************************)
THEOREM RecordedOnce == VSpec => []NothingRecordedTwice
<1>1. OnceInv => NothingRecordedTwice
  BY DEF OnceInv, SaysMore, NothingRecordedTwice
<1> QED
  BY <1>1, OnceStart, OnceStep, PTL DEF VSpec

-----------------------------------------------------------------------------
(* Types *)

\* How often gh may still be asked for an issue by this validation.
TriesLeft == IF pc \in {"ask", "intend", "create"} THEN 2 ELSE IF pc = "again" THEN 1 ELSE 0

Issue == [tests : SUBSET Tests, validation : 1 .. MaxValidations]
Link == [tests : SUBSET Tests, issue : Numbers]
StateFile == [issues : Seq(Recorded), effect : {"", "issue"}, linked : Seq(Link)]

\* What TypeOK needs: two issues a validation at most are opened on GitHub.
TypesInv ==
    /\ opened \in Seq(Issue) /\ issues \in Seq(Recorded) /\ disk \in StateFile
    /\ pc \in {"idle", "ask", "intend", "create", "again", "keep", "give_up", "record"}
    /\ failing \subseteq Tests /\ link \subseteq DOMAIN issues /\ answer \in Numbers
    /\ validations \in 0 .. MaxValidations /\ kills \in 0 .. MaxKills /\ resets \in 0 .. MaxResets
    /\ Len(opened) + TriesLeft <= 2 * validations
    /\ pc # "idle" => validations > 0

LEMMA Bounds ==
    /\ MaxValidations \in Nat /\ MaxKills \in Nat /\ MaxResets \in Nat
    /\ Numbers = 0 .. 2 * MaxValidations
    /\ NoState \in StateFile /\ \A S : <<>> \in Seq(S)
<1>1. \A S : <<>> \in Seq(S)
  OBVIOUS
<1> QED BY <1>1, IssuesAssumption DEF Numbers, NoState, StateFile

LEMMA TypesStart == VInit => TypesInv
<1> SUFFICES ASSUME VInit PROVE TypesInv
  OBVIOUS
<1>1. /\ opened = <<>> /\ issues = <<>> /\ disk = NoState /\ pc = "idle"
      /\ failing = {} /\ link = {} /\ answer = 0
      /\ validations = 0 /\ kills = 0 /\ resets = 0
  BY DEF VInit, Init
<1>2. Len(opened) + TriesLeft <= 2 * validations
  BY <1>1 DEF TriesLeft
<1> QED BY <1>1, <1>2, Bounds DEF TypesInv

\* already_open answers with issues of the record.
LEMMA AnswersWithin ==
    ASSUME NEW named, NEW wanted, Len(named) \in Nat, DOMAIN named = 1 .. Len(named)
    PROVE  AlreadyOpen(named, wanted) \subseteq DOMAIN named
<1>1. Kept(named, wanted) \subseteq DOMAIN named
  BY KeptNamesAll
<1>2. Alone(named, wanted) # {} => Max(Alone(named, wanted)) \in DOMAIN named
  <2>1. Alone(named, wanted) \in SUBSET (0 .. Len(named)) /\ Alone(named, wanted) \subseteq DOMAIN named
    BY DEF Alone
  <2> QED BY <2>1, LeastAndGreatest
<1> QED BY <1>1, <1>2 DEF AlreadyOpen

\* The numbers of TypeOK are numbers.
LEMMA RecordedIn == \A s \in Seq(Recorded) : s \in Seq([number : Nat, tests : SUBSET Tests])
<1>1. Recorded \subseteq [number : Nat, tests : SUBSET Tests]
  BY Bounds DEF Recorded
<1>2. \A S, T : S \subseteq T => \A s \in Seq(S) : s \in Seq(T)
  OBVIOUS
<1> QED BY <1>1, <1>2

\* A step of maybe_open, of a kill or of `revali reset`.
LEMMA TypesCreate == TypesInv /\ Create => TypesInv'
<1> SUFFICES ASSUME TypesInv, Create PROVE TypesInv'
  OBVIOUS
<1>1. /\ pc \in {"create", "again"} /\ UNCHANGED <<issues, disk, failing, link, validations, kills, resets>>
      /\ validations \in 1 .. MaxValidations /\ opened \in Seq(Issue) /\ answer \in Numbers
  BY Bounds DEF Create, TypesInv
<1>2. Len(opened) \in Nat /\ Len(opened) + TriesLeft <= 2 * validations /\ TriesLeft \in 1 .. 2
  BY <1>1 DEF TypesInv, TriesLeft
<1>3. /\ opened' \in Seq(Issue) /\ Len(opened') \in {Len(opened), Len(opened) + 1}
  <2>1. CASE Open
    <3> DEFINE e == [tests |-> failing, validation |-> validations]
    <3>1. e \in Issue /\ opened' = Append(opened, e)
      BY <1>1, <2>1 DEF Open, Issue, TypesInv
    <3> HIDE DEF e
    <3> QED BY <1>1, <3>1
  <2>2. CASE UNCHANGED opened
    BY <1>1, <1>2, <2>2
  <2> QED BY <2>1, <2>2 DEF Create
<1>4. /\ pc' \in {"keep", "again", "give_up"}
      /\ pc' = "again" => pc = "create"
  BY <1>1 DEF Create
<1>5. answer' = answer \/ answer' = Len(opened) + 1
  BY DEF Create
<1>6. answer' \in Numbers
  BY <1>1, <1>2, <1>5, Bounds
<1>7. Len(opened') + TriesLeft' <= 2 * validations'
  BY <1>1, <1>2, <1>3, <1>4 DEF TriesLeft
<1>8. validations' > 0
  BY <1>1
<1> QED BY <1>1, <1>3, <1>4, <1>6, <1>7, <1>8 DEF TypesInv

LEMMA TypesTimeOut == TypesInv /\ TimeOut => TypesInv'
<1> SUFFICES ASSUME TypesInv, TimeOut PROVE TypesInv'
  OBVIOUS
<1>1. /\ pc' = "idle" /\ issues' = <<>> /\ failing' = {} /\ link' = {} /\ answer' = 0
      /\ UNCHANGED <<disk, validations, kills, resets>>
      /\ pc \in {"intend", "create", "again"} /\ validations \in 1 .. MaxValidations
      /\ opened \in Seq(Issue)
  BY Bounds DEF TimeOut, TypesInv
<1>2. Len(opened) \in Nat /\ Len(opened) + TriesLeft <= 2 * validations /\ TriesLeft \in 1 .. 2
  BY <1>1 DEF TypesInv, TriesLeft
<1>3. opened' \in Seq(Issue) /\ Len(opened') \in {Len(opened), Len(opened) + 1}
  <2>1. CASE Open
    <3> DEFINE e == [tests |-> failing, validation |-> validations]
    <3>1. e \in Issue /\ opened' = Append(opened, e)
      BY <1>1, <2>1 DEF Open, Issue, TypesInv
    <3> HIDE DEF e
    <3> QED BY <1>1, <3>1
  <2>2. CASE UNCHANGED opened
    BY <1>1, <1>2, <2>2
  <2> QED BY <2>1, <2>2 DEF TimeOut
<1>4. Len(opened') + TriesLeft' <= 2 * validations'
  BY <1>1, <1>2, <1>3 DEF TriesLeft
<1> QED BY <1>1, <1>3, <1>4, Bounds DEF TypesInv

LEMMA TypesKeep == TypesInv /\ Keep => TypesInv'
<1> SUFFICES ASSUME TypesInv, Keep PROVE TypesInv'
  OBVIOUS
<1> DEFINE e == [number |-> answer, tests |-> failing]
<1>1. /\ issues \in Seq(Recorded) /\ e \in Recorded /\ disk \in StateFile
  BY DEF TypesInv, Recorded
<1>2. /\ pc = "keep" /\ pc' = "record" /\ issues' = Append(issues, e) /\ link' = {Len(issues) + 1}
      /\ disk' = [disk EXCEPT !.issues = issues', !.effect = ""]
      /\ UNCHANGED <<opened, failing, answer, validations, kills, resets>>
  BY DEF Keep
<1> HIDE DEF e
<1>3. issues' \in Seq(Recorded) /\ link' \subseteq DOMAIN issues'
  BY <1>1, <1>2
<1>4. disk' \in StateFile
  BY <1>1, <1>2, <1>3 DEF StateFile
<1>5. TriesLeft' = TriesLeft
  BY <1>2 DEF TriesLeft
<1> QED BY <1>2, <1>3, <1>4, <1>5 DEF TypesInv

LEMMA TypesRecord == TypesInv /\ Record => TypesInv'
<1> SUFFICES ASSUME TypesInv, Record PROVE TypesInv'
  OBVIOUS
<1> DEFINE e == [tests |-> failing, issue |-> IF link = {} THEN 0 ELSE issues[Max(link)].number]
<1>1. /\ pc = "record" /\ pc' = "idle" /\ issues' = <<>> /\ failing' = {} /\ link' = {} /\ answer' = 0
      /\ disk' = [disk EXCEPT !.issues = issues, !.linked = Append(disk.linked, e)]
      /\ UNCHANGED <<opened, validations, kills, resets>>
  BY DEF Record
<1>2. issues \in Seq(Recorded) /\ link \subseteq DOMAIN issues /\ disk \in StateFile /\ failing \subseteq Tests
  BY DEF TypesInv
<1>3. link # {} => Max(link) \in DOMAIN issues
  <2>1. Len(issues) \in Nat /\ DOMAIN issues = 1 .. Len(issues)
    BY <1>2
  <2>2. link \in SUBSET (0 .. Len(issues))
    BY <1>2, <2>1
  <2> QED BY <1>2, <2>1, <2>2, LeastAndGreatest
<1>4. e \in Link
  <2>1. link # {} => issues[Max(link)] \in Recorded
    BY <1>2, <1>3
  <2>2. (IF link = {} THEN 0 ELSE issues[Max(link)].number) \in Numbers
    BY <2>1, Bounds DEF Recorded
  <2> QED BY <1>2, <2>2 DEF Link
<1> HIDE DEF e
<1>5. Append(disk.linked, e) \in Seq(Link)
  <2>1. disk.linked \in Seq(Link)
    BY <1>2 DEF StateFile
  <2> QED BY <1>4, <2>1
<1>6. disk' \in StateFile
  BY <1>1, <1>2, <1>5 DEF StateFile
<1>7. TriesLeft' = TriesLeft /\ answer' \in Numbers
  BY <1>1, Bounds DEF TriesLeft
<1> QED BY <1>1, <1>6, <1>7, Bounds DEF TypesInv

LEMMA TypesDiagnose == TypesInv /\ Diagnose => TypesInv'
<1> SUFFICES ASSUME TypesInv, Diagnose PROVE TypesInv'
  OBVIOUS
<1>1. /\ validations < MaxValidations /\ validations' = validations + 1 /\ pc = "idle"
      /\ issues' = disk.issues /\ link' = {} /\ failing' \subseteq Tests /\ pc' \in {"ask", "record"}
      /\ UNCHANGED <<opened, disk, answer, kills, resets>>
  BY DEF Diagnose
<1>2. validations' \in 0 .. MaxValidations /\ validations' > 0
  BY <1>1, Bounds DEF TypesInv
<1>3. Len(opened') + TriesLeft' <= 2 * validations'
  <2>1. Len(opened) \in Nat /\ validations \in Nat /\ TriesLeft = 0 /\ TriesLeft' \in {0, 2}
    BY <1>1, Bounds DEF TypesInv, TriesLeft
  <2> QED BY <1>1, <2>1 DEF TypesInv
<1>4. disk.issues \in Seq(Recorded)
  BY DEF TypesInv, StateFile
<1> QED BY <1>1, <1>2, <1>3, <1>4 DEF TypesInv

LEMMA TypesStep == TypesInv /\ [VNext]_allVars => TypesInv'
<1> SUFFICES ASSUME TypesInv, [VNext]_allVars PROVE TypesInv'
  OBVIOUS
<1>0. disk \in StateFile /\ issues \in Seq(Recorded) /\ Len(opened) \in Nat /\ validations \in Nat
  BY Bounds DEF TypesInv
<1>1. CASE UNCHANGED vars
  BY <1>1 DEF vars, TypesInv, TriesLeft
<1>2. CASE Diagnose
  BY <1>2, TypesDiagnose
<1>3. CASE Ask
  <2>1. /\ pc = "ask" /\ pc' \in {"record", "intend"} /\ link' = AlreadyOpen(NamedIn(issues), failing)
        /\ UNCHANGED <<opened, issues, disk, failing, answer, validations, kills, resets>>
    BY <1>3 DEF Ask
  <2>2. link' \subseteq DOMAIN issues
    <3>1. issues \in Seq([number : Nat, tests : SUBSET Tests])
      BY <1>0, RecordedIn
    <3>2. /\ Len(NamedIn(issues)) \in Nat
          /\ DOMAIN NamedIn(issues) = 1 .. Len(NamedIn(issues)) /\ DOMAIN issues = DOMAIN NamedIn(issues)
      BY <3>1, NamedInIs
    <3>3. link' \subseteq DOMAIN NamedIn(issues)
      BY <2>1, <3>2, AnswersWithin
    <3> QED BY <3>2, <3>3
  <2>3. TriesLeft' <= TriesLeft /\ TriesLeft \in Nat /\ TriesLeft' \in Nat
    BY <2>1 DEF TriesLeft
  <2>4. Len(opened') + TriesLeft' <= 2 * validations'
    BY <1>0, <2>1, <2>3 DEF TypesInv
  <2> QED BY <2>1, <2>2, <2>4 DEF TypesInv
<1>4. CASE Intend \/ GiveUp
  <2>1. /\ disk' = [disk EXCEPT !.issues = issues, !.effect = "issue"]
             \/ disk' = [disk EXCEPT !.issues = issues, !.effect = ""]
        /\ UNCHANGED <<opened, issues, failing, link, answer, validations, kills, resets>>
        /\ (pc = "intend" /\ pc' = "create") \/ (pc = "give_up" /\ pc' = "record")
    BY <1>4 DEF Intend, GiveUp
  <2>2. disk' \in StateFile
    BY <1>0, <2>1 DEF StateFile
  <2>3. TriesLeft' = TriesLeft
    BY <2>1 DEF TriesLeft
  <2> QED BY <2>1, <2>2, <2>3 DEF TypesInv
<1>5. CASE Create
  BY <1>5, TypesCreate
<1>6. CASE Keep
  BY <1>6, TypesKeep
<1>7. CASE Record
  BY <1>7, TypesRecord
<1>12. CASE TimeOut
  BY <1>12, TypesTimeOut
<1>8. ASSUME /\ kills < MaxKills /\ kills' = kills + 1 /\ pc' = "idle"
             /\ issues' = <<>> \/ UNCHANGED issues
             /\ failing' = {} \/ UNCHANGED failing
             /\ link' = {} \/ UNCHANGED <<link, issues>>
             /\ answer' = 0 \/ UNCHANGED answer
             /\ UNCHANGED <<opened, disk, validations, resets>>
      PROVE  TypesInv'
  <2>1. kills' \in 0 .. MaxKills /\ 0 \in Numbers
    BY <1>8, Bounds DEF TypesInv
  <2>2. TriesLeft' = 0 /\ TriesLeft \in Nat
    BY <1>8 DEF TriesLeft
  <2>3. Len(opened') + TriesLeft' <= 2 * validations'
    BY <1>0, <1>8, <2>2 DEF TypesInv
  <2>4. link' \subseteq DOMAIN issues'
    BY <1>8 DEF TypesInv
  <2> QED BY <1>8, <2>1, <2>3, <2>4, Bounds DEF TypesInv
<1>9. CASE Reset
  <2>1. disk' = NoState /\ resets' \in 0 .. MaxResets
        /\ UNCHANGED <<opened, issues, pc, failing, link, answer, validations, kills>>
    BY <1>9, Bounds DEF Reset, TypesInv
  <2>2. TriesLeft' = TriesLeft
    BY <2>1 DEF TriesLeft
  <2> QED BY <2>1, <2>2, Bounds DEF TypesInv
<1>10. CASE DieAnywhere
  <2>1. CASE Die
    BY <1>8, <2>1 DEF Die
  <2>2. CASE ~Die
    <3>1. /\ pc = "idle" /\ kills < MaxKills /\ kills' = kills + 1
          /\ UNCHANGED <<opened, issues, disk, pc, failing, link, answer, validations, resets>>
      BY <1>10, <2>2 DEF DieAnywhere
    <3> QED BY <1>8, <3>1
  <2> QED BY <2>1, <2>2
<1>11. CASE UNCHANGED allVars
  BY <1>1, <1>11 DEF allVars
<1> QED
  BY <1>1, <1>2, <1>3, <1>4, <1>5, <1>6, <1>7, <1>9, <1>10, <1>11, <1>12
     DEF VNext, Choose, Session, Rerun, ReadEvidence, DiagnosisMissing, OpenIssue, IssueTimesOut,
         RecordFail, ResetBetween

(***************************************************************************)
(* The types of the record, of what is on GitHub and of the run's own      *)
(* variables; a number is one gh can have printed, since a validation      *)
(* opens two issues at the most (_create and its one more try).            *)
(***************************************************************************)
THEOREM IssueTypesHold == VSpec => []TypeOK
<1>1. TypesInv => TypeOK
  BY DEF TypesInv, TypeOK, StateFile, Issue, Link
<1> QED
  BY <1>1, TypesStart, TypesStep, PTL DEF VSpec
=============================================================================
