------------------------------- MODULE Issues -------------------------------
(***************************************************************************)
(* The issues revali opens for bugs the base already had: maybe_open of    *)
(* issues.py, called in run_validation once per failed validation.  An     *)
(* issue is opened on GitHub before it is recorded, the command that opens *)
(* it is tried again when it fails, and the run can die in between; the    *)
(* record is all a later validation knows.                                 *)
(***************************************************************************)
EXTENDS KnownIssues

CONSTANTS
    Tests,           \* the reviewer's tests
    MaxValidations,  \* bound: failed validations
    MaxKills,        \* bound: kills
    MaxResets        \* bound: `revali reset`

ASSUME IssuesAssumption ==
    MaxValidations \in Nat /\ MaxKills \in Nat /\ MaxResets \in Nat

VARIABLES
    opened,       \* the issues on GitHub, in order; the position is the number
    issues,       \* state.issues of the live run
    disk,         \* state.json: its issues, pending_effect, the issue of each validation
    pc,           \* where the live run is
    failing,      \* the tests this validation's diagnosis calls pre-existing bugs
    link,         \* what maybe_open returned: positions in state.issues
    answer,       \* the number gh printed
    validations,  \* failed validations so far
    kills, resets

vars == <<opened, issues, disk, pc, failing, link, answer, validations, kills, resets>>

Numbers == 0 .. 2 * MaxValidations
NoState == [issues |-> <<>>, effect |-> "", linked |-> <<>>]
NamedIn(list) == [i \in DOMAIN list |-> list[i].tests]

Init ==
    /\ opened = <<>> /\ issues = <<>> /\ disk = NoState
    /\ pc = "idle" /\ failing = {} /\ link = {} /\ answer = 0
    /\ validations = 0 /\ kills = 0 /\ resets = 0

-----------------------------------------------------------------------------

\* a run gets to a validation that fails; base_failures of its diagnosis
Diagnose ==
    /\ pc = "idle" /\ validations < MaxValidations
    /\ validations' = validations + 1
    /\ issues' = disk.issues
    /\ \E tests \in SUBSET Tests : failing' = tests /\ pc' = IF tests = {} THEN "record" ELSE "ask"
    /\ link' = {}
    /\ UNCHANGED <<opened, disk, answer, kills, resets>>

\* (mutant) only the last issue is looked at
AskLast ==
    /\ pc = "ask"
    /\ LET known == IF issues # <<>> /\ failing \cap issues[Len(issues)].tests # {}
                    THEN {Len(issues)} ELSE {}
       IN  link' = known /\ pc' = IF known # {} THEN "record" ELSE "intend"
    /\ UNCHANGED <<opened, issues, disk, failing, answer, validations, kills, resets>>

\* already known: link the issues, open nothing
Ask ==
    /\ pc = "ask"
    /\ LET known == AlreadyOpen(NamedIn(issues), failing)
       IN  link' = known /\ pc' = IF known # {} THEN "record" ELSE "intend"
    /\ UNCHANGED <<opened, issues, disk, failing, answer, validations, kills, resets>>

Intend ==
    /\ pc = "intend"
    /\ disk' = [disk EXCEPT !.issues = issues, !.effect = "issue"]
    /\ pc' = "create"
    /\ UNCHANGED <<opened, issues, failing, link, answer, validations, kills, resets>>

Open == opened' = Append(opened, [tests |-> failing, validation |-> validations])

\* gh issue create, tried again once when it does not succeed: it can fail with nothing done, and
\* after the issue was opened
Create ==
    /\ pc \in {"create", "again"}
    /\ \/ Open /\ answer' = Len(opened) + 1 /\ pc' = "keep"
       \/ UNCHANGED <<opened, answer>>
          /\ pc' = IF pc = "create" THEN "again" ELSE "give_up"
       \/ Open /\ UNCHANGED answer
          /\ pc' = IF pc = "create" THEN "again" ELSE "give_up"
    /\ UNCHANGED <<issues, disk, failing, link, validations, kills, resets>>

\* gh label list, or gh issue create with or without the issue opened, is not back in time: a
\* ProcTimeout is no GhError, so it is not tried again and ends the run, past maybe_open
TimeOut ==
    /\ pc \in {"intend", "create", "again"}
    /\ UNCHANGED opened \/ (pc # "intend" /\ Open)
    /\ pc' = "idle" /\ issues' = <<>> /\ failing' = {} /\ link' = {} /\ answer' = 0
    /\ UNCHANGED <<disk, validations, kills, resets>>

\* (mutant) numbered by this branch's own count
KeepCounted ==
    /\ pc = "keep"
    /\ issues' = Append(issues, [number |-> Len(issues) + 1, tests |-> failing])
    /\ link' = {Len(issues) + 1}
    /\ disk' = [disk EXCEPT !.issues = issues', !.effect = ""]
    /\ pc' = "record"
    /\ UNCHANGED <<opened, failing, answer, validations, kills, resets>>

Keep ==
    /\ pc = "keep"
    /\ issues' = Append(issues, [number |-> answer, tests |-> failing])
    /\ link' = {Len(issues) + 1}
    /\ disk' = [disk EXCEPT !.issues = issues', !.effect = ""]
    /\ pc' = "record"
    /\ UNCHANGED <<opened, failing, answer, validations, kills, resets>>

\* a warning; the validation's result stands
GiveUp ==
    /\ pc = "give_up"
    /\ disk' = [disk EXCEPT !.issues = issues, !.effect = ""]
    /\ pc' = "record"
    /\ UNCHANGED <<opened, issues, failing, link, answer, validations, kills, resets>>

\* the first issue linked goes into the validation's entry; the run ends
Record ==
    /\ pc = "record"
    /\ disk' = [disk EXCEPT !.issues = issues,
                  !.linked = Append(@, [tests |-> failing,
                                        issue |-> IF link = {} THEN 0 ELSE issues[Max(link)].number])]
    /\ pc' = "idle" /\ issues' = <<>> /\ failing' = {} /\ link' = {} /\ answer' = 0
    /\ UNCHANGED <<opened, validations, kills, resets>>

\* killed
Die ==
    /\ pc # "idle" /\ kills < MaxKills
    /\ kills' = kills + 1
    /\ pc' = "idle" /\ issues' = <<>> /\ failing' = {} /\ link' = {} /\ answer' = 0
    /\ UNCHANGED <<opened, disk, validations, resets>>

\* revali reset: the state file goes, and what it knew of issues with it
Reset ==
    /\ pc = "idle" /\ disk # NoState /\ resets < MaxResets
    /\ resets' = resets + 1
    /\ disk' = NoState
    /\ UNCHANGED <<opened, issues, pc, failing, link, answer, validations, kills>>

Next ==
    \/ Diagnose \/ Ask \/ Intend \/ Create \/ TimeOut \/ Keep \/ GiveUp \/ Record
    \/ Die \/ Reset

Spec == Init /\ [][Next]_vars

-----------------------------------------------------------------------------
(* Properties *)

Recorded == [number : Numbers, tests : SUBSET Tests]

\* The types of the record, of what is on GitHub and of the run's own variables.
TypeOK ==
    /\ opened \in Seq([tests : SUBSET Tests, validation : 1 .. MaxValidations])
    /\ issues \in Seq(Recorded) /\ disk.issues \in Seq(Recorded)
    /\ disk.effect \in {"", "issue"}
    /\ disk.linked \in Seq([tests : SUBSET Tests, issue : Numbers])
    /\ pc \in {"idle", "ask", "intend", "create", "again", "keep", "give_up", "record"}
    /\ failing \subseteq Tests /\ link \subseteq DOMAIN issues /\ answer \in Numbers
    /\ validations \in 0 .. MaxValidations /\ kills \in 0 .. MaxKills /\ resets \in 0 .. MaxResets

\* Whatever was lost, retried or killed, every recorded issue is one that exists on GitHub under
\* that number and names those tests: the author is never sent to somebody else's issue.
RecordedAsOpened ==
    \A list \in {issues, disk.issues} : \A i \in DOMAIN list :
        /\ list[i].number \in DOMAIN opened
        /\ opened[list[i].number].tests = list[i].tests

\* No issue is recorded whose tests the older recorded ones already name between them.
NothingRecordedTwice ==
    \A i \in DOMAIN disk.issues :
        ~ (disk.issues[i].tests \subseteq NamedBy(NamedIn(disk.issues), 1 .. i - 1))

\* On every record a branch can come to have, and for whatever fails next: an answer is given
\* exactly when the recorded issues name all the tests between them, the issues listed do, and
\* each of them names one that no other does (the end of already_open's docstring): nobody is
\* pointed to an issue that says nothing new.
NamesThemAll ==
    \A wanted \in (SUBSET Tests) \ {{}} :
        LET named == NamedIn(disk.issues)
            known == AlreadyOpen(named, wanted)
        IN  /\ wanted \subseteq NamedBy(named, DOMAIN named) <=> known # {}
            /\ known # {} => wanted \subseteq NamedBy(named, known)
            /\ \A i \in known : ~ (wanted \cap named[i] \subseteq NamedBy(named, known \ {i}))

\* One issue that names all the tests is preferred to any union, the newest of them; a union
\* never lists an issue whose tests newer issues name ("newest issues whose union does").
NewestPreferred ==
    \A wanted \in (SUBSET Tests) \ {{}} :
        LET named == NamedIn(disk.issues)
            known == AlreadyOpen(named, wanted)
        IN  /\ \A i \in DOMAIN named :
                  wanted \subseteq named[i] => \E j \in known : j >= i /\ known = {j}
            /\ Cardinality(known) > 1 =>
                  \A i \in known :
                      ~ (wanted \cap named[i] \subseteq NamedBy(named, Newer(named, i)))
=============================================================================
