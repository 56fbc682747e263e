------------------------- MODULE TestArchiveProofs -------------------------
(***************************************************************************)
(* The test archive, for any paths, any pattern, and any number of runs,   *)
(* sessions, kills and acts of the author: what a recorded round archives, *)
(* which files leave the archive, what becomes of the author's files, and  *)
(* that the leftovers of a round never stop the next run.                  *)
(***************************************************************************)
EXTENDS TestArchive, TLAPS

Rounds == {"review", "place", "copy", "session", "judge"}

\* The run's State object is the saved one but where the code has not saved it yet; a list of
\* copies is kept only while the state says a reviewer is running.
Course ==
    /\ disk.reviewer_running = FALSE => disk.placed = {}
    /\ pc \in {"sweep", "tree", "take"} \cup Rounds => st = disk
    /\ pc \in {"tree", "review"} => st.reviewer_running = FALSE
    /\ pc \in {"place", "copy", "session", "judge", "take", "failing"} =>
          disk.reviewer_running = TRUE
    /\ pc \in {"place", "swept", "failed", "record"} => st.placed = {}
    /\ pc = "failing" => disk.placed \subseteq st.placed /\ st.pending = disk.pending

\* Files are left to copy or to move only while they are copied or moved; the counters count.
Todo ==
    /\ todo # {} => pc \in {"copy", "take"}
    /\ pc = "copy" => todo \subseteq st.placed
    /\ pc = "take" => todo \subseteq files
    /\ sessions \in 0 .. MaxSessions /\ moves \in Nat

\* A round's own files are the archived ones, and none of them is tracked.
Listed ==
    /\ pc \in Rounds => st.test_files = Archived /\ Archived \cap Tracked = {}
    /\ pc \in {"copy", "session", "judge"} => st.placed = Archived

\* What a session finds, and what it leaves: an archived file is in the tree again, unless the
\* reviewer deleted it or a restore took a tracked one back.
Present ==
    /\ pc = "copy" => \A p \in Archived \ todo : tree[p] # None
    /\ pc \in {"session", "judge"} => \A p \in Archived \ deleted : tree[p] # None

\* A round that is being taken.
Taking ==
    pc = "take" =>
        /\ \A p \in Archived : p \in files \cup deleted \cup hidden
        /\ \A p \in files :
              /\ left[p] # None /\ head[p] = None /\ p \notin hidden
              /\ p \in todo => tree[p] = left[p]
              /\ p \notin todo => archive[p] = left[p] /\ tree[p] = None
        /\ \A p \in Paths \ files : left[p] = None /\ p \notin Dirty

\* Where a file of the author's can be.
OffPattern ==
    \A p \in Paths :
        /\ tree[p] = Author /\ head[p] = None => p \notin Pattern \ hidden
        /\ tree[p] = Author /\ head[p] # None => head[p] = Author
        /\ archive[p] = Author => p \notin Pattern \ hidden

Known ==
    pc \in {"take", "failing"} \cup Rounds =>
        \A p \in Paths :
            tree[p] = Author /\ head[p] = None =>
                p \in hidden \cup disk.pending \/ archive[p] = Author

InTheWay ==
    pc \in {"copy", "session", "judge", "take", "failing"} =>
        \A p \in st.placed :
            tree[p] = Author /\ head[p] = None => p \in disk.pending \/ archive[p] = Author

\* a file a reviewer session wrote that git status shows as new
Drafts == {p \in Paths : tree[p] > Author /\ head[p] = None /\ p \notin hidden}

\* A state that knows of every such file
Covers(s) ==
    \A p \in Drafts \ byHand :
        /\ p \in Pattern => s.reviewer_running = TRUE \/ p \in s.pending
        /\ p \in Archived \ Pattern => p \in s.placed

Covered ==
    /\ Covers(disk)
    /\ pc \in {"swept", "failed"} => Covers([st EXCEPT !.reviewer_running = FALSE])

Inv ==
    /\ TypeOK /\ Course /\ Todo
    /\ Listed /\ Present /\ Taking
    /\ OffPattern /\ Known /\ InTheWay
    /\ Covered
    /\ RoundArchived /\ CopiesNeverBlock

-----------------------------------------------------------------------------
(* Every step keeps it *)

USE TestArchiveAssumption
    DEF None, Author, Tracked, Archived, Rounds, Inv, worlds, run, counts

\* A run reads the state file, and sweeps first if a reviewer was running.
LEMMA StartRunKeeps ==
    ASSUME Inv, StartRun
    PROVE  Inv'
<1>1. (TypeOK /\ Course /\ Todo)'
  BY DEF StartRun, TypeOK, Course, Todo
<1>2. (Listed /\ Present /\ Taking)'
  BY DEF StartRun, Listed, Present, Taking
<1>3. (OffPattern /\ Known /\ InTheWay)'
  BY DEF StartRun, OffPattern, Known, InTheWay
<1>4. Covered'
  BY DEF StartRun, Covered, Covers, Drafts
<1>5. (RoundArchived /\ CopiesNeverBlock)'
  BY DEF StartRun, RoundArchived, Dirty, Course, Covered, Covers, Drafts, CopiesNeverBlock
<1> QED BY <1>1, <1>2, <1>3, <1>4, <1>5

\* A run that goes no further forgets what it held in memory.
LEMMA EndsEarlyKeeps ==
    ASSUME Inv, EndsEarly
    PROVE  Inv'
<1>1. (TypeOK /\ Course /\ Todo)'
  BY DEF EndsEarly, Ends, Empty, TypeOK, State, FreshState, Course, Todo
<1>2. (Listed /\ Present /\ Taking)'
  BY DEF EndsEarly, Ends, Listed, Present, Taking
<1>3. (OffPattern /\ Known /\ InTheWay)'
  BY DEF EndsEarly, Ends, OffPattern, Known, InTheWay
<1>4. Covered'
  BY DEF EndsEarly, Ends, Covered, Covers, Drafts
<1>5. (RoundArchived /\ CopiesNeverBlock)'
  BY DEF EndsEarly, Ends, RoundArchived, CopiesNeverBlock
<1> QED BY <1>1, <1>2, <1>3, <1>4, <1>5

\* The state the sweep leaves in memory is a state.
LEMMA SweepTypes ==
    ASSUME Inv, Sweep
    PROVE  TypeOK'
<1>1. PICK stuck \in Stuck(st, Paths) : Discard(st, Paths, stuck) /\ st' = Swept(st, stuck)
                                        /\ byHand' = byHand \cup (stuck \ Pattern)
  BY DEF Sweep
<1>2. st \in State /\ stuck \subseteq Paths
  BY DEF TypeOK, Stuck, Deletable, State, Dirty
<1>3. st' \in State /\ st'.placed = {}
  BY <1>1, <1>2 DEF Swept, State
<1>4. tree' \in [Paths -> 0 .. (MaxSessions + 1)] /\ byHand' \subseteq Paths
  BY <1>1, <1>2 DEF Discard, TypeOK
<1>5. todo \subseteq files
  BY DEF Sweep, Todo
<1> QED BY <1>3, <1>4, <1>5 DEF Sweep, TypeOK

\* What the sweep cannot delete it lists, and a name off the pattern it leaves to the author.
LEMMA SweepKeeps ==
    ASSUME Inv, Sweep
    PROVE  Inv'
<1>1. TypeOK'
  BY SweepTypes
<1>2. (Course /\ Todo)'
  BY DEF Sweep, Swept, Course, Todo
<1>3. (Listed /\ Present /\ Taking)'
  BY DEF Sweep, Listed, Present, Taking
<1>4. (OffPattern /\ Known /\ InTheWay)'
  BY DEF Sweep, Discard, OffPattern, Known, InTheWay
<1>5. Covered'
  BY DEF Sweep, Deletable, Swept, Discard, Course, Covered, Covers, Drafts, Dirty
<1>6. (RoundArchived /\ CopiesNeverBlock)'
  BY DEF Sweep, RoundArchived, CopiesNeverBlock
<1> QED BY <1>1, <1>2, <1>3, <1>4, <1>5, <1>6

\* And so is the one it saves.
LEMMA SweepSavedTypes ==
    ASSUME Inv, SweepSaved
    PROVE  TypeOK'
<1>1. st \in State
  BY DEF TypeOK
<1>2. disk' \in State
  BY <1>1 DEF SweepSaved, State
<1>3. todo' \subseteq files' \cup st'.placed
  BY DEF SweepSaved, Ends, Todo
<1>4. st' \in State
  <2>1. FreshState \in State
    BY DEF FreshState, State
  <2> QED BY <1>2, <2>1 DEF SweepSaved, Ends
<1>5. left' \in [Paths -> 0 .. (MaxSessions + 1)]
  BY DEF SweepSaved, Ends, Empty, TypeOK
<1> QED BY <1>2, <1>3, <1>4, <1>5 DEF SweepSaved, Ends, TypeOK

\* The state is saved once the tree is swept.
LEMMA SweepSavedKeeps ==
    ASSUME Inv, SweepSaved
    PROVE  Inv'
<1>1. TypeOK'
  BY SweepSavedTypes
<1>2. (Course /\ Todo)'
  BY DEF SweepSaved, Ends, TypeOK, State, Course, Todo
<1>3. (Listed /\ Present /\ Taking)'
  BY DEF SweepSaved, Ends, Listed, Present, Taking
<1>4. (OffPattern /\ Known /\ InTheWay)'
  BY DEF SweepSaved, Ends, OffPattern, Known, InTheWay
<1>5. Covered'
  BY DEF SweepSaved, Ends, Covered, Covers, Drafts
<1>6. (RoundArchived /\ CopiesNeverBlock)'
  BY DEF SweepSaved, Ends, TypeOK, State, RoundArchived, Dirty, Course, Covered, Covers, Drafts,
         CopiesNeverBlock
<1> QED BY <1>1, <1>2, <1>3, <1>4, <1>5, <1>6

\* Whatever git status shows is pending, and what HEAD tracks leaves the archive.
LEMMA PreflightPassesKeeps ==
    ASSUME Inv, PreflightPasses
    PROVE  Inv'
<1>1. (TypeOK /\ Course /\ Todo)'
  BY DEF PreflightPasses, Save, Update, Empty, TypeOK, State, Course, Todo
<1>2. (Listed /\ Present /\ Taking)'
  BY DEF PreflightPasses, Disowned, Save, Update, Empty, Listed, Present, Taking
<1>3. (OffPattern /\ Known /\ InTheWay)'
  BY DEF PreflightPasses, Save, Update, Empty, OffPattern, Known, InTheWay, Dirty
<1>4. Covered'
  BY DEF PreflightPasses, Disowned, Save, Update, Course, Covered, Covers, Drafts
<1>5. (RoundArchived /\ CopiesNeverBlock)'
  BY DEF PreflightPasses, RoundArchived, CopiesNeverBlock
<1> QED BY <1>1, <1>2, <1>3, <1>4, <1>5

\* The state says that a reviewer is running.
LEMMA BeginRoundKeeps ==
    ASSUME Inv, BeginRound
    PROVE  Inv'
<1>1. (TypeOK /\ Course /\ Todo)'
  BY DEF BeginRound, Save, TypeOK, State, Course, Todo
<1>2. (Listed /\ Present /\ Taking)'
  BY DEF BeginRound, Save, Listed, Present, Taking
<1>3. (OffPattern /\ Known /\ InTheWay)'
  BY DEF BeginRound, Save, OffPattern, Course, Known, InTheWay
<1>4. Covered'
  BY DEF BeginRound, Save, Course, Covered, Covers, Drafts
<1>5. (RoundArchived /\ CopiesNeverBlock)'
  BY DEF BeginRound, RoundArchived, CopiesNeverBlock
<1> QED BY <1>1, <1>2, <1>3, <1>4, <1>5

\* The list of the copies is saved before the first of them; no file of the author's is in the way.
LEMMA PlaceBackKeeps ==
    ASSUME Inv, PlaceBack
    PROVE  Inv'
<1>1. TypeOK'
  BY DEF PlaceBack, Save, TypeOK, State
<1>2. Course'
  BY DEF PlaceBack, Save, TypeOK, State, Course
<1>3. Todo'
  BY DEF PlaceBack, Save, TypeOK, State, Todo
<1>4. (Listed /\ Present /\ Taking)'
  BY DEF PlaceBack, Save, TypeOK, State, Course, Listed, Present, Taking
<1>5. (OffPattern /\ Known /\ InTheWay)'
  BY DEF PlaceBack, Save, Occupants, TypeOK, State, OffPattern, Course, Known, InTheWay
<1>6. Covered'
  BY DEF PlaceBack, Save, TypeOK, State, Course, Covered, Covers, Drafts
<1>7. (RoundArchived /\ CopiesNeverBlock)'
  BY DEF PlaceBack, RoundArchived, CopiesNeverBlock
<1> QED BY <1>1, <1>2, <1>3, <1>4, <1>5, <1>6, <1>7

\* A copy overwrites nothing but what was pending.
LEMMA CopyOneKeeps ==
    ASSUME Inv, CopyOne
    PROVE  Inv'
<1>1. (TypeOK /\ Course /\ Todo)'
  BY DEF CopyOne, TypeOK, Course, Todo
<1>2. (Listed /\ Present /\ Taking)'
  BY DEF CopyOne, TypeOK, Listed, Present, Taking
<1>3. (OffPattern /\ Known /\ InTheWay)'
  BY DEF CopyOne, TypeOK, Listed, OffPattern, Known, InTheWay
<1>4. Covered'
  BY DEF CopyOne, Course, Listed, Covered, Covers
<1>5. (RoundArchived /\ CopiesNeverBlock)'
  BY DEF CopyOne, RoundArchived, CopiesNeverBlock
<1> QED BY <1>1, <1>2, <1>3, <1>4, <1>5

\* The session writes and deletes what it likes; every file of its own will be swept.
LEMMA SessionKeeps ==
    ASSUME Inv, Session
    PROVE  Inv'
<1>1. (TypeOK /\ Course /\ Todo)'
  BY DEF Session, TypeOK, Course, Todo
<1>2. (Listed /\ Present /\ Taking)'
  BY DEF Session, Listed, Todo, Present, Taking
<1>3. (OffPattern /\ Known /\ InTheWay)'
  BY DEF Session, TypeOK, State, Todo, OffPattern, Known, InTheWay
<1>4. Covered'
  BY DEF Session, Course, Listed, Covered, Covers
<1>5. (RoundArchived /\ CopiesNeverBlock)'
  BY DEF Session, RoundArchived, CopiesNeverBlock
<1> QED BY <1>1, <1>2, <1>3, <1>4, <1>5

\* A session that failed leaves the tree to the sweep.
LEMMA SessionFailsKeeps ==
    ASSUME Inv, SessionFails
    PROVE  Inv'
<1>1. (TypeOK /\ Course /\ Todo)'
  BY DEF SessionFails, TypeOK, Course, Todo
<1>2. (Listed /\ Present /\ Taking)'
  BY DEF SessionFails, Listed, Present, Taking
<1>3. (OffPattern /\ Known /\ InTheWay)'
  BY DEF SessionFails, OffPattern, Known, InTheWay
<1>4. Covered'
  BY DEF SessionFails, Covered, Covers, Drafts
<1>5. (RoundArchived /\ CopiesNeverBlock)'
  BY DEF SessionFails, RoundArchived, CopiesNeverBlock
<1> QED BY <1>1, <1>2, <1>3, <1>4, <1>5

\* The files to take are what git status shows, none of them tracked.
LEMMA JudgeKeeps ==
    ASSUME Inv, Judge
    PROVE  Inv'
<1>1. (TypeOK /\ Course /\ Todo)'
  BY DEF Judge, Update, Empty, TypeOK, Course, Todo, Dirty
<1>2. (Listed /\ Present /\ Taking)'
  BY DEF Judge, Protected, Update, Empty, Listed, Present, Taking, Dirty
<1>3. (OffPattern /\ Known /\ InTheWay)'
  BY DEF Judge, Update, TypeOK, State, OffPattern, Known, InTheWay
<1>4. Covered'
  BY DEF Judge, Update, Covered, Covers, Drafts
<1>5. (RoundArchived /\ CopiesNeverBlock)'
  BY DEF Judge, RoundArchived, CopiesNeverBlock
<1> QED BY <1>1, <1>2, <1>3, <1>4, <1>5

\* A file moves from the tree into the archive as it was left, or the round fails.
LEMMA MoveOneKeeps ==
    ASSUME Inv, MoveOne
    PROVE  Inv'
<1>1. (TypeOK /\ Course /\ Todo)'
  BY DEF MoveOne, Untaken, TypeOK, State, Course, Todo
<1>2. (Listed /\ Present /\ Taking)'
  BY DEF MoveOne, TypeOK, Listed, Present, Todo, Taking, Dirty
<1>3. (OffPattern /\ Known /\ InTheWay)'
  BY DEF MoveOne, Untaken, TypeOK, State, Todo, Taking, OffPattern, Known, InTheWay
<1>4. Covered'
  BY DEF MoveOne, TypeOK, Covered, Covers, Drafts
<1>5. (RoundArchived /\ CopiesNeverBlock)'
  BY DEF MoveOne, RoundArchived, CopiesNeverBlock
<1> QED BY <1>1, <1>2, <1>3, <1>4, <1>5

\* Taking the files leaves the types.
LEMMA TakenTypes ==
    ASSUME Inv, Taken
    PROVE  TypeOK'
<1>1. st \in State /\ files \subseteq Paths
  BY DEF TypeOK
<1>2. st' \in State
  BY <1>1 DEF Taken, State
<1>3. archive' \in [Paths -> 0 .. (MaxSessions + 1)]
  BY DEF Taken, Update, Empty, TypeOK
<1> QED BY <1>2, <1>3 DEF Taken, TypeOK

\* Nothing else stays in the archive.
LEMMA TakenKeeps ==
    ASSUME Inv, Taken
    PROVE  Inv'
<1>1. TypeOK'
  BY TakenTypes
<1>2. (Course /\ Todo)'
  BY DEF Taken, Course, Todo
<1>3. (Listed /\ Present /\ Taking)'
  BY DEF Taken, Listed, Present, Taking
<1>4. (OffPattern /\ Known /\ InTheWay)'
  BY DEF Taken, Update, Empty, OffPattern, Known, InTheWay
<1>5. Covered'
  BY DEF Taken, Gone, Update, Covered, Covers, Drafts
<1>6. (RoundArchived /\ CopiesNeverBlock)'
  BY DEF Taken, Gone, Update, Empty, TypeOK, Taking, Dirty, RoundArchived, CopiesNeverBlock
<1> QED BY <1>1, <1>2, <1>3, <1>4, <1>5, <1>6

\* Recording the round leaves the types.
LEMMA RecordTypes ==
    ASSUME Inv, Record
    PROVE  TypeOK'
<1>1. st \in State
  BY DEF TypeOK
<1>2. disk' \in State
  <2>1. st.rounds + 1 \in Nat
    BY <1>1 DEF State
  <2>2. disk' = [[st EXCEPT !.rounds = st.rounds + 1] EXCEPT !.reviewer_running = FALSE]
    BY DEF Record
  <2>3. [st EXCEPT !.rounds = st.rounds + 1] \in State
    BY <1>1, <2>1 DEF State
  <2> QED BY <2>2, <2>3 DEF State
<1>3. st' \in State /\ left' \in [Paths -> 0 .. (MaxSessions + 1)]
  BY DEF Record, Ends, FreshState, State, Empty, TypeOK
<1> QED BY <1>2, <1>3 DEF Record, Ends, TypeOK

\* The round is recorded with a clean tree.
LEMMA RecordKeeps ==
    ASSUME Inv, Record
    PROVE  Inv'
<1>1. TypeOK'
  BY RecordTypes
<1>2. (Course /\ Todo)'
  BY DEF Record, Ends, Course, Todo
<1>3. (Listed /\ Present /\ Taking)'
  BY DEF Record, Ends, Listed, Present, Taking
<1>4. (OffPattern /\ Known /\ InTheWay)'
  BY DEF Record, Ends, OffPattern, Known, InTheWay
<1>5. Covered'
  BY DEF Record, Dirty, Covered, Covers, Drafts, RoundArchived
<1>6. (RoundArchived /\ CopiesNeverBlock)'
  BY DEF Record, Ends, RoundArchived, CopiesNeverBlock
<1> QED BY <1>1, <1>2, <1>3, <1>4, <1>5, <1>6

\* A kill leaves the tree and the state file as they were.
LEMMA KillKeeps ==
    ASSUME Inv, Kill
    PROVE  Inv'
<1>1. (TypeOK /\ Course /\ Todo)'
  BY DEF Kill, Ends, Empty, TypeOK, State, FreshState, Course, Todo
<1>2. (Listed /\ Present /\ Taking)'
  BY DEF Kill, Ends, Listed, Present, Taking
<1>3. (OffPattern /\ Known /\ InTheWay)'
  BY DEF Kill, Ends, OffPattern, Known, InTheWay
<1>4. Covered'
  BY DEF Kill, Ends, Covered, Covers, Drafts
<1>5. (RoundArchived /\ CopiesNeverBlock)'
  BY DEF Kill, Ends, RoundArchived, CopiesNeverBlock
<1> QED BY <1>1, <1>2, <1>3, <1>4, <1>5

\* What `reset` cannot delete is left to the author.
LEMMA ResetKeeps ==
    ASSUME Inv, Reset
    PROVE  Inv'
<1>1. (TypeOK /\ Course /\ Todo)'
  BY DEF Reset, Stuck, Deletable, Discard, TypeOK, State, FreshState, Course, Todo
<1>2. (Listed /\ Present /\ Taking)'
  BY DEF Reset, Listed, Present, Taking
<1>3. (OffPattern /\ Known /\ InTheWay)'
  BY DEF Reset, Discard, OffPattern, Known, InTheWay
<1>4. Covered'
  BY DEF Reset, Deletable, Discard, Course, Covered, Covers, Drafts, Dirty
<1>5. (RoundArchived /\ CopiesNeverBlock)'
  BY DEF Reset, RoundArchived, CopiesNeverBlock
<1> QED BY <1>1, <1>2, <1>3, <1>4, <1>5

\* The author commits what lies there: drafts are tracked now.
LEMMA CommitAllKeeps ==
    ASSUME Inv, CommitAll
    PROVE  Inv'
<1>1. (TypeOK /\ Course /\ Todo)'
  BY DEF CommitAll, Acts, Update, TypeOK, Course, Todo
<1>2. (Listed /\ Present /\ Taking)'
  BY DEF CommitAll, Acts, Listed, Present, Taking
<1>3. (OffPattern /\ Known /\ InTheWay)'
  BY DEF CommitAll, Acts, Update, OffPattern, Known, InTheWay
<1>4. Covered'
  BY DEF CommitAll, Acts, Update, Covered, Covers, Drafts
<1>5. (RoundArchived /\ CopiesNeverBlock)'
  BY DEF CommitAll, Acts, RoundArchived, CopiesNeverBlock
<1> QED BY <1>1, <1>2, <1>3, <1>4, <1>5

\* Nothing is left of any draft.
LEMMA CleanTreeKeeps ==
    ASSUME Inv, CleanTree
    PROVE  Inv'
<1>1. (TypeOK /\ Course /\ Todo)'
  BY DEF CleanTree, Acts, Update, TypeOK, Course, Todo
<1>2. (Listed /\ Present /\ Taking)'
  BY DEF CleanTree, Acts, Listed, Present, Taking
<1>3. (OffPattern /\ Known /\ InTheWay)'
  BY DEF CleanTree, Acts, Update, OffPattern, Known, InTheWay
<1>4. Covered'
  BY DEF CleanTree, Acts, Update, Covered, Covers, Drafts, Dirty
<1>5. (RoundArchived /\ CopiesNeverBlock)'
  BY DEF CleanTree, Acts, RoundArchived, CopiesNeverBlock
<1> QED BY <1>1, <1>2, <1>3, <1>4, <1>5

\* The author's own file is off the pattern or ignored.
LEMMA DraftKeeps ==
    ASSUME Inv, Draft
    PROVE  Inv'
<1>1. (TypeOK /\ Course /\ Todo)'
  BY DEF Draft, Acts, TypeOK, Course, Todo
<1>2. (Listed /\ Present /\ Taking)'
  BY DEF Draft, Acts, Listed, Present, Taking
<1>3. (OffPattern /\ Known /\ InTheWay)'
  BY DEF Draft, Acts, OffPattern, Known, InTheWay
<1>4. Covered'
  BY DEF Draft, Acts, Covered, Covers, Drafts
<1>5. (RoundArchived /\ CopiesNeverBlock)'
  BY DEF Draft, Acts, RoundArchived, CopiesNeverBlock
<1> QED BY <1>1, <1>2, <1>3, <1>4, <1>5

\* A path that is ignored now is no draft any more.
LEMMA HideKeeps ==
    ASSUME Inv, Hide
    PROVE  Inv'
<1>1. (TypeOK /\ Course /\ Todo)'
  BY DEF Hide, Acts, TypeOK, Course, Todo
<1>2. (Listed /\ Present /\ Taking)'
  BY DEF Hide, Acts, Listed, Present, Taking
<1>3. (OffPattern /\ Known /\ InTheWay)'
  BY DEF Hide, Acts, OffPattern, Known, InTheWay
<1>4. Covered'
  BY DEF Hide, Acts, Covered, Covers, Drafts
<1>5. (RoundArchived /\ CopiesNeverBlock)'
  BY DEF Hide, Acts, RoundArchived, CopiesNeverBlock
<1> QED BY <1>1, <1>2, <1>3, <1>4, <1>5

\* At first nothing is archived, listed or written by a reviewer.
LEMMA InitInv == Init => Inv
<1> SUFFICES ASSUME Init PROVE Inv
  OBVIOUS
<1>1. TypeOK
  BY DEF Init, TypeOK, State, FreshState, Empty
<1>2. Course /\ Todo /\ Listed /\ Present /\ Taking
  BY DEF Init, FreshState, Empty, Course, Todo, Listed, Present, Taking
<1>3. OffPattern /\ Known /\ InTheWay
  BY DEF Init, Empty, OffPattern, Known, InTheWay
<1>4. Covered /\ RoundArchived /\ CopiesNeverBlock
  BY DEF Init, Covered, Covers, Drafts, RoundArchived, CopiesNeverBlock
<1> QED BY <1>1, <1>2, <1>3, <1>4

\* Every step of the run, of the sweep, of `reset` and of the author keeps it.
LEMMA NextKeeps ==
    ASSUME Inv, [Next]_vars
    PROVE  Inv'
<1>1. CASE UNCHANGED vars
  BY <1>1 DEF vars, TypeOK, Course, Todo, Listed, Present, Taking, OffPattern, Known, InTheWay,
              Covered, Covers, Drafts, Dirty, RoundArchived, CopiesNeverBlock
<1>2. CASE Next
  BY <1>2, StartRunKeeps, EndsEarlyKeeps, SweepKeeps, SweepSavedKeeps, PreflightPassesKeeps,
           BeginRoundKeeps, PlaceBackKeeps, CopyOneKeeps, SessionKeeps, SessionFailsKeeps,
           JudgeKeeps, MoveOneKeeps, TakenKeeps, RecordKeeps, KillKeeps, ResetKeeps,
           CommitAllKeeps, CleanTreeKeeps, DraftKeeps, HideKeeps
     DEF Next
<1> QED BY <1>1, <1>2

LEMMA InvHolds == Spec => []Inv
<1> QED BY InitInv, NextKeeps, PTL DEF Spec

-----------------------------------------------------------------------------
(* What follows of it *)

\* The contents of the tree, the archive and the state file are at every moment of the kinds
\* the code knows, and no file is copied or moved that is not on record.
THEOREM TypesHold == Spec => []TypeOK
<1>1. Inv => TypeOK
  OBVIOUS
<1> QED BY <1>1, InvHolds, PTL

\* When a round is recorded its files are in the archive as the reviewer left them, the state
\* lists them and the tree is clean, whatever earlier rounds left undone (take).
THEOREM RoundArchivedHolds == Spec => []RoundArchived
<1>1. Inv => RoundArchived
  OBVIOUS
<1> QED BY <1>1, InvHolds, PTL

\* No copy and no draft of a round, however it ended, is there to make a later run refuse, unless
\* it was left to the author (remove_placed, take, discard_round_leftovers, _reset_test_dir).
THEOREM CopiesNeverBlockHolds == Spec => []CopiesNeverBlock
<1>1. Inv => CopiesNeverBlock
  OBVIOUS
<1> QED BY <1>1, InvHolds, PTL

\* A file leaves the archive only because the reviewer deleted it, HEAD tracks it, or .gitignore
\* covers it: every archived file a session did not delete lies in the tree when it is judged.
THEOREM NothingLostHolds == Spec => NothingLost
<1>1. ASSUME Inv, [Next]_vars, NEW p \in Archived, archive'[p] = None
      PROVE  p \in deleted \/ p \in Tracked \/ p \in hidden
  <2>1. CASE PreflightPasses
    BY <1>1, <2>1 DEF PreflightPasses, TypeOK, Update, Disowned
  <2>2. CASE MoveOne
    BY <1>1, <2>2 DEF MoveOne, TypeOK, Taking, Todo
  <2>3. CASE Taken
    BY <1>1, <2>3 DEF Taken, Gone, Update, Empty, TypeOK, Taking
  <2>4. CASE UNCHANGED archive
    BY <1>1, <2>4
  <2>5. UNCHANGED archive \/ PreflightPasses \/ MoveOne \/ Taken
    BY <1>1 DEF Next, vars, StartRun, EndsEarly, Sweep, SweepSaved, BeginRound, PlaceBack,
                CopyOne, Session, SessionFails, Judge, Record, Kill, Reset, CommitAll, CleanTree,
                Draft, Hide, Acts
  <2> QED BY <2>1, <2>2, <2>3, <2>4, <2>5
<1>2. Inv /\ [Next]_vars =>
          [\A p \in Archived :
              archive'[p] = None => p \in deleted \/ p \in Tracked \/ p \in hidden]_vars
  BY <1>1
<1> QED BY <1>2, InvHolds, PTL DEF Spec, NothingLost

\* No step of a run but the reviewer's session takes a file of the author's, except from a path
\* that the lists of an earlier run name (place_back, remove_placed, restore, take).
THEOREM AuthorsStayHolds == Spec => AuthorsStay
<1> DEFINE Stays(p) == \/ Author \in {tree'[p], archive'[p]}
                       \/ pc = "sweep" /\ p \in disk.placed
                       \/ p \in disk.pending
<1>1. ASSUME Inv, [Next]_vars, NEW p \in Paths, pc # "session", moves' = moves, tree[p] = Author
      PROVE  Stays(p)
  <2>1. CASE Sweep
    BY <1>1, <2>1 DEF Sweep, Stuck, Discard, Deletable, Restorable, Dirty, Course, OffPattern,
                      InTheWay, TypeOK
  <2>2. CASE CopyOne
    BY <1>1, <2>2 DEF CopyOne, Course, Todo, Listed, InTheWay, TypeOK
  <2>3. CASE Judge
    BY <1>1, <2>3 DEF Judge, Protected, Update, Dirty, OffPattern, TypeOK
  <2>4. CASE MoveOne
    BY <1>1, <2>4 DEF MoveOne, TypeOK
  <2>5. CASE UNCHANGED tree
    BY <1>1, <2>5
  <2>6. CASE Reset \/ CommitAll \/ CleanTree \/ Draft \/ Hide
    <3>1. moves' = moves + 1 /\ moves' = moves
      BY <1>1, <2>6 DEF Reset, CommitAll, CleanTree, Draft, Hide, Acts
    <3>2. moves \in Nat
      BY <1>1 DEF Todo
    <3> QED BY <3>1, <3>2
  <2>7. CASE Session
    BY <1>1, <2>7 DEF Session
  <2>8. \/ UNCHANGED tree \/ Sweep \/ CopyOne \/ Judge \/ MoveOne \/ Session
        \/ Reset \/ CommitAll \/ CleanTree \/ Draft \/ Hide
    BY <1>1 DEF Next, vars, StartRun, EndsEarly, SweepSaved, PreflightPasses, BeginRound,
                PlaceBack, SessionFails, Taken, Record, Kill
  <2> QED BY <2>1, <2>2, <2>3, <2>4, <2>5, <2>6, <2>7, <2>8
<1>2. Inv /\ [Next]_vars =>
          [\A p \in Paths : pc # "session" /\ moves' = moves /\ tree[p] = Author => Stays(p)]_vars
  BY <1>1
<1> QED BY <1>2, InvHolds, PTL DEF Spec, AuthorsStay
=============================================================================
