---------------------------- MODULE TestArchive ----------------------------
(***************************************************************************)
(* The reviewer's test files with [review] tests = "archive": between two  *)
(* rounds they lie under the state directory, in no commit; a round copies *)
(* them back into test_dir, the reviewer edits them there, and what it     *)
(* left is moved into the archive again.  The working tree is shared with  *)
(* the author, every file operation can be the last one of a killed run,   *)
(* and a file another program holds open can be neither deleted nor moved. *)
(* A file is a path under test_dir and its content: nothing, the author's, *)
(* or what the n-th reviewer session wrote.                                *)
(***************************************************************************)
EXTENDS Naturals, FiniteSets

CONSTANTS
    Paths,        \* file names under test_dir
    Pattern,      \* those that test_file_pattern matches
    MaxRuns, MaxSessions, MaxFaults, MaxMoves   \* bounds: runs, sessions, kills, author's acts

ASSUME TestArchiveAssumption ==
    /\ Pattern \subseteq Paths
    /\ {MaxRuns, MaxSessions, MaxFaults, MaxMoves} \subseteq Nat

VARIABLES
    head,      \* HEAD's content of each path
    tree,      \* the working tree's
    archive,   \* <state_dir>/<branch>/tests
    hidden,    \* the paths git ignores now
    disk,      \* state.json
    pc, st,    \* the live run and its State object
    todo,      \* files the copy or the move in progress has left
    files,     \* new_test_files: what the round is going to archive
    bounced,   \* the reviewer has been sent back once
    runs, sessions, faults, moves,
    deleted,   \* history: files the reviewer deleted since they were placed
    left,      \* history: the content of the files the round is going to archive
    byHand     \* history: files left to the author: `reset` could not delete them, or a
               \* sweep could not and the next one will not try, the name being off the pattern

worlds  == <<head, hidden>>
counts  == <<runs, sessions, faults, moves>>
run     == <<pc, st, todo, files, bounced, deleted, left>>
vars    == <<worlds, tree, archive, disk, run, counts, byHand>>

None == 0
Author == 1                  \* n > 1: written by reviewer session n - 1

State == [test_files : SUBSET Paths, placed : SUBSET Paths, pending : SUBSET Paths,
          reviewer_running : BOOLEAN, rounds : Nat]
FreshState == [test_files |-> {}, placed |-> {}, pending |-> {},
               reviewer_running |-> FALSE, rounds |-> 0]

Empty == [p \in Paths |-> None]
Update(f, g, ps) == [p \in Paths |-> IF p \in ps THEN g[p] ELSE f[p]]

Tracked == {p \in Paths : head[p] # None}
Archived == {p \in Paths : archive[p] # None}

\* gitops.dirty_paths: what git status lists under test_dir
Dirty == {p \in Paths : tree[p] # head[p] /\ (p \in Tracked \/ p \notin hidden)}

Save(s) == st' = s /\ disk' = s

\* the process is gone, and all it held in memory
Ends ==
    /\ pc' = "idle" /\ st' = FreshState /\ todo' = {} /\ files' = {} /\ bounced' = FALSE
    /\ deleted' = {} /\ left' = Empty

Init ==
    /\ head \in [Paths -> {None, Author}] /\ tree = head /\ archive = Empty
    /\ hidden = {}
    /\ disk = FreshState /\ st = FreshState
    /\ pc = "idle" /\ todo = {} /\ files = {} /\ bounced = FALSE
    /\ runs = 0 /\ sessions = 0 /\ faults = 0 /\ moves = 0
    /\ deleted = {} /\ left = Empty /\ byHand = {}

-----------------------------------------------------------------------------
(* Cleaning up after a round that did not finish *)

\* (mutant) the state's list is not looked at
DeletableByName(s, only) == (Dirty \ Tracked) \cap Pattern \cap only

\* remove_placed by the state's list, discard_unfinished_tests by the pattern
Deletable(s, only) ==
    {p \in s.placed \ Tracked : tree[p] # None} \cup ((Dirty \ Tracked) \cap Pattern \cap only)

\* drop_pending_tests: a pending file HEAD tracks by now goes back to HEAD
Restorable(s) == {p \in s.pending \cap Tracked : tree[p] # None}

Swept(s, stuck) == [s EXCEPT !.placed = {}, !.pending = stuck]

\* discard_round_leftovers: what cannot be deleted is the new pending list
Stuck(s, only) == SUBSET Deletable(s, only)

Discard(s, only, stuck) ==
    tree' = [p \in Paths |-> CASE p \in Deletable(s, only) \ stuck -> None
                               [] p \in Restorable(s) -> head[p]
                               [] OTHER -> tree[p]]

\* interruption_cleanup before a run's tree check, and run_round's handler of a Stop
Sweep ==
    /\ pc \in {"sweep", "failing"}
    /\ \E stuck \in Stuck(st, Paths) :
          /\ Discard(st, Paths, stuck) /\ st' = Swept(st, stuck)
          /\ byHand' = byHand \cup (stuck \ Pattern)
    /\ pc' = IF pc = "sweep" THEN "swept" ELSE "failed"
    /\ UNCHANGED <<worlds, archive, disk, todo, files, bounced, deleted, left, counts>>

SweepSaved ==
    /\ disk' = [st EXCEPT !.reviewer_running = FALSE]
    /\ \/ /\ pc = "swept" /\ pc' = "tree" /\ st' = disk'
          /\ UNCHANGED <<todo, files, bounced, deleted, left>>
       \/ pc = "failed" /\ Ends
    /\ UNCHANGED <<worlds, tree, archive, counts, byHand>>

\* cmd_reset and _reset_test_dir, with no run live: an interrupted session's files are not
\* known and the whole pattern goes, otherwise only the pending ones
Reset ==
    /\ pc = "idle" /\ disk # FreshState /\ moves < MaxMoves
    /\ IF disk.pending # {} \/ disk.reviewer_running
       THEN LET only == IF disk.reviewer_running THEN Paths ELSE disk.pending
            IN  \E stuck \in Stuck(disk, only) :
                    Discard(disk, only, stuck) /\ byHand' = byHand \cup stuck
       ELSE UNCHANGED <<tree, byHand>>
    /\ disk' = FreshState /\ moves' = moves + 1
    /\ UNCHANGED <<worlds, archive, run, runs, sessions, faults>>

-----------------------------------------------------------------------------
(* A run up to its round *)

StartRun ==
    /\ pc = "idle" /\ runs < MaxRuns
    /\ st' = disk /\ runs' = runs + 1
    /\ pc' = IF disk.reviewer_running THEN "sweep" ELSE "tree"
    /\ UNCHANGED <<worlds, tree, archive, disk, todo, files, bounced, sessions, faults, moves,
                   deleted, left, byHand>>

\* preflight refuses, for a dirty tree or any other reason; nothing is cleaned up; and a run
\* that has no round to do ends too
EndsEarly ==
    /\ pc \in {"sweep", "tree", "review"}
    /\ Ends
    /\ UNCHANGED <<worlds, tree, archive, disk, counts, byHand>>

\* (mutant) what the state does not remember leaves the archive too
DisownedByState == Tracked \cup (Archived \ st.test_files)

\* rebuild: what HEAD tracks is the author's and leaves the archive
Disowned == Tracked

\* check_tree, then rebuild of the state's list from the archive
PreflightPasses ==
    /\ pc = "tree"
    /\ Dirty \subseteq st.pending
    /\ archive' = Update(archive, Empty, Disowned)
    /\ Save([st EXCEPT !.test_files = Archived \ Disowned])
    /\ pc' = "review"
    /\ UNCHANGED <<worlds, tree, todo, files, bounced, counts, deleted, left, byHand>>

-----------------------------------------------------------------------------
(* The round *)

\* _run_round: from here on the copies are leftovers, should the round not take them back
BeginRound ==
    /\ pc = "review"
    /\ Save([st EXCEPT !.reviewer_running = TRUE])
    /\ pc' = "place" /\ bounced' = FALSE
    /\ UNCHANGED <<worlds, tree, archive, todo, files, counts, deleted, left, byHand>>

\* (mutant) nobody looks whether the place is taken
NoOccupant(placed) == {}

\* a file that is there already and is no leftover the state tolerates
Occupants(placed) == {p \in placed : tree[p] # None} \ st.pending

\* place_back: recorded and saved before the first copy is written
PlaceBack ==
    /\ pc = "place"
    /\ LET placed == st.test_files \cap Archived
       IN  IF Occupants(placed) # {}
           THEN /\ pc' = "failing"
                /\ UNCHANGED <<st, disk, todo>>
           ELSE /\ pc' = "copy" /\ todo' = placed
                /\ IF placed = {} THEN UNCHANGED <<st, disk>>
                                  ELSE Save([st EXCEPT !.placed = placed])
    /\ deleted' = {}
    /\ UNCHANGED <<worlds, tree, archive, files, bounced, counts, left, byHand>>

CopyOne ==
    /\ pc = "copy"
    /\ \/ /\ todo = {} /\ pc' = "session"
          /\ UNCHANGED <<tree, todo>>
       \/ \E p \in todo :
             /\ tree' = [tree EXCEPT ![p] = archive[p]]
             /\ todo' = todo \ {p} /\ UNCHANGED pc
    /\ UNCHANGED <<worlds, archive, disk, st, files, bounced, counts, deleted, left, byHand>>

\* spawn_reviewer: the session writes and deletes what it likes under test_dir
Session ==
    /\ pc = "session" /\ sessions < MaxSessions
    /\ sessions' = sessions + 1
    /\ \E written, removed \in SUBSET Paths :
          /\ removed \subseteq {p \in Paths : tree[p] # None} \ written
          /\ tree' = [p \in Paths |-> CASE p \in written -> sessions + 2
                                        [] p \in removed -> None
                                        [] OTHER -> tree[p]]
          /\ deleted' = (deleted \cup removed) \ written
    /\ pc' = "judge"
    /\ UNCHANGED <<worlds, archive, disk, st, todo, files, bounced, runs, faults, moves, left, byHand>>

\* a session that timed out or returned rubbish, or wrote outside test_dir: Stop at once
SessionFails ==
    /\ pc = "judge" /\ pc' = "failing"
    /\ UNCHANGED <<worlds, tree, archive, disk, st, todo, files, bounced, counts, deleted, left, byHand>>

\* restore_protected_tests: tracked files that are not the reviewer's go back to HEAD
Protected == (Dirty \cap Tracked) \ st.test_files

\* restore, list the new files, bounce the reviewer once, give the round up, or go on
Judge ==
    /\ pc = "judge"
    /\ tree' = Update(tree, head, Protected)
    /\ \/ /\ ~bounced /\ bounced' = TRUE /\ pc' = "session"
          /\ UNCHANGED <<todo, files, left>>
       \/ /\ bounced /\ pc' = "failing"
          /\ UNCHANGED <<todo, files, bounced, left>>
       \/ /\ Protected = {} /\ pc' = "take"
          /\ files' = Dirty /\ todo' = Dirty
          /\ left' = Update(Empty, tree, Dirty)
          /\ UNCHANGED bounced
    /\ UNCHANGED <<worlds, archive, disk, st, counts, deleted, byHand>>

\* take: the files that could not be moved are listed for the cleanup
Untaken(s) == [s EXCEPT !.placed = @ \cup files]

MoveOne ==
    /\ pc = "take"
    /\ \E p \in todo :
          \/ /\ archive' = [archive EXCEPT ![p] = tree[p]]
             /\ tree' = [tree EXCEPT ![p] = None]
             /\ todo' = todo \ {p}
             /\ UNCHANGED <<st, pc>>
          \/ /\ pc' = "failing" /\ st' = Untaken(st) /\ todo' = {}
             /\ UNCHANGED <<archive, tree>>
    /\ UNCHANGED <<worlds, disk, files, bounced, counts, deleted, left, byHand>>

\* (mutant) what the reviewer deleted stays in the archive
GoneNever == {}

\* what the reviewer did not leave is what it deleted
Gone == Archived \ files

Taken ==
    /\ pc = "take" /\ todo = {}
    /\ archive' = Update(archive, Empty, Gone)
    /\ st' = [st EXCEPT !.test_files = files, !.placed = {}, !.pending = {}]
    /\ pc' = "record"
    /\ UNCHANGED <<worlds, tree, disk, todo, files, bounced, counts, deleted, left, byHand>>

\* the round is recorded and the state saved; what follows no longer touches the files
Record ==
    /\ pc = "record"
    /\ disk' = [st EXCEPT !.rounds = @ + 1, !.reviewer_running = FALSE]
    /\ Ends
    /\ UNCHANGED <<worlds, tree, archive, counts, byHand>>

Kill ==
    /\ pc # "idle" /\ faults < MaxFaults
    /\ faults' = faults + 1
    /\ Ends
    /\ UNCHANGED <<worlds, tree, archive, disk, runs, sessions, moves, byHand>>

-----------------------------------------------------------------------------
(* The author, between two runs *)

Acts(move) ==
    /\ pc = "idle" /\ moves < MaxMoves /\ moves' = moves + 1
    /\ move
    /\ UNCHANGED <<archive, disk, run, runs, sessions, faults>>

\* git add, git commit: of whatever lies in the tree
CommitAll ==
    Acts(Dirty # {} /\ head' = Update(head, tree, Dirty) /\ UNCHANGED <<tree, hidden, byHand>>)

\* git checkout, git clean: the tree is what HEAD says
CleanTree ==
    Acts(Dirty # {} /\ tree' = Update(tree, head, Dirty) /\ byHand' = {} /\ UNCHANGED worlds)

\* a file of the author's own, off the pattern or in .gitignore as the docs ask
Draft ==
    \E p \in Paths \ ((Pattern \ hidden) \cup Tracked) :
        /\ tree[p] = None
        /\ Acts(tree' = [tree EXCEPT ![p] = Author] /\ UNCHANGED <<worlds, byHand>>)

\* a new line in .gitignore
Hide ==
    \E p \in Paths \ (hidden \cup Tracked) :
        Acts(hidden' = hidden \cup {p} /\ UNCHANGED <<head, tree, byHand>>)

Next ==
    \/ StartRun \/ EndsEarly \/ Sweep \/ SweepSaved \/ PreflightPasses
    \/ BeginRound \/ PlaceBack \/ CopyOne
    \/ Session \/ SessionFails \/ Judge \/ MoveOne \/ Taken \/ Record
    \/ Kill \/ Reset \/ CommitAll \/ CleanTree \/ Draft \/ Hide

Spec == Init /\ [][Next]_vars

-----------------------------------------------------------------------------
(* Properties *)

\* Contents are what the author and the sessions wrote, the two state copies are states, and
\* no file is copied or moved that is not on record (place_back, take).
TypeOK ==
    /\ {head, tree, archive, left} \subseteq [Paths -> 0..(MaxSessions + 1)]
    /\ {disk, st} \subseteq State
    /\ {hidden, todo, files, deleted, byHand} \subseteq SUBSET Paths
    /\ todo \subseteq files \cup st.placed
    /\ pc \in {"idle", "sweep", "swept", "tree", "review", "place", "copy", "session", "judge",
               "take", "record", "failing", "failed"}

\* A file leaves the archive only because the reviewer deleted it in the round that is being
\* taken, or because HEAD tracks it (take: "drop the archived files the reviewer deleted"); a
\* file that .gitignore covers by now is the exception: git status does not list it, and take
\* reads that as deleted.
NothingLost ==
    [][\A p \in Archived :
          archive'[p] = None => p \in deleted \/ p \in Tracked \/ p \in hidden]_vars

\* A recorded round's files are all in the archive, with the content the reviewer left, the
\* state lists them, and the tree is clean again (take, whatever earlier rounds left undone).
RoundArchived ==
    pc = "record" => archive = left /\ st.test_files = Archived /\ Dirty = {}

\* When a run checks the tree, no copy of an archived file and no draft on the pattern that
\* a round left, however it ended, makes it refuse, unless it has been left to the author
\* (place_back's list, remove_placed, take, discard_round_leftovers, _reset_test_dir).
CopiesNeverBlock ==
    pc = "tree" =>
        \A p \in Dirty \ (st.pending \cup Tracked \cup byHand) :
            tree[p] > Author => p \notin Pattern \cup Archived

\* The author's files survive every step of a run except the reviewer's own session (the
\* sweep, the copies, the restore and the moves), in the tree, or in the archive if a round took
\* it for the reviewer's: remove_placed's "an archived path an author's file occupies is never
\* deleted".  The exceptions are the paths on the lists of an earlier run, whose sweep takes a
\* file the author has put there since for the copy that run did not get to write, and whose
\* pending files a round may write over.
AuthorsStay ==
    [][\A p \in Paths :
          pc # "session" /\ moves' = moves /\ tree[p] = Author =>
              \/ Author \in {tree'[p], archive'[p]}
              \/ pc = "sweep" /\ p \in disk.placed
              \/ p \in disk.pending]_vars
=============================================================================
