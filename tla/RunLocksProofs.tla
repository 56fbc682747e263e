--------------------------- MODULE RunLocksProofs ---------------------------
(***************************************************************************)
(* Proofs about module RunLocks, for any number of processes, branches and *)
(* kills: one run or merge at a time, lock files that name the run, a stop *)
(* that stops, and the refinement of Turns.  They hold of one working tree *)
(* used by one subcommand at a time, detached runs not counted, in which   *)
(* `run` itself is not killed between spawning its child and writing the   *)
(* locks for it.                                                           *)
(***************************************************************************)
EXTENDS RunLocks, FiniteSetTheorems, TLAPS

\* What the properties rest on: nothing else goes on beside a subcommand but the run.
OneAtATime == Sessions = 1 /\ "launch" \notin Mortal

-----------------------------------------------------------------------------
(* The inductive invariant *)

\* the commands whose pid gets into a lock file; run: a detached child is alive
Takers == Runs \cup {"merge"}
Run(c) == c \in Pids /\ Alive(c) /\ cmd[c] = "run"
Taking == {"ask_lock", "take_lock", "ask_tree", "clear_tree", "take_tree"}
Works == {"load", "preflight", "working", "leave_lock", "leave_tree"}

\* a parent that is writing the locks for its child
Launching(l) == Alive(l) /\ cmd[l] = "launch" /\ pc[l] \in Taking

\* the branch a run is on, or will find itself on
Place(c) == IF At(c, "locate") THEN head ELSE br[c]

\* each command keeps to its own steps
Course ==
    \A p \in Pids : Alive(p) =>
        /\ cmd[p] = "launch" => pc[p] \in {"look_lock", "look_tree", "sweep_tree", "spawn"} \cup Taking
        /\ cmd[p] = "run" => pc[p] \in {"locate", "give_back"} \cup Taking \cup Works
        /\ cmd[p] = "foreground" => pc[p] \in {"give_back"} \cup Taking \cup Works
        /\ cmd[p] = "merge" => pc[p] \in {"look_state", "look_lock", "look_tree", "sweep_tree",
                                          "give_back", "working", "leave_lock", "leave_tree"} \cup Taking
        /\ cmd[p] = "wait" => pc[p] \in {"wait_lock", "wait_state", "drop_lock"}
        /\ cmd[p] = "reset" => pc[p] \in {"reset_lock", "reset_state", "drop_lock"}
        /\ cmd[p] = "stop" => pc[p] \in {"stop_lock", "stop_tree", "stop_sweep", "kill", "drop_stale",
                                         "drop_killed", "drop_tree", "drop_killed_tree",
                                         "close_dead", "close_killed"}

\* lock files name only processes that take locks, and stop kills only runs
Known(q) == q \in Pids => pc[q] # "unborn" /\ cmd[q] \in Takers

Records ==
    /\ \A b \in Branches : Known(lock[b])
    /\ Known(tree.pid)

Peers ==
    \A l \in Pids : Launching(l) \/ At(l, "kill") =>
        peer[l] \in Pids /\ pc[peer[l]] # "unborn" /\ cmd[peer[l]] = "run"

\* one subcommand, and one run
OneEach ==
    /\ \A p, q \in Busy : p = q
    /\ \A c, d \in Pids : Run(c) /\ Run(d) => c = d

\* nobody changes the branch under a subcommand ...
Homes ==
    \A p \in Pids :
        /\ Alive(p) /\ cmd[p] \in {"launch", "foreground", "merge", "reset"} =>
               br[p] = head /\ head \in Branches
        /\ cmd[p] = "stop" /\ pc[p] \in {"stop_lock", "stop_tree"} => br[p] = head
        /\ Alive(p) /\ cmd[p] = "wait" => br[p] \in Branches

\* ... or under a run on its way to look where it is
Places ==
    \A c \in Pids :
        /\ Settling(c) => head \in Branches /\ Place(c) = head
        /\ Run(c) => Place(c) \in Branches

\* the only run beside a launch is its own child, on its own branch
Children ==
    \A l, c \in Pids : Launching(l) /\ Run(c) => c = peer[l] /\ Place(c) = br[l]

\* a run is named in the lock of its branch once its parent, or itself, has written it ...
HeldLock ==
    \A c \in Pids :
        /\ Run(c)
        /\ \/ pc[c] \in {"ask_tree", "clear_tree", "take_tree", "load", "preflight", "working", "leave_lock"}
           \/ pc[c] # "leave_tree" /\ \A l \in Pids : Launching(l) => pc[l] \notin {"ask_lock", "take_lock"}
        => lock[Place(c)] = c

\* ... and in tree.lock once the parent is through and while it does not rewrite it itself
HeldTree ==
    \A c \in Pids : Run(c) /\ pc[c] # "take_tree" /\ (\A l \in Pids : ~Launching(l)) =>
        tree = [pid |-> c, branch |-> Place(c)]

\* from these steps on a command knows that no run is alive
AloneAt(p) ==
    \/ cmd[p] = "launch" /\ pc[p] \in {"sweep_tree", "spawn"}
    \/ cmd[p] = "merge" /\ pc[p] \notin {"look_state", "look_lock", "look_tree"}
    \/ cmd[p] = "foreground" /\ pc[p] \notin {"ask_lock", "take_lock", "ask_tree", "give_back"}
    \/ cmd[p] = "stop" /\ pc[p] \notin {"stop_lock", "stop_tree", "kill"}

Alone == \A p, c \in Pids : Alive(p) /\ AloneAt(p) => ~Run(c)

\* here it knows so of its own branch only, but for a run that has left the branch lock
LookedAt(p) ==
    \/ cmd[p] \in {"launch", "merge"} /\ pc[p] = "look_tree"
    \/ cmd[p] = "foreground" /\ pc[p] \in {"take_lock", "ask_tree", "give_back"}
    \/ cmd[p] = "stop" /\ pc[p] = "stop_tree"
    \/ cmd[p] = "wait" /\ pc[p] \in {"wait_state", "drop_lock"}
    \/ cmd[p] = "reset" /\ pc[p] \in {"reset_state", "drop_lock"}

Looked == \A p, c \in Pids : Alive(p) /\ LookedAt(p) /\ Run(c) => At(c, "leave_tree") \/ Place(c) # br[p]

\* stop aims at the run, if there still is one
Targets == \A p, c \in Pids : At(p, "kill") /\ Run(c) => c = peer[p]

\* a run in its work is marked unfinished; a merge has a state to merge by
Marked ==
    /\ \A p \in Pids : cmd[p] \in Runs /\ pc[p] \in {"preflight", "working"} => disk[br[p]] \in Unfinished
    /\ \A p \in Pids : Alive(p) /\ cmd[p] = "merge" /\ pc[p] # "look_state" => disk[br[p]] # "none"
    /\ \A p \in Pids : cmd[p] = "merge" /\ pc[p] \notin {"unborn", "look_state", "gone"} =>
           loaded[p] \in {"ready", "begun"}

Inv ==
    /\ TypeOK /\ Course /\ Records /\ Peers /\ OneEach /\ Homes /\ Places /\ Children
    /\ HeldLock /\ HeldTree /\ Alone /\ Looked /\ Targets /\ Marked

USE RunLocksAssumption
    DEF Takers, Run, Taking, Works, Launching, Place, Known, AloneAt, LookedAt,
        Commands, NoRecord, Results, Unfinished, Alive, Busy, Runs, Settling, At, GoTo, Exit,
        Owner, TreeOwner, Holder, Free, RemoveLock, Files, Rest, Labels, OneAtATime, Inv

\* With one session, a subcommand starts, and a branch is checked out, only when no other
\* subcommand is in progress.
LEMMA Quiet ==
    ASSUME OneAtATime, Inv, Cardinality(Busy) < Sessions
    PROVE  \A p \in Pids : Alive(p) => cmd[p] = "run"
<1>1. IsFiniteSet(Busy) /\ Cardinality(Busy) \in Nat
  BY RunLocksAssumption, FS_Subset, FS_CardinalityType DEF Busy
<1>2. Cardinality(Busy) = 0
  BY <1>1 DEF OneAtATime
<1>3. Busy = {}
  BY <1>1, <1>2, FS_EmptySet
<1> QED BY <1>3 DEF TypeOK

-----------------------------------------------------------------------------
(* Every step keeps it *)

\* A command starts where no other subcommand is, on the branch checked out.
LEMMA StartKeeps ==
    ASSUME OneAtATime, Inv, NEW p \in Pids, NEW c \in Commands, NEW b \in Branches \cup {Detached},
           Start(p, c, b)
    PROVE  Inv'
<1>1. (TypeOK /\ Course)'
  BY Quiet DEF Start, TypeOK, Course
<1>2. (Records /\ Peers)'
  BY Quiet DEF Start, TypeOK, Records, Peers
<1>3. OneEach'
  BY Quiet DEF Start, TypeOK, OneEach
<1>4. Homes'
  BY Quiet DEF Start, TypeOK, Homes
<1>5. Places'
  BY Quiet DEF Start, TypeOK, Places
<1>6. Children'
  BY Quiet DEF Start, TypeOK, Children
<1>7. HeldLock'
  BY Quiet DEF Start, TypeOK, HeldLock
<1>8. HeldTree'
  BY Quiet DEF Start, TypeOK, HeldTree
<1>9. (Alone /\ Looked)'
  BY Quiet DEF Start, TypeOK, Alone, Looked
<1>10. (Targets /\ Marked)'
  BY Quiet DEF Start, TypeOK, Targets, Marked
<1> QED BY <1>1, <1>2, <1>3, <1>4, <1>5, <1>6, <1>7, <1>8, <1>9, <1>10

\* The child that a launch spawns is the only run: the launch found the tree free.
LEMMA SpawnKeeps ==
    ASSUME OneAtATime, Inv, NEW p \in Pids, NEW c \in Pids, Spawn(p, c)
    PROVE  Inv'
<1>1. (TypeOK /\ Course)'
  BY DEF Spawn, TypeOK, Course
<1>2. (Records /\ Peers)'
  BY DEF Spawn, TypeOK, Records, Peers
<1>3. OneEach'
  <2>1. \A q \in Pids : ~Run(q)
    BY DEF Spawn, TypeOK, Course, Alone
  <2>2. \A q \in Pids : Run(q)' => q = c
    BY <2>1 DEF Spawn, TypeOK
  <2>3. Busy' \subseteq Busy
    BY DEF Spawn, TypeOK
  <2> QED BY <2>2, <2>3 DEF OneEach
<1>4. Homes'
  BY DEF Spawn, TypeOK, Homes
<1>5. Places'
  BY DEF Spawn, TypeOK, Course, OneEach, Homes, Places
<1>6. Children'
  BY DEF Spawn, TypeOK, Course, OneEach, Homes, Children, Alone
<1>7. (HeldLock /\ HeldTree)'
  BY DEF Spawn, TypeOK, Course, HeldLock, HeldTree
<1>8. Alone'
  BY DEF Spawn, TypeOK, Course, OneEach, Alone
<1>9. Looked'
  BY DEF Spawn, TypeOK, OneEach, Places, Looked
<1>10. Targets'
  BY DEF Spawn, TypeOK, Course, OneEach, Targets
<1>11. Marked'
  BY DEF Spawn, TypeOK, Marked
<1> QED BY <1>1, <1>2, <1>3, <1>4, <1>5, <1>6, <1>7, <1>8, <1>9, <1>10, <1>11

\* The child finds the branch it was launched on, since its parent kept it checked out.
LEMMA LocateKeeps ==
    ASSUME OneAtATime, Inv, NEW p \in Pids, Locate(p)
    PROVE  Inv'
<1>1. (TypeOK /\ Course)'
  BY DEF Locate, TypeOK, Course
<1>2. (Records /\ Peers)'
  BY DEF Locate, TypeOK, Course, Records, Peers
<1>3. (OneEach /\ Homes /\ Places /\ Children)'
  <2>1. OneEach'
    BY DEF Locate, TypeOK, Course, OneEach
  <2>2. Homes'
    BY DEF Locate, TypeOK, Course, Homes
  <2>3. Places'
    BY DEF Locate, TypeOK, Course, Places
  <2>4. Children'
    BY DEF Locate, TypeOK, Course, Children
  <2> QED BY <2>1, <2>2, <2>3, <2>4
<1>4. (HeldLock /\ HeldTree)'
  BY DEF Locate, TypeOK, HeldLock, HeldTree
<1>5. (Alone /\ Looked)'
  BY DEF Locate, TypeOK, Alone, Looked
<1>6. (Targets /\ Marked)'
  BY DEF Locate, TypeOK, Course, Targets, Marked
<1> QED BY <1>1, <1>2, <1>3, <1>4, <1>5, <1>6

\* merge reads the state.
LEMMA LookStateKeeps ==
    ASSUME OneAtATime, Inv, NEW p \in Pids, LookState(p)
    PROVE  Inv'
<1>1. (TypeOK /\ Course)'
  BY DEF LookState, TypeOK, Course
<1>2. (Records /\ Peers)'
  BY DEF LookState, TypeOK, Records, Peers
<1>3. (OneEach /\ Homes /\ Places /\ Children)'
  <2>1. OneEach'
    BY DEF LookState, TypeOK, OneEach
  <2>2. Homes'
    BY DEF LookState, TypeOK, Homes
  <2>3. Places'
    BY DEF LookState, TypeOK, Places
  <2>4. Children'
    BY DEF LookState, TypeOK, Children
  <2> QED BY <2>1, <2>2, <2>3, <2>4
<1>4. (HeldLock /\ HeldTree)'
  BY DEF LookState, TypeOK, HeldLock, HeldTree
<1>5. (Alone /\ Looked)'
  BY DEF LookState, TypeOK, Alone, Looked
<1>6. (Targets /\ Marked)'
  BY DEF LookState, TypeOK, Targets, Marked
<1> QED BY <1>1, <1>2, <1>3, <1>4, <1>5, <1>6

\* A branch lock nobody holds tells launch and merge that no run is at work on their branch.
LEMMA LookLockKeeps ==
    ASSUME OneAtATime, Inv, NEW p \in Pids, LookLock(p)
    PROVE  Inv'
<1>1. (TypeOK /\ Course)'
  BY DEF LookLock, TypeOK, Course
<1>2. (Records /\ Peers)'
  BY DEF LookLock, TypeOK, Records, Peers
<1>3. (OneEach /\ Homes /\ Places /\ Children)'
  <2>1. OneEach'
    BY DEF LookLock, TypeOK, OneEach
  <2>2. Homes'
    BY DEF LookLock, TypeOK, Homes
  <2>3. Places'
    BY DEF LookLock, TypeOK, Places
  <2>4. Children'
    BY DEF LookLock, TypeOK, Children
  <2> QED BY <2>1, <2>2, <2>3, <2>4
<1>4. (HeldLock /\ HeldTree)'
  BY DEF LookLock, TypeOK, HeldLock, HeldTree
<1>5. (Alone /\ Looked)'
  BY DEF LookLock, TypeOK, OneEach, Homes, HeldLock, Alone, Looked
<1>6. (Targets /\ Marked)'
  BY DEF LookLock, TypeOK, Targets, Marked
<1> QED BY <1>1, <1>2, <1>3, <1>4, <1>5, <1>6

\* A tree lock nobody holds, after the branch lock, tells them that there is no run at all.
LEMMA LookTreeKeeps ==
    ASSUME OneAtATime, Inv, NEW p \in Pids, LookTree(p)
    PROVE  Inv'
<1>1. (TypeOK /\ Course)'
  BY DEF LookTree, TypeOK, Course
<1>2. (Records /\ Peers)'
  BY DEF LookTree, TypeOK, Records, Peers
<1>3. (OneEach /\ Homes /\ Places /\ Children)'
  <2>1. OneEach'
    BY DEF LookTree, TypeOK, OneEach
  <2>2. Homes'
    BY DEF LookTree, TypeOK, Homes
  <2>3. Places'
    BY DEF LookTree, TypeOK, Places
  <2>4. Children'
    BY DEF LookTree, TypeOK, Children
  <2> QED BY <2>1, <2>2, <2>3, <2>4
<1>4. (HeldLock /\ HeldTree)'
  BY DEF LookTree, TypeOK, HeldLock, HeldTree
<1>5. (Alone /\ Looked)'
  BY DEF LookTree, TypeOK, OneEach, Homes, Places, HeldTree, Alone, Looked
<1>6. (Targets /\ Marked)'
  BY DEF LookTree, TypeOK, Targets, Marked
<1> QED BY <1>1, <1>2, <1>3, <1>4, <1>5, <1>6

\* The record that is swept is nobody's.
LEMMA SweepTreeKeeps ==
    ASSUME OneAtATime, Inv, NEW p \in Pids, SweepTree(p)
    PROVE  Inv'
<1>1. (TypeOK /\ Course)'
  BY DEF SweepTree, TypeOK, Course
<1>2. (Records /\ Peers)'
  BY DEF SweepTree, TypeOK, Records, Peers
<1>3. (OneEach /\ Homes /\ Places /\ Children)'
  BY DEF SweepTree, TypeOK, OneEach, Homes, Places, Children
<1>4. (HeldLock /\ HeldTree)'
  BY DEF SweepTree, TypeOK, Course, HeldLock, HeldTree, Alone
<1>5. (Alone /\ Looked)'
  BY DEF SweepTree, TypeOK, Alone, Looked
<1>6. (Targets /\ Marked)'
  BY DEF SweepTree, TypeOK, Targets, Marked
<1> QED BY <1>1, <1>2, <1>3, <1>4, <1>5, <1>6

\* Whoever holds the lock a foreground run asks for, it stays out of it.
LEMMA AskLockKeeps ==
    ASSUME OneAtATime, Inv, NEW p \in Pids, AskLock(p)
    PROVE  Inv'
<1>1. (TypeOK /\ Course)'
  BY DEF AskLock, TypeOK, Course
<1>2. (Records /\ Peers)'
  BY DEF AskLock, TypeOK, Records, Peers
<1>3. (OneEach /\ Homes /\ Places /\ Children)'
  <2>1. OneEach'
    BY DEF AskLock, TypeOK, OneEach
  <2>2. Homes'
    BY DEF AskLock, TypeOK, Homes
  <2>3. Places'
    BY DEF AskLock, TypeOK, Places
  <2>4. Children'
    BY DEF AskLock, TypeOK, Children
  <2> QED BY <2>1, <2>2, <2>3, <2>4
<1>4. (HeldLock /\ HeldTree)'
  BY DEF AskLock, TypeOK, OneEach, Children, HeldLock, HeldTree
<1>5. (Alone /\ Looked)'
  BY DEF AskLock, TypeOK, OneEach, Homes, HeldLock, Alone, Looked
<1>6. (Targets /\ Marked)'
  BY DEF AskLock, TypeOK, Targets, Marked
<1> QED BY <1>1, <1>2, <1>3, <1>4, <1>5, <1>6

\* The lock that is written over was nobody's, or already the child's.
LEMMA TakeLockKeeps ==
    ASSUME OneAtATime, Inv, NEW p \in Pids, TakeLock(p)
    PROVE  Inv'
<1>1. TypeOK'
  BY DEF TakeLock, TypeOK
<1>2. Course'
  BY DEF TakeLock, TypeOK, Course
<1>3. (Records /\ Peers)'
  BY DEF TakeLock, TypeOK, Course, Records, Peers
<1>4. (OneEach /\ Homes /\ Places /\ Children)'
  <2>1. OneEach'
    BY DEF TakeLock, TypeOK, OneEach
  <2>2. Homes'
    BY DEF TakeLock, TypeOK, Homes
  <2>3. Places'
    BY DEF TakeLock, TypeOK, Places
  <2>4. Children'
    BY DEF TakeLock, TypeOK, Children
  <2> QED BY <2>1, <2>2, <2>3, <2>4
<1>5. (HeldLock /\ HeldTree)'
  BY DEF TakeLock, TypeOK, Course, Homes, Children, HeldLock, HeldTree, Alone, Looked
<1>6. (Alone /\ Looked)'
  BY DEF TakeLock, TypeOK, Alone, Looked
<1>7. (Targets /\ Marked)'
  BY DEF TakeLock, OneEach, HeldLock, HeldTree, Targets, Marked
<1> QED BY <1>1, <1>2, <1>3, <1>4, <1>5, <1>6, <1>7

\* A run other than the one that is asking keeps the tree; it would be on another branch.
LEMMA AskTreeKeeps ==
    ASSUME OneAtATime, Inv, NEW p \in Pids, AskTree(p)
    PROVE  Inv'
<1>1. (TypeOK /\ Course)'
  BY DEF AskTree, TypeOK, Course
<1>2. (Records /\ Peers)'
  BY DEF AskTree, TypeOK, Records, Peers
<1>3. OneEach'
  BY DEF AskTree, TypeOK, OneEach
<1>4. Homes'
  BY DEF AskTree, TypeOK, Homes
<1>5. Places'
  BY DEF AskTree, TypeOK, Places
<1>6. Children'
  BY DEF AskTree, TypeOK, Children
<1>7. (HeldLock /\ HeldTree)'
  BY DEF AskTree, TypeOK, OneEach, Homes, Children, HeldLock, HeldTree
<1>8. Alone'
  BY DEF AskTree, TypeOK, OneEach, Homes, Places, HeldTree, Alone, Looked
<1>9. Looked'
  BY DEF AskTree, TypeOK, Looked
<1>10. (Targets /\ Marked)'
  BY DEF AskTree, TypeOK, Targets, Marked
<1> QED BY <1>1, <1>2, <1>3, <1>4, <1>5, <1>6, <1>7, <1>8, <1>9, <1>10

\* The record that is cleared is nobody's.
LEMMA ClearTreeKeeps ==
    ASSUME OneAtATime, Inv, NEW p \in Pids, ClearTree(p)
    PROVE  Inv'
<1>1. (TypeOK /\ Course)'
  BY DEF ClearTree, TypeOK, Course
<1>2. (Records /\ Peers)'
  BY DEF ClearTree, TypeOK, Records, Peers
<1>3. (OneEach /\ Homes /\ Places /\ Children)'
  BY DEF ClearTree, TypeOK, OneEach, Homes, Places, Children
<1>4. (HeldLock /\ HeldTree)'
  BY DEF ClearTree, TypeOK, Course, HeldLock, HeldTree, Alone
<1>5. (Alone /\ Looked)'
  BY DEF ClearTree, TypeOK, Alone, Looked
<1>6. (Targets /\ Marked)'
  BY DEF ClearTree, TypeOK, Targets, Marked
<1> QED BY <1>1, <1>2, <1>3, <1>4, <1>5, <1>6

\* A launch leaves its child the tree; the child writes the same again.
LEMMA TakeTreeKeeps ==
    ASSUME OneAtATime, Inv, NEW p \in Pids, TakeTree(p)
    PROVE  Inv'
<1>1. (TypeOK /\ Course)'
  BY DEF TakeTree, TypeOK, Course, Peers, Homes, Places, Looked, Marked
<1>2. (Records /\ Peers)'
  BY DEF TakeTree, TypeOK, Course, Records, Peers
<1>3. (OneEach /\ Homes /\ Places /\ Children)'
  <2>1. OneEach'
    BY DEF TakeTree, TypeOK, OneEach
  <2>2. Homes'
    BY DEF TakeTree, TypeOK, Homes
  <2>3. Places'
    BY DEF TakeTree, TypeOK, Places
  <2>4. Children'
    BY DEF TakeTree, TypeOK, Children
  <2> QED BY <2>1, <2>2, <2>3, <2>4
<1>4. (HeldLock /\ HeldTree)'
  BY DEF TakeTree, TypeOK, Course, OneEach, Homes, Places, Children, HeldLock, HeldTree, Alone,
            Looked
<1>5. (Alone /\ Looked)'
  BY DEF TakeTree, TypeOK, Alone, Looked
<1>6. (Targets /\ Marked)'
  BY DEF TakeTree, TypeOK, Targets, Marked
<1> QED BY <1>1, <1>2, <1>3, <1>4, <1>5, <1>6

\* Only the lock the process took itself is given back.
LEMMA GiveBackKeeps ==
    ASSUME OneAtATime, Inv, NEW p \in Pids, GiveBack(p)
    PROVE  Inv'
<1>1. (TypeOK /\ Course)'
  BY DEF GiveBack, TypeOK, Course
<1>2. (Records /\ Peers)'
  BY DEF GiveBack, TypeOK, Records, Peers
<1>3. (OneEach /\ Homes /\ Places /\ Children)'
  BY DEF GiveBack, TypeOK, OneEach, Homes, Places, Children
<1>4. (HeldLock /\ HeldTree)'
  BY DEF GiveBack, TypeOK, Course, OneEach, Places, HeldLock, HeldTree, Alone, Looked
<1>5. (Alone /\ Looked)'
  BY DEF GiveBack, TypeOK, Alone, Looked
<1>6. (Targets /\ Marked)'
  BY DEF GiveBack, TypeOK, Targets, Marked
<1> QED BY <1>1, <1>2, <1>3, <1>4, <1>5, <1>6

\* The run marks its branch as unfinished.
LEMMA LoadKeeps ==
    ASSUME OneAtATime, Inv, NEW p \in Pids, Load(p)
    PROVE  Inv'
<1>1. TypeOK'
  BY DEF Load, TypeOK
<1>2. Course'
  BY DEF Load, TypeOK, Course
<1>3. (Records /\ Peers)'
  BY DEF Load, TypeOK, Records, Peers
<1>4. (OneEach /\ Homes /\ Places /\ Children)'
  BY DEF Load, TypeOK, OneEach, Homes, Places, Children
<1>5. (HeldLock /\ HeldTree)'
  BY DEF Load, TypeOK, HeldLock, HeldTree
<1>6. (Alone /\ Looked)'
  BY DEF Load, TypeOK, Alone, Looked
<1>7. (Targets /\ Marked)'
  BY DEF Load, TypeOK, Homes, Places, Targets, Marked
<1> QED BY <1>1, <1>2, <1>3, <1>4, <1>5, <1>6, <1>7

\* HEAD names a branch at preflight: the one the run is on.
LEMMA PreflightKeeps ==
    ASSUME OneAtATime, Inv, NEW p \in Pids, Preflight(p)
    PROVE  Inv'
<1>1. (TypeOK /\ Course)'
  BY DEF Preflight, TypeOK, Course
<1>2. (Records /\ Peers)'
  BY DEF Preflight, TypeOK, Records, Peers
<1>3. OneEach'
  BY DEF Preflight, TypeOK, OneEach
<1>4. Homes'
  BY DEF Preflight, TypeOK, Homes
<1>5. Places'
  BY DEF Preflight, TypeOK, Places
<1>6. Children'
  BY DEF Preflight, TypeOK, Children
<1>7. (HeldLock /\ HeldTree)'
  BY DEF Preflight, TypeOK, HeldLock, HeldTree
<1>8. (Alone /\ Looked)'
  BY DEF Preflight, TypeOK, Alone, Looked
<1>9. (Targets /\ Marked)'
  BY DEF Preflight, TypeOK, Course, OneEach, Homes, Places, Targets, Marked
<1> QED BY <1>1, <1>2, <1>3, <1>4, <1>5, <1>6, <1>7, <1>8, <1>9

\* Nobody else is at work when a run or a merge records its result.
LEMMA FinishKeeps ==
    ASSUME OneAtATime, Inv, NEW p \in Pids, Finish(p)
    PROVE  Inv'
<1>0. PICK r \in Outcomes(p) : disk' = [disk EXCEPT ![br[p]] = r]
  BY DEF Finish
<1>r. r \in {"stopped"} \cup Unfinished \cup Results /\ br[p] \in Branches
  <2>1. br[p] \in Branches
    BY DEF Finish, TypeOK, Course, Homes, Places
  <2>2. CASE cmd[p] = "merge"
    <3>1. loaded[p] \in {"ready", "begun"} /\ disk[br[p]] # "none"
      BY <2>2 DEF Finish, Marked
    <3>2. disk[br[p]] \in {"none", "stopped"} \cup Unfinished \cup Results
      BY <2>1 DEF TypeOK
    <3>3. r \in {"merged", loaded[p], disk[br[p]]}
      BY <2>2, <1>0 DEF Outcomes
    <3>4. r # "none" /\ r \in {"none", "stopped"} \cup Unfinished \cup Results
      <4>1. r = "merged" \/ r = loaded[p] \/ r = disk[br[p]]
        BY <3>3
      <4>2. CASE r = "merged"
        BY <4>2
      <4>3. CASE r = loaded[p]
        BY <3>1, <4>3
      <4>4. CASE r = disk[br[p]]
        BY <3>1, <3>2, <4>4
      <4> QED BY <4>1, <4>2, <4>3, <4>4
    <3> QED BY <2>1, <3>4
  <2>3. CASE cmd[p] # "merge"
    <3>1. r \in {"result", "ready"}
      BY <2>3, <1>0, Zenon DEF Outcomes
    <3> QED BY <2>1, <3>1
  <2> QED BY <2>1, <2>2, <2>3
<1>1. (TypeOK /\ Course)'
  <2>1. TypeOK'
    BY <1>0, <1>r DEF Finish, TypeOK
  <2>2. Course'
    BY DEF Finish, TypeOK, Course
  <2> QED BY <2>1, <2>2
<1>2. (Records /\ Peers)'
  BY DEF Finish, TypeOK, Records, Peers
<1>3. (OneEach /\ Homes /\ Places /\ Children)'
  BY DEF Finish, TypeOK, OneEach, Homes, Places, Children
<1>4. (HeldLock /\ HeldTree)'
  BY DEF Finish, TypeOK, HeldLock, HeldTree
<1>5. (Alone /\ Looked)'
  BY DEF Finish, TypeOK, Alone, Looked
<1>6. (Targets /\ Marked)'
  <2>1. Targets'
    BY DEF Finish, TypeOK, Targets
  <2>2. \A q \in Pids \ {p} : cmd[q] \in Runs => pc[q] \notin {"preflight", "working"}
    BY DEF Finish, TypeOK, Course, OneEach, Alone
  <2>3. \A q \in Pids : cmd'[q] = cmd[q] /\ br'[q] = br[q] /\ loaded'[q] = loaded[q]
                       /\ (q # p => pc'[q] = pc[q])
    BY DEF Finish, TypeOK
  <2>4. pc[p] = "working" /\ pc'[p] = "leave_lock"
    BY DEF Finish, TypeOK
  <2>5. \A b \in Branches : disk'[b] = disk[b] \/ disk'[b] = r
    BY <1>0, <1>r DEF TypeOK
  <2>6. r # "none"
    BY <1>r
  <2>7. \A q \in Pids : Alive(q) /\ cmd[q] = "merge" => br[q] \in Branches
    BY DEF Homes
  <2>8. Marked'
    BY <2>2, <2>3, <2>4, <2>5, <2>6, <2>7 DEF Marked
  <2> QED BY <2>1, <2>8
<1> QED BY <1>1, <1>2, <1>3, <1>4, <1>5, <1>6

\* So does one that notes what it is about to do.
LEMMA IntendKeeps ==
    ASSUME OneAtATime, Inv, NEW p \in Pids, Intend(p)
    PROVE  Inv'
<1>0. loaded[p] \in {"ready", "begun"}
  BY DEF Intend, Marked
<1>1. (TypeOK /\ Course)'
  BY <1>0 DEF Intend, TypeOK, Course, Homes
<1>2. (Records /\ Peers)'
  BY DEF Intend, TypeOK, Records, Peers
<1>3. (OneEach /\ Homes /\ Places /\ Children)'
  BY DEF Intend, TypeOK, OneEach, Homes, Places, Children
<1>4. (HeldLock /\ HeldTree)'
  BY DEF Intend, TypeOK, HeldLock, HeldTree
<1>5. (Alone /\ Looked)'
  BY DEF Intend, TypeOK, Alone, Looked
<1>6. (Targets /\ Marked)'
  <2>1. Targets'
    BY DEF Intend, TypeOK, Targets
  <2>2. \A q \in Pids : cmd[q] \in Runs => pc[q] \notin {"preflight", "working"}
    BY DEF Intend, TypeOK, Course, OneEach, Alone
  <2>3. \A b \in Branches : disk'[b] = disk[b] \/ disk'[b] = loaded[p]
    BY DEF Intend, TypeOK
  <2>4. \A q \in Pids : Alive(q) /\ cmd[q] = "merge" => br[q] \in Branches
    BY DEF Homes
  <2>5. Marked'
    BY <1>0, <2>2, <2>3, <2>4 DEF Intend, Marked
  <2> QED BY <2>1, <2>5
<1> QED BY <1>1, <1>2, <1>3, <1>4, <1>5, <1>6

\* A run that leaves the branch lock is still named in the tree lock ...
LEMMA LeaveLockKeeps ==
    ASSUME OneAtATime, Inv, NEW p \in Pids, LeaveLock(p)
    PROVE  Inv'
<1>1. (TypeOK /\ Course)'
  BY DEF LeaveLock, TypeOK, Course
<1>2. (Records /\ Peers)'
  BY DEF LeaveLock, TypeOK, Records, Peers
<1>3. (OneEach /\ Homes /\ Places /\ Children)'
  BY DEF LeaveLock, TypeOK, OneEach, Homes, Places, Children
<1>4. (HeldLock /\ HeldTree)'
  BY DEF LeaveLock, TypeOK, Course, OneEach, HeldLock, HeldTree, Alone
<1>5. (Alone /\ Looked)'
  BY DEF LeaveLock, TypeOK, Alone, Looked
<1>6. (Targets /\ Marked)'
  BY DEF LeaveLock, TypeOK, Targets, Marked
<1> QED BY <1>1, <1>2, <1>3, <1>4, <1>5, <1>6

\* ... until it ends.
LEMMA LeaveTreeKeeps ==
    ASSUME OneAtATime, Inv, NEW p \in Pids, LeaveTree(p)
    PROVE  Inv'
<1>1. (TypeOK /\ Course)'
  BY DEF LeaveTree, TypeOK, Course
<1>2. (Records /\ Peers)'
  BY DEF LeaveTree, TypeOK, Records, Peers
<1>3. (OneEach /\ Homes /\ Places /\ Children)'
  BY DEF LeaveTree, TypeOK, OneEach, Homes, Places, Children
<1>4. HeldLock'
  BY DEF LeaveTree, TypeOK, HeldLock
<1>5. HeldTree'
  BY DEF LeaveTree, TypeOK, Course, HeldTree, Alone
<1>6. (Alone /\ Looked)'
  BY DEF LeaveTree, TypeOK, Alone, Looked
<1>7. (Targets /\ Marked)'
  BY DEF LeaveTree, TypeOK, Targets, Marked
<1> QED BY <1>1, <1>2, <1>3, <1>4, <1>5, <1>6, <1>7

\* wait finds the lock of its branch with nobody alive in it.
LEMMA WaitLockKeeps ==
    ASSUME OneAtATime, Inv, NEW p \in Pids, WaitLock(p)
    PROVE  Inv'
<1>1. (TypeOK /\ Course)'
  BY DEF WaitLock, TypeOK, Course
<1>2. (Records /\ Peers)'
  BY DEF WaitLock, TypeOK, Records, Peers
<1>3. (OneEach /\ Homes /\ Places /\ Children)'
  <2>1. OneEach'
    BY DEF WaitLock, TypeOK, OneEach
  <2>2. Homes'
    BY DEF WaitLock, TypeOK, Homes
  <2>3. Places'
    BY DEF WaitLock, TypeOK, Places
  <2>4. Children'
    BY DEF WaitLock, TypeOK, Children
  <2> QED BY <2>1, <2>2, <2>3, <2>4
<1>4. (HeldLock /\ HeldTree)'
  BY DEF WaitLock, TypeOK, HeldLock, HeldTree
<1>5. (Alone /\ Looked)'
  BY DEF WaitLock, TypeOK, OneEach, Homes, HeldLock, Alone, Looked
<1>6. (Targets /\ Marked)'
  BY DEF WaitLock, TypeOK, Targets, Marked
<1> QED BY <1>1, <1>2, <1>3, <1>4, <1>5, <1>6

\* wait reads the state.
LEMMA WaitStateKeeps ==
    ASSUME OneAtATime, Inv, NEW p \in Pids, WaitState(p)
    PROVE  Inv'
<1>1. (TypeOK /\ Course)'
  BY DEF WaitState, TypeOK, Course
<1>2. (Records /\ Peers)'
  BY DEF WaitState, TypeOK, Records, Peers
<1>3. (OneEach /\ Homes /\ Places /\ Children)'
  BY DEF WaitState, TypeOK, OneEach, Homes, Places, Children
<1>4. (HeldLock /\ HeldTree)'
  BY DEF WaitState, TypeOK, HeldLock, HeldTree
<1>5. (Alone /\ Looked)'
  BY DEF WaitState, TypeOK, Course, Alone, Looked
<1>6. (Targets /\ Marked)'
  BY DEF WaitState, TypeOK, Targets, Marked
<1> QED BY <1>1, <1>2, <1>3, <1>4, <1>5, <1>6

\* reset finds the lock of its branch with nobody alive in it.
LEMMA ResetLockKeeps ==
    ASSUME OneAtATime, Inv, NEW p \in Pids, ResetLock(p)
    PROVE  Inv'
<1>1. (TypeOK /\ Course)'
  BY DEF ResetLock, TypeOK, Course
<1>2. (Records /\ Peers)'
  BY DEF ResetLock, TypeOK, Records, Peers
<1>3. (OneEach /\ Homes /\ Places /\ Children)'
  <2>1. OneEach'
    BY DEF ResetLock, TypeOK, OneEach
  <2>2. Homes'
    BY DEF ResetLock, TypeOK, Homes
  <2>3. Places'
    BY DEF ResetLock, TypeOK, Places
  <2>4. Children'
    BY DEF ResetLock, TypeOK, Children
  <2> QED BY <2>1, <2>2, <2>3, <2>4
<1>4. (HeldLock /\ HeldTree)'
  BY DEF ResetLock, TypeOK, HeldLock, HeldTree
<1>5. Alone'
  BY DEF ResetLock, TypeOK, Alone
<1>6. Looked'
  BY DEF ResetLock, TypeOK, OneEach, Homes, HeldLock, Looked
<1>7. (Targets /\ Marked)'
  BY DEF ResetLock, TypeOK, Targets, Marked
<1> QED BY <1>1, <1>2, <1>3, <1>4, <1>5, <1>6, <1>7

\* reset removes a state nobody is about to write to.
LEMMA ResetStateKeeps ==
    ASSUME OneAtATime, Inv, NEW p \in Pids, ResetState(p)
    PROVE  Inv'
<1>1. TypeOK'
  BY DEF ResetState, TypeOK
<1>2. Course'
  BY DEF ResetState, TypeOK, Course
<1>3. (Records /\ Peers)'
  BY DEF ResetState, TypeOK, Records, Peers
<1>4. (OneEach /\ Homes /\ Places /\ Children)'
  BY DEF ResetState, TypeOK, OneEach, Homes, Places, Children
<1>5. (HeldLock /\ HeldTree)'
  BY DEF ResetState, TypeOK, HeldLock, HeldTree
<1>6. (Alone /\ Looked)'
  BY DEF ResetState, TypeOK, Course, Alone, Looked
<1>7. Targets'
  BY DEF ResetState, TypeOK, Targets
<1>8. Marked'
  <2>1. cmd[p] = "reset" /\ p \in Busy
    BY DEF ResetState, TypeOK, Course
  <2>2. \A q \in Pids : cmd[q] \in Runs /\ pc[q] \in {"preflight", "working"} => br[q] # br[p]
    BY <2>1 DEF ResetState, TypeOK, OneEach, Looked
  <2>3. \A q \in Pids : Alive(q) => cmd[q] # "merge"
    BY <2>1 DEF TypeOK, OneEach
  <2>4. \A q \in Pids : br[q] # br[p] => disk'[br[q]] = disk[br[q]]
    BY DEF ResetState, TypeOK
  <2> QED BY <2>1, <2>2, <2>3, <2>4 DEF ResetState, TypeOK, Marked
<1> QED BY <1>1, <1>2, <1>3, <1>4, <1>5, <1>6, <1>7, <1>8

\* wait and reset remove a lock that is still stale.
LEMMA DropLockKeeps ==
    ASSUME OneAtATime, Inv, NEW p \in Pids, DropLock(p)
    PROVE  Inv'
<1>1. (TypeOK /\ Course)'
  BY DEF DropLock, TypeOK, Course
<1>2. (Records /\ Peers)'
  BY DEF DropLock, TypeOK, Records, Peers
<1>3. (OneEach /\ Homes /\ Places /\ Children)'
  BY DEF DropLock, TypeOK, OneEach, Homes, Places, Children
<1>4. HeldLock'
  BY DEF DropLock, TypeOK, Course, Places, HeldLock, HeldTree, Looked
<1>5. HeldTree'
  BY DEF DropLock, TypeOK, HeldTree
<1>6. (Alone /\ Looked)'
  BY DEF DropLock, TypeOK, Alone, Looked
<1>7. (Targets /\ Marked)'
  BY DEF DropLock, TypeOK, Targets, Marked
<1> QED BY <1>1, <1>2, <1>3, <1>4, <1>5, <1>6, <1>7

\* What stop finds in the branch lock is the one run, or none.
LEMMA StopLockKeeps ==
    ASSUME OneAtATime, Inv, NEW p \in Pids, StopLock(p)
    PROVE  Inv'
<1>1. (TypeOK /\ Course)'
  BY DEF StopLock, TypeOK, Course
<1>2. Records'
  BY DEF StopLock, TypeOK, Records
<1>3. Peers'
  BY DEF StopLock, TypeOK, Course, Records, Peers, OneEach
<1>4. OneEach'
  BY DEF StopLock, TypeOK, OneEach
<1>5. Homes'
  BY DEF StopLock, TypeOK, Homes
<1>6. Places'
  BY DEF StopLock, TypeOK, Places
<1>7. Children'
  BY DEF StopLock, TypeOK, Course, Children
<1>8. (HeldLock /\ HeldTree)'
  BY DEF StopLock, TypeOK, HeldLock, HeldTree
<1>9. Alone'
  BY DEF StopLock, TypeOK, Alone
<1>10. Looked'
  BY DEF StopLock, TypeOK, OneEach, Places, HeldLock, Looked
<1>11. Targets'
  BY DEF StopLock, TypeOK, Course, Records, OneEach, Targets
<1>12. Marked'
  BY DEF StopLock, TypeOK, Marked
<1> QED BY <1>1, <1>2, <1>3, <1>4, <1>5, <1>6, <1>7, <1>8, <1>9, <1>10, <1>11, <1>12

\* What stop finds in tree.lock is the one run; a tree lock nobody holds says there is none.
LEMMA StopTreeKeeps ==
    ASSUME OneAtATime, Inv, NEW p \in Pids, StopTree(p)
    PROVE  Inv'
<1>1. (TypeOK /\ Course)'
  BY DEF StopTree, TypeOK, Course
<1>2. Records'
  BY DEF StopTree, TypeOK, Records
<1>3. Peers'
  BY DEF StopTree, TypeOK, Course, Records, Peers, OneEach
<1>4. OneEach'
  BY DEF StopTree, TypeOK, OneEach
<1>5. Homes'
  BY DEF StopTree, TypeOK, Course, Homes
<1>6. Places'
  BY DEF StopTree, TypeOK, Course, Places
<1>7. Children'
  BY DEF StopTree, TypeOK, Course, Children
<1>8. (HeldLock /\ HeldTree)'
  BY DEF StopTree, TypeOK, Course, HeldLock, HeldTree
<1>9. Alone'
  BY DEF StopTree, TypeOK, OneEach, Homes, Places, HeldTree, Alone, Looked
<1>10. Looked'
  BY DEF StopTree, TypeOK, Course, Looked
<1>11. Targets'
  BY DEF StopTree, TypeOK, Course, Records, OneEach, Targets
<1>12. Marked'
  BY DEF StopTree, TypeOK, Course, Marked
<1> QED BY <1>1, <1>2, <1>3, <1>4, <1>5, <1>6, <1>7, <1>8, <1>9, <1>10, <1>11, <1>12

\* The record that is swept is nobody's.
LEMMA StopSweepKeeps ==
    ASSUME OneAtATime, Inv, NEW p \in Pids, StopSweep(p)
    PROVE  Inv'
<1>1. (TypeOK /\ Course)'
  BY DEF StopSweep, TypeOK, Course
<1>2. (Records /\ Peers)'
  BY DEF StopSweep, TypeOK, Records, Peers
<1>3. (OneEach /\ Homes /\ Places /\ Children)'
  BY DEF StopSweep, TypeOK, OneEach, Homes, Places, Children
<1>4. HeldLock'
  BY DEF StopSweep, TypeOK, HeldLock
<1>5. HeldTree'
  BY DEF StopSweep, TypeOK, Course, HeldTree, Alone
<1>6. (Alone /\ Looked)'
  BY DEF StopSweep, TypeOK, Alone, Looked
<1>7. (Targets /\ Marked)'
  BY DEF StopSweep, TypeOK, Targets, Marked
<1> QED BY <1>1, <1>2, <1>3, <1>4, <1>5, <1>6, <1>7

\* The process that is killed was the one run.
LEMMA KillKeeps ==
    ASSUME OneAtATime, Inv, NEW p \in Pids, Kill(p)
    PROVE  Inv'
<1>1. cmd[p] = "stop" /\ peer[p] \in Pids \ {p}
  BY DEF Kill, TypeOK, Course, Peers
<1>2. pc' = [q \in Pids |-> IF q = peer[p] THEN "gone" ELSE IF q = p THEN "drop_killed" ELSE pc[q]]
  BY <1>1 DEF Kill, TypeOK
<1>3. \A q \in Pids : Alive(q)' => Alive(q) /\ q # peer[p] /\ (q # p => pc'[q] = pc[q])
  BY <1>1, <1>2 DEF Kill, TypeOK
<1>4. \A q \in Pids : ~Run(q)'
  BY <1>1, <1>3 DEF Kill, Targets
<1>5. TypeOK' /\ Course'
  BY <1>1, <1>2 DEF Kill, TypeOK, Course
<1>6. Records' /\ Peers'
  BY <1>1, <1>2, <1>3 DEF Kill, TypeOK, Records, Peers
<1>7. OneEach' /\ Homes'
  BY <1>1, <1>3, <1>4 DEF Kill, TypeOK, OneEach, Homes
<1>8. Places'
  BY <1>4 DEF Places
<1>9. (Children /\ HeldLock /\ HeldTree /\ Alone /\ Looked /\ Targets)'
  BY <1>4 DEF Children, HeldLock, HeldTree, Alone, Looked, Targets
<1>10. Marked'
  BY <1>1, <1>2 DEF Kill, TypeOK, Marked
<1> QED BY <1>5, <1>6, <1>7, <1>8, <1>9, <1>10

\* The branch lock that stop removes is nobody's.
LEMMA StopDropKeeps ==
    ASSUME OneAtATime, Inv, NEW p \in Pids, StopDrop(p)
    PROVE  Inv'
<1>1. (TypeOK /\ Course)'
  BY DEF StopDrop, TypeOK, Course
<1>2. (Records /\ Peers)'
  BY DEF StopDrop, TypeOK, Records, Peers
<1>3. (OneEach /\ Homes /\ Places /\ Children)'
  BY DEF StopDrop, TypeOK, OneEach, Homes, Places, Children
<1>4. HeldLock'
  BY DEF StopDrop, TypeOK, Course, HeldLock, Alone
<1>5. HeldTree'
  BY DEF StopDrop, TypeOK, HeldTree
<1>6. (Alone /\ Looked)'
  BY DEF StopDrop, TypeOK, Alone, Looked
<1>7. (Targets /\ Marked)'
  BY DEF StopDrop, TypeOK, Targets, Marked
<1> QED BY <1>1, <1>2, <1>3, <1>4, <1>5, <1>6, <1>7

\* Nor is the tree lock.
LEMMA StopDropTreeKeeps ==
    ASSUME OneAtATime, Inv, NEW p \in Pids, StopDropTree(p)
    PROVE  Inv'
<1>1. (TypeOK /\ Course)'
  BY DEF StopDropTree, TypeOK, Course
<1>2. (Records /\ Peers)'
  BY DEF StopDropTree, TypeOK, Records, Peers
<1>3. OneEach'
  BY DEF StopDropTree, TypeOK, OneEach
<1>4. Homes'
  BY DEF StopDropTree, TypeOK, Homes
<1>5. Places'
  BY DEF StopDropTree, TypeOK, Places
<1>6. Children'
  BY DEF StopDropTree, TypeOK, Children
<1>7. HeldLock'
  BY DEF StopDropTree, TypeOK, HeldLock
<1>8. HeldTree'
  BY DEF StopDropTree, TypeOK, Course, OneEach, Homes, Places, Children, HeldLock, HeldTree,
            Alone, Looked
<1>9. (Alone /\ Looked)'
  BY DEF StopDropTree, TypeOK, Alone, Looked
<1>10. (Targets /\ Marked)'
  BY DEF StopDropTree, TypeOK, Targets, Marked
<1> QED BY <1>1, <1>2, <1>3, <1>4, <1>5, <1>6, <1>7, <1>8, <1>9, <1>10

\* The state that stop closes is nobody's.
LEMMA CloseKeeps ==
    ASSUME OneAtATime, Inv, NEW p \in Pids, Close(p)
    PROVE  Inv'
<1>1. (TypeOK /\ Course)'
  BY DEF Close, TypeOK, Course
<1>2. (Records /\ Peers)'
  BY DEF Close, TypeOK, Records, Peers
<1>3. OneEach'
  BY DEF Close, TypeOK, OneEach
<1>4. Homes'
  BY DEF Close, TypeOK, Homes
<1>5. Places'
  BY DEF Close, TypeOK, Places
<1>6. Children'
  BY DEF Close, TypeOK, Children
<1>7. (HeldLock /\ HeldTree)'
  BY DEF Close, TypeOK, HeldLock, HeldTree
<1>8. (Alone /\ Looked)'
  BY DEF Close, TypeOK, Alone, Looked
<1>9. Targets'
  BY DEF Close, TypeOK, Targets
<1>10. Marked'
  <2>1. cmd[p] = "stop" /\ p \in Busy
    BY DEF Close, TypeOK, Course
  <2>2. \A q \in Pids : Alive(q) => q = p
    BY <2>1 DEF Close, TypeOK, OneEach, Alone
  <2> QED BY <2>1, <2>2 DEF Close, TypeOK, Marked
<1> QED BY <1>1, <1>2, <1>3, <1>4, <1>5, <1>6, <1>7, <1>8, <1>9, <1>10

\* A process that dies takes nothing with it that another one relies on.
LEMMA DieKeeps ==
    ASSUME OneAtATime, Inv, NEW p \in Pids, Die(p)
    PROVE  Inv'
<1>1. (TypeOK /\ Course)'
  BY DEF Die, TypeOK, Course
<1>2. Records'
  BY DEF Die, TypeOK, Records
<1>3. Peers'
  BY DEF Die, TypeOK, Peers
<1>4. (OneEach /\ Homes /\ Places /\ Children)'
  BY DEF Die, TypeOK, OneEach, Homes, Places, Children
<1>5. (HeldLock /\ HeldTree)'
  BY DEF Die, TypeOK, HeldLock, HeldTree
<1>6. (Alone /\ Looked)'
  BY DEF Die, TypeOK, Alone, Looked
<1>7. (Targets /\ Marked)'
  BY DEF Die, TypeOK, Targets, Marked
<1> QED BY <1>1, <1>2, <1>3, <1>4, <1>5, <1>6, <1>7

\* A branch is checked out when no subcommand is in progress and the run knows where it is.
LEMMA CheckoutKeeps ==
    ASSUME OneAtATime, Inv, Checkout
    PROVE  Inv'
<1>1. (TypeOK /\ Course)'
  BY Quiet DEF Checkout, TypeOK, Course
<1>2. (Records /\ Peers)'
  BY Quiet DEF Checkout, TypeOK, Records, Peers
<1>3. (OneEach /\ Homes /\ Places /\ Children)'
  BY Quiet DEF Checkout, TypeOK, OneEach, Homes, Places, Children
<1>4. (HeldLock /\ HeldTree)'
  BY Quiet DEF Checkout, TypeOK, HeldLock, HeldTree
<1>5. (Alone /\ Looked)'
  BY Quiet DEF Checkout, TypeOK, Alone, Looked
<1>6. (Targets /\ Marked)'
  BY Quiet DEF Checkout, TypeOK, Targets, Marked
<1> QED BY <1>1, <1>2, <1>3, <1>4, <1>5, <1>6

\* Every process is unborn at first.
LEMMA InitInv ==
    Init => Inv
  BY DEF Init, TypeOK, Course, Records, Peers, OneEach, Homes, Places, Children, HeldLock, HeldTree,
         Alone, Looked, Targets, Marked

\* The invariant is inductive.
LEMMA NextKeeps ==
    ASSUME OneAtATime
    PROVE  Inv /\ [Next]_vars => Inv'
<1> SUFFICES ASSUME Inv, [Next]_vars
             PROVE  Inv'
  OBVIOUS
<1>1. ASSUME NEW p \in Pids, NEW c \in Commands, NEW b \in Branches \cup {Detached}, Start(p, c, b)
      PROVE  Inv'
  BY <1>1, StartKeeps
<1>2. ASSUME NEW p \in Pids, Step(p)
      PROVE  Inv'
  <2>1. CASE \E c \in Pids : Spawn(p, c)
    BY <2>1, SpawnKeeps
  <2>2. CASE Locate(p) \/ LookState(p) \/ LookLock(p) \/ LookTree(p) \/ SweepTree(p)
    BY <2>2, LocateKeeps, LookStateKeeps, LookLockKeeps, LookTreeKeeps, SweepTreeKeeps
  <2>3. CASE AskLock(p) \/ TakeLock(p) \/ AskTree(p) \/ ClearTree(p) \/ TakeTree(p) \/ GiveBack(p)
    BY <2>3, AskLockKeeps, TakeLockKeeps, AskTreeKeeps, ClearTreeKeeps, TakeTreeKeeps, GiveBackKeeps
  <2>4. CASE Load(p) \/ Preflight(p) \/ Intend(p) \/ Finish(p) \/ LeaveLock(p) \/ LeaveTree(p)
    BY <2>4, LoadKeeps, PreflightKeeps, IntendKeeps, FinishKeeps, LeaveLockKeeps, LeaveTreeKeeps
  <2>5. CASE WaitLock(p) \/ WaitState(p) \/ ResetLock(p) \/ ResetState(p) \/ DropLock(p)
    BY <2>5, WaitLockKeeps, WaitStateKeeps, ResetLockKeeps, ResetStateKeeps, DropLockKeeps
  <2>6. CASE StopLock(p) \/ StopTree(p) \/ StopSweep(p) \/ Kill(p)
    BY <2>6, StopLockKeeps, StopTreeKeeps, StopSweepKeeps, KillKeeps
  <2>7. CASE StopDrop(p) \/ StopDropTree(p) \/ Close(p)
    BY <2>7, StopDropKeeps, StopDropTreeKeeps, CloseKeeps
  <2> QED BY <1>2, <2>1, <2>2, <2>3, <2>4, <2>5, <2>6, <2>7 DEF Step
<1>3. ASSUME NEW p \in Pids, Die(p)
      PROVE  Inv'
  BY <1>3, DieKeeps
<1>4. CASE Checkout
  BY <1>4, CheckoutKeeps
<1>5. CASE UNCHANGED vars
  BY <1>5 DEF vars, TypeOK, Course, Records, Peers, OneEach, Homes, Places, Children, HeldLock,
              HeldTree, Alone, Looked, Targets, Marked
<1> QED BY <1>1, <1>2, <1>3, <1>4, <1>5 DEF Next

\* It holds of every behaviour.
LEMMA InvHolds ==
    ASSUME OneAtATime
    PROVE  Spec => []Inv
  BY InitInv, NextKeeps, PTL DEF Spec

-----------------------------------------------------------------------------
(* What follows from it *)

\* A working tree runs one pipeline, or one merge, at a time (acquire_tree_lock): two runs, or a
\* run and a merge, never work in it together, whoever is killed and whichever branch is checked
\* out meanwhile.
THEOREM OneRunHolds ==
    ASSUME OneAtATime
    PROVE  Spec => []OneRun
<1>1. Inv => OneRun
  BY DEF OneRun, Working, OneEach, Alone
<1> QED BY <1>1, InvHolds, PTL

\* When no subcommand is in progress both lock files name the run at work: the next run, merge,
\* reset, wait or stop will find it.
THEOREM RunIsNamedHolds ==
    ASSUME OneAtATime
    PROVE  Spec => []RunIsNamed
<1>1. Inv => RunIsNamed
  BY DEF RunIsNamed, Working, HeldLock, HeldTree
<1> QED BY <1>1, InvHolds, PTL

\* When stop comes to closing the state, no run is alive in the working tree (cmd_stop).
THEOREM StopStopsHolds ==
    ASSUME OneAtATime
    PROVE  Spec => []StopStops
<1>1. Inv => StopStops
  BY DEF StopStops, TypeOK, Course, Alone
<1> QED BY <1>1, InvHolds, PTL

-----------------------------------------------------------------------------
(* Turns is implemented *)

\* There is one owner at most, and then `owner` names it and its branch.
OwnerIs ==
    /\ \A p, q \in Owners : p = q
    /\ Owners = {} => owner = NoRecord
    /\ \A p \in Owners : owner = [pid |-> p, branch |-> br[p]] /\ br[p] \in Branches

\* So it is in every state the invariant allows.
LEMMA OneOwner ==
    Inv => OwnerIs
<1> SUFFICES ASSUME Inv
             PROVE  OwnerIs
  OBVIOUS
<1>1. \A p, q \in Owners : p = q
  BY DEF Owners, Working, TypeOK, Course, OneEach, Alone
<1>2. \A p \in Owners : br[p] \in Branches
  BY DEF Owners, Working, TypeOK, Course, Homes, Places
<1>3. ASSUME NEW p \in Owners
      PROVE  owner = [pid |-> p, branch |-> br[p]]
  <2>1. (CHOOSE x \in Owners : TRUE) \in Owners
    BY <1>3
  <2>2. (CHOOSE x \in Owners : TRUE) = p
    BY <2>1, <1>1
  <2> QED BY <2>2, <1>3 DEF owner
<1>4. Owners = {} => owner = NoRecord
  BY DEF owner
<1> QED BY <1>1, <1>2, <1>3, <1>4 DEF OwnerIs

\* A step that leaves the owners and the state files alone is not seen by the readers.
LEMMA Unseen ==
    ASSUME Inv, Inv', Owners' = Owners, disk' = disk,
           \A p \in Owners : br'[p] = br[p] /\ cmd'[p] = cmd[p]
    PROVE  UNCHANGED <<owner, report>>
<1>1. OwnerIs /\ OwnerIs'
  BY OneOwner, PTL
<1>2. UNCHANGED owner
  BY <1>1 DEF OwnerIs
<1>3. UNCHANGED report
  BY DEF report
<1> QED BY <1>2, <1>3

\* A run that marks its branch begins: nobody else is at work, and the earlier result is gone.
LEMMA LoadBegins ==
    ASSUME Inv, Inv', NEW p \in Pids, Load(p)
    PROVE  Promise!BeginRun(p, br[p])
<1>1. OwnerIs /\ OwnerIs'
  BY OneOwner, PTL
<1>2. Owners = {} /\ Owners' = {p}
  <2>1. Owners = {}
    BY DEF Load, Owners, Working, TypeOK, Course, OneEach, Alone
  <2>2. Owners' = {p}
    BY <2>1 DEF Load, Owners, Working, TypeOK
  <2> QED BY <2>1, <2>2
<1>3. cmd[p] \in Runs /\ br[p] \in Branches
  BY DEF Load, TypeOK, Course, Homes, Places
<1>4. owner = NoRecord /\ owner' = [pid |-> p, branch |-> br[p]]
  BY <1>1, <1>2 DEF OwnerIs, Load
<1>5. report'[br[p]] = "running"
  BY <1>2, <1>3 DEF report, Load, TypeOK
<1>6. \A b \in Branches \ {br[p]} : report'[b] = report[b]
  BY <1>2, <1>3 DEF report, Load, TypeOK
<1>7. report = [b \in Branches |-> report[b]] /\ report' = [b \in Branches |-> report'[b]]
  BY DEF report
<1>8. report' = [report EXCEPT ![br[p]] = "running"]
  BY <1>5, <1>6, <1>7
<1> QED BY <1>4, <1>8 DEF Promise!BeginRun

\* A merge that has taken the tree begins; of its branch there was something to tell.
LEMMA MergeBegins ==
    ASSUME Inv, Inv', NEW p \in Pids, TakeTree(p), cmd[p] = "merge"
    PROVE  Promise!BeginMerge(p, br[p])
<1>1. OwnerIs /\ OwnerIs'
  BY OneOwner, PTL
<1>2. Owners = {} /\ Owners' = {p}
  BY DEF TakeTree, Owners, Working, TypeOK, Course, OneEach, Alone
<1>3. owner = NoRecord /\ owner' = [pid |-> p, branch |-> br[p]]
  BY <1>1, <1>2 DEF OwnerIs, TakeTree
<1>4. br[p] \in Branches /\ disk[br[p]] # "none"
  BY DEF TakeTree, TypeOK, Homes, Marked
<1>5. report[br[p]] # "none"
  BY <1>2, <1>4 DEF report
<1>6. UNCHANGED report
  BY <1>2 DEF report, TakeTree
<1> QED BY <1>3, <1>5, <1>6 DEF Promise!BeginMerge

\* Nobody sees preflight mark the branch a second time.
LEMMA PreflightUnseen ==
    ASSUME Inv, Inv', NEW p \in Pids, Preflight(p)
    PROVE  UNCHANGED <<owner, report>>
<1>1. OwnerIs /\ OwnerIs'
  BY OneOwner, PTL
<1>2. cmd[p] \in Runs /\ head # Detached
  BY DEF Preflight, TypeOK, Course, Homes, Places
<1>3. p \in Owners /\ p \in Owners'
  BY <1>2 DEF Preflight, Owners, Working, TypeOK
<1>4. Owners = {p} /\ Owners' = {p}
  BY <1>1, <1>3 DEF OwnerIs
<1>5. UNCHANGED owner
  BY <1>1, <1>3 DEF OwnerIs, Preflight
<1>6. disk[br[p]] \in Unfinished /\ disk' = [disk EXCEPT ![br[p]] = "running"]
  BY <1>2 DEF Preflight, Marked
<1>7. \A b \in Branches : report'[b] = report[b]
  BY <1>2, <1>4, <1>6 DEF report, Preflight, TypeOK
<1>8. UNCHANGED report
  BY <1>7 DEF report
<1> QED BY <1>5, <1>8

\* A run or a merge that records its result concludes.
LEMMA FinishConcludes ==
    ASSUME Inv, Inv', NEW p \in Pids, Finish(p)
    PROVE  Promise!Conclude
<1>1. OwnerIs /\ OwnerIs'
  BY OneOwner, PTL
<1>2. cmd[p] \in Takers /\ br[p] \in Branches
  BY DEF Finish, TypeOK, Course, Homes, Places
<1>3. p \in Owners
  BY <1>2 DEF Finish, Owners, Working
<1>4. Owners = {p}
  BY <1>1, <1>3 DEF OwnerIs
<1>5. Owners' = {}
  BY <1>4 DEF Finish, Owners, Working, TypeOK
<1>6. owner = [pid |-> p, branch |-> br[p]] /\ owner' = NoRecord
  BY <1>1, <1>3, <1>5 DEF OwnerIs
<1>7. PICK r \in Outcomes(p) : disk' = [disk EXCEPT ![br[p]] = r]
  BY DEF Finish
<1>8. \A b \in Branches \ {br[p]} : report'[b] = report[b]
  BY <1>4, <1>5, <1>7 DEF report, TypeOK
<1>9. report'[br[p]] \in IF report[br[p]] = "running" THEN {"result", "ready"}
                          ELSE {"merged", report[br[p]]} \cup Promise!Recalled
  <2>1. CASE cmd[p] = "merge"
    <3>1. r \in {"merged", "ready", "begun", disk[br[p]]}
      BY <2>1, <1>7 DEF Outcomes, Finish, Marked
    <3>2. report'[br[p]] = IF r \in Unfinished THEN "died" ELSE r
      BY <1>2, <1>5, <1>7, <3>1 DEF report, TypeOK
    <3>3. report[br[p]] = IF disk[br[p]] \in Unfinished THEN "died" ELSE disk[br[p]]
      BY <1>2, <1>4, <2>1 DEF report
    <3>4. disk[br[p]] # "running" => report[br[p]] # "running"
      BY <3>3
    <3> QED BY <3>1, <3>2, <3>3, <3>4 DEF Promise!Recalled
  <2>2. CASE cmd[p] # "merge"
    <3>1. r \in {"result", "ready"} /\ disk[br[p]] \in Unfinished
      BY <2>2, <1>2, <1>7 DEF Outcomes, Finish, Marked
    <3>2. report'[br[p]] = r
      BY <1>2, <1>5, <1>7, <3>1 DEF report, TypeOK
    <3>3. report[br[p]] = "running"
      BY <1>2, <1>4, <2>2, <3>1 DEF report
    <3> QED BY <3>1, <3>2, <3>3
  <2> QED BY <2>1, <2>2
<1>10. report = [b \in Branches |-> report[b]] /\ report' = [b \in Branches |-> report'[b]]
  BY DEF report
<1>11. report' = [report EXCEPT ![br[p]] = report'[br[p]]]
  BY <1>8, <1>10
<1>12. p # NoPid /\ owner # NoRecord /\ owner.branch = br[p]
  BY <1>6
<1> QED BY <1>6, <1>9, <1>11, <1>12 DEF Promise!Conclude

\* A merge that saves what it had read, before it has merged, goes back to that.
LEMMA IntendRecalls ==
    ASSUME Inv, Inv', NEW p \in Pids, Intend(p)
    PROVE  Promise!Recall
<1>1. OwnerIs /\ OwnerIs'
  BY OneOwner, PTL
<1>2. cmd[p] = "merge" /\ br[p] \in Branches /\ loaded[p] \in {"ready", "begun"}
  BY DEF Intend, TypeOK, Homes, Marked
<1>3. p \in Owners /\ Owners' = Owners
  BY DEF Intend, Owners, Working, TypeOK
<1>4. Owners = {p}
  BY <1>1, <1>3 DEF OwnerIs
<1>5. owner = [pid |-> p, branch |-> br[p]] /\ owner' = owner
  BY <1>1, <1>3 DEF OwnerIs, Intend
<1>6. report[br[p]] # "running"
  BY <1>2, <1>4 DEF report, TypeOK
<1>7. \A b \in Branches \ {br[p]} : report'[b] = report[b]
  BY <1>3 DEF report, Intend, TypeOK
<1>8. report'[br[p]] \in Promise!Recalled
  BY <1>2, <1>3, <1>4 DEF report, Intend, TypeOK, Promise!Recalled
<1>9. report = [b \in Branches |-> report[b]] /\ report' = [b \in Branches |-> report'[b]]
  BY DEF report
<1>10. report' = [report EXCEPT ![br[p]] = report'[br[p]]]
  BY <1>7, <1>9
<1>11. owner # NoRecord /\ owner.branch = br[p]
  BY <1>5
<1> QED BY <1>5, <1>6, <1>8, <1>10, <1>11 DEF Promise!Recall

\* An owner that is killed vanishes, whoever kills it.
LEMMA OwnerVanishes ==
    ASSUME Inv, Inv', NEW p \in Owners, Owners' = Owners \ {p}, disk' = disk
    PROVE  Promise!Vanish
<1>1. OwnerIs /\ OwnerIs'
  BY OneOwner, PTL
<1>2. Owners = {p} /\ Owners' = {}
  BY <1>1 DEF OwnerIs
<1>3. owner = [pid |-> p, branch |-> br[p]] /\ br[p] \in Branches /\ owner' = NoRecord
  BY <1>1, <1>2 DEF OwnerIs
<1>4. \A b \in Branches \ {br[p]} : report'[b] = report[b]
  BY <1>2 DEF report
<1>5. report'[br[p]] = IF report[br[p]] = "running" THEN "died" ELSE report[br[p]]
  BY <1>2, <1>3 DEF report, TypeOK
<1>6. report = [b \in Branches |-> report[b]] /\ report' = [b \in Branches |-> report'[b]]
  BY DEF report
<1>7. report' = [report EXCEPT ![br[p]] = IF @ = "running" THEN "died" ELSE @]
  BY <1>4, <1>5, <1>6
<1>8. p \in Pids /\ owner # NoRecord /\ owner.branch = br[p]
  BY <1>3 DEF Owners
<1> QED BY <1>3, <1>7, <1>8 DEF Promise!Vanish

\* stop has the last word, when nobody is at work any more.
LEMMA CloseCloses ==
    ASSUME Inv, Inv', NEW p \in Pids, Close(p)
    PROVE  (\E b \in Branches : Promise!Close(b)) \/ UNCHANGED <<owner, report>>
<1>1. OwnerIs /\ OwnerIs'
  BY OneOwner, PTL
<1>2. cmd[p] = "stop" /\ p \in Busy
  BY DEF Close, TypeOK, Course
<1>3. Owners = {} /\ Owners' = {}
  <2>1. pc[p] \in {"close_dead", "close_killed"} /\ pc' = [pc EXCEPT ![p] = "gone"] /\ cmd' = cmd
    BY DEF Close
  <2>2. \A q \in Pids : ~Run(q)
    BY <1>2, <2>1 DEF Alone
  <2>3. ASSUME NEW q \in Owners PROVE FALSE
    BY <1>2, <2>1, <2>2, <2>3 DEF Owners, Working, OneEach
  <2>4. Owners' \subseteq Owners
    BY <2>1 DEF Owners, Working, TypeOK
  <2> QED BY <2>3, <2>4
<1>4. owner = NoRecord /\ owner' = NoRecord
  BY <1>1, <1>3 DEF OwnerIs
<1>5. CASE UNCHANGED disk
  BY <1>3, <1>4, <1>5 DEF report
<1>6. CASE br[p] \in Branches /\ disk[br[p]] # "none" /\ disk' = [disk EXCEPT ![br[p]] = "stopped"]
  <2>1. report[br[p]] # "none"
    BY <1>3, <1>6 DEF report
  <2>2. \A b \in Branches : report'[b] = IF b = br[p] THEN "stopped" ELSE report[b]
    BY <1>3, <1>6 DEF report, TypeOK
  <2>3. report' = [report EXCEPT ![br[p]] = "stopped"]
    BY <2>2 DEF report
  <2> QED BY <1>4, <1>6, <2>1, <2>3 DEF Promise!Close
<1> QED BY <1>5, <1>6 DEF Close

\* reset forgets a branch nobody works on.
LEMMA ResetForgets ==
    ASSUME Inv, Inv', NEW p \in Pids, ResetState(p)
    PROVE  br[p] \in Branches /\ Promise!Forget(br[p])
<1>1. OwnerIs /\ OwnerIs'
  BY OneOwner, PTL
<1>2. cmd[p] = "reset" /\ p \in Busy /\ br[p] \in Branches
  BY DEF ResetState, TypeOK, Course, Homes
<1>3. \A q \in Owners : br[q] # br[p]
  BY <1>2 DEF ResetState, Owners, Working, TypeOK, OneEach, Looked
<1>4. Owners' = Owners /\ UNCHANGED <<br, cmd>>
  BY <1>2 DEF ResetState, Owners, Working, TypeOK
<1>5. UNCHANGED owner
  BY <1>1, <1>4 DEF OwnerIs
<1>6. owner # NoRecord => owner.branch # br[p]
  BY <1>1, <1>3 DEF OwnerIs
<1>7. \A b \in Branches : report'[b] = IF b = br[p] THEN "none" ELSE report[b]
  BY <1>2, <1>4 DEF report, ResetState, TypeOK
<1>8. report = [b \in Branches |-> report[b]] /\ report' = [b \in Branches |-> report'[b]]
  BY DEF report
<1>9. report' = [report EXCEPT ![br[p]] = "none"]
  BY <1>7, <1>8
<1> QED BY <1>2, <1>5, <1>6, <1>9 DEF Promise!Forget

\* Taking the tree is seen when a merge takes it.
LEMMA TakeTreeMaps ==
    ASSUME Inv, Inv', NEW p \in Pids, TakeTree(p)
    PROVE  (br[p] \in Branches /\ Promise!BeginMerge(p, br[p])) \/ UNCHANGED <<owner, report>>
<1>1. CASE cmd[p] = "merge"
  <2>1. br[p] \in Branches
    BY <1>1 DEF TakeTree, TypeOK, Homes
  <2> QED BY <1>1, <2>1, MergeBegins
<1>2. CASE cmd[p] # "merge"
  <2>1. Owners' = Owners
    BY <1>2 DEF TakeTree, Owners, Working, TypeOK, Course
  <2> QED BY <2>1, Unseen DEF TakeTree
<1> QED BY <1>1, <1>2

\* A kill is seen when it hits the owner.
LEMMA KillMaps ==
    ASSUME Inv, Inv', NEW p \in Pids, Kill(p)
    PROVE  Promise!Vanish \/ UNCHANGED <<owner, report>>
<1>1. cmd[p] = "stop" /\ peer[p] \in Pids \ {p}
  BY DEF Kill, TypeOK, Course, Peers
<1>2. Owners' = Owners \ {peer[p]}
  BY <1>1 DEF Kill, Owners, Working, TypeOK
<1>3. UNCHANGED <<disk, br, cmd>>
  BY DEF Kill
<1>4. CASE peer[p] \in Owners
  BY <1>2, <1>3, <1>4, OwnerVanishes
<1>5. CASE peer[p] \notin Owners
  BY <1>2, <1>3, <1>5, Unseen
<1> QED BY <1>4, <1>5

\* So is a death.
LEMMA DieMaps ==
    ASSUME Inv, Inv', NEW p \in Pids, Die(p)
    PROVE  Promise!Vanish \/ UNCHANGED <<owner, report>>
<1>1. Owners' = Owners \ {p}
  BY DEF Die, Owners, Working, TypeOK
<1>2. UNCHANGED <<disk, br, cmd>>
  BY DEF Die
<1>3. CASE p \in Owners
  BY <1>1, <1>2, <1>3, OwnerVanishes
<1>4. CASE p \notin Owners
  BY <1>1, <1>2, <1>4, Unseen
<1> QED BY <1>3, <1>4

\* Nobody sees a command start, nor a run.
LEMMA StartsUnseen ==
    ASSUME Inv, Inv', NEW p \in Pids,
           \/ \E c \in Commands, b \in Branches \cup {Detached} : Start(p, c, b)
           \/ \E c \in Pids : Spawn(p, c)
           \/ Locate(p)
    PROVE  UNCHANGED <<owner, report>>
<1>1. CASE \E c \in Commands, b \in Branches \cup {Detached} : Start(p, c, b)
  <2>1. p \notin Owners /\ Owners \subseteq Pids
    BY <1>1 DEF Start, Owners, Working
  <2>2. Owners' = Owners
    BY <1>1 DEF Start, Owners, Working, TypeOK
  <2>3. disk' = disk /\ \A q \in Pids \ {p} : br'[q] = br[q] /\ cmd'[q] = cmd[q]
    BY <1>1 DEF Start, TypeOK
  <2> QED BY <2>1, <2>2, <2>3, Unseen
<1>2. ASSUME NEW c \in Pids, Spawn(p, c)
      PROVE  UNCHANGED <<owner, report>>
  <2>1. p \notin Owners /\ c \notin Owners /\ Owners \subseteq Pids
    BY <1>2 DEF Spawn, Owners, Working
  <2>2. Owners' = Owners
    BY <1>2 DEF Spawn, Owners, Working, TypeOK
  <2>3. disk' = disk /\ \A q \in Pids \ {c} : br'[q] = br[q] /\ cmd'[q] = cmd[q]
    BY <1>2 DEF Spawn, TypeOK
  <2> QED BY <2>1, <2>2, <2>3, Unseen
<1>3. CASE Locate(p)
  <2>1. p \notin Owners /\ Owners \subseteq Pids
    BY <1>3 DEF Locate, Owners, Working
  <2>2. Owners' = Owners
    BY <1>3 DEF Locate, Owners, Working, TypeOK
  <2>3. disk' = disk /\ cmd' = cmd /\ \A q \in Pids \ {p} : br'[q] = br[q]
    BY <1>3 DEF Locate, TypeOK
  <2> QED BY <2>1, <2>2, <2>3, Unseen
<1> QED BY <1>1, <1>2, <1>3

\* Nor how the commands look at the files and ask for the locks ...
LEMMA LooksUnseen ==
    ASSUME Inv, Inv', NEW p \in Pids,
           \/ LookState(p) \/ LookLock(p) \/ LookTree(p) \/ AskLock(p) \/ AskTree(p)
           \/ WaitLock(p) \/ WaitState(p) \/ ResetLock(p)
    PROVE  UNCHANGED <<owner, report>>
<1>1. Owners' = Owners
  BY DEF LookState, LookLock, LookTree, AskLock, AskTree, WaitLock, WaitState, ResetLock,
         Owners, Working, TypeOK
<1>2. UNCHANGED <<disk, br, cmd>>
  BY DEF LookState, LookLock, LookTree, AskLock, AskTree, WaitLock, WaitState, ResetLock
<1> QED BY <1>1, <1>2, Unseen

\* ... nor how they write and remove the lock files ...
LEMMA LockFilesUnseen ==
    ASSUME Inv, Inv', NEW p \in Pids,
           \/ SweepTree(p) \/ TakeLock(p) \/ ClearTree(p) \/ GiveBack(p) \/ LeaveLock(p)
           \/ LeaveTree(p) \/ DropLock(p)
    PROVE  UNCHANGED <<owner, report>>
<1>1. Owners' = Owners
  BY DEF SweepTree, TakeLock, ClearTree, GiveBack, LeaveLock, LeaveTree, DropLock,
         Owners, Working, TypeOK
<1>2. UNCHANGED <<disk, br, cmd>>
  BY DEF SweepTree, TakeLock, ClearTree, GiveBack, LeaveLock, LeaveTree, DropLock
<1> QED BY <1>1, <1>2, Unseen

\* ... nor stop on its way.
LEMMA StopUnseen ==
    ASSUME Inv, Inv', NEW p \in Pids,
           StopLock(p) \/ StopTree(p) \/ StopSweep(p) \/ StopDrop(p) \/ StopDropTree(p)
    PROVE  UNCHANGED <<owner, report>>
<1>1. p \notin Owners
  BY DEF StopLock, StopTree, StopSweep, StopDrop, StopDropTree, Owners, Working
<1>2. Owners' = Owners
  BY DEF StopLock, StopTree, StopSweep, StopDrop, StopDropTree, Owners, Working, TypeOK
<1>3. UNCHANGED <<disk, cmd>> /\ \A q \in Pids \ {p} : br'[q] = br[q]
  BY DEF StopLock, StopTree, StopSweep, StopDrop, StopDropTree, TypeOK
<1>4. Owners \subseteq Pids
  BY DEF Owners
<1> QED BY <1>1, <1>2, <1>3, <1>4, Unseen

\* Every step of the commands is a step of Turns, or is not seen.
LEMMA StepMaps ==
    ASSUME Inv, Inv', NEW p \in Pids, Step(p)
    PROVE  Promise!Next \/ UNCHANGED <<owner, report>>
<1>1. CASE Load(p)
  <2>1. br[p] \in Branches
    BY <1>1 DEF Load, TypeOK, Course, Homes, Places
  <2> QED BY <1>1, <2>1, LoadBegins DEF Promise!Next
<1>2. CASE TakeTree(p)
  BY <1>2, TakeTreeMaps DEF Promise!Next
<1>3. CASE Preflight(p)
  BY <1>3, PreflightUnseen
<1>4. CASE Intend(p) \/ Finish(p)
  BY <1>4, IntendRecalls, FinishConcludes DEF Promise!Next
<1>5. CASE Kill(p)
  BY <1>5, KillMaps DEF Promise!Next
<1>6. CASE Close(p)
  BY <1>6, CloseCloses DEF Promise!Next
<1>7. CASE ResetState(p)
  BY <1>7, ResetForgets DEF Promise!Next
<1>8. CASE (\E c \in Pids : Spawn(p, c)) \/ Locate(p)
  BY <1>8, StartsUnseen
<1>9. CASE \/ LookState(p) \/ LookLock(p) \/ LookTree(p) \/ AskLock(p) \/ AskTree(p)
           \/ WaitLock(p) \/ WaitState(p) \/ ResetLock(p)
  BY <1>9, LooksUnseen
<1>10. CASE \/ SweepTree(p) \/ TakeLock(p) \/ ClearTree(p) \/ GiveBack(p) \/ LeaveLock(p)
            \/ LeaveTree(p) \/ DropLock(p)
  BY <1>10, LockFilesUnseen
<1>11. CASE StopLock(p) \/ StopTree(p) \/ StopSweep(p) \/ StopDrop(p) \/ StopDropTree(p)
  BY <1>11, StopUnseen
<1> QED BY <1>1, <1>2, <1>3, <1>4, <1>5, <1>6, <1>7, <1>8, <1>9, <1>10, <1>11 DEF Step

\* The lock files and the state files keep the promise of Turns: one run or merge at a time, and
\* of each branch the result of the last one that worked on it, or its death, or what a merge had
\* read before it took the locks (acquire_tree_lock, mark_started, cmd_merge, cmd_wait, cmd_stop,
\* cmd_reset).
THEOREM KeepsTurnsHolds ==
    ASSUME OneAtATime
    PROVE  Spec => KeepsTurns
<1>1. Init => Promise!Init
  <2> SUFFICES ASSUME Init
               PROVE  Promise!Init
    OBVIOUS
  <2>1. Owners = {}
    BY DEF Init, Owners, Working
  <2>2. owner = NoRecord
    BY <2>1 DEF owner
  <2>3. report = [b \in Branches |-> "none"]
    BY DEF Init, report
  <2> QED BY <2>2, <2>3 DEF Promise!Init
<1>2. Inv /\ Inv' /\ [Next]_vars => [Promise!Next]_<<owner, report>>
  <2> SUFFICES ASSUME Inv, Inv', [Next]_vars
               PROVE  Promise!Next \/ UNCHANGED <<owner, report>>
    OBVIOUS
  <2>1. ASSUME NEW p \in Pids, NEW c \in Commands, NEW b \in Branches \cup {Detached},
               Start(p, c, b)
        PROVE  UNCHANGED <<owner, report>>
    BY <2>1, StartsUnseen
  <2>2. ASSUME NEW p \in Pids, Step(p)
        PROVE  Promise!Next \/ UNCHANGED <<owner, report>>
    BY <2>2, StepMaps
  <2>3. ASSUME NEW p \in Pids, Die(p)
        PROVE  Promise!Next \/ UNCHANGED <<owner, report>>
    BY <2>3, DieMaps DEF Promise!Next
  <2>4. CASE Checkout
    <3>1. Owners' = Owners /\ UNCHANGED <<disk, br, cmd>>
      BY <2>4 DEF Checkout, Owners, Working
    <3> QED BY <3>1, Unseen
  <2>5. CASE UNCHANGED vars
    <3>1. Owners' = Owners /\ UNCHANGED <<disk, br, cmd>>
      BY <2>5 DEF vars, Owners, Working
    <3> QED BY <3>1, Unseen
  <2> QED BY <2>1, <2>2, <2>3, <2>4, <2>5 DEF Next
<1> QED BY <1>1, <1>2, InvHolds, PTL DEF Spec, KeepsTurns, Promise!Spec

=============================================================================
