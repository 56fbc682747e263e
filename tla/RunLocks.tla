------------------------------ MODULE RunLocks ------------------------------
(***************************************************************************)
(* The processes of one working tree and the two lock files they meet at:  *)
(* the branch lock and tree.lock.  `run` starts a detached child and        *)
(* reserves both locks for it while the child takes them itself; `merge`   *)
(* takes them for its own process; `wait`, `stop` and `reset` read them and *)
(* remove what they think is stale.  A step is one access to one file, or a *)
(* look at a file together with the question whether its pid is alive: the *)
(* pid only ever goes from alive to dead, so what matters is the time from *)
(* the look to the write or removal it leads to.                           *)
(***************************************************************************)
EXTENDS Naturals, FiniteSets

CONSTANTS
    Pids,      \* process ids; none is given out twice
    Branches,  \* the branches that get checked out in the working tree
    NoPid,     \* no lock file, or one that cannot be read
    Detached,  \* HEAD, when it names no branch
    Sessions,  \* how many subcommands can be going on at once; detached runs not counted
    Mortal,    \* the commands a kill may hit
    MaxKills   \* bound: kills

Commands == {"launch", "run", "foreground", "merge", "wait", "stop", "reset"}

ASSUME RunLocksAssumption ==
    /\ IsFiniteSet(Pids) /\ NoPid \notin Pids /\ Detached \notin Branches
    /\ Sessions \in Nat /\ MaxKills \in Nat
    /\ Mortal \subseteq Commands

VARIABLES
    lock,   \* <state_dir>/<branch>/lock of each branch: the pid in it
    tree,   \* <state_dir>/tree.lock
    disk,   \* what state.json of each branch tells; begun, running: last_exit is -1,
            \* begun: and the stage is still ready_to_merge
    head,   \* the branch checked out
    pc,     \* where each process is
    cmd,    \* its subcommand; run: the detached child, launch: its parent
    br,     \* the branch it is about: its review directory
    peer,   \* launch: the child; stop: the process to kill
    loaded, \* merge: what state.json told when it read it, before it had the locks
    kills

vars == <<lock, tree, disk, head, pc, cmd, br, peer, loaded, kills>>

NoRecord == [pid |-> NoPid, branch |-> Detached]
Results == {"result", "ready", "merged"}
Unfinished == {"begun", "running"}

Init ==
    /\ lock = [b \in Branches |-> NoPid] /\ tree = NoRecord
    /\ disk = [b \in Branches |-> "none"]
    /\ head \in Branches
    /\ pc = [p \in Pids |-> "unborn"] /\ cmd = [p \in Pids |-> "wait"]
    /\ br = [p \in Pids |-> Detached] /\ peer = [p \in Pids |-> NoPid]
    /\ loaded = [p \in Pids |-> "none"]
    /\ kills = 0

-----------------------------------------------------------------------------
(* Helpers *)

\* procs.pid_alive
Alive(p) == p # NoPid /\ pc[p] \notin {"unborn", "gone"}

Busy == {p \in Pids : Alive(p) /\ cmd[p] # "run"}
Runs == {"run", "foreground"}
Working(p) == pc[p] = "working" /\ cmd[p] \in Runs \cup {"merge"}

\* a started run that does not yet know which branch it is on
Settling(p) == Alive(p) /\ cmd[p] = "run" /\ pc[p] \notin {"working", "leave_lock", "leave_tree"}

At(p, label) == pc[p] = label
GoTo(p, label) == pc' = [pc EXCEPT ![p] = label]
Exit(p) == GoTo(p, "gone")

\* state.lock_owner_alive: the pid in the branch lock while it lives
Owner(b) == IF b \in Branches /\ Alive(lock[b]) THEN lock[b] ELSE NoPid
TreeOwner == IF Alive(tree.pid) THEN tree.pid ELSE NoPid

\* (mutant) the parent takes the locks for itself
HolderSelf(p) == p
\* acquire_lock(pid=...): who the lock is taken for, and whose records are no obstacle
Holder(p) == IF cmd[p] = "launch" THEN peer[p] ELSE p

\* (mutant) a record of somebody else's is overwritten
FreeAlways(owner, p) == TRUE
Free(owner, p) == owner \in {NoPid, p, Holder(p)}

RemoveLock(b) == lock' = [x \in Branches |-> IF x = b THEN NoPid ELSE lock[x]]

Files == <<lock, tree, disk>>
Rest == <<head, cmd, br, peer, loaded, kills>>

-----------------------------------------------------------------------------
(* Commands start, runs are launched *)

Start(p, c, b) ==
    /\ At(p, "unborn") /\ Cardinality(Busy) < Sessions
    /\ \/ c \in {"launch", "foreground", "merge", "reset"} /\ b = head /\ b # Detached
       \/ c = "stop" /\ b = head
       \/ c = "wait" /\ b \in Branches
    /\ cmd' = [cmd EXCEPT ![p] = c] /\ br' = [br EXCEPT ![p] = b]
    /\ GoTo(p, CASE c = "launch" -> "look_lock" [] c = "foreground" -> "ask_lock"
                 [] c = "merge" -> "look_state" [] c = "wait" -> "wait_lock"
                 [] c = "stop" -> "stop_lock" [] c = "reset" -> "reset_lock")
    /\ UNCHANGED <<Files, head, peer, loaded, kills>>

\* _run_detached: the child is spawned, the locks come after
Spawn(p, c) ==
    /\ At(p, "spawn") /\ At(c, "unborn")
    /\ pc' = [pc EXCEPT ![p] = "ask_lock", ![c] = "locate"]
    /\ cmd' = [cmd EXCEPT ![c] = "run"]
    /\ peer' = [peer EXCEPT ![p] = c]
    /\ UNCHANGED <<Files, head, br, loaded, kills>>

\* _run_foreground in the child: the branch is the one checked out by now
Locate(p) ==
    /\ At(p, "locate")
    /\ IF head = Detached THEN Exit(p) /\ UNCHANGED br
       ELSE GoTo(p, "ask_lock") /\ br' = [br EXCEPT ![p] = head]
    /\ UNCHANGED <<Files, head, cmd, peer, loaded, kills>>

\* cmd_merge loads the state before it looks at the locks
LookState(p) ==
    /\ At(p, "look_state")
    /\ IF disk[br[p]] \in {"ready", "begun"}
       THEN GoTo(p, "look_lock") /\ loaded' = [loaded EXCEPT ![p] = disk[br[p]]]
       ELSE Exit(p) /\ UNCHANGED loaded
    /\ UNCHANGED <<Files, head, cmd, br, peer, kills>>

\* _run_detached and cmd_merge look before they start anything
LookLock(p) ==
    /\ At(p, "look_lock")
    /\ IF Owner(br[p]) # NoPid THEN Exit(p) ELSE GoTo(p, "look_tree")
    /\ UNCHANGED <<Files, Rest>>

LookTree(p) ==
    /\ At(p, "look_tree")
    /\ IF TreeOwner # NoPid THEN Exit(p) ELSE GoTo(p, "sweep_tree")
    /\ UNCHANGED <<Files, Rest>>

\* tree_lock_owner removes the file it found stale, or missing
SweepTree(p) ==
    /\ At(p, "sweep_tree")
    /\ tree' = NoRecord
    /\ GoTo(p, IF cmd[p] = "launch" THEN "spawn" ELSE "ask_lock")
    /\ UNCHANGED <<lock, disk, Rest>>

-----------------------------------------------------------------------------
(* acquire_lock, acquire_tree_lock: launch for its child, run and merge for themselves *)

AskLock(p) ==
    /\ At(p, "ask_lock")
    /\ IF Free(Owner(br[p]), p) THEN GoTo(p, "take_lock") ELSE Exit(p)
    /\ UNCHANGED <<Files, Rest>>

TakeLock(p) ==
    /\ At(p, "take_lock")
    /\ lock' = [lock EXCEPT ![br[p]] = Holder(p)]
    /\ GoTo(p, "ask_tree")
    /\ UNCHANGED <<tree, disk, Rest>>

\* a launch that finds the tree taken ends with an exception and leaves the branch lock
AskTree(p) ==
    /\ At(p, "ask_tree")
    /\ \/ TreeOwner = NoPid /\ GoTo(p, "clear_tree")
       \/ TreeOwner # NoPid /\ Free(TreeOwner, p) /\ GoTo(p, "take_tree")
       \/ ~Free(TreeOwner, p) /\ IF cmd[p] = "launch" THEN Exit(p) ELSE GoTo(p, "give_back")
    /\ UNCHANGED <<Files, Rest>>

ClearTree(p) ==
    /\ At(p, "clear_tree")
    /\ tree' = NoRecord
    /\ GoTo(p, "take_tree")
    /\ UNCHANGED <<lock, disk, Rest>>

TakeTree(p) ==
    /\ At(p, "take_tree")
    /\ tree' = [pid |-> Holder(p), branch |-> br[p]]
    /\ CASE cmd[p] = "launch" -> Exit(p)
         [] cmd[p] \in Runs -> GoTo(p, "load")
         [] OTHER -> GoTo(p, "working")
    /\ UNCHANGED <<lock, disk, Rest>>

GiveBack(p) ==
    /\ At(p, "give_back")
    /\ RemoveLock(br[p])
    /\ Exit(p)
    /\ UNCHANGED <<tree, disk, Rest>>

-----------------------------------------------------------------------------
(* The work *)

\* (mutant) the earlier result stays until there is a new one
LoadUnmarked(p) ==
    /\ At(p, "load")
    /\ GoTo(p, "preflight")
    /\ UNCHANGED <<Files, Rest>>

\* _run_foreground, _pipeline: load, mark "no result yet", save; the stage stays
Load(p) ==
    /\ At(p, "load")
    /\ disk' = [disk EXCEPT ![br[p]] = IF @ \in {"ready", "begun"} THEN "begun" ELSE "running"]
    /\ GoTo(p, "preflight")
    /\ UNCHANGED <<lock, tree, Rest>>

\* preflight locates the branch once more: that is the one reviewed, pushed and validated
Preflight(p) ==
    /\ At(p, "preflight")
    /\ IF head = Detached
       THEN /\ disk' = [disk EXCEPT ![br[p]] = "result"]
            /\ GoTo(p, "leave_lock")
       ELSE /\ disk' = [disk EXCEPT ![br[p]] = "running"]
            /\ GoTo(p, "working")
    /\ UNCHANGED <<lock, tree, Rest>>

\* do_merge notes what it is about to do, in the state it has loaded
Intend(p) ==
    /\ At(p, "working") /\ cmd[p] = "merge"
    /\ disk' = [disk EXCEPT ![br[p]] = loaded[p]]
    /\ UNCHANGED <<lock, tree, pc, Rest>>

\* a run records its result; a merge merges, or stops, and then saves nothing (EXIT_ACTION) or
\* the state it has loaded
Outcomes(p) ==
    IF cmd[p] = "merge" THEN {"merged", loaded[p], disk[br[p]]} ELSE {"result", "ready"}

Finish(p) ==
    /\ At(p, "working")
    /\ \E r \in Outcomes(p) : disk' = [disk EXCEPT ![br[p]] = r]
    /\ GoTo(p, "leave_lock")
    /\ UNCHANGED <<lock, tree, Rest>>

LeaveLock(p) ==
    /\ At(p, "leave_lock")
    /\ RemoveLock(br[p])
    /\ GoTo(p, "leave_tree")
    /\ UNCHANGED <<tree, disk, Rest>>

LeaveTree(p) ==
    /\ At(p, "leave_tree")
    /\ tree' = NoRecord
    /\ Exit(p)
    /\ UNCHANGED <<lock, disk, Rest>>

-----------------------------------------------------------------------------
(* wait, reset *)

\* one turn of the loop of cmd_wait; "still running" is left to the next call
WaitLock(p) ==
    /\ At(p, "wait_lock")
    /\ IF Owner(br[p]) # NoPid THEN Exit(p) ELSE GoTo(p, "wait_state")
    /\ UNCHANGED <<Files, Rest>>

\* no state, a result, or a death, which is reported after the lock file is removed
WaitState(p) ==
    /\ At(p, "wait_state")
    /\ IF disk[br[p]] \in Unfinished THEN GoTo(p, "drop_lock") ELSE Exit(p)
    /\ UNCHANGED <<Files, Rest>>

ResetLock(p) ==
    /\ At(p, "reset_lock")
    /\ IF Owner(br[p]) # NoPid THEN Exit(p) ELSE GoTo(p, "reset_state")
    /\ UNCHANGED <<Files, Rest>>

ResetState(p) ==
    /\ At(p, "reset_state")
    /\ disk' = [disk EXCEPT ![br[p]] = "none"]
    /\ GoTo(p, "drop_lock")
    /\ UNCHANGED <<lock, tree, Rest>>

DropLock(p) ==
    /\ At(p, "drop_lock")
    /\ RemoveLock(br[p])
    /\ Exit(p)
    /\ UNCHANGED <<tree, disk, Rest>>

-----------------------------------------------------------------------------
(* stop *)

StopLock(p) ==
    /\ At(p, "stop_lock")
    /\ IF Owner(br[p]) # NoPid
       THEN GoTo(p, "kill") /\ peer' = [peer EXCEPT ![p] = Owner(br[p])]
       ELSE GoTo(p, "stop_tree") /\ UNCHANGED peer
    /\ UNCHANGED <<Files, head, cmd, br, loaded, kills>>

\* (mutant) only the lock of the branch checked out is looked at
StopTreeUnread(p) ==
    /\ At(p, "stop_tree")
    /\ GoTo(p, "stop_sweep")
    /\ UNCHANGED <<Files, Rest>>

\* the run of this tree, whatever branch it names; a dead record counts on a detached HEAD
StopTree(p) ==
    /\ At(p, "stop_tree")
    /\ IF TreeOwner # NoPid
       THEN /\ GoTo(p, "kill")
            /\ peer' = [peer EXCEPT ![p] = TreeOwner] /\ br' = [br EXCEPT ![p] = tree.branch]
       ELSE /\ GoTo(p, "stop_sweep")
            /\ br' = [br EXCEPT ![p] = IF @ = Detached THEN tree.branch ELSE @]
            /\ UNCHANGED peer
    /\ UNCHANGED <<Files, head, cmd, loaded, kills>>

StopSweep(p) ==
    /\ At(p, "stop_sweep")
    /\ tree' = NoRecord
    /\ GoTo(p, "drop_stale")
    /\ UNCHANGED <<lock, disk, Rest>>

Kill(p) ==
    /\ At(p, "kill")
    /\ pc' = [pc EXCEPT ![p] = "drop_killed", ![peer[p]] = "gone"]
    /\ UNCHANGED <<Files, Rest>>

\* release_lock, then release_tree_lock, on either path
StopDrop(p) ==
    /\ pc[p] \in {"drop_stale", "drop_killed"}
    /\ RemoveLock(br[p])
    /\ GoTo(p, IF At(p, "drop_stale") THEN "drop_tree" ELSE "drop_killed_tree")
    /\ UNCHANGED <<tree, disk, Rest>>

StopDropTree(p) ==
    /\ pc[p] \in {"drop_tree", "drop_killed_tree"}
    /\ tree' = NoRecord
    /\ GoTo(p, IF At(p, "drop_tree") THEN "close_dead" ELSE "close_killed")
    /\ UNCHANGED <<lock, disk, Rest>>

\* _close_stopped: always after a kill, else only for a run that died
Close(p) ==
    /\ pc[p] \in {"close_dead", "close_killed"}
    /\ IF /\ br[p] \in Branches /\ disk[br[p]] # "none"
          /\ At(p, "close_killed") \/ disk[br[p]] \in Unfinished
       THEN disk' = [disk EXCEPT ![br[p]] = "stopped"]
       ELSE UNCHANGED disk
    /\ Exit(p)
    /\ UNCHANGED <<lock, tree, Rest>>

-----------------------------------------------------------------------------
(* What happens to all of them *)

Die(p) ==
    /\ Alive(p) /\ cmd[p] \in Mortal /\ kills < MaxKills
    /\ kills' = kills + 1
    /\ Exit(p)
    /\ UNCHANGED <<Files, head, cmd, br, peer, loaded>>

\* the author checks out another branch, or a commit, not while a started run has yet to look
\* where it is: the code only ever compares the branch of a run that has (check_tree_unmoved)
Checkout ==
    /\ Cardinality(Busy) < Sessions
    /\ \A p \in Pids : ~Settling(p)
    /\ \E b \in (Branches \cup {Detached}) \ {head} : head' = b
    /\ UNCHANGED <<Files, pc, cmd, br, peer, loaded, kills>>

Step(p) ==
    \/ \E c \in Pids : Spawn(p, c)
    \/ Locate(p) \/ LookState(p) \/ LookLock(p) \/ LookTree(p) \/ SweepTree(p)
    \/ AskLock(p) \/ TakeLock(p) \/ AskTree(p) \/ ClearTree(p) \/ TakeTree(p) \/ GiveBack(p)
    \/ Load(p) \/ Preflight(p) \/ Intend(p) \/ Finish(p) \/ LeaveLock(p) \/ LeaveTree(p)
    \/ WaitLock(p) \/ WaitState(p) \/ ResetLock(p) \/ ResetState(p) \/ DropLock(p)
    \/ StopLock(p) \/ StopTree(p) \/ StopSweep(p) \/ Kill(p) \/ StopDrop(p) \/ StopDropTree(p)
    \/ Close(p)

Next ==
    \/ \E p \in Pids, c \in Commands, b \in Branches \cup {Detached} : Start(p, c, b)
    \/ \E p \in Pids : Step(p) \/ Die(p)
    \/ Checkout

Spec == Init /\ [][Next]_vars

-----------------------------------------------------------------------------
(* Properties *)

Labels == {"unborn", "gone", "spawn", "locate", "look_state", "look_lock", "look_tree",
           "sweep_tree", "ask_lock", "take_lock", "ask_tree", "clear_tree", "take_tree",
           "give_back", "load", "preflight", "working", "leave_lock", "leave_tree", "wait_lock",
           "wait_state", "reset_lock", "reset_state", "drop_lock", "stop_lock", "stop_tree",
           "stop_sweep", "kill", "drop_stale", "drop_killed", "drop_tree", "drop_killed_tree",
           "close_dead", "close_killed"}

\* The types of the files and of the processes.
TypeOK ==
    /\ lock \in [Branches -> Pids \cup {NoPid}]
    /\ tree \in {NoRecord} \cup [pid : Pids, branch : Branches]
    /\ disk \in [Branches -> {"none", "stopped"} \cup Unfinished \cup Results]
    /\ head \in Branches \cup {Detached}
    /\ pc \in [Pids -> Labels] /\ cmd \in [Pids -> Commands]
    /\ br \in [Pids -> Branches \cup {Detached}] /\ peer \in [Pids -> Pids \cup {NoPid}]
    /\ loaded \in [Pids -> {"none", "ready", "begun"}]
    /\ kills \in Nat

\* A working tree runs one pipeline, or one merge, at a time (acquire_tree_lock).
OneRun == \A p, q \in Pids : Working(p) /\ Working(q) => p = q

\* When no subcommand is in progress, a run that works in the tree is the one both lock files
\* name: whatever was read and removed while its parent and it took the locks in turns, the next
\* `run`, `merge`, `reset`, `wait` or `stop` will find it.
RunIsNamed ==
    Busy = {} =>
        \A p \in Pids : Working(p) => lock[br[p]] = p /\ tree = [pid |-> p, branch |-> br[p]]

\* `stop` stops the run of the working tree whatever branch is checked out: when it comes to
\* closing the state no run is left working, nor on its way to.
StopStops ==
    \A s \in Pids : pc[s] \in {"close_dead", "close_killed"} =>
        \A p \in Pids : ~ (Alive(p) /\ cmd[p] = "run")

\* The abstract view: who works, and what there is to tell of each branch.
Owners == {p \in Pids : Working(p) \/ At(p, "preflight")}
owner ==
    IF Owners = {} THEN NoRecord
    ELSE LET p == CHOOSE x \in Owners : TRUE IN [pid |-> p, branch |-> br[p]]
report == [b \in Branches |->
             IF disk[b] \notin Unfinished THEN disk[b]
             ELSE IF \E p \in Owners : br[p] = b /\ cmd[p] # "merge" THEN "running" ELSE "died"]

Promise == INSTANCE Turns WITH Nobody <- NoRecord

\* One run or merge at a time, and of each branch the result of the last one, or its death; but a
\* merge may put back what it had read before it took the locks.
KeepsTurns == Promise!Spec
=============================================================================
