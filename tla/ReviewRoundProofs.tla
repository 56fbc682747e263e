-------------------------- MODULE ReviewRoundProofs --------------------------
(***************************************************************************)
(* What holds of every review round, for any number of files of each kind  *)
(* and any number of rounds: the author's files stand, a recorded round    *)
(* leaves a tree the next run accepts, and what was committed was checked. *)
(***************************************************************************)
EXTENDS ReviewRound, TLAPS

\* The author's files: those of the base, and those the author was the last to add.
Theirs == Outside \cup Suite \cup {q \in New : added[q] = "author"}

Found == [files : SUBSET Inside, restored : BOOLEAN, lint : BOOLEAN, smoke : BOOLEAN,
          cut : BOOLEAN]
Adders == {"nobody", "reviewer", "author"}
Labels == {"idle", "spawn", "session", "answered", "smoke", "judge", "add", "commit", "record",
           "stopping"}
Checked == {"smoke", "judge", "add", "commit", "record"}

-----------------------------------------------------------------------------
(* Types *)

\* The types, with the bound of the rounds where a round is going on.
Typed == TypeOK /\ (pc # "idle" => st.rounds < MaxRounds)

\* What may come of cleaning up.
LEMMA DiscardTyped ==
    ASSUME Typed, NEW stuck, DiscardLeftovers(stuck)
    PROVE  /\ tree' \in [Paths -> Content] /\ st' \in State
           /\ st'.rounds = st.rounds /\ st'.test_files = st.test_files
<1>1. tree \in [Paths -> Content] /\ head \in [Paths -> Content] /\ st \in State
  BY DEF Typed, TypeOK
<1>2. tree' \in [Paths -> Content]
  BY <1>1 DEF DiscardLeftovers, Content
<1>3. stuck \subseteq Inside
  BY DEF DiscardLeftovers, Unfinished, Inside, New
<1>4. [st EXCEPT !.pending = stuck, !.running = FALSE] \in State
  BY <1>1, <1>3 DEF State
<1>5. st' = st \/ st' = [st EXCEPT !.pending = stuck, !.running = FALSE]
  BY DEF DiscardLeftovers
<1> QED
  BY <1>1, <1>2, <1>4, <1>5 DEF State

\* The verdict of a round is one.
LEMMA VerdictTyped ==
    ASSUME NEW a \in Answer, NEW gaps, NEW may_ask PROVE Verdict(a, gaps, may_ask) \in Verdicts
  BY DEF Verdict, Verdicts

\* Every step keeps the types.
LEMMA TypedStep == ASSUME Typed, [Next]_vars PROVE Typed'
<1> USE ReviewRoundAssumption DEF history
<1>0. /\ head \in [Paths -> Content] /\ tree \in [Paths -> Content]
      /\ staged \subseteq Inside /\ st \in State /\ smokes \in BOOLEAN /\ pc \in Labels
      /\ answer \in Answer /\ bounces \in {0, 1} /\ found \in Found
      /\ how \in {"none", "stopped"} \cup Verdicts /\ untried \subseteq Inside
      /\ added \in [New -> Adders] /\ touched \subseteq Inside /\ moves \in 0..MaxMoves
  BY DEF Typed, TypeOK, Labels, Found, Adders
<1>n. NoAnswer \in Answer /\ NothingFound \in Found
  BY DEF NoAnswer, Answer, Verdicts, NothingFound, Found
<1> SUFFICES /\ head' \in [Paths -> Content] /\ tree' \in [Paths -> Content]
             /\ staged' \subseteq Inside /\ st' \in State /\ smokes' \in BOOLEAN
             /\ pc' \in Labels /\ answer' \in Answer /\ bounces' \in {0, 1}
             /\ found' \in Found /\ how' \in {"none", "stopped"} \cup Verdicts
             /\ added' \in [New -> Adders] /\ touched' \subseteq Inside /\ moves' \in 0..MaxMoves
             /\ untried' \subseteq Inside /\ (pc' # "idle" => st'.rounds < MaxRounds)
  BY DEF Typed, TypeOK, Labels, Found, Adders
<1>1. CASE CleanUp
  <2>1. tree' \in [Paths -> Content] /\ st' \in State
    BY <1>1, DiscardTyped DEF CleanUp
  <2> QED BY <1>0, <1>1, <2>1 DEF CleanUp, Round
<1>2. CASE Begin
  <2>1. Recovered \subseteq Inside
    BY <1>0 DEF Recovered, Ours, State, Inside
  <2>2. st' \in State /\ st'.rounds = st.rounds /\ st.rounds < MaxRounds
    BY <1>0, <1>2, <2>1 DEF Begin, State
  <2> QED BY <1>0, <1>n, <1>2, <2>2 DEF Begin, Labels
<1>3. CASE Spawn
  <2>1. st' \in State /\ st'.rounds = st.rounds
    BY <1>0, <1>3 DEF Spawn, State
  <2> QED BY <1>0, <1>3, <2>1 DEF Spawn, Round, Labels, Typed
<1>4. CASE Session
  BY <1>0, <1>4 DEF Session, Round, Labels, RaiseStop, Typed
<1>5. CASE Check
  <2> DEFINE guarded == OutsidePutBack(tree)
             theirs == Protected(guarded)
             restored == [p \in Paths |-> IF p \in theirs THEN head[p] ELSE guarded[p]]
             files == {p \in Inside : restored[p] # head[p]}
  <2>1. guarded \in [Paths -> Content] /\ restored \in [Paths -> Content]
    BY <1>0 DEF OutsidePutBack
  <2>2. \A t \in Formatted(restored, files) : t \in [Paths -> Content]
    BY <2>1 DEF Formatted, Content
  <2>3. CASE \E p \in Outside : tree[p] # head[p]
    <3>1. tree' = guarded /\ pc' = "stopping" /\ UNCHANGED <<answer, found, how>>
      BY <1>5, <2>3 DEF Check, RaiseStop
    <3> QED BY <1>0, <1>5, <2>1, <3>1 DEF Check, Labels, Typed
  <2>4. CASE ~ \E p \in Outside : tree[p] # head[p]
    <3>1. tree' \in Formatted(restored, files) /\ answer' \in Answer /\ how' = how
      BY <1>5, <2>4 DEF Check
    <3>2. found' = [files |-> files, restored |-> theirs # {}, lint |-> LintRed(tree', files),
                    smoke |-> FALSE, cut |-> FALSE]
      BY <1>5, <2>4 DEF Check
    <3>3. found' \in Found
      BY <3>2 DEF Found, LintRed
    <3>4. pc' \in Labels /\ pc # "idle"
      BY <1>5, <2>4 DEF Check, Labels
    <3> QED BY <1>0, <1>5, <2>2, <3>1, <3>3, <3>4 DEF Check, Typed
  <2> QED BY <2>3, <2>4
<1>6. CASE Smoke
  <2>1. found' \in Found
    BY <1>0, <1>6 DEF Smoke, Found, Smokes
  <2> QED BY <1>0, <1>6, <2>1 DEF Smoke, RaiseStop, Labels, Typed
<1>7. CASE SendBack
  BY <1>0, <1>n, <1>7 DEF SendBack, Labels, Typed
<1>8. CASE Settle
  BY <1>0, <1>8 DEF Settle, RaiseStop, Round, Labels, Typed
<1>9. CASE Add
  <2>1. found.files \subseteq Inside
    BY <1>0 DEF Found
  <2> QED BY <1>0, <1>n, <1>9, <2>1 DEF Add, End, NoRound, Round, Labels, Typed
<1>10. CASE Commit
  <2>1. staged \cap Existing \subseteq Paths /\ head' \in [Paths -> Content]
    BY <1>0, <1>10 DEF Commit, RaiseStop, Existing
  <2>2. added' \in [New -> Adders]
    BY <1>0, <1>10 DEF Commit, RaiseStop, Adders
  <2>3. touched' \subseteq Inside
    BY <1>0, <1>10 DEF Commit
  <2> QED BY <1>0, <1>10, <2>1, <2>2, <2>3 DEF Commit, RaiseStop, Round, Labels, Typed
<1>11. CASE Record
  <2>1. RoundVerdict(answer) \in Verdicts
    BY <1>0, VerdictTyped DEF RoundVerdict
  <2>2. found.files \subseteq Inside /\ Pending(RoundVerdict(answer)) \subseteq Inside
    BY <1>0 DEF Found, Pending
  <2>3. st.rounds + 1 \in 0 .. MaxRounds
    BY <1>0, <1>11 DEF Typed, Record, State
  <2>4. st' \in State
    BY <1>0, <1>11, <2>1, <2>2, <2>3 DEF Record, State
  <2> QED BY <1>0, <1>n, <1>11, <2>1, <2>4 DEF Record, End, NoRound, Labels
<1>12. CASE Stopped
  <2>1. tree' \in [Paths -> Content] /\ st' \in State
    BY <1>12, DiscardTyped DEF Stopped
  <2> QED BY <1>0, <1>n, <1>12, <2>1 DEF Stopped, End, NoRound, Labels
<1>13. CASE Killed
  BY <1>0, <1>n, <1>13 DEF Killed, End, NoRound, Labels
<1>14. CASE AuthorCleans
  <2>1. tree' \in [Paths -> Content]
    BY <1>0, <1>14 DEF AuthorCleans
  <2> QED BY <1>0, <1>14, <2>1 DEF AuthorCleans, Round
<1>15. CASE AuthorCommits
  <2>1. PICK p \in New, by \in Adders :
          LET to == IF by = "nobody" THEN "absent" ELSE "base"
          IN  /\ head' = [head EXCEPT ![p] = to] /\ tree' = [tree EXCEPT ![p] = to]
              /\ added' = [added EXCEPT ![p] = by] /\ staged' = staged \ {p}
    BY <1>15 DEF AuthorCommits, Adders
  <2>2. head' \in [Paths -> Content] /\ tree' \in [Paths -> Content]
    BY <1>0, <2>1 DEF Content
  <2>3. added' \in [New -> Adders] /\ staged' \subseteq Inside
    BY <1>0, <2>1
  <2>4. moves' \in 0..MaxMoves
    BY <1>0, <1>15 DEF AuthorCommits
  <2> QED BY <1>0, <1>15, <2>2, <2>3, <2>4 DEF AuthorCommits, Round
<1>16. CASE UNCHANGED vars
  BY <1>0, <1>16 DEF vars, Typed
<1> QED
  BY <1>1, <1>2, <1>3, <1>4, <1>5, <1>6, <1>7, <1>8, <1>9, <1>10, <1>11, <1>12, <1>13, <1>14,
     <1>15, <1>16 DEF Next

\* The types in every state.
LEMMA TypedAlways == Spec => []Typed
<1>1. Init => Typed
  <2> SUFFICES ASSUME Init PROVE Typed
    OBVIOUS
  <2>1. head \in [Paths -> Content]
    BY DEF Init, Content
  <2>2. st \in State
    BY ReviewRoundAssumption DEF Init, State
  <2>3. answer \in Answer /\ found \in Found
    BY DEF Init, Answer, Verdicts, NoAnswer, Found, NothingFound
  <2>4. added \in [New -> Adders] /\ moves \in 0..MaxMoves
    BY ReviewRoundAssumption DEF Init, Adders
  <2> QED BY <2>1, <2>2, <2>3, <2>4 DEF Init, Typed, TypeOK, Found, Adders
<1> QED
  BY <1>1, TypedStep, PTL DEF Spec

\* The constants, spread out.
LEMMA Kinds ==
    /\ Outside \cap Inside = {} /\ Suite \cap New = {} /\ Inside = Suite \cup New
    /\ Theirs \subseteq Paths /\ Inside \subseteq Paths /\ Paths = Outside \cup Inside
    /\ Outside \cup Suite \subseteq Theirs
  BY ReviewRoundAssumption DEF Inside, New, Theirs, Paths

-----------------------------------------------------------------------------
(* The index *)

\* A round marks itself from its first session on, starts on an empty index, and fills it for
\* one commit only; a pending file of a round that ended is never in the index, and nothing
\* of what a round found outlives it.
IndexInv ==
    /\ pc \notin {"idle", "spawn"} => st.running
    /\ pc \notin {"idle", "commit", "stopping"} => staged = {}
    /\ ~st.running => staged \cap st.pending = {}
    /\ pc = "commit" => staged = found.files
    /\ pc = "idle" => found.files = {}

\* Cleaning up clears the mark together with the list, or does neither.
LEMMA DiscardMarks ==
    ASSUME Typed, NEW stuck, DiscardLeftovers(stuck)
    PROVE  st' = st \/ (~st'.running /\ staged \cap st'.pending = {})
  BY DEF DiscardLeftovers, Unfinished, Typed, TypeOK, State

\* Every step keeps that.
LEMMA IndexStep == ASSUME Typed, IndexInv, [Next]_vars PROVE IndexInv'
<1> USE DEF IndexInv, End, NoRound, NothingFound
<1>0. st \in State
  BY DEF Typed, TypeOK
<1>1. CASE CleanUp
  <2>1. UNCHANGED <<staged, found>> /\ pc = "idle" /\ pc' = "idle"
    BY <1>1 DEF CleanUp, Round
  <2>2. st' = st \/ (~st'.running /\ staged \cap st'.pending = {})
    BY <1>1, DiscardMarks DEF CleanUp
  <2> QED BY <2>1, <2>2
<1>2. CASE Begin
  <2>1. UNCHANGED staged /\ pc' = "spawn" /\ st'.pending = st.pending /\ st'.running = st.running
    BY <1>0, <1>2 DEF Begin, State
  <2>2. staged = {}
    BY <1>2 DEF Begin, Dirty
  <2> QED BY <2>1, <2>2
<1>3. CASE Spawn
  BY <1>0, <1>3 DEF Spawn, Round, State
<1>4. CASE Session
  BY <1>4 DEF Session, Round, RaiseStop
<1>5. CASE Check
  <2>1. UNCHANGED <<staged, st>> /\ pc = "answered" /\ pc' \in {"smoke", "stopping"}
    BY <1>5 DEF Check, RaiseStop
  <2> QED BY <2>1
<1>6. CASE Smoke
  BY <1>6 DEF Smoke, RaiseStop
<1>7. CASE SendBack
  BY <1>7 DEF SendBack
<1>8. CASE Settle
  BY <1>8 DEF Settle, Round, RaiseStop
<1>9. CASE Add
  BY <1>9 DEF Add, Round
<1>10. CASE Commit
  BY <1>10 DEF Commit, Round, RaiseStop
<1>11. CASE Record
  BY <1>0, <1>11 DEF Record, State
<1>12. CASE Stopped
  <2>1. UNCHANGED staged /\ pc' = "idle" /\ found'.files = {}
    BY <1>12 DEF Stopped
  <2>2. st' = st \/ (~st'.running /\ staged \cap st'.pending = {})
    BY <1>12, DiscardMarks DEF Stopped
  <2> QED BY <2>1, <2>2
<1>13. CASE Killed
  BY <1>13 DEF Killed
<1>14. CASE AuthorCleans
  BY <1>14 DEF AuthorCleans, Round
<1>15. CASE AuthorCommits
  <2>1. UNCHANGED <<st, pc, found>> /\ pc = "idle" /\ staged' \subseteq staged
    BY <1>15 DEF AuthorCommits, Round
  <2> QED BY <2>1
<1>16. CASE UNCHANGED vars
  BY <1>16 DEF vars, history
<1> QED
  BY <1>1, <1>2, <1>3, <1>4, <1>5, <1>6, <1>7, <1>8, <1>9, <1>10, <1>11, <1>12, <1>13, <1>14,
     <1>15, <1>16 DEF Next

\* The index in every state.
LEMMA IndexAlways == Spec => []IndexInv
<1>1. Init => IndexInv
  BY DEF Init, IndexInv, NothingFound
<1> QED
  BY <1>1, IndexStep, TypedAlways, PTL DEF Spec

-----------------------------------------------------------------------------
(* The author's files *)

\* The reviewer's files are never the author's while a round goes on: whoever has had a file that
\* HEAD has again, a run reads back who added it last.  For that every file the state has must be
\* one a test commit touched, so that a file the reviewer deleted has to have been its own.
AuthorsInv ==
    /\ \A p \in Theirs : head[p] = "base"
    /\ Theirs \cap (staged \cup found.files) = {}
    /\ st.test_files \subseteq touched /\ touched \subseteq New
    /\ pc # "idle" => Theirs \cap st.test_files = {}
    /\ pc \in Checked =>
          /\ \A p \in Theirs : tree[p] = "base"
          /\ \A p \in found.files : tree[p] = "absent" => p \in st.test_files
    /\ pc = "record" /\ RoundVerdict(answer) # "NEEDS_INFO" => found.files \subseteq touched

\* What a check collects and leaves in the tree.
LEMMA CheckCollects ==
    ASSUME Typed, AuthorsInv, Check, pc' # "stopping" \/ ~UNCHANGED found
    PROVE  /\ found'.files \subseteq Inside
           /\ Theirs \cap found'.files = {}
           /\ \A p \in Paths \ found'.files : tree'[p] = head[p]
           /\ \A p \in found'.files : tree'[p] = "absent" => p \in st.test_files
           /\ found'.lint = LintRed(tree', found'.files) /\ found'.smoke = FALSE
<1> DEFINE guarded == OutsidePutBack(tree)
           theirs == Protected(guarded)
           restored == [p \in Paths |-> IF p \in theirs THEN head[p] ELSE guarded[p]]
           files == {p \in Inside : restored[p] # head[p]}
<1>1. ~ \E p \in Outside : tree[p] # head[p]
  BY DEF Check, RaiseStop
<1>2. /\ tree' \in Formatted(restored, files)
      /\ found' = [files |-> files, restored |-> theirs # {}, lint |-> LintRed(tree', files),
                   smoke |-> FALSE, cut |-> FALSE]
  BY <1>1 DEF Check
<1>3. pc # "idle"
  BY DEF Check
<1>4. ASSUME NEW p \in Theirs PROVE restored[p] = head[p]
  <2>1. p \in Paths /\ head[p] = "base"
    BY Kinds DEF AuthorsInv
  <2>2. CASE p \in Outside
    BY <2>1, <2>2 DEF OutsidePutBack
  <2>3. CASE p \notin Outside
    <3>1. p \in Inside \ st.test_files
      BY <1>3, <2>1, <2>3, Kinds DEF AuthorsInv
    <3>2. CASE guarded[p] # head[p]
      <4>1. p \in theirs
        BY <2>1, <3>1, <3>2 DEF Protected
      <4> QED BY <2>1, <4>1
    <3>3. CASE guarded[p] = head[p]
      BY <2>1, <3>3
    <3> QED BY <3>2, <3>3
  <2> QED BY <2>2, <2>3
<1>5. Theirs \cap files = {}
  BY <1>4
<1>6. ASSUME NEW p \in Paths \ files PROVE restored[p] = head[p]
  BY <1>4, <1>6, Kinds
<1>7. ASSUME NEW p \in Paths \ files PROVE tree'[p] = restored[p]
  BY <1>2 DEF Formatted
<1>8. ASSUME NEW p \in files, tree'[p] = "absent" PROVE p \in st.test_files
  <2>1. p \in Paths /\ p \in Inside /\ restored[p] # head[p]
    BY Kinds
  <2>2. restored[p] = "absent"
    BY <1>2, <1>8, <2>1 DEF Formatted
  <2>3. p \notin theirs /\ guarded[p] = "absent"
    BY <2>1, <2>2
  <2> QED BY <2>1, <2>2, <2>3 DEF Protected
<1> QED
  BY <1>2, <1>5, <1>6, <1>7, <1>8

\* The ownership a run reads back leaves out what the author was the last to add.
LEMMA RecoveredOurs ==
    ASSUME Typed, AuthorsInv
    PROVE  Recovered \subseteq touched /\ Theirs \cap Recovered = {}
<1>1. Recovered \subseteq touched
  BY DEF Recovered, Ours, AuthorsInv
<1>2. ASSUME NEW p \in Theirs, p \in Recovered PROVE FALSE
  <2>1. p \in touched /\ p \in New /\ p \in Paths /\ head[p] = "base"
    BY <1>1, <1>2, Kinds DEF AuthorsInv
  <2>2. p \in touched \cap Tracked /\ added[p] = "author"
    BY <2>1, <1>2, Kinds DEF Tracked, Theirs
  <2>3. p \in Taken /\ p \notin Ours
    BY <2>2 DEF Taken, Ours
  <2> QED BY <1>2, <2>3 DEF Recovered
<1> QED BY <1>1, <1>2

\* A test commit takes nothing of the author's, and what it commits it has touched.
LEMMA CommitOurs == ASSUME Typed, IndexInv, AuthorsInv, Commit PROVE AuthorsInv'
<1>1. /\ UNCHANGED <<tree, st, smokes, answer, found, bounces>> /\ pc = "commit"
      /\ staged = found.files /\ found.files \subseteq Inside /\ Theirs \cap found.files = {}
  BY DEF Commit, Round, IndexInv, AuthorsInv, Typed, TypeOK
<1>2. RoundVerdict(answer)' = RoundVerdict(answer)
  BY <1>1 DEF RoundVerdict
<1>3. CASE pc' = "stopping"
  <2>1. UNCHANGED <<head, added, touched, staged>>
    BY <1>3 DEF Commit, RaiseStop
  <2>2. Theirs' = Theirs
    BY <2>1 DEF Theirs
  <2> QED BY <1>1, <1>3, <2>1, <2>2 DEF AuthorsInv, Checked
<1>4. CASE pc' # "stopping"
  <2>1. /\ head' = [p \in Paths |-> IF p \in staged THEN tree[p] ELSE head[p]]
        /\ added' = [p \in New |-> IF p \in (staged \cap Existing) \ Tracked
                                   THEN "reviewer" ELSE added[p]]
        /\ touched' = touched \cup (staged \cap Existing) /\ staged' = {} /\ pc' = "record"
    BY <1>4 DEF Commit, RaiseStop
  <2>2. Theirs' \subseteq Theirs
    BY <2>1 DEF Theirs
  <2>3. found.files \subseteq New
    BY <1>1, Kinds
  <2>4. found.files \subseteq touched'
    <3>1. ASSUME NEW p \in found.files PROVE p \in touched'
      <4>1. p \in Paths
        BY <1>1, <3>1, Kinds
      <4>2. CASE tree[p] = "absent"
        BY <1>1, <2>1, <3>1, <4>2 DEF AuthorsInv, Checked
      <4>3. CASE tree[p] # "absent"
        BY <1>1, <2>1, <3>1, <4>1, <4>3 DEF Existing
      <4> QED BY <4>2, <4>3
    <3> QED BY <3>1
  <2>5. \A p \in Theirs' : head'[p] = "base"
    BY <1>1, <2>1, <2>2, Kinds DEF AuthorsInv
  <2>6. touched' \subseteq New
    BY <1>1, <2>1, <2>3 DEF AuthorsInv
  <2> QED BY <1>1, <2>1, <2>2, <2>4, <2>5, <2>6 DEF AuthorsInv, Checked
<1> QED BY <1>3, <1>4

\* The author's commit of one path, seen by whose the files are.
LEMMA AuthorsMove == ASSUME Typed, IndexInv, AuthorsInv, AuthorCommits PROVE AuthorsInv'
<1>1. /\ UNCHANGED <<touched, st, found>> /\ pc = "idle" /\ pc' = "idle"
      /\ head \in [Paths -> Content] /\ DOMAIN added = New
  BY DEF AuthorCommits, Round, Typed, TypeOK
<1>2. PICK p \in New, by \in Adders :
        LET to == IF by = "nobody" THEN "absent" ELSE "base"
        IN  /\ by = "reviewer" => added[p] = "reviewer"
            /\ head' = [head EXCEPT ![p] = to]
            /\ added' = [added EXCEPT ![p] = by] /\ staged' = staged \ {p}
  BY DEF AuthorCommits, Adders
<1>3. p \in Paths
  BY Kinds
<1>4. ASSUME NEW q \in Theirs' PROVE q \in Theirs \/ (q = p /\ by = "author")
  BY <1>1, <1>2, <1>4 DEF Theirs
<1>5. ASSUME NEW q \in Theirs' PROVE head'[q] = "base"
  <2>1. CASE q = p
    <3>1. by # "nobody"
      BY <1>1, <1>2, <1>5, <2>1, Kinds DEF Theirs
    <3> QED BY <1>1, <1>2, <1>3, <2>1, <3>1
  <2>2. CASE q # p
    BY <1>1, <1>2, <1>4, <2>2, Kinds DEF AuthorsInv
  <2> QED BY <2>1, <2>2
<1>6. found.files = {}
  BY <1>1 DEF IndexInv
<1> QED BY <1>1, <1>2, <1>4, <1>5, <1>6 DEF AuthorsInv, Checked

\* Every step keeps the author's files.
LEMMA AuthorsStep == ASSUME Typed, IndexInv, AuthorsInv, [Next]_vars PROVE AuthorsInv'
<1> USE DEF Checked, history
<1>k. ASSUME UNCHANGED added PROVE Theirs' = Theirs
  BY <1>k DEF Theirs
<1>1. CASE CleanUp
  <2>1. UNCHANGED <<head, added, touched, staged, found>> /\ pc' = "idle"
        /\ st'.test_files = st.test_files
    BY <1>1, DiscardTyped DEF CleanUp, Round
  <2> QED BY <1>k, <2>1 DEF AuthorsInv
<1>2. CASE Begin
  <2>1. UNCHANGED <<head, added, touched, staged, found>> /\ pc' = "spawn"
    BY <1>2 DEF Begin
  <2>2. st'.test_files = Recovered
    BY <1>2 DEF Begin, Typed, TypeOK, State
  <2> QED BY <1>k, <2>1, <2>2, RecoveredOurs DEF AuthorsInv
<1>3. CASE Spawn
  <2>1. UNCHANGED <<head, added, touched, staged, found>> /\ pc = "spawn" /\ pc' = "session"
        /\ st'.test_files = st.test_files
    BY <1>3 DEF Spawn, Round, Typed, TypeOK, State
  <2> QED BY <1>k, <2>1 DEF AuthorsInv
<1>4. CASE Session
  BY <1>k, <1>4 DEF Session, RaiseStop, Round, AuthorsInv
<1>5. CASE Check
  <2>1. UNCHANGED <<head, added, touched, staged, st>> /\ pc = "answered"
        /\ pc' \in {"smoke", "stopping"}
    BY <1>5 DEF Check, RaiseStop
  <2>2. CASE pc' = "stopping" /\ UNCHANGED found
    BY <1>k, <2>1, <2>2 DEF AuthorsInv
  <2>3. CASE pc' # "stopping" \/ ~UNCHANGED found
    <3>1. /\ Theirs \cap found'.files = {}
          /\ \A p \in Paths \ found'.files : tree'[p] = head[p]
          /\ \A p \in found'.files : tree'[p] = "absent" => p \in st.test_files
      BY <1>5, <2>3, CheckCollects
    <3>2. \A p \in Theirs : tree'[p] = "base"
      BY <3>1, Kinds DEF AuthorsInv
    <3> QED BY <1>k, <2>1, <3>1, <3>2 DEF AuthorsInv
  <2> QED BY <2>2, <2>3
<1>6. CASE Smoke
  <2>1. found'.files = found.files /\ pc = "smoke" /\ pc' \in {"judge", "stopping"}
        /\ UNCHANGED <<head, added, touched, tree, staged, st>>
    BY <1>6 DEF Smoke, RaiseStop, Typed, TypeOK
  <2> QED BY <1>k, <2>1 DEF AuthorsInv
<1>7. CASE SendBack
  BY <1>k, <1>7 DEF SendBack, NothingFound, AuthorsInv
<1>8. CASE Settle
  <2>1. UNCHANGED <<head, added, touched, tree, staged, st, answer, found>> /\ pc = "judge"
    BY <1>8 DEF Settle, Round
  <2>2. pc' \in {"stopping", "add", "record"}
        /\ (pc' = "record" => found.files = {} \/ RoundVerdict(answer) = "NEEDS_INFO")
    BY <1>8 DEF Settle, RaiseStop
  <2>3. RoundVerdict(answer)' = RoundVerdict(answer)
    BY <2>1 DEF RoundVerdict
  <2> QED BY <1>k, <2>1, <2>2, <2>3 DEF AuthorsInv
<1>9. CASE Add
  <2>1. UNCHANGED <<head, added, touched, tree, st>> /\ pc = "add" /\ pc' \in {"commit", "idle"}
    BY <1>9 DEF Add, End
  <2>2. /\ staged' \in {staged, found.files} /\ found' \in {found, NothingFound}
        /\ (pc' = "commit" => found' = found)
    BY <1>9 DEF Add, End, NoRound, Round
  <2> QED BY <1>k, <2>1, <2>2 DEF AuthorsInv, NothingFound
<1>10. CASE Commit
  BY <1>10, CommitOurs
<1>11. CASE Record
  <2>1. UNCHANGED <<head, added, touched, staged>> /\ pc = "record" /\ pc' = "idle"
        /\ found'.files = {}
    BY <1>11 DEF Record, End, NoRound, NothingFound
  <2>2. st'.test_files = IF RoundVerdict(answer) = "NEEDS_INFO" THEN st.test_files
                         ELSE st.test_files \cup found.files
    BY <1>11 DEF Record, Typed, TypeOK, State
  <2> QED BY <1>k, <2>1, <2>2 DEF AuthorsInv
<1>12. CASE Stopped
  <2>1. UNCHANGED <<head, added, touched, staged>> /\ pc' = "idle" /\ found'.files = {}
        /\ st'.test_files = st.test_files
    BY <1>12, DiscardTyped DEF Stopped, End, NoRound, NothingFound
  <2> QED BY <1>k, <2>1 DEF AuthorsInv
<1>13. CASE Killed
  BY <1>k, <1>13 DEF Killed, End, NoRound, NothingFound, AuthorsInv
<1>14. CASE AuthorCleans
  BY <1>k, <1>14 DEF AuthorCleans, Round, AuthorsInv
<1>15. CASE AuthorCommits
  BY <1>15, AuthorsMove
<1>16. CASE UNCHANGED vars
  <2>1. RoundVerdict(answer)' = RoundVerdict(answer)
    BY <1>16 DEF vars, RoundVerdict
  <2> QED BY <1>k, <1>16, <2>1 DEF vars, AuthorsInv
<1> QED
  BY <1>1, <1>2, <1>3, <1>4, <1>5, <1>6, <1>7, <1>8, <1>9, <1>10, <1>11, <1>12, <1>13, <1>14,
     <1>15, <1>16 DEF Next

\* The author's files in every state.
LEMMA AuthorsAlways == Spec => []AuthorsInv
<1>1. Init => AuthorsInv
  <2> SUFFICES ASSUME Init PROVE AuthorsInv
    OBVIOUS
  <2>1. Theirs = Outside \cup Suite
    BY DEF Init, Theirs
  <2> QED BY <2>1, Kinds DEF Init, AuthorsInv, NothingFound, Checked
<1> QED
  BY <1>1, AuthorsStep, TypedAlways, IndexAlways, PTL DEF Spec

\* Whatever a session does to the author's files, those of the base or created since, no test
\* commit has any of it, and a round comes to its commit with all of them put back
\* (recover_test_ownership, guard_worktree, restore_protected_tests).
THEOREM AuthorsHold == Spec => []AuthorsFilesStand
<1>1. AuthorsInv => AuthorsFilesStand
  BY DEF AuthorsInv, AuthorsFilesStand, Theirs, Checked
<1> QED
  BY <1>1, AuthorsAlways, PTL

-----------------------------------------------------------------------------
(* What is committed and what is left *)

\* What a round has checked is what it commits or leaves: nothing differs from HEAD but the
\* files it found, the tree has not changed since lint saw it, and once the commit is made, or
\* there was nothing to commit, only a question leaves anything.
RoundInv ==
    /\ pc \in Checked \ {"record"} =>
          /\ \A p \in Paths \ found.files : tree[p] = head[p]
          /\ found.lint = LintRed(tree, found.files)
    /\ pc \in {"judge", "add", "commit"} => (Smokes /\ CannotRun => found.smoke \/ found.cut)
    /\ pc \in {"add", "commit"} =>
          ~found.lint /\ ~found.smoke /\ RoundVerdict(answer) # "NEEDS_INFO"
    /\ pc = "record" =>
          LET left == IF RoundVerdict(answer) = "NEEDS_INFO" THEN found.files ELSE {}
          IN  \A p \in Paths \ left : tree[p] = head[p]
    /\ pc = "idle" /\ Recorded => ~st.running
    /\ NextRunAccepts
    /\ CommittedWasChecked

\* A commit brings in what lint has seen, and the smoke run, unless the reviewer asked or the
\* report of that run was cut short.
LEMMA CommitChecked ==
    ASSUME Typed, IndexInv, RoundInv, Commit, head' # head PROVE CommittedWasChecked'
<1>1. /\ pc = "commit" /\ staged = found.files /\ UNCHANGED <<tree, smokes, answer, found>>
      /\ head' = [p \in Paths |-> IF p \in staged THEN tree[p] ELSE head[p]]
      /\ untried' = IF Asked(answer) \/ found.cut THEN untried \cup staged ELSE untried \ staged
  BY DEF Commit, Round, IndexInv, RaiseStop
<1>2. ~LintRed(tree, found.files) /\ (Smokes /\ CannotRun => found.cut)
  BY <1>1 DEF RoundInv, Checked
<1> SUFFICES ASSUME NEW p \in New
             PROVE  /\ HasLint => head'[p] \notin {"loose", "red"}
                    /\ smokes /\ head'[p] = "broken" => p \in untried'
  BY <1>1 DEF CommittedWasChecked
<1>3. p \in Paths
  BY DEF Paths, Inside
<1>4. CASE p \in staged
  <2>1. head'[p] = tree[p]
    BY <1>1, <1>3, <1>4
  <2>2. HasLint => tree[p] \notin {"loose", "red"}
    BY <1>1, <1>2, <1>3, <1>4 DEF LintRed
  <2>3. smokes /\ tree[p] = "broken" => Asked(answer) \/ found.cut
    BY <1>1, <1>2, <1>4 DEF Smokes, CannotRun
  <2> QED BY <1>1, <1>4, <2>1, <2>2, <2>3
<1>5. CASE p \notin staged
  <2>1. head'[p] = head[p]
    BY <1>1, <1>3, <1>5
  <2>2. p \in untried => p \in untried'
    BY <1>1, <1>5
  <2> QED BY <2>1, <2>2 DEF RoundInv, CommittedWasChecked
<1> QED BY <1>4, <1>5

\* The author's commit of one path leaves nothing more to accept and nothing unchecked.
LEMMA MoveKeepsRound == ASSUME Typed, RoundInv, AuthorCommits PROVE RoundInv'
<1>1. UNCHANGED <<untried, st, smokes, how>> /\ pc = "idle" /\ pc' = "idle"
      /\ head \in [Paths -> Content] /\ tree \in [Paths -> Content]
  BY DEF AuthorCommits, Typed, TypeOK
<1>2. PICK p \in New, to \in {"absent", "base"} :
        /\ head' = [head EXCEPT ![p] = to] /\ tree' = [tree EXCEPT ![p] = to]
        /\ staged' = staged \ {p}
  BY DEF AuthorCommits
<1>3. Dirty' \subseteq Dirty
  BY <1>1, <1>2 DEF Dirty
<1>4. NextRunAccepts'
  BY <1>1, <1>3 DEF RoundInv, NextRunAccepts, Recorded
<1>5. CommittedWasChecked'
  <2> SUFFICES ASSUME NEW q \in New
               PROVE  /\ HasLint => head'[q] \notin {"loose", "red"}
                      /\ smokes /\ head'[q] = "broken" => q \in untried
    BY <1>1 DEF CommittedWasChecked
  <2>1. q \in Paths
    BY Kinds
  <2> QED BY <1>1, <1>2, <2>1 DEF RoundInv, CommittedWasChecked
<1> QED BY <1>1, <1>4, <1>5 DEF RoundInv, Recorded, Checked

\* Every step keeps that.
LEMMA RoundStep ==
    ASSUME Typed, AuthorsInv, IndexInv, RoundInv, [Next]_vars PROVE RoundInv'
<1> USE DEF history, Recorded, Verdicts
<1>0. /\ st \in State /\ found \in Found
      /\ head \in [Paths -> Content] /\ tree \in [Paths -> Content]
  BY DEF Typed, TypeOK, Found
<1>k. ASSUME UNCHANGED <<head, untried, smokes>> PROVE CommittedWasChecked'
  BY <1>k DEF RoundInv, CommittedWasChecked
<1>n. ASSUME pc' \in {"spawn", "session", "answered", "stopping"} \/ (pc' = "idle" /\ ~Recorded'),
             CommittedWasChecked'
      PROVE  RoundInv'
  BY <1>n DEF RoundInv, NextRunAccepts, Checked
<1>1. CASE CleanUp
  <2>1. UNCHANGED <<head, untried, smokes>> /\ pc' = "idle" /\ ~Recorded'
    BY <1>1 DEF CleanUp, RoundInv
  <2> QED BY <1>k, <1>n, <2>1
<1>2. CASE Begin \/ Spawn \/ Session \/ SendBack
  <2>1. UNCHANGED <<head, untried, smokes>> /\ pc' \in {"spawn", "session", "answered", "stopping"}
    BY <1>2 DEF Begin, Spawn, Session, SendBack, RaiseStop
  <2> QED BY <1>k, <1>n, <2>1
<1>3. CASE Check
  <2>1. UNCHANGED <<head, untried, smokes>> /\ pc' \in {"smoke", "stopping"}
    BY <1>3 DEF Check, RaiseStop
  <2>2. CASE pc' = "stopping"
    BY <1>k, <1>n, <2>1, <2>2
  <2>3. CASE pc' = "smoke"
    <3>1. /\ \A p \in Paths \ found'.files : tree'[p] = head[p]
          /\ found'.lint = LintRed(tree', found'.files)
      BY <1>3, <2>3, CheckCollects
    <3> QED BY <1>k, <2>1, <2>3, <3>1 DEF RoundInv, NextRunAccepts, LintRed
  <2> QED BY <2>1, <2>2, <2>3
<1>4. CASE Smoke
  <2>1. UNCHANGED <<head, tree, st, smokes, answer, bounces, untried>> /\ pc = "smoke"
    BY <1>4 DEF Smoke
  <2>2. CASE pc' = "stopping"
    BY <1>k, <1>n, <2>1, <2>2
  <2>3. CASE pc' # "stopping"
    <3>1. PICK cut \in {FALSE, Smokes} :
              found' = [found EXCEPT !.smoke = Smokes /\ CannotRun /\ ~cut, !.cut = cut]
      BY <1>4, <2>3 DEF Smoke, RaiseStop
    <3>5. pc' = "judge"
      BY <1>4, <2>3 DEF Smoke, RaiseStop
    <3>2. found'.files = found.files /\ found'.lint = found.lint
          /\ (Smokes /\ CannotRun => found'.smoke \/ found'.cut)
      BY <1>0, <3>1 DEF Found
    <3>3. Smokes' = Smokes /\ CannotRun' = CannotRun
      BY <2>1, <3>2 DEF Smokes, CannotRun
    <3>4. LintRed(tree, found.files) = LintRed(tree', found'.files)
      BY <2>1, <3>2
    <3> QED BY <1>k, <2>1, <3>2, <3>3, <3>4, <3>5 DEF RoundInv, NextRunAccepts, Checked
  <2> QED BY <2>2, <2>3
<1>5. CASE Settle
  <2>1. UNCHANGED <<head, tree, st, smokes, answer, found, bounces, untried, staged>>
        /\ pc = "judge"
    BY <1>5 DEF Settle, Round
  <2>2. CASE found.restored \/ found.lint \/ found.smoke
    <3>1. pc' = "stopping"
      BY <1>5, <2>2 DEF Settle, RaiseStop
    <3> QED BY <1>k, <1>n, <2>1, <3>1
  <2>3. CASE ~(found.restored \/ found.lint \/ found.smoke)
    <3>1. pc' = IF found.files # {} /\ RoundVerdict(answer) # "NEEDS_INFO"
                THEN "add" ELSE "record"
      BY <1>5, <2>3 DEF Settle
    <3>2. RoundVerdict(answer)' = RoundVerdict(answer) /\ Smokes' = Smokes /\ CannotRun' = CannotRun
      BY <2>1 DEF RoundVerdict, Smokes, CannotRun
    <3>3. \A p \in Paths \ found.files : tree[p] = head[p]
      BY <2>1 DEF RoundInv, Checked
    <3>4. CASE pc' = "add"
      BY <1>k, <2>1, <2>3, <3>1, <3>2, <3>3, <3>4 DEF RoundInv, NextRunAccepts, Checked, LintRed
    <3>5. CASE pc' = "record"
      BY <1>k, <2>1, <3>1, <3>2, <3>3, <3>5 DEF RoundInv, NextRunAccepts, Checked
    <3> QED BY <3>1, <3>4, <3>5
  <2> QED BY <2>2, <2>3
<1>6. CASE Add
  <2>1. UNCHANGED <<head, tree, st, smokes, untried>> /\ pc = "add"
    BY <1>6 DEF Add
  <2>2. CASE pc' = "commit"
    <3>1. UNCHANGED <<answer, found, bounces, how>>
      BY <1>6, <2>2 DEF Add, Round, End
    <3>2. RoundVerdict(answer)' = RoundVerdict(answer) /\ Smokes' = Smokes /\ CannotRun' = CannotRun
          /\ LintRed(tree, found.files)' = LintRed(tree, found.files)
      BY <2>1, <3>1 DEF RoundVerdict, Smokes, CannotRun, LintRed
    <3> QED BY <1>k, <2>1, <2>2, <3>1, <3>2 DEF RoundInv, NextRunAccepts, Checked
  <2>3. CASE pc' # "commit"
    <3>1. pc' = "idle" /\ how' = "none"
      BY <1>6, <2>3 DEF Add, End
    <3> QED BY <1>k, <1>n, <2>1, <3>1
  <2> QED BY <2>2, <2>3
<1>7. CASE Commit
  <2>1. UNCHANGED <<tree, st, smokes, answer, found, bounces>> /\ pc = "commit"
        /\ pc' \in {"record", "stopping"}
    BY <1>7 DEF Commit, Round, RaiseStop
  <2>2. CommittedWasChecked'
    <3>1. CASE head' # head
      BY <1>7, <3>1, CommitChecked
    <3>2. CASE head' = head
      <4>1. CASE untried' = untried
        BY <1>k, <2>1, <3>2, <4>1
      <4>2. CASE untried' # untried
        <5>1. /\ head' = [p \in Paths |-> IF p \in staged THEN tree[p] ELSE head[p]]
              /\ untried' = IF Asked(answer) \/ found.cut THEN untried \cup staged
                            ELSE untried \ staged
          BY <1>7, <4>2 DEF Commit
        <5>2. staged = found.files /\ (Smokes /\ CannotRun => found.cut)
          BY <2>1 DEF IndexInv, RoundInv
        <5>3. ASSUME NEW p \in New, smokes, head[p] = "broken" PROVE p \in untried'
          <6>1. p \in Paths /\ p \in untried
            BY <5>3 DEF RoundInv, CommittedWasChecked, Paths, Inside
          <6>2. p \in staged => tree[p] = "broken"
            BY <3>2, <5>1, <5>3, <6>1
          <6> QED BY <5>1, <5>2, <5>3, <6>1, <6>2 DEF Smokes, CannotRun
        <5> QED BY <2>1, <3>2, <5>3 DEF RoundInv, CommittedWasChecked
      <4> QED BY <4>1, <4>2
    <3> QED BY <3>1, <3>2
  <2>3. CASE pc' = "stopping"
    BY <1>n, <2>2, <2>3
  <2>4. CASE pc' = "record"
    <3>1. head' = [p \in Paths |-> IF p \in staged THEN tree[p] ELSE head[p]]
      BY <1>7, <2>4 DEF Commit, RaiseStop
    <3>2. staged = found.files /\ \A p \in Paths \ found.files : tree[p] = head[p]
      BY <2>1 DEF IndexInv, RoundInv, Checked
    <3>3. \A p \in Paths : tree'[p] = head'[p]
      BY <2>1, <3>1, <3>2
    <3> QED BY <2>2, <2>4, <3>3 DEF RoundInv, NextRunAccepts, Checked
  <2> QED BY <2>1, <2>3, <2>4
<1>8. CASE Record
  <2>1. UNCHANGED <<head, tree, staged, smokes, untried>> /\ pc = "record" /\ pc' = "idle"
    BY <1>8 DEF Record, End
  <2>2. st'.running = FALSE /\ st'.pending = Pending(RoundVerdict(answer))
    BY <1>0, <1>8 DEF Record, State
  <2>3. staged = {}
    BY <2>1 DEF IndexInv
  <2>4. \A p \in Paths \ st'.pending : tree[p] = head[p]
    BY <2>1, <2>2 DEF RoundInv, Pending
  <2>5. Dirty' \subseteq st'.pending
    BY <2>1, <2>3, <2>4 DEF Dirty
  <2> QED BY <1>k, <2>1, <2>2, <2>5 DEF RoundInv, NextRunAccepts, Checked
<1>9. CASE Stopped
  <2>1. UNCHANGED <<head, smokes, untried>> /\ pc' = "idle" /\ how' = "stopped"
    BY <1>9 DEF Stopped, End
  <2> QED BY <1>k, <1>n, <2>1
<1>10. CASE Killed
  <2>1. UNCHANGED <<head, smokes, untried>> /\ pc' = "idle" /\ how' = "none"
    BY <1>10 DEF Killed, End
  <2> QED BY <1>k, <1>n, <2>1
<1>11. CASE AuthorCleans
  <2>1. UNCHANGED <<head, smokes, untried, how>> /\ pc' = "idle" /\ ~Recorded
    BY <1>11 DEF AuthorCleans, RoundInv, NextRunAccepts
  <2> QED BY <1>k, <1>n, <2>1
<1>12. CASE AuthorCommits
  BY <1>12, MoveKeepsRound
<1>13. CASE UNCHANGED vars
  <2>1. /\ Smokes' = Smokes /\ CannotRun' = CannotRun /\ Dirty' = Dirty
        /\ RoundVerdict(answer)' = RoundVerdict(answer)
        /\ LintRed(tree, found.files)' = LintRed(tree, found.files)
    BY <1>13 DEF vars, Smokes, CannotRun, RoundVerdict, LintRed, Dirty
  <2> QED BY <1>k, <1>13, <2>1 DEF vars, RoundInv, NextRunAccepts
<1> QED
  BY <1>1, <1>2, <1>3, <1>4, <1>5, <1>6, <1>7, <1>8, <1>9, <1>10, <1>11, <1>12,
     <1>13 DEF Next

\* That in every state.
LEMMA RoundAlways == Spec => []RoundInv
<1>1. Init => RoundInv
  <2> SUFFICES ASSUME Init PROVE RoundInv
    OBVIOUS
  <2>1. \A p \in New : head[p] = "absent"
    BY Kinds DEF Init, Inside, Paths
  <2> QED BY <2>1 DEF Init, RoundInv, NextRunAccepts, CommittedWasChecked, Checked, Recorded,
                      Verdicts
<1> QED
  BY <1>1, RoundStep, TypedAlways, AuthorsAlways, IndexAlways, PTL DEF Spec

\* A round that was recorded, commit or question, leaves nothing in tree or index that makes the
\* next run's check_tree refuse it, whatever earlier rounds that were stopped or killed left.
THEOREM NextRunHolds == Spec => []NextRunAccepts
<1>1. RoundInv => NextRunAccepts
  BY DEF RoundInv
<1> QED
  BY <1>1, RoundAlways, PTL

\* No round commits a file of the reviewer's that lint has refused, or that the sandbox cannot
\* run, on its first or its second attempt: but for a round that did not try its files to the
\* end, whose reviewer asked or whose smoke report was cut short (smoke_run).
THEOREM CommittedChecked == Spec => []CommittedWasChecked
<1>1. RoundInv => CommittedWasChecked
  BY DEF RoundInv
<1> QED
  BY <1>1, RoundAlways, PTL

\* An approval has no blocking finding; and no uncovered acceptance criterion, unless the
\* reviewer said NEEDS_INFO and had no question (compute_verdict, _run_round).
THEOREM ApprovalCovered == Spec => []ApprovedIsCovered
<1> DEFINE LastInv == ApprovedIsCovered /\ (pc # "idle" => ~Recorded)
<1>1. Init => LastInv
  BY DEF Init, ApprovedIsCovered, Recorded, Verdicts
<1>2. Typed /\ LastInv /\ [Next]_vars => LastInv'
  <2> SUFFICES ASSUME Typed, LastInv, [Next]_vars PROVE LastInv'
    OBVIOUS
  <2> USE DEF ApprovedIsCovered, Recorded, Verdicts, Asked
  <2>1. CASE Record
    <3>1. answer' = answer /\ answer \in Answer /\ how' = RoundVerdict(answer) /\ pc' = "idle"
      BY <2>1 DEF Record, End, Typed, TypeOK
    <3> QED BY <3>1 DEF RoundVerdict, Verdict, Answer
  <2>2. CASE Check \/ SendBack
    <3>1. how' = how /\ pc # "idle"
      BY <2>2 DEF Check, SendBack, RaiseStop
    <3> QED BY <3>1
  <2>3. CASE Add \/ Killed \/ Stopped \/ Begin
    <3>1. how' \in {"none", "stopped"} \/ (pc # "idle" /\ how' = how)
      BY <2>3 DEF Add, Killed, Stopped, Begin, End
    <3> QED BY <3>1
  <2>4. CASE CleanUp \/ Spawn \/ Session \/ Smoke \/ Settle \/ Commit \/ AuthorCleans
             \/ AuthorCommits \/ UNCHANGED vars
    <3>1. UNCHANGED <<answer, how>> /\ (pc = "idle" => pc' = "idle")
      BY <2>4 DEF CleanUp, Spawn, Session, Smoke, Settle, Commit, AuthorCleans, AuthorCommits,
                  Round, RaiseStop, vars
    <3> QED BY <3>1
  <2> QED BY <2>1, <2>2, <2>3, <2>4 DEF Next
<1>3. LastInv => ApprovedIsCovered
  OBVIOUS
<1> QED
  BY <1>1, <1>2, <1>3, TypedAlways, PTL DEF Spec
=============================================================================
