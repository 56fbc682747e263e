---------------------------- MODULE KnownIssues ----------------------------
(***************************************************************************)
(* issues.already_open: which of the issues a branch has recorded name all *)
(* the tests that fail now.  `named` is state.issues, oldest first, each   *)
(* reduced to the set of tests it names; the answer is a set of positions. *)
(***************************************************************************)
EXTENDS Naturals, SequencesExt

\* the tests the issues at the positions `at` name between them
NamedBy(named, at) == UNION {named[i] : i \in at}

Newer(named, i) == {j \in DOMAIN named : j > i}

\* (mutant) straight to the union
AloneNever(named, wanted) == {}
\* the issues that name every test by themselves
Alone(named, wanted) == {i \in DOMAIN named : wanted \subseteq named[i]}

\* what issue i is picked for: tests that no newer issue names
Adds(named, wanted, i) == (wanted \cap named[i]) \ NamedBy(named, Newer(named, i))

Picked(named, wanted) == {i \in DOMAIN named : Adds(named, wanted, i) # {}}

\* (mutant) thinned by whatever was picked, kept or not
KeptStrictly(named, wanted) ==
    {i \in Picked(named, wanted) :
       ~ (Adds(named, wanted, i) \subseteq
            NamedBy(named, {j \in Picked(named, wanted) : j < i}))}
\* thinned oldest first: an issue goes when the older ones kept name what it was picked for
Thinned(named, wanted, kept, i) ==
    IF i \in Picked(named, wanted) /\ ~ (Adds(named, wanted, i) \subseteq NamedBy(named, kept))
    THEN kept \cup {i} ELSE kept
Kept(named, wanted) ==
    LET upTo[i \in 0 .. Len(named)] ==
            IF i = 0 THEN {} ELSE Thinned(named, wanted, upTo[i - 1], i)
    IN  upTo[Len(named)]

AlreadyOpen(named, wanted) ==
    IF Alone(named, wanted) # {} THEN {Max(Alone(named, wanted))}
    ELSE IF wanted \subseteq NamedBy(named, DOMAIN named) THEN Kept(named, wanted)
    ELSE {}
=============================================================================
