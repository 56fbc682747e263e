------------------------------- MODULE Models -------------------------------
(***************************************************************************)
(* models.resolve: which model reviews, which one diagnoses, and what      *)
(* either falls back to.  A ladder's tiers are numbered from the weakest.  *)
(* All that matters of a model's id is which tier names it contains, so an *)
(* id is a set of tiers; a tier's own name contains itself, and may        *)
(* contain the name of another ("gpt-5" is in "gpt-5-mini").               *)
(***************************************************************************)
EXTENDS Naturals, Sequences, FiniteSetsExt

CONSTANTS
    MaxTiers   \* bound: tiers of a ladder

ASSUME ModelsAssumption == MaxTiers \in Nat \ {0}

VARIABLES
    ladder,   \* for each tier, the tiers whose names its own name contains
    author,   \* the Developer's model; the empty set: not given, not on the ladder, or foreign
    request   \* [review] and [validate] model and fallback_model, and what they ask for

vars == <<ladder, author, request>>

Automatic == "auto"
Given == "given"
Roles == {"reviewer", "diagnoser"}
Top == Len(ladder)

\* the first tier, weakest first, whose name is in the id; 0: none
TierIndex(id) == IF id = {} THEN 0 ELSE Min(id)

\* (mutant) one above for both, as far as there is one
ChosenAbove(role) ==
    IF TierIndex(author) = 0 THEN IF role = "reviewer" THEN Top ELSE Max({1, Top - 1})
    ELSE Min({Top, TierIndex(author) + 1})
\* the tier of a role whose model is "auto"
Chosen(role) ==
    IF TierIndex(author) = 0 THEN IF role = "reviewer" THEN Top ELSE Max({1, Top - 1})
    ELSE IF role = "reviewer" THEN Min({Top, TierIndex(author) + 1})
    ELSE Max({1, TierIndex(author) - 1})

Model(role) == IF request.model = Automatic THEN ladder[Chosen(role)] ELSE request.id

\* (mutant) the model itself first
FallbackFrom(role) ==
    IF request.fallback # Automatic \/ TierIndex(Model(role)) = 0 THEN <<>>
    ELSE [k \in 1 .. TierIndex(Model(role)) |-> TierIndex(Model(role)) + 1 - k]
\* the tiers below the model found on the ladder again, strongest first
Fallback(role) ==
    IF request.fallback # Automatic \/ TierIndex(Model(role)) = 0 THEN <<>>
    ELSE [k \in 1 .. TierIndex(Model(role)) - 1 |-> TierIndex(Model(role)) - k]

\* no two tiers have one name, and containing is transitive
Ladders ==
    UNION {{l \in [1 .. n -> SUBSET (1 .. n)] :
              \A i \in 1 .. n : i \in l[i] /\ \A j \in l[i] \ {i} : l[j] \subseteq l[i] \ {i}} :
           n \in 1 .. MaxTiers}
Ids(n) == SUBSET (1 .. n)
Requests(n) == [model : {Automatic, Given}, fallback : {Automatic, Given}, id : Ids(n)]

Init ==
    /\ ladder \in Ladders
    /\ author = {} /\ request = [model |-> Automatic, fallback |-> Automatic, id |-> {}]

\* another change.md, another configuration
Reconfigure ==
    /\ author' \in Ids(Len(ladder)) /\ request' \in Requests(Len(ladder))
    /\ UNCHANGED ladder

Spec == Init /\ [][Reconfigure]_vars

-----------------------------------------------------------------------------
(* Properties *)

\* With "auto" a second, stronger opinion: the reviewer is one tier above the author, or at the
\* top with it, and the diagnoser always below the reviewer if the ladder has two tiers
\* (resolve's docstring).  The author's tier is the one whose name its id carries; tier_index
\* takes the weakest name it finds there, so this is promised to an author whose tier's name
\* contains no weaker one's.  For any other the reviewer may be below the author, never above
\* the tier the docstring says.
RolesApart ==
    request.model = Automatic =>
        /\ \A tier \in 1 .. Top : author = ladder[tier] =>
              /\ Min(ladder[tier]) = tier => Chosen("reviewer") = Min({Top, tier + 1})
              /\ Chosen("reviewer") <= Min({Top, tier + 1})
        /\ Top > 1 => Chosen("diagnoser") < Chosen("reviewer")

\* An automatic fallback tries only tiers below the chosen one, strongest first, and all of them
\* when no tier's name contains a weaker one's (resolve: "the tiers below the chosen one"); the
\* tier is looked up again by its name, so an overlap may cost tiers, never add the chosen one.
FallbackIsBelow ==
    request.model = Automatic /\ request.fallback = Automatic =>
        \A role \in Roles :
            LET chosen == Chosen(role)
                tried  == Fallback(role)
            IN  /\ \A k \in DOMAIN tried : tried[k] < chosen /\ (k > 1 => tried[k] < tried[k - 1])
                /\ Min(ladder[chosen]) = chosen => Len(tried) = chosen - 1
=============================================================================
