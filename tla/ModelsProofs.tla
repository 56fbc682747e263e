---------------------------- MODULE ModelsProofs ----------------------------
(***************************************************************************)
(* The choice of models, for ladders of any length whose tiers' names      *)
(* contain one another in any way, for any author and any configuration.   *)
(***************************************************************************)
EXTENDS Models, WellFoundedInduction, TLAPS

\* ids and ladders of tiers; a tier's name contains itself
Typed ==
    /\ \E n \in 1 .. MaxTiers : ladder \in [1 .. n -> SUBSET (1 .. n)]
    /\ \A i \in DOMAIN ladder : i \in ladder[i]
    /\ author \in Ids(Top) /\ request \in Requests(Top)

\* The weakest tier of a set is one of it and no stronger than any other.
LEMMA MinOf ==
    ASSUME NEW S \in SUBSET Nat, S # {}
    PROVE  Min(S) \in S /\ \A y \in S : Min(S) <= y
<1>1. \E x \in S : \A y \in S : x <= y
  <2>1. PICK x \in S : \A y \in S : <<y, x>> \notin OpToRel(<, Nat)
    BY NatLessThanWellFounded, WFMin, Zenon
  <2>2. \A y \in S : ~(y < x)
    BY <2>1 DEF OpToRel
  <2>3. S \subseteq Int
    OBVIOUS
  <2>4. \A y \in S : x <= y
    BY <2>2, <2>3
  <2> QED BY <2>4
<1> QED BY <1>1 DEF Min

\* Of two numbers.
LEMMA OfTwo ==
    ASSUME NEW a \in Nat, NEW b \in Nat
    PROVE  /\ Min({a, b}) = IF a <= b THEN a ELSE b
           /\ Max({a, b}) = IF a >= b THEN a ELSE b
<1>1. \A m \in {a, b} : (\A y \in {a, b} : m <= y) <=> m = IF a <= b THEN a ELSE b
  OBVIOUS
<1>2. \A m \in {a, b} : (\A y \in {a, b} : m >= y) <=> m = IF a >= b THEN a ELSE b
  OBVIOUS
<1> QED BY <1>1, <1>2 DEF Min, Max

\* An id names no tier, or the weakest of those it contains.
LEMMA IndexOf ==
    ASSUME NEW n \in Nat, NEW id \in Ids(n)
    PROVE  /\ TierIndex(id) \in 0 .. n
           /\ id # {} => TierIndex(id) \in id
           /\ \A t \in id : TierIndex(id) <= t
           /\ (TierIndex(id) = 0) <=> (id = {})
<1>1. id \in SUBSET Nat /\ id \subseteq 1 .. n
  BY DEF Ids
<1>2. id # {} => Min(id) \in id /\ \A t \in id : Min(id) <= t
  BY <1>1, MinOf
<1> HIDE DEF Min
<1>3. TierIndex(id) = IF id = {} THEN 0 ELSE Min(id)
  BY DEF TierIndex
<1>4. CASE id = {}
  BY <1>3, <1>4
<1>5. CASE id # {}
  <2>1. TierIndex(id) = Min(id) /\ Min(id) \in id
    BY <1>2, <1>3, <1>5
  <2>2. Min(id) \in 1 .. n
    BY <2>1, <1>1
  <2> QED BY <1>2, <1>5, <2>1, <2>2
<1> QED BY <1>4, <1>5

\* Nothing a configuration can say leaves the types.
LEMMA TypedInvariant == Spec => []Typed
<1>1. Init => Typed
  BY ModelsAssumption DEF Init, Typed, Ladders, Ids, Requests, Top, Automatic
<1>2. Typed /\ [Reconfigure]_vars => Typed'
  BY DEF Typed, Reconfigure, vars, Top
<1> QED BY <1>1, <1>2, PTL DEF Spec

\* The tier chosen for a role: one of the ladder, next to the author's if that is known.
LEMMA ChosenIs ==
    ASSUME Typed
    PROVE  LET t == TierIndex(author)
           IN  /\ Top \in Nat \ {0} /\ t \in 0 .. Top
               /\ t = 0 => /\ Chosen("reviewer") = Top
                           /\ Chosen("diagnoser") = IF Top > 1 THEN Top - 1 ELSE 1
               /\ t > 0 => /\ Chosen("reviewer") = IF t < Top THEN t + 1 ELSE Top
                           /\ Chosen("diagnoser") = IF t > 1 THEN t - 1 ELSE 1
<1> DEFINE t == TierIndex(author)
<1>1. Top \in Nat \ {0}
  BY ModelsAssumption DEF Typed, Top
<1>2. t \in 0 .. Top
  BY <1>1, IndexOf DEF Typed
<1> HIDE DEF t
<1>3. Max({1, Top - 1}) = IF Top > 1 THEN Top - 1 ELSE 1
  BY <1>1, OfTwo
<1>4. t > 0 => /\ Min({Top, t + 1}) = IF t < Top THEN t + 1 ELSE Top
               /\ Max({1, t - 1}) = IF t > 1 THEN t - 1 ELSE 1
  BY <1>1, <1>2, OfTwo
<1>5. /\ Chosen("reviewer") = IF t = 0 THEN Top ELSE Min({Top, t + 1})
      /\ Chosen("diagnoser") = IF t = 0 THEN Max({1, Top - 1}) ELSE Max({1, t - 1})
  BY DEF Chosen, t
<1>6. /\ t = 0 => /\ Chosen("reviewer") = Top
                  /\ Chosen("diagnoser") = IF Top > 1 THEN Top - 1 ELSE 1
      /\ t > 0 => /\ Chosen("reviewer") = IF t < Top THEN t + 1 ELSE Top
                  /\ Chosen("diagnoser") = IF t > 1 THEN t - 1 ELSE 1
  BY <1>2, <1>3, <1>4, <1>5
<1> QED BY <1>1, <1>2, <1>6 DEF t

\* With "auto" the reviewer is one tier above the author, as far as the ladder goes, when the
\* name of the author's tier contains no weaker one's; it is never higher than that, and the
\* diagnoser is below it (resolve, tier_index), whatever the ladder and the author's model.
THEOREM RolesApartHolds == Spec => []RolesApart
<1>1. ASSUME Typed, NEW tier \in 1 .. Top, author = ladder[tier]
      PROVE  /\ Min(ladder[tier]) = tier => Chosen("reviewer") = Min({Top, tier + 1})
             /\ Chosen("reviewer") <= Min({Top, tier + 1})
  <2> DEFINE found == TierIndex(author)
  <2>1. Top \in Nat \ {0}
    BY <1>1, ChosenIs
  <2>2. author \in Ids(Top) /\ tier \in author
    BY <1>1, <2>1 DEF Typed, Top
  <2>3. found \in 1 .. tier
    BY <1>1, <2>1, <2>2, IndexOf
  <2>4. Min(ladder[tier]) = tier => found = tier
    BY <1>1, <2>2 DEF TierIndex
  <2>5. Chosen("reviewer") = IF found < Top THEN found + 1 ELSE Top
    BY <1>1, <2>1, <2>3, ChosenIs
  <2>6. Min({Top, tier + 1}) = IF Top <= tier + 1 THEN Top ELSE tier + 1
    BY <1>1, <2>1, OfTwo
  <2> HIDE DEF found
  <2> QED BY <1>1, <2>1, <2>3, <2>4, <2>5, <2>6
<1>2. Typed /\ Top > 1 => Chosen("diagnoser") < Chosen("reviewer")
  BY ChosenIs
<1>3. Typed => RolesApart
  BY <1>1, <1>2 DEF RolesApart
<1> QED BY <1>3, TypedInvariant, PTL

\* An automatic fallback tries tiers below the chosen one only, strongest first, and every one
\* of them if the chosen tier's name contains no weaker one's (resolve, _fallback).
THEOREM FallbackIsBelowHolds == Spec => []FallbackIsBelow
<1>1. ASSUME Typed, request.model = Automatic, request.fallback = Automatic, NEW role \in Roles
      PROVE  LET chosen == Chosen(role)
                 tried  == Fallback(role)
             IN  /\ \A k \in DOMAIN tried : tried[k] < chosen /\ (k > 1 => tried[k] < tried[k - 1])
                 /\ Min(ladder[chosen]) = chosen => Len(tried) = chosen - 1
  <2> DEFINE chosen == Chosen(role)
             found  == TierIndex(ladder[chosen])
  <2>1. Top \in Nat \ {0} /\ chosen \in 1 .. Top
    BY <1>1, ChosenIs DEF Roles
  <2>2. ladder[chosen] \in Ids(Top) /\ chosen \in ladder[chosen]
    BY <1>1, <2>1 DEF Typed, Top, Ids
  <2>3. found \in 1 .. chosen
    BY <2>1, <2>2, IndexOf
  <2>4. Fallback(role) = [k \in 1 .. found - 1 |-> found - k]
    <3>1. Model(role) = ladder[chosen]
      BY <1>1 DEF Model
    <3>2. found # 0
      BY <2>1, <2>3
    <3> QED BY <1>1, <3>1, <3>2 DEF Fallback
  <2>5. Min(ladder[chosen]) = chosen => found = chosen
    BY <2>2 DEF TierIndex
  <2> HIDE DEF chosen, found
  <2>6. \A k \in 1 .. found - 1 :
            Fallback(role)[k] < chosen /\ (k > 1 => Fallback(role)[k] < Fallback(role)[k - 1])
    BY <2>1, <2>3, <2>4
  <2>7. Len(Fallback(role)) = found - 1
    BY <2>1, <2>3, <2>4
  <2> QED BY <2>1, <2>4, <2>5, <2>6, <2>7 DEF chosen
<1>2. Typed => FallbackIsBelow
  BY <1>1 DEF FallbackIsBelow
<1> QED BY <1>2, TypedInvariant, PTL
=============================================================================
