----------------------------- MODULE TopicMatch -----------------------------
(***************************************************************************)
(* topics.rs topic_matches, run one loop iteration per step on every topic *)
(* name and filter of a bounded length, against the reference: split both  *)
(* into levels and compare them.  Names and filters are not empty: the     *)
(* decoders of PUBLISH and SUBSCRIBE refuse empty ones, and nothing else.  *)
(***************************************************************************)
EXTENDS TopicName, FiniteSets, SequencesExt

CONSTANTS
    Characters,     \* what names are made of, "/" among them
    MaxName,        \* bound: length of a published name
    MaxFilter       \* bound: length of a filter

ASSUME CharactersAssumption == {"/", "+", "#"} \subseteq Characters

ASSUME BoundsAssumption == MaxName \in Nat /\ MaxFilter \in Nat

VARIABLES published, filter, locals

matchVars == <<published, filter, locals>>

Strings(n) == UNION {[1..k -> Characters] : k \in 1..n}

MatchInit ==
    /\ published \in Strings(MaxName)
    /\ filter \in Strings(MaxFilter)
    /\ locals = Start(published, filter)

Returned == locals.returned # "none"

Loop ==
    /\ ~Returned
    /\ locals' = Iterate(locals)
    /\ UNCHANGED <<published, filter>>

MatchNext == Loop

MatchSpec == MatchInit /\ [][MatchNext]_matchVars /\ WF_matchVars(MatchNext)

-----------------------------------------------------------------------------
(* The reference. *)

(* Where a string is cut: at its separators and at both ends.              *)
Cuts(str) == {0, Len(str) + 1} \cup {i \in DOMAIN str : str[i] = "/"}

(* The cuts before c. *)
Rank(str, c) == Cardinality({d \in Cuts(str) : d < c})

Nth(str, i) == CHOOSE c \in Cuts(str) : Rank(str, c) = i

(* The levels of a string: what stands between one cut and the next.       *)
Levels(str) ==
    [i \in 1..Rank(str, Len(str) + 1) |->
        SubSeq(str, Nth(str, i - 1) + 1, Nth(str, i) - 1)]

(* MQTT 3.1.1, 4.7.1: a last level "#" stands for any number of levels,    *)
(* the parent included, a level "+" for any one level; every other level   *)
(* is compared literally.                                                  *)
Matches(p, f) ==
    LET P == Levels(p)
        F == Levels(f)
        n == IF Last(F) = <<"#">> THEN Len(F) - 1 ELSE Len(F)
    IN /\ IF n < Len(F) THEN Len(P) >= n ELSE Len(P) = n
       /\ \A i \in 1..n : F[i] = <<"+">> \/ F[i] = P[i]

(* "#" is nowhere a level but the last one. *)
HashOnlyLast(f) ==
    LET F == Levels(f) IN \A i \in 1..(Len(F) - 1) : F[i] # <<"#">>

-----------------------------------------------------------------------------
(* Properties. *)

(* topic_matches agrees with the reference on every filter without a       *)
(* misplaced "#": empty levels, leading and trailing separators, wildcard  *)
(* characters inside longer levels and in published names included.        *)
AgreesWithReference ==
    Returned /\ HashOnlyLast(filter) =>
        (locals.returned = "true") = Matches(published, filter)

(* The loop ends: each iteration takes a level off the filter.             *)
Terminates == <>Returned

(* topics.rs, test_invalid_wildcard_placement_literal_treatment and        *)
(* test_hash_wildcard_literal_treatment: a "#" that is not the last level  *)
(* is an ordinary level, compared literally.                               *)
MisplacedHashIsLiteral ==
    Returned => (locals.returned = "true") = Matches(published, filter)
=============================================================================
