----------------------------- MODULE TopicName -----------------------------
(***************************************************************************)
(* topics.rs topic_matches and LevelIterator.  A topic name or filter is a *)
(* sequence of characters, "/" the separator: which characters a level     *)
(* consists of matters only for telling levels apart, so a handful do.     *)
(***************************************************************************)
EXTENDS Integers, Sequences

(* The end of the levels: no level contains a separator. *)
NoLevel == <<"/">>

(* LevelIterator::new *)
LevelIterator(str) == [remaining |-> str, pending_empty |-> FALSE]

(* str.find('/') of a string that has one. *)
FirstSlash(str) ==
    CHOOSE i \in DOMAIN str : str[i] = "/" /\ \A j \in 1..(i - 1) : str[j] # "/"

(* LevelIterator::next: the level it yields, NoLevel at the end.           *)
Level(it) ==
    IF it.pending_empty THEN <<>>
    ELSE IF it.remaining = <<>> THEN NoLevel
    ELSE IF \E i \in DOMAIN it.remaining : it.remaining[i] = "/"
    THEN SubSeq(it.remaining, 1, FirstSlash(it.remaining) - 1)
    ELSE it.remaining

(* Mutant: a trailing separator yields no last, empty level. *)
Advance_NoTrailing(it) ==
    IF it.pending_empty \/ it.remaining = <<>>
    THEN [it EXCEPT !.pending_empty = FALSE]
    ELSE IF \E i \in DOMAIN it.remaining : it.remaining[i] = "/"
    THEN [it EXCEPT !.remaining = SubSeq(it.remaining, FirstSlash(it.remaining) + 1,
                                         Len(it.remaining))]
    ELSE [it EXCEPT !.remaining = <<>>]

(* Mutant: pending_empty is not reset. *)
Advance_StaysPending(it) ==
    IF it.pending_empty \/ it.remaining = <<>> THEN it
    ELSE IF \E i \in DOMAIN it.remaining : it.remaining[i] = "/"
    THEN LET rest == SubSeq(it.remaining, FirstSlash(it.remaining) + 1,
                            Len(it.remaining))
         IN [remaining |-> rest, pending_empty |-> rest = <<>>]
    ELSE [it EXCEPT !.remaining = <<>>]

(* LevelIterator::next: the iterator it leaves.                            *)
Advance(it) ==
    IF it.pending_empty \/ it.remaining = <<>>
    THEN [it EXCEPT !.pending_empty = FALSE]
    ELSE IF \E i \in DOMAIN it.remaining : it.remaining[i] = "/"
    THEN LET rest == SubSeq(it.remaining, FirstSlash(it.remaining) + 1,
                            Len(it.remaining))
         IN [remaining |-> rest, pending_empty |-> rest = <<>>]
    ELSE [it EXCEPT !.remaining = <<>>]

(* The locals of topic_matches: two iterators, and what it has returned.   *)
Start(published, filter) ==
    [pub |-> LevelIterator(published), sub |-> LevelIterator(filter),
     returned |-> "none"]

(* One iteration of the loop. Looking whether "#" is the last level takes  *)
(* the next level off the filter, also when it is not.                     *)
Iterate(m) ==
    LET pub_level == Level(m.pub)
        sub_level == Level(m.sub)
        sub == Advance(m.sub)
        hash == sub_level = <<"#">>
        subNext == IF hash THEN Advance(sub) ELSE sub
        returned ==
            IF hash /\ Level(sub) = NoLevel THEN "true"
            ELSE IF sub_level = NoLevel
            THEN IF pub_level = NoLevel THEN "true" ELSE "false"
            ELSE IF pub_level = NoLevel THEN "false"
            ELSE IF sub_level # <<"+">> /\ pub_level # sub_level THEN "false"
            ELSE "none"
    IN [pub |-> Advance(m.pub), sub |-> subNext, returned |-> returned]

(* topic_matches: at most one iteration more than the filter has levels.   *)
topic_matches(published, filter) ==
    LET run[n \in Nat] ==
            IF n = 0 THEN Start(published, filter)
            ELSE IF run[n - 1].returned # "none" THEN run[n - 1]
            ELSE Iterate(run[n - 1])
    IN run[Len(filter) + 2].returned = "true"
=============================================================================
