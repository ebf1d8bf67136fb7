------------------------------ MODULE Vectors ------------------------------
(***************************************************************************)
(* What the loops of HeaplessVec (heapless.rs) come to, on the sequence of *)
(* the items in use.  Module HeaplessVec has the loops themselves.         *)
(***************************************************************************)
EXTENDS Integers, Sequences, SequencesExt

(* retain: the items that are in K, in their order. *)
Kept(q, K) ==
    LET kept[n \in 0..Len(q)] ==
            IF n = 0 THEN <<>>
            ELSE IF q[n] \in K THEN Append(kept[n - 1], q[n]) ELSE kept[n - 1]
    IN kept[Len(q)]

(* Position and remove(position) of the first x, as both registries do it. *)
RemoveElement(q, x) ==
    IF x \in Range(q)
    THEN RemoveAt(q, CHOOSE i \in DOMAIN q :
                        q[i] = x /\ \A j \in DOMAIN q : q[j] = x => i <= j)
    ELSE q
=============================================================================
