----------------------------- MODULE BoundedSeq -----------------------------
(***************************************************************************)
(* What HeaplessVec and HeaplessString (heapless.rs) promise: a sequence   *)
(* of at most N items, each operation done at once or refused with the     *)
(* sequence as it was.                                                     *)
(***************************************************************************)
EXTENDS Vectors

CONSTANTS N, Items, Ok, PushError, None, Panicked

VARIABLES
    seq,            \* the items
    last            \* the last call, its argument and what it returned

vars == <<seq, last>>

(* Sequences of up to N + 1 items, for the calls that take several. *)
Slices == UNION {[1..n -> Items] : n \in 0..(N + 1)}

(* The call puts s in place of the sequence, if s fits. *)
Store(call, arg, s) ==
    IF Len(s) <= N THEN last' = <<call, arg, Ok>> /\ seq' = s
    ELSE last' = <<call, arg, PushError>> /\ UNCHANGED seq

(* The call takes an item out, which one and what is left the two say.     *)
Take(call, Item(_), Rest(_)) ==
    IF seq = <<>> THEN last' = <<call, None, None>> /\ UNCHANGED seq
    ELSE last' = <<call, None, Item(seq)>> /\ seq' = Rest(seq)

Push(x) == Store("push", x, Append(seq, x))
ExtendFromSlice(s) == Store("extend", s, seq \o s)
TryFrom(s) == Store("try_from", s, s)
WriteStr(s) == Store("write_str", s, SubSeq(seq \o s, 1, Min({N, Len(seq \o s)})))
Clear == Store("clear", None, <<>>)
Pop == Take("pop", Last, Front)
DequeueFront == Take("dequeue_front", Head, Tail)
Retain(K) == Store("retain", K, Kept(seq, K))
RemoveItem(index) ==
    IF index < Len(seq) THEN Store("remove", index, RemoveAt(seq, index + 1))
    ELSE last' = <<"remove", index, Panicked>> /\ UNCHANGED seq

Init == seq = <<>> /\ last = <<None, None, None>>

Next ==
    \/ \E x \in Items : Push(x)
    \/ \E s \in Slices : ExtendFromSlice(s) \/ TryFrom(s) \/ WriteStr(s)
    \/ Clear \/ Pop \/ DequeueFront
    \/ \E K \in SUBSET Items : Retain(K)
    \/ \E index \in 0..N : RemoveItem(index)

Spec == Init /\ [][Next]_vars
=============================================================================
