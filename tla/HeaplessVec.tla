---------------------------- MODULE HeaplessVec ----------------------------
(***************************************************************************)
(* HeaplessVec (heapless.rs): an array of N items and a length, every      *)
(* queue and every registry of the broker.  A loop that moves items runs   *)
(* one iteration per action; `&mut self' keeps other calls out meanwhile.  *)
(* HeaplessString is the same with bytes for items; its try_from, push_str *)
(* and write_str are actions here too.                                     *)
(***************************************************************************)
EXTENDS Vectors

CONSTANTS
    N,                              \* the capacity
    Items, Default,                 \* items, and what a slot has when unused
    LENGTHS,                        \* values of the length: 2^16, 2^8 for a string
    Ok, PushError, None, Panicked   \* results that are no item

(* Nothing in the code ties N to the width of the length. *)
ASSUME CapacityAssumption == N \in Nat /\ LENGTHS \in Nat /\ N < LENGTHS

VARIABLES
    data, length,       \* the array, from 0, and how much of it is in use
    last,               \* the call, its argument and what it returns
    pc,                 \* "idle", or the loop that runs: "shift", "retain"
    i, write_idx,       \* the loop's positions
    keep                \* what the predicate of retain accepts

loop == <<pc, i, write_idx, keep>>
vars == <<data, length, last, loop>>

Slices == UNION {[1..n -> Items] : n \in 0..(N + 1)}

-----------------------------------------------------------------------------
(* Calls without a loop, or whose loop fills slots not in use. *)

(* data with the items of s in the slots from `from' on. *)
Filled(from, s) ==
    [j \in DOMAIN data |-> IF j \in from..(from + Len(s) - 1) THEN s[j - from + 1] ELSE data[j]]

Push(x) ==
    /\ pc = "idle"
    /\ IF length >= N THEN last' = <<"push", x, PushError>> /\ UNCHANGED <<data, length>>
       ELSE /\ data' = [data EXCEPT ![length] = x]
            /\ length' = length + 1
            /\ last' = <<"push", x, Ok>>
    /\ UNCHANGED loop

(* Mutant: the room for the slice is not checked against what is in use. *)
Fits_Alone(s) == Len(s) <= N

Fits(s) == length + Len(s) <= N

(* HeaplessString::push_str likewise. *)
ExtendFromSlice(s) ==
    /\ pc = "idle"
    /\ IF ~Fits(s) THEN last' = <<"extend", s, PushError>> /\ UNCHANGED <<data, length>>
       ELSE /\ data' = Filled(length, s)
            /\ length' = (length + Len(s)) % LENGTHS
            /\ last' = <<"extend", s, Ok>>
    /\ UNCHANGED loop

(* HeaplessString::try_from, assigned. *)
TryFrom(s) ==
    /\ pc = "idle"
    /\ IF Len(s) > N THEN last' = <<"try_from", s, PushError>> /\ UNCHANGED <<data, length>>
       ELSE /\ data' = [j \in DOMAIN data |-> IF j < Len(s) THEN s[j + 1] ELSE Default]
            /\ length' = Len(s) % LENGTHS
            /\ last' = <<"try_from", s, Ok>>
    /\ UNCHANGED loop

(* write_str of HeaplessString: what does not fit is left out, silently.   *)
WriteStr(s) ==
    LET to_copy == IF Len(s) < N - length THEN Len(s) ELSE N - length IN
    /\ pc = "idle"
    /\ data' = Filled(length, SubSeq(s, 1, to_copy))
    /\ length' = (length + to_copy) % LENGTHS
    /\ last' = <<"write_str", s, Ok>>
    /\ UNCHANGED loop

(* The items stay where they are. *)
Clear ==
    /\ pc = "idle"
    /\ length' = 0 /\ last' = <<"clear", None, Ok>>
    /\ UNCHANGED <<data, loop>>

Pop ==
    /\ pc = "idle"
    /\ IF length = 0 THEN last' = <<"pop", None, None>> /\ UNCHANGED <<data, length>>
       ELSE /\ length' = length - 1
            /\ last' = <<"pop", None, data[length - 1]>>
            /\ data' = [data EXCEPT ![length - 1] = Default]
    /\ UNCHANGED loop

-----------------------------------------------------------------------------
(* remove and dequeue_front: the items behind the one taken move down.     *)

RemoveItem(index) ==
    /\ pc = "idle"
    /\ IF index >= length THEN last' = <<"remove", index, Panicked>> /\ UNCHANGED loop
       ELSE /\ pc' = "shift" /\ i' = index /\ last' = <<"remove", index, Ok>>
            /\ UNCHANGED <<write_idx, keep>>
    /\ UNCHANGED <<data, length>>

DequeueFront ==
    /\ pc = "idle"
    /\ IF length = 0 THEN last' = <<"dequeue_front", None, None>> /\ UNCHANGED loop
       ELSE /\ pc' = "shift" /\ i' = 0 /\ last' = <<"dequeue_front", None, data[0]>>
            /\ UNCHANGED <<write_idx, keep>>
    /\ UNCHANGED <<data, length>>

(* Mutant: the range ends one short. *)
InShift_Short == i + 1 < length - 1

InShift == i < length - 1

ShiftStep ==
    /\ pc = "shift" /\ InShift
    /\ data' = [data EXCEPT ![i] = data[i + 1]]
    /\ i' = i + 1
    /\ UNCHANGED <<length, last, pc, write_idx, keep>>

ShiftDone ==
    /\ pc = "shift" /\ ~InShift
    /\ length' = length - 1
    /\ pc' = "idle" /\ i' = 0
    /\ UNCHANGED <<data, last, write_idx, keep>>

-----------------------------------------------------------------------------
(* retain: read_idx runs ahead of write_idx. *)

Retain(K) ==
    /\ pc = "idle"
    /\ pc' = "retain" /\ i' = 0 /\ write_idx' = 0 /\ keep' = K
    /\ last' = <<"retain", K, Ok>>
    /\ UNCHANGED <<data, length>>

RetainStep ==
    /\ pc = "retain" /\ i < length
    /\ IF data[i] \in keep
       THEN data' = [data EXCEPT ![write_idx] = data[i]] /\ write_idx' = write_idx + 1
       ELSE UNCHANGED <<data, write_idx>>
    /\ i' = i + 1
    /\ UNCHANGED <<length, last, pc, keep>>

RetainDone ==
    /\ pc = "retain" /\ i = length
    /\ length' = write_idx % LENGTHS
    /\ pc' = "idle" /\ i' = 0 /\ write_idx' = 0 /\ keep' = {}
    /\ UNCHANGED <<data, last>>

-----------------------------------------------------------------------------

Init ==
    /\ data = [j \in 0..(N - 1) |-> Default] /\ length = 0
    /\ last = <<None, None, None>>
    /\ pc = "idle" /\ i = 0 /\ write_idx = 0 /\ keep = {}

Next ==
    \/ \E x \in Items : Push(x)
    \/ \E s \in Slices : ExtendFromSlice(s) \/ TryFrom(s) \/ WriteStr(s)
    \/ Clear \/ Pop \/ DequeueFront
    \/ \E index \in 0..N : RemoveItem(index)
    \/ \E K \in SUBSET Items : Retain(K)
    \/ ShiftStep \/ ShiftDone \/ RetainStep \/ RetainDone

Spec == Init /\ [][Next]_vars

-----------------------------------------------------------------------------
(* Properties. *)

(* The length never exceeds the array, with the narrow type it is kept in, *)
(* and the loops' positions stay inside of it.                             *)
TypeOK ==
    /\ data \in [0..(N - 1) -> Items \cup {Default}]
    /\ length \in 0..N
    /\ pc \in {"idle", "shift", "retain"}
    /\ i \in 0..N /\ write_idx \in 0..i /\ keep \subseteq Items

(* as_slice of the slots from j up to k. *)
Slots(j, k) == [n \in 1..(k - j) |-> data[j + n - 1]]

(* The sequence the array stands for.  A loop that runs has taken effect   *)
(* already: what it still has to move stands where it will be moved to.    *)
Contents ==
    CASE pc = "idle" -> Slots(0, length)
      [] pc = "shift" -> Slots(0, i) \o Slots(i + 1, length)
      [] pc = "retain" -> Slots(0, write_idx) \o Kept(Slots(i, length), keep)

Sequence == INSTANCE BoundedSeq WITH seq <- Contents

(* The array with its length, the loops that move items in place and the   *)
(* slots that keep old items behind the length implement a bounded         *)
(* sequence: nothing is lost, doubled, reordered or brought back.          *)
ImplementsSequence == Sequence!Spec
=============================================================================
