-------------------------- MODULE MCSlotAllocation --------------------------
(* Small instances of SlotAllocation for TLC. *)
EXTENDS SlotAllocation, TLC

CONSTANTS ann, bob, chair, cut, wash

\* Both specialists cut, on the one chair of the branch; ann also washes, which needs no chair.
MCAssigned == {<<ann, cut>>, <<bob, cut>>, <<ann, wash>>} \cap (Staff \X Services)
MCBranchOf == [s \in Services |-> "centre"]
MCNeeds == [s \in Services |-> IF s = cut THEN {chair} ELSE {}]
MCDuration == [s \in Services |-> 1]
MCBufferBefore == [s \in Services |-> 0]
MCBufferAfter == [s \in Services |-> IF s = cut THEN 1 ELSE 0]

\* A legal catalogue in which the buffers of two neighbours add up to more than MAX_BUFFER_MINUTES.
MCWideBefore == [s \in Services |-> IF s = wash THEN 1 ELSE 0]
MCWideAfter == [s \in Services |-> IF s = cut THEN 1 ELSE 0]

MCSymmetry == Permutations(Bookings) \cup Permutations(Requests)
=============================================================================
