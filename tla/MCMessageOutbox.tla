--------------------------- MODULE MCMessageOutbox ---------------------------
(* Small instances of MessageOutbox for TLC. *)
EXTENDS MessageOutbox, TLC

MCShortLadder == <<"TELEGRAM", "SMS">>
MCFreeLadder == <<"TELEGRAM", "WHATSAPP">>
MCMaxScheduled == [k \in Kinds |-> IF k \in {"BOOKING_REMINDER", "REVIEW_REQUEST"} THEN 1 ELSE 2]
MCSymmetry == Permutations(Runs)
=============================================================================
