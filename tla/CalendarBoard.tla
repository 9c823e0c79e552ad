---------------------------- MODULE CalendarBoard ----------------------------
(***************************************************************************)
(* A visit is dragged across the dashboard's calendar                       *)
(* (src/src/features/dashboard/bookings/use-calendar-drag.ts): the page     *)
(* draws the rows it was rendered with, puts a dropped visit where it was   *)
(* dropped while the server is asked and the page is loaded again, and      *)
(* other people change the rows meanwhile.  A place is a column (a          *)
(* specialist, or a date of the week) and a time; DayPicture has the        *)
(* drawing of a column.                                                     *)
(***************************************************************************)
EXTENDS Integers

CONSTANTS
    Blocks,            \* visits on the calendar
    Places,            \* <<column, time>>
    MaxAgendaChanges,  \* bound on changes of the rows
    MaxRefreshes       \* bound on loads of the page that wait for their turn

ASSUME CalendarBoardAssumption ==
    Blocks \subseteq Nat \ {0} /\ {MaxAgendaChanges, MaxRefreshes} \subseteq Nat

VARIABLES
    agenda,     \* Booking rows: whether they are drawn and movable, their place and revision
    board,      \* the rows that the page was rendered with
    dragged,    \* activeRef: the visit that is dragged, and whether its pointer was lost
    dropped,    \* pendingMove
    moveCall,   \* the server action of a drop
    refreshes,  \* loads of the page that were asked for, the first with what it read
    answered,   \* history: the revision of the last move the page knows to be done
    replaced    \* history: visits whose move another drop replaced before the page was loaded

boardVars == <<agenda, board, dragged, dropped, moveCall, refreshes, answered, replaced>>

NoBlock == 0
Column(place) == place[1]
NoDrag == [block |-> NoBlock]
NoDrop == [block |-> NoBlock]
NoCall == [pc |-> "none"]
AgendaRow == [status : {"MOVABLE", "HISTORY"}, place : Places, rev : 0 .. MaxAgendaChanges]

CalendarBoardTypeOK ==
    /\ agenda \in [Blocks -> AgendaRow] /\ board \in [Blocks -> AgendaRow]
    /\ dragged \in {NoDrag} \cup [block : Blocks, lost : BOOLEAN]
    /\ dropped \in {NoDrop} \cup [block : Blocks, place : Places]
    /\ moveCall \in {NoCall} \cup [pc : {"sent", "done", "refused"}, block : Blocks, place : Places,
                                   rev : 0 .. MaxAgendaChanges]
    /\ refreshes \in [asked : 0 .. MaxRefreshes, read : [Blocks -> AgendaRow] \cup {<<>>}]
    /\ answered \in [Blocks -> 0 .. MaxAgendaChanges] /\ replaced \subseteq Blocks

CalendarBoardInit ==
    /\ agenda \in [Blocks -> {row \in AgendaRow : row.status = "MOVABLE" /\ row.rev = 0}]
    /\ board = agenda
    /\ dragged = NoDrag /\ dropped = NoDrop /\ moveCall = NoCall
    /\ refreshes = [asked |-> 0, read |-> <<>>]
    /\ answered = [v \in Blocks |-> 0] /\ replaced = {}

---------------------------------------------------------------------------
Submitting == moveCall # NoCall
Refreshing == refreshes.asked > 0
NextRev == 1 + CHOOSE n \in 0 .. MaxAgendaChanges : /\ \E v \in Blocks : agenda[v].rev = n
                                                    /\ \A v \in Blocks : agenda[v].rev <= n
Changeable(v) == agenda[v].status = "MOVABLE" /\ NextRev <= MaxAgendaChanges

(* Altered: the drop is forgotten as soon as the server has answered *)
WhileSubmitting == IF Submitting THEN dropped ELSE NoDrop

(* inFlightMove, and where applyPendingMove draws a visit *)
InFlightMove == IF Submitting \/ Refreshing THEN dropped ELSE NoDrop
Drawn(v) == IF InFlightMove.block = v THEN InFlightMove.place ELSE board[v].place

(* A finger does not drag; nor can what is history be dragged.              *)
PointerDown(v) ==
    /\ ~Submitting /\ board[v].status = "MOVABLE"
    /\ dragged' = [block |-> v, lost |-> FALSE]
    /\ UNCHANGED <<agenda, board, dropped, moveCall, refreshes, answered, replaced>>

(* A click, or a drag that ends where it began *)
PointerUpInPlace ==
    /\ dragged # NoDrag /\ ~dragged.lost
    /\ dragged' = NoDrag
    /\ UNCHANGED <<agenda, board, dropped, moveCall, refreshes, answered, replaced>>

(* The pointer moved to another place, on the grid, and was released there. *)
Drop(place) ==
    /\ dragged # NoDrag /\ ~dragged.lost
    /\ place # Drawn(dragged.block)
    /\ dropped' = [block |-> dragged.block, place |-> place]
    /\ moveCall' = [pc |-> "sent", block |-> dragged.block, place |-> place, rev |-> 0]
    /\ dragged' = NoDrag
    /\ replaced' = IF InFlightMove # NoDrop THEN replaced \cup {InFlightMove.block} ELSE replaced
    /\ UNCHANGED <<agenda, board, refreshes, answered>>

---------------------------------------------------------------------------
(***************************************************************************)
(* moveBooking: rescheduleBusinessBooking moves whatever the row says by    *)
(* then, or refuses.  SlotAllocation has its transaction.                   *)
(***************************************************************************)
ServerMoves ==
    /\ moveCall # NoCall /\ moveCall.pc = "sent"
    /\ \/ LET v == moveCall.block
          IN  /\ Changeable(v)
              /\ agenda' = [agenda EXCEPT ![v].place = moveCall.place, ![v].rev = NextRev]
              /\ moveCall' = [moveCall EXCEPT !.pc = "done", !.rev = NextRev]
       \/ moveCall' = [moveCall EXCEPT !.pc = "refused"] /\ UNCHANGED agenda
    /\ UNCHANGED <<board, dragged, dropped, refreshes, answered, replaced>>

MoveDone ==
    /\ moveCall # NoCall /\ moveCall.pc = "done" /\ refreshes.asked < MaxRefreshes
    /\ moveCall' = NoCall
    /\ refreshes' = [refreshes EXCEPT !.asked = @ + 1]
    /\ answered' = [answered EXCEPT ![moveCall.block] = moveCall.rev]
    /\ UNCHANGED <<agenda, board, dragged, dropped, replaced>>

(* The visit goes back to where it was, also if only the answer was lost.   *)
MoveRefused ==
    /\ moveCall # NoCall
    /\ moveCall' = NoCall /\ dropped' = NoDrop
    /\ UNCHANGED <<agenda, board, dragged, refreshes, answered, replaced>>

(* Other people, the customer among them *)
OthersChange(v) ==
    /\ Changeable(v)
    /\ \/ \E place \in Places : agenda' = [agenda EXCEPT ![v].place = place, ![v].rev = NextRev]
       \/ agenda' = [agenda EXCEPT ![v].status = "HISTORY", ![v].rev = NextRev]
    /\ UNCHANGED <<board, dragged, dropped, moveCall, refreshes, answered, replaced>>

---------------------------------------------------------------------------
(***************************************************************************)
(* router.refresh: the page is loaded again (getDaySchedule,                *)
(* getWeekSchedule), one load after the other.                              *)
(***************************************************************************)
RefreshReads ==
    /\ Refreshing /\ refreshes.read = <<>>
    /\ refreshes' = [refreshes EXCEPT !.read = agenda]
    /\ UNCHANGED <<agenda, board, dragged, dropped, moveCall, answered, replaced>>

(* A block that is dragged while it appears in another column is mounted    *)
(* anew, and its pointer is lost: the drag rests until a block is grabbed.  *)
RefreshShown ==
    /\ Refreshing /\ refreshes.read # <<>>
    /\ board' = refreshes.read
    /\ refreshes' = [asked |-> refreshes.asked - 1, read |-> <<>>]
    /\ dragged' = IF dragged = NoDrag THEN NoDrag
                  ELSE LET v == dragged.block
                       IN  [dragged EXCEPT !.lost = @ \/ Column(refreshes.read[v].place) # Column(Drawn(v))]
    /\ replaced' = {v \in replaced : refreshes.read[v].rev < answered[v]}
    /\ UNCHANGED <<agenda, dropped, moveCall, answered>>

CalendarBoardNext ==
    \/ \E v \in Blocks : PointerDown(v) \/ OthersChange(v)
    \/ \E place \in Places : Drop(place)
    \/ PointerUpInPlace
    \/ ServerMoves \/ MoveDone \/ MoveRefused \/ RefreshReads \/ RefreshShown

CalendarBoardSpec == CalendarBoardInit /\ [][CalendarBoardNext]_boardVars

---------------------------------------------------------------------------
(* "held until the server has answered and the reloaded calendar agrees":   *)
(* a visit whose move was accepted is never drawn at its old place again,   *)
(* although the answer, the loads of the page and further drags come in any *)
(* order, unless another drop took its place in pendingMove meanwhile.      *)
KeptWhereDropped ==
    \A v \in Blocks \ replaced :
        board[v].rev >= answered[v] \/ InFlightMove.block = v
=============================================================================
