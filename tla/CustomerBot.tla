----------------------------- MODULE CustomerBot -----------------------------
(***************************************************************************)
(* The bot of a salon's customers: one chat, its conversation session       *)
(* (src/src/core/conversations/), the cards whose buttons book and pay      *)
(* (src/src/integrations/telegram/business-update-handler.ts), and updates  *)
(* that Telegram delivers at once.                                          *)
(*                                                                          *)
(* The session's version is not a number here: a handler is current until   *)
(* somebody writes the session after its read.  Choice, Back and menu       *)
(* buttons of every step may still be in the chat from an earlier round;    *)
(* only the buttons that confirm a booking are recorded.                    *)
(***************************************************************************)
EXTENDS Integers, FiniteSets, Sequences

CONSTANTS
    Steps,        \* the states that ask for a part of the booking, in order:
                  \* BRANCH, SERVICE, STAFF, DATE, SLOT, CUSTOMER_NAME, CUSTOMER_PHONE
    Chat,         \* update handlers in flight
    Orders,       \* bookings made in this chat, 1 .. n
    ConfirmCards, \* CONFIRM cards, 1 .. n in the order they are sent
    MaxChatDeaths \* bound on handlers that die

ASSUME CustomerBotAssumption ==
    /\ Steps \in Seq(STRING) /\ \E i \in DOMAIN Steps : Steps[i] = "SLOT"
    /\ \A i, j \in DOMAIN Steps : Steps[i] = Steps[j] => i = j
    /\ \A i \in DOMAIN Steps : Steps[i] \notin
         {"LANGUAGE", "HOME", "CONFIRM", "AWAITING_PAYMENT", "AWAITING_RECEIPT", "COMPLETE"}
    /\ Orders \subseteq Nat \ {0} /\ ConfirmCards \subseteq Nat \ {0}
    /\ MaxChatDeaths \in Nat

VARIABLES
    session,     \* ConversationSession: state, data and whether it has expired
    order,       \* the bookings: status, and whether a payment was asked for
    confirmCard, \* rows of CONFIRM_BOOKING; spent is consumed or expired
    chat,        \* what the handler of an update knows
    bookedBy,    \* history: bookings made by each card
    selected,    \* history: the booking the customer chose to pay for last
    crossed,     \* history: bookings chosen while a handler had a receipt for another one
    chatDeaths

chatVars == <<session, order, confirmCard, chat, bookedBy, selected, crossed, chatDeaths>>

Asked == {Steps[i] : i \in DOMAIN Steps}
SessionStates == Asked \cup {"LANGUAGE", "HOME", "CONFIRM", "AWAITING_PAYMENT",
                             "AWAITING_RECEIPT", "COMPLETE"}
NoOrder == 0
Session == [state : SessionStates, filled : SUBSET Asked,
            booking : Orders \cup {NoOrder}, live : BOOLEAN]
QuietChat == [pc |-> "idle", current |-> FALSE, command |-> "none", arg |-> 0,
              read |-> [state |-> "LANGUAGE", filled |-> {}, booking |-> NoOrder, live |-> TRUE]]

CustomerBotTypeOK ==
    /\ session \in Session
    /\ order \in [Orders -> [status : {"NONE", "PENDING_PAYMENT", "CONFIRMED", "CANCELLED", "EXPIRED"},
                             due : BOOLEAN]]
    /\ confirmCard \in [ConfirmCards -> {"unsent", "live", "spent"}]
    /\ chat \in [Chat -> [pc : {"idle", "command", "write", "back", "render", "book", "receipt"},
                          current : BOOLEAN, command : SessionStates \cup {"none"},
                          arg : Orders \cup ConfirmCards \cup {0}, read : Session]]
    /\ bookedBy \in [ConfirmCards -> Nat]
    /\ selected \in Orders \cup {NoOrder}
    /\ crossed \subseteq Orders
    /\ chatDeaths \in 0 .. MaxChatDeaths

CustomerBotInit ==
    /\ session = QuietChat.read
    /\ order = [b \in Orders |-> [status |-> "NONE", due |-> FALSE]]
    /\ confirmCard = [c \in ConfirmCards |-> "unsent"]
    /\ chat = [h \in Chat |-> QuietChat]
    /\ bookedBy = [c \in ConfirmCards |-> 0]
    /\ selected = NoOrder
    /\ crossed = {}
    /\ chatDeaths = 0

---------------------------------------------------------------------------
(***************************************************************************)
(* The session                                                              *)
(***************************************************************************)
(* transitions: a command is named by the state it is allowed in. *)
Flow == <<"LANGUAGE", "HOME">> \o Steps
        \o <<"CONFIRM", "AWAITING_PAYMENT", "AWAITING_RECEIPT", "COMPLETE">>
After(state) == Flow[1 + CHOOSE i \in DOMAIN Flow : Flow[i] = state]
Backward == (Asked \ {"CUSTOMER_NAME", "CUSTOMER_PHONE"}) \cup {"CONFIRM"}
Before(state) == IF state = "CONFIRM" THEN "SLOT"
                 ELSE Flow[(CHOOSE i \in DOMAIN Flow : Flow[i] = state) - 1]

Transition(command, arg) ==
    [session EXCEPT
                 !.state = After(command),
                 !.filled = IF command \in Asked THEN @ \cup {command} ELSE @,
                 !.booking = IF command = "CONFIRM" THEN arg ELSE @]

Others(h, mine) == [g \in Chat |-> IF g = h THEN mine ELSE [chat[g] EXCEPT !.current = FALSE]]
Becomes(h, next) == chat' = [chat EXCEPT ![h] = next]
Renders == [QuietChat EXCEPT !.pc = "render"]
OrdersKept == UNCHANGED <<order, confirmCard, bookedBy>>
NotSelecting == UNCHANGED <<selected, crossed>>
Alive == UNCHANGED chatDeaths

(* History: a receipt is read, or was, and the session not yet again. *)
HasReceipt(g) == \/ chat[g].pc = "receipt"
                 \/ chat[g].pc = "command" /\ chat[g].command = "AWAITING_RECEIPT"

Selects(h, b) ==
    /\ selected' = b
    /\ crossed' = IF \E g \in Chat \ {h} : HasReceipt(g) /\ chat[g].arg # b
                  THEN crossed \cup {b} ELSE crossed

(* replaceConversationSession, restartConversation: written by id *)
Replace(h, state, data) ==
    /\ session' = [data EXCEPT !.state = state, !.live = TRUE]
    /\ chat' = Others(h, Renders)

(* /start, /menu, /book, /language and their buttons *)
StartOver(h, state) ==
    /\ chat[h].pc = "idle"
    /\ Replace(h, state, QuietChat.read)
    /\ OrdersKept /\ NotSelecting /\ Alive

(* handleConversationCommand reads ... *)
ReadSession(h, command, arg) ==
    Becomes(h, [QuietChat EXCEPT !.pc = "write", !.current = TRUE, !.command = command,
                                 !.arg = arg])

Choose(h, command) ==
    /\ chat[h].pc = "idle"
    /\ session.live /\ session.state = command
    /\ ReadSession(h, command, 0)
    /\ UNCHANGED session /\ OrdersKept /\ NotSelecting /\ Alive

CommandAfterEffect(h) ==
    /\ chat[h].pc = "command"
    /\ IF session.live /\ session.state = chat[h].command
       THEN ReadSession(h, chat[h].command, chat[h].arg)
       ELSE Becomes(h, QuietChat)
    /\ UNCHANGED session /\ OrdersKept /\ NotSelecting /\ Alive

(* Altered: written by id *)
WriteUnversioned(h) ==
    /\ chat[h].pc = "write"
    /\ session' = Transition(chat[h].command, chat[h].arg)
    /\ chat' = Others(h, Renders)
    /\ IF chat[h].command = "CONFIRM" THEN Selects(h, chat[h].arg) ELSE NotSelecting
    /\ OrdersKept /\ Alive

(* ... and writes if the version is still the one it read. *)
WriteSession(h) ==
    /\ chat[h].pc = "write"
    /\ IF chat[h].current
       THEN /\ session' = Transition(chat[h].command, chat[h].arg)
            /\ chat' = Others(h, Renders)
            /\ IF chat[h].command = "CONFIRM" THEN Selects(h, chat[h].arg) ELSE NotSelecting
       ELSE Becomes(h, QuietChat) /\ UNCHANGED session /\ NotSelecting
    /\ OrdersKept /\ Alive

(* CLIENT_BACK writes the data it read, whatever was written since. *)
ReadBack(h, from) ==
    /\ chat[h].pc = "idle" /\ session.live
    /\ Becomes(h, [QuietChat EXCEPT !.pc = "back", !.command = Before(from), !.read = session])
    /\ UNCHANGED session /\ OrdersKept /\ NotSelecting /\ Alive

WriteBack(h) ==
    /\ chat[h].pc = "back"
    /\ Replace(h, chat[h].command, chat[h].read)
    /\ OrdersKept /\ NotSelecting /\ Alive

(* renderState: the card of CONFIRM needs every field, or nothing is sent. *)
Render(h) ==
    /\ chat[h].pc = "render"
    /\ \/ /\ session.state = "CONFIRM" /\ session.filled = Asked
          /\ \E c \in ConfirmCards :
               /\ confirmCard[c] = "unsent"
               /\ \A d \in ConfirmCards : d < c => confirmCard[d] # "unsent"
               /\ confirmCard' = [confirmCard EXCEPT ![c] = IF session.live THEN "live" ELSE "spent"]
       \/ UNCHANGED confirmCard
    /\ Becomes(h, QuietChat)
    /\ UNCHANGED <<session, order, bookedBy>> /\ NotSelecting /\ Alive

---------------------------------------------------------------------------
(***************************************************************************)
(* Bookings and payment                                                     *)
(***************************************************************************)
Open(b) == order[b].status \in {"PENDING_PAYMENT", "CONFIRMED"}

ConsumeRow(c) == confirmCard' = [confirmCard EXCEPT ![c] = "spent"]

(* consumeConversationAction *)
TapConfirm(h, c) ==
    /\ chat[h].pc = "idle"
    /\ confirmCard[c] = "live"
    /\ ConsumeRow(c)
    /\ Becomes(h, [QuietChat EXCEPT !.pc = "book", !.arg = c])
    /\ UNCHANGED <<session, order, bookedBy>> /\ NotSelecting /\ Alive

(* createBookingForConversation books what the session holds now, unless    *)
(* something is missing or the slot is taken; a booking with nothing to pay *)
(* ends the conversation, another awaits payment.                           *)
BookSession(h, b) ==
    /\ chat[h].pc = "book"
    /\ session.filled = Asked
    /\ order[b].status = "NONE" /\ \A d \in Orders : d < b => order[d].status # "NONE"
    /\ bookedBy' = [bookedBy EXCEPT ![chat[h].arg] = @ + 1]
    /\ \/ /\ order' = [order EXCEPT ![b] = [status |-> "PENDING_PAYMENT", due |-> TRUE]]
          /\ Becomes(h, [QuietChat EXCEPT !.pc = "command", !.command = "CONFIRM", !.arg = b])
          /\ UNCHANGED session
       \/ /\ order' = [order EXCEPT ![b] = [status |-> "CONFIRMED", due |-> FALSE]]
          /\ Replace(h, "COMPLETE", [session EXCEPT !.booking = b])
    /\ UNCHANGED confirmCard /\ NotSelecting /\ Alive

RefuseBooking(h) ==
    /\ chat[h].pc = "book"
    /\ Becomes(h, QuietChat)
    /\ UNCHANGED session /\ OrdersKept /\ NotSelecting /\ Alive

(* bindPaymentDeepLink and CLIENT_PAYMENT choose a booking to pay for; the  *)
(* button does not look at the booking's status again.                      *)
SelectPayment(h, b) ==
    /\ chat[h].pc = "idle" /\ order[b].due
    /\ Replace(h, "AWAITING_PAYMENT", [QuietChat.read EXCEPT !.booking = b])
    /\ Selects(h, b)
    /\ OrdersKept /\ Alive

(* A photo is the receipt for the booking of the session. *)
SendPhoto(h) ==
    /\ chat[h].pc = "idle" /\ session.state = "AWAITING_RECEIPT"
    /\ Becomes(h, [QuietChat EXCEPT !.pc = "receipt", !.arg = session.booking])
    /\ UNCHANGED session /\ OrdersKept /\ NotSelecting /\ Alive

EndsConversation(b) == b # NoOrder /\ order'[b].status = "CONFIRMED"

(* submitReceiptImage confirms the booking, or a person will look at it. *)
ReadReceipt(h) ==
    LET b == chat[h].arg IN
    /\ chat[h].pc = "receipt"
    /\ \/ UNCHANGED order
       \/ /\ b # NoOrder /\ order[b].status = "PENDING_PAYMENT"
          /\ order' = [order EXCEPT ![b].status = "CONFIRMED"]
    /\ Becomes(h, IF EndsConversation(b)
                  THEN [QuietChat EXCEPT !.pc = "command", !.command = "AWAITING_RECEIPT", !.arg = b]
                  ELSE QuietChat)
    /\ UNCHANGED <<session, confirmCard, bookedBy>> /\ NotSelecting /\ Alive

(* cancelBooking and the sweep of expired holds *)
EndOrder(b, status) ==
    /\ IF status = "EXPIRED" THEN order[b].status = "PENDING_PAYMENT" ELSE Open(b)
    /\ order' = [order EXCEPT ![b].status = status]
    /\ UNCHANGED <<session, confirmCard, chat, bookedBy>> /\ NotSelecting /\ Alive

(* Thirty minutes: a card expires with the session that it was sent in, or  *)
(* before it, when the session was prolonged.                               *)
CardsExpire(cards) ==
    confirmCard' = [c \in ConfirmCards |-> IF c \in cards THEN "spent" ELSE confirmCard[c]]

SessionExpires ==
    /\ session.live /\ session' = [session EXCEPT !.live = FALSE]
    /\ CardsExpire({c \in ConfirmCards : confirmCard[c] = "live"})
    /\ UNCHANGED <<order, chat, bookedBy>> /\ NotSelecting /\ Alive

CardExpires(c) ==
    /\ confirmCard[c] = "live"
    /\ CardsExpire({c})
    /\ UNCHANGED <<session, order, chat, bookedBy>> /\ NotSelecting /\ Alive

ChatDies(h) ==
    /\ chat[h].pc # "idle" /\ chatDeaths < MaxChatDeaths
    /\ chatDeaths' = chatDeaths + 1
    /\ Becomes(h, QuietChat)
    /\ UNCHANGED session /\ OrdersKept /\ NotSelecting

CustomerBotNext ==
    \/ \E h \in Chat :
        \/ \E s \in {"LANGUAGE", "HOME", Steps[1]} : StartOver(h, s)
        \/ \E command \in {"LANGUAGE", "AWAITING_PAYMENT"} \cup Asked : Choose(h, command)
        \/ \E from \in Backward : ReadBack(h, from)
        \/ CommandAfterEffect(h) \/ WriteSession(h) \/ WriteBack(h) \/ Render(h)
        \/ \E c \in ConfirmCards : TapConfirm(h, c)
        \/ \E b \in Orders : BookSession(h, b) \/ SelectPayment(h, b)
        \/ RefuseBooking(h) \/ SendPhoto(h) \/ ReadReceipt(h) \/ ChatDies(h)
    \/ \E b \in Orders, status \in {"CANCELLED", "EXPIRED"} : EndOrder(b, status)
    \/ SessionExpires \/ \E c \in ConfirmCards : CardExpires(c)

CustomerBotSpec == CustomerBotInit /\ [][CustomerBotNext]_chatVars

---------------------------------------------------------------------------
(* A receipt goes to the booking the customer chose last ("При двух         *)
(* неоплаченных записях чек прикрепляется только к выбранной"): a choice    *)
(* that was overtaken by another loses against its version.                 *)
(*                                                                          *)
(* A conversation that says it is complete is about a booking that was      *)
(* confirmed, unless the customer turned to another booking before the      *)
(* handler of a receipt read the session again, which it does at the end.   *)
(*                                                                          *)
(* "Double tap не создаёт вторую запись"                                    *)
(* (docs/superpowers/specs/2026-07-29-client-telegram-interface-design.md): *)
(* a confirmation button books at most once, however often its tap is       *)
(* delivered and whatever else the chat does meanwhile.                     *)
ChatKeepsItsChoice ==
    /\ \A c \in ConfirmCards : bookedBy[c] <= 1
    /\ session.state \in {"AWAITING_PAYMENT", "AWAITING_RECEIPT"} => session.booking = selected
    /\ session.state = "COMPLETE" =>
         \/ order[session.booking].status \in {"CONFIRMED", "CANCELLED"}
         \/ session.booking \in crossed
===========================================================================
