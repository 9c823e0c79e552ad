---------------------------- MODULE PlatformChat ----------------------------
(***************************************************************************)
(* How a chat of @manclient_bot comes to belong to a member of a salon, and *)
(* whom it serves (src/src/core/integrations/platform-chat-link.ts,         *)
(* src/src/integrations/telegram/platform-update-handler.ts,                *)
(* business-bot-handler.ts).  The dashboard gives out links that whoever    *)
(* holds them may consume, in a private chat or in a group; a chat follows  *)
(* the link consumed last, while cards drawn for another member are still   *)
(* in it and updates sent before are still being handled.                   *)
(*                                                                          *)
(* BusinessBot has the commands about one visit; here are the lists, the    *)
(* menu, the language, and whose they are.  An answer that only navigates   *)
(* or refuses leaves no state and is a step of the handler to rest.         *)
(***************************************************************************)
EXTENDS Integers, FiniteSets

CONSTANTS
    Seats,          \* memberships
    Role,           \* Role[s], which the application never changes
    People,         \* Telegram users, each with a private chat of the same name
    Hall,           \* a group
    Tokens,         \* PlatformChatLink rows
    NoPerson,         \* no Telegram user, no member
    CardSlots           \* cards remembered at a time

ASSUME PlatformChatAssumption ==
    /\ Role \in [Seats -> {"OWNER", "ADMIN", "STAFF"}]
    /\ Hall \notin People /\ NoPerson \notin People \cup Seats

VARIABLES
    link,       \* PlatformChatLink: state, membership, and who consumed it
    chatRow,       \* chatRow[r], the active BusinessTelegramChat rows of chat r
    language,   \* Membership.languageCode
    shown,      \* cards with buttons: kind, and whom they were drawn for
    turn,       \* the update being handled
    creators     \* whom a customer bot may be created for (TelegramSetup)

platformVars == <<link, chatRow, language, shown, turn, creators>>

Rooms == People \cup {Hall}
Owned == [seat : Seats, user : People]
Locales == {"ru", "tg"}
Texts == {"menu", "today", "bookings", "checks", "language", "create", "other"}
Kinds == {"filters", "bookings", "queue", "language", "stale"}
Reaches == {"own", "all"}
NoCardHere == [kind |-> "none", seat |-> NoPerson, user |-> NoPerson, room |-> Hall,
               spent |-> FALSE, reach |-> "own"]
NoTurn == [pc |-> "idle", seat |-> NoPerson, user |-> NoPerson, room |-> Hall,
           ask |-> "other", slot |-> 0, crossed |-> FALSE]

PlatformChatTypeOK ==
    /\ link \in [Tokens -> [state : {"none", "open", "over", "used"},
                            seat : Seats \cup {NoPerson}, by : People \cup {NoPerson}]]
    /\ chatRow \in [Rooms -> SUBSET Owned]
    /\ language \in [Seats -> Locales]
    /\ \A c \in CardSlots : shown[c] = NoCardHere \/
         shown[c] \in [kind : Kinds, seat : Seats, user : People, room : Rooms,
                      spent : BOOLEAN, reach : Reaches]
    /\ turn = NoTurn \/
         turn \in [pc : {"typed", "tapped", "carry"}, seat : Seats, user : People, room : Rooms,
                   ask : Texts \cup Kinds \cup Locales, slot : CardSlots \cup {0}, crossed : BOOLEAN]
    /\ creators \subseteq Owned

PlatformChatInit ==
    /\ link = [l \in Tokens |-> [state |-> "none", seat |-> NoPerson, by |-> NoPerson]]
    /\ chatRow = [r \in Rooms |-> {}]
    /\ language = [s \in Seats |-> "ru"]
    /\ shown = [c \in CardSlots |-> NoCardHere]
    /\ turn = NoTurn
    /\ creators = {}

---------------------------------------------------------------------------
(***************************************************************************)
(* The link                                                                 *)
(***************************************************************************)
(* A signed-in member asks for a link of the own membership; the page shows *)
(* it and forgets the one before, which stays good.                         *)
RequestChatLink(l, s) ==
    /\ link[l].state = "none"
    /\ link' = [link EXCEPT ![l].state = "open", ![l].seat = s]
    /\ UNCHANGED <<chatRow, language, shown, turn, creators>>

LinkRunsOut(l) ==
    /\ link[l].state = "open"
    /\ link' = [link EXCEPT ![l].state = "over"]
    /\ UNCHANGED <<chatRow, language, shown, turn, creators>>

(* Staff are linked in private only. *)
MayLink(s, r) == r = Hall => Role[s] # "STAFF"

TakeChat(r, who) == chatRow' = [chatRow EXCEPT ![r] = {who}]

(* "/start b_...": one SERIALIZABLE transaction.  The confirmation that     *)
(* follows may fail to be sent; the sender is then told that the link is    *)
(* invalid, and stays linked.                                               *)
ConsumeLink(l, u, r) ==
    /\ link[l].state = "open" /\ r \in {u, Hall} /\ MayLink(link[l].seat, r)
    /\ link' = [link EXCEPT ![l].state = "used", ![l].by = u]
    /\ TakeChat(r, [seat |-> link[l].seat, user |-> u])
    /\ turn' = IF turn # NoTurn /\ turn.room = r THEN [turn EXCEPT !.crossed = TRUE] ELSE turn
    /\ UNCHANGED <<language, shown, creators>>

---------------------------------------------------------------------------
(***************************************************************************)
(* An update                                                                *)
(***************************************************************************)
(* Altered: whoever writes in the chat is taken for its member *)
AnyoneHere(r, u) == chatRow[r]

(* The active row of this chat and of this Telegram user. *)
Actors(r, u) == {a \in chatRow[r] : a.user = u}

(* The keys of the menu carry words of one language, and are compared with  *)
(* the words of the member's present one; anything else calls up the menu.  *)
Meaning(s, key, locale) == IF locale = language[s] THEN key ELSE "menu"

TypeText(u, r, key, locale) ==
    /\ turn = NoTurn /\ r \in {u, Hall}
    /\ \E a \in Actors(r, u) :
         turn' = [pc |-> "typed", seat |-> a.seat, user |-> u, room |-> r,
                  ask |-> Meaning(a.seat, key, locale), slot |-> 0, crossed |-> FALSE]
    /\ UNCHANGED <<link, chatRow, language, shown, creators>>

TapCard(u, c, ask) ==
    /\ turn = NoTurn /\ shown[c] # NoCardHere /\ shown[c].room \in {u, Hall}
    /\ \E a \in Actors(shown[c].room, u) :
         turn' = [pc |-> "tapped", seat |-> a.seat, user |-> u, room |-> shown[c].room,
                  ask |-> ask, slot |-> c, crossed |-> FALSE]
    /\ UNCHANGED <<link, chatRow, language, shown, creators>>

(* Staff see the visits they carry out. *)
Reach(s) == IF Role[s] = "STAFF" THEN "own" ELSE "all"

Draw(c, kind) ==
    shown' = [shown EXCEPT ![c] = [kind |-> kind, seat |-> turn.seat, user |-> turn.user,
                                   room |-> turn.room, spent |-> FALSE, reach |-> Reach(turn.seat)]]

Rests == turn' = NoTurn /\ UNCHANGED <<link, chatRow>>

ShowBookingFilters(c) ==
    /\ turn.pc = "typed" /\ turn.ask = "bookings"
    /\ Draw(c, "filters") /\ Rests
    /\ UNCHANGED <<language, creators>>

ShowBookingList(c) ==
    /\ turn.pc = "typed" /\ turn.ask = "today"
    /\ Draw(c, "bookings") /\ Rests
    /\ UNCHANGED <<language, creators>>

SeesReceipts == Role[turn.seat] # "STAFF"

ShowChecks(c) ==
    /\ turn.pc = "typed" /\ turn.ask = "checks"
    /\ IF SeesReceipts THEN Draw(c, "queue") ELSE UNCHANGED shown
    /\ Rests /\ UNCHANGED <<language, creators>>

ShowLanguagePicker(c) ==
    /\ turn.pc = "typed" /\ turn.ask = "language"
    /\ Draw(c, "language") /\ Rests
    /\ UNCHANGED <<language, creators>>

(* In private, and for those who manage the salon. *)
StartManagedBotCreation ==
    /\ turn.pc = "typed" /\ turn.ask = "create"
    /\ creators' = IF turn.room # Hall /\ Role[turn.seat] \in {"OWNER", "ADMIN"}
                  THEN creators \cup {[seat |-> turn.seat, user |-> turn.user]} ELSE creators
    /\ Rests /\ UNCHANGED <<language, shown>>

ShowMainMenu ==
    /\ turn.pc = "typed" /\ turn.ask = "menu"
    /\ Rests /\ UNCHANGED <<language, shown, creators>>

(* The customers' link and the help carry no buttons with rows; and the     *)
(* process may end with any update half way.                                *)
EndTurn ==
    /\ turn # NoTurn
    /\ Rests /\ UNCHANGED <<language, shown, creators>>

---------------------------------------------------------------------------
(***************************************************************************)
(* A tap                                                                    *)
(***************************************************************************)
(* The business, the conversation of this chat and user, and the member are *)
(* those of the row.                                                        *)
TheirButton(card) == card.seat = turn.seat /\ card.user = turn.user

(* The tapped message becomes a card of whoever tapped. *)
ShowStaleAction == Draw(turn.slot, "stale") /\ Rests

ConsumeButton ==
    /\ turn.pc = "tapped"
    /\ LET card == shown[turn.slot] IN
         IF TheirButton(card) /\ card.room = turn.room /\ ~ card.spent
         THEN /\ turn' = [turn EXCEPT !.pc = "carry",
                                      !.ask = IF card.kind = "language" THEN @ ELSE card.kind]
              /\ shown' = [shown EXCEPT ![turn.slot].spent = card.kind = "language"]
              /\ UNCHANGED <<link, chatRow>>
         ELSE ShowStaleAction
    /\ UNCHANGED <<language, creators>>

(* Navigation redraws the card, or leaves for the menu (EndTurn).           *)
CarryNavigation ==
    /\ turn.pc = "carry" /\ turn.ask \in {"filters", "bookings", "queue"}
    /\ Draw(turn.slot, IF turn.ask = "queue" THEN "queue" ELSE "bookings") /\ Rests
    /\ UNCHANGED <<language, creators>>

SetLanguage ==
    /\ turn.pc = "carry" /\ turn.ask \in Locales
    /\ language' = [language EXCEPT ![turn.seat] = turn.ask]
    /\ Rests /\ UNCHANGED <<shown, creators>>

PlatformChatNext ==
    \/ \E l \in Tokens, s \in Seats : RequestChatLink(l, s)
    \/ \E l \in Tokens : LinkRunsOut(l)
    \/ \E l \in Tokens, u \in People, r \in Rooms : ConsumeLink(l, u, r)
    \/ \E u \in People, r \in Rooms, k \in Texts, w \in Locales : TypeText(u, r, k, w)
    \/ \E u \in People, c \in CardSlots, w \in Locales : TapCard(u, c, w)
    \/ \E c \in CardSlots : ShowBookingFilters(c) \/ ShowBookingList(c) \/ ShowChecks(c) \/ ShowLanguagePicker(c)
    \/ StartManagedBotCreation \/ ShowMainMenu \/ EndTurn
    \/ ConsumeButton \/ CarryNavigation \/ SetLanguage

PlatformChatSpec == PlatformChatInit /\ [][PlatformChatNext]_platformVars

---------------------------------------------------------------------------
(* A chat serves one member, and the person who linked it: whatever is      *)
(* drawn or carried out for a member was asked by a Telegram user who       *)
(* consumed a link of that member, in a chat that is theirs still, unless   *)
(* it was linked anew while the update was handled; no group ever shows     *)
(* what staff see, and staff see no receipts.                               *)
Consumed(who) == \E l \in Tokens : link[l].state = "used" /\ link[l].seat = who.seat
                                     /\ link[l].by = who.user
ChatServesItsMember ==
    /\ \A r \in Rooms : Cardinality(chatRow[r]) <= 1
    /\ turn # NoTurn =>
         /\ Consumed(turn)
         /\ turn.crossed \/ [seat |-> turn.seat, user |-> turn.user] \in chatRow[turn.room]
    /\ \A c \in CardSlots : shown[c] # NoCardHere =>
         /\ Consumed(shown[c])
         /\ shown[c].kind = "queue" => Role[shown[c].seat] # "STAFF"
         /\ shown[c].reach = "all" =>
              \E l \in Tokens : link[l].by = shown[c].user /\ Role[link[l].seat] # "STAFF"
         /\ shown[c].room = Hall => Role[shown[c].seat] # "STAFF"
    /\ turn.pc = "carry" => shown[turn.slot].seat = turn.seat /\ shown[turn.slot].user = turn.user
    /\ \A who \in creators : Consumed(who) /\ Role[who.seat] # "STAFF"
=============================================================================
