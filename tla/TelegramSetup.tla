--------------------------- MODULE TelegramSetup ---------------------------
(***************************************************************************)
(* How a salon gets a bot of its own                                        *)
(* (src/src/core/integrations/business-telegram-service.ts,                 *)
(* managed-bot-intent.ts, src/src/integrations/telegram/                    *)
(* platform-update-handler.ts and the form of the dashboard).  A row says   *)
(* which bot is the salon's and under which public id its updates come;     *)
(* Telegram knows where it sends the updates of each bot.  No transaction   *)
(* covers both, so every operation is a row read, calls to Telegram, and a  *)
(* row written by id.                                                       *)
(***************************************************************************)
EXTENDS Integers

CONSTANTS
    Salons, Bots,
    Hands,          \* requests and deliveries in progress
    Form,           \* the one of Hands that the open dashboard sends through
    FormSalon,      \* whose dashboard it is
    Intents,        \* ids of ManagedBotConnectionIntent, 1 .. n (a bound)
    Keys,           \* publicIds with their secrets, 1 .. n in order of drawing (a bound)
    MaxSetupFaults  \* bound on calls that fail and processes that die

ASSUME TelegramSetupAssumption ==
    /\ Form \in Hands /\ FormSalon \in Salons
    /\ Keys \subseteq Nat \ {0} /\ \E n \in Intents \cup {0} : Intents = 1 .. n
    /\ MaxSetupFaults \in Nat

VARIABLES
    rows,       \* BusinessTelegramIntegration, named by the key it was created with
    webhook,       \* at Telegram: the key in the webhook of each bot
    drawn,      \* keys drawn so far
    intents,    \* ManagedBotConnectionIntent
    hands,      \* what each request is doing
    settings,   \* the state "integration" of TelegramIntegrationForm
    everActive, \* history: the <<salon, bot>> ever made ACTIVE, or overtaken
    setupFaults

setupVars == <<rows, webhook, drawn, intents, hands, settings, everActive,
               setupFaults>>

Nothing == 0                    \* no key, no intent, no row
NoBot == "no bot"
Row == [state : {"none", "PENDING", "ACTIVE", "DISCONNECTED"}, salon : Salons,
        bot : Bots \cup {NoBot}, key : Keys \cup {Nothing}, token : BOOLEAN]
SomeSalon == CHOOSE s \in Salons : TRUE
NoIntegration == [state |-> "none", salon |-> SomeSalon, bot |-> NoBot, key |-> Nothing,
                  token |-> FALSE]
Phases == {"idle", "connectHook", "connectSave", "connectDrop", "rotateHook", "rotateSave",
           "rotateClean", "unhook", "disconnectSave", "retryHook", "retrySave",
           "look", "complete", "tell", "fail"}
IdleHand == [pc |-> "idle", salon |-> SomeSalon, bot |-> NoBot, row |-> Nothing, key |-> Nothing,
             previous |-> NoBot, intent |-> Nothing]

TelegramSetupTypeOK ==
    /\ rows \in [Keys -> Row]
    /\ webhook \in [Bots -> Keys \cup {Nothing}] /\ drawn \in Keys \cup {Nothing}
    /\ intents \in [Intents -> [state : {"none", "PENDING", "PROCESSING", "COMPLETED", "EXPIRED"},
                                salon : Salons, bot : Bots \cup {NoBot}]]
    /\ hands \in [Hands -> [pc : Phases, salon : Salons, bot : Bots \cup {NoBot},
                            row : Keys \cup {Nothing}, key : Keys \cup {Nothing},
                            previous : Bots \cup {NoBot}, intent : Intents \cup {Nothing}]]
    /\ settings \in {"DISCONNECTED", "PENDING", "ACTIVE"}
    /\ everActive \subseteq Salons \X Bots
    /\ setupFaults \in 0 .. MaxSetupFaults

TelegramSetupInit ==
    /\ rows = [k \in Keys |-> NoIntegration]
    /\ webhook = [b \in Bots |-> Nothing] /\ drawn = Nothing
    /\ intents = [i \in Intents |-> [state |-> "none", salon |-> SomeSalon, bot |-> NoBot]]
    /\ hands = [h \in Hands |-> IdleHand]
    /\ settings = "DISCONNECTED"
    /\ everActive = {} /\ setupFaults = 0

---------------------------------------------------------------------------
(***************************************************************************)
(* The rows                                                                 *)
(***************************************************************************)
Kept(r) == rows[r].state \in {"PENDING", "ACTIVE"}      \* status not DISCONNECTED
SalonRow(s) == {r \in Keys : Kept(r) /\ rows[r].salon = s}
BotRow(b) == {r \in Keys : Kept(r) /\ rows[r].bot = b}
NextKey == drawn + 1

(* The two partial unique indexes, and an update by id that needs its row   *)
Fits(r, row) ==
    /\ rows[r].state # "none"
    /\ row.state = "DISCONNECTED" \/ (SalonRow(row.salon) \cup BotRow(row.bot)) \subseteq {r}

HandAt(h, pc) == hands[h].pc = pc
HandTo(h, pc) == hands' = [hands EXCEPT ![h].pc = pc]
HandRests(h) == hands' = [hands EXCEPT ![h] = IdleHand]

(* A refusal is the end of a dashboard's request; for a handler it leads to *)
(* failManagedBotIntent.                                                    *)
HandGivesUp(h) == IF hands[h].intent = Nothing THEN HandRests(h) ELSE HandTo(h, "fail")

(* The answer reaches the form, or is lost; an error leaves it as it is.    *)
FormShows(h, status) ==
    settings' \in IF h = Form /\ hands[h].intent = Nothing THEN {settings, status}
                  ELSE {settings}
Faulty == setupFaults < MaxSetupFaults /\ setupFaults' = setupFaults + 1
Sound == UNCHANGED setupFaults
RowsOnlyKept == UNCHANGED <<rows, drawn, everActive>>

---------------------------------------------------------------------------
(***************************************************************************)
(* connectBusinessTelegramBot                                               *)
(***************************************************************************)
(* getMe, rejectConnectedBot, createPendingIntegration *)
StartsConnect(h, s, b, i) ==
    /\ NextKey \in Keys
    /\ IF SalonRow(s) \cup BotRow(b) = {}
       THEN /\ rows' = [rows EXCEPT ![NextKey] = [state |-> "PENDING", salon |-> s, bot |-> b,
                                                  key |-> NextKey, token |-> TRUE]]
            /\ drawn' = NextKey
            /\ hands' = [hands EXCEPT ![h] = [pc |-> "connectHook", salon |-> s, bot |-> b,
                                              row |-> NextKey, key |-> NextKey,
                                              previous |-> NoBot, intent |-> i]]
       ELSE HandGivesUp(h) /\ UNCHANGED <<rows, drawn>>
    /\ UNCHANGED <<webhook, everActive>>

(* setWebhook; a call that fails may have been obeyed. *)
ConnectHooks(h) ==
    /\ HandAt(h, "connectHook")
    /\ \/ webhook' = [webhook EXCEPT ![hands[h].bot] = hands[h].key] /\ HandTo(h, "connectSave") /\ Sound
       \/ /\ webhook' \in {webhook, [webhook EXCEPT ![hands[h].bot] = hands[h].key]}
          /\ HandTo(h, "connectDrop") /\ Faulty
    /\ RowsOnlyKept /\ UNCHANGED <<intents, settings>>

(* The row is deleted by id, whatever has become of it. *)
ConnectDrops(h) ==
    /\ HandAt(h, "connectDrop")
    /\ rows' = [rows EXCEPT ![hands[h].row] = NoIntegration]
    /\ HandGivesUp(h)
    /\ UNCHANGED <<webhook, drawn, settings, everActive, intents>> /\ Sound

(* History: a rotation or a disconnection may overtake the connection of a  *)
(* bot, whose handler closes its intent nevertheless.                       *)
Overtaken(r) == IF rows[r].state = "PENDING" THEN {<<rows[r].salon, rows[r].bot>>} ELSE {}

MakesActive(h, row) ==
    /\ rows' = [rows EXCEPT ![hands[h].row] = row]
    /\ everActive' = everActive \cup {<<row.salon, row.bot>>} \cup Overtaken(hands[h].row)

ConnectSaves(h) ==
    LET row == [rows[hands[h].row] EXCEPT !.state = "ACTIVE"]
    IN  /\ HandAt(h, "connectSave")
        /\ IF Fits(hands[h].row, row)
           THEN /\ MakesActive(h, row) /\ FormShows(h, "ACTIVE")
                /\ IF hands[h].intent = Nothing THEN HandRests(h) ELSE HandTo(h, "complete")
           ELSE HandGivesUp(h) /\ UNCHANGED <<rows, everActive, settings>>
        /\ UNCHANGED <<webhook, drawn, intents>> /\ Sound

---------------------------------------------------------------------------
(***************************************************************************)
(* rotateBusinessTelegramBot                                                *)
(***************************************************************************)
StartsRotate(h, s, b) ==
    /\ NextKey \in Keys
    /\ \E r \in SalonRow(s) :
         /\ BotRow(b) \subseteq {r}
         /\ drawn' = NextKey
         /\ hands' = [hands EXCEPT ![h] = [pc |-> "rotateHook", salon |-> s, bot |-> b, row |-> r,
                        key |-> NextKey, intent |-> Nothing,
                        previous |-> IF rows[r].token /\ rows[r].bot # b THEN rows[r].bot ELSE NoBot]]
    /\ UNCHANGED <<rows, webhook, everActive>>

RotateHooks(h) ==
    /\ HandAt(h, "rotateHook")
    /\ \/ webhook' = [webhook EXCEPT ![hands[h].bot] = hands[h].key] /\ HandTo(h, "rotateSave") /\ Sound
       \/ /\ webhook' \in {webhook, [webhook EXCEPT ![hands[h].bot] = hands[h].key]}
          /\ HandRests(h) /\ Faulty
    /\ RowsOnlyKept /\ UNCHANGED <<intents, settings>>

(* Altered: the salon keeps its public id *)
SameAddress(h) == [rows[hands[h].row] EXCEPT !.state = "ACTIVE", !.bot = hands[h].bot,
                                             !.token = TRUE]

Rotated(h) == [rows[hands[h].row] EXCEPT !.state = "ACTIVE", !.bot = hands[h].bot,
                                         !.token = TRUE, !.key = hands[h].key]

RotateSaves(h) ==
    /\ HandAt(h, "rotateSave")
    /\ IF Fits(hands[h].row, Rotated(h))
       THEN /\ MakesActive(h, Rotated(h)) /\ FormShows(h, "ACTIVE")
            /\ IF hands[h].previous = NoBot THEN HandRests(h) ELSE HandTo(h, "rotateClean")
       ELSE HandRests(h) /\ UNCHANGED <<rows, everActive, settings>>
    /\ UNCHANGED <<webhook, drawn, intents>> /\ Sound

(* deleteWebhook of the bot that was the salon's; a failure is only noted.  *)
RotateCleans(h) ==
    /\ HandAt(h, "rotateClean")
    /\ \/ webhook' = [webhook EXCEPT ![hands[h].previous] = Nothing] /\ Sound
       \/ UNCHANGED webhook /\ Faulty
    /\ HandRests(h)
    /\ RowsOnlyKept /\ UNCHANGED <<intents, settings>>

---------------------------------------------------------------------------
(***************************************************************************)
(* disconnectBusinessTelegramBot, retryBusinessTelegramWebhook              *)
(***************************************************************************)
Takes(h, pc, r) ==
    /\ rows[r].token
    /\ hands' = [hands EXCEPT ![h] = [pc |-> pc, salon |-> rows[r].salon, bot |-> rows[r].bot,
                                      row |-> r, key |-> rows[r].key, previous |-> NoBot,
                                      intent |-> Nothing]]
    /\ UNCHANGED <<rows, webhook, drawn, everActive>>

StartsDisconnect(h, s) == \E r \in SalonRow(s) : Takes(h, "unhook", r)

Unhooks(h) ==
    /\ HandAt(h, "unhook")
    /\ \/ webhook' = [webhook EXCEPT ![hands[h].bot] = Nothing] /\ HandTo(h, "disconnectSave") /\ Sound
       \/ /\ webhook' \in {webhook, [webhook EXCEPT ![hands[h].bot] = Nothing]}
          /\ HandRests(h) /\ Faulty
    /\ RowsOnlyKept /\ UNCHANGED <<intents, settings>>

DisconnectSaves(h) ==
    /\ HandAt(h, "disconnectSave")
    /\ IF rows[hands[h].row].state = "none" THEN UNCHANGED <<rows, everActive, settings>>
       ELSE /\ everActive' = everActive \cup Overtaken(hands[h].row)
            /\ rows' = [rows EXCEPT ![hands[h].row].state = "DISCONNECTED",
                                    ![hands[h].row].token = FALSE]
            /\ FormShows(h, "DISCONNECTED")
    /\ HandRests(h)
    /\ UNCHANGED <<webhook, drawn, intents>> /\ Sound

(* An administrator of the platform tries the webhook of a row again. *)
AdminRetries(h) ==
    /\ h # Form /\ HandAt(h, "idle")
    /\ \E r \in Keys : Kept(r) /\ Takes(h, "retryHook", r)
    /\ UNCHANGED <<intents, settings>> /\ Sound

RetryHooks(h) ==
    /\ HandAt(h, "retryHook")
    /\ \/ webhook' = [webhook EXCEPT ![hands[h].bot] = hands[h].key] /\ HandTo(h, "retrySave") /\ Sound
       \/ /\ webhook' \in {webhook, [webhook EXCEPT ![hands[h].bot] = hands[h].key]}
          /\ HandRests(h) /\ Faulty
    /\ RowsOnlyKept /\ UNCHANGED <<intents, settings>>

(* ACTIVE, with or without a token by now *)
RetrySaves(h) ==
    LET row == [rows[hands[h].row] EXCEPT !.state = "ACTIVE"]
    IN  /\ HandAt(h, "retrySave")
        /\ IF Fits(hands[h].row, row) THEN MakesActive(h, row) ELSE UNCHANGED <<rows, everActive>>
        /\ HandRests(h)
        /\ UNCHANGED <<webhook, drawn, settings, intents>> /\ Sound

---------------------------------------------------------------------------
(***************************************************************************)
(* The form: its copy of the status is as old as its last answer, and says  *)
(* which request the token is sent with.  One request at a time.            *)
(***************************************************************************)
Configured == settings # "DISCONNECTED"

SubmitToken(b) ==
    /\ HandAt(Form, "idle")
    /\ (Configured /\ StartsRotate(Form, FormSalon, b)) \/ StartsConnect(Form, FormSalon, b, Nothing)
    /\ UNCHANGED <<intents, settings>> /\ Sound

SubmitDisconnect ==
    /\ HandAt(Form, "idle") /\ Configured
    /\ StartsDisconnect(Form, FormSalon)
    /\ UNCHANGED <<intents, settings>> /\ Sound

(* getTelegramDashboardStatus, when the page is opened again *)
ReloadSettings ==
    LET now == {rows[r].state : r \in SalonRow(FormSalon)}
    IN  /\ HandAt(Form, "idle")
        /\ settings' \in IF now = {} THEN {"DISCONNECTED"} ELSE now
        /\ UNCHANGED <<rows, webhook, drawn, everActive, hands, intents>> /\ Sound

(* The same operations from another tab, or the dashboard of another salon  *)
OtherTab(h) ==
    /\ h # Form /\ HandAt(h, "idle")
    /\ \E s \in Salons : \/ StartsDisconnect(h, s)
                         \/ \E b \in Bots : StartsConnect(h, s, b, Nothing) \/ StartsRotate(h, s, b)
    /\ UNCHANGED <<intents, settings>> /\ Sound

---------------------------------------------------------------------------
(***************************************************************************)
(* The owner's chat with the platform's bot                                 *)
(***************************************************************************)
SetupKept == UNCHANGED <<rows, webhook, drawn, hands, settings, everActive, setupFaults>>

(* createManagedBotIntent, for the membership that the chat was last linked  *)
(* to; the earlier ones of this membership expire.                          *)
CreateIntent(i, s) ==
    /\ intents[i].state = "none"
    /\ \A j \in Intents : j < i => intents[j].state # "none"
    /\ intents' = [j \in Intents |->
         IF j = i THEN [intents[i] EXCEPT !.state = "PENDING", !.salon = s]
         ELSE IF intents[j].state = "PENDING" /\ intents[j].salon = s
         THEN [intents[j] EXCEPT !.state = "EXPIRED"] ELSE intents[j]]
    /\ SetupKept

---------------------------------------------------------------------------
(***************************************************************************)
(* A managed_bot update: the owner has created bot b in Telegram.  Telegram *)
(* delivers it again until it is answered.                                  *)
(***************************************************************************)
Offered == {i \in Intents : intents[i].state = "PENDING"}
Underway(b) == {i \in Intents : intents[i].state = "PROCESSING" /\ intents[i].bot = b}
Done(b) == {i \in Intents : intents[i].state = "COMPLETED" /\ intents[i].bot = b}
Latest(set) == CHOOSE i \in set : \A j \in set : j <= i

Swept(lapsed) == [i \in Intents |-> IF i \in lapsed THEN [intents[i] EXCEPT !.state = "EXPIRED"]
                                    ELSE intents[i]]

(* claimManagedBotIntent: the newest offered, or one whose lease ran out.   *)
(* Thirty minutes, or the minute of the lease, may be over at any moment.   *)
(* Not found and busy throw, and undo the sweep; when the bot's intent is   *)
(* completed there is only a lapsed one to expire, which no claim would     *)
(* take either.                                                             *)
ClaimIntent(h, b) ==
    /\ h # Form /\ HandAt(h, "idle")
    /\ \E lapsed \in SUBSET Offered :
         LET open == Offered \ lapsed
             i == IF open # {} THEN Latest(open) ELSE Latest(Underway(b))
         IN  /\ IF open # {} THEN intents[i].bot \in {NoBot, b}
                ELSE Done(b) = {} /\ Underway(b) # {}
             /\ intents' = [Swept(lapsed) EXCEPT ![i].state = "PROCESSING", ![i].bot = b]
             /\ hands' = [hands EXCEPT ![h] = [IdleHand EXCEPT !.pc = "look", !.intent = i,
                                                 !.bot = b, !.salon = intents[i].salon]]
    /\ UNCHANGED <<rows, webhook, drawn, settings, everActive>> /\ Sound

(* findConnectedBusinessTelegramBot *)
AlreadyConnected(h) == \E r \in SalonRow(hands[h].salon) :
                          rows[r].bot = hands[h].bot /\ rows[r].state = "ACTIVE"

LookForBot(h) ==
    /\ HandAt(h, "look")
    /\ IF AlreadyConnected(h)
       THEN HandTo(h, "complete") /\ UNCHANGED <<rows, webhook, drawn, everActive>>
       ELSE StartsConnect(h, hands[h].salon, hands[h].bot, hands[h].intent)
    /\ UNCHANGED <<intents, settings>> /\ Sound

(* completeManagedBotIntent: an intent that was reset meanwhile is missed,  *)
(* and that counts as a failure, though the bot is connected.               *)
CompleteIntent(h) ==
    LET i == hands[h].intent
        mine == intents[i].bot = hands[h].bot
        open == mine /\ intents[i].state \in {"PENDING", "PROCESSING"}
    IN  /\ HandAt(h, "complete")
        /\ intents' = IF open THEN [intents EXCEPT ![i].state = "COMPLETED"] ELSE intents
        /\ HandTo(h, IF open \/ (mine /\ intents[i].state = "COMPLETED") THEN "tell" ELSE "fail")
        /\ UNCHANGED <<rows, webhook, drawn, settings, everActive>> /\ Sound

(* The message to the owner is sent inside the same try. *)
TellOwner(h) ==
    /\ HandAt(h, "tell")
    /\ \/ HandRests(h) /\ Sound
       \/ HandTo(h, "fail") /\ Faulty
    /\ UNCHANGED webhook /\ RowsOnlyKept /\ UNCHANGED <<intents, settings>>

(* failManagedBotIntent: by id, with no look at its state *)
FailIntent(h) ==
    /\ HandAt(h, "fail")
    /\ intents' = [intents EXCEPT ![hands[h].intent].state = "PENDING",
                                  ![hands[h].intent].bot = NoBot]
    /\ HandRests(h)
    /\ UNCHANGED <<rows, webhook, drawn, settings, everActive>> /\ Sound

(* The process dies, or the browser gives up and Telegram delivers again.   *)
HandDies(h) ==
    /\ ~HandAt(h, "idle") /\ HandRests(h) /\ Faulty
    /\ UNCHANGED webhook /\ RowsOnlyKept /\ UNCHANGED <<intents, settings>>

TelegramSetupNext ==
    \/ \E h \in Hands :
         \/ ConnectHooks(h) \/ ConnectDrops(h) \/ ConnectSaves(h)
         \/ RotateHooks(h) \/ RotateSaves(h) \/ RotateCleans(h)
         \/ Unhooks(h) \/ DisconnectSaves(h)
         \/ AdminRetries(h) \/ RetryHooks(h) \/ RetrySaves(h)
         \/ OtherTab(h)
         \/ \E b \in Bots : ClaimIntent(h, b)
         \/ LookForBot(h) \/ CompleteIntent(h) \/ TellOwner(h) \/ FailIntent(h) \/ HandDies(h)
    \/ (\E b \in Bots : SubmitToken(b)) \/ SubmitDisconnect \/ ReloadSettings
    \/ \E i \in Intents, s \in Salons : CreateIntent(i, s)

TelegramSetupSpec == TelegramSetupInit /\ [][TelegramSetupNext]_setupVars

---------------------------------------------------------------------------
(* What a client writes to a bot is never handled as another bot's: when    *)
(* the webhook of a bot leads to a row, that row is of this bot, however    *)
(* connections, rotations, disconnections and retries overlapped or broke   *)
(* off half way.                                                            *)
(*                                                                          *)
(* The owner is told that the bot is connected, and the intent closed, only *)
(* when that bot has been the salon's: a connection that another delivery   *)
(* has begun, and may take back, is not enough.  Excepted are connections   *)
(* that a rotation or a disconnection overtook before they were finished.   *)
SetupLeadsHome ==
    /\ \A b \in Bots, r \in Keys :
         (webhook[b] # Nothing /\ rows[r].state # "none" /\ rows[r].key = webhook[b]) => rows[r].bot = b
    /\ \A i \in Intents : intents[i].state = "COMPLETED" => <<intents[i].salon, intents[i].bot>> \in everActive
============================================================================
