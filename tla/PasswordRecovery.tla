------------------------- MODULE PasswordRecovery -------------------------
(***************************************************************************)
(* A forgotten password: the form of the recovery page                      *)
(* (src/src/features/auth/password-reset-form.tsx), its two routes with     *)
(* their counters, and src/src/core/auth/password-reset.ts.  The rows of    *)
(* the codes, their cooldown, attempts and clean-up are those of            *)
(* PhoneVerification; here they are seen from the form, within one window   *)
(* of the rules.                                                            *)
(***************************************************************************)
EXTENDS Integers

CONSTANTS
    RecoveryRequests,  \* requests in flight
    ResetCodes,        \* rows of PhoneVerification
    Numbers,           \* phone numbers that are typed
    WithAccount,       \* those that belong to a user
    NoRequest, Blank,     \* no request, and the empty id of an unknown number
    AskLimit,          \* the rule of auth.password_reset
    VerifyLimit,       \* the rule of phone.verify
    MaxRecoveries      \* bound on presses

ASSUME PasswordRecoveryAssumption ==
    /\ Numbers # {} /\ WithAccount \subseteq Numbers
    /\ NoRequest \notin RecoveryRequests /\ Blank \notin ResetCodes
    /\ {AskLimit, VerifyLimit} \subseteq Nat \ {0}
    /\ MaxRecoveries \in Nat

VARIABLES
    resetForm,     \* the form: its step, its number, the id it holds, and the request it waits for
    recovery,      \* what a request knows
    resetCode,     \* PhoneVerification rows of PASSWORD_RESET
    counted,       \* RateLimitCounter.count, by rule and subject
    texts,         \* history: SMS sent, by number
    tried,         \* history: codes compared
    resets,        \* history: passwords that a code bought
    met,           \* history: codes that two requests worked on at once
    uncounted,     \* history: the limiter failed
    recoveries

recoveryVars == <<resetForm, recovery, resetCode, counted, texts, tried, resets, met, uncounted,
                  recoveries>>

AskedFrom(n) == <<"auth.password_reset", n>>
TheAddress == "ADDRESS"
GuessedFrom == <<"phone.verify", TheAddress>>
RecoveryCounters == {AskedFrom(n) : n \in Numbers \cup {TheAddress}} \cup {GuessedFrom}
RuleOf(s) == IF s = GuessedFrom THEN VerifyLimit ELSE AskLimit
NoRecovery == [pc |-> "idle", number |-> CHOOSE n \in Numbers : TRUE, code |-> Blank]

PasswordRecoveryTypeOK ==
    /\ resetForm \in [step : {"phone", "code", "done"}, number : Numbers, held : ResetCodes \cup {Blank},
                      waits : RecoveryRequests \cup {NoRequest}]
    /\ recovery \in [RecoveryRequests ->
         [pc : {"idle", "address", "number", "send", "sms", "verify", "read", "right", "wrong", "commit"},
          number : Numbers, code : ResetCodes \cup {Blank}]]
    /\ resetCode \in [ResetCodes -> [status : {"NONE", "PENDING", "VERIFIED", "CONSUMED", "EXPIRED"},
                                     number : Numbers, live : BOOLEAN]]
    /\ counted \in [RecoveryCounters -> Nat]
    /\ texts \in [Numbers -> Nat] /\ tried \in Nat /\ resets \in [ResetCodes -> Nat]
    /\ met \subseteq ResetCodes /\ uncounted \in BOOLEAN
    /\ recoveries \in 0 .. MaxRecoveries

PasswordRecoveryInit ==
    /\ resetForm = [step |-> "phone", number |-> NoRecovery.number, held |-> Blank, waits |-> NoRequest]
    /\ recovery = [q \in RecoveryRequests |-> NoRecovery]
    /\ resetCode = [c \in ResetCodes |-> [status |-> "NONE", number |-> NoRecovery.number, live |-> FALSE]]
    /\ counted = [s \in RecoveryCounters |-> 0]
    /\ texts = [n \in Numbers |-> 0]
    /\ tried = 0 /\ resets = [c \in ResetCodes |-> 0]
    /\ met = {} /\ uncounted = FALSE /\ recoveries = 0

---------------------------------------------------------------------------
AtStep(q, pc) == recovery[q].pc = pc
StepsTo(q, pc) == recovery' = [recovery EXCEPT ![q] = [@ EXCEPT !.pc = pc]]
RecoveryLimitsKept == UNCHANGED <<counted, uncounted, recoveries>>
RowsAsBefore == UNCHANGED <<resetCode, texts, tried, resets, met>>

(* The answer reaches the form if it still waits for this request. *)
Tells(q, step, held) ==
    /\ recovery' = [recovery EXCEPT ![q] = NoRecovery]
    /\ resetForm' = IF resetForm.waits = q
                    THEN [resetForm EXCEPT !.step = step, !.held = held, !.waits = NoRequest]
                    ELSE resetForm
Declines(q) == Tells(q, resetForm.step, resetForm.held)

(* requestCode; isSubmitting keeps one request at a time. *)
AskForReset(q, n) ==
    /\ resetForm.step = "phone" /\ resetForm.waits = NoRequest /\ AtStep(q, "idle")
    /\ recoveries < MaxRecoveries /\ recoveries' = recoveries + 1
    /\ resetForm' = [resetForm EXCEPT !.number = n, !.waits = q]
    /\ recovery' = [recovery EXCEPT ![q] = [NoRecovery EXCEPT !.pc = "address", !.number = n]]
    /\ RowsAsBefore /\ UNCHANGED <<counted, uncounted>>

(* confirmReset; a form that holds no id says so by itself. *)
ConfirmReset(q) ==
    /\ resetForm.step = "code" /\ resetForm.waits = NoRequest /\ AtStep(q, "idle")
    /\ resetForm.held # Blank
    /\ recoveries < MaxRecoveries /\ recoveries' = recoveries + 1
    /\ resetForm' = [resetForm EXCEPT !.waits = q]
    /\ recovery' = [recovery EXCEPT ![q] =
         [NoRecovery EXCEPT !.pc = "verify", !.number = resetForm.number, !.code = resetForm.held]]
    /\ met' = IF \E r \in RecoveryRequests \ {q} : recovery[r].code = resetForm.held
              THEN met \cup {resetForm.held} ELSE met
    /\ UNCHANGED <<resetCode, texts, tried, resets, counted, uncounted>>

(* "Another number": the link works while a confirmation is on its way. *)
AnotherNumber ==
    /\ resetForm.step = "code"
    /\ resetForm' = [resetForm EXCEPT !.step = "phone", !.held = Blank]
    /\ UNCHANGED recovery /\ RowsAsBefore /\ RecoveryLimitsKept

LoseConnection ==
    /\ resetForm.waits # NoRequest
    /\ resetForm' = [resetForm EXCEPT !.waits = NoRequest]
    /\ UNCHANGED recovery /\ RowsAsBefore /\ RecoveryLimitsKept

---------------------------------------------------------------------------
CountsOn(q) == IF AtStep(q, "verify") THEN GuessedFrom
              ELSE AskedFrom(IF AtStep(q, "address") THEN TheAddress ELSE recovery[q].number)
NextCheck(pc) == CASE pc = "address" -> "number" [] pc = "number" -> "send" [] pc = "verify" -> "read"
PassesTheCounter(q) == StepsTo(q, NextCheck(recovery[q].pc))

(* assertRateLimit: the count is one statement, and comes before the refusal. *)
CountRequest(q) ==
    /\ recovery[q].pc \in {"address", "number", "verify"}
    /\ counted' = [counted EXCEPT ![CountsOn(q)] = @ + 1]
    /\ IF counted'[CountsOn(q)] <= RuleOf(CountsOn(q))
       THEN PassesTheCounter(q) /\ UNCHANGED resetForm
       ELSE Declines(q)
    /\ RowsAsBefore /\ UNCHANGED <<uncounted, recoveries>>

(* It fails open. *)
LimiterDown(q) ==
    /\ recovery[q].pc \in {"address", "number", "verify"}
    /\ uncounted' = TRUE
    /\ PassesTheCounter(q)
    /\ RowsAsBefore /\ UNCHANGED <<resetForm, counted, recoveries>>

---------------------------------------------------------------------------
(* requestPasswordReset: a number without an account gets the same answer,  *)
(* an empty id, and no SMS.                                                 *)
UnknownNumber(q) ==
    /\ AtStep(q, "send") /\ recovery[q].number \notin WithAccount
    /\ Tells(q, "code", Blank)
    /\ RowsAsBefore /\ RecoveryLimitsKept

MakeCode(q, c) ==
    /\ AtStep(q, "send") /\ recovery[q].number \in WithAccount /\ resetCode[c].status = "NONE"
    /\ resetCode' = [d \in ResetCodes |->
         IF d = c THEN [status |-> "PENDING", number |-> recovery[q].number, live |-> TRUE]
         ELSE IF resetCode[d].status = "PENDING" /\ resetCode[d].number = recovery[q].number
         THEN [resetCode[d] EXCEPT !.status = "EXPIRED"] ELSE resetCode[d]]
    /\ recovery' = [recovery EXCEPT ![q] = [@ EXCEPT !.pc = "sms", !.code = c]]
    /\ UNCHANGED <<resetForm, texts, tried, resets, met>> /\ RecoveryLimitsKept

(* Its own limit or its cooldown *)
CodeTooSoon(q) ==
    /\ AtStep(q, "send") /\ recovery[q].number \in WithAccount
    /\ Declines(q) /\ RowsAsBefore /\ RecoveryLimitsKept

ResetTextSent(q) ==
    /\ AtStep(q, "sms")
    /\ texts' = [texts EXCEPT ![recovery[q].number] = @ + 1]
    /\ Tells(q, "code", recovery[q].code)
    /\ UNCHANGED <<resetCode, tried, resets, met>> /\ RecoveryLimitsKept

TextRefused(q) ==
    /\ AtStep(q, "sms")
    /\ resetCode' = [resetCode EXCEPT ![recovery[q].code] = [@ EXCEPT !.status = "EXPIRED"]]
    /\ Declines(q)
    /\ UNCHANGED <<texts, tried, resets, met>> /\ RecoveryLimitsKept

---------------------------------------------------------------------------
(* completePasswordReset.  A code confirmed before passes without a look at *)
(* the digits: its answer may have been lost.                               *)
ConfirmedBefore(q) ==
    /\ AtStep(q, "read") /\ resetCode[recovery[q].code].status = "VERIFIED" /\ resetCode[recovery[q].code].live
    /\ StepsTo(q, "commit")
    /\ UNCHANGED resetForm /\ RowsAsBefore /\ RecoveryLimitsKept

CompareDigits(q, outcome) ==
    /\ AtStep(q, "read") /\ resetCode[recovery[q].code].status = "PENDING" /\ resetCode[recovery[q].code].live
    /\ tried' = tried + 1
    /\ StepsTo(q, outcome)
    /\ UNCHANGED <<resetForm, resetCode, texts, resets, met>> /\ RecoveryLimitsKept

CodeIsOver(q) ==
    /\ AtStep(q, "read")
    /\ LET c == recovery[q].code IN
       /\ ~(resetCode[c].status \in {"PENDING", "VERIFIED"} /\ resetCode[c].live)
       /\ resetCode' = [resetCode EXCEPT ![c] =
            [@ EXCEPT !.status = IF resetCode[c].status = "PENDING" THEN "EXPIRED" ELSE resetCode[c].status]]
    /\ Declines(q)
    /\ UNCHANGED <<texts, tried, resets, met>> /\ RecoveryLimitsKept

(* Both outcomes are written by id.  The last wrong guess ends the code. *)
MarkWrong(q, status) ==
    /\ AtStep(q, "wrong")
    /\ resetCode' = [resetCode EXCEPT ![recovery[q].code] = [@ EXCEPT !.status = status]]
    /\ Declines(q)
    /\ UNCHANGED <<texts, tried, resets, met>> /\ RecoveryLimitsKept

MarkRight(q) ==
    /\ AtStep(q, "right")
    /\ resetCode' = [resetCode EXCEPT ![recovery[q].code] = [@ EXCEPT !.status = "VERIFIED", !.live = TRUE]]
    /\ StepsTo(q, "commit")
    /\ UNCHANGED <<resetForm, texts, tried, resets, met>> /\ RecoveryLimitsKept

(* Spending the code and changing the password are one transaction; the     *)
(* code is judged by the time the request began.                            *)
CommitReset(q) ==
    /\ AtStep(q, "commit")
    /\ LET c == recovery[q].code IN
       IF resetCode[c].status = "VERIFIED"
       THEN /\ resetCode' = [resetCode EXCEPT ![c] = [@ EXCEPT !.status = "CONSUMED"]]
            /\ resets' = [resets EXCEPT ![c] = @ + 1]
            /\ Tells(q, "done", resetForm.held)
       ELSE Declines(q) /\ UNCHANGED <<resetCode, resets>>
    /\ UNCHANGED <<texts, tried, met>> /\ RecoveryLimitsKept

(* The process ends, or the database does not answer. *)
RecoveryBreaks(q) ==
    /\ ~AtStep(q, "idle")
    /\ Declines(q) /\ RowsAsBefore /\ RecoveryLimitsKept

ResetCodeRunsOut(c) ==
    /\ resetCode[c].live
    /\ resetCode' = [resetCode EXCEPT ![c] = [@ EXCEPT !.live = FALSE]]
    /\ UNCHANGED <<resetForm, recovery, texts, tried, resets, met>> /\ RecoveryLimitsKept

PasswordRecoveryNext ==
    \/ \E q \in RecoveryRequests :
         \/ \E n \in Numbers : AskForReset(q, n)
         \/ ConfirmReset(q) \/ CountRequest(q) \/ LimiterDown(q)
         \/ UnknownNumber(q) \/ CodeTooSoon(q) \/ ResetTextSent(q) \/ TextRefused(q)
         \/ ConfirmedBefore(q) \/ CodeIsOver(q) \/ MarkRight(q) \/ CommitReset(q) \/ RecoveryBreaks(q)
         \/ \E c \in ResetCodes : MakeCode(q, c)
         \/ \E outcome \in {"right", "wrong"} : CompareDigits(q, outcome)
         \/ \E status \in {"PENDING", "EXPIRED"} : MarkWrong(q, status)
    \/ \E c \in ResetCodes : ResetCodeRunsOut(c)
    \/ AnotherNumber \/ LoseConnection

PasswordRecoverySpec == PasswordRecoveryInit /\ [][PasswordRecoveryNext]_recoveryVars

---------------------------------------------------------------------------
(* However the requests of a form overlap with retries after lost answers:  *)
(* a number is texted, and codes are compared, no more often in a window    *)
(* than the rules say, unless the limiter failed; nobody without an account *)
(* is texted.                                                               *)
(*                                                                          *)
(* "a code must buy exactly one reset" (password-reset.ts): it buys at most *)
(* one, unless two requests worked on it at once.                           *)
RecoveriesAreLimited ==
    /\ ~uncounted => /\ \A n \in Numbers : texts[n] <= AskLimit
                     /\ tried <= VerifyLimit
    /\ \A n \in Numbers \ WithAccount : texts[n] = 0
    /\ \A c \in ResetCodes \ met : resets[c] <= 1
=============================================================================
