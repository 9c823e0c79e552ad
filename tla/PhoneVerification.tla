------------------------ MODULE PhoneVerification ------------------------
(***************************************************************************)
(* The one-time codes that prove a phone number: rows of PhoneVerification, *)
(* the requests that send, confirm and spend them                           *)
(* (src/src/core/security/phone-verification-service.ts and the gate of the *)
(* public booking routes), the limit on requests, and the maintenance job.  *)
(* The module follows one number.                                           *)
(***************************************************************************)
EXTENDS Integers, FiniteSets

CONSTANTS
    Codes,            \* rows, 1 .. n in the order of creation
    Visitors,         \* browser tabs; each has one request in flight
    Purposes,         \* what the codes may be asked for
    CodeTTL, VerifiedTTL, Cooldown,
    MaxGuesses,       \* PhoneVerification.maxAttempts
    RequestLimit, RequestWindow,  \* the rule of phone.request
    MaxUnspent,       \* bound on failures to spend a code after the booking
    MaxPhoneClock     \* bound on the clock

ASSUME PhoneAssumption ==
    /\ Codes \subseteq Nat \ {0}
    /\ Purposes # {} /\ Purposes \subseteq {"BOOKING", "CUSTOMER_LOGIN", "PASSWORD_RESET"}
    /\ {CodeTTL, VerifiedTTL, Cooldown, RequestLimit, MaxUnspent, MaxPhoneClock} \subseteq Nat
    /\ {MaxGuesses, RequestWindow} \subseteq Nat \ {0}

VARIABLES
    code,        \* PhoneVerification rows
    visitor,     \* what the request of a tab knows, and the code its form holds
    asked,       \* asked[w]: RateLimitCounter of window w
    used,        \* history: sessions, resets and bookings that a code bought
    guesses,     \* history: codes compared with a row
    overlapping, \* history: purposes that two requests worked on at once
    unspent,     \* history: codes that a booking failed to spend
    phoneClock

phoneVars == <<code, visitor, asked, used, guesses, overlapping,
               unspent, phoneClock>>

CodeRow == [status : {"NONE", "PENDING", "VERIFIED", "CONSUMED", "EXPIRED"},
            purpose : Purposes, expiresAt : Nat, sentAt : Nat, attempts : 0 .. MaxGuesses]
NoCode == [status |-> "NONE", purpose |-> CHOOSE p \in Purposes : TRUE,
           expiresAt |-> 0, sentAt |-> 0, attempts |-> 0]
Windows == 0 .. (MaxPhoneClock \div RequestWindow)

PhoneTypeOK ==
    /\ code \in [Codes -> CodeRow]
    /\ visitor \in [Visitors ->
         [pc : {"idle", "expire", "create", "sms", "right", "wrong", "spend", "book", "charge"},
          purpose : Purposes, code : Codes \cup {0}, now : 0 .. MaxPhoneClock,
          seen : 0 .. MaxGuesses, held : Codes \cup {0}]]
    /\ asked \in [Windows -> Nat]
    /\ used \in [Codes -> Nat] /\ guesses \in [Codes -> Nat]
    /\ overlapping \subseteq Purposes
    /\ unspent \subseteq Codes
    /\ phoneClock \in 0 .. MaxPhoneClock

PhoneInit ==
    /\ code = [v \in Codes |-> NoCode]
    /\ visitor = [x \in Visitors |-> [pc |-> "idle", purpose |-> NoCode.purpose, code |-> 0,
                                      now |-> 0, seen |-> 0, held |-> 0]]
    /\ asked = [w \in Windows |-> 0]
    /\ used = [v \in Codes |-> 0]
    /\ guesses = [v \in Codes |-> 0]
    /\ overlapping = {}
    /\ unspent = {}
    /\ phoneClock = 0

---------------------------------------------------------------------------
Idle(x) == visitor[x].pc = "idle"
Live(v) == code[v].expiresAt > phoneClock
Fresh(x) == [visitor[x] EXCEPT !.pc = "idle", !.code = 0, !.now = 0, !.seen = 0]
Ends(x) == visitor' = [visitor EXCEPT ![x] = Fresh(x)]

(* A request begins: history notes whom it overlaps. *)
Begins(x, purpose, next) ==
    /\ visitor' = [visitor EXCEPT ![x] = next]
    /\ overlapping' = IF \E y \in Visitors \ {x} : ~Idle(y) /\ visitor[y].purpose = purpose
                      THEN overlapping \cup {purpose} ELSE overlapping

CodesKept == UNCHANGED <<code, used, guesses, unspent>>
LimitKept == UNCHANGED <<asked, phoneClock>>

---------------------------------------------------------------------------
(***************************************************************************)
(* requestPhoneVerification                                                 *)
(***************************************************************************)
Window == phoneClock \div RequestWindow
Cooling(purpose) ==
    \E v \in Codes : /\ code[v].status = "PENDING" /\ code[v].purpose = purpose /\ Live(v)
                     /\ phoneClock - code[v].sentAt < Cooldown

(* consumeRateLimit counts before it refuses, and the cooldown comes after. *)
AskForCode(x, purpose) ==
    /\ Idle(x) /\ asked[Window] < RequestLimit
    /\ \E v \in Codes : code[v].status = "NONE"
    /\ asked' = [asked EXCEPT ![Window] = @ + 1]
    /\ IF Cooling(purpose)
       THEN UNCHANGED <<visitor, overlapping>>
       ELSE Begins(x, purpose, [Fresh(x) EXCEPT !.pc = "expire", !.purpose = purpose,
                                                !.now = phoneClock])
    /\ CodesKept /\ UNCHANGED phoneClock

(* A resend replaces the pending code ... *)
ExpirePending(x) ==
    /\ visitor[x].pc = "expire"
    /\ code' = [v \in Codes |->
         IF code[v].status = "PENDING" /\ code[v].purpose = visitor[x].purpose
         THEN [code[v] EXCEPT !.status = "EXPIRED"] ELSE code[v]]
    /\ visitor' = [visitor EXCEPT ![x].pc = "create"]
    /\ UNCHANGED <<used, guesses, overlapping, unspent>> /\ LimitKept

(* ... by a new one. *)
CreateCode(x, v) ==
    /\ visitor[x].pc = "create"
    /\ code[v].status = "NONE" /\ \A w \in Codes : w < v => code[w].status # "NONE"
    /\ code' = [code EXCEPT ![v] =
         [status |-> "PENDING", purpose |-> visitor[x].purpose, attempts |-> 0,
          expiresAt |-> visitor[x].now + CodeTTL, sentAt |-> visitor[x].now]]
    /\ visitor' = [visitor EXCEPT ![x].pc = "sms", ![x].code = v]
    /\ UNCHANGED <<used, guesses, overlapping, unspent>> /\ LimitKept

(* The answer may get lost: the form then holds the code before. *)
SmsAccepted(x, answered) ==
    /\ visitor[x].pc = "sms"
    /\ visitor' = [visitor EXCEPT ![x] =
         [Fresh(x) EXCEPT !.held = IF answered THEN visitor[x].code ELSE @]]
    /\ UNCHANGED overlapping /\ CodesKept /\ LimitKept

SmsRefused(x) ==
    /\ visitor[x].pc = "sms"
    /\ code' = [code EXCEPT ![visitor[x].code].status = "EXPIRED"]
    /\ Ends(x)
    /\ UNCHANGED <<used, guesses, overlapping, unspent>> /\ LimitKept

---------------------------------------------------------------------------
(***************************************************************************)
(* confirmPhoneVerification                                                 *)
(***************************************************************************)
Confirming(x, v) == Idle(x) /\ v = visitor[x].held /\ v # 0

(* A login or a reset spends the code at once; a form that books keeps it.  *)
Confirmed(x, v) ==
    [Fresh(x) EXCEPT !.pc = IF code[v].purpose = "BOOKING" THEN "idle" ELSE "spend",
                     !.purpose = code[v].purpose, !.code = v, !.now = visitor[x].now]

CompareCode(x, v, answer) ==
    /\ Confirming(x, v) /\ code[v].status = "PENDING" /\ Live(v)
    /\ guesses' = [guesses EXCEPT ![v] = @ + 1]
    /\ Begins(x, code[v].purpose,
              [Fresh(x) EXCEPT !.pc = answer, !.purpose = code[v].purpose, !.code = v,
                               !.now = phoneClock, !.seen = code[v].attempts])
    /\ UNCHANGED <<code, used, unspent>> /\ LimitKept

(* Confirmed before, by a request whose answer was lost *)
ConfirmAgain(x, v) ==
    /\ Confirming(x, v) /\ code[v].status = "VERIFIED" /\ Live(v)
    /\ code[v].purpose # "BOOKING"
    /\ Begins(x, code[v].purpose, [Confirmed(x, v) EXCEPT !.now = phoneClock])
    /\ CodesKept /\ LimitKept

ConfirmLate(x, v) ==
    /\ Confirming(x, v) /\ code[v].status = "PENDING" /\ ~Live(v)
    /\ code' = [code EXCEPT ![v].status = "EXPIRED"]
    /\ UNCHANGED <<visitor, used, guesses, overlapping, unspent>> /\ LimitKept

(* Altered: one guess too many *)
GuessesExceeded(n) == n > MaxGuesses

GuessesOver(n) == n >= MaxGuesses

(* Both updates go by id, whatever happened to the row since the read. *)
CountWrongCode(x) ==
    /\ visitor[x].pc = "wrong"
    /\ code' = [code EXCEPT ![visitor[x].code] =
         [@ EXCEPT !.attempts = visitor[x].seen + 1,
                   !.status = IF GuessesOver(visitor[x].seen + 1) THEN "EXPIRED" ELSE "PENDING"]]
    /\ Ends(x)
    /\ UNCHANGED <<used, guesses, overlapping, unspent>> /\ LimitKept

MarkVerified(x) ==
    /\ visitor[x].pc = "right"
    /\ LET v == visitor[x].code IN
       /\ code' = [code EXCEPT ![v] =
            [@ EXCEPT !.status = "VERIFIED", !.attempts = visitor[x].seen + 1,
                      !.expiresAt = visitor[x].now + VerifiedTTL]]
       /\ visitor' = [visitor EXCEPT ![x] = Confirmed(x, v)]
    /\ UNCHANGED <<used, guesses, overlapping, unspent>> /\ LimitKept

---------------------------------------------------------------------------
(***************************************************************************)
(* What a verified code buys                                                *)
(***************************************************************************)
(* Altered: a spent code counts as verified *)
OnceVerified(v, now) == code[v].status \in {"VERIFIED", "CONSUMED"} /\ code[v].expiresAt > now

Spendable(v, now) == code[v].status = "VERIFIED" /\ code[v].expiresAt > now

(* consumeVerifiedPhone, by the login and by the transaction of a reset *)
SpendCode(x) ==
    /\ visitor[x].pc = "spend"
    /\ LET v == visitor[x].code IN
       IF Spendable(v, visitor[x].now)
       THEN /\ code' = [code EXCEPT ![v].status = "CONSUMED"]
            /\ used' = [used EXCEPT ![v] = @ + 1]
       ELSE UNCHANGED <<code, used>>
    /\ Ends(x)
    /\ UNCHANGED <<guesses, overlapping, unspent>> /\ LimitKept

(* The request ends between the two: the code stays VERIFIED. *)
AbandonSpend(x) ==
    /\ visitor[x].pc = "spend" \/ visitor[x].pc = "book"
    /\ Ends(x)
    /\ UNCHANGED overlapping /\ CodesKept /\ LimitKept

(* assertPhoneVerified *)
PassGate(x, v) ==
    /\ Confirming(x, v) /\ code[v].purpose = "BOOKING" /\ Spendable(v, phoneClock)
    /\ Begins(x, "BOOKING", [Fresh(x) EXCEPT !.pc = "book", !.purpose = "BOOKING", !.code = v,
                                             !.now = phoneClock])
    /\ CodesKept /\ LimitKept

(* The booking, the series or the place on the waitlist is made first ... *)
Book(x) ==
    /\ visitor[x].pc = "book"
    /\ used' = [used EXCEPT ![visitor[x].code] = @ + 1]
    /\ visitor' = [visitor EXCEPT ![x].pc = "charge"]
    /\ UNCHANGED <<code, guesses, overlapping, unspent>> /\ LimitKept

(* ... and spendPhoneVerification spends the code, if it can. *)
SpendAfterBooking(x) ==
    /\ visitor[x].pc = "charge"
    /\ code' = IF Spendable(visitor[x].code, phoneClock)
               THEN [code EXCEPT ![visitor[x].code].status = "CONSUMED"] ELSE code
    /\ Ends(x)
    /\ UNCHANGED <<used, guesses, overlapping, unspent>> /\ LimitKept

FailToSpend(x) ==
    /\ visitor[x].pc = "charge" /\ Cardinality(unspent) < MaxUnspent
    /\ unspent' = unspent \cup {visitor[x].code}
    /\ Ends(x)
    /\ UNCHANGED <<code, used, guesses, overlapping>> /\ LimitKept

---------------------------------------------------------------------------
(* expireStalePhoneVerifications; a row goes a day after its code died, when *)
(* nobody can act on it any more, so the model leaves it.                    *)
ExpireStale ==
    /\ code' = [v \in Codes |->
         IF code[v].status \in {"PENDING", "VERIFIED"} /\ ~Live(v)
         THEN [code[v] EXCEPT !.status = "EXPIRED"] ELSE code[v]]
    /\ code' # code
    /\ UNCHANGED <<visitor, used, guesses, overlapping, unspent>> /\ LimitKept

(* deleteExpiredRateLimitCounters: windows that have closed *)
SweepCounters ==
    /\ asked' = [w \in Windows |-> IF w < Window THEN 0 ELSE asked[w]]
    /\ asked' # asked
    /\ UNCHANGED <<code, visitor, used, guesses, overlapping, unspent,
                   phoneClock>>

PhoneTick ==
    /\ phoneClock < MaxPhoneClock
    /\ phoneClock' = phoneClock + 1
    /\ UNCHANGED <<code, visitor, asked, used, guesses, overlapping, unspent>>

PhoneNext ==
    \/ \E x \in Visitors :
        \/ \E p \in Purposes : AskForCode(x, p)
        \/ ExpirePending(x) \/ SmsRefused(x)
        \/ \E v \in Codes : CreateCode(x, v) \/ ConfirmAgain(x, v) \/ ConfirmLate(x, v)
        \/ \E answered \in BOOLEAN : SmsAccepted(x, answered)
        \/ \E v \in Codes, a \in {"right", "wrong"} : CompareCode(x, v, a)
        \/ CountWrongCode(x) \/ MarkVerified(x) \/ SpendCode(x) \/ AbandonSpend(x)
        \/ \E v \in Codes : PassGate(x, v)
        \/ Book(x) \/ SpendAfterBooking(x) \/ FailToSpend(x)
    \/ ExpireStale \/ SweepCounters \/ PhoneTick

PhoneSpec == PhoneInit /\ [][PhoneNext]_phoneVars

---------------------------------------------------------------------------
(* "One SMS buys one booking" (consumeVerifiedPhone): requests about one    *)
(* purpose that do not overlap use a code once, unless the booking could    *)
(* not spend it, whatever answers get lost and whenever the job sweeps.     *)
(*                                                                          *)
(* A code is compared with at most maxAttempts inputs, unless requests      *)
(* overlap: a confirmation reads the row and writes it later.               *)
CodeLimitsHold ==
    \A v \in Codes :
        /\ used[v] > 1 => code[v].purpose \in overlapping \/ v \in unspent
        /\ guesses[v] > MaxGuesses => code[v].purpose \in overlapping
===========================================================================
