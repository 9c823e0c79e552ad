--------------------------- MODULE LoginThrottle ---------------------------
(***************************************************************************)
(* Signing in with a password, and the counters of wrong ones               *)
(* (src/src/core/auth/login-throttle.ts, src/src/core/security/             *)
(* rate-limit.ts): both counters are read before the password is compared   *)
(* and charged after it, and only for a wrong one.  The module follows the  *)
(* people behind one network address; whether a password is right is free.  *)
(***************************************************************************)
EXTENDS Integers, FiniteSets

CONSTANTS
    Identifiers,       \* phones and addresses, as they are typed
    SignIns,           \* sign-ins in flight
    LoginLimit,        \* the rule of auth.login
    AddressLimit,      \* the rule of auth.login_ip
    MaxSignIns,        \* bound on sign-ins
    MaxLimiterFaults,  \* bound on counters that cannot be read or written, and on processes that end
    MaxLoginWindow     \* bound on the clock, in windows of the rules

Address == "ADDRESS"

ASSUME LoginThrottleAssumption ==
    /\ IsFiniteSet(SignIns) /\ Address \notin Identifiers
    /\ {LoginLimit, AddressLimit} \subseteq Nat \ {0}
    /\ {MaxSignIns, MaxLimiterFaults, MaxLoginWindow} \subseteq Nat

VARIABLES
    failures,      \* RateLimitCounter.count, by subject and window
    signIn,        \* what a sign-in knows
    wrong,         \* history: wrong passwords that were compared
    turnedAway,    \* history: who was refused without a look at the password
    lostCounts,       \* history: windows with a count that was not made, or was lost
    signIns,
    limiterFaults,
    loginWindow

loginVars == <<failures, signIn, wrong, turnedAway, lostCounts, signIns, limiterFaults, loginWindow>>

Subjects == Identifiers \cup {Address}
LoginWindows == 0 .. MaxLoginWindow
Limit(g) == IF g = Address THEN AddressLimit ELSE LoginLimit
NoSignIn == [pc |-> "idle", identifier |-> Address, window |-> 0, todo |-> {}, blocked |-> FALSE]

LoginThrottleTypeOK ==
    /\ {failures, wrong} \subseteq [Subjects -> [LoginWindows -> Nat]]
    /\ signIn \in [SignIns -> [pc : {"idle", "check", "compare", "charge"}, identifier : Subjects,
                               window : LoginWindows, todo : SUBSET Subjects, blocked : BOOLEAN]]
    /\ turnedAway \subseteq Identifiers \X LoginWindows
    /\ lostCounts \subseteq LoginWindows
    /\ signIns \in 0 .. MaxSignIns
    /\ limiterFaults \in 0 .. MaxLimiterFaults
    /\ loginWindow \in LoginWindows

LoginThrottleInit ==
    /\ failures = [g \in Subjects |-> [w \in LoginWindows |-> 0]]
    /\ signIn = [x \in SignIns |-> NoSignIn]
    /\ wrong = [g \in Subjects |-> [w \in LoginWindows |-> 0]]
    /\ turnedAway = {} /\ lostCounts = {}
    /\ signIns = 0 /\ limiterFaults = 0 /\ loginWindow = 0

---------------------------------------------------------------------------
SignsIn(x, pc) == signIn[x].pc = pc
CountedOn(x) == {signIn[x].identifier, Address}
CountsKept == UNCHANGED <<failures, wrong, loginWindow>>

(* The limiter does not answer: it fails open, and says so in the log. *)
LimiterFails(x) ==
    /\ limiterFaults < MaxLimiterFaults /\ limiterFaults' = limiterFaults + 1
    /\ lostCounts' = lostCounts \cup {signIn[x].window}
LimiterAnswers == UNCHANGED <<limiterFaults, lostCounts>>

(* The login form; the moment of the press decides the window. *)
PressSignIn(x, i) ==
    /\ SignsIn(x, "idle") /\ signIns < MaxSignIns
    /\ signIns' = signIns + 1
    /\ signIn' = [signIn EXCEPT ![x] = [pc |-> "check", identifier |-> i, window |-> loginWindow,
                                        todo |-> {i, Address}, blocked |-> FALSE]]
    /\ UNCHANGED turnedAway /\ LimiterAnswers /\ CountsKept

(* Once both counters are read, the sign-in is refused or goes on. *)
Checked(x, g, full) ==
    LET blocked == signIn[x].blocked \/ full
        todo == signIn[x].todo \ {g}
    IN  /\ signIn' = [signIn EXCEPT ![x] =
             IF todo # {} THEN [@ EXCEPT !.todo = todo, !.blocked = blocked]
             ELSE IF blocked THEN NoSignIn
             ELSE [@ EXCEPT !.pc = "compare", !.todo = {}]]
        /\ turnedAway' = IF todo = {} /\ blocked
                         THEN turnedAway \cup {<<signIn[x].identifier, signIn[x].window>>}
                         ELSE turnedAway
        /\ UNCHANGED signIns

(* Altered: one wrong password too many *)
OverTheLimit(g, n) == n > Limit(g)

Full(g, n) == n >= Limit(g)

(* isRateLimited, for both subjects at once *)
ReadCounter(x, g) ==
    /\ SignsIn(x, "check") /\ g \in signIn[x].todo
    /\ Checked(x, g, Full(g, failures[g][signIn[x].window]))
    /\ LimiterAnswers /\ CountsKept

CounterUnread(x, g) ==
    /\ SignsIn(x, "check") /\ g \in signIn[x].todo
    /\ Checked(x, g, FALSE)
    /\ LimiterFails(x) /\ CountsKept

(* authenticateCredentials: a right password costs nothing, and the session *)
(* is opened.                                                               *)
PasswordRight(x) ==
    /\ SignsIn(x, "compare")
    /\ signIn' = [signIn EXCEPT ![x] = NoSignIn]
    /\ UNCHANGED <<turnedAway, signIns>> /\ LimiterAnswers /\ CountsKept

PasswordWrong(x) ==
    /\ SignsIn(x, "compare")
    /\ LET w == signIn[x].window IN
       wrong' = [g \in Subjects |-> IF g \in CountedOn(x) THEN [wrong[g] EXCEPT ![w] = @ + 1]
                                    ELSE wrong[g]]
    /\ signIn' = [signIn EXCEPT ![x] = [@ EXCEPT !.pc = "charge", !.todo = CountedOn(x)]]
    /\ UNCHANGED <<failures, turnedAway, signIns, loginWindow>> /\ LimiterAnswers

(* recordRateLimitFailure, for both subjects at once *)
Charged(x, g) ==
    signIn' = [signIn EXCEPT ![x] = IF signIn[x].todo = {g} THEN NoSignIn
                                    ELSE [@ EXCEPT !.todo = signIn[x].todo \ {g}]]

ChargeFailure(x, g) ==
    /\ SignsIn(x, "charge") /\ g \in signIn[x].todo
    /\ failures' = [failures EXCEPT ![g] = [@ EXCEPT ![signIn[x].window] = failures[g][signIn[x].window] + 1]]
    /\ Charged(x, g)
    /\ UNCHANGED <<wrong, turnedAway, signIns, loginWindow>> /\ LimiterAnswers

FailureUncounted(x, g) ==
    /\ SignsIn(x, "charge") /\ g \in signIn[x].todo
    /\ Charged(x, g)
    /\ UNCHANGED <<turnedAway, signIns>> /\ LimiterFails(x) /\ CountsKept

(* The process ends, or the user cannot be read: nobody is told. *)
SignInBreaks(x) ==
    /\ ~SignsIn(x, "idle")
    /\ signIn' = [signIn EXCEPT ![x] = NoSignIn]
    /\ UNCHANGED <<turnedAway, signIns>> /\ LimiterFails(x) /\ CountsKept

(* deleteExpiredRateLimitCounters.  History: a sign-in that began in such a *)
(* window and has not ended finds its counter gone.                         *)
SweepFailures ==
    /\ failures' = [g \in Subjects |-> [w \in LoginWindows |-> IF w < loginWindow THEN 0 ELSE failures[g][w]]]
    /\ failures' # failures
    /\ lostCounts' = lostCounts \cup {w \in LoginWindows : /\ w < loginWindow
                                                     /\ \E x \in SignIns : ~SignsIn(x, "idle") /\ signIn[x].window = w}
    /\ UNCHANGED <<signIn, wrong, turnedAway, signIns, limiterFaults, loginWindow>>

WindowPasses ==
    /\ loginWindow < MaxLoginWindow
    /\ loginWindow' = loginWindow + 1
    /\ UNCHANGED <<failures, signIn, wrong, turnedAway, lostCounts, signIns, limiterFaults>>

LoginThrottleNext ==
    \/ \E x \in SignIns :
         \/ \E i \in Identifiers : PressSignIn(x, i)
         \/ \E g \in Subjects : ReadCounter(x, g) \/ CounterUnread(x, g) \/ ChargeFailure(x, g) \/ FailureUncounted(x, g)
         \/ PasswordRight(x) \/ PasswordWrong(x) \/ SignInBreaks(x)
    \/ SweepFailures \/ WindowPasses

LoginThrottleSpec == LoginThrottleInit /\ [][LoginThrottleNext]_loginVars

---------------------------------------------------------------------------
(* The counters are read before the comparison and charged after it, so     *)
(* sign-ins in flight together can pass the limit; each window lets through *)
(* at most that many wrong passwords more than its limit, for one name and  *)
(* for the address, unless a count was not made or was lost.                *)
(*                                                                          *)
(* "a receptionist who signs in correctly four times a day would spend the  *)
(* whole building's budget" (login-throttle.ts): nobody is refused in a     *)
(* window but for the wrong passwords of that window.                       *)
LoginsAreLimited ==
    /\ \A g \in Subjects, w \in LoginWindows \ lostCounts : wrong[g][w] < Limit(g) + Cardinality(SignIns)
    /\ \A i \in Identifiers, w \in LoginWindows :
         <<i, w>> \in turnedAway => \E g \in {i, Address} : wrong[g][w] >= Limit(g)
=============================================================================
