------------------------------ MODULE Salon_proofs ------------------------------
(***************************************************************************)
(* What holds, for every value of the constants, of who gets in and what    *)
(* the owners decide: sign-ins, codes and resets stay within their limits,  *)
(* a code buys once, an owner's decision on a service stands, archiving     *)
(* respects the visits ahead, and a day's schedule is cut, clustered and    *)
(* placed as it was meant to be.                                            *)
(***************************************************************************)
EXTENDS Access, PhoneVerification, FirstService, Catalogue, DayPicture,
        FiniteSetTheorems, WellFoundedInduction, TLAPS

-----------------------------------------------------------------------------
(***************************************************************************)
(* LoginThrottle.  A wrong password is counted, or its sign-in still owes   *)
(* the count; and whoever has read a counter and may yet add a wrong        *)
(* password to it read it while it was below the limit.  The two sets of    *)
(* sign-ins are disjoint, so what is counted and what may come exceed the   *)
(* limit by less than the sign-ins there are.                               *)
(***************************************************************************)
SignInRow == [pc : {"idle", "check", "compare", "charge"}, identifier : Subjects,
              window : LoginWindows, todo : SUBSET Subjects, blocked : BOOLEAN]

OwesCount(r, g, w) == r.pc = "charge" /\ r.window = w /\ g \in r.todo
MayAdd(r, g, w) == /\ r.window = w /\ g \in {r.identifier, Address}
                   /\ r.pc = "compare" \/ (r.pc = "check" /\ g \notin r.todo /\ ~r.blocked)
Owing(g, w) == {x \in SignIns : OwesCount(signIn[x], g, w)}
Passed(g, w) == {x \in SignIns : MayAdd(signIn[x], g, w)}
Closed(w) == w < loginWindow /\ \A x \in SignIns : signIn[x].pc # "idle" => signIn[x].window # w

ProperSignIn(r) ==
    r.pc # "idle" => r.identifier \in Identifiers /\ r.todo \subseteq {r.identifier, Address} /\ r.window <= loginWindow
ReachedLimit(i, w) == \E g \in {i, Address} : wrong[g][w] >= Limit(g)

CountsAddUp ==
    \A g \in Subjects, w \in LoginWindows :
        /\ failures[g][w] + Cardinality(Owing(g, w)) <= wrong[g][w]
        /\ w \notin lostCounts =>
             /\ Closed(w) \/ failures[g][w] + Cardinality(Owing(g, w)) = wrong[g][w]
             /\ wrong[g][w] + Cardinality(Passed(g, w)) < Limit(g) + Cardinality(SignIns)
RefusedRightly ==
    /\ \A i \in Identifiers, w \in LoginWindows : <<i, w>> \in turnedAway => ReachedLimit(i, w)
    /\ \A x \in SignIns : signIn[x].pc # "idle" /\ signIn[x].blocked => ReachedLimit(signIn[x].identifier, signIn[x].window)
LoginInv ==
    /\ LoginThrottleTypeOK /\ \A x \in SignIns : ProperSignIn(signIn[x])
    /\ CountsAddUp /\ RefusedRightly

OweOf(r, g, w) == IF OwesCount(r, g, w) THEN 1 ELSE 0
AddOf(r, g, w) == IF MayAdd(r, g, w) THEN 1 ELSE 0

(* Sets of sign-ins are counted by numbers. *)
LEMMA SignInsCount ==
  \A S \in SUBSET SignIns :
     /\ IsFiniteSet(S) /\ Cardinality(S) \in Nat /\ Cardinality(S) <= Cardinality(SignIns)
     /\ \A x \in SignIns : /\ x \in S => Cardinality(S \ {x}) = Cardinality(S) - 1
                           /\ x \notin S => Cardinality(S \cup {x}) = Cardinality(S) + 1
<1> TAKE S \in SUBSET SignIns
<1>1. IsFiniteSet(SignIns)
  BY LoginThrottleAssumption
<1>2. IsFiniteSet(S) /\ Cardinality(S) <= Cardinality(SignIns)
  BY <1>1, FS_Subset
<1>3. Cardinality(S) \in Nat
  BY <1>2, FS_CardinalityType
<1>4. \A x \in SignIns : x \in S => Cardinality(S \ {x}) = Cardinality(S) - 1
  BY <1>2, FS_RemoveElement
<1>5. \A x \in SignIns : x \notin S => Cardinality(S \cup {x}) = Cardinality(S) + 1
  BY <1>2, FS_AddElement
<1> QED
  BY <1>2, <1>3, <1>4, <1>5

(* Nobody owes a count and may still add one. *)
LEMMA TwoKindsOfSignIns ==
  ASSUME NEW g, NEW w
  PROVE  /\ Cardinality(Owing(g, w)) \in Nat /\ Cardinality(Passed(g, w)) \in Nat
         /\ Cardinality(Owing(g, w)) + Cardinality(Passed(g, w)) <= Cardinality(SignIns)
         /\ \A x \in SignIns : ~OwesCount(signIn[x], g, w) /\ ~MayAdd(signIn[x], g, w)
               => Cardinality(Owing(g, w)) + Cardinality(Passed(g, w)) + 1 <= Cardinality(SignIns)
<1> DEFINE O == Owing(g, w)
           P == Passed(g, w)
<1>1. O \subseteq SignIns /\ P \subseteq SignIns /\ O \cap P = {} /\ O \cup P \subseteq SignIns
  BY DEF Owing, Passed, OwesCount, MayAdd
<1>2. \A x \in SignIns : ~OwesCount(signIn[x], g, w) /\ ~MayAdd(signIn[x], g, w) => x \notin O \cup P
  BY DEF Owing, Passed
<1> HIDE DEF O, P
<1>3. Cardinality(O \cup P) = Cardinality(O) + Cardinality(P)
  <2>1. IsFiniteSet(O) /\ IsFiniteSet(P) /\ Cardinality(O) \in Nat /\ Cardinality(P) \in Nat
    BY <1>1, SignInsCount
  <2>2. Cardinality(O \cup P) = Cardinality(O) + Cardinality(P) - Cardinality(O \cap P)
    BY <2>1, FS_Union
  <2>3. Cardinality(O \cap P) = 0
    BY <1>1, FS_EmptySet
  <2> QED
    BY <2>1, <2>2, <2>3
<1>4. Cardinality(O) \in Nat /\ Cardinality(P) \in Nat /\ Cardinality(O) + Cardinality(P) <= Cardinality(SignIns)
  BY <1>1, <1>3, SignInsCount
<1>5. ASSUME NEW x \in SignIns, x \notin O \cup P PROVE Cardinality(O) + Cardinality(P) + 1 <= Cardinality(SignIns)
  <2>1. (O \cup P) \cup {x} \in SUBSET SignIns
    BY <1>1
  <2>2. Cardinality((O \cup P) \cup {x}) = Cardinality(O \cup P) + 1
    BY <1>1, <1>5, SignInsCount
  <2>3. Cardinality((O \cup P) \cup {x}) <= Cardinality(SignIns)
    BY <2>1, SignInsCount
  <2> QED
    BY <2>2, <2>3, <1>3
<1> QED
  BY <1>2, <1>4, <1>5 DEF O, P

(* A step of one sign-in moves it between the two. *)
LEMMA OneSignInMoves ==
  ASSUME NEW x \in SignIns, NEW r, signIn' = [signIn EXCEPT ![x] = r], signIn \in [SignIns -> SignInRow]
  PROVE  \A g \in Subjects, w \in LoginWindows :
            /\ Cardinality(Owing(g, w))' = Cardinality(Owing(g, w)) + OweOf(r, g, w) - OweOf(signIn[x], g, w)
            /\ Cardinality(Passed(g, w))' = Cardinality(Passed(g, w)) + AddOf(r, g, w) - AddOf(signIn[x], g, w)
<1> TAKE g \in Subjects, w \in LoginWindows
<1> DEFINE O == Owing(g, w)
           P == Passed(g, w)
<1>1. O \in SUBSET SignIns /\ P \in SUBSET SignIns
  BY DEF Owing, Passed
<1>2. signIn'[x] = r /\ \A y \in SignIns \ {x} : signIn'[y] = signIn[y]
  OBVIOUS
<1>3. Owing(g, w)' = IF OwesCount(r, g, w) THEN O \cup {x} ELSE O \ {x}
  BY <1>2 DEF Owing
<1>4. Passed(g, w)' = IF MayAdd(r, g, w) THEN P \cup {x} ELSE P \ {x}
  BY <1>2 DEF Passed
<1>5. (x \in O <=> OwesCount(signIn[x], g, w)) /\ (x \in P <=> MayAdd(signIn[x], g, w))
  BY DEF Owing, Passed
<1> HIDE DEF O, P
<1>6. \A S \in SUBSET SignIns : /\ Cardinality(S) \in Nat
                                /\ x \in S => S \cup {x} = S /\ Cardinality(S \ {x}) = Cardinality(S) - 1
                                /\ x \notin S => S \ {x} = S /\ Cardinality(S \cup {x}) = Cardinality(S) + 1
  BY SignInsCount
<1>7. Cardinality(Owing(g, w))' = Cardinality(O) + OweOf(r, g, w) - OweOf(signIn[x], g, w)
  <2>1. CASE OwesCount(r, g, w) /\ x \in O
    <3>1. Owing(g, w)' = O /\ Cardinality(O) \in Nat
      BY <2>1, <1>1, <1>3, <1>6
    <3>2. Cardinality(Owing(g, w))' = Cardinality(O)
      BY <3>1
    <3>3. OweOf(r, g, w) = OweOf(signIn[x], g, w) /\ OweOf(r, g, w) \in Nat
      BY <2>1, <1>5 DEF OweOf
    <3> QED
      BY <3>1, <3>2, <3>3
  <2>2. CASE OwesCount(r, g, w) /\ x \notin O
    BY <2>2, <1>1, <1>3, <1>5, <1>6 DEF OweOf
  <2>3. CASE ~OwesCount(r, g, w) /\ x \in O
    BY <2>3, <1>1, <1>3, <1>5, <1>6 DEF OweOf
  <2>4. CASE ~OwesCount(r, g, w) /\ x \notin O
    <3>1. Owing(g, w)' = O /\ Cardinality(O) \in Nat
      BY <2>4, <1>1, <1>3, <1>6
    <3>2. Cardinality(Owing(g, w))' = Cardinality(O)
      BY <3>1
    <3>3. OweOf(r, g, w) = OweOf(signIn[x], g, w) /\ OweOf(r, g, w) \in Nat
      BY <2>4, <1>5 DEF OweOf
    <3> QED
      BY <3>1, <3>2, <3>3
  <2> QED
    BY <2>1, <2>2, <2>3, <2>4
<1>8. Cardinality(Passed(g, w))' = Cardinality(P) + AddOf(r, g, w) - AddOf(signIn[x], g, w)
  <2>1. CASE MayAdd(r, g, w) /\ x \in P
    <3>1. Passed(g, w)' = P /\ Cardinality(P) \in Nat
      BY <2>1, <1>1, <1>4, <1>6
    <3>2. Cardinality(Passed(g, w))' = Cardinality(P)
      BY <3>1
    <3>3. AddOf(r, g, w) = AddOf(signIn[x], g, w) /\ AddOf(r, g, w) \in Nat
      BY <2>1, <1>5 DEF AddOf
    <3> QED
      BY <3>1, <3>2, <3>3
  <2>2. CASE MayAdd(r, g, w) /\ x \notin P
    BY <2>2, <1>1, <1>4, <1>5, <1>6 DEF AddOf
  <2>3. CASE ~MayAdd(r, g, w) /\ x \in P
    BY <2>3, <1>1, <1>4, <1>5, <1>6 DEF AddOf
  <2>4. CASE ~MayAdd(r, g, w) /\ x \notin P
    <3>1. Passed(g, w)' = P /\ Cardinality(P) \in Nat
      BY <2>4, <1>1, <1>4, <1>6
    <3>2. Cardinality(Passed(g, w))' = Cardinality(P)
      BY <3>1
    <3>3. AddOf(r, g, w) = AddOf(signIn[x], g, w) /\ AddOf(r, g, w) \in Nat
      BY <2>4, <1>5 DEF AddOf
    <3> QED
      BY <3>1, <3>2, <3>3
  <2> QED
    BY <2>1, <2>2, <2>3, <2>4
<1> QED
  BY <1>7, <1>8 DEF O, P

(* What a step of one sign-in does to the numbers. *)
Balanced(x, r) ==
    /\ r \in SignInRow /\ ProperSignIn(r) /\ signIn' = [signIn EXCEPT ![x] = r]
    /\ loginWindow' = loginWindow /\ lostCounts \subseteq lostCounts'
    /\ r.pc # "idle" => r.window = loginWindow \/ (signIn[x].pc # "idle" /\ r.window = signIn[x].window)
    /\ \A g \in Subjects, w \in LoginWindows :
         /\ failures'[g][w] \in Nat /\ wrong'[g][w] \in Nat
         /\ failures'[g][w] + OweOf(r, g, w) + wrong[g][w] <= wrong'[g][w] + failures[g][w] + OweOf(signIn[x], g, w)
         /\ w \notin lostCounts' =>
              /\ failures'[g][w] + OweOf(r, g, w) + wrong[g][w] = wrong'[g][w] + failures[g][w] + OweOf(signIn[x], g, w)
              /\ \/ wrong'[g][w] + AddOf(r, g, w) <= wrong[g][w] + AddOf(signIn[x], g, w)
                 \/ /\ wrong'[g][w] = wrong[g][w] /\ failures[g][w] < Limit(g)
                    /\ signIn[x].pc # "idle" /\ signIn[x].window = w
                    /\ ~OwesCount(signIn[x], g, w) /\ ~MayAdd(signIn[x], g, w)

LEMMA BitsAre ==
  \A r, g, w : OweOf(r, g, w) \in {0, 1} /\ AddOf(r, g, w) \in {0, 1} /\ (~MayAdd(r, g, w) => AddOf(r, g, w) = 0)
BY DEF OweOf, AddOf

LEMMA CountsStayBalanced ==
  ASSUME LoginInv, NEW x \in SignIns, NEW r, Balanced(x, r)
  PROVE  CountsAddUp'
<1>t. signIn \in [SignIns -> SignInRow] /\ failures \in [Subjects -> [LoginWindows -> Nat]]
      /\ wrong \in [Subjects -> [LoginWindows -> Nat]] /\ loginWindow \in LoginWindows
  BY DEF LoginInv, LoginThrottleTypeOK, SignInRow
<1>r. r \in SignInRow /\ signIn' = [signIn EXCEPT ![x] = r]
  BY DEF Balanced
<1> SUFFICES ASSUME NEW g \in Subjects, NEW w \in LoginWindows
             PROVE  /\ failures'[g][w] + Cardinality(Owing(g, w))' <= wrong'[g][w]
                    /\ w \notin lostCounts' =>
                         /\ Closed(w)' \/ failures'[g][w] + Cardinality(Owing(g, w))' = wrong'[g][w]
                         /\ wrong'[g][w] + Cardinality(Passed(g, w))' < Limit(g) + Cardinality(SignIns)
  BY DEF CountsAddUp, Limit
<1>l. Limit(g) \in Nat
  BY LoginThrottleAssumption DEF Limit
<1>c. Cardinality(SignIns) \in Nat
  BY SignInsCount
<1> DEFINE s == signIn[x]
           o == Cardinality(Owing(g, w))
           p == Cardinality(Passed(g, w))
<1>0. /\ Cardinality(Owing(g, w))' = Cardinality(Owing(g, w)) + OweOf(r, g, w) - OweOf(signIn[x], g, w)
      /\ Cardinality(Passed(g, w))' = Cardinality(Passed(g, w)) + AddOf(r, g, w) - AddOf(signIn[x], g, w)
  <2>1. signIn' = [signIn EXCEPT ![x] = r] /\ signIn \in [SignIns -> SignInRow]
    BY <1>r, <1>t
  <2> QED
    BY <2>1, OneSignInMoves
<1>1. Cardinality(Owing(g, w))' = o + OweOf(r, g, w) - OweOf(s, g, w)
  BY <1>0
<1>2. Cardinality(Passed(g, w))' = p + AddOf(r, g, w) - AddOf(s, g, w)
  BY <1>0
<1>3. /\ o \in Nat /\ p \in Nat
      /\ ~OwesCount(s, g, w) /\ ~MayAdd(s, g, w) => o + p + 1 <= Cardinality(SignIns)
  BY TwoKindsOfSignIns
<1>4. /\ failures[g][w] + o <= wrong[g][w]
      /\ w \notin lostCounts => /\ Closed(w) \/ failures[g][w] + o = wrong[g][w]
                                /\ wrong[g][w] + p < Limit(g) + Cardinality(SignIns)
  BY DEF LoginInv, CountsAddUp
<1>5. Closed(w) => Closed(w)'
  <2> SUFFICES ASSUME Closed(w), NEW y \in SignIns, signIn'[y].pc # "idle" PROVE signIn'[y].window # w
    BY DEF Closed, Balanced
  <2>1. CASE y # x
    BY <2>1, <1>r DEF Closed
  <2>2. CASE y = x
    <3>1. signIn'[y] = r
      BY <2>2, <1>r, <1>t
    <3>2. w # loginWindow
      BY <1>t DEF Closed, LoginWindows
    <3> QED
      BY <3>1, <3>2, <2>2 DEF Balanced, Closed
  <2> QED
    BY <2>1, <2>2
<1>6. s.pc # "idle" /\ s.window = w => ~Closed(w)
  BY DEF Closed
<1>n. /\ OweOf(r, g, w) \in {0, 1} /\ AddOf(r, g, w) \in {0, 1}
      /\ OweOf(s, g, w) \in {0, 1} /\ AddOf(s, g, w) \in {0, 1}
      /\ failures[g][w] \in Nat /\ wrong[g][w] \in Nat /\ failures'[g][w] \in Nat /\ wrong'[g][w] \in Nat
      /\ (~MayAdd(s, g, w) => AddOf(s, g, w) = 0)
  BY BitsAre, <1>t DEF Balanced
<1>7. /\ failures'[g][w] + OweOf(r, g, w) + wrong[g][w] <= wrong'[g][w] + failures[g][w] + OweOf(s, g, w)
      /\ w \notin lostCounts' =>
              /\ w \notin lostCounts
              /\ failures'[g][w] + OweOf(r, g, w) + wrong[g][w] = wrong'[g][w] + failures[g][w] + OweOf(s, g, w)
              /\ \/ wrong'[g][w] + AddOf(r, g, w) <= wrong[g][w] + AddOf(s, g, w)
                 \/ /\ wrong'[g][w] = wrong[g][w] /\ failures[g][w] < Limit(g)
                    /\ s.pc # "idle" /\ s.window = w
                    /\ ~OwesCount(s, g, w) /\ ~MayAdd(s, g, w)
  BY DEF Balanced
<1> HIDE DEF s, o, p
<1>8. failures'[g][w] + Cardinality(Owing(g, w))' <= wrong'[g][w]
  BY <1>1, <1>3, <1>4, <1>7, <1>n
<1>9. ASSUME w \notin lostCounts' PROVE Closed(w)' \/ failures'[g][w] + Cardinality(Owing(g, w))' = wrong'[g][w]
  BY <1>9, <1>1, <1>3, <1>4, <1>5, <1>7, <1>n
<1>10. ASSUME w \notin lostCounts'
       PROVE wrong'[g][w] + Cardinality(Passed(g, w))' < Limit(g) + Cardinality(SignIns)
  <2>1. CASE wrong'[g][w] + AddOf(r, g, w) <= wrong[g][w] + AddOf(s, g, w)
    BY <2>1, <1>10, <1>2, <1>3, <1>4, <1>7, <1>n, <1>l, <1>c
  <2>2. CASE /\ wrong'[g][w] = wrong[g][w] /\ failures[g][w] < Limit(g)
             /\ s.pc # "idle" /\ s.window = w
             /\ ~OwesCount(s, g, w) /\ ~MayAdd(s, g, w)
    <3>1. failures[g][w] + o = wrong[g][w] /\ o + p + 1 <= Cardinality(SignIns) /\ AddOf(s, g, w) = 0
      BY <2>2, <1>10, <1>3, <1>4, <1>6, <1>7, <1>n
    <3> QED
      BY <2>2, <3>1, <1>2, <1>3, <1>n, <1>l, <1>c
  <2> QED
    BY <2>1, <2>2, <1>10, <1>7
<1> QED
  BY <1>8, <1>9, <1>10

(* What a step of one sign-in does to the refusals. *)
Justified(x, r) ==
    /\ \A g \in Subjects, w \in LoginWindows : wrong[g][w] <= wrong'[g][w]
    /\ r.pc # "idle" /\ r.blocked => ReachedLimit(r.identifier, r.window)
    /\ \A i \in Identifiers, w \in LoginWindows : <<i, w>> \in turnedAway' => <<i, w>> \in turnedAway \/ ReachedLimit(i, w)

LEMMA RefusalsStayJustified ==
  ASSUME LoginInv, NEW x \in SignIns, NEW r, Balanced(x, r), Justified(x, r)
  PROVE  RefusedRightly'
<1>t. /\ signIn \in [SignIns -> SignInRow] /\ wrong \in [Subjects -> [LoginWindows -> Nat]]
      /\ r \in SignInRow /\ signIn' = [signIn EXCEPT ![x] = r]
      /\ \A g \in Subjects, w \in LoginWindows : wrong'[g][w] \in Nat
  BY DEF LoginInv, LoginThrottleTypeOK, SignInRow, Balanced
<1>l. \A g \in Subjects : Limit(g) \in Nat
  BY LoginThrottleAssumption DEF Limit
<1>1. ASSUME NEW i \in Subjects, NEW w \in LoginWindows, ReachedLimit(i, w) PROVE ReachedLimit(i, w)'
  <2>1. PICK g \in {i, Address} : wrong[g][w] >= Limit(g)
    BY <1>1 DEF ReachedLimit
  <2>2. g \in Subjects
    BY <2>1 DEF Subjects
  <2>3. wrong'[g][w] >= Limit(g)
    BY <2>1, <2>2, <1>t, <1>l DEF Justified
  <2> QED
    BY <2>1, <2>3 DEF ReachedLimit, Limit
<1>2. ASSUME NEW i \in Identifiers, NEW w \in LoginWindows, <<i, w>> \in turnedAway' PROVE ReachedLimit(i, w)'
  <2>1. ReachedLimit(i, w)
    BY <1>2 DEF Justified, LoginInv, RefusedRightly
  <2> QED
    BY <2>1, <1>1 DEF Subjects
<1>3. ASSUME NEW y \in SignIns, signIn'[y].pc # "idle", signIn'[y].blocked
      PROVE  ReachedLimit(signIn[y].identifier, signIn[y].window)'
  <2>1. PICK q \in SignInRow : q = signIn'[y]
    BY <1>t
  <2>2. ReachedLimit(q.identifier, q.window)
    <3>1. CASE y = x
      BY <3>1, <2>1, <1>t, <1>3 DEF Justified
    <3>2. CASE y # x
      BY <3>2, <2>1, <1>t, <1>3 DEF LoginInv, RefusedRightly
    <3> QED
      BY <3>1, <3>2
  <2>3. q.identifier \in Subjects /\ q.window \in LoginWindows
    BY DEF SignInRow
  <2>4. ReachedLimit(q.identifier, q.window)'
    BY <2>2, <2>3, <1>1
  <2> QED
    BY <2>1, <2>4
<1> QED
  BY <1>2, <1>3 DEF RefusedRightly

LEMMA StepKeepsLoginInv ==
  ASSUME LoginInv, NEW x \in SignIns, NEW r, Balanced(x, r), Justified(x, r), LoginThrottleTypeOK'
  PROVE  LoginInv'
<1>1. CountsAddUp'
  BY CountsStayBalanced
<1>2. RefusedRightly'
  BY RefusalsStayJustified
<1>3. ASSUME NEW y \in SignIns PROVE ProperSignIn(signIn[y])'
  <2>1. signIn' = [signIn EXCEPT ![x] = r] /\ signIn \in [SignIns -> SignInRow] /\ ProperSignIn(r) /\ loginWindow' = loginWindow
    BY DEF Balanced, LoginInv, LoginThrottleTypeOK, SignInRow
  <2>2. signIn'[y] = IF y = x THEN r ELSE signIn[y]
    BY <2>1
  <2> QED
    BY <2>1, <2>2 DEF ProperSignIn, LoginInv
<1> QED
  BY <1>1, <1>2, <1>3 DEF LoginInv

LEMMA IdleSignIn == NoSignIn \in SignInRow /\ NoSignIn.pc = "idle" /\ \A g, w : OweOf(NoSignIn, g, w) = 0 /\ AddOf(NoSignIn, g, w) = 0
<1>1. 0 \in LoginWindows
  BY LoginThrottleAssumption DEF LoginWindows
<1> QED
  BY <1>1 DEF NoSignIn, SignInRow, Subjects, OweOf, AddOf, OwesCount, MayAdd

(* A step that counts nothing, and lets nobody further whom a counter that  *)
(* was read did not.                                                        *)
Uncounting(x, r) ==
    /\ r \in SignInRow /\ signIn' = [signIn EXCEPT ![x] = r] /\ ProperSignIn(r)
    /\ UNCHANGED <<failures, wrong, loginWindow>> /\ lostCounts \subseteq lostCounts'
    /\ r.pc # "idle" => r.window = loginWindow \/ (signIn[x].pc # "idle" /\ r.window = signIn[x].window)
    /\ r.pc # "idle" /\ r.blocked => ReachedLimit(r.identifier, r.window)
    /\ \A i \in Identifiers, w \in LoginWindows : <<i, w>> \in turnedAway' => <<i, w>> \in turnedAway \/ ReachedLimit(i, w)
    /\ \A g \in Subjects, w \in LoginWindows :
         /\ OweOf(r, g, w) <= OweOf(signIn[x], g, w)
         /\ w \notin lostCounts' =>
              /\ OweOf(r, g, w) = OweOf(signIn[x], g, w)
              /\ \/ AddOf(r, g, w) <= AddOf(signIn[x], g, w)
                 \/ /\ failures[g][w] < Limit(g)
                    /\ signIn[x].pc # "idle" /\ signIn[x].window = w
                    /\ ~OwesCount(signIn[x], g, w) /\ ~MayAdd(signIn[x], g, w)

LEMMA UncountingStepKeeps ==
  ASSUME LoginInv, NEW x \in SignIns, NEW r, Uncounting(x, r), LoginThrottleTypeOK'
  PROVE  LoginInv'
<1>t. failures \in [Subjects -> [LoginWindows -> Nat]] /\ wrong \in [Subjects -> [LoginWindows -> Nat]]
  BY DEF LoginInv, LoginThrottleTypeOK
<1>n. \A s, g, w : OweOf(s, g, w) \in {0, 1} /\ AddOf(s, g, w) \in {0, 1}
  BY BitsAre
<1>1. ASSUME NEW g \in Subjects, NEW w \in LoginWindows
      PROVE  /\ failures'[g][w] = failures[g][w] /\ wrong'[g][w] = wrong[g][w]
             /\ failures[g][w] \in Nat /\ wrong[g][w] \in Nat
  BY <1>t DEF Uncounting
<1>2. Balanced(x, r)
  BY <1>n, <1>1 DEF Balanced, Uncounting
<1>3. Justified(x, r)
  BY <1>1 DEF Justified, Uncounting
<1> QED
  BY <1>2, <1>3, StepKeepsLoginInv

LEMMA LoginFacts ==
  ASSUME LoginInv, NEW x \in SignIns
  PROVE  /\ signIn \in [SignIns -> SignInRow] /\ signIn[x] \in SignInRow /\ ProperSignIn(signIn[x])
         /\ failures \in [Subjects -> [LoginWindows -> Nat]] /\ wrong \in [Subjects -> [LoginWindows -> Nat]]
         /\ loginWindow \in LoginWindows
         /\ Address \notin Identifiers /\ Address \in Subjects /\ Identifiers \subseteq Subjects
         /\ \A g \in Subjects : Limit(g) \in Nat
BY LoginThrottleAssumption DEF LoginInv, LoginThrottleTypeOK, SignInRow, Subjects, Limit

LEMMA PressKeeps ==
  ASSUME LoginInv, NEW x \in SignIns, NEW i \in Identifiers, PressSignIn(x, i)
  PROVE  LoginInv'
<1>1. PICK r : r = [pc |-> "check", identifier |-> i, window |-> loginWindow, todo |-> {i, Address}, blocked |-> FALSE]
  OBVIOUS
<1>2. /\ r \in SignInRow /\ ProperSignIn(r) /\ signIn' = [signIn EXCEPT ![x] = r]
      /\ r.window = loginWindow /\ ~r.blocked
  BY <1>1, LoginFacts DEF PressSignIn, SignInRow, ProperSignIn, LoginWindows
<1>3. \A g, w : OweOf(r, g, w) = 0 /\ AddOf(r, g, w) = 0 /\ OweOf(signIn[x], g, w) = 0
  BY <1>1 DEF PressSignIn, SignsIn, OweOf, AddOf, OwesCount, MayAdd
<1>4. LoginThrottleTypeOK'
  <2>1. signIns' \in 0 .. MaxSignIns
    BY LoginThrottleAssumption DEF PressSignIn, LoginInv, LoginThrottleTypeOK
  <2>2. signIn' \in [SignIns -> SignInRow]
    BY <1>2, LoginFacts
  <2> QED
    BY <2>1, <2>2 DEF PressSignIn, LimiterAnswers, CountsKept, LoginInv, LoginThrottleTypeOK, SignInRow
<1>5. UNCHANGED <<failures, wrong, loginWindow, lostCounts, turnedAway>>
  BY DEF PressSignIn, LimiterAnswers, CountsKept
<1>6. \A g, w : OweOf(signIn[x], g, w) \in {0, 1} /\ AddOf(signIn[x], g, w) \in {0, 1}
  BY BitsAre
<1>7. Uncounting(x, r)
  BY <1>2, <1>3, <1>5, <1>6 DEF Uncounting
<1> QED
  BY <1>7, <1>4, UncountingStepKeeps

LEMMA FullIsSaid == \A g, n : Full(g, n) \in BOOLEAN
BY DEF Full

(* A counter is read, or cannot be. *)
LEMMA CheckKeeps ==
  ASSUME LoginInv, NEW x \in SignIns, NEW g \in Subjects, ReadCounter(x, g) \/ CounterUnread(x, g)
  PROVE  LoginInv'
<1>s. PICK s \in SignInRow : s = signIn[x]
  BY LoginFacts
<1>0. s.pc = "check" /\ g \in s.todo /\ ProperSignIn(s) /\ g \in {s.identifier, Address} /\ s.identifier \in Identifiers
  BY <1>s, LoginFacts DEF ReadCounter, CounterUnread, SignsIn, ProperSignIn
<1>f. PICK full \in BOOLEAN :
         /\ Checked(x, g, full) /\ CountsKept
         /\ \/ full = Full(g, failures[g][s.window]) /\ LimiterAnswers
            \/ full = FALSE /\ LimiterFails(x)
  <2>1. CASE ReadCounter(x, g)
    <3>1. PICK full \in BOOLEAN : full = Full(g, failures[g][s.window])
      BY FullIsSaid, Zenon
    <3> QED
      BY <3>1, <2>1, <1>s DEF ReadCounter
  <2>2. CASE CounterUnread(x, g)
    BY <2>2 DEF CounterUnread
  <2> QED
    BY <2>1, <2>2
<1>k. UNCHANGED <<failures, wrong, loginWindow, signIns>> /\ lostCounts \subseteq lostCounts'
  BY <1>f DEF Checked, CountsKept, LimiterAnswers, LimiterFails
<1>l. full => ReachedLimit(s.identifier, s.window)
  <2> SUFFICES ASSUME full = TRUE PROVE ReachedLimit(s.identifier, s.window)
    OBVIOUS
  <2>1. failures[g][s.window] >= Limit(g)
    BY <1>f DEF Full
  <2>2. s.window \in LoginWindows /\ Cardinality(Owing(g, s.window)) \in Nat /\ failures[g][s.window] \in Nat
        /\ wrong[g][s.window] \in Nat /\ Limit(g) \in Nat
    BY LoginFacts, TwoKindsOfSignIns DEF SignInRow
  <2>3. failures[g][s.window] + Cardinality(Owing(g, s.window)) <= wrong[g][s.window]
    BY <2>2 DEF LoginInv, CountsAddUp
  <2>4. wrong[g][s.window] >= Limit(g)
    BY <2>1, <2>2, <2>3
  <2> QED
    BY <2>4, <1>0 DEF ReachedLimit
<1>b. s.blocked => ReachedLimit(s.identifier, s.window)
  BY <1>s, <1>0 DEF LoginInv, RefusedRightly

<1>r. PICK r : /\ signIn' = [signIn EXCEPT ![x] = r]
               /\ \/ /\ r = [s EXCEPT !.todo = s.todo \ {g}, !.blocked = (s.blocked \/ full)]
                     /\ s.todo \ {g} # {} /\ turnedAway' = turnedAway
                  \/ /\ r = NoSignIn /\ s.todo \ {g} = {} /\ (s.blocked \/ full)
                     /\ turnedAway' = turnedAway \cup {<<s.identifier, s.window>>}
                  \/ /\ r = [s EXCEPT !.pc = "compare", !.todo = {}]
                     /\ s.todo \ {g} = {} /\ ~s.blocked /\ ~full /\ turnedAway' = turnedAway
  BY <1>f, <1>s, LoginFacts DEF Checked
<1>1. r \in SignInRow /\ (r.pc # "idle" => r.window = s.window /\ r.identifier = s.identifier /\ r.todo = s.todo \ {g})
  <2>1. CASE r = [s EXCEPT !.todo = s.todo \ {g}, !.blocked = (s.blocked \/ full)]
    <3>1. PICK b \in BOOLEAN : b = (s.blocked \/ full)
      OBVIOUS
    <3>2. r = [s EXCEPT !.todo = s.todo \ {g}, !.blocked = b]
      BY <2>1, <3>1
    <3> QED
      BY <3>2 DEF SignInRow
  <2>2. CASE r = NoSignIn
    BY <2>2, IdleSignIn
  <2>3. CASE r = [s EXCEPT !.pc = "compare", !.todo = {}] /\ s.todo \ {g} = {}
    BY <2>3 DEF SignInRow
  <2> QED
    BY <1>r, <2>1, <2>2, <2>3
<1>2. ProperSignIn(r)
  BY <1>0, <1>1 DEF ProperSignIn
<1>3. LoginThrottleTypeOK'
  <2>1. signIn' \in [SignIns -> SignInRow]
    BY <1>1, <1>r, LoginFacts
  <2>2. turnedAway' \subseteq Identifiers \X LoginWindows
    BY <1>r, <1>0 DEF LoginInv, LoginThrottleTypeOK, SignInRow
  <2>3. lostCounts' \subseteq LoginWindows
    BY <1>f, <1>s DEF LimiterAnswers, LimiterFails, LoginInv, LoginThrottleTypeOK, SignInRow
  <2>4. limiterFaults' \in 0 .. MaxLimiterFaults
    BY <1>f, LoginThrottleAssumption DEF LimiterAnswers, LimiterFails, LoginInv, LoginThrottleTypeOK
  <2> QED
    BY <2>1, <2>2, <2>3, <2>4, <1>k DEF LoginInv, LoginThrottleTypeOK, SignInRow
<1>4. r.pc # "idle" /\ r.blocked => ReachedLimit(r.identifier, r.window)
  <2>1. r.pc # "idle" /\ r.blocked => s.blocked \/ full
    BY <1>r, IdleSignIn DEF SignInRow
  <2> QED
    BY <2>1, <1>1, <1>b, <1>l
<1>5. ASSUME NEW i \in Identifiers, NEW w \in LoginWindows, <<i, w>> \in turnedAway'
      PROVE  <<i, w>> \in turnedAway \/ ReachedLimit(i, w)
  BY <1>5, <1>r, <1>b, <1>l
<1>6. ASSUME NEW h \in Subjects, NEW w \in LoginWindows
      PROVE  /\ OweOf(r, h, w) = 0 /\ OweOf(s, h, w) = 0
             /\ w \notin lostCounts' => \/ AddOf(r, h, w) <= AddOf(s, h, w)
                                        \/ /\ failures[h][w] < Limit(h) /\ s.window = w
                                           /\ ~OwesCount(s, h, w) /\ ~MayAdd(s, h, w)
  <2>1. r.pc \in {"check", "compare", "idle"}
    BY <1>r, <1>0, IdleSignIn DEF SignInRow
  <2>2. OweOf(r, h, w) = 0 /\ OweOf(s, h, w) = 0
    BY <2>1, <1>0 DEF OweOf, OwesCount
  <2>3. ASSUME MayAdd(r, h, w), ~MayAdd(s, h, w), w \notin lostCounts' PROVE failures[h][w] < Limit(h) /\ s.window = w
    <3>1. s.window = w /\ h \in {s.identifier, Address} /\ r.pc # "idle"
      BY <2>3, <1>1 DEF MayAdd
    <3>2. ~s.blocked /\ full = FALSE
      BY <2>3, <1>r, IdleSignIn DEF MayAdd, SignInRow
    <3>3. h = g
      <4>1. h \in s.todo
        BY <3>1, <3>2, <2>3, <1>0 DEF MayAdd
      <4>2. r.pc = "check" => h \notin r.todo
        BY <2>3 DEF MayAdd
      <4>3. r.pc # "check" => s.todo \ {g} = {}
        BY <3>1, <1>r, <1>0, IdleSignIn DEF SignInRow
      <4> QED
        BY <4>1, <4>2, <4>3, <3>1, <1>1
    <3>4. ~LimiterFails(x)
      BY <3>1, <2>3, <1>s DEF LimiterFails
    <3>5. ~Full(g, failures[g][s.window])
      BY <1>f, <3>2, <3>4
    <3>6. failures[g][s.window] \in Nat /\ Limit(g) \in Nat
      BY LoginFacts DEF SignInRow
    <3> QED
      BY <3>1, <3>3, <3>5, <3>6 DEF Full
  <2>4. AddOf(r, h, w) \in {0, 1} /\ AddOf(s, h, w) \in {0, 1} /\ (~MayAdd(r, h, w) => AddOf(r, h, w) = 0)
        /\ (MayAdd(s, h, w) => AddOf(s, h, w) = 1) /\ ~OwesCount(s, h, w)
    BY <1>0 DEF AddOf, OwesCount
  <2> QED
    BY <2>2, <2>3, <2>4
<1>7. Uncounting(x, r)
  <2>1. r \in SignInRow /\ signIn' = [signIn EXCEPT ![x] = r] /\ ProperSignIn(r)
    BY <1>1, <1>2, <1>r
  <2>2. r.pc # "idle" => signIn[x].pc # "idle" /\ r.window = signIn[x].window
    BY <1>1, <1>0, <1>s
  <2> QED
    BY <2>1, <2>2, <1>k, <1>4, <1>5, <1>6, <1>s, <1>0 DEF Uncounting
<1> QED
  BY <1>7, <1>3, UncountingStepKeeps

(* The password is right, or the request breaks off. *)
LEMMA EndKeeps ==
  ASSUME LoginInv, NEW x \in SignIns, PasswordRight(x) \/ SignInBreaks(x)
  PROVE  LoginInv'
<1>1. /\ signIn' = [signIn EXCEPT ![x] = NoSignIn] /\ UNCHANGED <<failures, wrong, loginWindow, signIns, turnedAway>>
      /\ lostCounts \subseteq lostCounts'
      /\ OwesCount(signIn[x], Address, signIn[x].window) \/ signIn[x].pc = "charge" => lostCounts' = lostCounts \cup {signIn[x].window}
  BY DEF PasswordRight, SignInBreaks, LimiterAnswers, LimiterFails, CountsKept, SignsIn, OwesCount
<1>2. LoginThrottleTypeOK'
  <2>1. signIn' \in [SignIns -> SignInRow]
    BY <1>1, LoginFacts, IdleSignIn
  <2>2. limiterFaults' \in 0 .. MaxLimiterFaults /\ lostCounts' \subseteq LoginWindows
    BY LoginFacts, LoginThrottleAssumption
       DEF PasswordRight, SignInBreaks, LimiterAnswers, LimiterFails, LoginInv, LoginThrottleTypeOK, SignInRow
  <2> QED
    BY <1>1, <2>1, <2>2 DEF LoginInv, LoginThrottleTypeOK, SignInRow
<1>3. ASSUME NEW g \in Subjects, NEW w \in LoginWindows
      PROVE  /\ OweOf(NoSignIn, g, w) <= OweOf(signIn[x], g, w) /\ AddOf(NoSignIn, g, w) <= AddOf(signIn[x], g, w)
             /\ w \notin lostCounts' => OweOf(NoSignIn, g, w) = OweOf(signIn[x], g, w)
  <2>1. w \notin lostCounts' => ~OwesCount(signIn[x], g, w)
    BY <1>1 DEF OwesCount
  <2> QED
    BY <2>1, IdleSignIn, BitsAre DEF OweOf
<1>4. Uncounting(x, NoSignIn)
  BY <1>1, <1>3, IdleSignIn DEF Uncounting, ProperSignIn
<1> QED
  BY <1>4, <1>2, UncountingStepKeeps

(* A count that could not be made. *)
LEMMA UncountedKeeps ==
  ASSUME LoginInv, NEW x \in SignIns, NEW g \in Subjects, FailureUncounted(x, g)
  PROVE  LoginInv'
<1>s. PICK s \in SignInRow : s = signIn[x]
  BY LoginFacts
<1>0. s.pc = "charge" /\ g \in s.todo /\ ProperSignIn(s)
  BY <1>s, LoginFacts DEF FailureUncounted, SignsIn
<1>r. PICK r : /\ signIn' = [signIn EXCEPT ![x] = r]
               /\ r = NoSignIn \/ r = [s EXCEPT !.todo = s.todo \ {g}]
  BY <1>s, LoginFacts DEF FailureUncounted, Charged
<1>k. UNCHANGED <<failures, wrong, loginWindow, signIns, turnedAway>> /\ lostCounts' = lostCounts \cup {s.window}
  BY <1>s DEF FailureUncounted, CountsKept, LimiterFails
<1>1. r \in SignInRow /\ (r.pc # "idle" => r.pc = "charge" /\ r.window = s.window /\ r.identifier = s.identifier
                                          /\ r.todo = s.todo \ {g} /\ r.blocked = s.blocked)
  BY <1>r, <1>0, IdleSignIn DEF SignInRow
<1>2. LoginThrottleTypeOK'
  <2>1. signIn' \in [SignIns -> SignInRow]
    BY <1>1, <1>r, LoginFacts
  <2>2. limiterFaults' \in 0 .. MaxLimiterFaults /\ lostCounts' \subseteq LoginWindows
    BY <1>k, LoginThrottleAssumption DEF FailureUncounted, LimiterFails, LoginInv, LoginThrottleTypeOK, SignInRow
  <2> QED
    BY <1>k, <2>1, <2>2 DEF LoginInv, LoginThrottleTypeOK, SignInRow
<1>3. ASSUME NEW h \in Subjects, NEW w \in LoginWindows
      PROVE  /\ OweOf(r, h, w) <= OweOf(s, h, w) /\ AddOf(r, h, w) = 0 /\ AddOf(s, h, w) = 0
             /\ w \notin lostCounts' => OweOf(r, h, w) = OweOf(s, h, w)
  BY <1>0, <1>1, <1>k DEF OweOf, AddOf, OwesCount, MayAdd
<1>4. r.pc # "idle" /\ r.blocked => ReachedLimit(r.identifier, r.window)
  BY <1>1, <1>0, <1>s DEF LoginInv, RefusedRightly
<1>5. ProperSignIn(r) /\ (r.pc # "idle" => signIn[x].pc # "idle" /\ r.window = signIn[x].window)
  BY <1>0, <1>1, <1>s DEF ProperSignIn
<1>6. Uncounting(x, r)
  BY <1>1, <1>r, <1>k, <1>3, <1>4, <1>5, <1>s DEF Uncounting
<1> QED
  BY <1>6, <1>2, UncountingStepKeeps

(* A wrong password is counted on both subjects, and owed to both. *)
LEMMA WrongKeeps ==
  ASSUME LoginInv, NEW x \in SignIns, PasswordWrong(x)
  PROVE  LoginInv'
<1>s. PICK s \in SignInRow : s = signIn[x]
  BY LoginFacts
<1>0. s.pc = "compare" /\ ProperSignIn(s) /\ s.identifier \in Identifiers
  BY <1>s, LoginFacts DEF PasswordWrong, SignsIn, ProperSignIn
<1>r. PICK r : r = [s EXCEPT !.pc = "charge", !.todo = {s.identifier, Address}]
  OBVIOUS
<1>1. /\ signIn' = [signIn EXCEPT ![x] = r] /\ r \in SignInRow /\ r.pc = "charge" /\ r.window = s.window
      /\ r.identifier = s.identifier /\ r.todo = {s.identifier, Address} /\ r.blocked = s.blocked
  BY <1>r, <1>s, <1>0, LoginFacts DEF PasswordWrong, SignInRow, CountedOn
<1>2. ASSUME NEW g \in Subjects, NEW w \in LoginWindows
      PROVE  /\ wrong'[g][w] = IF g \in {s.identifier, Address} /\ w = s.window THEN wrong[g][w] + 1 ELSE wrong[g][w]
             /\ wrong[g][w] \in Nat /\ failures[g][w] \in Nat
  BY <1>s, LoginFacts DEF PasswordWrong, CountedOn
<1>k. UNCHANGED <<failures, turnedAway, signIns, loginWindow, limiterFaults, lostCounts>>
  BY DEF PasswordWrong, LimiterAnswers
<1>3. LoginThrottleTypeOK'
  <2>1. signIn' \in [SignIns -> SignInRow]
    BY <1>1, LoginFacts
  <2>2. wrong' \in [Subjects -> [LoginWindows -> Nat]]
    <3>1. PICK w \in LoginWindows : w = s.window
      BY DEF SignInRow
    <3>2. \A g \in Subjects : wrong[g] \in [LoginWindows -> Nat] /\ [wrong[g] EXCEPT ![w] = @ + 1] \in [LoginWindows -> Nat]
      <4> TAKE g \in Subjects
      <4>1. PICK f \in [LoginWindows -> Nat] : f = wrong[g]
        BY LoginFacts
      <4>2. [f EXCEPT ![w] = f[w] + 1] \in [LoginWindows -> Nat]
        OBVIOUS
      <4> QED
        BY <4>1, <4>2
    <3>3. wrong' = [g \in Subjects |-> IF g \in CountedOn(x) THEN [wrong[g] EXCEPT ![w] = @ + 1] ELSE wrong[g]]
      BY <1>s, <3>1 DEF PasswordWrong
    <3> QED
      BY <3>2, <3>3
  <2> QED
    BY <1>k, <2>1, <2>2 DEF LoginInv, LoginThrottleTypeOK, SignInRow
<1>4. ASSUME NEW g \in Subjects, NEW w \in LoginWindows
      PROVE  \/ /\ wrong'[g][w] = wrong[g][w] + 1 /\ OweOf(r, g, w) = 1 /\ OweOf(s, g, w) = 0
                /\ AddOf(r, g, w) = 0 /\ AddOf(s, g, w) = 1
             \/ /\ wrong'[g][w] = wrong[g][w] /\ OweOf(r, g, w) = 0 /\ OweOf(s, g, w) = 0
                /\ AddOf(r, g, w) = 0 /\ AddOf(s, g, w) = 0
  BY <1>2, <1>1, <1>0 DEF OweOf, AddOf, OwesCount, MayAdd
<1>5. Balanced(x, r)
  <2>1. ProperSignIn(r) /\ (r.pc # "idle" => signIn[x].pc # "idle" /\ r.window = signIn[x].window)
    BY <1>0, <1>1, <1>s DEF ProperSignIn
  <2>2. ASSUME NEW g \in Subjects, NEW w \in LoginWindows
        PROVE  /\ failures'[g][w] \in Nat /\ wrong'[g][w] \in Nat
               /\ failures'[g][w] + OweOf(r, g, w) + wrong[g][w] <= wrong'[g][w] + failures[g][w] + OweOf(signIn[x], g, w)
               /\ failures'[g][w] + OweOf(r, g, w) + wrong[g][w] = wrong'[g][w] + failures[g][w] + OweOf(signIn[x], g, w)
               /\ wrong'[g][w] + AddOf(r, g, w) <= wrong[g][w] + AddOf(signIn[x], g, w)
    BY <1>2, <1>4, <1>k, <1>s
  <2> QED
    BY <2>1, <2>2, <1>1, <1>k DEF Balanced
<1>6. Justified(x, r)
  <2>1. \A g \in Subjects, w \in LoginWindows : wrong[g][w] <= wrong'[g][w]
    BY <1>2, <1>4
  <2>2. r.blocked => ReachedLimit(r.identifier, r.window)
    BY <1>0, <1>1, <1>s DEF LoginInv, RefusedRightly
  <2> QED
    BY <2>1, <2>2, <1>k DEF Justified
<1> QED
  BY <1>3, <1>5, <1>6, StepKeepsLoginInv

(* One of the counts that are owed is made. *)
LEMMA ChargeKeeps ==
  ASSUME LoginInv, NEW x \in SignIns, NEW g \in Subjects, ChargeFailure(x, g)
  PROVE  LoginInv'
<1>s. PICK s \in SignInRow : s = signIn[x]
  BY LoginFacts
<1>0. s.pc = "charge" /\ g \in s.todo /\ ProperSignIn(s)
  BY <1>s, LoginFacts DEF ChargeFailure, SignsIn
<1>r. PICK r : /\ signIn' = [signIn EXCEPT ![x] = r]
               /\ (r = NoSignIn /\ s.todo = {g}) \/ r = [s EXCEPT !.todo = s.todo \ {g}]
  BY <1>s, LoginFacts DEF ChargeFailure, Charged
<1>k. UNCHANGED <<wrong, turnedAway, signIns, loginWindow, limiterFaults, lostCounts>>
  BY DEF ChargeFailure, LimiterAnswers
<1>1. /\ r \in SignInRow
      /\ \/ r.pc = "idle" /\ s.todo = {g}
         \/ r.pc = "charge" /\ r.window = s.window /\ r.identifier = s.identifier
            /\ r.todo = s.todo \ {g} /\ r.blocked = s.blocked
  BY <1>r, <1>0, IdleSignIn DEF SignInRow
<1>2. ASSUME NEW h \in Subjects, NEW w \in LoginWindows
      PROVE  /\ failures'[h][w] = IF h = g /\ w = s.window THEN failures[h][w] + 1 ELSE failures[h][w]
             /\ wrong[h][w] \in Nat /\ failures[h][w] \in Nat
  BY <1>s, LoginFacts DEF ChargeFailure
<1>3. LoginThrottleTypeOK'
  <2>1. signIn' \in [SignIns -> SignInRow]
    BY <1>1, <1>r, LoginFacts
  <2>2. failures' \in [Subjects -> [LoginWindows -> Nat]]
    BY LoginFacts DEF ChargeFailure, SignInRow
  <2> QED
    BY <1>k, <2>1, <2>2 DEF LoginInv, LoginThrottleTypeOK, SignInRow
<1>4. ASSUME NEW h \in Subjects, NEW w \in LoginWindows
      PROVE  /\ AddOf(r, h, w) = 0 /\ AddOf(s, h, w) = 0
             /\ \/ /\ failures'[h][w] = failures[h][w] + 1 /\ OweOf(r, h, w) = 0 /\ OweOf(s, h, w) = 1
                \/ /\ failures'[h][w] = failures[h][w] /\ OweOf(r, h, w) = OweOf(s, h, w) /\ OweOf(s, h, w) \in {0, 1}
  BY <1>2, <1>1, <1>0 DEF OweOf, AddOf, OwesCount, MayAdd
<1>5. Balanced(x, r)
  <2>1. ProperSignIn(r) /\ (r.pc # "idle" => signIn[x].pc # "idle" /\ r.window = signIn[x].window)
    BY <1>0, <1>1, <1>s DEF ProperSignIn
  <2>2. ASSUME NEW h \in Subjects, NEW w \in LoginWindows
        PROVE  /\ failures'[h][w] \in Nat /\ wrong'[h][w] \in Nat
               /\ failures'[h][w] + OweOf(r, h, w) + wrong[h][w] <= wrong'[h][w] + failures[h][w] + OweOf(signIn[x], h, w)
               /\ failures'[h][w] + OweOf(r, h, w) + wrong[h][w] = wrong'[h][w] + failures[h][w] + OweOf(signIn[x], h, w)
               /\ wrong'[h][w] + AddOf(r, h, w) <= wrong[h][w] + AddOf(signIn[x], h, w)
    BY <1>2, <1>4, <1>k, <1>s
  <2> QED
    BY <2>1, <2>2, <1>1, <1>r, <1>k DEF Balanced
<1>6. Justified(x, r)
  <2>1. \A h \in Subjects, w \in LoginWindows : wrong[h][w] <= wrong'[h][w]
    BY <1>2, <1>k
  <2>2. r.pc # "idle" /\ r.blocked => ReachedLimit(r.identifier, r.window)
    BY <1>0, <1>1, <1>s DEF LoginInv, RefusedRightly
  <2> QED
    BY <2>1, <2>2, <1>k DEF Justified
<1> QED
  BY <1>3, <1>5, <1>6, StepKeepsLoginInv

(* The job deletes the counters of the windows before. *)
LEMMA SweepKeeps ==
  ASSUME LoginInv, SweepFailures
  PROVE  LoginInv'
<1>k. UNCHANGED <<signIn, wrong, turnedAway, signIns, limiterFaults, loginWindow>> /\ lostCounts \subseteq lostCounts'
  BY DEF SweepFailures
<1>1. ASSUME NEW g \in Subjects, NEW w \in LoginWindows
      PROVE  /\ failures'[g][w] = IF w < loginWindow THEN 0 ELSE failures[g][w]
             /\ failures[g][w] \in Nat /\ wrong[g][w] \in Nat
  BY DEF SweepFailures, LoginInv, LoginThrottleTypeOK
<1>2. LoginThrottleTypeOK'
  <2>1. failures' \in [Subjects -> [LoginWindows -> Nat]]
    BY <1>1 DEF SweepFailures, LoginInv, LoginThrottleTypeOK
  <2>2. lostCounts' \subseteq LoginWindows
    BY DEF SweepFailures, LoginInv, LoginThrottleTypeOK
  <2> QED
    BY <1>k, <2>1, <2>2 DEF LoginInv, LoginThrottleTypeOK
<1>3. CountsAddUp'
  <2> SUFFICES ASSUME NEW g \in Subjects, NEW w \in LoginWindows
               PROVE  /\ failures'[g][w] + Cardinality(Owing(g, w)) <= wrong[g][w]
                      /\ w \notin lostCounts' =>
                           /\ Closed(w) \/ failures'[g][w] + Cardinality(Owing(g, w)) = wrong[g][w]
                           /\ wrong[g][w] + Cardinality(Passed(g, w)) < Limit(g) + Cardinality(SignIns)
    <3>1. \A g \in Subjects, w \in LoginWindows :
            /\ Owing(g, w)' = Owing(g, w) /\ Passed(g, w)' = Passed(g, w) /\ wrong'[g][w] = wrong[g][w]
            /\ Closed(w)' <=> Closed(w)
      BY <1>k DEF Owing, Passed, Closed
    <3> QED
      BY <3>1, <1>k DEF CountsAddUp, Limit
  <2>1. /\ failures[g][w] + Cardinality(Owing(g, w)) <= wrong[g][w]
        /\ w \notin lostCounts =>
             /\ Closed(w) \/ failures[g][w] + Cardinality(Owing(g, w)) = wrong[g][w]
             /\ wrong[g][w] + Cardinality(Passed(g, w)) < Limit(g) + Cardinality(SignIns)
    BY DEF LoginInv, CountsAddUp
  <2>2. Cardinality(Owing(g, w)) \in Nat
    BY TwoKindsOfSignIns
  <2>3. w \notin lostCounts' => w \notin lostCounts /\ (w < loginWindow => Closed(w))
    BY <1>k DEF SweepFailures, SignsIn, Closed
  <2> QED
    BY <2>1, <2>2, <2>3, <1>1
<1> QED
  BY <1>k, <1>2, <1>3 DEF LoginInv, RefusedRightly, ReachedLimit, ProperSignIn, Limit

LEMMA WindowKeeps ==
  ASSUME LoginInv, WindowPasses
  PROVE  LoginInv'
<1>k. UNCHANGED <<failures, signIn, wrong, turnedAway, lostCounts, signIns, limiterFaults>> /\ loginWindow' = loginWindow + 1
      /\ loginWindow' \in LoginWindows /\ loginWindow \in Nat
  BY LoginThrottleAssumption DEF WindowPasses, LoginInv, LoginThrottleTypeOK, LoginWindows
<1>1. LoginThrottleTypeOK'
  BY <1>k DEF LoginInv, LoginThrottleTypeOK
<1>2. \A w \in LoginWindows : Closed(w) => Closed(w)'
  BY <1>k DEF Closed, LoginWindows
<1>3. CountsAddUp'
  BY <1>k, <1>2 DEF LoginInv, CountsAddUp, Owing, Passed, Limit
<1>4. \A x \in SignIns : ProperSignIn(signIn[x])'
  BY <1>k, LoginFacts DEF ProperSignIn, SignInRow, LoginWindows
<1> QED
  BY <1>k, <1>1, <1>3, <1>4 DEF LoginInv, RefusedRightly, ReachedLimit, Limit

LEMMA LoginStarts == LoginThrottleInit => LoginInv
<1> SUFFICES ASSUME LoginThrottleInit PROVE LoginInv
  OBVIOUS
<1>1. 0 \in LoginWindows /\ 0 \in 0 .. MaxSignIns /\ 0 \in 0 .. MaxLimiterFaults
  BY LoginThrottleAssumption DEF LoginWindows
<1>2. LoginThrottleTypeOK
  <2>1. signIn \in [SignIns -> SignInRow]
    BY IdleSignIn DEF LoginThrottleInit
  <2> QED
    BY <1>1, <2>1 DEF LoginThrottleInit, LoginThrottleTypeOK, SignInRow
<1>3. \A x \in SignIns : signIn[x] = NoSignIn
  BY DEF LoginThrottleInit
<1>4. ASSUME NEW g \in Subjects, NEW w \in LoginWindows
      PROVE  Cardinality(Owing(g, w)) = 0 /\ Cardinality(Passed(g, w)) = 0 /\ Limit(g) \in Nat \ {0}
             /\ Cardinality(SignIns) \in Nat /\ failures[g][w] = 0 /\ wrong[g][w] = 0
  <2>1. Owing(g, w) = {} /\ Passed(g, w) = {}
    BY <1>3, IdleSignIn DEF Owing, Passed, OwesCount, MayAdd
  <2>2. Cardinality({}) = 0
    BY FS_EmptySet
  <2>3. Cardinality(SignIns) \in Nat
    BY SignInsCount
  <2> QED
    BY <2>1, <2>2, <2>3, LoginThrottleAssumption DEF Limit, LoginThrottleInit
<1>5. CountsAddUp
  BY <1>4 DEF CountsAddUp
<1> QED
  BY <1>2, <1>3, <1>5, IdleSignIn DEF LoginInv, RefusedRightly, ProperSignIn, LoginThrottleInit

LEMMA LoginInvHolds == LoginThrottleSpec => []LoginInv
<1>1. LoginThrottleInit => LoginInv
  BY LoginStarts
<1>2. LoginInv /\ [LoginThrottleNext]_loginVars => LoginInv'
  <2> SUFFICES ASSUME LoginInv, [LoginThrottleNext]_loginVars PROVE LoginInv'
    OBVIOUS
  <2>1. CASE UNCHANGED loginVars
    <3>1. \A g \in Subjects, w \in LoginWindows :
            /\ Owing(g, w)' = Owing(g, w) /\ Passed(g, w)' = Passed(g, w)
            /\ Closed(w)' <=> Closed(w)
      BY <2>1 DEF loginVars, Owing, Passed, Closed
    <3>2. CountsAddUp'
      BY <2>1, <3>1 DEF loginVars, LoginInv, CountsAddUp, Limit
    <3> QED
      BY <2>1, <3>2 DEF loginVars, LoginInv, LoginThrottleTypeOK, ProperSignIn, RefusedRightly, ReachedLimit, Limit
  <2>2. CASE SweepFailures
    BY <2>2, SweepKeeps
  <2>3. CASE WindowPasses
    BY <2>3, WindowKeeps
  <2>4. ASSUME NEW x \in SignIns, NEW i \in Identifiers, PressSignIn(x, i) PROVE LoginInv'
    BY <2>4, PressKeeps
  <2>5. ASSUME NEW x \in SignIns, NEW g \in Subjects, ReadCounter(x, g) \/ CounterUnread(x, g) PROVE LoginInv'
    BY <2>5, CheckKeeps
  <2>6. ASSUME NEW x \in SignIns, NEW g \in Subjects, ChargeFailure(x, g) PROVE LoginInv'
    BY <2>6, ChargeKeeps
  <2>7. ASSUME NEW x \in SignIns, NEW g \in Subjects, FailureUncounted(x, g) PROVE LoginInv'
    BY <2>7, UncountedKeeps
  <2>8. ASSUME NEW x \in SignIns, PasswordWrong(x) PROVE LoginInv'
    BY <2>8, WrongKeeps
  <2>9. ASSUME NEW x \in SignIns, PasswordRight(x) \/ SignInBreaks(x) PROVE LoginInv'
    BY <2>9, EndKeeps
  <2> QED
    BY <2>1, <2>2, <2>3, <2>4, <2>5, <2>6, <2>7, <2>8, <2>9, Zenon DEF LoginThrottleNext
<1> QED
  BY <1>1, <1>2, PTL DEF LoginThrottleSpec

(***************************************************************************)
(* However many sign-ins run at once, and whenever the job deletes counters: *)
(* in a window in which every count was made, fewer wrong passwords go      *)
(* through for a name, or for the address, than the limit and the sign-ins  *)
(* in flight add up to; and nobody is refused before the limit is reached.  *)
(***************************************************************************)
THEOREM SignInsAreLimited == LoginThrottleSpec => []LoginsAreLimited
<1>1. LoginInv => LoginsAreLimited
  <2> SUFFICES ASSUME LoginInv PROVE LoginsAreLimited
    OBVIOUS
  <2>1. ASSUME NEW g \in Subjects, NEW w \in LoginWindows \ lostCounts PROVE wrong[g][w] < Limit(g) + Cardinality(SignIns)
    <3>1. wrong[g][w] + Cardinality(Passed(g, w)) < Limit(g) + Cardinality(SignIns)
      BY DEF LoginInv, CountsAddUp
    <3>2. Cardinality(Passed(g, w)) \in Nat /\ Cardinality(SignIns) \in Nat /\ wrong[g][w] \in Nat
      BY TwoKindsOfSignIns, SignInsCount DEF LoginInv, LoginThrottleTypeOK
    <3>3. Limit(g) \in Nat
      BY LoginThrottleAssumption DEF Limit
    <3> QED
      BY <3>1, <3>2, <3>3
  <2> QED
    BY <2>1 DEF LoginsAreLimited, LoginInv, RefusedRightly, ReachedLimit
<1> QED
  BY <1>1, LoginInvHolds, PTL

-----------------------------------------------------------------------------
(***************************************************************************)
(* PhoneVerification.  As long as no two requests about one purpose overlap, *)
(* whoever compares a code with an input read the attempts that are still   *)
(* in its row, and a code that bought something is spent, over, or in the   *)
(* hands of the request that is about to spend it.                          *)
(***************************************************************************)
VisitorRow == [pc : {"idle", "expire", "create", "sms", "right", "wrong", "spend", "book", "charge"},
               purpose : Purposes, code : Codes \cup {0}, now : Nat, seen : 0 .. MaxGuesses, held : Codes \cup {0}]
HasCode(r) == r.pc \in {"sms", "right", "wrong", "spend", "book", "charge"}
Compares(r, v) == r.pc \in {"right", "wrong"} /\ r.code = v

CodesShape ==
    /\ code \in [Codes -> CodeRow] /\ visitor \in [Visitors -> VisitorRow]
    /\ used \in [Codes -> Nat] /\ guesses \in [Codes -> Nat] /\ phoneClock \in Nat
    /\ \A v \in Codes : /\ code[v].status = "PENDING" => code[v].attempts < MaxGuesses
                        /\ code[v].status = "NONE" => used[v] = 0 /\ guesses[v] = 0
    /\ \A x \in Visitors :
         /\ HasCode(visitor[x]) => /\ visitor[x].code \in Codes /\ code[visitor[x].code].status # "NONE"
                                   /\ visitor[x].purpose = code[visitor[x].code].purpose
         /\ visitor[x].pc \in {"right", "wrong"} => visitor[x].seen < MaxGuesses
         /\ visitor[x].pc \in {"book", "charge"} => visitor[x].purpose = "BOOKING"
         /\ visitor[x].pc = "spend" => visitor[x].purpose # "BOOKING"

OneAtATime ==
    \A x, y \in Visitors : /\ visitor[x].pc # "idle" /\ visitor[y].pc # "idle"
                           /\ visitor[x].purpose = visitor[y].purpose /\ visitor[x].purpose \notin overlapping
                           => x = y

AttemptsCounted(v) ==
    /\ guesses[v] <= code[v].attempts + 1
    /\ guesses[v] <= code[v].attempts \/ \E x \in Visitors : Compares(visitor[x], v)
    /\ \A x \in Visitors : Compares(visitor[x], v) => visitor[x].seen = code[v].attempts
SpentWhenUsed(v) ==
    /\ used[v] <= 1
    /\ used[v] = 1 => \/ code[v].status \in {"CONSUMED", "EXPIRED"}
                      \/ /\ code[v].purpose = "BOOKING" /\ code[v].status = "VERIFIED"
                         /\ \/ ~Live(v)
                            \/ \E x \in Visitors : visitor[x].pc = "charge" /\ visitor[x].code = v
    /\ \A x \in Visitors : Compares(visitor[x], v) => used[v] = 0
    /\ \A x \in Visitors : visitor[x].pc = "book" /\ visitor[x].code = v
         => used[v] = 0 /\ code[v].status \in {"VERIFIED", "CONSUMED", "EXPIRED"}
CodesInv ==
    /\ CodesShape /\ OneAtATime
    /\ \A v \in Codes : code[v].purpose \notin overlapping =>
         AttemptsCounted(v) /\ (v \notin unspent => SpentWhenUsed(v))

LEMMA PhoneFacts ==
  ASSUME CodesInv, NEW x \in Visitors
  PROVE  /\ code \in [Codes -> CodeRow] /\ visitor \in [Visitors -> VisitorRow] /\ visitor[x] \in VisitorRow
         /\ used \in [Codes -> Nat] /\ guesses \in [Codes -> Nat] /\ phoneClock \in Nat
         /\ 0 \notin Codes /\ MaxGuesses \in Nat \ {0}
         /\ {CodeTTL, VerifiedTTL} \subseteq Nat /\ Purposes \subseteq {"BOOKING", "CUSTOMER_LOGIN", "PASSWORD_RESET"}
BY PhoneAssumption DEF CodesInv, CodesShape

LEMMA FreshIsIdle ==
  ASSUME CodesInv, NEW x \in Visitors
  PROVE  Fresh(x) \in VisitorRow /\ Fresh(x).pc = "idle" /\ Fresh(x).held = visitor[x].held
<1>1. PICK r \in VisitorRow : r = visitor[x]
  BY PhoneFacts
<1>2. Fresh(x) = [r EXCEPT !.pc = "idle", !.code = 0, !.now = 0, !.seen = 0]
  BY <1>1 DEF Fresh
<1>3. 0 \in 0 .. MaxGuesses
  BY PhoneFacts
<1>4. Fresh(x) = [pc |-> "idle", purpose |-> r.purpose, code |-> 0, now |-> 0, seen |-> 0, held |-> r.held]
  BY <1>2 DEF VisitorRow
<1>5. r.purpose \in Purposes /\ r.held \in Codes \cup {0}
  BY DEF VisitorRow
<1> QED
  BY <1>1, <1>3, <1>4, <1>5 DEF VisitorRow

(* Who works on a code works on its purpose. *)
LEMMA OnItsPurpose ==
  ASSUME CodesInv, NEW x \in Visitors, HasCode(visitor[x])
  PROVE  /\ visitor[x].pc # "idle" /\ visitor[x].code \in Codes /\ code[visitor[x].code].status # "NONE"
         /\ visitor[x].purpose = code[visitor[x].code].purpose
BY DEF CodesInv, CodesShape, HasCode

(* Codes stay in existence, and keep their purpose. *)
CodesStand == \A v \in Codes : code[v].status # "NONE" => code'[v].status # "NONE" /\ code'[v].purpose = code[v].purpose
(* What a row that a visitor holds must be *)
ProperVisitor(r) ==
    /\ r \in VisitorRow
    /\ HasCode(r) => r.code \in Codes /\ code'[r.code].status # "NONE" /\ r.purpose = code'[r.code].purpose
    /\ r.pc \in {"right", "wrong"} => r.seen < MaxGuesses
    /\ r.pc \in {"book", "charge"} => r.purpose = "BOOKING"
    /\ r.pc = "spend" => r.purpose # "BOOKING"
ProperCodes ==
    /\ code' \in [Codes -> CodeRow] /\ used' \in [Codes -> Nat] /\ guesses' \in [Codes -> Nat] /\ phoneClock' \in Nat
    /\ \A v \in Codes : /\ code'[v].status = "PENDING" => code'[v].attempts < MaxGuesses
                        /\ code'[v].status = "NONE" => used'[v] = 0 /\ guesses'[v] = 0

LEMMA ShapeStays ==
  ASSUME CodesInv, NEW x \in Visitors, NEW r, visitor' = [visitor EXCEPT ![x] = r], CodesStand, ProperVisitor(r), ProperCodes
  PROVE  CodesShape'
<1>1. visitor' \in [Visitors -> VisitorRow]
  BY PhoneFacts DEF ProperVisitor
<1>2. ASSUME NEW y \in Visitors
      PROVE  /\ HasCode(visitor'[y]) => /\ visitor'[y].code \in Codes /\ code'[visitor'[y].code].status # "NONE"
                                        /\ visitor'[y].purpose = code'[visitor'[y].code].purpose
             /\ visitor'[y].pc \in {"right", "wrong"} => visitor'[y].seen < MaxGuesses
             /\ visitor'[y].pc \in {"book", "charge"} => visitor'[y].purpose = "BOOKING"
             /\ visitor'[y].pc = "spend" => visitor'[y].purpose # "BOOKING"
  <2>1. visitor'[y] = IF y = x THEN r ELSE visitor[y]
    BY PhoneFacts
  <2>2. CASE y = x
    BY <2>1, <2>2 DEF ProperVisitor
  <2>3. CASE y # x
    BY <2>1, <2>3 DEF CodesInv, CodesShape, CodesStand
  <2> QED
    BY <2>2, <2>3
<1> QED
  BY <1>1, <1>2 DEF CodesShape, ProperCodes, HasCode

LEMMA NobodyBegins ==
  ASSUME CodesInv, NEW x \in Visitors, NEW r, visitor' = [visitor EXCEPT ![x] = r], overlapping' = overlapping,
         r.pc # "idle" => visitor[x].pc # "idle" /\ r.purpose = visitor[x].purpose
  PROVE  OneAtATime'
<1>1. \A y \in Visitors : visitor'[y] = IF y = x THEN r ELSE visitor[y]
  BY PhoneFacts
<1> QED
  BY <1>1 DEF OneAtATime, CodesInv

LEMMA SomebodyBegins ==
  ASSUME CodesInv, NEW x \in Visitors, NEW r, NEW p, Begins(x, p, r), r.purpose = p
  PROVE  /\ OneAtATime' /\ overlapping \subseteq overlapping'
         /\ p \notin overlapping' => \A y \in Visitors \ {x} : visitor[y].pc # "idle" => visitor[y].purpose # p
<1>1. \A y \in Visitors : visitor'[y] = IF y = x THEN r ELSE visitor[y]
  BY PhoneFacts DEF Begins
<1>2. p \notin overlapping' => \A y \in Visitors \ {x} : visitor[y].pc # "idle" => visitor[y].purpose # p
  BY DEF Begins, Idle
<1>3. overlapping \subseteq overlapping'
  BY DEF Begins
<1> QED
  BY <1>1, <1>2, <1>3 DEF OneAtATime, CodesInv

(* Whatever is not about a code leaves what is known of it. *)
LEMMA OtherCodesStay ==
  ASSUME CodesInv, NEW x \in Visitors, NEW r, visitor' = [visitor EXCEPT ![x] = r], NEW v \in Codes,
         code[v].purpose \notin overlapping,
         ~Compares(visitor[x], v), ~(visitor[x].pc = "charge" /\ visitor[x].code = v),
         ~Compares(r, v), ~(r.pc = "book" /\ r.code = v),
         code'[v] = code[v] \/ code'[v] = [code[v] EXCEPT !.status = "EXPIRED"],
         used'[v] = used[v], guesses'[v] = guesses[v], phoneClock' = phoneClock, unspent \subseteq unspent'
  PROVE  AttemptsCounted(v)' /\ (v \notin unspent' => SpentWhenUsed(v)')
<1>1. \A y \in Visitors : visitor'[y] = IF y = x THEN r ELSE visitor[y]
  BY PhoneFacts
<1>2. AttemptsCounted(v) /\ (v \notin unspent => SpentWhenUsed(v))
  BY DEF CodesInv
<1>3. /\ code'[v].attempts = code[v].attempts /\ code'[v].purpose = code[v].purpose /\ code'[v].expiresAt = code[v].expiresAt
      /\ code'[v].status = code[v].status \/ code'[v].status = "EXPIRED"
  BY PhoneFacts DEF CodeRow
<1>4. AttemptsCounted(v)'
  <2>1. \A y \in Visitors : Compares(visitor'[y], v) <=> Compares(visitor[y], v)
    BY <1>1
  <2>2. \A y \in Visitors : Compares(visitor'[y], v) => visitor'[y] = visitor[y]
    BY <1>1
  <2> QED
    BY <1>2, <1>3, <2>1, <2>2 DEF AttemptsCounted
<1>5. ASSUME v \notin unspent' PROVE SpentWhenUsed(v)'
  <2>1. SpentWhenUsed(v)
    BY <1>2, <1>5
  <2>2. \A y \in Visitors : Compares(visitor'[y], v) \/ (visitor'[y].pc = "book" /\ visitor'[y].code = v) => visitor'[y] = visitor[y]
    BY <1>1 DEF Compares
  <2>3. \A y \in Visitors : visitor[y].pc = "charge" /\ visitor[y].code = v => visitor'[y].pc = "charge" /\ visitor'[y].code = v
    BY <1>1
  <2>4. Live(v)' <=> Live(v)
    BY <1>3 DEF Live
  <2> QED
    BY <1>3, <2>1, <2>2, <2>3, <2>4 DEF SpentWhenUsed
<1> QED
  BY <1>4, <1>5

(* Steps that leave the visitors where they are. *)
LEMMA StandingStepKeeps ==
  ASSUME CodesInv, visitor' = visitor, overlapping' = overlapping, unspent' = unspent, used' = used, guesses' = guesses,
         code' \in [Codes -> CodeRow], phoneClock' \in Nat, phoneClock <= phoneClock',
         \A v \in Codes : code'[v] = code[v] \/ (code[v].status # "NONE" /\ code'[v] = [code[v] EXCEPT !.status = "EXPIRED"])
  PROVE  CodesInv'
<1>0. code \in [Codes -> CodeRow] /\ phoneClock \in Nat
  BY DEF CodesInv, CodesShape
<1>1. \A v \in Codes : /\ code'[v].attempts = code[v].attempts /\ code'[v].purpose = code[v].purpose
                       /\ code'[v].expiresAt = code[v].expiresAt
                       /\ code'[v].status = code[v].status \/ (code[v].status # "NONE" /\ code'[v].status = "EXPIRED")
  BY <1>0 DEF CodeRow
<1>2. CodesShape'
  BY <1>1 DEF CodesInv, CodesShape, HasCode
<1>3. OneAtATime'
  BY DEF CodesInv, OneAtATime
<1>4. ASSUME NEW v \in Codes, code'[v].purpose \notin overlapping
      PROVE  AttemptsCounted(v)' /\ (v \notin unspent' => SpentWhenUsed(v)')
  <2>1. AttemptsCounted(v) /\ (v \notin unspent => SpentWhenUsed(v))
    BY <1>1, <1>4 DEF CodesInv
  <2>2. AttemptsCounted(v)'
    BY <2>1, <1>1 DEF AttemptsCounted, Compares
  <2>3. ~Live(v) => ~Live(v)'
    <3>1. code[v].expiresAt \in Nat
      BY <1>0 DEF CodeRow
    <3> QED
      BY <3>1, <1>0, <1>1 DEF Live
  <2>4. SpentWhenUsed(v) => SpentWhenUsed(v)'
    BY <2>3, <1>1 DEF SpentWhenUsed, Compares
  <2> QED
    BY <2>1, <2>2, <2>4
<1> QED
  BY <1>2, <1>3, <1>4 DEF CodesInv

(* A request that is over, or goes on, whatever it did to its own code. *)
OwnStep(x, r, c) ==
    /\ visitor' = [visitor EXCEPT ![x] = r] /\ CodesStand /\ ProperVisitor(r) /\ ProperCodes
    /\ OneAtATime' /\ overlapping \subseteq overlapping' /\ unspent \subseteq unspent' /\ phoneClock' = phoneClock
    /\ \A v \in Codes \ {c} :
         /\ code'[v] = code[v] \/ code'[v] = [code[v] EXCEPT !.status = "EXPIRED"]
         /\ used'[v] = used[v] /\ guesses'[v] = guesses[v]
         /\ ~Compares(visitor[x], v) /\ ~(visitor[x].pc = "charge" /\ visitor[x].code = v)
         /\ ~Compares(r, v) /\ ~(r.pc = "book" /\ r.code = v)
    /\ c \in Codes /\ code'[c].purpose \notin overlapping' => AttemptsCounted(c)' /\ (c \notin unspent' => SpentWhenUsed(c)')

LEMMA RequestStepKeeps ==
  ASSUME CodesInv, NEW x \in Visitors, NEW r, NEW c, OwnStep(x, r, c)
  PROVE  CodesInv'
<1>1. CodesShape'
  BY ShapeStays DEF OwnStep
<1>2. ASSUME NEW v \in Codes, code'[v].purpose \notin overlapping'
      PROVE  AttemptsCounted(v)' /\ (v \notin unspent' => SpentWhenUsed(v)')
  <2>1. CASE v = c
    BY <2>1, <1>2 DEF OwnStep
  <2>2. CASE v # c
    <3>1. /\ code'[v] = code[v] \/ code'[v] = [code[v] EXCEPT !.status = "EXPIRED"]
          /\ used'[v] = used[v] /\ guesses'[v] = guesses[v]
          /\ ~Compares(visitor[x], v) /\ ~(visitor[x].pc = "charge" /\ visitor[x].code = v)
          /\ ~Compares(r, v) /\ ~(r.pc = "book" /\ r.code = v)
      BY <2>2 DEF OwnStep
    <3>2. code[v].purpose \notin overlapping
      BY <3>1, <1>2, PhoneFacts DEF CodeRow, OwnStep
    <3>3. visitor' = [visitor EXCEPT ![x] = r] /\ phoneClock' = phoneClock /\ unspent \subseteq unspent'
      BY DEF OwnStep
    <3> QED
      BY <3>1, <3>2, <3>3, OtherCodesStay
  <2> QED
    BY <2>1, <2>2
<1> QED
  BY <1>1, <1>2 DEF CodesInv, OwnStep

LEMMA JobStepsKeep ==
  ASSUME CodesInv, ExpireStale \/ PhoneTick \/ SweepCounters \/ \E x \in Visitors, v \in Codes : ConfirmLate(x, v)
  PROVE  CodesInv'
<1>0. code \in [Codes -> CodeRow] /\ phoneClock \in Nat
  BY DEF CodesInv, CodesShape
<1>1. CASE ExpireStale
  <2>1. \A v \in Codes : code'[v] = code[v] \/ (code[v].status # "NONE" /\ code'[v] = [code[v] EXCEPT !.status = "EXPIRED"])
    BY <1>1 DEF ExpireStale
  <2>2. code' \in [Codes -> CodeRow]
    BY <1>1, <1>0 DEF ExpireStale, CodeRow
  <2> QED
    BY <1>0, <1>1, <2>1, <2>2, StandingStepKeeps DEF ExpireStale, LimitKept
<1>2. CASE PhoneTick
  BY <1>0, <1>2, StandingStepKeeps DEF PhoneTick
<1>3. CASE SweepCounters
  BY <1>0, <1>3, StandingStepKeeps DEF SweepCounters
<1>4. ASSUME NEW x \in Visitors, NEW v \in Codes, ConfirmLate(x, v) PROVE CodesInv'
  <2>1. PICK row \in CodeRow : row = [code[v] EXCEPT !.status = "EXPIRED"]
    BY <1>0 DEF CodeRow
  <2>2. code' = [code EXCEPT ![v] = row]
    BY <1>4, <2>1 DEF ConfirmLate
  <2>3. code' \in [Codes -> CodeRow] /\ code'[v] = row /\ \A w \in Codes \ {v} : code'[w] = code[w]
    BY <2>2, <1>0
  <2>4. \A w \in Codes : code'[w] = code[w] \/ (code[w].status # "NONE" /\ code'[w] = [code[w] EXCEPT !.status = "EXPIRED"])
    BY <2>1, <2>3, <1>4 DEF ConfirmLate
  <2> QED
    BY <1>0, <1>4, <2>3, <2>4, StandingStepKeeps DEF ConfirmLate, LimitKept
<1> QED
  BY <1>1, <1>2, <1>3, <1>4

LEMMA SameCodes ==
  ASSUME CodesInv, code' = code, used' = used, guesses' = guesses, phoneClock' = phoneClock
  PROVE  CodesStand /\ ProperCodes
BY DEF CodesInv, CodesShape, CodesStand, ProperCodes

(* Asking for a code *)
LEMMA AskKeeps ==
  ASSUME CodesInv, NEW x \in Visitors, NEW p \in Purposes, AskForCode(x, p)
  PROVE  CodesInv'
<1>k. UNCHANGED <<code, used, guesses, unspent, phoneClock>>
  BY DEF AskForCode, CodesKept
<1>1. CASE UNCHANGED <<visitor, overlapping>>
  <2>1. \A v \in Codes : code'[v] = code[v]
    BY <1>k
  <2>2. code' \in [Codes -> CodeRow] /\ phoneClock' \in Nat /\ phoneClock <= phoneClock'
    BY <1>k DEF CodesInv, CodesShape
  <2> QED
    BY <1>1, <1>k, <2>1, <2>2, StandingStepKeeps
<1>2. CASE Begins(x, p, [Fresh(x) EXCEPT !.pc = "expire", !.purpose = p, !.now = phoneClock])
  <2>1. PICK f \in VisitorRow : f = Fresh(x) /\ f.pc = "idle"
    BY FreshIsIdle
  <2>2. PICK r : r = [f EXCEPT !.pc = "expire", !.purpose = p, !.now = phoneClock]
    OBVIOUS
  <2>3. Begins(x, p, r)
    BY <1>2, <2>1, <2>2
  <2>4. r \in VisitorRow /\ r.pc = "expire" /\ r.purpose = p
    BY <2>2, PhoneFacts DEF VisitorRow
  <2>5. OneAtATime' /\ overlapping \subseteq overlapping'
    BY <2>3, <2>4, SomebodyBegins
  <2>6. CodesStand /\ ProperCodes
    BY <1>k, SameCodes
  <2>7. ProperVisitor(r)
    BY <2>4 DEF ProperVisitor, HasCode
  <2>8. PICK c : c \notin Codes
    BY PhoneFacts
  <2>9. visitor' = [visitor EXCEPT ![x] = r] /\ visitor[x].pc = "idle"
    BY <2>3 DEF Begins, AskForCode, Idle
  <2>10. \A v \in Codes \ {c} :
            /\ code'[v] = code[v] \/ code'[v] = [code[v] EXCEPT !.status = "EXPIRED"]
            /\ used'[v] = used[v] /\ guesses'[v] = guesses[v]
            /\ ~Compares(visitor[x], v) /\ ~(visitor[x].pc = "charge" /\ visitor[x].code = v)
            /\ ~Compares(r, v) /\ ~(r.pc = "book" /\ r.code = v)
    BY <1>k, <2>4, <2>9 DEF Compares
  <2>11. visitor' = [visitor EXCEPT ![x] = r] /\ unspent \subseteq unspent' /\ phoneClock' = phoneClock
    BY <2>9, <1>k
  <2>12. OwnStep(x, r, c)
    BY <2>5, <2>6, <2>7, <2>8, <2>10, <2>11 DEF OwnStep
  <2> QED
    BY <2>12, RequestStepKeeps
<1> QED
  BY <1>1, <1>2 DEF AskForCode

LEMMA ExpirePendingKeeps ==
  ASSUME CodesInv, NEW x \in Visitors, ExpirePending(x)
  PROVE  CodesInv'
<1>1. PICK r : r = [visitor[x] EXCEPT !.pc = "create"]
  OBVIOUS
<1>2. /\ r \in VisitorRow /\ r.pc = "create" /\ r.purpose = visitor[x].purpose /\ visitor[x].pc = "expire"
      /\ visitor' = [visitor EXCEPT ![x] = r]
  BY <1>1, PhoneFacts, SMTT(20) DEF ExpirePending, VisitorRow
<1>k. UNCHANGED <<used, guesses, overlapping, unspent, phoneClock>>
  BY DEF ExpirePending, LimitKept
<1>3. \A v \in Codes : code'[v] = code[v] \/ (code[v].status # "NONE" /\ code'[v] = [code[v] EXCEPT !.status = "EXPIRED"])
  BY DEF ExpirePending
<1>4. code' \in [Codes -> CodeRow]
  BY PhoneFacts, SMTT(20) DEF ExpirePending, CodeRow
<1>5. CodesStand /\ ProperCodes
  <2>1. \A v \in Codes : /\ code'[v].purpose = code[v].purpose
                         /\ \/ code'[v].status = code[v].status /\ code'[v].attempts = code[v].attempts
                            \/ code[v].status # "NONE" /\ code'[v].status = "EXPIRED"
    <3> TAKE v \in Codes
    <3>1. code[v] \in CodeRow /\ (code'[v] = code[v] \/ (code[v].status # "NONE" /\ code'[v] = [code[v] EXCEPT !.status = "EXPIRED"]))
      BY <1>3, PhoneFacts
    <3> QED
      BY <3>1 DEF CodeRow
  <2> QED
    BY <2>1, <1>4, <1>k DEF CodesStand, ProperCodes, CodesInv, CodesShape
<1>6. OneAtATime'
  BY <1>2, <1>k, NobodyBegins
<1>7. ProperVisitor(r)
  BY <1>2 DEF ProperVisitor, HasCode
<1>8. PICK c : c \notin Codes
  BY PhoneFacts
<1>9. \A v \in Codes \ {c} :
            /\ code'[v] = code[v] \/ code'[v] = [code[v] EXCEPT !.status = "EXPIRED"]
            /\ used'[v] = used[v] /\ guesses'[v] = guesses[v]
            /\ ~Compares(visitor[x], v) /\ ~(visitor[x].pc = "charge" /\ visitor[x].code = v)
            /\ ~Compares(r, v) /\ ~(r.pc = "book" /\ r.code = v)
  BY <1>k, <1>2, <1>3 DEF Compares
<1>10. OwnStep(x, r, c)
  BY <1>2, <1>5, <1>6, <1>7, <1>8, <1>9, <1>k DEF OwnStep
<1> QED
  BY <1>10, RequestStepKeeps

LEMMA CreateKeeps ==
  ASSUME CodesInv, NEW x \in Visitors, NEW c \in Codes, CreateCode(x, c)
  PROVE  CodesInv'
<1>s. PICK s \in VisitorRow : s = visitor[x] /\ s.pc = "create"
  BY PhoneFacts DEF CreateCode
<1>1. PICK r : r = [s EXCEPT !.pc = "sms", !.code = c]
  OBVIOUS
<1>2. /\ r \in VisitorRow /\ r.pc = "sms" /\ r.purpose = s.purpose /\ r.code = c /\ r.seen = s.seen
      /\ visitor' = [visitor EXCEPT ![x] = r]
  <2>1. visitor' = [visitor EXCEPT ![x] = [visitor[x] EXCEPT !.pc = "sms", !.code = c]]
    BY PhoneFacts DEF CreateCode
  <2> QED
    BY <1>1, <1>s, <2>1 DEF VisitorRow
<1>k. UNCHANGED <<used, guesses, overlapping, unspent, phoneClock>>
  BY DEF CreateCode, LimitKept
<1>3. PICK row : row = [status |-> "PENDING", purpose |-> s.purpose, attempts |-> 0,
                        expiresAt |-> s.now + CodeTTL, sentAt |-> s.now]
  OBVIOUS
<1>4. row \in CodeRow /\ row.status = "PENDING" /\ row.purpose = s.purpose /\ row.attempts = 0
  BY <1>3, PhoneFacts DEF CodeRow, VisitorRow
<1>5. code' = [code EXCEPT ![c] = row] /\ code[c].status = "NONE"
  BY <1>3, <1>s DEF CreateCode
<1>6. code' \in [Codes -> CodeRow] /\ code'[c] = row /\ \A v \in Codes \ {c} : code'[v] = code[v]
  BY <1>5, <1>4, PhoneFacts
<1>7. used[c] = 0 /\ guesses[c] = 0
  BY <1>5 DEF CodesInv, CodesShape
<1>8. CodesStand /\ ProperCodes
  BY <1>4, <1>5, <1>6, <1>k, PhoneFacts DEF CodesStand, ProperCodes, CodesInv, CodesShape
<1>9. ProperVisitor(r)
  BY <1>2, <1>4, <1>6 DEF ProperVisitor, HasCode
<1>10. OneAtATime'
  BY <1>2, <1>s, <1>k, NobodyBegins
<1>11. \A y \in Visitors : HasCode(visitor'[y]) /\ visitor'[y].code = c => y = x
  BY <1>2, <1>5, OnItsPurpose, PhoneFacts
<1>12. AttemptsCounted(c)' /\ SpentWhenUsed(c)'
  <2>1. \A y \in Visitors : ~Compares(visitor'[y], c) /\ ~(visitor'[y].pc = "book" /\ visitor'[y].code = c)
    BY <1>11, <1>2, PhoneFacts DEF HasCode, Compares
  <2>2. AttemptsCounted(c)'
    BY <2>1, <1>4, <1>6, <1>7, <1>k DEF AttemptsCounted
  <2>3. SpentWhenUsed(c)'
    BY <2>1, <1>7, <1>k DEF SpentWhenUsed
  <2> QED
    BY <2>2, <2>3
<1>13. \A v \in Codes \ {c} :
            /\ code'[v] = code[v] \/ code'[v] = [code[v] EXCEPT !.status = "EXPIRED"]
            /\ used'[v] = used[v] /\ guesses'[v] = guesses[v]
            /\ ~Compares(visitor[x], v) /\ ~(visitor[x].pc = "charge" /\ visitor[x].code = v)
            /\ ~Compares(r, v) /\ ~(r.pc = "book" /\ r.code = v)
  BY <1>k, <1>2, <1>6, <1>s DEF Compares
<1>14. OwnStep(x, r, c)
  BY <1>2, <1>8, <1>9, <1>10, <1>12, <1>13, <1>k DEF OwnStep
<1> QED
  BY <1>14, RequestStepKeeps

(* The text is sent, or refused; a request gives up. *)
LEMMA EndsKeep ==
  ASSUME CodesInv, NEW x \in Visitors, SmsRefused(x) \/ AbandonSpend(x) \/ \E answered \in BOOLEAN : SmsAccepted(x, answered)
  PROVE  CodesInv'
<1>s. PICK s \in VisitorRow : s = visitor[x] /\ s.pc \in {"sms", "spend", "book"} /\ HasCode(s)
  BY PhoneFacts DEF SmsRefused, SmsAccepted, AbandonSpend, HasCode
<1>0. s.code \in Codes /\ code[s.code].status # "NONE"
  BY <1>s, OnItsPurpose
<1>f. PICK f \in VisitorRow : f = Fresh(x) /\ f.pc = "idle"
  BY FreshIsIdle
<1>1. PICK r \in VisitorRow : r.pc = "idle" /\ visitor' = [visitor EXCEPT ![x] = r]
  <2>1. CASE SmsRefused(x) \/ AbandonSpend(x)
    BY <2>1, <1>f DEF SmsRefused, AbandonSpend, Ends
  <2>2. ASSUME NEW answered \in BOOLEAN, SmsAccepted(x, answered)
        PROVE \E r \in VisitorRow : r.pc = "idle" /\ visitor' = [visitor EXCEPT ![x] = r]
    <3>1. PICK h \in Codes \cup {0} : h = IF answered THEN visitor[x].code ELSE f.held
      BY <1>s, <1>f DEF VisitorRow
    <3>2. PICK r : r = [f EXCEPT !.held = h]
      OBVIOUS
    <3>3. r \in VisitorRow /\ r.pc = "idle"
      BY <3>2, <1>f DEF VisitorRow
    <3>4. visitor' = [visitor EXCEPT ![x] = r]
      BY <2>2, <1>f, <3>1, <3>2 DEF SmsAccepted
    <3> QED
      BY <3>3, <3>4
  <2> QED
    BY <2>1, <2>2
<1>k. UNCHANGED <<used, guesses, overlapping, unspent, phoneClock>>
  BY DEF SmsRefused, SmsAccepted, AbandonSpend, LimitKept, CodesKept
<1>2. \/ code' = code
      \/ code' = [code EXCEPT ![s.code] = [code[s.code] EXCEPT !.status = "EXPIRED"]]
  BY <1>s, PhoneFacts DEF SmsRefused, SmsAccepted, AbandonSpend, CodesKept
<1>3. \A v \in Codes : code'[v] = code[v] \/ (code[v].status # "NONE" /\ code'[v] = [code[v] EXCEPT !.status = "EXPIRED"])
  BY <1>2, <1>0, PhoneFacts
<1>4. code' \in [Codes -> CodeRow]
  <2>1. [code[s.code] EXCEPT !.status = "EXPIRED"] \in CodeRow
    BY <1>0, PhoneFacts DEF CodeRow
  <2> QED
    BY <2>1, <1>2, PhoneFacts
<1>5. CodesStand /\ ProperCodes
  <2>1. ASSUME NEW v \in Codes
        PROVE  /\ code'[v].purpose = code[v].purpose
               /\ \/ code'[v].status = code[v].status /\ code'[v].attempts = code[v].attempts
                  \/ code[v].status # "NONE" /\ code'[v].status = "EXPIRED"
    <3>1. code[v] \in CodeRow
      BY PhoneFacts
    <3>2. CASE code'[v] = code[v]
      BY <3>2
    <3>3. CASE code[v].status # "NONE" /\ code'[v] = [code[v] EXCEPT !.status = "EXPIRED"]
      BY <3>1, <3>3 DEF CodeRow
    <3> QED
      BY <1>3, <3>2, <3>3
  <2> QED
    BY <2>1, <1>4, <1>k DEF CodesStand, ProperCodes, CodesInv, CodesShape
<1>6. OneAtATime'
  BY <1>1, <1>k, NobodyBegins
<1>7. ProperVisitor(r)
  BY <1>1 DEF ProperVisitor, HasCode
<1>8. PICK c : c \notin Codes
  BY PhoneFacts
<1>9. \A v \in Codes \ {c} :
            /\ code'[v] = code[v] \/ code'[v] = [code[v] EXCEPT !.status = "EXPIRED"]
            /\ used'[v] = used[v] /\ guesses'[v] = guesses[v]
            /\ ~Compares(visitor[x], v) /\ ~(visitor[x].pc = "charge" /\ visitor[x].code = v)
            /\ ~Compares(r, v) /\ ~(r.pc = "book" /\ r.code = v)
  BY <1>k, <1>1, <1>s, <1>3 DEF Compares
<1>10. OwnStep(x, r, c)
  BY <1>1, <1>5, <1>6, <1>7, <1>8, <1>9, <1>k DEF OwnStep
<1> QED
  BY <1>10, RequestStepKeeps

(* One who works on a purpose that nobody overlapped works on it alone. *)
LEMMA AloneOnIt ==
  ASSUME CodesInv, NEW x \in Visitors, HasCode(visitor[x]), visitor[x].purpose \notin overlapping
  PROVE  \A y \in Visitors \ {x} : HasCode(visitor[y]) => visitor[y].code # visitor[x].code
BY OnItsPurpose DEF CodesInv, OneAtATime

(* A request begins to work on the code that its form holds. *)
LEMMA BeginsOnCode ==
  ASSUME CodesInv, NEW x \in Visitors, NEW c \in Codes, NEW r, Begins(x, code[c].purpose, r), Idle(x),
         code[c].status # "NONE", code' = code, used' = used, phoneClock' = phoneClock, unspent' = unspent,
         \A v \in Codes \ {c} : guesses'[v] = guesses[v], guesses' \in [Codes -> Nat],
         r \in VisitorRow, HasCode(r), r.code = c, r.purpose = code[c].purpose, r.pc # "charge",
         r.pc \in {"right", "wrong"} => r.seen < MaxGuesses,
         r.pc = "book" => r.purpose = "BOOKING", r.pc = "spend" => r.purpose # "BOOKING",
         code[c].purpose \notin overlapping' /\ (\A y \in Visitors \ {x} : HasCode(visitor[y]) => visitor[y].code # c)
            => AttemptsCounted(c)' /\ (c \notin unspent => SpentWhenUsed(c)')
  PROVE  CodesInv'
<1>1. OneAtATime' /\ overlapping \subseteq overlapping'
      /\ (code[c].purpose \notin overlapping' => \A y \in Visitors \ {x} : visitor[y].pc # "idle" => visitor[y].purpose # code[c].purpose)
  BY SomebodyBegins
<1>2. CodesStand /\ ProperCodes
  BY DEF CodesInv, CodesShape, CodesStand, ProperCodes
<1>3. visitor' = [visitor EXCEPT ![x] = r] /\ visitor[x].pc = "idle"
  BY DEF Begins, Idle
<1>4. ProperVisitor(r)
  BY DEF ProperVisitor
<1>5. code'[c].purpose \notin overlapping' => AttemptsCounted(c)' /\ (c \notin unspent' => SpentWhenUsed(c)')
  <2>1. code'[c].purpose \notin overlapping' => \A y \in Visitors \ {x} : HasCode(visitor[y]) => visitor[y].code # c
    BY <1>1, OnItsPurpose
  <2> QED
    BY <2>1
<1>6. \A v \in Codes \ {c} :
            /\ code'[v] = code[v] \/ code'[v] = [code[v] EXCEPT !.status = "EXPIRED"]
            /\ used'[v] = used[v] /\ guesses'[v] = guesses[v]
            /\ ~Compares(visitor[x], v) /\ ~(visitor[x].pc = "charge" /\ visitor[x].code = v)
            /\ ~Compares(r, v) /\ ~(r.pc = "book" /\ r.code = v)
  BY <1>3 DEF Compares
<1>7. OwnStep(x, r, c)
  BY <1>1, <1>2, <1>3, <1>4, <1>5, <1>6 DEF OwnStep
<1> QED
  BY <1>7, RequestStepKeeps

LEMMA CompareKeeps ==
  ASSUME CodesInv, NEW x \in Visitors, NEW c \in Codes, NEW a \in {"right", "wrong"}, CompareCode(x, c, a)
  PROVE  CodesInv'
<1>f. PICK f \in VisitorRow : f = Fresh(x) /\ f.pc = "idle"
  BY FreshIsIdle
<1>c. code[c] \in CodeRow /\ code[c].status = "PENDING" /\ code[c].attempts < MaxGuesses /\ guesses[c] \in Nat
      /\ code[c].attempts \in Nat
  BY PhoneFacts DEF CompareCode, CodesInv, CodesShape, CodeRow
<1>1. PICK r : r = [f EXCEPT !.pc = a, !.purpose = code[c].purpose, !.code = c, !.now = phoneClock, !.seen = code[c].attempts]
  OBVIOUS
<1>2. /\ r \in VisitorRow /\ r.pc = a /\ r.purpose = code[c].purpose /\ r.code = c /\ r.seen = code[c].attempts
      /\ HasCode(r)
  BY <1>1, <1>c, PhoneFacts DEF VisitorRow, CodeRow, HasCode
<1>3. Begins(x, code[c].purpose, r) /\ Idle(x)
  BY <1>1, <1>f DEF CompareCode, Confirming
<1>k. UNCHANGED <<code, used, unspent, phoneClock>>
  BY DEF CompareCode, LimitKept
<1>4. guesses' \in [Codes -> Nat] /\ guesses'[c] = guesses[c] + 1 /\ \A v \in Codes \ {c} : guesses'[v] = guesses[v]
  BY PhoneFacts DEF CompareCode
<1>5. ASSUME code[c].purpose \notin overlapping', \A y \in Visitors \ {x} : HasCode(visitor[y]) => visitor[y].code # c
      PROVE  AttemptsCounted(c)' /\ (c \notin unspent => SpentWhenUsed(c)')
  <2>1. \A y \in Visitors : visitor'[y] = IF y = x THEN r ELSE visitor[y]
    BY <1>3, PhoneFacts DEF Begins
  <2>2. code[c].purpose \notin overlapping
    BY <1>5, <1>3 DEF Begins
  <2>3. \A y \in Visitors : ~Compares(visitor[y], c)
    BY <1>5, <1>3 DEF Compares, HasCode, Idle
  <2>4. guesses[c] <= code[c].attempts
    BY <2>2, <2>3 DEF CodesInv, AttemptsCounted
  <2>5. \A y \in Visitors : Compares(visitor'[y], c) => y = x
    BY <2>1, <2>3
  <2>6. Compares(visitor'[x], c)
    BY <2>1, <1>2 DEF Compares
  <2>7. AttemptsCounted(c)'
    BY <2>1, <2>4, <2>5, <2>6, <1>2, <1>4, <1>c, <1>k DEF AttemptsCounted
  <2>8. ASSUME c \notin unspent PROVE SpentWhenUsed(c)'
    <3>1. SpentWhenUsed(c) /\ used[c] \in Nat
      BY <2>2, <2>8, PhoneFacts DEF CodesInv
    <3>2. used[c] = 0
      BY <3>1, <1>c DEF SpentWhenUsed
    <3>3. \A y \in Visitors : ~(visitor'[y].pc = "book" /\ visitor'[y].code = c)
      BY <2>1, <1>2, <1>5 DEF HasCode
    <3> QED
      BY <3>2, <3>3, <1>k DEF SpentWhenUsed
  <2> QED
    BY <2>7, <2>8
<1>6. /\ r.pc # "charge" /\ r.pc # "book" /\ r.pc # "spend" /\ r.seen < MaxGuesses
      /\ code[c].status # "NONE"
  BY <1>2, <1>c
<1> QED
  BY <1>2, <1>3, <1>4, <1>5, <1>6, <1>k, BeginsOnCode

LEMMA AgainOrGateKeeps ==
  ASSUME CodesInv, NEW x \in Visitors, NEW c \in Codes, ConfirmAgain(x, c) \/ PassGate(x, c)
  PROVE  CodesInv'
<1>f. PICK f \in VisitorRow : f = Fresh(x) /\ f.pc = "idle"
  BY FreshIsIdle
<1>c. code[c] \in CodeRow /\ code[c].status = "VERIFIED" /\ code[c].purpose \in Purposes /\ Idle(x)
  BY PhoneFacts DEF ConfirmAgain, PassGate, Confirming, Spendable, CodeRow
<1>1. PICK r \in VisitorRow : /\ Begins(x, code[c].purpose, r) /\ r.purpose = code[c].purpose /\ r.code = c
                              /\ \/ r.pc = "spend" /\ code[c].purpose # "BOOKING"
                                 \/ r.pc = "book" /\ code[c].purpose = "BOOKING" /\ code[c].expiresAt > phoneClock
  <2>1. CASE ConfirmAgain(x, c)
    <3>1. PICK now : now = visitor[x].now
      OBVIOUS
    <3>2. PICK r : r = [[f EXCEPT !.pc = "spend", !.purpose = code[c].purpose, !.code = c, !.now = now] EXCEPT !.now = phoneClock]
      OBVIOUS
    <3>3. r \in VisitorRow /\ r.purpose = code[c].purpose /\ r.code = c /\ r.pc = "spend"
      BY <3>2, <1>c, PhoneFacts DEF VisitorRow
    <3>4. Begins(x, code[c].purpose, r)
      BY <2>1, <1>f, <3>1, <3>2 DEF ConfirmAgain, Confirmed
    <3> QED
      BY <3>3, <3>4, <2>1 DEF ConfirmAgain
  <2>2. CASE PassGate(x, c)
    <3>1. PICK r : r = [f EXCEPT !.pc = "book", !.purpose = "BOOKING", !.code = c, !.now = phoneClock]
      OBVIOUS
    <3>2. code[c].purpose = "BOOKING" /\ code[c].expiresAt > phoneClock
      BY <2>2 DEF PassGate, Spendable
    <3>3. r \in VisitorRow /\ r.purpose = "BOOKING" /\ r.code = c /\ r.pc = "book"
      BY <3>1, <3>2, <1>c, PhoneFacts DEF VisitorRow
    <3>4. Begins(x, "BOOKING", r)
      BY <2>2, <1>f, <3>1 DEF PassGate
    <3> QED
      BY <3>2, <3>3, <3>4
  <2> QED
    BY <2>1, <2>2
<1>k. UNCHANGED <<code, used, guesses, unspent, phoneClock>>
  BY DEF ConfirmAgain, PassGate, LimitKept, CodesKept
<1>5. ASSUME code[c].purpose \notin overlapping', \A y \in Visitors \ {x} : HasCode(visitor[y]) => visitor[y].code # c
      PROVE  AttemptsCounted(c)' /\ (c \notin unspent => SpentWhenUsed(c)')
  <2>1. \A y \in Visitors : visitor'[y] = IF y = x THEN r ELSE visitor[y]
    BY <1>1, PhoneFacts DEF Begins
  <2>2. code[c].purpose \notin overlapping
    BY <1>5, <1>1 DEF Begins
  <2>3. \A y \in Visitors : ~Compares(visitor[y], c) /\ ~Compares(visitor'[y], c)
    BY <1>5, <1>1, <1>c, <2>1 DEF Compares, HasCode, Idle
  <2>4. AttemptsCounted(c)'
    BY <2>2, <2>3, <1>k DEF CodesInv, AttemptsCounted
  <2>5. ASSUME c \notin unspent PROVE SpentWhenUsed(c)'
    <3>1. SpentWhenUsed(c) /\ used[c] \in Nat
      BY <2>2, <2>5, PhoneFacts DEF CodesInv
    <3>2. \A y \in Visitors : ~(visitor[y].pc = "charge" /\ visitor[y].code = c)
      BY <1>5, <1>c DEF HasCode, Idle
    <3>3. used[c] = 0
      <4>1. ~(code[c].purpose = "BOOKING" /\ ~Live(c))
        BY <1>1 DEF Live
      <4> QED
        BY <3>1, <3>2, <4>1, <1>c DEF SpentWhenUsed
    <3> QED
      BY <2>3, <3>3, <1>k, <1>c DEF SpentWhenUsed
  <2> QED
    BY <2>4, <2>5
<1>6. /\ HasCode(r) /\ r.pc # "charge" /\ r.pc \notin {"right", "wrong"} /\ code[c].status # "NONE"
      /\ (r.pc = "book" => r.purpose = "BOOKING") /\ (r.pc = "spend" => r.purpose # "BOOKING")
      /\ guesses' \in [Codes -> Nat] /\ \A v \in Codes \ {c} : guesses'[v] = guesses[v]
  BY <1>1, <1>c, <1>k, PhoneFacts DEF HasCode
<1> QED
  BY <1>1, <1>5, <1>6, <1>c, <1>k, BeginsOnCode

(* Whoever works on a code goes on, and so does what is known of that code. *)
WorkStep(x, s, c, r, row, u) ==
    /\ s = visitor[x] /\ HasCode(s) /\ c = s.code
    /\ visitor' = [visitor EXCEPT ![x] = r] /\ r \in VisitorRow /\ (r.code = c \/ ~HasCode(r))
    /\ r.pc # "idle" => r.purpose = s.purpose
    /\ r.pc = "charge" => s.purpose = "BOOKING"
    /\ r.pc = "spend" => s.purpose # "BOOKING"
    /\ r.pc \notin {"right", "wrong", "book"}
    /\ code' = [code EXCEPT ![c] = row] /\ row \in CodeRow /\ row.purpose = code[c].purpose /\ row.status # "NONE"
    /\ row.status = "PENDING" => row.attempts < MaxGuesses
    /\ used' = [used EXCEPT ![c] = u] /\ u \in Nat
    /\ UNCHANGED <<guesses, overlapping, phoneClock>> /\ unspent \subseteq unspent'
    /\ s.purpose \notin overlapping /\ AttemptsCounted(c) =>
         /\ guesses[c] <= row.attempts
         /\ c \notin unspent' /\ SpentWhenUsed(c) =>
              /\ u <= 1
              /\ u = 1 => \/ row.status \in {"CONSUMED", "EXPIRED"}
                          \/ /\ row.purpose = "BOOKING" /\ row.status = "VERIFIED"
                             /\ row.expiresAt <= phoneClock \/ (r.pc = "charge" /\ r.code = c)

LEMMA WorksOnCode ==
  ASSUME CodesInv, NEW x \in Visitors, NEW s, NEW c, NEW r, NEW row, NEW u, WorkStep(x, s, c, r, row, u)
  PROVE  CodesInv'
<1> USE DEF WorkStep
<1>0. c \in Codes /\ s.purpose = code[c].purpose /\ code[c].status # "NONE" /\ s.pc # "idle"
  BY OnItsPurpose
<1>1. /\ code' \in [Codes -> CodeRow] /\ code'[c] = row /\ \A v \in Codes \ {c} : code'[v] = code[v]
      /\ used' \in [Codes -> Nat] /\ used'[c] = u /\ \A v \in Codes \ {c} : used'[v] = used[v]
  BY <1>0, PhoneFacts
<1>2. CodesStand /\ ProperCodes
  BY <1>0, <1>1 DEF CodesStand, ProperCodes, CodesInv, CodesShape
<1>3. ProperVisitor(r)
  BY <1>0, <1>1 DEF ProperVisitor, HasCode
<1>4. OneAtATime'
  BY <1>0, NobodyBegins
<1>5. \A y \in Visitors : visitor'[y] = IF y = x THEN r ELSE visitor[y]
  BY PhoneFacts
<1>6. ASSUME code'[c].purpose \notin overlapping' PROVE AttemptsCounted(c)' /\ (c \notin unspent' => SpentWhenUsed(c)')
  <2>1. AttemptsCounted(c) /\ (c \notin unspent' => SpentWhenUsed(c)) /\ s.purpose \notin overlapping
    BY <1>0, <1>1, <1>6 DEF CodesInv
  <2>2. \A y \in Visitors \ {x} : HasCode(visitor[y]) => visitor[y].code # c
    BY <2>1, AloneOnIt
  <2>3. \A y \in Visitors : ~Compares(visitor'[y], c) /\ ~(visitor'[y].pc = "book" /\ visitor'[y].code = c)
    BY <2>2, <1>5 DEF Compares, HasCode
  <2>4. AttemptsCounted(c)'
    <3>1. guesses[c] <= row.attempts /\ guesses[c] \in Nat /\ row.attempts \in Nat
      BY <2>1, <1>0, PhoneFacts DEF CodeRow
    <3> QED
      BY <3>1, <2>3, <1>1 DEF AttemptsCounted
  <2>5. ASSUME c \notin unspent' PROVE SpentWhenUsed(c)'
    <3>1. /\ u <= 1
          /\ u = 1 => \/ row.status \in {"CONSUMED", "EXPIRED"}
                      \/ /\ row.purpose = "BOOKING" /\ row.status = "VERIFIED"
                         /\ row.expiresAt <= phoneClock \/ (r.pc = "charge" /\ r.code = c)
      BY <2>1, <2>5
    <3>2. row.expiresAt <= phoneClock => ~Live(c)'
      <4>1. row.expiresAt \in Nat /\ phoneClock \in Nat
        BY PhoneFacts DEF CodeRow
      <4> QED
        BY <4>1, <1>1 DEF Live
    <3>3. r.pc = "charge" /\ r.code = c => \E y \in Visitors : visitor'[y].pc = "charge" /\ visitor'[y].code = c
      BY <1>5
    <3> QED
      BY <3>1, <3>2, <3>3, <2>3, <1>1 DEF SpentWhenUsed
  <2> QED
    BY <2>4, <2>5
<1>7. \A v \in Codes \ {c} :
            /\ code'[v] = code[v] \/ code'[v] = [code[v] EXCEPT !.status = "EXPIRED"]
            /\ used'[v] = used[v] /\ guesses'[v] = guesses[v]
            /\ ~Compares(visitor[x], v) /\ ~(visitor[x].pc = "charge" /\ visitor[x].code = v)
            /\ ~Compares(r, v) /\ ~(r.pc = "book" /\ r.code = v)
  BY <1>1 DEF Compares, HasCode
<1>8. OwnStep(x, r, c)
  BY <1>2, <1>3, <1>4, <1>6, <1>7 DEF OwnStep
<1> QED
  BY <1>8, RequestStepKeeps

LEMMA CountWrongKeeps ==
  ASSUME CodesInv, NEW x \in Visitors, CountWrongCode(x)
  PROVE  CodesInv'
<1>s. PICK s \in VisitorRow : s = visitor[x] /\ s.pc = "wrong" /\ HasCode(s)
  BY PhoneFacts DEF CountWrongCode, HasCode
<1>c. PICK c \in Codes : c = s.code /\ code[c] \in CodeRow /\ code[c].status # "NONE"
  BY <1>s, OnItsPurpose, PhoneFacts
<1>f. PICK f \in VisitorRow : f = Fresh(x) /\ f.pc = "idle"
  BY FreshIsIdle
<1>n. s.seen \in Nat /\ s.seen + 1 \in 0 .. MaxGuesses
  BY <1>s, PhoneFacts DEF VisitorRow, CodesInv, CodesShape
<1>1. PICK row : row = [code[c] EXCEPT !.attempts = s.seen + 1,
                                       !.status = IF GuessesOver(s.seen + 1) THEN "EXPIRED" ELSE "PENDING"]
  OBVIOUS
<1>2. /\ row \in CodeRow /\ row.purpose = code[c].purpose /\ row.attempts = s.seen + 1
      /\ row.status \in {"EXPIRED", "PENDING"} /\ (row.status = "PENDING" => row.attempts < MaxGuesses)
  <2>1. PICK status \in {"EXPIRED", "PENDING"} :
           /\ status = IF GuessesOver(s.seen + 1) THEN "EXPIRED" ELSE "PENDING"
           /\ status = "PENDING" => s.seen + 1 < MaxGuesses
    BY <1>n, PhoneFacts DEF GuessesOver
  <2>2. row = [code[c] EXCEPT !.attempts = s.seen + 1, !.status = status]
    BY <1>1, <2>1
  <2> QED
    BY <2>1, <2>2, <1>c, <1>n DEF CodeRow
<1>3. code' = [code EXCEPT ![c] = row] /\ visitor' = [visitor EXCEPT ![x] = f]
  <2>1. code' = [code EXCEPT ![c] = [code[c] EXCEPT !.attempts = s.seen + 1,
                                       !.status = IF GuessesOver(s.seen + 1) THEN "EXPIRED" ELSE "PENDING"]]
    BY <1>s, <1>c, PhoneFacts DEF CountWrongCode
  <2> QED
    BY <1>1, <1>f, <2>1 DEF CountWrongCode, Ends
<1>4. used' = [used EXCEPT ![c] = used[c]] /\ used[c] \in Nat
  BY PhoneFacts DEF CountWrongCode
<1>5. ASSUME AttemptsCounted(c) PROVE guesses[c] <= row.attempts
  BY <1>5, <1>s, <1>c, <1>2 DEF AttemptsCounted, Compares
<1>6. ASSUME SpentWhenUsed(c) PROVE used[c] = 0
  BY <1>6, <1>s, <1>c DEF SpentWhenUsed, Compares
<1>k. UNCHANGED <<guesses, overlapping, phoneClock>> /\ unspent \subseteq unspent'
  BY DEF CountWrongCode, LimitKept
<1>7. WorkStep(x, s, c, f, row, used[c])
  BY <1>k, <1>s, <1>c, <1>f, <1>2, <1>3, <1>4, <1>5, <1>6 DEF WorkStep, HasCode
<1> QED
  BY <1>7, WorksOnCode

LEMMA MarkVerifiedKeeps ==
  ASSUME CodesInv, NEW x \in Visitors, MarkVerified(x)
  PROVE  CodesInv'
<1>s. PICK s \in VisitorRow : s = visitor[x] /\ s.pc = "right" /\ HasCode(s)
  BY PhoneFacts DEF MarkVerified, HasCode
<1>c. PICK c \in Codes : c = s.code /\ code[c] \in CodeRow /\ code[c].status # "NONE" /\ s.purpose = code[c].purpose
  BY <1>s, OnItsPurpose, PhoneFacts
<1>f. PICK f \in VisitorRow : f = Fresh(x) /\ f.pc = "idle"
  BY FreshIsIdle
<1>n. s.seen \in Nat /\ s.seen + 1 \in 0 .. MaxGuesses /\ s.now \in Nat /\ s.now + VerifiedTTL \in Nat
  BY <1>s, PhoneFacts DEF VisitorRow, CodesInv, CodesShape
<1>1. PICK row : row = [code[c] EXCEPT !.status = "VERIFIED", !.attempts = s.seen + 1, !.expiresAt = s.now + VerifiedTTL]
  OBVIOUS
<1>2. /\ row \in CodeRow /\ row.purpose = code[c].purpose /\ row.attempts = s.seen + 1 /\ row.status = "VERIFIED"
  BY <1>1, <1>c, <1>n DEF CodeRow
<1>r. PICK r : r = [f EXCEPT !.pc = IF code[c].purpose = "BOOKING" THEN "idle" ELSE "spend",
                             !.purpose = code[c].purpose, !.code = c, !.now = s.now]
  OBVIOUS
<1>3. /\ r \in VisitorRow /\ r.purpose = s.purpose /\ r.code = c
      /\ r.pc = "idle" \/ (r.pc = "spend" /\ s.purpose # "BOOKING")
  BY <1>r, <1>c, <1>n DEF VisitorRow, CodeRow
<1>4. code' = [code EXCEPT ![c] = row] /\ visitor' = [visitor EXCEPT ![x] = r]
  <2>1. code' = [code EXCEPT ![c] = [code[c] EXCEPT !.status = "VERIFIED", !.attempts = s.seen + 1, !.expiresAt = s.now + VerifiedTTL]]
    BY <1>s, <1>c, PhoneFacts DEF MarkVerified
  <2> QED
    BY <1>1, <1>s, <1>c, <1>f, <1>r, <2>1 DEF MarkVerified, Confirmed
<1>5. used' = [used EXCEPT ![c] = used[c]] /\ used[c] \in Nat
  BY PhoneFacts DEF MarkVerified
<1>6. ASSUME AttemptsCounted(c) PROVE guesses[c] <= row.attempts
  BY <1>6, <1>s, <1>c, <1>2 DEF AttemptsCounted, Compares
<1>7. ASSUME SpentWhenUsed(c) PROVE used[c] = 0
  BY <1>7, <1>s, <1>c DEF SpentWhenUsed, Compares
<1>k. UNCHANGED <<guesses, overlapping, phoneClock>> /\ unspent \subseteq unspent'
  BY DEF MarkVerified, LimitKept
<1>8. WorkStep(x, s, c, r, row, used[c])
  BY <1>k, <1>s, <1>c, <1>2, <1>3, <1>4, <1>5, <1>6, <1>7 DEF WorkStep
<1> QED
  BY <1>8, WorksOnCode

(* The login, the reset, and the booking that came first spend the code. *)
LEMMA SpendKeeps ==
  ASSUME CodesInv, NEW x \in Visitors, SpendCode(x) \/ SpendAfterBooking(x) \/ FailToSpend(x)
  PROVE  CodesInv'
<1>s. PICK s \in VisitorRow : /\ s = visitor[x] /\ HasCode(s)
                              /\ (s.pc = "spend" /\ s.purpose # "BOOKING" /\ SpendCode(x))
                                 \/ (s.pc = "charge" /\ s.purpose = "BOOKING" /\ (SpendAfterBooking(x) \/ FailToSpend(x)))
  BY PhoneFacts DEF SpendCode, SpendAfterBooking, FailToSpend, HasCode, CodesInv, CodesShape
<1>c. PICK c \in Codes : c = s.code /\ code[c] \in CodeRow /\ code[c].status # "NONE" /\ s.purpose = code[c].purpose
  BY <1>s, OnItsPurpose, PhoneFacts
<1>f. PICK f \in VisitorRow : f = Fresh(x) /\ f.pc = "idle"
  BY FreshIsIdle
<1>1. PICK spent \in CodeRow : spent = [code[c] EXCEPT !.status = "CONSUMED"]
  BY <1>c DEF CodeRow
<1>2. spent.status = "CONSUMED" /\ spent.purpose = code[c].purpose /\ spent.attempts = code[c].attempts
  BY <1>1, <1>c DEF CodeRow
<1>k. /\ visitor' = [visitor EXCEPT ![x] = f] /\ UNCHANGED <<guesses, overlapping, phoneClock>> /\ unspent \subseteq unspent'
  BY <1>f DEF SpendCode, SpendAfterBooking, FailToSpend, Ends, LimitKept
<1>n. used[c] \in Nat /\ code[c].expiresAt \in Nat /\ phoneClock \in Nat /\ guesses[c] \in Nat /\ code[c].attempts \in Nat
      /\ (code[c].status = "PENDING" => code[c].attempts < MaxGuesses)
  BY <1>c, PhoneFacts DEF CodeRow, CodesInv, CodesShape
<1>3. ASSUME AttemptsCounted(c), s.purpose \notin overlapping PROVE guesses[c] <= code[c].attempts
  <2>1. \A y \in Visitors : ~Compares(visitor[y], c)
    BY <1>3, <1>s, <1>c, AloneOnIt DEF Compares, HasCode
  <2> QED
    BY <1>3, <2>1 DEF AttemptsCounted
<1>4. CASE SpendCode(x) /\ Spendable(c, s.now)
  <2>1. code' = [code EXCEPT ![c] = spent] /\ used' = [used EXCEPT ![c] = used[c] + 1] /\ s.pc = "spend" /\ s.purpose # "BOOKING"
    <3>1. code' = [code EXCEPT ![c] = [code[c] EXCEPT !.status = "CONSUMED"]]
      BY <1>s, <1>c, <1>4, PhoneFacts DEF SpendCode
    <3>2. used' = [used EXCEPT ![c] = used[c] + 1]
      BY <1>s, <1>c, <1>4, PhoneFacts DEF SpendCode
    <3>3. s.pc = "spend"
      BY <1>s, <1>4 DEF SpendCode
    <3> QED
      BY <3>1, <3>2, <3>3, <1>1, <1>s
  <2>2. ASSUME SpentWhenUsed(c) PROVE used[c] = 0
    BY <2>1, <2>2, <1>4, <1>c, <1>n DEF SpentWhenUsed, Spendable
  <2>3. WorkStep(x, s, c, f, spent, used[c] + 1)
    BY <1>s, <1>c, <1>f, <1>1, <1>2, <1>3, <1>k, <1>n, <2>1, <2>2 DEF WorkStep, HasCode
  <2> QED
    BY <2>3, WorksOnCode
<1>5. CASE SpendAfterBooking(x) /\ Spendable(c, phoneClock)
  <2>1. code' = [code EXCEPT ![c] = spent] /\ used' = [used EXCEPT ![c] = used[c]]
    <3>1. code' = [code EXCEPT ![c] = [code[c] EXCEPT !.status = "CONSUMED"]]
      BY <1>s, <1>c, <1>5, PhoneFacts DEF SpendAfterBooking
    <3> QED
      BY <3>1, <1>1, <1>5, PhoneFacts DEF SpendAfterBooking
  <2>2. ASSUME SpentWhenUsed(c) PROVE used[c] <= 1
    BY <2>2 DEF SpentWhenUsed
  <2>3. WorkStep(x, s, c, f, spent, used[c])
    BY <1>s, <1>c, <1>f, <1>1, <1>2, <1>3, <1>k, <1>n, <2>1, <2>2 DEF WorkStep, HasCode
  <2> QED
    BY <2>3, WorksOnCode
<1>6. CASE /\ code' = code /\ used' = used
           /\ \/ SpendCode(x) \/ FailToSpend(x)
              \/ SpendAfterBooking(x) /\ ~Spendable(c, phoneClock)
  <2>1. code' = [code EXCEPT ![c] = code[c]] /\ used' = [used EXCEPT ![c] = used[c]]
    BY <1>6, PhoneFacts
  <2>2. FailToSpend(x) => c \in unspent'
    BY <1>s, <1>c DEF FailToSpend
  <2>3. ASSUME SpentWhenUsed(c), c \notin unspent'
        PROVE  /\ used[c] <= 1
               /\ used[c] = 1 => \/ code[c].status \in {"CONSUMED", "EXPIRED"}
                                 \/ /\ code[c].purpose = "BOOKING" /\ code[c].status = "VERIFIED"
                                    /\ code[c].expiresAt <= phoneClock
    BY <2>2, <2>3, <1>6, <1>s, <1>c, <1>n, SMTT(60) DEF SpentWhenUsed, Spendable, SpendCode, SpendAfterBooking
  <2>4. WorkStep(x, s, c, f, code[c], used[c])
    BY <1>s, <1>c, <1>f, <1>3, <1>k, <1>n, <2>1, <2>3 DEF WorkStep, HasCode
  <2> QED
    BY <2>4, WorksOnCode
<1> QED
  BY <1>4, <1>5, <1>6, <1>s, <1>c DEF SpendCode, SpendAfterBooking, FailToSpend

LEMMA BookKeeps ==
  ASSUME CodesInv, NEW x \in Visitors, Book(x)
  PROVE  CodesInv'
<1>s. PICK s \in VisitorRow : s = visitor[x] /\ HasCode(s) /\ s.pc = "book" /\ s.purpose = "BOOKING"
  BY PhoneFacts DEF Book, HasCode, CodesInv, CodesShape
<1>c. PICK c \in Codes : c = s.code /\ code[c] \in CodeRow /\ code[c].status # "NONE" /\ s.purpose = code[c].purpose
  BY <1>s, OnItsPurpose, PhoneFacts
<1>1. PICK r : r = [s EXCEPT !.pc = "charge"]
  OBVIOUS
<1>2. r \in VisitorRow /\ r.pc = "charge" /\ r.code = c /\ r.purpose = s.purpose
  BY <1>1, <1>c DEF VisitorRow
<1>3. visitor' = [visitor EXCEPT ![x] = r] /\ code' = [code EXCEPT ![c] = code[c]] /\ used' = [used EXCEPT ![c] = used[c] + 1]
  BY <1>1, <1>s, <1>c, PhoneFacts DEF Book
<1>n. used[c] \in Nat /\ guesses[c] \in Nat /\ code[c].attempts \in Nat /\ (code[c].status = "PENDING" => code[c].attempts < MaxGuesses)
  BY <1>c, PhoneFacts DEF CodeRow, CodesInv, CodesShape
<1>4. ASSUME AttemptsCounted(c), s.purpose \notin overlapping PROVE guesses[c] <= code[c].attempts
  <2>1. \A y \in Visitors : ~Compares(visitor[y], c)
    BY <1>4, <1>s, <1>c, AloneOnIt DEF Compares, HasCode
  <2> QED
    BY <1>4, <2>1 DEF AttemptsCounted
<1>5. ASSUME SpentWhenUsed(c) PROVE used[c] = 0 /\ code[c].status \in {"VERIFIED", "CONSUMED", "EXPIRED"}
  BY <1>5, <1>s, <1>c DEF SpentWhenUsed
<1>k. UNCHANGED <<guesses, overlapping, phoneClock>> /\ unspent \subseteq unspent'
  BY DEF Book, LimitKept
<1>6. WorkStep(x, s, c, r, code[c], used[c] + 1)
  BY <1>k, <1>s, <1>c, <1>2, <1>3, <1>4, <1>5, <1>n DEF WorkStep
<1> QED
  BY <1>6, WorksOnCode

LEMMA CodesStart == PhoneInit => CodesInv
<1> SUFFICES ASSUME PhoneInit PROVE CodesInv
  OBVIOUS
<1>1. PICK p \in Purposes : p = NoCode.purpose
  BY PhoneAssumption DEF NoCode
<1>2. NoCode \in CodeRow /\ NoCode.status = "NONE"
  BY PhoneAssumption DEF NoCode, CodeRow
<1>3. PICK r : r = [pc |-> "idle", purpose |-> p, code |-> 0, now |-> 0, seen |-> 0, held |-> 0]
  OBVIOUS
<1>4. r \in VisitorRow /\ r.pc = "idle"
  BY <1>3, PhoneAssumption DEF VisitorRow
<1>5. /\ \A x \in Visitors : visitor[x] = r
      /\ visitor \in [Visitors -> VisitorRow]
  BY <1>1, <1>3, <1>4 DEF PhoneInit
<1>6. CodesShape
  BY <1>2, <1>4, <1>5 DEF PhoneInit, CodesShape, HasCode
<1>7. OneAtATime
  BY <1>4, <1>5 DEF OneAtATime
<1>8. ASSUME NEW v \in Codes PROVE AttemptsCounted(v) /\ SpentWhenUsed(v)
  <2>1. used[v] = 0 /\ guesses[v] = 0 /\ code[v].attempts \in Nat
    BY <1>2 DEF PhoneInit, CodeRow
  <2> QED
    BY <2>1, <1>4, <1>5 DEF AttemptsCounted, SpentWhenUsed, Compares
<1> QED
  BY <1>6, <1>7, <1>8 DEF CodesInv

LEMMA CodesInvHolds == PhoneSpec => []CodesInv
<1>1. PhoneInit => CodesInv
  BY CodesStart
<1>2. CodesInv /\ [PhoneNext]_phoneVars => CodesInv'
  <2> SUFFICES ASSUME CodesInv, [PhoneNext]_phoneVars PROVE CodesInv'
    OBVIOUS
  <2>1. CASE UNCHANGED phoneVars
    <3>1. code \in [Codes -> CodeRow] /\ phoneClock \in Nat
      BY DEF CodesInv, CodesShape
    <3> QED
      BY <2>1, <3>1, StandingStepKeeps DEF phoneVars
  <2>2. CASE ExpireStale \/ PhoneTick \/ SweepCounters
    BY <2>2, JobStepsKeep
  <2>3. ASSUME NEW x \in Visitors, NEW v \in Codes, ConfirmLate(x, v) PROVE CodesInv'
    BY <2>3, JobStepsKeep
  <2>4. ASSUME NEW x \in Visitors, NEW p \in Purposes, AskForCode(x, p) PROVE CodesInv'
    BY <2>4, AskKeeps
  <2>5. ASSUME NEW x \in Visitors, ExpirePending(x) PROVE CodesInv'
    BY <2>5, ExpirePendingKeeps
  <2>6. ASSUME NEW x \in Visitors, NEW v \in Codes, CreateCode(x, v) PROVE CodesInv'
    BY <2>6, CreateKeeps
  <2>7. ASSUME NEW x \in Visitors, SmsRefused(x) \/ AbandonSpend(x) PROVE CodesInv'
    BY <2>7, EndsKeep
  <2>8. ASSUME NEW x \in Visitors, NEW answered \in BOOLEAN, SmsAccepted(x, answered) PROVE CodesInv'
    BY <2>8, EndsKeep
  <2>9. ASSUME NEW x \in Visitors, NEW v \in Codes, NEW a \in {"right", "wrong"}, CompareCode(x, v, a) PROVE CodesInv'
    BY <2>9, CompareKeeps
  <2>10. ASSUME NEW x \in Visitors, NEW v \in Codes, ConfirmAgain(x, v) \/ PassGate(x, v) PROVE CodesInv'
    BY <2>10, AgainOrGateKeeps
  <2>11. ASSUME NEW x \in Visitors, CountWrongCode(x) PROVE CodesInv'
    BY <2>11, CountWrongKeeps
  <2>12. ASSUME NEW x \in Visitors, MarkVerified(x) PROVE CodesInv'
    BY <2>12, MarkVerifiedKeeps
  <2>13. ASSUME NEW x \in Visitors, SpendCode(x) \/ SpendAfterBooking(x) \/ FailToSpend(x) PROVE CodesInv'
    BY <2>13, SpendKeeps
  <2>14. ASSUME NEW x \in Visitors, Book(x) PROVE CodesInv'
    BY <2>14, BookKeeps
  <2> QED
    BY <2>1, <2>2, <2>3, <2>4, <2>5, <2>6, <2>7, <2>8, <2>9, <2>10, <2>11, <2>12, <2>13, <2>14, ZenonT(60) DEF PhoneNext
<1> QED
  BY <1>1, <1>2, PTL DEF PhoneSpec

(***************************************************************************)
(* For any number of codes, tabs and purposes, and whatever is asked,       *)
(* confirmed, abandoned and swept meanwhile: requests about one purpose     *)
(* that do not overlap use a code once, unless a booking could not spend    *)
(* it, and compare it with at most as many inputs as its row allows.        *)
(***************************************************************************)
THEOREM OneCodeBuysOnce == PhoneSpec => []CodeLimitsHold
<1>1. CodesInv => CodeLimitsHold
  <2> SUFFICES ASSUME CodesInv, NEW v \in Codes, code[v].purpose \notin overlapping
               PROVE  (used[v] > 1 => v \in unspent) /\ ~(guesses[v] > MaxGuesses)
    BY DEF CodeLimitsHold
  <2>1. /\ code[v] \in CodeRow /\ used[v] \in Nat /\ guesses[v] \in Nat /\ code[v].attempts \in 0 .. MaxGuesses
        /\ MaxGuesses \in Nat
    BY PhoneAssumption DEF CodesInv, CodesShape, CodeRow
  <2>2. AttemptsCounted(v) /\ (v \notin unspent => SpentWhenUsed(v))
    BY DEF CodesInv
  <2>3. guesses[v] <= MaxGuesses
    <3>1. CASE guesses[v] <= code[v].attempts
      BY <3>1, <2>1
    <3>2. ASSUME NEW x \in Visitors, Compares(visitor[x], v) PROVE guesses[v] <= MaxGuesses
      <4>1. visitor[x].seen < MaxGuesses /\ visitor[x].seen = code[v].attempts
        BY <3>2, <2>2 DEF CodesInv, CodesShape, Compares, AttemptsCounted
      <4> QED
        BY <4>1, <2>1, <2>2 DEF AttemptsCounted
    <3> QED
      BY <3>1, <3>2, <2>2 DEF AttemptsCounted
  <2> QED
    BY <2>1, <2>2, <2>3 DEF SpentWhenUsed
<1> QED
  BY <1>1, CodesInvHolds, PTL

-----------------------------------------------------------------------------
(***************************************************************************)
(* PasswordRecovery.  Every SMS that was sent, or that a request may yet    *)
(* send, has been counted and was within the rule when it was counted; so   *)
(* has every comparison.  And a code that bought a reset is CONSUMED, with  *)
(* nobody left who could write over that.                                   *)
(***************************************************************************)
RecoveryRow == [pc : {"idle", "address", "number", "send", "sms", "verify", "read", "right", "wrong", "commit"},
                number : Numbers, code : ResetCodes \cup {Blank}]

MayText(r, n) == r.pc \in {"send", "sms"} /\ r.number = n
Texting(n) == {q \in RecoveryRequests : MayText(recovery[q], n)}
Comparing == {q \in RecoveryRequests : recovery[q].pc = "read"}
Recovering == {q \in RecoveryRequests : recovery[q].pc # "idle"}

ProperRecovery(r) ==
    /\ r.pc = "sms" => r.number \in WithAccount
    /\ r.pc \in {"sms", "verify", "read", "right", "wrong", "commit"} => r.code \in ResetCodes
    /\ r.pc \in {"idle", "address", "number", "send"} => r.code = Blank

RecoveryRowsFine ==
    /\ PasswordRecoveryTypeOK /\ IsFiniteSet(Recovering)
    /\ \A q \in RecoveryRequests : ProperRecovery(recovery[q])
WithinRules ==
    ~uncounted =>
        /\ \A n \in Numbers : /\ texts[n] + Cardinality(Texting(n)) <= counted[AskedFrom(n)]
                              /\ texts[n] + Cardinality(Texting(n)) <= AskLimit
        /\ tried + Cardinality(Comparing) <= counted[GuessedFrom]
        /\ tried + Cardinality(Comparing) <= VerifyLimit
OnlyKnownTexted == \A n \in Numbers \ WithAccount : texts[n] = 0
CodeSpentOnce(c) ==
    /\ resetCode[c].status = "NONE" =>
         resets[c] = 0 /\ resetForm.held # c /\ \A q \in RecoveryRequests : recovery[q].code # c
    /\ c \notin met =>
         /\ resets[c] <= 1
         /\ \A q, r \in RecoveryRequests : recovery[q].code = c /\ recovery[r].code = c => q = r
         /\ resets[c] = 1 => /\ resetCode[c].status = "CONSUMED"
                             /\ \A q \in RecoveryRequests :
                                  recovery[q].code = c => recovery[q].pc \in {"verify", "read"}
RecoveryInv ==
    /\ RecoveryRowsFine /\ WithinRules /\ OnlyKnownTexted
    /\ \A c \in ResetCodes : CodeSpentOnce(c)

TextOf(r, n) == IF MayText(r, n) THEN 1 ELSE 0
CompareOf(r) == IF r.pc = "read" THEN 1 ELSE 0

LEMMA RecoveryFacts ==
  ASSUME RecoveryInv, NEW q \in RecoveryRequests
  PROVE  /\ recovery \in [RecoveryRequests -> RecoveryRow] /\ recovery[q] \in RecoveryRow /\ ProperRecovery(recovery[q])
         /\ resetForm \in [step : {"phone", "code", "done"}, number : Numbers, held : ResetCodes \cup {Blank},
                           waits : RecoveryRequests \cup {NoRequest}]
         /\ resetCode \in [ResetCodes -> [status : {"NONE", "PENDING", "VERIFIED", "CONSUMED", "EXPIRED"},
                                          number : Numbers, live : BOOLEAN]]
         /\ counted \in [RecoveryCounters -> Nat] /\ texts \in [Numbers -> Nat] /\ tried \in Nat
         /\ resets \in [ResetCodes -> Nat] /\ Blank \notin ResetCodes
BY PasswordRecoveryAssumption DEF RecoveryInv, RecoveryRowsFine, PasswordRecoveryTypeOK, RecoveryRow

LEMMA NoRecoveryIs == NoRecovery \in RecoveryRow /\ NoRecovery.pc = "idle" /\ NoRecovery.code = Blank /\ NoRecovery.number \in Numbers
BY PasswordRecoveryAssumption DEF NoRecovery, RecoveryRow

(* A request's step changes the sets by that request. *)
LEMMA OneRecoveryMoves ==
  ASSUME RecoveryInv, NEW q \in RecoveryRequests, NEW r, recovery' = [recovery EXCEPT ![q] = r]
  PROVE  /\ IsFiniteSet(Recovering)'
         /\ \A n \in Numbers : /\ Cardinality(Texting(n)) \in Nat /\ Cardinality(Texting(n))' \in Nat
                               /\ Cardinality(Texting(n))' = Cardinality(Texting(n)) + TextOf(r, n) - TextOf(recovery[q], n)
         /\ Cardinality(Comparing) \in Nat /\ Cardinality(Comparing)' \in Nat
         /\ Cardinality(Comparing)' = Cardinality(Comparing) + CompareOf(r) - CompareOf(recovery[q])
<1>1. recovery'[q] = r /\ \A p \in RecoveryRequests \ {q} : recovery'[p] = recovery[p]
  BY RecoveryFacts
<1>2. IsFiniteSet(Recovering) /\ IsFiniteSet(Recovering \cup {q})
  BY FS_AddElement DEF RecoveryInv, RecoveryRowsFine
<1>3. IsFiniteSet(Recovering)'
  <2>1. Recovering' \subseteq Recovering \cup {q}
    BY <1>1 DEF Recovering
  <2> QED
    BY <2>1, <1>2, FS_Subset
<1>4. ASSUME NEW S, S \subseteq Recovering
      PROVE  /\ Cardinality(S) \in Nat
             /\ q \in S => S \cup {q} = S /\ Cardinality(S \ {q}) = Cardinality(S) - 1 /\ Cardinality(S \ {q}) \in Nat
             /\ q \notin S => S \ {q} = S /\ Cardinality(S \cup {q}) = Cardinality(S) + 1
  <2>1. IsFiniteSet(S)
    BY <1>2, <1>4, FS_Subset
  <2>2. Cardinality(S) \in Nat
    BY <2>1, FS_CardinalityType
  <2>3. q \in S => Cardinality(S \ {q}) = Cardinality(S) - 1 /\ IsFiniteSet(S \ {q})
    BY <2>1, FS_RemoveElement
  <2>4. q \notin S => Cardinality(S \cup {q}) = Cardinality(S) + 1
    BY <2>1, FS_AddElement
  <2>5. IsFiniteSet(S \ {q}) => Cardinality(S \ {q}) \in Nat
    BY FS_CardinalityType
  <2> QED
    BY <2>2, <2>3, <2>4, <2>5
<1>5. ASSUME NEW n \in Numbers
      PROVE  /\ Cardinality(Texting(n)) \in Nat /\ Cardinality(Texting(n))' \in Nat
             /\ Cardinality(Texting(n))' = Cardinality(Texting(n)) + TextOf(r, n) - TextOf(recovery[q], n)
  <2> DEFINE S == Texting(n)
  <2>1. S \subseteq Recovering /\ (q \in S <=> MayText(recovery[q], n))
    BY DEF Texting, Recovering, MayText
  <2>2. Texting(n)' = IF MayText(r, n) THEN S \cup {q} ELSE S \ {q}
    BY <1>1 DEF Texting
  <2> HIDE DEF S
  <2>3. /\ Cardinality(S) \in Nat
        /\ q \in S => S \cup {q} = S /\ Cardinality(S \ {q}) = Cardinality(S) - 1 /\ Cardinality(S \ {q}) \in Nat
        /\ q \notin S => S \ {q} = S /\ Cardinality(S \cup {q}) = Cardinality(S) + 1
    BY <2>1, <1>4
  <2>4. /\ Cardinality(Texting(n)') \in Nat
        /\ Cardinality(Texting(n)') = Cardinality(S) + TextOf(r, n) - TextOf(recovery[q], n)
    <3>1. CASE MayText(r, n) /\ q \in S
      <4>1. Texting(n)' = S /\ TextOf(r, n) = 1 /\ TextOf(recovery[q], n) = 1
        BY <3>1, <2>1, <2>2, <2>3 DEF TextOf
      <4> QED
        BY <4>1, <2>3
    <3>2. CASE MayText(r, n) /\ q \notin S
      <4>1. Texting(n)' = S \cup {q} /\ TextOf(r, n) = 1 /\ TextOf(recovery[q], n) = 0
        BY <3>2, <2>1, <2>2 DEF TextOf
      <4> QED
        BY <4>1, <3>2, <2>3
    <3>3. CASE ~MayText(r, n) /\ q \in S
      <4>1. Texting(n)' = S \ {q} /\ TextOf(r, n) = 0 /\ TextOf(recovery[q], n) = 1
        BY <3>3, <2>1, <2>2 DEF TextOf
      <4> QED
        BY <4>1, <3>3, <2>3
    <3>4. CASE ~MayText(r, n) /\ q \notin S
      <4>1. Texting(n)' = S /\ TextOf(r, n) = 0 /\ TextOf(recovery[q], n) = 0
        BY <3>4, <2>1, <2>2, <2>3 DEF TextOf
      <4> QED
        BY <4>1, <2>3
    <3> QED
      BY <3>1, <3>2, <3>3, <3>4
  <2> QED
    BY <2>3, <2>4 DEF S
<1>6. /\ Cardinality(Comparing) \in Nat /\ Cardinality(Comparing)' \in Nat
      /\ Cardinality(Comparing)' = Cardinality(Comparing) + CompareOf(r) - CompareOf(recovery[q])
  <2> DEFINE S == Comparing
  <2>1. S \subseteq Recovering /\ (q \in S <=> recovery[q].pc = "read")
    BY DEF Comparing, Recovering
  <2>2. Comparing' = IF r.pc = "read" THEN S \cup {q} ELSE S \ {q}
    BY <1>1 DEF Comparing
  <2> HIDE DEF S
  <2>3. /\ Cardinality(S) \in Nat
        /\ q \in S => S \cup {q} = S /\ Cardinality(S \ {q}) = Cardinality(S) - 1 /\ Cardinality(S \ {q}) \in Nat
        /\ q \notin S => S \ {q} = S /\ Cardinality(S \cup {q}) = Cardinality(S) + 1
    BY <2>1, <1>4
  <2>4. /\ Cardinality(Comparing') \in Nat
        /\ Cardinality(Comparing') = Cardinality(S) + CompareOf(r) - CompareOf(recovery[q])
    <3>1. CASE r.pc = "read" /\ q \in S
      <4>1. Comparing' = S /\ CompareOf(r) = 1 /\ CompareOf(recovery[q]) = 1
        BY <3>1, <2>1, <2>2, <2>3 DEF CompareOf
      <4> QED
        BY <4>1, <2>3
    <3>2. CASE r.pc = "read" /\ q \notin S
      <4>1. Comparing' = S \cup {q} /\ CompareOf(r) = 1 /\ CompareOf(recovery[q]) = 0
        BY <3>2, <2>1, <2>2 DEF CompareOf
      <4> QED
        BY <4>1, <3>2, <2>3
    <3>3. CASE r.pc # "read" /\ q \in S
      <4>1. Comparing' = S \ {q} /\ CompareOf(r) = 0 /\ CompareOf(recovery[q]) = 1
        BY <3>3, <2>1, <2>2 DEF CompareOf
      <4> QED
        BY <4>1, <3>3, <2>3
    <3>4. CASE r.pc # "read" /\ q \notin S
      <4>1. Comparing' = S /\ CompareOf(r) = 0 /\ CompareOf(recovery[q]) = 0
        BY <3>4, <2>1, <2>2, <2>3 DEF CompareOf
      <4> QED
        BY <4>1, <2>3
    <3> QED
      BY <3>1, <3>2, <3>3, <3>4
  <2> QED
    BY <2>3, <2>4 DEF S
<1> QED
  BY <1>3, <1>5, <1>6

(* A step of a request within the rules: it texts or compares what was      *)
(* counted for it, or passes a count that was within the rule.              *)
Counts(q, r) ==
    /\ recovery' = [recovery EXCEPT ![q] = r] /\ (uncounted => uncounted')
    /\ ~uncounted' =>
         /\ \A n \in Numbers :
              /\ texts'[n] \in Nat /\ counted'[AskedFrom(n)] \in Nat
              /\ counted[AskedFrom(n)] <= counted'[AskedFrom(n)]
              /\ \/ texts'[n] + TextOf(r, n) <= texts[n] + TextOf(recovery[q], n)
                 \/ /\ texts'[n] = texts[n] /\ counted'[AskedFrom(n)] = counted[AskedFrom(n)] + 1
                    /\ counted'[AskedFrom(n)] <= AskLimit /\ TextOf(recovery[q], n) = 0
         /\ tried' \in Nat /\ counted'[GuessedFrom] \in Nat /\ counted[GuessedFrom] <= counted'[GuessedFrom]
         /\ \/ tried' + CompareOf(r) <= tried + CompareOf(recovery[q])
            \/ /\ tried' = tried /\ counted'[GuessedFrom] = counted[GuessedFrom] + 1
               /\ counted'[GuessedFrom] <= VerifyLimit /\ CompareOf(recovery[q]) = 0

LEMMA RulesStay ==
  ASSUME RecoveryInv, NEW q \in RecoveryRequests, NEW r, Counts(q, r)
  PROVE  WithinRules'
<1> SUFFICES ASSUME ~uncounted'
             PROVE  /\ \A n \in Numbers : /\ texts'[n] + Cardinality(Texting(n))' <= counted'[AskedFrom(n)]
                                          /\ texts'[n] + Cardinality(Texting(n))' <= AskLimit
                    /\ tried' + Cardinality(Comparing)' <= counted'[GuessedFrom]
                    /\ tried' + Cardinality(Comparing)' <= VerifyLimit
  BY DEF WithinRules, AskedFrom, GuessedFrom
<1>0. recovery' = [recovery EXCEPT ![q] = r] /\ ~uncounted
  BY DEF Counts
<1>l. AskLimit \in Nat /\ VerifyLimit \in Nat
  BY PasswordRecoveryAssumption
<1>1. ASSUME NEW n \in Numbers
      PROVE  /\ texts'[n] + Cardinality(Texting(n))' <= counted'[AskedFrom(n)]
             /\ texts'[n] + Cardinality(Texting(n))' <= AskLimit
  <2>1. AskedFrom(n) \in RecoveryCounters
    BY DEF RecoveryCounters
  <2>2. PICK a \in Nat, b \in Nat, d \in Nat, e \in Nat :
           a = texts[n] /\ b = counted[AskedFrom(n)] /\ d = texts'[n] /\ e = counted'[AskedFrom(n)]
    BY <2>1, RecoveryFacts DEF Counts
  <2>4. PICK i \in {0, 1}, j \in {0, 1} : i = TextOf(r, n) /\ j = TextOf(recovery[q], n)
    BY DEF TextOf
  <2>3. PICK t \in Nat, u \in Nat : t = Cardinality(Texting(n)) /\ u = Cardinality(Texting(n))' /\ u = t + i - j
    BY <1>0, <2>4, OneRecoveryMoves
  <2>5. a + t <= b /\ a + t <= AskLimit
    BY <1>0, <2>2, <2>3 DEF RecoveryInv, WithinRules
  <2>6. b <= e /\ (d + i <= a + j \/ (d = a /\ e = b + 1 /\ e <= AskLimit /\ j = 0))
    BY <2>2, <2>4 DEF Counts
  <2>7. d + u <= e /\ d + u <= AskLimit
    <3>1. CASE d + i <= a + j
      <4>1. d + u <= a + t
        BY <3>1, <2>3, <2>4
      <4> QED
        BY <4>1, <2>3, <2>5, <2>6, <1>l
    <3>2. CASE d = a /\ e = b + 1 /\ e <= AskLimit /\ j = 0
      <4>1. u <= t + 1
        BY <3>2, <2>3, <2>4
      <4> QED
        BY <4>1, <3>2, <2>3, <2>5, <1>l
    <3> QED
      BY <2>6, <3>1, <3>2
  <2> QED
    BY <2>2, <2>3, <2>7
<1>2. /\ tried' + Cardinality(Comparing)' <= counted'[GuessedFrom]
      /\ tried' + Cardinality(Comparing)' <= VerifyLimit
  <2>1. GuessedFrom \in RecoveryCounters
    BY DEF RecoveryCounters
  <2>2. PICK a \in Nat, b \in Nat, d \in Nat, e \in Nat :
           a = tried /\ b = counted[GuessedFrom] /\ d = tried' /\ e = counted'[GuessedFrom]
    BY <2>1, RecoveryFacts DEF Counts
  <2>4. PICK i \in {0, 1}, j \in {0, 1} : i = CompareOf(r) /\ j = CompareOf(recovery[q])
    BY DEF CompareOf
  <2>3. PICK t \in Nat, u \in Nat : t = Cardinality(Comparing) /\ u = Cardinality(Comparing)' /\ u = t + i - j
    BY <1>0, <2>4, OneRecoveryMoves
  <2>5. a + t <= b /\ a + t <= VerifyLimit
    BY <1>0, <2>2, <2>3 DEF RecoveryInv, WithinRules
  <2>6. b <= e /\ (d + i <= a + j \/ (d = a /\ e = b + 1 /\ e <= VerifyLimit /\ j = 0))
    BY <2>2, <2>4 DEF Counts
  <2>7. d + u <= e /\ d + u <= VerifyLimit
    <3>1. CASE d + i <= a + j
      <4>1. d + u <= a + t
        BY <3>1, <2>3, <2>4
      <4> QED
        BY <4>1, <2>3, <2>5, <2>6, <1>l
    <3>2. CASE d = a /\ e = b + 1 /\ e <= VerifyLimit /\ j = 0
      <4>1. u <= t + 1
        BY <3>2, <2>3, <2>4
      <4> QED
        BY <4>1, <3>2, <2>3, <2>5, <1>l
    <3> QED
      BY <2>6, <3>1, <3>2
  <2> QED
    BY <2>2, <2>3, <2>7
<1> QED
  BY <1>1, <1>2

(* What a request's step does to a code: it leaves it, or writes the code   *)
(* it works on.                                                             *)
LeavesCode(q, r, c) ==
    /\ resets'[c] = resets[c]
    /\ resetCode'[c].status = resetCode[c].status \/ (resetCode[c].status = "PENDING" /\ resetCode'[c].status = "EXPIRED")
    /\ r.code = c => \/ r.pc \in {"verify", "read"}
                     \/ recovery[q].code = c /\ recovery[q].pc \notin {"verify", "read"}
                     \/ resetCode[c].status \in {"PENDING", "VERIFIED"}
WorksOnReset(q, r, c) ==
    /\ recovery[q].code = c /\ recovery[q].pc \in {"sms", "right", "wrong", "commit"}
    /\ resetCode'[c].status # "NONE"
    /\ \/ resets'[c] = resets[c]
       \/ resets'[c] = resets[c] + 1 /\ resetCode'[c].status = "CONSUMED" /\ r.code # c
BeginsCode(r, c) ==
    /\ r.code = c /\ resetCode[c].status = "NONE"
    /\ resetCode'[c].status = "PENDING" /\ resets'[c] = resets[c]
ResetStep(q, r) ==
    /\ recovery' = [recovery EXCEPT ![q] = r] /\ met \subseteq met'
    /\ resetForm'.held \in {resetForm.held, Blank, recovery[q].code}
    /\ \/ r.code \in {Blank, recovery[q].code}
       \/ /\ r.code = resetForm.held
          /\ (\E p \in RecoveryRequests \ {q} : recovery[p].code = r.code) => r.code \in met'
       \/ BeginsCode(r, r.code)
    /\ \A c \in ResetCodes : LeavesCode(q, r, c) \/ WorksOnReset(q, r, c) \/ BeginsCode(r, c)

LEMMA CodesStaySpent ==
  ASSUME RecoveryInv, NEW q \in RecoveryRequests, NEW r, ResetStep(q, r), NEW c \in ResetCodes
  PROVE  CodeSpentOnce(c)'
<1>1. \A p \in RecoveryRequests : recovery'[p] = IF p = q THEN r ELSE recovery[p]
  BY RecoveryFacts DEF ResetStep
<1>2. CodeSpentOnce(c) /\ resets[c] \in Nat /\ c # Blank
  BY RecoveryFacts DEF RecoveryInv
<1>3. ASSUME resetCode'[c].status = "NONE"
      PROVE  resets'[c] = 0 /\ resetForm'.held # c /\ \A p \in RecoveryRequests : recovery'[p].code # c
  <2>1. LeavesCode(q, r, c) /\ resetCode[c].status = "NONE"
    BY <1>3 DEF ResetStep, WorksOnReset, LeavesCode, BeginsCode
  <2>2. resets[c] = 0 /\ resetForm.held # c /\ \A p \in RecoveryRequests : recovery[p].code # c
    BY <2>1, <1>2 DEF CodeSpentOnce
  <2> QED
    BY <1>1, <1>2, <1>3, <2>1, <2>2 DEF ResetStep, LeavesCode, BeginsCode
<1>4. ASSUME c \notin met'
      PROVE  /\ resets'[c] <= 1
             /\ \A p, s \in RecoveryRequests : recovery'[p].code = c /\ recovery'[s].code = c => p = s
             /\ resets'[c] = 1 => /\ resetCode'[c].status = "CONSUMED"
                                  /\ \A p \in RecoveryRequests :
                                       recovery'[p].code = c => recovery'[p].pc \in {"verify", "read"}
  <2>1. /\ resets[c] <= 1
        /\ \A p, s \in RecoveryRequests : recovery[p].code = c /\ recovery[s].code = c => p = s
        /\ resets[c] = 1 => /\ resetCode[c].status = "CONSUMED"
                            /\ \A p \in RecoveryRequests : recovery[p].code = c => recovery[p].pc \in {"verify", "read"}
    BY <1>2, <1>4 DEF ResetStep, CodeSpentOnce
  <2>2. \A p, s \in RecoveryRequests : recovery'[p].code = c /\ recovery'[s].code = c => p = s
    <3>1. BeginsCode(r, r.code) /\ r.code = c => \A p \in RecoveryRequests : recovery[p].code # c
      BY <1>2 DEF BeginsCode, CodeSpentOnce
    <3> QED
      BY <1>1, <1>2, <1>4, <2>1, <3>1 DEF ResetStep
  <2>3. CASE LeavesCode(q, r, c)
    <3>1. resets'[c] <= 1
      BY <2>1, <2>3 DEF LeavesCode
    <3>2. ASSUME resets'[c] = 1, NEW p \in RecoveryRequests, recovery'[p].code = c
          PROVE  recovery'[p].pc \in {"verify", "read"}
      BY <1>1, <2>1, <2>3, <3>2 DEF LeavesCode
    <3>3. resets'[c] = 1 => resetCode'[c].status = "CONSUMED"
      BY <2>1, <2>3 DEF LeavesCode
    <3> QED
      BY <2>2, <3>1, <3>2, <3>3
  <2>4. CASE WorksOnReset(q, r, c)
    <3>1. resets[c] = 0
      BY <2>1, <2>4, <1>2 DEF WorksOnReset
    <3>2. \A p \in RecoveryRequests : recovery[p].code = c => p = q
      BY <2>1, <2>4 DEF WorksOnReset
    <3>3. resets'[c] = 1 => /\ resetCode'[c].status = "CONSUMED"
                            /\ \A p \in RecoveryRequests : recovery'[p].code # c
      BY <1>1, <2>4, <3>1, <3>2 DEF WorksOnReset
    <3>4. resets'[c] <= 1
      BY <2>4, <3>1 DEF WorksOnReset
    <3> QED
      BY <2>2, <3>3, <3>4
  <2>5. CASE BeginsCode(r, c)
    <3>1. resets'[c] = 0
      BY <2>5, <1>2 DEF BeginsCode, CodeSpentOnce
    <3> QED
      BY <2>2, <3>1
  <2> QED
    BY <2>3, <2>4, <2>5 DEF ResetStep
<1> QED
  BY <1>3, <1>4 DEF CodeSpentOnce

(* Everything a request's step must respect *)
LEMMA RecoveryStepKeeps ==
  ASSUME RecoveryInv, NEW q \in RecoveryRequests, NEW r, PasswordRecoveryTypeOK', ProperRecovery(r),
         Counts(q, r), ResetStep(q, r), OnlyKnownTexted'
  PROVE  RecoveryInv'
<1>1. WithinRules'
  BY RulesStay
<1>2. \A c \in ResetCodes : CodeSpentOnce(c)'
  BY CodesStaySpent
<1>3. recovery' = [recovery EXCEPT ![q] = r]
  BY DEF Counts
<1>4. IsFiniteSet(Recovering)'
  BY <1>3, OneRecoveryMoves
<1>5. \A p \in RecoveryRequests : ProperRecovery(recovery'[p])
  <2>1. \A p \in RecoveryRequests : recovery'[p] = IF p = q THEN r ELSE recovery[p]
    BY <1>3, RecoveryFacts
  <2> QED
    BY <2>1, RecoveryFacts
<1> QED
  BY <1>1, <1>2, <1>4, <1>5 DEF RecoveryInv, RecoveryRowsFine, ProperRecovery

(* Steps that text nobody, compare nothing and count nothing *)
Quietly(q, r) ==
    /\ recovery' = [recovery EXCEPT ![q] = r] /\ (uncounted => uncounted')
    /\ UNCHANGED <<texts, tried, counted>>
    /\ \A n \in Numbers : MayText(r, n) => MayText(recovery[q], n)
    /\ r.pc = "read" => recovery[q].pc = "read"

LEMMA CountsAre ==
  ASSUME RecoveryInv, NEW q \in RecoveryRequests
  PROVE  /\ tried \in Nat /\ counted[GuessedFrom] \in Nat
         /\ \A n \in Numbers : counted[AskedFrom(n)] \in Nat /\ texts[n] \in Nat
BY RecoveryFacts DEF RecoveryCounters

LEMMA QuietCounts ==
  ASSUME RecoveryInv, NEW q \in RecoveryRequests, NEW r, Quietly(q, r)
  PROVE  Counts(q, r) /\ OnlyKnownTexted'
<1>1. CompareOf(r) \in {0, 1} /\ CompareOf(recovery[q]) \in {0, 1} /\ CompareOf(r) <= CompareOf(recovery[q])
  BY DEF CompareOf, Quietly
<1>2. ASSUME NEW n \in Numbers
      PROVE  TextOf(r, n) \in {0, 1} /\ TextOf(recovery[q], n) \in {0, 1} /\ TextOf(r, n) <= TextOf(recovery[q], n)
  BY DEF TextOf, Quietly
<1>3. tried' = tried /\ tried \in Nat /\ counted' = counted /\ texts' = texts
  BY RecoveryFacts DEF Quietly
<1>4. counted[GuessedFrom] \in Nat /\ \A n \in Numbers : counted[AskedFrom(n)] \in Nat /\ texts[n] \in Nat
  BY CountsAre
<1>5. ASSUME NEW n \in Numbers
      PROVE  /\ texts'[n] \in Nat /\ counted'[AskedFrom(n)] \in Nat
             /\ counted[AskedFrom(n)] <= counted'[AskedFrom(n)]
             /\ texts'[n] + TextOf(r, n) <= texts[n] + TextOf(recovery[q], n)
  BY <1>2, <1>3, <1>4
<1>6. tried' + CompareOf(r) <= tried + CompareOf(recovery[q]) /\ counted[GuessedFrom] <= counted'[GuessedFrom]
  BY <1>1, <1>3, <1>4
<1>7. Counts(q, r)
  BY <1>3, <1>4, <1>5, <1>6 DEF Counts, Quietly
<1> QED
  BY <1>3, <1>7 DEF RecoveryInv, OnlyKnownTexted

LEMMA QuietStepKeeps ==
  ASSUME RecoveryInv, NEW q \in RecoveryRequests, NEW r, PasswordRecoveryTypeOK', ProperRecovery(r),
         Quietly(q, r), ResetStep(q, r)
  PROVE  RecoveryInv'
BY QuietCounts, RecoveryStepKeeps

(* A request that ends without a trace in the rows *)
LEMMA ToldIs ==
  ASSUME RecoveryInv, NEW q \in RecoveryRequests, NEW step, NEW held, Tells(q, step, held),
         step \in {"phone", "code", "done"}, held \in ResetCodes \cup {Blank}
  PROVE  /\ recovery' = [recovery EXCEPT ![q] = NoRecovery] /\ recovery' \in [RecoveryRequests -> RecoveryRow]
         /\ resetForm' \in [step : {"phone", "code", "done"}, number : Numbers, held : ResetCodes \cup {Blank},
                           waits : RecoveryRequests \cup {NoRequest}]
         /\ resetForm'.held \in {resetForm.held, held}
         /\ ProperRecovery(NoRecovery) /\ \A n \in Numbers : ~MayText(NoRecovery, n)
<1>1. recovery' = [recovery EXCEPT ![q] = NoRecovery] /\ recovery' \in [RecoveryRequests -> RecoveryRow]
  BY RecoveryFacts, NoRecoveryIs DEF Tells
<1>2. resetForm' \in [step : {"phone", "code", "done"}, number : Numbers, held : ResetCodes \cup {Blank},
                      waits : RecoveryRequests \cup {NoRequest}]
  BY RecoveryFacts DEF Tells
<1>3. resetForm'.held \in {resetForm.held, held}
  BY RecoveryFacts DEF Tells
<1> QED
  BY <1>1, <1>2, <1>3, NoRecoveryIs DEF ProperRecovery, MayText

LEMMA DeclinedIs ==
  ASSUME RecoveryInv, NEW q \in RecoveryRequests, Declines(q)
  PROVE  /\ recovery' = [recovery EXCEPT ![q] = NoRecovery] /\ recovery' \in [RecoveryRequests -> RecoveryRow]
         /\ resetForm' \in [step : {"phone", "code", "done"}, number : Numbers, held : ResetCodes \cup {Blank},
                           waits : RecoveryRequests \cup {NoRequest}]
         /\ resetForm'.held = resetForm.held
         /\ ProperRecovery(NoRecovery) /\ \A n \in Numbers : ~MayText(NoRecovery, n)
<1>1. resetForm.step \in {"phone", "code", "done"} /\ resetForm.held \in ResetCodes \cup {Blank}
  BY RecoveryFacts
<1>2. Tells(q, resetForm.step, resetForm.held)
  BY DEF Declines
<1>3. PICK step \in {"phone", "code", "done"}, held \in ResetCodes \cup {Blank} :
        step = resetForm.step /\ held = resetForm.held /\ Tells(q, step, held)
  BY <1>1, <1>2
<1> QED
  BY <1>3, ToldIs

(* It ends, whatever happened to the code it worked on. *)
EndsQuietly(q) ==
    /\ Declines(q) /\ UNCHANGED <<texts, tried, resets, met, counted, uncounted, recoveries>>
    /\ resetCode' \in [ResetCodes -> [status : {"NONE", "PENDING", "VERIFIED", "CONSUMED", "EXPIRED"},
                                     number : Numbers, live : BOOLEAN]]
    /\ \A c \in ResetCodes :
         \/ resetCode'[c].status = resetCode[c].status
         \/ resetCode[c].status = "PENDING" /\ resetCode'[c].status = "EXPIRED"
         \/ /\ recovery[q].code = c /\ recovery[q].pc \in {"sms", "right", "wrong", "commit"}
            /\ resetCode'[c].status # "NONE"

LEMMA EndingKeeps ==
  ASSUME RecoveryInv, NEW q \in RecoveryRequests, EndsQuietly(q)
  PROVE  RecoveryInv'
<1>1. Declines(q)
  BY DEF EndsQuietly
<1>2. /\ recovery' = [recovery EXCEPT ![q] = NoRecovery] /\ recovery' \in [RecoveryRequests -> RecoveryRow]
      /\ resetForm' \in [step : {"phone", "code", "done"}, number : Numbers, held : ResetCodes \cup {Blank},
                        waits : RecoveryRequests \cup {NoRequest}]
      /\ resetForm'.held = resetForm.held
      /\ ProperRecovery(NoRecovery) /\ \A n \in Numbers : ~MayText(NoRecovery, n)
  BY <1>1, DeclinedIs
<1>3. PasswordRecoveryTypeOK'
  BY <1>2 DEF RecoveryInv, RecoveryRowsFine, PasswordRecoveryTypeOK, EndsQuietly, RecoveryRow
<1>4. Quietly(q, NoRecovery)
  BY <1>2, NoRecoveryIs DEF Quietly, EndsQuietly
<1>5. ResetStep(q, NoRecovery)
  <2>1. \A c \in ResetCodes : LeavesCode(q, NoRecovery, c) \/ WorksOnReset(q, NoRecovery, c)
    <3>1. \A c \in ResetCodes : NoRecovery.code # c
      BY NoRecoveryIs, RecoveryFacts
    <3> QED
      BY <3>1 DEF LeavesCode, WorksOnReset, EndsQuietly
  <2> QED
    BY <1>2, <2>1, NoRecoveryIs DEF ResetStep, EndsQuietly
<1> QED
  BY <1>2, <1>3, <1>4, <1>5, QuietStepKeeps

LEMMA EndingsKeep ==
  ASSUME RecoveryInv, NEW q \in RecoveryRequests,
         \/ CodeTooSoon(q) \/ TextRefused(q) \/ CodeIsOver(q) \/ RecoveryBreaks(q)
         \/ \E status \in {"PENDING", "EXPIRED"} : MarkWrong(q, status)
         \/ CommitReset(q) /\ resetCode[recovery[q].code].status # "VERIFIED"
  PROVE  RecoveryInv'
<1> DEFINE Rows == [ResetCodes -> [status : {"NONE", "PENDING", "VERIFIED", "CONSUMED", "EXPIRED"},
                                   number : Numbers, live : BOOLEAN]]
<1>0. resetCode \in Rows /\ ProperRecovery(recovery[q])
  BY RecoveryFacts
<1>1. CASE RowsAsBefore /\ Declines(q) /\ RecoveryLimitsKept
  <2>1. EndsQuietly(q)
    BY <1>0, <1>1 DEF EndsQuietly, RowsAsBefore, RecoveryLimitsKept
  <2> QED
    BY <2>1, EndingKeeps
<1>2. ASSUME NEW status \in {"PENDING", "EXPIRED"}, Declines(q), recovery[q].pc \in {"sms", "wrong"},
             UNCHANGED <<texts, tried, resets, met>>, RecoveryLimitsKept,
             resetCode' = [resetCode EXCEPT ![recovery[q].code] = [@ EXCEPT !.status = status]]
      PROVE  RecoveryInv'
  <2>1. recovery[q].code \in ResetCodes
    BY <1>0, <1>2 DEF ProperRecovery
  <2>2. resetCode' \in Rows /\ \A c \in ResetCodes :
          IF c = recovery[q].code THEN resetCode'[c].status = status ELSE resetCode'[c] = resetCode[c]
    BY <1>0, <1>2, <2>1
  <2>3. EndsQuietly(q)
    BY <1>2, <2>2 DEF EndsQuietly, RecoveryLimitsKept
  <2> QED
    BY <2>3, EndingKeeps
<1>3. CASE CodeIsOver(q)
  <2>1. recovery[q].code \in ResetCodes
    BY <1>0, <1>3 DEF ProperRecovery, CodeIsOver, AtStep
  <2>2. PICK c \in ResetCodes : c = recovery[q].code
    BY <2>1
  <2>3. PICK status \in {"NONE", "PENDING", "VERIFIED", "CONSUMED", "EXPIRED"} :
          status = IF resetCode[c].status = "PENDING" THEN "EXPIRED" ELSE resetCode[c].status
    BY <1>0
  <2>4. resetCode' = [resetCode EXCEPT ![c] = [@ EXCEPT !.status = status]]
    BY <1>3, <2>2, <2>3 DEF CodeIsOver
  <2>5. resetCode' \in Rows /\ \A d \in ResetCodes :
          IF d = c THEN resetCode'[d].status = status ELSE resetCode'[d] = resetCode[d]
    BY <1>0, <2>4
  <2>6. EndsQuietly(q)
    BY <1>3, <2>3, <2>5 DEF EndsQuietly, RecoveryLimitsKept, CodeIsOver
  <2> QED
    BY <2>6, EndingKeeps
<1>4. CASE CommitReset(q) /\ resetCode[recovery[q].code].status # "VERIFIED"
  <2>1. EndsQuietly(q)
    BY <1>0, <1>4 DEF EndsQuietly, CommitReset, RecoveryLimitsKept
  <2> QED
    BY <2>1, EndingKeeps
<1>5. CASE TextRefused(q)
  BY <1>2, <1>5 DEF TextRefused, AtStep
<1>6. CASE \E status \in {"PENDING", "EXPIRED"} : MarkWrong(q, status)
  BY <1>2, <1>6 DEF MarkWrong, AtStep
<1> QED
  BY <1>1, <1>3, <1>4, <1>5, <1>6 DEF CodeTooSoon, RecoveryBreaks

(* The rows of the codes, and what they bought, are as they were. *)
RowsStand == UNCHANGED <<resetCode, resets>>

(* One step further, or into the line, with the rows as they are *)
MovesOn(q, r) ==
    /\ recovery' = [recovery EXCEPT ![q] = r] /\ r \in RecoveryRow /\ ProperRecovery(r)
    /\ RowsStand
    /\ resetForm' \in [step : {"phone", "code", "done"}, number : Numbers, held : ResetCodes \cup {Blank},
                      waits : RecoveryRequests \cup {NoRequest}]
    /\ resetForm'.held \in {resetForm.held, Blank} /\ recoveries' \in 0 .. MaxRecoveries
    /\ met \subseteq met' /\ met' \subseteq ResetCodes
    /\ \/ r.code = Blank
       \/ r.code = recovery[q].code /\ (recovery[q].pc \notin {"verify", "read"} \/ r.pc \in {"verify", "read"})
       \/ r.code = recovery[q].code /\ resetCode[r.code].status \in {"PENDING", "VERIFIED"}
       \/ /\ r.code = resetForm.held /\ r.pc = "verify"
          /\ (\E p \in RecoveryRequests \ {q} : recovery[p].code = r.code) => r.code \in met'

LEMMA MovesAreCodeSteps ==
  ASSUME RecoveryInv, NEW q \in RecoveryRequests, NEW r, MovesOn(q, r)
  PROVE  ResetStep(q, r)
<1>1. \A c \in ResetCodes : c # Blank
  BY RecoveryFacts
<1>2. \A c \in ResetCodes : LeavesCode(q, r, c)
  BY <1>1 DEF MovesOn, LeavesCode, RowsStand
<1> QED
  BY <1>2 DEF MovesOn, ResetStep

LEMMA QuietMoveKeeps ==
  ASSUME RecoveryInv, NEW q \in RecoveryRequests, NEW r, MovesOn(q, r),
         UNCHANGED <<texts, tried, counted, uncounted>>,
         \A n \in Numbers : MayText(r, n) => MayText(recovery[q], n),
         r.pc = "read" => recovery[q].pc = "read"
  PROVE  RecoveryInv'
<1>1. recovery' = [recovery EXCEPT ![q] = r] /\ ProperRecovery(r)
  BY DEF MovesOn
<1>2. recovery' \in [RecoveryRequests -> RecoveryRow]
  BY <1>1, RecoveryFacts DEF MovesOn
<1>3. PasswordRecoveryTypeOK'
  BY <1>2 DEF RecoveryInv, RecoveryRowsFine, PasswordRecoveryTypeOK, MovesOn, RecoveryRow, RowsStand
<1>4. Quietly(q, r)
  BY <1>1 DEF Quietly
<1> QED
  BY <1>1, <1>3, <1>4, MovesAreCodeSteps, QuietStepKeeps

LEMMA PressesKeep ==
  ASSUME RecoveryInv, NEW q \in RecoveryRequests,
         (\E n \in Numbers : AskForReset(q, n)) \/ ConfirmReset(q)
  PROVE  RecoveryInv'
<1>0. NoRecovery \in RecoveryRow /\ MaxRecoveries \in Nat /\ recoveries \in 0 .. MaxRecoveries
  BY NoRecoveryIs, PasswordRecoveryAssumption DEF RecoveryInv, RecoveryRowsFine, PasswordRecoveryTypeOK
<1>1. ASSUME NEW n \in Numbers, AskForReset(q, n)
      PROVE  RecoveryInv'
  <2>1. PICK r : r = [NoRecovery EXCEPT !.pc = "address", !.number = n]
    OBVIOUS
  <2>2. r \in RecoveryRow /\ r.pc = "address" /\ r.code = Blank
    BY <2>1, NoRecoveryIs DEF RecoveryRow
  <2>3. recovery' = [recovery EXCEPT ![q] = r] /\ RowsStand /\ met' = met
    BY <1>1, <2>1 DEF AskForReset, RowsAsBefore, RowsStand
  <2>4. /\ resetForm' \in [step : {"phone", "code", "done"}, number : Numbers, held : ResetCodes \cup {Blank},
                          waits : RecoveryRequests \cup {NoRequest}]
        /\ resetForm'.held = resetForm.held
    BY <1>1, RecoveryFacts DEF AskForReset
  <2>5. recoveries' \in 0 .. MaxRecoveries
    <3>1. recoveries' = recoveries + 1 /\ recoveries < MaxRecoveries
      BY <1>1 DEF AskForReset
    <3> QED
      BY <1>0, <3>1
  <2>6. MovesOn(q, r)
    BY <2>2, <2>3, <2>4, <2>5 DEF MovesOn, ProperRecovery, RecoveryInv, RecoveryRowsFine, PasswordRecoveryTypeOK
  <2>7. UNCHANGED <<texts, tried, counted, uncounted>>
    BY <1>1 DEF AskForReset, RowsAsBefore
  <2>8. r.pc # "read" /\ \A n1 \in Numbers : ~MayText(r, n1)
    BY <2>2 DEF MayText
  <2> QED
    BY <2>6, <2>7, <2>8, QuietMoveKeeps
<1>2. CASE ConfirmReset(q)
  <2>1. PICK r : r = [NoRecovery EXCEPT !.pc = "verify", !.number = resetForm.number, !.code = resetForm.held]
    OBVIOUS
  <2>2. r \in RecoveryRow /\ r.pc = "verify" /\ r.code = resetForm.held /\ r.code \in ResetCodes
    BY <1>2, <2>1, NoRecoveryIs, RecoveryFacts DEF RecoveryRow, ConfirmReset
  <2>3. recovery' = [recovery EXCEPT ![q] = r] /\ RowsStand
    BY <1>2, <2>1 DEF ConfirmReset, RowsStand
  <2>4. /\ resetForm' \in [step : {"phone", "code", "done"}, number : Numbers, held : ResetCodes \cup {Blank},
                          waits : RecoveryRequests \cup {NoRequest}]
        /\ resetForm'.held = resetForm.held
    BY <1>2, RecoveryFacts DEF ConfirmReset
  <2>5. recoveries' \in 0 .. MaxRecoveries
    <3>1. recoveries' = recoveries + 1 /\ recoveries < MaxRecoveries
      BY <1>2 DEF ConfirmReset
    <3> QED
      BY <1>0, <3>1
  <2>6. /\ met \subseteq met' /\ met' \subseteq ResetCodes
        /\ (\E p \in RecoveryRequests \ {q} : recovery[p].code = r.code) => r.code \in met'
    BY <1>2, <2>2 DEF ConfirmReset, RecoveryInv, RecoveryRowsFine, PasswordRecoveryTypeOK
  <2>7. MovesOn(q, r)
    BY <2>2, <2>3, <2>4, <2>5, <2>6 DEF MovesOn, ProperRecovery
  <2>8. UNCHANGED <<texts, tried, counted, uncounted>>
    BY <1>2 DEF ConfirmReset
  <2>9. r.pc # "read" /\ \A n1 \in Numbers : ~MayText(r, n1)
    BY <2>2 DEF MayText
  <2> QED
    BY <2>7, <2>8, <2>9, QuietMoveKeeps
<1> QED
  BY <1>1, <1>2

LEMMA AnswersKeep ==
  ASSUME RecoveryInv, NEW q \in RecoveryRequests, UnknownNumber(q) \/ ConfirmedBefore(q)
  PROVE  RecoveryInv'
<1>0. recovery[q] \in RecoveryRow /\ ProperRecovery(recovery[q])
  BY RecoveryFacts
<1>1. CASE UnknownNumber(q)
  <2>1. Tells(q, "code", Blank)
    BY <1>1 DEF UnknownNumber
  <2>2. /\ recovery' = [recovery EXCEPT ![q] = NoRecovery]
        /\ resetForm' \in [step : {"phone", "code", "done"}, number : Numbers, held : ResetCodes \cup {Blank},
                          waits : RecoveryRequests \cup {NoRequest}]
        /\ resetForm'.held \in {resetForm.held, Blank}
        /\ ProperRecovery(NoRecovery) /\ \A n \in Numbers : ~MayText(NoRecovery, n)
    BY <2>1, ToldIs
  <2>3. MovesOn(q, NoRecovery)
    BY <1>1, <2>2, NoRecoveryIs DEF MovesOn, UnknownNumber, RowsAsBefore, RowsStand, RecoveryLimitsKept,
       RecoveryInv, RecoveryRowsFine, PasswordRecoveryTypeOK
  <2>4. UNCHANGED <<texts, tried, counted, uncounted>>
    BY <1>1 DEF UnknownNumber, RowsAsBefore, RecoveryLimitsKept
  <2> QED
    BY <2>2, <2>3, <2>4, NoRecoveryIs, QuietMoveKeeps
<1>2. CASE ConfirmedBefore(q)
  <2>1. PICK r : r = [recovery[q] EXCEPT !.pc = "commit"]
    OBVIOUS
  <2>2. /\ recovery' = [recovery EXCEPT ![q] = r] /\ r \in RecoveryRow /\ r.pc = "commit"
        /\ r.code = recovery[q].code /\ recovery[q].pc = "read" /\ recovery[q].code \in ResetCodes
    BY <1>0, <1>2, <2>1 DEF ConfirmedBefore, StepsTo, RecoveryRow, AtStep, ProperRecovery
  <2>3. resetCode[r.code].status = "VERIFIED"
    BY <1>2, <2>2 DEF ConfirmedBefore
  <2>4. MovesOn(q, r)
    BY <1>2, <2>2, <2>3, RecoveryFacts DEF MovesOn, ProperRecovery, ConfirmedBefore, RowsAsBefore, RowsStand,
       RecoveryLimitsKept, RecoveryInv, RecoveryRowsFine, PasswordRecoveryTypeOK
  <2>5. UNCHANGED <<texts, tried, counted, uncounted>>
    BY <1>2 DEF ConfirmedBefore, RowsAsBefore, RecoveryLimitsKept
  <2>6. r.pc # "read" /\ \A n \in Numbers : ~MayText(r, n)
    BY <2>2 DEF MayText
  <2> QED
    BY <2>4, <2>5, <2>6, QuietMoveKeeps
<1> QED
  BY <1>1, <1>2

LEMMA MarkRightKeeps ==
  ASSUME RecoveryInv, NEW q \in RecoveryRequests, MarkRight(q)
  PROVE  RecoveryInv'
<1>0. recovery[q] \in RecoveryRow /\ ProperRecovery(recovery[q])
  BY RecoveryFacts
<1>1. PICK r : r = [recovery[q] EXCEPT !.pc = "commit"]
  OBVIOUS
<1>2. /\ recovery' = [recovery EXCEPT ![q] = r] /\ r \in RecoveryRow /\ r.pc = "commit" /\ ProperRecovery(r)
      /\ r.code = recovery[q].code /\ recovery[q].pc = "right" /\ r.code \in ResetCodes
  BY <1>0, <1>1 DEF MarkRight, StepsTo, RecoveryRow, AtStep, ProperRecovery
<1>3. resetCode' = [resetCode EXCEPT ![r.code] = [@ EXCEPT !.status = "VERIFIED", !.live = TRUE]]
  BY <1>2 DEF MarkRight
<1>4. /\ resetCode' \in [ResetCodes -> [status : {"NONE", "PENDING", "VERIFIED", "CONSUMED", "EXPIRED"},
                                        number : Numbers, live : BOOLEAN]]
      /\ \A c \in ResetCodes : IF c = r.code THEN resetCode'[c].status = "VERIFIED" ELSE resetCode'[c] = resetCode[c]
  BY <1>2, <1>3, RecoveryFacts, ZenonT(40)
<1>5. recovery' \in [RecoveryRequests -> RecoveryRow]
  BY <1>2, RecoveryFacts
<1>6. UNCHANGED <<resetForm, texts, tried, resets, met, counted, uncounted, recoveries>>
  BY DEF MarkRight, RecoveryLimitsKept
<1>7. PasswordRecoveryTypeOK'
  BY <1>4, <1>5, <1>6 DEF RecoveryInv, RecoveryRowsFine, PasswordRecoveryTypeOK, RecoveryRow
<1>8. Quietly(q, r)
  BY <1>2, <1>6 DEF Quietly, MayText
<1>9. ResetStep(q, r)
  <2>1. ASSUME NEW c \in ResetCodes
        PROVE  LeavesCode(q, r, c) \/ WorksOnReset(q, r, c)
    <3>1. CASE c = r.code
      BY <1>2, <1>4, <1>6, <3>1 DEF WorksOnReset
    <3>2. CASE c # r.code
      BY <1>2, <1>4, <1>6, <3>2 DEF LeavesCode
    <3> QED
      BY <3>1, <3>2
  <2> QED
    BY <1>2, <1>6, <2>1 DEF ResetStep
<1> QED
  BY <1>2, <1>7, <1>8, <1>9, QuietStepKeeps

LEMMA CommitKeeps ==
  ASSUME RecoveryInv, NEW q \in RecoveryRequests, CommitReset(q), resetCode[recovery[q].code].status = "VERIFIED"
  PROVE  RecoveryInv'
<1>0. recovery[q] \in RecoveryRow /\ ProperRecovery(recovery[q]) /\ recovery[q].pc = "commit"
  BY RecoveryFacts DEF CommitReset, AtStep
<1>1. PICK c \in ResetCodes : c = recovery[q].code
  BY <1>0 DEF ProperRecovery
<1>2. /\ resetCode' = [resetCode EXCEPT ![c] = [@ EXCEPT !.status = "CONSUMED"]]
      /\ resets' = [resets EXCEPT ![c] = @ + 1] /\ Tells(q, "done", resetForm.held)
      /\ UNCHANGED <<texts, tried, met, counted, uncounted, recoveries>>
  BY <1>1 DEF CommitReset, RecoveryLimitsKept
<1>3. PICK held \in ResetCodes \cup {Blank} : held = resetForm.held
  BY RecoveryFacts
<1>4. Tells(q, "done", held)
  BY <1>2, <1>3
<1>5. /\ recovery' = [recovery EXCEPT ![q] = NoRecovery] /\ recovery' \in [RecoveryRequests -> RecoveryRow]
      /\ resetForm' \in [step : {"phone", "code", "done"}, number : Numbers, held : ResetCodes \cup {Blank},
                        waits : RecoveryRequests \cup {NoRequest}]
      /\ resetForm'.held = resetForm.held
      /\ ProperRecovery(NoRecovery) /\ \A n \in Numbers : ~MayText(NoRecovery, n)
  BY <1>3, <1>4, ToldIs
<1>6. /\ resetCode' \in [ResetCodes -> [status : {"NONE", "PENDING", "VERIFIED", "CONSUMED", "EXPIRED"},
                                        number : Numbers, live : BOOLEAN]]
      /\ \A d \in ResetCodes : IF d = c THEN resetCode'[d].status = "CONSUMED" ELSE resetCode'[d] = resetCode[d]
  BY <1>2, RecoveryFacts
<1>7. /\ resets' \in [ResetCodes -> Nat]
      /\ \A d \in ResetCodes : IF d = c THEN resets'[d] = resets[d] + 1 ELSE resets'[d] = resets[d]
  BY <1>2, RecoveryFacts
<1>8. PasswordRecoveryTypeOK'
  BY <1>2, <1>5, <1>6, <1>7 DEF RecoveryInv, RecoveryRowsFine, PasswordRecoveryTypeOK, RecoveryRow
<1>9. Quietly(q, NoRecovery)
  BY <1>2, <1>5, NoRecoveryIs DEF Quietly
<1>10. ResetStep(q, NoRecovery)
  <2>1. ASSUME NEW d \in ResetCodes
        PROVE  LeavesCode(q, NoRecovery, d) \/ WorksOnReset(q, NoRecovery, d)
    <3>1. NoRecovery.code # d
      BY NoRecoveryIs, RecoveryFacts
    <3>2. CASE d = c
      BY <1>0, <1>1, <1>6, <1>7, <3>1, <3>2 DEF WorksOnReset
    <3>3. CASE d # c
      BY <1>6, <1>7, <3>1, <3>3 DEF LeavesCode
    <3> QED
      BY <3>2, <3>3
  <2> QED
    BY <1>2, <1>5, <2>1, NoRecoveryIs DEF ResetStep
<1> QED
  BY <1>5, <1>8, <1>9, <1>10, QuietStepKeeps

LEMMA MakeCodeKeeps ==
  ASSUME RecoveryInv, NEW q \in RecoveryRequests, NEW c \in ResetCodes, MakeCode(q, c)
  PROVE  RecoveryInv'
<1>0. recovery[q] \in RecoveryRow /\ ProperRecovery(recovery[q]) /\ recovery[q].pc = "send"
  BY RecoveryFacts DEF MakeCode, AtStep
<1>1. PICK r : r = [recovery[q] EXCEPT !.pc = "sms", !.code = c]
  OBVIOUS
<1>2. /\ recovery' = [recovery EXCEPT ![q] = r] /\ r \in RecoveryRow /\ r.pc = "sms" /\ ProperRecovery(r)
      /\ r.code = c /\ r.number = recovery[q].number /\ resetCode[c].status = "NONE"
  BY <1>0, <1>1 DEF MakeCode, RecoveryRow, ProperRecovery
<1>3. /\ resetCode' \in [ResetCodes -> [status : {"NONE", "PENDING", "VERIFIED", "CONSUMED", "EXPIRED"},
                                        number : Numbers, live : BOOLEAN]]
      /\ resetCode'[c].status = "PENDING"
      /\ \A d \in ResetCodes \ {c} : \/ resetCode'[d].status = resetCode[d].status
                                     \/ resetCode[d].status = "PENDING" /\ resetCode'[d].status = "EXPIRED"
  <2>1. PICK n \in Numbers : n = recovery[q].number
    BY <1>0 DEF RecoveryRow
  <2>2. resetCode' = [d \in ResetCodes |->
           IF d = c THEN [status |-> "PENDING", number |-> n, live |-> TRUE]
           ELSE IF resetCode[d].status = "PENDING" /\ resetCode[d].number = n
           THEN [resetCode[d] EXCEPT !.status = "EXPIRED"] ELSE resetCode[d]]
    BY <2>1 DEF MakeCode
  <2> DEFINE Row == [status : {"NONE", "PENDING", "VERIFIED", "CONSUMED", "EXPIRED"}, number : Numbers, live : BOOLEAN]
  <2>3. ASSUME NEW d \in ResetCodes
        PROVE  /\ resetCode'[d] \in Row /\ (d = c => resetCode'[d].status = "PENDING")
               /\ d # c => \/ resetCode'[d].status = resetCode[d].status
                           \/ resetCode[d].status = "PENDING" /\ resetCode'[d].status = "EXPIRED"
    <3>1. resetCode[d] \in Row
      BY RecoveryFacts
    <3>2. resetCode'[d] = IF d = c THEN [status |-> "PENDING", number |-> n, live |-> TRUE]
                          ELSE IF resetCode[d].status = "PENDING" /\ resetCode[d].number = n
                          THEN [resetCode[d] EXCEPT !.status = "EXPIRED"] ELSE resetCode[d]
      BY <2>2
    <3>3. CASE d = c
      BY <2>1, <3>2, <3>3
    <3>4. CASE d # c /\ resetCode[d].status = "PENDING" /\ resetCode[d].number = n
      <4>1. resetCode'[d] = [resetCode[d] EXCEPT !.status = "EXPIRED"]
        BY <3>2, <3>4
      <4>2. resetCode'[d] \in Row /\ resetCode'[d].status = "EXPIRED"
        BY <3>1, <4>1
      <4> QED
        BY <3>4, <4>2
    <3>5. CASE d # c /\ ~(resetCode[d].status = "PENDING" /\ resetCode[d].number = n)
      <4>1. resetCode'[d] = resetCode[d]
        BY <3>2, <3>5
      <4>2. d # c /\ resetCode'[d] \in Row
        BY <3>1, <3>5, <4>1
      <4>3. resetCode'[d].status = resetCode[d].status
        BY <4>1
      <4> QED
        BY <4>2, <4>3
    <3> QED
      BY <3>3, <3>4, <3>5
  <2>4. resetCode' = [d \in ResetCodes |-> resetCode'[d]]
    BY <2>2
  <2>5. resetCode' \in [ResetCodes -> Row]
    BY <2>3, <2>4
  <2> QED
    BY <2>3, <2>5
<1>4. recovery' \in [RecoveryRequests -> RecoveryRow]
  BY <1>2, RecoveryFacts
<1>5. UNCHANGED <<resetForm, texts, tried, resets, met, counted, uncounted, recoveries>>
  BY DEF MakeCode, RecoveryLimitsKept
<1>6. PasswordRecoveryTypeOK'
  BY <1>3, <1>4, <1>5 DEF RecoveryInv, RecoveryRowsFine, PasswordRecoveryTypeOK, RecoveryRow
<1>7. Quietly(q, r)
  BY <1>0, <1>2, <1>5 DEF Quietly, MayText
<1>8. ResetStep(q, r)
  <2>1. BeginsCode(r, c)
    BY <1>2, <1>3, <1>5 DEF BeginsCode
  <2>2. \A d \in ResetCodes \ {c} : LeavesCode(q, r, d)
    BY <1>2, <1>3, <1>5 DEF LeavesCode
  <2> QED
    BY <1>2, <1>5, <2>1, <2>2 DEF ResetStep
<1> QED
  BY <1>2, <1>6, <1>7, <1>8, QuietStepKeeps

(* The texts and the comparisons *)
LEMMA SentTextKeeps ==
  ASSUME RecoveryInv, NEW q \in RecoveryRequests, ResetTextSent(q)
  PROVE  RecoveryInv'
<1>0. recovery[q] \in RecoveryRow /\ ProperRecovery(recovery[q]) /\ recovery[q].pc = "sms"
  BY RecoveryFacts DEF ResetTextSent, AtStep
<1>1. PICK c \in ResetCodes, m \in WithAccount : c = recovery[q].code /\ m = recovery[q].number
  BY <1>0 DEF ProperRecovery
<1>2. /\ texts' = [texts EXCEPT ![m] = @ + 1] /\ Tells(q, "code", c) /\ m \in Numbers
      /\ UNCHANGED <<resetCode, tried, resets, met, counted, uncounted, recoveries>>
  BY <1>1, PasswordRecoveryAssumption DEF ResetTextSent, RecoveryLimitsKept
<1>3. /\ recovery' = [recovery EXCEPT ![q] = NoRecovery] /\ recovery' \in [RecoveryRequests -> RecoveryRow]
      /\ resetForm' \in [step : {"phone", "code", "done"}, number : Numbers, held : ResetCodes \cup {Blank},
                        waits : RecoveryRequests \cup {NoRequest}]
      /\ resetForm'.held \in {resetForm.held, c}
      /\ ProperRecovery(NoRecovery) /\ \A n \in Numbers : ~MayText(NoRecovery, n)
  BY <1>2, ToldIs
<1>4. /\ texts' \in [Numbers -> Nat]
      /\ \A n \in Numbers : texts'[n] = IF n = m THEN texts[n] + 1 ELSE texts[n]
      /\ \A n \in Numbers : texts[n] \in Nat /\ counted[AskedFrom(n)] \in Nat
      /\ tried \in Nat /\ counted[GuessedFrom] \in Nat
  <2>1. texts \in [Numbers -> Nat]
    BY RecoveryFacts
  <2>2. \A n \in Numbers : texts'[n] = IF n = m THEN texts[n] + 1 ELSE texts[n]
    BY <1>2, <2>1
  <2>3. texts' \in [Numbers -> Nat]
    BY <1>2, <2>1
  <2> QED
    BY <2>2, <2>3, CountsAre
<1>5. PasswordRecoveryTypeOK'
  BY <1>2, <1>3, <1>4 DEF RecoveryInv, RecoveryRowsFine, PasswordRecoveryTypeOK, RecoveryRow
<1>6. Counts(q, NoRecovery)
  <2>1. \A n \in Numbers : TextOf(NoRecovery, n) = 0 /\ TextOf(recovery[q], n) = IF n = m THEN 1 ELSE 0
    BY <1>0, <1>1, <1>3 DEF TextOf, MayText
  <2>2. CompareOf(NoRecovery) = 0 /\ CompareOf(recovery[q]) = 0
    BY <1>0, NoRecoveryIs DEF CompareOf
  <2>3. ASSUME NEW n \in Numbers
        PROVE  /\ texts'[n] \in Nat /\ counted'[AskedFrom(n)] \in Nat /\ counted[AskedFrom(n)] <= counted'[AskedFrom(n)]
               /\ texts'[n] + TextOf(NoRecovery, n) <= texts[n] + TextOf(recovery[q], n)
    BY <1>2, <1>4, <2>1
  <2>4. counted' = counted /\ tried' = tried /\ uncounted' = uncounted
    BY <1>2
  <2> QED
    BY <1>3, <1>4, <2>2, <2>3, <2>4 DEF Counts
<1>7. ResetStep(q, NoRecovery)
  <2>1. \A d \in ResetCodes : LeavesCode(q, NoRecovery, d)
    BY <1>2, NoRecoveryIs, RecoveryFacts DEF LeavesCode
  <2> QED
    BY <1>1, <1>2, <1>3, <2>1, NoRecoveryIs DEF ResetStep
<1>8. OnlyKnownTexted'
  BY <1>4, <1>2, <1>1 DEF OnlyKnownTexted, RecoveryInv
<1> QED
  BY <1>3, <1>5, <1>6, <1>7, <1>8, RecoveryStepKeeps

LEMMA ComparingKeeps ==
  ASSUME RecoveryInv, NEW q \in RecoveryRequests, NEW outcome \in {"right", "wrong"}, CompareDigits(q, outcome)
  PROVE  RecoveryInv'
<1>0. recovery[q] \in RecoveryRow /\ ProperRecovery(recovery[q]) /\ recovery[q].pc = "read"
  BY RecoveryFacts DEF CompareDigits, AtStep
<1>1. PICK r : r = [recovery[q] EXCEPT !.pc = outcome]
  OBVIOUS
<1>2. /\ recovery' = [recovery EXCEPT ![q] = r] /\ r \in RecoveryRow /\ r.pc = outcome /\ ProperRecovery(r)
      /\ r.code = recovery[q].code /\ r.code \in ResetCodes /\ resetCode[r.code].status = "PENDING"
  BY <1>0, <1>1 DEF CompareDigits, StepsTo, RecoveryRow, ProperRecovery
<1>3. /\ tried' = tried + 1 /\ UNCHANGED <<resetForm, resetCode, texts, resets, met, counted, uncounted, recoveries>>
  BY DEF CompareDigits, RecoveryLimitsKept
<1>4. /\ recovery' \in [RecoveryRequests -> RecoveryRow] /\ tried \in Nat /\ tried' \in Nat
      /\ \A n \in Numbers : texts[n] \in Nat /\ counted[AskedFrom(n)] \in Nat
      /\ counted[GuessedFrom] \in Nat
  <2>1. recovery' \in [RecoveryRequests -> RecoveryRow]
    BY <1>2, RecoveryFacts
  <2> QED
    BY <1>3, <2>1, CountsAre
<1>5. PasswordRecoveryTypeOK'
  BY <1>3, <1>4 DEF RecoveryInv, RecoveryRowsFine, PasswordRecoveryTypeOK, RecoveryRow
<1>6. Counts(q, r)
  <2>1. \A n \in Numbers : TextOf(r, n) = 0 /\ TextOf(recovery[q], n) = 0
    BY <1>0, <1>2 DEF TextOf, MayText
  <2>2. CompareOf(r) = 0 /\ CompareOf(recovery[q]) = 1
    BY <1>0, <1>2 DEF CompareOf
  <2>3. ASSUME NEW n \in Numbers
        PROVE  /\ texts'[n] \in Nat /\ counted'[AskedFrom(n)] \in Nat /\ counted[AskedFrom(n)] <= counted'[AskedFrom(n)]
               /\ texts'[n] + TextOf(r, n) <= texts[n] + TextOf(recovery[q], n)
    BY <1>3, <1>4, <2>1
  <2>4. tried' + CompareOf(r) <= tried + CompareOf(recovery[q])
    BY <1>3, <1>4, <2>2
  <2>5. counted' = counted /\ uncounted' = uncounted
    BY <1>3
  <2> QED
    BY <1>2, <1>4, <2>3, <2>4, <2>5 DEF Counts
<1>7. ResetStep(q, r)
  <2>1. \A d \in ResetCodes : LeavesCode(q, r, d)
    BY <1>2, <1>3 DEF LeavesCode
  <2> QED
    BY <1>2, <1>3, <2>1 DEF ResetStep
<1>8. OnlyKnownTexted'
  BY <1>3 DEF OnlyKnownTexted, RecoveryInv
<1> QED
  BY <1>2, <1>5, <1>6, <1>7, <1>8, RecoveryStepKeeps

(* The counters: a count, and what it lets pass *)
LEMMA PassingIs ==
  ASSUME RecoveryInv, NEW q \in RecoveryRequests, recovery[q].pc \in {"address", "number", "verify"},
         PassesTheCounter(q), UNCHANGED resetForm, RowsAsBefore, UNCHANGED recoveries
  PROVE  \E r : /\ MovesOn(q, r) /\ r.number = recovery[q].number /\ recovery' = [recovery EXCEPT ![q] = r]
                /\ recovery[q].pc = "address" => r.pc = "number"
                /\ recovery[q].pc = "number" => r.pc = "send"
                /\ recovery[q].pc = "verify" => r.pc = "read"
<1>0. recovery[q] \in RecoveryRow /\ ProperRecovery(recovery[q])
  BY RecoveryFacts
<1>1. PICK pc : pc = NextCheck(recovery[q].pc)
  OBVIOUS
<1>2. /\ recovery[q].pc = "address" => pc = "number"
      /\ recovery[q].pc = "number" => pc = "send"
      /\ recovery[q].pc = "verify" => pc = "read"
  BY <1>1 DEF NextCheck
<1>3. PICK r : r = [recovery[q] EXCEPT !.pc = pc]
  OBVIOUS
<1>4. /\ recovery' = [recovery EXCEPT ![q] = r] /\ r \in RecoveryRow /\ r.pc = pc /\ ProperRecovery(r)
      /\ r.code = recovery[q].code /\ r.number = recovery[q].number
  BY <1>0, <1>1, <1>2, <1>3 DEF PassesTheCounter, StepsTo, RecoveryRow, ProperRecovery
<1>5. MovesOn(q, r)
  BY <1>2, <1>4 DEF MovesOn, RowsAsBefore, RowsStand, RecoveryInv, RecoveryRowsFine, PasswordRecoveryTypeOK
<1> QED
  BY <1>2, <1>4, <1>5

LEMMA FailsOpenKeeps ==
  ASSUME RecoveryInv, NEW q \in RecoveryRequests, LimiterDown(q)
  PROVE  RecoveryInv'
<1>1. /\ recovery[q].pc \in {"address", "number", "verify"} /\ PassesTheCounter(q) /\ RowsAsBefore
      /\ UNCHANGED <<resetForm, counted, recoveries>> /\ uncounted' = TRUE
  BY DEF LimiterDown
<1>2. PICK r : MovesOn(q, r) /\ recovery' = [recovery EXCEPT ![q] = r]
  BY <1>1, PassingIs
<1>3. ProperRecovery(r) /\ recovery' \in [RecoveryRequests -> RecoveryRow] /\ ResetStep(q, r)
  BY <1>2, RecoveryFacts, MovesAreCodeSteps, ZenonT(40) DEF MovesOn
<1>4. PasswordRecoveryTypeOK'
  BY <1>1, <1>3 DEF RecoveryInv, RecoveryRowsFine, PasswordRecoveryTypeOK, RecoveryRow, RowsAsBefore
<1>5. Counts(q, r)
  BY <1>1, <1>2 DEF Counts
<1>6. OnlyKnownTexted'
  BY <1>1 DEF OnlyKnownTexted, RecoveryInv, RowsAsBefore
<1> QED
  BY <1>3, <1>4, <1>5, <1>6, RecoveryStepKeeps

(* What a count did to the counters *)
LEMMA CountedIs ==
  ASSUME RecoveryInv, NEW q \in RecoveryRequests, CountRequest(q)
  PROVE  /\ CountsOn(q) \in RecoveryCounters /\ counted' \in [RecoveryCounters -> Nat]
         /\ \A s \in RecoveryCounters : counted'[s] = IF s = CountsOn(q) THEN counted[s] + 1 ELSE counted[s]
         /\ \A s \in RecoveryCounters : counted[s] \in Nat
         /\ \A n \in Numbers : AskedFrom(n) \in RecoveryCounters /\ AskedFrom(n) # GuessedFrom
         /\ GuessedFrom \in RecoveryCounters
         /\ recovery[q].pc = "number" => CountsOn(q) = AskedFrom(recovery[q].number)
         /\ recovery[q].pc = "verify" <=> CountsOn(q) = GuessedFrom
<1>1. recovery[q] \in RecoveryRow /\ recovery[q].pc \in {"address", "number", "verify"}
  BY RecoveryFacts DEF CountRequest
<1>2. \A n \in Numbers \cup {TheAddress} : AskedFrom(n) \in RecoveryCounters /\ AskedFrom(n) # GuessedFrom
  BY DEF RecoveryCounters, AskedFrom, GuessedFrom
<1>3. GuessedFrom \in RecoveryCounters
  BY DEF RecoveryCounters
<1>4. /\ recovery[q].pc = "verify" => CountsOn(q) = GuessedFrom
      /\ recovery[q].pc = "address" => CountsOn(q) = AskedFrom(TheAddress)
      /\ recovery[q].pc = "number" => CountsOn(q) = AskedFrom(recovery[q].number)
  BY DEF CountsOn, AtStep
<1>5. recovery[q].number \in Numbers
  BY <1>1 DEF RecoveryRow
<1>6. CountsOn(q) \in RecoveryCounters /\ (recovery[q].pc = "verify" <=> CountsOn(q) = GuessedFrom)
  BY <1>1, <1>2, <1>3, <1>4, <1>5
<1>7. PICK s \in RecoveryCounters : s = CountsOn(q)
  BY <1>6
<1>8. counted' = [counted EXCEPT ![s] = @ + 1] /\ counted \in [RecoveryCounters -> Nat]
  BY <1>7, RecoveryFacts DEF CountRequest
<1>9. counted' \in [RecoveryCounters -> Nat]
  BY <1>8
<1>10. \A t \in RecoveryCounters : counted'[t] = IF t = s THEN counted[t] + 1 ELSE counted[t]
  BY <1>8
<1> QED
  BY <1>2, <1>3, <1>4, <1>6, <1>7, <1>8, <1>9, <1>10

LEMMA CountKeeps ==
  ASSUME RecoveryInv, NEW q \in RecoveryRequests, CountRequest(q)
  PROVE  RecoveryInv'
<1>1. /\ recovery[q].pc \in {"address", "number", "verify"} /\ RowsAsBefore /\ UNCHANGED <<uncounted, recoveries>>
  BY DEF CountRequest
<1>2. /\ CountsOn(q) \in RecoveryCounters /\ counted' \in [RecoveryCounters -> Nat]
      /\ \A s \in RecoveryCounters : counted'[s] = IF s = CountsOn(q) THEN counted[s] + 1 ELSE counted[s]
      /\ \A s \in RecoveryCounters : counted[s] \in Nat
      /\ \A n \in Numbers : AskedFrom(n) \in RecoveryCounters /\ AskedFrom(n) # GuessedFrom
      /\ GuessedFrom \in RecoveryCounters
      /\ recovery[q].pc = "number" => CountsOn(q) = AskedFrom(recovery[q].number)
      /\ recovery[q].pc = "verify" <=> CountsOn(q) = GuessedFrom
  BY CountedIs
<1>3. \A s \in RecoveryCounters : counted'[s] \in Nat /\ counted[s] <= counted'[s]
  BY <1>2
<1>4. tried \in Nat /\ tried' = tried /\ texts' = texts /\ \A n \in Numbers : texts[n] \in Nat
  BY <1>1, CountsAre DEF RowsAsBefore
<1>5. OnlyKnownTexted'
  BY <1>4 DEF OnlyKnownTexted, RecoveryInv
<1>6. CASE Declines(q)
  <2>1. /\ recovery' = [recovery EXCEPT ![q] = NoRecovery] /\ recovery' \in [RecoveryRequests -> RecoveryRow]
        /\ resetForm' \in [step : {"phone", "code", "done"}, number : Numbers, held : ResetCodes \cup {Blank},
                          waits : RecoveryRequests \cup {NoRequest}]
        /\ resetForm'.held = resetForm.held
        /\ ProperRecovery(NoRecovery) /\ \A n \in Numbers : ~MayText(NoRecovery, n)
    BY <1>6, DeclinedIs
  <2>2. PasswordRecoveryTypeOK'
    BY <1>1, <1>2, <2>1 DEF RecoveryInv, RecoveryRowsFine, PasswordRecoveryTypeOK, RecoveryRow, RowsAsBefore
  <2>3. CompareOf(NoRecovery) = 0 /\ CompareOf(recovery[q]) = 0
    BY <1>1, NoRecoveryIs DEF CompareOf
  <2>4. ASSUME NEW n \in Numbers
        PROVE  /\ texts'[n] \in Nat /\ counted'[AskedFrom(n)] \in Nat
               /\ counted[AskedFrom(n)] <= counted'[AskedFrom(n)]
               /\ texts'[n] + TextOf(NoRecovery, n) <= texts[n] + TextOf(recovery[q], n)
    <3>1. TextOf(NoRecovery, n) = 0 /\ TextOf(recovery[q], n) = 0
      BY <1>1, <2>1 DEF TextOf, MayText
    <3> QED
      BY <1>2, <1>3, <1>4, <3>1
  <2>5. Counts(q, NoRecovery)
    BY <1>1, <1>2, <1>3, <1>4, <2>1, <2>3, <2>4 DEF Counts
  <2>6. ResetStep(q, NoRecovery)
    <3>1. \A c \in ResetCodes : LeavesCode(q, NoRecovery, c)
      BY <1>1, NoRecoveryIs, RecoveryFacts DEF LeavesCode, RowsAsBefore
    <3> QED
      BY <1>1, <2>1, <3>1, NoRecoveryIs DEF ResetStep, RowsAsBefore
  <2> QED
    BY <1>5, <2>1, <2>2, <2>5, <2>6, RecoveryStepKeeps
<1>7. CASE PassesTheCounter(q) /\ UNCHANGED resetForm /\ counted'[CountsOn(q)] <= RuleOf(CountsOn(q))
  <2>1. PICK r : /\ MovesOn(q, r) /\ r.number = recovery[q].number /\ recovery' = [recovery EXCEPT ![q] = r]
                 /\ recovery[q].pc = "address" => r.pc = "number"
                 /\ recovery[q].pc = "number" => r.pc = "send"
                 /\ recovery[q].pc = "verify" => r.pc = "read"
    BY <1>1, <1>7, PassingIs
  <2>2. ProperRecovery(r) /\ recovery' \in [RecoveryRequests -> RecoveryRow] /\ ResetStep(q, r)
    BY <2>1, RecoveryFacts, MovesAreCodeSteps DEF MovesOn
  <2>3. PasswordRecoveryTypeOK'
    BY <1>1, <1>2, <1>7, <2>2 DEF RecoveryInv, RecoveryRowsFine, PasswordRecoveryTypeOK, RecoveryRow, RowsAsBefore
  <2>4. ASSUME NEW n \in Numbers
        PROVE  /\ texts'[n] \in Nat /\ counted'[AskedFrom(n)] \in Nat
               /\ counted[AskedFrom(n)] <= counted'[AskedFrom(n)]
               /\ \/ texts'[n] + TextOf(r, n) <= texts[n] + TextOf(recovery[q], n)
                  \/ /\ texts'[n] = texts[n] /\ counted'[AskedFrom(n)] = counted[AskedFrom(n)] + 1
                     /\ counted'[AskedFrom(n)] <= AskLimit /\ TextOf(recovery[q], n) = 0
    <3>1. TextOf(recovery[q], n) = 0
      BY <1>1 DEF TextOf, MayText
    <3>2. CASE ~MayText(r, n)
      <4>1. TextOf(r, n) = 0
        BY <3>2 DEF TextOf
      <4> QED
        BY <1>2, <1>3, <1>4, <3>1, <4>1
    <3>3. CASE MayText(r, n)
      <4>1. recovery[q].pc = "number" /\ CountsOn(q) = AskedFrom(n)
        BY <1>1, <1>2, <2>1, <3>3 DEF MayText
      <4>2. RuleOf(AskedFrom(n)) = AskLimit
        BY <1>2 DEF RuleOf
      <4> QED
        BY <1>2, <1>3, <1>4, <1>7, <3>1, <4>1, <4>2
    <3> QED
      BY <3>2, <3>3
  <2>5. \/ tried' + CompareOf(r) <= tried + CompareOf(recovery[q])
        \/ /\ tried' = tried /\ counted'[GuessedFrom] = counted[GuessedFrom] + 1
           /\ counted'[GuessedFrom] <= VerifyLimit /\ CompareOf(recovery[q]) = 0
    <3>1. CompareOf(recovery[q]) = 0
      BY <1>1 DEF CompareOf
    <3>2. CASE r.pc # "read"
      <4>1. CompareOf(r) = 0
        BY <3>2 DEF CompareOf
      <4> QED
        BY <1>4, <3>1, <4>1
    <3>3. CASE r.pc = "read"
      <4>1. CountsOn(q) = GuessedFrom
        BY <1>1, <1>2, <2>1, <3>3
      <4>2. RuleOf(GuessedFrom) = VerifyLimit
        BY DEF RuleOf
      <4> QED
        BY <1>2, <1>4, <1>7, <3>1, <4>1, <4>2
    <3> QED
      BY <3>2, <3>3
  <2>6. Counts(q, r)
    BY <1>1, <1>2, <1>3, <1>4, <2>1, <2>4, <2>5 DEF Counts
  <2> QED
    BY <1>5, <2>2, <2>3, <2>6, RecoveryStepKeeps
<1> QED
  BY <1>6, <1>7 DEF CountRequest

LEMMA RequestsKeep ==
  ASSUME RecoveryInv, NEW q \in RecoveryRequests,
         \/ \E n \in Numbers : AskForReset(q, n)
         \/ ConfirmReset(q) \/ CountRequest(q) \/ LimiterDown(q)
         \/ UnknownNumber(q) \/ CodeTooSoon(q) \/ ResetTextSent(q) \/ TextRefused(q)
         \/ ConfirmedBefore(q) \/ CodeIsOver(q) \/ MarkRight(q) \/ CommitReset(q) \/ RecoveryBreaks(q)
         \/ \E c \in ResetCodes : MakeCode(q, c)
         \/ \E outcome \in {"right", "wrong"} : CompareDigits(q, outcome)
         \/ \E status \in {"PENDING", "EXPIRED"} : MarkWrong(q, status)
  PROVE  RecoveryInv'
<1>1. CASE (\E n \in Numbers : AskForReset(q, n)) \/ ConfirmReset(q)
  BY <1>1, PressesKeep
<1>2. CASE CountRequest(q)
  BY <1>2, CountKeeps
<1>3. CASE LimiterDown(q)
  BY <1>3, FailsOpenKeeps
<1>4. CASE UnknownNumber(q) \/ ConfirmedBefore(q)
  BY <1>4, AnswersKeep
<1>5. CASE \/ CodeTooSoon(q) \/ TextRefused(q) \/ CodeIsOver(q) \/ RecoveryBreaks(q)
           \/ \E status \in {"PENDING", "EXPIRED"} : MarkWrong(q, status)
           \/ CommitReset(q) /\ resetCode[recovery[q].code].status # "VERIFIED"
  BY <1>5, EndingsKeep
<1>6. CASE ResetTextSent(q)
  BY <1>6, SentTextKeeps
<1>7. CASE MarkRight(q)
  BY <1>7, MarkRightKeeps
<1>8. CASE CommitReset(q) /\ resetCode[recovery[q].code].status = "VERIFIED"
  BY <1>8, CommitKeeps
<1>9. ASSUME NEW c \in ResetCodes, MakeCode(q, c)
      PROVE  RecoveryInv'
  BY <1>9, MakeCodeKeeps
<1>10. ASSUME NEW outcome \in {"right", "wrong"}, CompareDigits(q, outcome)
       PROVE  RecoveryInv'
  BY <1>10, ComparingKeeps
<1> QED
  BY <1>1, <1>2, <1>3, <1>4, <1>5, <1>6, <1>7, <1>8, <1>9, <1>10

(* What happens outside the requests: a code runs out, the customer takes   *)
(* another number, or the browser gives an answer up.                       *)
LEMMA FormAndTimeKeep ==
  ASSUME RecoveryInv, UNCHANGED <<recovery, texts, tried, resets, met, counted, uncounted, recoveries>>,
         resetForm' \in [step : {"phone", "code", "done"}, number : Numbers, held : ResetCodes \cup {Blank},
                         waits : RecoveryRequests \cup {NoRequest}],
         resetForm'.held \in {resetForm.held, Blank}, Blank \notin ResetCodes,
         resetCode' \in [ResetCodes -> [status : {"NONE", "PENDING", "VERIFIED", "CONSUMED", "EXPIRED"},
                                        number : Numbers, live : BOOLEAN]],
         \A c \in ResetCodes : resetCode'[c].status = resetCode[c].status
  PROVE  RecoveryInv'
<1>1. RecoveryRowsFine' /\ WithinRules' /\ OnlyKnownTexted'
  BY DEF RecoveryInv, RecoveryRowsFine, PasswordRecoveryTypeOK, ProperRecovery, Recovering, WithinRules,
     OnlyKnownTexted, Texting, Comparing, MayText, AskedFrom, GuessedFrom
<1>2. ASSUME NEW c \in ResetCodes
      PROVE  CodeSpentOnce(c)'
  <2>1. CodeSpentOnce(c) /\ resetCode'[c].status = resetCode[c].status /\ c # Blank
    BY DEF RecoveryInv
  <2> QED
    BY <2>1 DEF CodeSpentOnce
<1> QED
  BY <1>1, <1>2 DEF RecoveryInv

LEMMA RecoveryInvStays ==
  ASSUME RecoveryInv, [PasswordRecoveryNext]_recoveryVars
  PROVE  RecoveryInv'
<1> DEFINE Form == [step : {"phone", "code", "done"}, number : Numbers, held : ResetCodes \cup {Blank},
                    waits : RecoveryRequests \cup {NoRequest}]
           Rows == [ResetCodes -> [status : {"NONE", "PENDING", "VERIFIED", "CONSUMED", "EXPIRED"},
                                   number : Numbers, live : BOOLEAN]]
<1>0. resetForm \in Form /\ resetCode \in Rows /\ Blank \notin ResetCodes
  BY PasswordRecoveryAssumption DEF RecoveryInv, RecoveryRowsFine, PasswordRecoveryTypeOK
<1>1. CASE UNCHANGED recoveryVars
  BY <1>0, <1>1, FormAndTimeKeep DEF recoveryVars
<1>2. CASE AnotherNumber
  <2>1. resetForm' \in Form /\ resetForm'.held = Blank
    BY <1>0, <1>2 DEF AnotherNumber
  <2> QED
    BY <1>0, <1>2, <2>1, FormAndTimeKeep DEF AnotherNumber, RowsAsBefore, RecoveryLimitsKept
<1>3. CASE LoseConnection
  <2>1. resetForm' \in Form /\ resetForm'.held = resetForm.held
    BY <1>0, <1>3 DEF LoseConnection
  <2> QED
    BY <1>0, <1>3, <2>1, FormAndTimeKeep DEF LoseConnection, RowsAsBefore, RecoveryLimitsKept
<1>4. ASSUME NEW c \in ResetCodes, ResetCodeRunsOut(c)
      PROVE  RecoveryInv'
  <2>1. resetCode' = [resetCode EXCEPT ![c] = [@ EXCEPT !.live = FALSE]]
    BY <1>4 DEF ResetCodeRunsOut
  <2>2. resetCode' \in Rows /\ \A d \in ResetCodes : resetCode'[d].status = resetCode[d].status
    BY <1>0, <2>1, ZenonT(40)
  <2> QED
    BY <1>0, <1>4, <2>2, FormAndTimeKeep DEF ResetCodeRunsOut, RecoveryLimitsKept
<1>5. ASSUME NEW q \in RecoveryRequests,
             \/ \E n \in Numbers : AskForReset(q, n)
             \/ ConfirmReset(q) \/ CountRequest(q) \/ LimiterDown(q)
             \/ UnknownNumber(q) \/ CodeTooSoon(q) \/ ResetTextSent(q) \/ TextRefused(q)
             \/ ConfirmedBefore(q) \/ CodeIsOver(q) \/ MarkRight(q) \/ CommitReset(q) \/ RecoveryBreaks(q)
             \/ \E c \in ResetCodes : MakeCode(q, c)
             \/ \E outcome \in {"right", "wrong"} : CompareDigits(q, outcome)
             \/ \E status \in {"PENDING", "EXPIRED"} : MarkWrong(q, status)
      PROVE  RecoveryInv'
  BY <1>5, RequestsKeep
<1> QED
  BY <1>1, <1>2, <1>3, <1>4, <1>5, ZenonT(60) DEF PasswordRecoveryNext

LEMMA RecoveryInvStarts == PasswordRecoveryInit => RecoveryInv
<1> SUFFICES ASSUME PasswordRecoveryInit
             PROVE  RecoveryInv
  OBVIOUS
<1>1. PasswordRecoveryTypeOK
  <2>1. /\ resetForm \in [step : {"phone", "code", "done"}, number : Numbers, held : ResetCodes \cup {Blank},
                          waits : RecoveryRequests \cup {NoRequest}]
        /\ resetCode \in [ResetCodes -> [status : {"NONE", "PENDING", "VERIFIED", "CONSUMED", "EXPIRED"},
                                         number : Numbers, live : BOOLEAN]]
    BY NoRecoveryIs DEF PasswordRecoveryInit
  <2>2. recovery \in [RecoveryRequests -> RecoveryRow]
    BY NoRecoveryIs DEF PasswordRecoveryInit
  <2>3. /\ counted \in [RecoveryCounters -> Nat] /\ texts \in [Numbers -> Nat] /\ tried \in Nat
        /\ resets \in [ResetCodes -> Nat] /\ met \subseteq ResetCodes /\ uncounted \in BOOLEAN
    BY DEF PasswordRecoveryInit
  <2>4. recoveries \in 0 .. MaxRecoveries
    BY PasswordRecoveryAssumption DEF PasswordRecoveryInit
  <2> QED
    BY <2>1, <2>2, <2>3, <2>4 DEF PasswordRecoveryTypeOK, RecoveryRow
<1>2. \A q \in RecoveryRequests : recovery[q] = NoRecovery
  BY DEF PasswordRecoveryInit
<1>3. Recovering = {} /\ Comparing = {} /\ \A n \in Numbers : Texting(n) = {}
  BY <1>2, NoRecoveryIs DEF Recovering, Comparing, Texting, MayText
<1>4. RecoveryRowsFine
  BY <1>1, <1>2, <1>3, NoRecoveryIs, FS_EmptySet DEF RecoveryRowsFine, ProperRecovery
<1>5. WithinRules
  <2>1. /\ \A n \in Numbers : texts[n] = 0 /\ counted[AskedFrom(n)] = 0
        /\ tried = 0 /\ counted[GuessedFrom] = 0
    BY DEF PasswordRecoveryInit, RecoveryCounters
  <2>2. Cardinality({}) = 0 /\ AskLimit \in Nat /\ VerifyLimit \in Nat
    BY FS_EmptySet, PasswordRecoveryAssumption
  <2> QED
    BY <1>3, <2>1, <2>2, SMTT(30) DEF WithinRules
<1>6. OnlyKnownTexted
  BY DEF PasswordRecoveryInit, OnlyKnownTexted
<1>7. ASSUME NEW c \in ResetCodes
      PROVE  CodeSpentOnce(c)
  <2>1. resets[c] = 0 /\ resetForm.held = Blank /\ Blank # c
    BY PasswordRecoveryAssumption DEF PasswordRecoveryInit
  <2> QED
    BY <1>2, <2>1, NoRecoveryIs DEF CodeSpentOnce
<1> QED
  BY <1>4, <1>5, <1>6, <1>7 DEF RecoveryInv

(* Whatever number of requests, codes and numbers there are, and however    *)
(* requests overlap, repeat, break or lose their answers: the counters      *)
(* (rate-limit.ts, rules auth.password_reset and phone.verify) bound the    *)
(* texts and the comparisons of password-reset.ts as long as the limiter    *)
(* answers; a number without an account is never texted; and a code no two  *)
(* requests worked on at once buys at most one password.                    *)
THEOREM ResetsAreLimited == PasswordRecoverySpec => []RecoveriesAreLimited
<1>1. RecoveryInv => RecoveriesAreLimited
  <2> SUFFICES ASSUME RecoveryInv
               PROVE  RecoveriesAreLimited
    OBVIOUS
  <2>1. ASSUME ~uncounted
        PROVE  (\A n \in Numbers : texts[n] <= AskLimit) /\ tried <= VerifyLimit
    <3>1. IsFiniteSet(Recovering) /\ tried \in Nat /\ texts \in [Numbers -> Nat] /\ AskLimit \in Nat /\ VerifyLimit \in Nat
      BY PasswordRecoveryAssumption DEF RecoveryInv, RecoveryRowsFine, PasswordRecoveryTypeOK
    <3>2. \A S \in SUBSET Recovering : Cardinality(S) \in Nat
      BY <3>1, FS_Subset, FS_CardinalityType
    <3>3. Comparing \in SUBSET Recovering /\ \A n \in Numbers : Texting(n) \in SUBSET Recovering
      BY DEF Comparing, Texting, MayText, Recovering
    <3>4. Cardinality(Comparing) \in Nat /\ \A n \in Numbers : Cardinality(Texting(n)) \in Nat
      BY <3>2, <3>3
    <3>5. /\ tried + Cardinality(Comparing) <= VerifyLimit
          /\ \A n \in Numbers : texts[n] + Cardinality(Texting(n)) <= AskLimit
      BY <2>1 DEF RecoveryInv, WithinRules
    <3> QED
      BY <3>1, <3>4, <3>5
  <2>2. \A c \in ResetCodes \ met : resets[c] <= 1
    BY DEF RecoveryInv, CodeSpentOnce
  <2> QED
    BY <2>1, <2>2 DEF RecoveriesAreLimited, RecoveryInv, OnlyKnownTexted
<1> QED
  BY <1>1, RecoveryInvStarts, RecoveryInvStays, PTL DEF PasswordRecoverySpec

(* Whoever signs in and whoever forgot a password at the same time, both     *)
(* ways into the dashboard keep their limits.                                *)
THEOREM BothWaysAreLimited ==
    LoginThrottleSpec /\ PasswordRecoverySpec => []AccessIsLimited
<1>1. LoginsAreLimited /\ RecoveriesAreLimited => AccessIsLimited
  BY DEF AccessIsLimited
<1> QED
  BY <1>1, SignInsAreLimited, ResetsAreLimited, PTL

-----------------------------------------------------------------------------
(***************************************************************************)
(* FirstService.  An owner's decision is on the trail, and a request that   *)
(* committed after one knows it: none of those gets past the trail.         *)
(***************************************************************************)
DecisionInv ==
    /\ desks = [a \in Admins |-> desks[a]]
    /\ decided \in BOOLEAN /\ (decided <=> trail # {})
    /\ \A a \in Admins : desks[a].pc # "idle" => desks[a].late \in BOOLEAN /\ (desks[a].late => decided)
    /\ \A a \in Admins : desks[a].pc = "counted" => ~desks[a].late

(* A request's step, as far as its desk and the decision go *)
DeskStep(a, d) ==
    /\ desks' = [desks EXCEPT ![a] = d] /\ decided' \in BOOLEAN
    /\ decided => decided'
    /\ decided' <=> trail' # {}
    /\ d.pc # "idle" => d.late \in BOOLEAN /\ (d.late => decided')
    /\ d.pc = "counted" => ~d.late

LEMMA DeskStepKeeps ==
  ASSUME DecisionInv, NEW a \in Admins, NEW d, DeskStep(a, d)
  PROVE  DecisionInv'
<1>1. \A m \in Admins : desks'[m] = IF m = a THEN d ELSE desks[m]
  BY DEF DecisionInv, DeskStep
<1>2. desks' = [m \in Admins |-> desks'[m]]
  BY DEF DecisionInv, DeskStep
<1>3. ASSUME NEW m \in Admins
      PROVE  /\ desks'[m].pc # "idle" => desks'[m].late \in BOOLEAN /\ (desks'[m].late => decided')
             /\ desks'[m].pc = "counted" => ~desks'[m].late
  BY <1>1 DEF DecisionInv, DeskStep
<1> QED
  BY <1>2, <1>3 DEF DecisionInv, DeskStep

LEMMA DecisionStays ==
  ASSUME DecisionInv, [FirstServiceNext]_firstServiceVars
  PROVE  DecisionInv'
<1>1. CASE UNCHANGED firstServiceVars
  BY <1>1 DEF DecisionInv, firstServiceVars
<1>2. ASSUME UNCHANGED desks, decided' = TRUE, trail' # {}
      PROVE  DecisionInv'
  BY <1>2 DEF DecisionInv
<1>3. ASSUME UNCHANGED <<desks, trail, decided>>
      PROVE  DecisionInv'
  BY <1>3 DEF DecisionInv
<1>4. ASSUME NEW a \in Admins, PublishLater(a), UNCHANGED <<trail, decided>>
      PROVE  DecisionInv'
  <2>1. PICK d : d = [pc |-> "committed", late |-> decided]
    OBVIOUS
  <2>2. DeskStep(a, d)
    BY <1>4, <2>1 DEF PublishLater, DeskStep, DecisionInv
  <2> QED
    BY <2>2, DeskStepKeeps
<1>5. ASSUME NEW a \in Admins, desks' = [desks EXCEPT ![a] = DeskIdle], UNCHANGED <<trail, decided>>
      PROVE  DecisionInv'
  <2>1. DeskStep(a, DeskIdle)
    BY <1>5 DEF DeskStep, DecisionInv, DeskIdle
  <2> QED
    BY <2>1, DeskStepKeeps
<1>6. ASSUME NEW a \in Admins, PublishLists(a)
      PROVE  DecisionInv'
  <2>1. CASE desks' = [desks EXCEPT ![a] = DeskIdle]
    BY <1>5, <1>6, <2>1 DEF PublishLists
  <2>2. CASE desks' # [desks EXCEPT ![a] = DeskIdle]
    <3>1. PICK d : d = [pc |-> "listed", late |-> desks[a].late, service |-> CHOOSE v \in Unarchived : TRUE]
      OBVIOUS
    <3>2. desks' = [desks EXCEPT ![a] = d] /\ UNCHANGED <<trail, decided>>
      BY <1>6, <2>2, <3>1 DEF PublishLists, DecisionInv
    <3>3. d.pc = "listed" /\ d.late = desks[a].late /\ desks[a].pc = "committed"
      BY <1>6, <3>1 DEF PublishLists
    <3>4. DeskStep(a, d)
      BY <3>2, <3>3 DEF DeskStep, DecisionInv
    <3> QED
      BY <3>4, DeskStepKeeps
  <2> QED
    BY <2>1, <2>2
<1>7. ASSUME NEW a \in Admins, PublishCounts(a)
      PROVE  DecisionInv'
  <2>1. CASE desks' = [desks EXCEPT ![a] = DeskIdle]
    BY <1>5, <1>7, <2>1 DEF PublishCounts
  <2>2. CASE desks' # [desks EXCEPT ![a] = DeskIdle]
    <3>1. PICK d : d = [desks[a] EXCEPT !.pc = "counted"]
      OBVIOUS
    <3>2. desks' = [desks EXCEPT ![a] = d] /\ UNCHANGED <<trail, decided>> /\ ~ManagedInSettings
      BY <1>7, <2>2, <3>1 DEF PublishCounts, DecisionInv
    <3>3. d.late = desks[a].late /\ desks[a].pc = "listed"
      BY <1>7, <3>1 DEF PublishCounts
    <3>4. ~decided
      BY <3>2 DEF ManagedInSettings, DecisionInv
    <3>5. DeskStep(a, d)
      BY <3>2, <3>3, <3>4 DEF DeskStep, DecisionInv
    <3> QED
      BY <3>5, DeskStepKeeps
  <2> QED
    BY <2>1, <2>2
<1>8. ASSUME NEW type, Settle(type), UNCHANGED desks
      PROVE  DecisionInv'
  BY <1>2, <1>8 DEF Settle
<1>9. ASSUME NEW a \in Admins,
             \/ CreateFirstService(a) \/ \E on \in BOOLEAN : ArchiveStaff(a, on)
      PROVE  DecisionInv'
  BY <1>3, <1>9 DEF CreateFirstService, ArchiveStaff
<1>10. ASSUME NEW a \in Admins,
              \/ UpdateFirstService(a) \/ \E on \in BOOLEAN : ReplaceBranchSchedule(a, on)
              \/ \E assigned \in SUBSET Services : SaveStaff(a, assigned)
       PROVE  DecisionInv'
  BY <1>4, <1>10 DEF UpdateFirstService, ReplaceBranchSchedule, SaveStaff
<1>11. ASSUME NEW a \in Admins,
              \/ \E v \in Services, on \in BOOLEAN : ArchiveService(a, v, on)
              \/ \E v \in Services :
                   \/ DuplicateService(a, v)
                   \/ \E row \in ServiceRow : SaveService(a, v, row)
       PROVE  DecisionInv'
  BY <1>8, <1>11 DEF ArchiveService, DuplicateService, SaveService
<1>12. ASSUME NEW a \in Admins, PublishWrites(a) \/ PublishFails(a)
       PROVE  DecisionInv'
  BY <1>5, <1>12 DEF PublishWrites, PublishFails
<1> QED
  BY <1>1, <1>6, <1>7, <1>9, <1>10, <1>11, <1>12, ZenonT(60) DEF FirstServiceNext

(* However many owners and services there are, and however their requests   *)
(* interleave with the three steps of publishFirstServiceWhenReady          *)
(* (publish-first-service.ts): what committed after an owner's decision *)
(* does not publish.                                                        *)
THEOREM DecisionsStand == FirstServiceSpec => []OwnersDecisionStands
<1>1. FirstServiceInit => DecisionInv
  <2> SUFFICES ASSUME FirstServiceInit
               PROVE  DecisionInv
    OBVIOUS
  <2>1. desks = [a \in Admins |-> DeskIdle] /\ DeskIdle.pc = "idle" /\ trail = {} /\ decided = FALSE
    BY DEF FirstServiceInit, DeskIdle
  <2>2. \A a \in Admins : desks[a].pc = "idle"
    BY <2>1
  <2>3. desks = [a \in Admins |-> desks[a]]
    BY <2>1
  <2> QED
    BY <2>1, <2>2, <2>3 DEF DecisionInv
<1>2. DecisionInv => OwnersDecisionStands
  BY DEF DecisionInv, OwnersDecisionStands
<1> QED
  BY <1>1, <1>2, DecisionStays, PTL DEF FirstServiceSpec

-----------------------------------------------------------------------------
(***************************************************************************)
(* Catalogue.  What a visit is made of is neither archived nor counted for  *)
(* archiving by anybody, unless it was already so when the visit was        *)
(* reserved.                                                                *)
(***************************************************************************)
ShopRow == [branch : [Branches -> {"none", "active", "archived"}],
            staffArchived : BOOLEAN, staffIn : SUBSET Branches, performs : BOOLEAN,
            serviceArchived : BOOLEAN, serviceAt : Branches, needs : BOOLEAN,
            chairMade : BOOLEAN, chairArchived : BOOLEAN, chairAt : Branches, chairAvailable : BOOLEAN,
            requests : 0 .. MaxRequests]
AllParts == {<<"staff">>, <<"service">>, <<"chair">>} \cup {<<"branch", b>> : b \in Branches}
VisitRow == [booked : BOOLEAN, branch : Branches, chair : BOOLEAN, missed : SUBSET AllParts]
FoundRow == [pc : {"found"}, branch : Branches, chair : BOOLEAN]
Forms == StaffForms \cup ServiceForms \cup ResourceForms

Existing(s, part) ==
    /\ part[1] = "branch" => s.branch[part[2]] # "none"
    /\ part[1] = "chair" => s.chairMade
ArchivedIn(s, part) ==
    \/ part[1] = "branch" /\ s.branch[part[2]] = "archived"
    \/ part[1] = "staff" /\ s.staffArchived
    \/ part[1] = "service" /\ s.serviceArchived
    \/ part[1] = "chair" /\ s.chairArchived

ShopFine ==
    /\ shop \in ShopRow /\ upcoming \in VisitRow /\ customer \in {AtRest} \cup FoundRow
    /\ shop.chairArchived => shop.chairMade
    /\ managers = [a \in Managers |-> managers[a]]
    /\ \A a \in Managers :
         /\ managers[a].pc = "counted" => managers[a].part \in AllParts /\ Existing(shop, managers[a].part)
         /\ managers[a].pc = "checked" => managers[a].form \in Forms
KnownMissed(part) == (ArchivedIn(shop, part) \/ part \in BeingArchived) => part \in upcoming.missed
CatalogueInv ==
    /\ ShopFine
    /\ upcoming.booked => \A part \in PartsOf(upcoming.branch, upcoming.chair) : KnownMissed(part)

LEMMA PartsAre ==
  ASSUME NEW part \in AllParts
  PROVE  \/ part = <<"staff">> /\ part[1] = "staff"
         \/ part = <<"service">> /\ part[1] = "service"
         \/ part = <<"chair">> /\ part[1] = "chair"
         \/ \E b \in Branches : part = <<"branch", b>> /\ part[1] = "branch" /\ part[2] = b
BY DEF AllParts

LEMMA PartsOfAre ==
  ASSUME NEW branch \in Branches, NEW chair \in BOOLEAN
  PROVE  PartsOf(branch, chair) \subseteq AllParts
BY DEF PartsOf, AllParts

LEMMA ArchivedIs ==
  ASSUME NEW part \in AllParts
  PROVE  IsArchived(part) <=> ArchivedIn(shop, part)
<1>1. CASE part[1] = "staff"
  BY <1>1 DEF IsArchived, ArchivedIn
<1>2. CASE part[1] = "service"
  BY <1>2 DEF IsArchived, ArchivedIn
<1>3. CASE part[1] = "chair"
  BY <1>3 DEF IsArchived, ArchivedIn
<1>4. CASE part[1] = "branch"
  BY <1>4 DEF IsArchived, ArchivedIn
<1> QED
  BY <1>1, <1>2, <1>3, <1>4, PartsAre

LEMMA ExistingIs ==
  ASSUME ShopFine, NEW part \in AllParts
  PROVE  /\ part \in Parts => Existing(shop, part)
         /\ ArchivedIn(shop, part) => part \in Parts
<1>1. part \in Parts => Existing(shop, part)
  BY PartsAre DEF Parts, Existing
<1>2. ArchivedIn(shop, part) => part \in Parts
  BY PartsAre DEF Parts, ArchivedIn, ShopFine
<1> QED
  BY <1>1, <1>2

(* An archiving or a restoring changes that part alone. *)
LEMMA ArchivingIs ==
  ASSUME shop \in ShopRow, NEW part \in AllParts, NEW x \in BOOLEAN, NEW s, s = WithArchived(part, x), Existing(shop, part)
  PROVE  /\ s \in ShopRow /\ s.chairMade = shop.chairMade /\ s.requests = shop.requests
         /\ ArchivedIn(s, part) <=> x
         /\ \A p \in AllParts : /\ p # part => (ArchivedIn(s, p) <=> ArchivedIn(shop, p))
                                /\ Existing(shop, p) => Existing(s, p)
         /\ s.chairArchived => shop.chairArchived \/ part = <<"chair">>
<1>1. CASE part[1] = "staff"
  <2>1. s = [shop EXCEPT !.staffArchived = x] /\ part = <<"staff">>
    BY <1>1, PartsAre DEF WithArchived
  <2>2. /\ s \in ShopRow /\ s.staffArchived = x /\ s.branch = shop.branch /\ s.serviceArchived = shop.serviceArchived
        /\ s.chairArchived = shop.chairArchived /\ s.chairMade = shop.chairMade /\ s.requests = shop.requests
    BY <2>1 DEF ShopRow
  <2> QED
    BY <1>1, <2>1, <2>2, PartsAre DEF ArchivedIn, Existing
<1>2. CASE part[1] = "service"
  <2>1. s = [shop EXCEPT !.serviceArchived = x] /\ part = <<"service">>
    BY <1>2, PartsAre DEF WithArchived
  <2>2. /\ s \in ShopRow /\ s.serviceArchived = x /\ s.branch = shop.branch /\ s.staffArchived = shop.staffArchived
        /\ s.chairArchived = shop.chairArchived /\ s.chairMade = shop.chairMade /\ s.requests = shop.requests
    BY <2>1 DEF ShopRow
  <2> QED
    BY <1>2, <2>1, <2>2, PartsAre DEF ArchivedIn, Existing
<1>3. CASE part[1] = "chair"
  <2>1. s = [shop EXCEPT !.chairArchived = x] /\ part = <<"chair">>
    BY <1>3, PartsAre DEF WithArchived
  <2>2. /\ s \in ShopRow /\ s.chairArchived = x /\ s.branch = shop.branch /\ s.staffArchived = shop.staffArchived
        /\ s.serviceArchived = shop.serviceArchived /\ s.chairMade = shop.chairMade /\ s.requests = shop.requests
    BY <2>1 DEF ShopRow
  <2> QED
    BY <1>3, <2>1, <2>2, PartsAre DEF ArchivedIn, Existing
<1>4. CASE part[1] = "branch"
  <2>1. PICK b \in Branches : part = <<"branch", b>> /\ part[2] = b
    BY <1>4, PartsAre
  <2>2. PICK state \in {"active", "archived"} : state = (IF x THEN "archived" ELSE "active")
    OBVIOUS
  <2>3. s = [shop EXCEPT !.branch[b] = state]
    BY <1>4, <2>1, <2>2 DEF WithArchived
  <2>4. PICK rows : rows = [shop.branch EXCEPT ![b] = state]
    OBVIOUS
  <2>5. s = [shop EXCEPT !.branch = rows]
    BY <2>3, <2>4 DEF ShopRow
  <2>6. rows \in [Branches -> {"none", "active", "archived"}] /\ \A c \in Branches : rows[c] = IF c = b THEN state ELSE shop.branch[c]
    BY <2>4 DEF ShopRow
  <2>7. /\ s \in ShopRow /\ s.branch = rows /\ s.staffArchived = shop.staffArchived /\ s.chairArchived = shop.chairArchived
        /\ s.serviceArchived = shop.serviceArchived /\ s.chairMade = shop.chairMade /\ s.requests = shop.requests
    BY <2>5, <2>6 DEF ShopRow
  <2>8. ArchivedIn(s, part) <=> x
    BY <1>4, <2>1, <2>2, <2>6, <2>7 DEF ArchivedIn
  <2>9. ASSUME NEW p \in AllParts
        PROVE  /\ p # part => (ArchivedIn(s, p) <=> ArchivedIn(shop, p))
               /\ Existing(shop, p) => Existing(s, p)
    <3>1. CASE p[1] = "branch"
      <4>1. PICK c \in Branches : p = <<"branch", c>> /\ p[2] = c
        BY <3>1, PartsAre
      <4>2. s.branch[c] = IF c = b THEN state ELSE shop.branch[c]
        BY <2>6, <2>7
      <4> QED
        BY <2>1, <2>2, <3>1, <4>1, <4>2 DEF ArchivedIn, Existing
    <3>2. CASE p[1] # "branch"
      BY <2>7, <3>2 DEF ArchivedIn, Existing
    <3> QED
      BY <3>1, <3>2
  <2> QED
    BY <2>7, <2>8, <2>9
<1> QED
  BY <1>1, <1>2, <1>3, <1>4, PartsAre

(* What an owner's request does with its own desk *)
ManagerStep(a, m) ==
    /\ managers' = [managers EXCEPT ![a] = m]
    /\ m.pc = "counted" => m.part \in AllParts /\ Existing(shop', m.part)
    /\ m.pc = "checked" => m.form \in Forms

LEMMA ManagersAre ==
  ASSUME ShopFine, NEW a \in Managers, NEW m, ManagerStep(a, m),
         \A p \in AllParts : Existing(shop, p) => Existing(shop', p)
  PROVE  /\ managers' = [b \in Managers |-> managers'[b]]
         /\ \A b \in Managers :
              /\ managers'[b].pc = "counted" => managers'[b].part \in AllParts /\ Existing(shop', managers'[b].part)
              /\ managers'[b].pc = "checked" => managers'[b].form \in Forms
         /\ \A p : p \in BeingArchived' => p \in BeingArchived \/ (m.pc = "counted" /\ p = m.part)
<1>1. \A b \in Managers : managers'[b] = IF b = a THEN m ELSE managers[b]
  BY DEF ShopFine, ManagerStep
<1>2. managers' = [b \in Managers |-> managers'[b]]
  BY DEF ShopFine, ManagerStep
<1>3. ASSUME NEW b \in Managers
      PROVE  /\ managers'[b].pc = "counted" => managers'[b].part \in AllParts /\ Existing(shop', managers'[b].part)
             /\ managers'[b].pc = "checked" => managers'[b].form \in Forms
  <2>1. CASE b = a
    BY <1>1, <2>1 DEF ManagerStep
  <2>2. CASE b # a
    <3>1. managers'[b] = managers[b]
      BY <1>1, <2>2
    <3>2. PICK p : p = managers[b].part
      OBVIOUS
    <3>3. managers[b].pc = "counted" => p \in AllParts /\ Existing(shop, p)
      BY <3>2 DEF ShopFine
    <3>4. managers[b].pc = "checked" => managers[b].form \in Forms
      BY DEF ShopFine
    <3>5. managers[b].pc = "counted" => p \in AllParts /\ Existing(shop', p)
      BY <3>3
    <3> QED
      BY <3>1, <3>2, <3>4, <3>5
  <2> QED
    BY <2>1, <2>2
<1>4. \A p : p \in BeingArchived' => p \in BeingArchived \/ (m.pc = "counted" /\ p = m.part)
  BY <1>1 DEF BeingArchived
<1> QED
  BY <1>2, <1>3, <1>4

(* A step of the settings that archives nothing the visit is made of, or    *)
(* only what was counted before the visit was reserved *)
SettingsStep(a, m) ==
    /\ ManagerStep(a, m) /\ shop' \in ShopRow /\ UNCHANGED customer
    /\ shop'.chairArchived => shop'.chairMade
    /\ \A p \in AllParts : Existing(shop, p) => Existing(shop', p)
    /\ \A p \in AllParts :
         ArchivedIn(shop', p) => ArchivedIn(shop, p) \/ (managers[a].pc = "counted" /\ managers[a].part = p)
    /\ upcoming' \in VisitRow
    /\ upcoming'.booked = upcoming.booked /\ upcoming'.branch = upcoming.branch /\ upcoming'.chair = upcoming.chair
    /\ \A p \in upcoming.missed : p \in upcoming'.missed \/ ~(ArchivedIn(shop', p) \/ p \in BeingArchived')
    /\ m.pc = "counted" /\ upcoming.booked => m.part \notin PartsOf(upcoming.branch, upcoming.chair)

LEMMA SettingsKeep ==
  ASSUME CatalogueInv, NEW a \in Managers, NEW m, SettingsStep(a, m)
  PROVE  CatalogueInv'
<1>0. /\ ShopFine /\ ManagerStep(a, m) /\ \A p \in AllParts : Existing(shop, p) => Existing(shop', p)
  BY DEF CatalogueInv, SettingsStep
<1>1. /\ managers' = [b \in Managers |-> managers'[b]]
      /\ \A b \in Managers :
           /\ managers'[b].pc = "counted" => managers'[b].part \in AllParts /\ Existing(shop', managers'[b].part)
           /\ managers'[b].pc = "checked" => managers'[b].form \in Forms
      /\ \A p : p \in BeingArchived' => p \in BeingArchived \/ (m.pc = "counted" /\ p = m.part)
  BY <1>0, ManagersAre
<1>2. ShopFine'
  BY <1>0, <1>1 DEF ShopFine, SettingsStep
<1>3. ASSUME upcoming.booked, NEW p \in PartsOf(upcoming.branch, upcoming.chair)
      PROVE  KnownMissed(p)'
  <2>1. p \in AllParts
    BY <1>0, <1>3, PartsOfAre DEF ShopFine, VisitRow
  <2>2. KnownMissed(p)
    BY <1>3 DEF CatalogueInv
  <2>3. SUFFICES ASSUME ArchivedIn(shop', p) \/ p \in BeingArchived'
                 PROVE  p \in upcoming'.missed
    BY DEF KnownMissed
  <2>4. managers[a].pc = "counted" /\ managers[a].part = p => p \in BeingArchived
    BY DEF BeingArchived
  <2>5. ArchivedIn(shop, p) \/ p \in BeingArchived
    BY <1>1, <1>3, <2>1, <2>3, <2>4 DEF SettingsStep
  <2> QED
    BY <2>2, <2>3, <2>5 DEF KnownMissed, SettingsStep
<1>4. upcoming'.booked = upcoming.booked /\ upcoming'.branch = upcoming.branch /\ upcoming'.chair = upcoming.chair
  BY DEF SettingsStep
<1>5. PartsOf(upcoming.branch, upcoming.chair)' = PartsOf(upcoming.branch, upcoming.chair)
  BY <1>4 DEF PartsOf
<1> QED
  BY <1>2, <1>3, <1>4, <1>5 DEF CatalogueInv

LEMMA CountedVisits ==
  ASSUME CatalogueInv, NEW a \in Managers, NEW part \in Parts, CountVisits(a, part)
  PROVE  CatalogueInv'
<1>0. ShopFine /\ shop \in ShopRow /\ upcoming \in VisitRow /\ part \in AllParts
  BY DEF CatalogueInv, ShopFine, Parts, AllParts
<1>1. PICK m : m = [pc |-> "counted", part |-> part]
  OBVIOUS
<1>2. shop' = [shop EXCEPT !.requests = @ + 1] /\ shop.requests < MaxRequests /\ UNCHANGED <<upcoming, customer>>
  BY DEF CountVisits, Request
<1>3. /\ shop' \in ShopRow /\ shop'.branch = shop.branch /\ shop'.staffArchived = shop.staffArchived
      /\ shop'.serviceArchived = shop.serviceArchived /\ shop'.chairArchived = shop.chairArchived
      /\ shop'.chairMade = shop.chairMade
  BY <1>0, <1>2, CatalogueAssumption DEF ShopRow
<1>4. \A p \in AllParts : (ArchivedIn(shop', p) <=> ArchivedIn(shop, p)) /\ (Existing(shop, p) => Existing(shop', p))
  BY <1>3 DEF ArchivedIn, Existing
<1>5. ManagerStep(a, m)
  BY <1>0, <1>1, <1>4, ExistingIs DEF ManagerStep, CountVisits
<1>6. upcoming.booked => part \notin PartsOf(upcoming.branch, upcoming.chair)
  <2>1. MayArchive(part)
    BY DEF CountVisits
  <2>2. CASE part[1] \in {"staff", "service"}
    BY <2>1, <2>2 DEF MayArchive, StaffIsBooked, ServiceIsBooked
  <2>3. CASE part[1] = "chair"
    BY <2>1, <2>3, <1>0, PartsAre DEF MayArchive, ResourceIsBooked, PartsOf
  <2>4. CASE part[1] = "branch"
    BY <2>1, <2>4, <1>0, PartsAre DEF MayArchive, BranchIsBooked, PartsOf
  <2> QED
    BY <1>0, <2>2, <2>3, <2>4, PartsAre
<1>7. SettingsStep(a, m)
  BY <1>0, <1>1, <1>2, <1>3, <1>4, <1>5, <1>6 DEF SettingsStep, CatalogueInv, ShopFine
<1> QED
  BY <1>7, SettingsKeep

LEMMA ArchivedWritten ==
  ASSUME CatalogueInv, NEW a \in Managers, WriteArchived(a)
  PROVE  CatalogueInv'
<1>0. ShopFine /\ shop \in ShopRow /\ upcoming \in VisitRow
  BY DEF CatalogueInv, ShopFine
<1>1. PICK part \in AllParts : part = managers[a].part /\ Existing(shop, part)
  BY DEF CatalogueInv, ShopFine, WriteArchived
<1>2. PICK s : s = WithArchived(part, TRUE)
  OBVIOUS
<1>3. shop' = s /\ managers' = [managers EXCEPT ![a] = AtRest] /\ UNCHANGED <<upcoming, customer>> /\ managers[a].pc = "counted"
  BY <1>1, <1>2 DEF WriteArchived
<1>4. PICK x \in BOOLEAN : x = TRUE
  OBVIOUS
<1>5. /\ s \in ShopRow /\ s.chairMade = shop.chairMade /\ s.requests = shop.requests
      /\ ArchivedIn(s, part) <=> x
      /\ \A p \in AllParts : /\ p # part => (ArchivedIn(s, p) <=> ArchivedIn(shop, p))
                             /\ Existing(shop, p) => Existing(s, p)
      /\ s.chairArchived => shop.chairArchived \/ part = <<"chair">>
  BY <1>0, <1>1, <1>2, <1>4, ArchivingIs
<1>6. s.chairArchived => s.chairMade
  BY <1>0, <1>1, <1>5 DEF ShopFine, Existing
<1>7. ManagerStep(a, AtRest)
  BY <1>3 DEF ManagerStep, AtRest
<1>8. AtRest.pc = "rest"
  BY DEF AtRest
<1>9. SettingsStep(a, AtRest)
  BY <1>0, <1>1, <1>3, <1>5, <1>6, <1>7, <1>8 DEF SettingsStep
<1> QED
  BY <1>9, SettingsKeep

LEMMA Restored ==
  ASSUME CatalogueInv, NEW a \in Managers, NEW part \in Parts, Restore(a, part)
  PROVE  CatalogueInv'
<1>0. ShopFine /\ shop \in ShopRow /\ upcoming \in VisitRow /\ part \in AllParts
  BY DEF CatalogueInv, ShopFine, Parts, AllParts
<1>1. Existing(shop, part) /\ managers[a] = AtRest
  BY <1>0, ExistingIs DEF Restore, Request
<1>2. PICK x \in BOOLEAN : x = FALSE
  OBVIOUS
<1>3. PICK s : s = WithArchived(part, x)
  OBVIOUS
<1>4. /\ s \in ShopRow /\ s.chairMade = shop.chairMade /\ s.requests = shop.requests
      /\ ArchivedIn(s, part) <=> x
      /\ \A p \in AllParts : /\ p # part => (ArchivedIn(s, p) <=> ArchivedIn(shop, p))
                             /\ Existing(shop, p) => Existing(s, p)
      /\ s.chairArchived => shop.chairArchived \/ part = <<"chair">>
  BY <1>0, <1>1, <1>3, ArchivingIs
<1>5. shop' = [s EXCEPT !.requests = @ + 1] /\ shop.requests < MaxRequests
  BY <1>2, <1>3 DEF Restore, Request
<1>6. /\ shop' \in ShopRow /\ shop'.branch = s.branch /\ shop'.staffArchived = s.staffArchived
      /\ shop'.serviceArchived = s.serviceArchived /\ shop'.chairArchived = s.chairArchived
      /\ shop'.chairMade = s.chairMade
  BY <1>4, <1>5, CatalogueAssumption DEF ShopRow
<1>7. \A p \in AllParts : (ArchivedIn(shop', p) <=> ArchivedIn(s, p)) /\ (Existing(shop, p) => Existing(shop', p))
  BY <1>4, <1>6 DEF ArchivedIn, Existing
<1>8. shop'.chairArchived => shop'.chairMade
  BY <1>0, <1>1, <1>4, <1>6 DEF ShopFine, Existing
<1>9. PICK missed : missed = upcoming.missed \ ({part} \ BeingArchived)
  OBVIOUS
<1>10. upcoming' = [upcoming EXCEPT !.missed = missed] /\ UNCHANGED <<managers, customer>>
  BY <1>9 DEF Restore
<1>11. /\ upcoming' \in VisitRow /\ upcoming'.missed = missed /\ upcoming'.booked = upcoming.booked
       /\ upcoming'.branch = upcoming.branch /\ upcoming'.chair = upcoming.chair
  BY <1>0, <1>9, <1>10 DEF VisitRow
<1>12. ManagerStep(a, AtRest)
  BY <1>0, <1>1, <1>10 DEF ManagerStep, AtRest, ShopFine
<1>13. BeingArchived' = BeingArchived
  BY <1>10 DEF BeingArchived
<1>14. \A p \in upcoming.missed : p \in missed \/ ~(ArchivedIn(shop', p) \/ p \in BeingArchived')
  BY <1>0, <1>2, <1>4, <1>7, <1>9, <1>13
<1>15. \A p \in AllParts : ArchivedIn(shop', p) => ArchivedIn(shop, p)
  BY <1>2, <1>4, <1>7
<1>16. AtRest.pc = "rest"
  BY DEF AtRest
<1>17. SettingsStep(a, AtRest)
  BY <1>6, <1>7, <1>8, <1>10, <1>11, <1>12, <1>14, <1>15, <1>16 DEF SettingsStep
<1> QED
  BY <1>17, SettingsKeep

(* Steps that leave archivedAt alone everywhere *)
LEMMA NothingArchived ==
  ASSUME CatalogueInv, NEW a \in Managers, NEW m, ManagerStep(a, m), m.pc # "counted",
         shop' \in ShopRow, UNCHANGED <<upcoming, customer>>,
         shop.chairMade => shop'.chairMade, shop'.staffArchived = shop.staffArchived,
         shop'.serviceArchived = shop.serviceArchived, shop'.chairArchived = shop.chairArchived,
         \A b \in Branches : \/ shop'.branch[b] = shop.branch[b]
                             \/ shop'.branch[b] = "active"
  PROVE  CatalogueInv'
<1>1. ASSUME NEW p \in AllParts
      PROVE  (Existing(shop, p) => Existing(shop', p)) /\ (ArchivedIn(shop', p) => ArchivedIn(shop, p))
  <2>1. CASE p[1] = "branch"
    <3>1. p[2] \in Branches
      BY <2>1, PartsAre
    <3> QED
      BY <2>1, <3>1 DEF Existing, ArchivedIn
  <2>2. CASE p[1] # "branch"
    BY <2>2 DEF Existing, ArchivedIn
  <2> QED
    BY <2>1, <2>2
<1>2. shop'.chairArchived => shop'.chairMade
  BY DEF CatalogueInv, ShopFine
<1>3. SettingsStep(a, m)
  BY <1>1, <1>2 DEF SettingsStep, CatalogueInv, ShopFine
<1> QED
  BY <1>3, SettingsKeep

LEMMA BranchMade ==
  ASSUME CatalogueInv, NEW a \in Managers, NEW b \in Branches, CreateBranch(a, b)
  PROVE  CatalogueInv'
<1>0. ShopFine /\ shop \in ShopRow
  BY DEF CatalogueInv, ShopFine
<1>1. managers[a] = AtRest /\ shop.requests < MaxRequests /\ UNCHANGED <<managers, upcoming, customer>>
  BY DEF CreateBranch, Request
<1>2. PICK rows : rows = [shop.branch EXCEPT ![b] = "active"]
  OBVIOUS
<1>3. shop' = [shop EXCEPT !.branch = rows, !.requests = @ + 1]
  BY <1>0, <1>2 DEF CreateBranch, ShopRow
<1>4. rows \in [Branches -> {"none", "active", "archived"}] /\ \A c \in Branches : rows[c] = IF c = b THEN "active" ELSE shop.branch[c]
  BY <1>0, <1>2 DEF ShopRow
<1>5. /\ shop' \in ShopRow /\ shop'.branch = rows /\ shop'.staffArchived = shop.staffArchived
      /\ shop'.serviceArchived = shop.serviceArchived /\ shop'.chairArchived = shop.chairArchived
      /\ shop'.chairMade = shop.chairMade
  <2>1. PICK n \in 0 .. MaxRequests : n = shop.requests + 1
    BY <1>0, <1>1, CatalogueAssumption DEF ShopRow
  <2>2. shop' = [shop EXCEPT !.branch = rows, !.requests = n]
    BY <1>3, <2>1
  <2> QED
    BY <1>0, <1>4, <2>2 DEF ShopRow
<1>6. ManagerStep(a, AtRest) /\ AtRest.pc = "rest"
  BY <1>0, <1>1 DEF ManagerStep, AtRest, ShopFine
<1> QED
  BY <1>1, <1>4, <1>5, <1>6, NothingArchived

LEMMA FormChecked ==
  ASSUME CatalogueInv, NEW a \in Managers, NEW form \in Forms, CheckForm(a, form)
  PROVE  CatalogueInv'
<1>0. ShopFine /\ shop \in ShopRow
  BY DEF CatalogueInv, ShopFine
<1>1. PICK m : m = [pc |-> "checked", form |-> form]
  OBVIOUS
<1>2. shop' = [shop EXCEPT !.requests = @ + 1] /\ shop.requests < MaxRequests /\ UNCHANGED <<upcoming, customer>>
  BY DEF CheckForm, Request
<1>3. /\ shop' \in ShopRow /\ shop'.branch = shop.branch /\ shop'.staffArchived = shop.staffArchived
      /\ shop'.serviceArchived = shop.serviceArchived /\ shop'.chairArchived = shop.chairArchived
      /\ shop'.chairMade = shop.chairMade
  BY <1>0, <1>2, CatalogueAssumption DEF ShopRow
<1>4. ManagerStep(a, m) /\ m.pc # "counted"
  BY <1>1 DEF ManagerStep, CheckForm
<1> QED
  BY <1>2, <1>3, <1>4, NothingArchived

LEMMA FormWritten ==
  ASSUME CatalogueInv, NEW a \in Managers, WriteForm(a)
  PROVE  CatalogueInv'
<1>0. ShopFine /\ shop \in ShopRow
  BY DEF CatalogueInv, ShopFine
<1>1. PICK form \in Forms : form = managers[a].form
  BY <1>0 DEF WriteForm, ShopFine
<1>2. shop' = [field \in DOMAIN shop |-> IF field \in DOMAIN form THEN form[field] ELSE shop[field]]
  BY <1>1 DEF WriteForm
<1>3. DOMAIN shop = {"branch", "staffArchived", "staffIn", "performs", "serviceArchived", "serviceAt", "needs",
                     "chairMade", "chairArchived", "chairAt", "chairAvailable", "requests"}
  BY <1>0 DEF ShopRow
<1>4. /\ shop' \in ShopRow /\ shop'.branch = shop.branch /\ shop'.staffArchived = shop.staffArchived
      /\ shop'.serviceArchived = shop.serviceArchived /\ shop'.chairArchived = shop.chairArchived
      /\ shop.chairMade => shop'.chairMade
  <2>1. CASE form \in StaffForms
    <3>1. DOMAIN form = {"staffIn", "performs"} /\ form.staffIn \in SUBSET Branches /\ form.performs \in BOOLEAN
      BY <2>1 DEF StaffForms
    <3>2. shop' = [shop EXCEPT !.staffIn = form.staffIn, !.performs = form.performs]
      BY <1>0, <1>2, <1>3, <3>1 DEF ShopRow
    <3> QED
      BY <1>0, <3>1, <3>2 DEF ShopRow
  <2>2. CASE form \in ServiceForms
    <3>1. /\ DOMAIN form = {"serviceAt", "performs", "needs"}
          /\ form.serviceAt \in Branches /\ form.performs \in BOOLEAN /\ form.needs \in BOOLEAN
      BY <2>2 DEF ServiceForms
    <3>2. shop' = [shop EXCEPT !.serviceAt = form.serviceAt, !.performs = form.performs, !.needs = form.needs]
      BY <1>0, <1>2, <1>3, <3>1 DEF ShopRow
    <3> QED
      BY <1>0, <3>1, <3>2 DEF ShopRow
  <2>3. CASE form \in ResourceForms
    <3>1. /\ DOMAIN form = {"chairAt", "chairAvailable", "needs", "chairMade"}
          /\ form.chairAt \in Branches /\ form.chairAvailable \in BOOLEAN /\ form.needs \in BOOLEAN /\ form.chairMade = TRUE
      BY <2>3 DEF ResourceForms
    <3>2. shop' = [shop EXCEPT !.chairAt = form.chairAt, !.chairAvailable = form.chairAvailable,
                               !.needs = form.needs, !.chairMade = form.chairMade]
      BY <1>0, <1>2, <1>3, <3>1 DEF ShopRow
    <3> QED
      BY <1>0, <3>1, <3>2 DEF ShopRow
  <2> QED
    BY <2>1, <2>2, <2>3 DEF Forms
<1>5. ManagerStep(a, AtRest) /\ AtRest.pc = "rest"
  BY DEF ManagerStep, AtRest, WriteForm
<1>6. UNCHANGED <<upcoming, customer>>
  BY DEF WriteForm
<1> QED
  BY <1>4, <1>5, <1>6, NothingArchived

LEMMA ReservationKeeps ==
  ASSUME CatalogueInv, Reserve
  PROVE  CatalogueInv'
<1>0. /\ ShopFine /\ shop \in ShopRow /\ upcoming \in VisitRow /\ UNCHANGED <<shop, managers>> /\ customer' = AtRest
      /\ customer \in FoundRow
  BY DEF CatalogueInv, ShopFine, Reserve
<1>1. BeingArchived' = BeingArchived
  BY <1>0 DEF BeingArchived
<1>2. CASE UNCHANGED upcoming
  <2>1. ShopFine'
    BY <1>0, <1>2 DEF ShopFine
  <2> QED
    BY <1>0, <1>1, <1>2, <2>1 DEF CatalogueInv, KnownMissed, PartsOf
<1>3. ASSUME BelongsToBranch(customer),
             upcoming' = [booked |-> TRUE, branch |-> customer.branch, chair |-> customer.chair,
                          missed |-> BeingArchived \cup ArchivedUnseen]
      PROVE  CatalogueInv'
  <2>1. BeingArchived \subseteq AllParts
    BY <1>0 DEF BeingArchived, ShopFine
  <2>2. Parts \subseteq AllParts
    BY DEF Parts, AllParts
  <2>3. PICK missed : missed = BeingArchived \cup ArchivedUnseen
    OBVIOUS
  <2>4. missed \in SUBSET AllParts
    BY <2>1, <2>2, <2>3 DEF ArchivedUnseen
  <2>5. /\ upcoming' \in VisitRow /\ upcoming'.branch = customer.branch /\ upcoming'.chair = customer.chair
        /\ upcoming'.missed = missed /\ customer.branch \in Branches /\ customer.chair \in BOOLEAN
    BY <1>0, <1>3, <2>3, <2>4 DEF VisitRow, FoundRow
  <2>6. ShopFine'
    BY <1>0, <2>5 DEF ShopFine
  <2>7. ASSUME NEW p \in PartsOf(customer.branch, customer.chair)
        PROVE  KnownMissed(p)'
    <3>1. p \in AllParts
      BY <2>5, PartsOfAre
    <3>2. SUFFICES ASSUME ArchivedIn(shop, p) \/ p \in BeingArchived
                   PROVE  p \in missed
      BY <1>0, <1>1, <2>5 DEF KnownMissed
    <3>3. CASE p \in BeingArchived
      BY <2>3, <3>3
    <3>4. CASE ArchivedIn(shop, p)
      <4>1. p # <<"staff">>
        <5>1. ~shop.staffArchived
          BY <1>3 DEF BelongsToBranch
        <5> QED
          BY <3>4, <5>1 DEF ArchivedIn
      <4>2. p \in Parts /\ IsArchived(p)
        BY <1>0, <3>1, <3>4, ExistingIs, ArchivedIs
      <4> QED
        BY <2>3, <4>1, <4>2 DEF ArchivedUnseen
    <3> QED
      BY <3>2, <3>3, <3>4
  <2>8. PartsOf(upcoming.branch, upcoming.chair)' = PartsOf(customer.branch, customer.chair)
    BY <2>5 DEF PartsOf
  <2> QED
    BY <2>6, <2>7, <2>8 DEF CatalogueInv
<1> QED
  BY <1>2, <1>3 DEF Reserve

LEMMA CatalogueInvStays ==
  ASSUME CatalogueInv, [CatalogueNext]_catalogueVars
  PROVE  CatalogueInv'
<1>0. ShopFine /\ shop \in ShopRow
  BY DEF CatalogueInv, ShopFine
<1>1. ASSUME UNCHANGED <<shop, managers>>, upcoming' \in VisitRow, customer' \in {AtRest} \cup FoundRow,
             upcoming' = upcoming \/ ~upcoming'.booked
      PROVE  CatalogueInv'
  <2>1. ShopFine'
    BY <1>0, <1>1 DEF ShopFine
  <2>2. BeingArchived' = BeingArchived
    BY <1>1 DEF BeingArchived
  <2>3. CASE upcoming' = upcoming
    BY <1>1, <2>1, <2>2, <2>3 DEF CatalogueInv, KnownMissed, PartsOf
  <2>4. CASE ~upcoming'.booked
    BY <2>1, <2>4 DEF CatalogueInv
  <2> QED
    BY <1>1, <2>3, <2>4
<1>2. CASE UNCHANGED catalogueVars
  BY <1>0, <1>1, <1>2 DEF catalogueVars, ShopFine
<1>3. CASE FindTime
  <2>1. PICK found : found = [pc |-> "found", branch |-> shop.serviceAt, chair |-> shop.needs]
    OBVIOUS
  <2>2. found \in FoundRow
    BY <1>0, <2>1 DEF ShopRow, FoundRow
  <2>3. customer' = found /\ UNCHANGED <<shop, managers, upcoming>>
    BY <1>3, <2>1 DEF FindTime
  <2> QED
    BY <1>0, <1>1, <2>2, <2>3 DEF ShopFine
<1>4. CASE VisitEnds
  <2>1. NothingBooked \in VisitRow /\ ~NothingBooked.booked
    BY CatalogueAssumption DEF NothingBooked, VisitRow
  <2> QED
    BY <1>0, <1>1, <1>4, <2>1 DEF VisitEnds, ShopFine
<1>5. CASE Reserve
  BY <1>5, ReservationKeeps
<1>6. ASSUME NEW a \in Managers, NEW part \in Parts, CountVisits(a, part) \/ Restore(a, part)
      PROVE  CatalogueInv'
  BY <1>6, CountedVisits, Restored
<1>7. ASSUME NEW a \in Managers, NEW b \in Branches, CreateBranch(a, b)
      PROVE  CatalogueInv'
  BY <1>7, BranchMade
<1>8. ASSUME NEW a \in Managers, WriteArchived(a) \/ WriteForm(a)
      PROVE  CatalogueInv'
  BY <1>8, ArchivedWritten, FormWritten
<1>9. ASSUME NEW a \in Managers, SaveStaffForm(a) \/ SaveServiceForm(a) \/ SaveResourceForm(a)
      PROVE  CatalogueInv'
  <2>1. PICK form \in Forms : CheckForm(a, form)
    BY <1>9 DEF SaveStaffForm, SaveServiceForm, SaveResourceForm, Forms
  <2> QED
    BY <2>1, FormChecked
<1> QED
  BY <1>2, <1>3, <1>4, <1>5, <1>6, <1>7, <1>8, <1>9, ZenonT(60) DEF CatalogueNext

LEMMA CatalogueInvStarts == CatalogueInit => CatalogueInv
<1> SUFFICES ASSUME CatalogueInit
             PROVE  CatalogueInv
  OBVIOUS
<1>1. shop \in ShopRow /\ shop.chairArchived = FALSE
  BY CatalogueAssumption DEF CatalogueInit, ShopRow
<1>2. upcoming \in VisitRow /\ ~upcoming.booked /\ customer = AtRest
  BY CatalogueAssumption DEF CatalogueInit, NothingBooked, VisitRow
<1>3. managers = [a \in Managers |-> AtRest] /\ AtRest.pc = "rest"
  BY DEF CatalogueInit, AtRest
<1>4. managers = [a \in Managers |-> managers[a]] /\ \A a \in Managers : managers[a].pc = "rest"
  BY <1>3
<1> QED
  BY <1>1, <1>2, <1>4 DEF CatalogueInv, ShopFine

(* Whatever branches a salon has and however many owners edit it while a    *)
(* customer books: archiving in core/business-settings and the reservation  *)
(* of booking-allocation leave no visit of something archived, except what  *)
(* was being archived, or was archived unseen, when it was reserved.        *)
THEOREM ArchivingRespectsVisits == CatalogueSpec => []ArchivedIsFree
<1>1. CatalogueInv => ArchivedIsFree
  <2> SUFFICES ASSUME CatalogueInv, upcoming.booked, NEW p \in PartsOf(upcoming.branch, upcoming.chair), IsArchived(p)
               PROVE  p \in upcoming.missed
    BY DEF ArchivedIsFree
  <2>1. p \in AllParts
    BY PartsOfAre DEF CatalogueInv, ShopFine, VisitRow
  <2>2. ArchivedIn(shop, p) /\ KnownMissed(p)
    BY <2>1, ArchivedIs DEF CatalogueInv
  <2> QED
    BY <2>2 DEF KnownMissed
<1> QED
  BY <1>1, CatalogueInvStarts, CatalogueInvStays, PTL DEF CatalogueSpec

---------------------------------------------------------------------------
(***************************************************************************)
(* DayPicture.  The folds of the picture are proved step by step along the  *)
(* day: what holds after no visit and passes from each visit to the next    *)
(* holds after the last (UpTo).                                             *)
(***************************************************************************)


LEMMA LeastOf ==
    ASSUME NEW T, T \subseteq Nat, T # {}
    PROVE  \E x \in T : \A y \in T : x <= y
<1>1. PICK x \in T : \A y \in T : ~(<<y, x>> \in OpToRel(<, Nat))
  BY NatLessThanWellFounded, WFMin
<1>2. \A y \in T : ~(y < x)
  BY <1>1 DEF OpToRel
<1> QED
  BY <1>2

(* What holds at 0 and passes from each number to the next holds up to N.  *)
LEMMA UpTo ==
    ASSUME NEW N \in Nat, NEW S, 0 \in S, \A n \in 1 .. N : n - 1 \in S => n \in S
    PROVE  \A n \in 0 .. N : n \in S
<1> DEFINE T == {n \in 0 .. N : n \notin S}
<1> SUFFICES ASSUME T # {} PROVE FALSE
  OBVIOUS
<1>1. PICK x \in T : \A y \in T : x <= y
  <2>1. T \subseteq Nat
    OBVIOUS
  <2> QED
    BY <2>1, LeastOf
<1>2. x \in 1 .. N /\ x \notin S
  OBVIOUS
<1>3. x - 1 \in T
  BY <1>2
<1> QED
  BY <1>1, <1>2, <1>3

LEMMA DivBounds ==
    ASSUME NEW x \in Int, NEW h \in Nat \ {0}
    PROVE  /\ x \div h \in Int
           /\ (x \div h) * h <= x /\ x < (x \div h) * h + h
  OBVIOUS

LEMMA GreatestOf ==
    ASSUME NEW S, IsFiniteSet(S), NEW R,
           \A x, y \in S : <<x, y>> \in R \/ <<y, x>> \in R,
           \A x, y, z \in S : <<x, y>> \in R /\ <<y, z>> \in R => <<x, z>> \in R
    PROVE  \A T \in SUBSET S : T # {} => \E g \in T : \A x \in T : <<x, g>> \in R
<1> DEFINE H == {n \in Nat : \A T \in SUBSET S : Cardinality(T) = n /\ T # {} =>
                                                \E g \in T : \A x \in T : <<x, g>> \in R}
<1>1. \A T \in SUBSET S : IsFiniteSet(T) /\ Cardinality(T) \in Nat
  BY FS_Subset, FS_CardinalityType
<1>2. 0 \in H
  BY <1>1, FS_EmptySet
<1>3. ASSUME NEW n \in Nat \ {0}, n - 1 \in H PROVE n \in H
  <2> SUFFICES ASSUME NEW T \in SUBSET S, Cardinality(T) = n, T # {}
               PROVE  \E g \in T : \A x \in T : <<x, g>> \in R
    OBVIOUS
  <2>1. PICK x \in T : TRUE
    OBVIOUS
  <2>2. Cardinality(T \ {x}) = n - 1 /\ T \ {x} \in SUBSET S
    BY <1>1, <2>1, FS_RemoveElement
  <2>3. CASE T \ {x} = {}
    BY <2>1, <2>3
  <2>4. CASE T \ {x} # {}
    <3>1. PICK g \in T \ {x} : \A y \in T \ {x} : <<y, g>> \in R
      BY <1>3, <2>2, <2>4
    <3>2. CASE <<x, g>> \in R
      BY <3>1, <3>2
    <3>3. CASE <<g, x>> \in R
      BY <3>1, <3>3, <2>1
    <3> QED
      BY <2>1, <3>1, <3>2, <3>3
  <2> QED
    BY <2>3, <2>4
<1> HIDE DEF H
<1>4. \A n \in Nat : n \in H
  <2> TAKE n \in Nat
  <2>1. \A k \in 1 .. n : k - 1 \in H => k \in H
    BY <1>3
  <2> QED
    BY <1>2, <2>1, UpTo
<1> QED
  BY <1>1, <1>4 DEF H

(* A finite set can be listed in any total order. *)
LEMMA Sorting ==
    ASSUME NEW S, IsFiniteSet(S), NEW R,
           \A x, y \in S : <<x, y>> \in R \/ <<y, x>> \in R,
           \A x, y, z \in S : <<x, y>> \in R /\ <<y, z>> \in R => <<x, z>> \in R
    PROVE  \E line \in [1 .. Cardinality(S) -> S] :
              \A m, n \in 1 .. Cardinality(S) : m < n => line[m] # line[n] /\ <<line[m], line[n]>> \in R
<1> DEFINE Listed(T) == \E line \in [1 .. Cardinality(T) -> T] :
              \A m, n \in 1 .. Cardinality(T) : m < n => line[m] # line[n] /\ <<line[m], line[n]>> \in R
           H == {n \in Nat : \A T \in SUBSET S : Cardinality(T) = n => Listed(T)}
<1>1. \A T \in SUBSET S : IsFiniteSet(T) /\ Cardinality(T) \in Nat
  BY FS_Subset, FS_CardinalityType
<1>2. 0 \in H
  <2> SUFFICES ASSUME NEW T \in SUBSET S, Cardinality(T) = 0 PROVE Listed(T)
    OBVIOUS
  <2>1. T = {}
    BY <1>1, FS_EmptySet
  <2>2. 1 .. Cardinality(T) = {}
    OBVIOUS
  <2>3. [m \in {} |-> m] \in [{} -> T]
    OBVIOUS
  <2> QED
    BY <2>2, <2>3
<1>3. ASSUME NEW k \in Nat \ {0}, k - 1 \in H PROVE k \in H
  <2> SUFFICES ASSUME NEW T \in SUBSET S, Cardinality(T) = k PROVE Listed(T)
    OBVIOUS
  <2>1. T # {}
    BY FS_EmptySet
  <2>2. PICK g \in T : \A x \in T : <<x, g>> \in R
    BY <2>1, GreatestOf
  <2>3. Cardinality(T \ {g}) = k - 1 /\ T \ {g} \in SUBSET S
    BY <1>1, <2>2, FS_RemoveElement
  <2>4. Listed(T \ {g})
    BY <1>3, <2>3
  <2>5. PICK line \in [1 .. k - 1 -> T \ {g}] :
              \A m, n \in 1 .. k - 1 : m < n => line[m] # line[n] /\ <<line[m], line[n]>> \in R
    BY <2>3, <2>4
  <2> DEFINE longer == [m \in 1 .. k |-> IF m = k THEN g ELSE line[m]]
  <2>6. longer \in [1 .. k -> T]
    BY <2>5
  <2>7. ASSUME NEW m \in 1 .. k, NEW n \in 1 .. k, m < n
        PROVE  longer[m] # longer[n] /\ <<longer[m], longer[n]>> \in R
    <3>1. m \in 1 .. k - 1 /\ longer[m] = line[m] /\ line[m] \in T \ {g}
      BY <2>5, <2>7
    <3>2. CASE n = k
      BY <3>1, <3>2, <2>2
    <3>3. CASE n # k
      BY <3>1, <3>3, <2>5, <2>7
    <3> QED
      BY <3>2, <3>3
  <2> HIDE DEF longer
  <2> QED
    BY <2>6, <2>7
<1> HIDE DEF H
<1>4. Cardinality(S) \in H
  <2>1. \A k \in 1 .. Cardinality(S) : k - 1 \in H => k \in H
    BY <1>3, <1>1
  <2>2. Cardinality(S) \in Nat
    BY FS_CardinalityType
  <2> QED
    BY <1>2, <2>1, <2>2, UpTo
<1> QED
  BY <1>4 DEF H

LEMMA ListsAll ==
    ASSUME NEW S, IsFiniteSet(S), NEW line \in [1 .. Cardinality(S) -> S],
           \A m, n \in 1 .. Cardinality(S) : m < n => line[m] # line[n]
    PROVE  \A x \in S : \E n \in 1 .. Cardinality(S) : line[n] = x
<1> DEFINE N == Cardinality(S)
<1>1. N \in Nat
  BY FS_CardinalityType
<1>2. IsFiniteSet(1 .. N) /\ Cardinality(1 .. N) = N
  BY <1>1, FS_Interval
<1>3. \A m, n \in 1 .. N : m # n => line[m] # line[n]
  BY <1>1
<1>4. line \in Injection(1 .. N, S)
  BY <1>3 DEF Injection, IsInjective
<1>5. line \in Surjection(1 .. N, S)
  BY <1>2, <1>4, FS_Injection
<1> QED
  BY <1>5 DEF Surjection

LEMMA SpansInOrder ==
    ASSUME NEW S, IsFiniteSet(S), S \subseteq Int \X Int
    PROVE  LET line == InOrder(S, SpanBefore) IN
              /\ line \in [1 .. Cardinality(S) -> S]
              /\ \A m, n \in 1 .. Cardinality(S) :
                    m < n => line[m] # line[n] /\ SpanBefore(line[m], line[n])
              /\ \A x \in S : \E n \in 1 .. Cardinality(S) : line[n] = x
<1> DEFINE R == {p \in S \X S : SpanBefore(p[1], p[2])}
<1>1. \A x, y \in S : <<x, y>> \in R <=> SpanBefore(x, y)
  OBVIOUS
<1>2. \A x, y \in S : SpanBefore(x, y) \/ SpanBefore(y, x)
  BY DEF SpanBefore, From, To
<1>3. \A x, y, z \in S : SpanBefore(x, y) /\ SpanBefore(y, z) => SpanBefore(x, z)
  BY DEF SpanBefore, From, To
<1> HIDE DEF R
<1>4. \E line \in [1 .. Cardinality(S) -> S] :
         \A m, n \in 1 .. Cardinality(S) : m < n => line[m] # line[n] /\ <<line[m], line[n]>> \in R
  BY <1>1, <1>2, <1>3, Sorting
<1>5. \E line \in [1 .. Cardinality(S) -> S] :
         \A m, n \in 1 .. Cardinality(S) : m < n => line[m] # line[n] /\ SpanBefore(line[m], line[n])
  BY <1>1, <1>4
<1> DEFINE line == InOrder(S, SpanBefore)
<1>6. /\ line \in [1 .. Cardinality(S) -> S]
      /\ \A m, n \in 1 .. Cardinality(S) : m < n => line[m] # line[n] /\ SpanBefore(line[m], line[n])
  BY <1>5 DEF InOrder
<1> HIDE DEF line
<1>7. \A x \in S : \E n \in 1 .. Cardinality(S) : line[n] = x
  <2>1. \A m, n \in 1 .. Cardinality(S) : m < n => line[m] # line[n]
    BY <1>6
  <2> QED
    BY <1>6, <2>1, ListsAll, Zenon
<1> QED
  BY <1>6, <1>7 DEF line

LEMMA VisitsInOrder ==
    ASSUME IsFiniteSet(sheet.visits), sheet.visits \subseteq (Int \X Int) \X Nat
    PROVE  /\ Ordered \in [1 .. Cardinality(sheet.visits) -> sheet.visits]
           /\ \A m, n \in 1 .. Cardinality(sheet.visits) :
                 m < n => /\ Ordered[m] # Ordered[n]
                          /\ From(Ordered[m][1]) <= From(Ordered[n][1])
           /\ \A v \in sheet.visits : \E n \in 1 .. Cardinality(sheet.visits) : Ordered[n] = v
<1> DEFINE S == sheet.visits
           R == {p \in S \X S : VisitBefore(p[1], p[2])}
<1>0. \A x \in S : x[1] \in Int \X Int /\ x[2] \in Nat /\ x = <<x[1], x[2]>>
  OBVIOUS
<1>1. \A x, y \in S : <<x, y>> \in R <=> VisitBefore(x, y)
  OBVIOUS
<1>2. \A x, y \in S : VisitBefore(x, y) \/ VisitBefore(y, x)
  BY <1>0 DEF VisitBefore, SpanBefore, From, To
<1>3. \A x, y, z \in S : VisitBefore(x, y) /\ VisitBefore(y, z) => VisitBefore(x, z)
  BY <1>0 DEF VisitBefore, SpanBefore, From, To
<1> HIDE DEF R
<1>4. \E line \in [1 .. Cardinality(S) -> S] :
         \A m, n \in 1 .. Cardinality(S) : m < n => line[m] # line[n] /\ <<line[m], line[n]>> \in R
  BY <1>1, <1>2, <1>3, Sorting
<1>5. \E line \in [1 .. Cardinality(S) -> S] :
         \A m, n \in 1 .. Cardinality(S) : m < n => line[m] # line[n] /\ VisitBefore(line[m], line[n])
  BY <1>1, <1>4
<1>6. /\ Ordered \in [1 .. Cardinality(S) -> S]
      /\ \A m, n \in 1 .. Cardinality(S) : m < n => Ordered[m] # Ordered[n] /\ VisitBefore(Ordered[m], Ordered[n])
  BY <1>5 DEF InOrder, Ordered
<1>7. \A x, y \in S : VisitBefore(x, y) => From(x[1]) <= From(y[1])
  BY <1>0 DEF VisitBefore, SpanBefore, From, To
<1>8. \A x \in S : \E n \in 1 .. Cardinality(S) : Ordered[n] = x
  <2>1. \A m, n \in 1 .. Cardinality(S) : m < n => Ordered[m] # Ordered[n]
    BY <1>6
  <2> QED
    BY <1>6, <2>1, ListsAll, Zenon
<1> QED
  BY <1>6, <1>7, <1>8

---------------------------------------------------------------------------
(* The loops as equations between one turn and the next. *)
LEMMA MergingTurns ==
    ASSUME NEW line, Len(line) \in Nat
    PROVE  /\ Merging(line)[0] = <<>>
           /\ \A n \in 1 .. Len(line) : Merging(line)[n] = MergeInto(Merging(line)[n - 1], line[n])
<1> DEFINE N == Len(line)
           H == {n \in Nat : \E f : f = [k \in 0 .. n |-> IF k = 0 THEN <<>> ELSE MergeInto(f[k - 1], line[k])]}
<1>1. 0 \in H
  <2> DEFINE f == [k \in 0 .. 0 |-> <<>>]
  <2>1. f = [k \in 0 .. 0 |-> IF k = 0 THEN <<>> ELSE MergeInto(f[k - 1], line[k])]
    OBVIOUS
  <2> QED
    BY <2>1
<1>2. ASSUME NEW n \in 1 .. N, n - 1 \in H PROVE n \in H
  <2>1. PICK f : f = [k \in 0 .. n - 1 |-> IF k = 0 THEN <<>> ELSE MergeInto(f[k - 1], line[k])]
    BY <1>2
  <2> DEFINE g == [k \in 0 .. n |-> IF k = n THEN MergeInto(f[n - 1], line[n]) ELSE f[k]]
             h == [k \in 0 .. n |-> IF k = 0 THEN <<>> ELSE MergeInto(g[k - 1], line[k])]
  <2>2. ASSUME NEW k \in 0 .. n PROVE g[k] = h[k]
    <3>1. CASE k = 0
      BY <2>1, <3>1
    <3>2. CASE k = n
      BY <3>2
    <3>3. CASE k \in 1 .. n - 1
      <4>1. g[k] = f[k] /\ g[k - 1] = f[k - 1] /\ h[k] = MergeInto(g[k - 1], line[k])
        BY <3>3
      <4>2. f[k] = MergeInto(f[k - 1], line[k])
        BY <2>1, <3>3
      <4> QED
        BY <4>1, <4>2
    <3> QED
      BY <3>1, <3>2, <3>3
  <2>3. g = h
    BY <2>2
  <2> HIDE DEF g
  <2>4. \E e : e = [k \in 0 .. n |-> IF k = 0 THEN <<>> ELSE MergeInto(e[k - 1], line[k])]
    BY <2>3, Zenon
  <2>5. n \in Nat
    OBVIOUS
  <2> QED
    BY <2>4, <2>5, Zenon
<1> HIDE DEF H
<1>3. N \in H
  <2>1. \A n \in 1 .. N : n - 1 \in H => n \in H
    BY <1>2
  <2>2. \A n \in 0 .. N : n \in H
    BY <1>1, <2>1, UpTo, Zenon
  <2> QED
    BY <2>2
<1>4. \E f : f = [k \in 0 .. N |-> IF k = 0 THEN <<>> ELSE MergeInto(f[k - 1], line[k])]
  BY <1>3 DEF H
<1> DEFINE m == Merging(line)
<1>5. m = [k \in 0 .. N |-> IF k = 0 THEN <<>> ELSE MergeInto(m[k - 1], line[k])]
  BY <1>4, Zenon DEF Merging
<1> HIDE DEF m
<1> SUFFICES m[0] = <<>> /\ \A n \in 1 .. N : m[n] = MergeInto(m[n - 1], line[n])
  BY DEF m
<1> QED
  BY <1>5

LEMMA CuttingTurns ==
    ASSUME NEW i, NEW holes, Len(holes) \in Nat
    PROVE  /\ Cutting(i, holes)[0] = Whole(i)
           /\ \A n \in 1 .. Len(holes) : Cutting(i, holes)[n] = CutHole(Cutting(i, holes)[n - 1], holes[n])
<1> DEFINE N == Len(holes)
           H == {n \in Nat : \E f : f = [k \in 0 .. n |-> IF k = 0 THEN Whole(i) ELSE CutHole(f[k - 1], holes[k])]}
<1>1. 0 \in H
  <2> DEFINE f == [k \in 0 .. 0 |-> Whole(i)]
  <2>1. f = [k \in 0 .. 0 |-> IF k = 0 THEN Whole(i) ELSE CutHole(f[k - 1], holes[k])]
    OBVIOUS
  <2> QED
    BY <2>1
<1>2. ASSUME NEW n \in 1 .. N, n - 1 \in H PROVE n \in H
  <2>1. PICK f : f = [k \in 0 .. n - 1 |-> IF k = 0 THEN Whole(i) ELSE CutHole(f[k - 1], holes[k])]
    BY <1>2
  <2> DEFINE g == [k \in 0 .. n |-> IF k = n THEN CutHole(f[n - 1], holes[n]) ELSE f[k]]
             h == [k \in 0 .. n |-> IF k = 0 THEN Whole(i) ELSE CutHole(g[k - 1], holes[k])]
  <2>2. ASSUME NEW k \in 0 .. n PROVE g[k] = h[k]
    <3>1. CASE k = 0
      BY <2>1, <3>1
    <3>2. CASE k = n
      BY <3>2
    <3>3. CASE k \in 1 .. n - 1
      <4>1. g[k] = f[k] /\ g[k - 1] = f[k - 1] /\ h[k] = CutHole(g[k - 1], holes[k])
        BY <3>3
      <4>2. f[k] = CutHole(f[k - 1], holes[k])
        BY <2>1, <3>3
      <4> QED
        BY <4>1, <4>2
    <3> QED
      BY <3>1, <3>2, <3>3
  <2>3. g = h
    BY <2>2
  <2> HIDE DEF g
  <2>4. \E e : e = [k \in 0 .. n |-> IF k = 0 THEN Whole(i) ELSE CutHole(e[k - 1], holes[k])]
    BY <2>3, Zenon
  <2>5. n \in Nat
    OBVIOUS
  <2> QED
    BY <2>4, <2>5, Zenon
<1> HIDE DEF H
<1>3. N \in H
  <2>1. \A n \in 1 .. N : n - 1 \in H => n \in H
    BY <1>2
  <2>2. \A n \in 0 .. N : n \in H
    BY <1>1, <2>1, UpTo, Zenon
  <2> QED
    BY <2>2
<1>4. \E f : f = [k \in 0 .. N |-> IF k = 0 THEN Whole(i) ELSE CutHole(f[k - 1], holes[k])]
  BY <1>3 DEF H
<1> DEFINE m == Cutting(i, holes)
<1>5. m = [k \in 0 .. N |-> IF k = 0 THEN Whole(i) ELSE CutHole(m[k - 1], holes[k])]
  BY <1>4, Zenon DEF Cutting
<1> HIDE DEF m
<1> SUFFICES m[0] = Whole(i) /\ \A n \in 1 .. N : m[n] = CutHole(m[n - 1], holes[n])
  BY DEF m
<1> QED
  BY <1>5

LEMMA PlacingTurns ==
    ASSUME NEW line, Len(line) \in Nat
    PROVE  /\ Placing(line)[0] = [lanes |-> <<>>, laneOf |-> <<>>]
           /\ \A n \in 1 .. Len(line) : Placing(line)[n] = TakeLane(Placing(line)[n - 1], line[n])
<1> DEFINE N == Len(line)
           H == {n \in Nat : \E f : f = [k \in 0 .. n |-> IF k = 0 THEN [lanes |-> <<>>, laneOf |-> <<>>] ELSE TakeLane(f[k - 1], line[k])]}
<1>1. 0 \in H
  <2> DEFINE f == [k \in 0 .. 0 |-> [lanes |-> <<>>, laneOf |-> <<>>]]
  <2>1. f = [k \in 0 .. 0 |-> IF k = 0 THEN [lanes |-> <<>>, laneOf |-> <<>>] ELSE TakeLane(f[k - 1], line[k])]
    OBVIOUS
  <2> QED
    BY <2>1
<1>2. ASSUME NEW n \in 1 .. N, n - 1 \in H PROVE n \in H
  <2>1. PICK f : f = [k \in 0 .. n - 1 |-> IF k = 0 THEN [lanes |-> <<>>, laneOf |-> <<>>] ELSE TakeLane(f[k - 1], line[k])]
    BY <1>2
  <2> DEFINE g == [k \in 0 .. n |-> IF k = n THEN TakeLane(f[n - 1], line[n]) ELSE f[k]]
             h == [k \in 0 .. n |-> IF k = 0 THEN [lanes |-> <<>>, laneOf |-> <<>>] ELSE TakeLane(g[k - 1], line[k])]
  <2>2. ASSUME NEW k \in 0 .. n PROVE g[k] = h[k]
    <3>1. CASE k = 0
      BY <2>1, <3>1
    <3>2. CASE k = n
      BY <3>2
    <3>3. CASE k \in 1 .. n - 1
      <4>1. g[k] = f[k] /\ g[k - 1] = f[k - 1] /\ h[k] = TakeLane(g[k - 1], line[k])
        BY <3>3
      <4>2. f[k] = TakeLane(f[k - 1], line[k])
        BY <2>1, <3>3
      <4> QED
        BY <4>1, <4>2
    <3> QED
      BY <3>1, <3>2, <3>3
  <2>3. g = h
    BY <2>2
  <2> HIDE DEF g
  <2>4. \E e : e = [k \in 0 .. n |-> IF k = 0 THEN [lanes |-> <<>>, laneOf |-> <<>>] ELSE TakeLane(e[k - 1], line[k])]
    BY <2>3, Zenon
  <2>5. n \in Nat
    OBVIOUS
  <2> QED
    BY <2>4, <2>5, Zenon
<1> HIDE DEF H
<1>3. N \in H
  <2>1. \A n \in 1 .. N : n - 1 \in H => n \in H
    BY <1>2
  <2>2. \A n \in 0 .. N : n \in H
    BY <1>1, <2>1, UpTo, Zenon
  <2> QED
    BY <2>2
<1>4. \E f : f = [k \in 0 .. N |-> IF k = 0 THEN [lanes |-> <<>>, laneOf |-> <<>>] ELSE TakeLane(f[k - 1], line[k])]
  BY <1>3 DEF H
<1> DEFINE m == Placing(line)
<1>5. m = [k \in 0 .. N |-> IF k = 0 THEN [lanes |-> <<>>, laneOf |-> <<>>] ELSE TakeLane(m[k - 1], line[k])]
  BY <1>4, Zenon DEF Placing
<1> HIDE DEF m
<1> SUFFICES m[0] = [lanes |-> <<>>, laneOf |-> <<>>] /\ \A n \in 1 .. N : m[n] = TakeLane(m[n - 1], line[n])
  BY DEF m
<1> QED
  BY <1>5

LEMMA ClusteringTurns ==
    ASSUME NEW line, NEW laneOf, Len(line) \in Nat
    PROVE  /\ Clustering(line, laneOf)[0] = <<>>
           /\ \A n \in 1 .. Len(line) : Clustering(line, laneOf)[n] = ExtendRun(Clustering(line, laneOf)[n - 1], line[n], laneOf[n], n)
<1> DEFINE N == Len(line)
           H == {n \in Nat : \E f : f = [k \in 0 .. n |-> IF k = 0 THEN <<>> ELSE ExtendRun(f[k - 1], line[k], laneOf[k], k)]}
<1>1. 0 \in H
  <2> DEFINE f == [k \in 0 .. 0 |-> <<>>]
  <2>1. f = [k \in 0 .. 0 |-> IF k = 0 THEN <<>> ELSE ExtendRun(f[k - 1], line[k], laneOf[k], k)]
    OBVIOUS
  <2> QED
    BY <2>1
<1>2. ASSUME NEW n \in 1 .. N, n - 1 \in H PROVE n \in H
  <2>1. PICK f : f = [k \in 0 .. n - 1 |-> IF k = 0 THEN <<>> ELSE ExtendRun(f[k - 1], line[k], laneOf[k], k)]
    BY <1>2
  <2> DEFINE g == [k \in 0 .. n |-> IF k = n THEN ExtendRun(f[n - 1], line[n], laneOf[n], n) ELSE f[k]]
             h == [k \in 0 .. n |-> IF k = 0 THEN <<>> ELSE ExtendRun(g[k - 1], line[k], laneOf[k], k)]
  <2>2. ASSUME NEW k \in 0 .. n PROVE g[k] = h[k]
    <3>1. CASE k = 0
      BY <2>1, <3>1
    <3>2. CASE k = n
      BY <3>2
    <3>3. CASE k \in 1 .. n - 1
      <4>1. g[k] = f[k] /\ g[k - 1] = f[k - 1] /\ h[k] = ExtendRun(g[k - 1], line[k], laneOf[k], k)
        BY <3>3
      <4>2. f[k] = ExtendRun(f[k - 1], line[k], laneOf[k], k)
        BY <2>1, <3>3
      <4> QED
        BY <4>1, <4>2
    <3> QED
      BY <3>1, <3>2, <3>3
  <2>3. g = h
    BY <2>2
  <2> HIDE DEF g
  <2>4. \E e : e = [k \in 0 .. n |-> IF k = 0 THEN <<>> ELSE ExtendRun(e[k - 1], line[k], laneOf[k], k)]
    BY <2>3, Zenon
  <2>5. n \in Nat
    OBVIOUS
  <2> QED
    BY <2>4, <2>5, Zenon
<1> HIDE DEF H
<1>3. N \in H
  <2>1. \A n \in 1 .. N : n - 1 \in H => n \in H
    BY <1>2
  <2>2. \A n \in 0 .. N : n \in H
    BY <1>1, <2>1, UpTo, Zenon
  <2> QED
    BY <2>2
<1>4. \E f : f = [k \in 0 .. N |-> IF k = 0 THEN <<>> ELSE ExtendRun(f[k - 1], line[k], laneOf[k], k)]
  BY <1>3 DEF H
<1> DEFINE m == Clustering(line, laneOf)
<1>5. m = [k \in 0 .. N |-> IF k = 0 THEN <<>> ELSE ExtendRun(m[k - 1], line[k], laneOf[k], k)]
  BY <1>4, Zenon DEF Clustering
<1> HIDE DEF m
<1> SUFFICES m[0] = <<>> /\ \A n \in 1 .. N : m[n] = ExtendRun(m[n - 1], line[n], laneOf[n], n)
  BY DEF m
<1> QED
  BY <1>5

---------------------------------------------------------------------------
(* Intervals of a normalized list neither overlap nor touch. *)
Stretches == Int \X Int
Covers(i, t) == From(i) <= t /\ t < To(i)
Separate(line) ==
    /\ line \in Seq(Stretches)
    /\ \A k \in 1 .. Len(line) : From(line[k]) < To(line[k])
    /\ \A k, l \in 1 .. Len(line) : k < l => To(line[k]) < From(line[l])
CoveredBy(line, t) == \E k \in 1 .. Len(line) : Covers(line[k], t)

LEMMA MergeOne ==
    ASSUME NEW line, Separate(line), NEW i \in Stretches, From(i) < To(i),
           line # <<>> => From(line[Len(line)]) <= From(i)
    PROVE  LET merged == MergeInto(line, i) IN
              /\ Separate(merged) /\ merged # <<>>
              /\ From(merged[Len(merged)]) <= From(i)
              /\ \A t \in Int : CoveredBy(merged, t) <=> CoveredBy(line, t) \/ Covers(i, t)
<1> DEFINE N == Len(line)
           last == line[N]
           merged == MergeInto(line, i)
<1>0. /\ line \in Seq(Stretches) /\ N \in Nat /\ \A k \in 1 .. N : line[k] \in Stretches
      /\ \A k \in 1 .. N : From(line[k]) \in Int /\ To(line[k]) \in Int /\ From(line[k]) < To(line[k])
      /\ From(i) \in Int /\ To(i) \in Int
      /\ \A k, l \in 1 .. N : k < l => To(line[k]) < From(line[l])
  BY DEF Separate, Stretches, From, To
<1>1. CASE line # <<>> /\ From(i) <= To(last)
  <2> DEFINE grown == <<From(last), Later(To(last), To(i))>>
  <2>1. N \in 1 .. N /\ From(last) <= From(i) /\ From(last) < To(last) /\ From(last) \in Int /\ To(last) \in Int
    BY <1>0, <1>1
  <2>2. /\ grown \in Stretches /\ From(grown) = From(last) /\ To(grown) \in Int
        /\ To(grown) >= To(last) /\ To(grown) >= To(i) /\ (To(grown) = To(last) \/ To(grown) = To(i))
    BY <1>0, <2>1 DEF Later, From, To, Stretches
  <2>3. /\ merged \in Seq(Stretches) /\ Len(merged) = N /\ merged[N] = grown
        /\ \A k \in 1 .. N - 1 : merged[k] = line[k]
    BY <1>0, <1>1, <2>1, <2>2 DEF MergeInto, From, To
  <2> HIDE DEF grown, merged, last
  <2>4. Separate(merged)
    <3>1. ASSUME NEW k \in 1 .. N PROVE From(merged[k]) < To(merged[k])
      BY <3>1, <1>0, <2>1, <2>2, <2>3 DEF last
    <3>2. ASSUME NEW k \in 1 .. N, NEW l \in 1 .. N, k < l PROVE To(merged[k]) < From(merged[l])
      <4>1. k \in 1 .. N - 1 /\ merged[k] = line[k]
        BY <3>2, <2>3, <1>0
      <4>2. From(merged[l]) = From(line[l])
        <5>1. CASE l = N
          BY <5>1, <2>2, <2>3 DEF last
        <5>2. CASE l \in 1 .. N - 1
          BY <5>2, <2>3
        <5> QED
          BY <5>1, <5>2, <1>0
      <4> QED
        BY <3>2, <4>1, <4>2, <1>0
    <3> QED
      BY <2>3, <3>1, <3>2 DEF Separate
  <2>5. ASSUME NEW t \in Int PROVE CoveredBy(merged, t) <=> CoveredBy(line, t) \/ Covers(i, t)
    <3>1. Covers(grown, t) <=> Covers(last, t) \/ Covers(i, t)
      BY <1>0, <1>1, <2>1, <2>2 DEF Covers
    <3>2. CoveredBy(merged, t) <=> (\E k \in 1 .. N - 1 : Covers(line[k], t)) \/ Covers(grown, t)
      <4>1. \A k \in 1 .. N - 1 : k \in 1 .. N /\ (Covers(merged[k], t) <=> Covers(line[k], t))
        BY <2>3
      <4>2. \A k \in 1 .. N : k = N \/ k \in 1 .. N - 1
        BY <1>0
      <4> QED
        BY <2>1, <2>3, <4>1, <4>2 DEF CoveredBy
    <3>3. CoveredBy(line, t) <=> (\E k \in 1 .. N - 1 : Covers(line[k], t)) \/ Covers(last, t)
      BY <2>1, <1>0 DEF CoveredBy, last
    <3> QED
      BY <3>1, <3>2, <3>3
  <2>6. merged # <<>> /\ From(merged[Len(merged)]) <= From(i)
    BY <2>1, <2>2, <2>3
  <2> QED
    BY <2>4, <2>5, <2>6 DEF merged
<1>2. CASE ~(line # <<>> /\ From(i) <= To(last))
  <2>1. /\ merged = Append(line, i) /\ merged \in Seq(Stretches) /\ Len(merged) = N + 1 /\ merged[N + 1] = i
        /\ \A k \in 1 .. N : merged[k] = line[k]
    BY <1>0, <1>2 DEF MergeInto
  <2>2. \A k \in 1 .. N : To(line[k]) < From(i)
    <3> SUFFICES ASSUME NEW k \in 1 .. N PROVE To(line[k]) < From(i)
      OBVIOUS
    <3>1. N \in 1 .. N /\ line # <<>> /\ To(last) < From(i)
      BY <1>0, <1>2
    <3>2. k = N \/ (k < N /\ To(line[k]) < From(last) /\ From(last) < To(last))
      BY <1>0, <3>1
    <3> QED
      BY <1>0, <3>1, <3>2
  <2> HIDE DEF merged, last
  <2>3. Separate(merged)
    <3>1. ASSUME NEW k \in 1 .. N + 1 PROVE From(merged[k]) < To(merged[k])
      BY <3>1, <1>0, <2>1
    <3>2. ASSUME NEW k \in 1 .. N + 1, NEW l \in 1 .. N + 1, k < l PROVE To(merged[k]) < From(merged[l])
      BY <3>2, <1>0, <2>1, <2>2
    <3> QED
      BY <2>1, <3>1, <3>2 DEF Separate
  <2>4. ASSUME NEW t \in Int PROVE CoveredBy(merged, t) <=> CoveredBy(line, t) \/ Covers(i, t)
    <3>1. \A k \in 1 .. N : k \in 1 .. N + 1 /\ (Covers(merged[k], t) <=> Covers(line[k], t))
      BY <2>1
    <3>2. \A k \in 1 .. N + 1 : k = N + 1 \/ k \in 1 .. N
      BY <1>0
    <3>3. N + 1 \in 1 .. N + 1
      BY <1>0
    <3> QED
      BY <2>1, <3>1, <3>2, <3>3 DEF CoveredBy
  <2>5. merged # <<>> /\ From(merged[Len(merged)]) <= From(i)
    BY <1>0, <2>1
  <2> QED
    BY <2>3, <2>4, <2>5 DEF merged
<1> QED
  BY <1>1, <1>2

(* Sorting and merging leave the minutes as they are, and no two intervals *)
(* that overlap or touch.                                                  *)
LEMMA Normalized ==
    ASSUME NEW set, IsFiniteSet(set), set \subseteq Stretches
    PROVE  /\ Separate(NormalizeIntervals(set))
           /\ \A t \in Int : CoveredBy(NormalizeIntervals(set), t) <=> \E i \in set : Covers(i, t)
<1> DEFINE P == {i \in set : To(i) > From(i)}
           line == InOrder(P, SpanBefore)
           N == Cardinality(P)
           merged == Merging(line)
<1>1. IsFiniteSet(P) /\ P \subseteq Int \X Int
  BY FS_Subset DEF Stretches
<1>2. /\ N \in Nat
      /\ line \in [1 .. N -> P]
      /\ \A m, n \in 1 .. N : m < n => line[m] # line[n] /\ SpanBefore(line[m], line[n])
      /\ \A x \in P : \E n \in 1 .. N : line[n] = x
  <2> HIDE DEF P
  <2> QED
    BY <1>1, SpansInOrder, FS_CardinalityType
<1>3. Len(line) = N
  BY <1>2
<1>4. NormalizeIntervals(set) = merged[N]
  BY <1>3 DEF NormalizeIntervals
<1> HIDE DEF line, merged, N
<1>5. /\ merged[0] = <<>>
      /\ \A n \in 1 .. N : merged[n] = MergeInto(merged[n - 1], line[n])
  BY <1>2, <1>3, MergingTurns DEF merged
<1>6. \A n \in 1 .. N : line[n] \in Stretches /\ From(line[n]) \in Int /\ To(line[n]) \in Int /\ From(line[n]) < To(line[n])
  BY <1>1, <1>2 DEF Stretches, From, To
<1>7. \A m, n \in 1 .. N : m < n => From(line[m]) <= From(line[n])
  BY <1>2, <1>6 DEF SpanBefore
<1> DEFINE Done(n) == /\ Separate(merged[n])
                      /\ n > 0 => merged[n] # <<>> /\ From(merged[n][Len(merged[n])]) <= From(line[n])
                      /\ n = 0 => merged[n] = <<>>
                      /\ \A t \in Int : CoveredBy(merged[n], t) <=> \E m \in 1 .. n : Covers(line[m], t)
           H == {n \in 0 .. N : Done(n)}
<1>8. 0 \in H
  <2>1. Separate(<<>>) /\ \A t \in Int : ~CoveredBy(<<>>, t)
    BY DEF Separate, CoveredBy
  <2>2. 0 \in 0 .. N
    BY <1>2
  <2>3. Done(0)
    BY <1>5, <2>1
  <2> QED
    BY <2>2, <2>3
<1>9. ASSUME NEW n \in 1 .. N, n - 1 \in H PROVE n \in H
  <2>1. Done(n - 1)
    BY <1>9
  <2>2. merged[n] = MergeInto(merged[n - 1], line[n]) /\ line[n] \in Stretches /\ From(line[n]) < To(line[n])
    BY <1>5, <1>6
  <2>3. merged[n - 1] # <<>> => From(merged[n - 1][Len(merged[n - 1])]) <= From(line[n])
    <3> SUFFICES ASSUME merged[n - 1] # <<>> PROVE From(merged[n - 1][Len(merged[n - 1])]) <= From(line[n])
      OBVIOUS
    <3>1. n - 1 \in 1 .. N /\ From(merged[n - 1][Len(merged[n - 1])]) <= From(line[n - 1])
      BY <1>2, <2>1
    <3>2. From(line[n - 1]) <= From(line[n]) /\ From(line[n - 1]) \in Int /\ From(line[n]) \in Int
      BY <3>1, <1>6, <1>7
    <3>3. From(merged[n - 1][Len(merged[n - 1])]) \in Int
      <4> DEFINE before == merged[n - 1]
      <4> HIDE DEF before
      <4>1. before \in Seq(Stretches) /\ before # <<>>
        BY <2>1 DEF Separate, before
      <4>2. before[Len(before)] \in Stretches
        BY <4>1
      <4> QED
        BY <4>2 DEF before, Stretches, From
    <3> QED
      BY <3>1, <3>2, <3>3
  <2>4. /\ Separate(merged[n]) /\ merged[n] # <<>>
        /\ From(merged[n][Len(merged[n])]) <= From(line[n])
        /\ \A t \in Int : CoveredBy(merged[n], t) <=> CoveredBy(merged[n - 1], t) \/ Covers(line[n], t)
    BY <2>1, <2>2, <2>3, MergeOne
  <2>5. \A t \in Int : CoveredBy(merged[n], t) <=> \E m \in 1 .. n : Covers(line[m], t)
    <3>1. \A m \in 1 .. n : m = n \/ m \in 1 .. n - 1
      OBVIOUS
    <3>2. \A m \in 1 .. n - 1 : m \in 1 .. n
      OBVIOUS
    <3>3. n \in 1 .. n
      OBVIOUS
    <3> QED
      BY <2>1, <2>4, <3>1, <3>2, <3>3
  <2>6. n \in 0 .. N /\ n # 0
    OBVIOUS
  <2> QED
    BY <2>4, <2>5, <2>6
<1> HIDE DEF H
<1>10. N \in H
  <2>1. \A n \in 1 .. N : n - 1 \in H => n \in H
    BY <1>9
  <2>2. \A n \in 0 .. N : n \in H
    BY <1>2, <1>8, <2>1, UpTo, Zenon
  <2> QED
    BY <1>2, <2>2
<1>11. Done(N)
  BY <1>10 DEF H
<1>12. ASSUME NEW t \in Int PROVE (\E m \in 1 .. N : Covers(line[m], t)) <=> \E i \in set : Covers(i, t)
  <2>1. \A i \in set : Covers(i, t) => i \in P
    BY DEF Covers, Stretches, From, To
  <2>2. \A m \in 1 .. N : line[m] \in set
    BY <1>2
  <2> HIDE DEF P
  <2> QED
    BY <1>2, <2>1, <2>2
<1> QED
  BY <1>4, <1>11, <1>12

---------------------------------------------------------------------------
(* Pieces of an interval from which the first n holes are cut: apart from  *)
(* each other, and with the minutes that no hole covers.                   *)
Apart(pieces) == \A p, q \in pieces : p # q => To(p) < From(q) \/ To(q) < From(p)
CutUpTo(acc, i, holes, n) ==
    /\ acc \in [at : Int, end : Int, kept : SUBSET Stretches]
    /\ acc.end = To(i) /\ From(i) <= acc.at
    /\ IsFiniteSet(acc.kept) /\ Apart(acc.kept)
    /\ \A p \in acc.kept : From(i) <= From(p) /\ From(p) < To(p) /\ To(p) < acc.at /\ To(p) <= To(i)
    /\ \A t \in Int : From(i) <= t /\ t < To(i) =>
         /\ t < acc.at => ((\E p \in acc.kept : Covers(p, t)) <=> \A k \in 1 .. n : ~Covers(holes[k], t))
         /\ t >= acc.at => \A k \in 1 .. n : ~Covers(holes[k], t)
    /\ acc.at = From(i) \/ \A k \in n + 1 .. Len(holes) : acc.at < From(holes[k])

LEMMA CutOne ==
    ASSUME NEW i \in Stretches, NEW holes, Separate(holes), NEW n \in 1 .. Len(holes),
           NEW acc, CutUpTo(acc, i, holes, n - 1)
    PROVE  CutUpTo(CutHole(acc, holes[n]), i, holes, n)
<1> DEFINE hole == holes[n]
           next == CutHole(acc, hole)
<1>0. /\ From(i) \in Int /\ To(i) \in Int
      /\ Len(holes) \in Nat /\ n \in Nat
      /\ \A k \in 1 .. Len(holes) : From(holes[k]) \in Int /\ To(holes[k]) \in Int /\ From(holes[k]) < To(holes[k])
      /\ \A k, l \in 1 .. Len(holes) : k < l => To(holes[k]) < From(holes[l])
  <2>1. \A j \in Stretches : From(j) \in Int /\ To(j) \in Int
    BY DEF Stretches, From, To
  <2>2. \A k \in 1 .. Len(holes) : holes[k] \in Stretches
    BY DEF Separate
  <2>3. Len(holes) \in Nat
    BY DEF Separate
  <2> QED
    BY <2>1, <2>2, <2>3 DEF Separate
<1>1. /\ acc \in [at : Int, end : Int, kept : SUBSET Stretches]
      /\ acc.end = To(i) /\ From(i) <= acc.at
      /\ IsFiniteSet(acc.kept) /\ Apart(acc.kept)
      /\ \A p \in acc.kept : From(i) <= From(p) /\ From(p) < To(p) /\ To(p) < acc.at /\ To(p) <= To(i)
      /\ acc.at = From(i) \/ \A k \in n .. Len(holes) : acc.at < From(holes[k])
      /\ acc.at \in Int /\ acc.kept \subseteq Stretches
  BY DEF CutUpTo
<1>2. \A t \in Int : From(i) <= t /\ t < To(i) =>
         /\ t < acc.at => ((\E p \in acc.kept : Covers(p, t)) <=> \A k \in 1 .. n - 1 : ~Covers(holes[k], t))
         /\ t >= acc.at => \A k \in 1 .. n - 1 : ~Covers(holes[k], t)
  BY DEF CutUpTo
<1>3. \A k \in 1 .. n : k = n \/ k \in 1 .. n - 1
  BY <1>0
<1>4. \A k \in 1 .. n - 1 : k \in 1 .. n
  BY <1>0
<1>5. n \in 1 .. n /\ n \in n .. Len(holes) /\ \A k \in n + 1 .. Len(holes) : k \in n .. Len(holes) /\ k \in 1 .. Len(holes) /\ n < k
  BY <1>0
<1>6. From(hole) \in Int /\ To(hole) \in Int /\ From(hole) < To(hole)
  BY <1>0
(* A minute before acc.at lies in no later hole. *)
<1>7. \A t \in Int : From(i) <= t /\ t < acc.at => ~Covers(hole, t)
  BY <1>1, <1>5, <1>6 DEF Covers
<1> HIDE DEF hole
<1>8. CASE To(hole) <= acc.at \/ From(hole) >= acc.end
  <2>1. next = acc
    BY <1>8 DEF CutHole
  <2>2. ASSUME NEW t \in Int, From(i) <= t, t < To(i)
        PROVE  /\ t < acc.at => ((\E p \in acc.kept : Covers(p, t)) <=> \A k \in 1 .. n : ~Covers(holes[k], t))
               /\ t >= acc.at => \A k \in 1 .. n : ~Covers(holes[k], t)
    <3>1. ~Covers(hole, t)
      <4>1. CASE t < acc.at
        BY <4>1, <1>7, <2>2
      <4>2. CASE t >= acc.at
        BY <4>2, <1>0, <1>1, <1>6, <1>8, <2>2 DEF Covers
      <4> QED
        BY <4>1, <4>2, <1>1
    <3> QED
      BY <1>2, <1>3, <1>4, <2>2, <3>1 DEF hole
  <2>3. acc.at = From(i) \/ \A k \in n + 1 .. Len(holes) : acc.at < From(holes[k])
    BY <1>1, <1>5
  <2> QED
    BY <1>1, <2>1, <2>2, <2>3 DEF CutUpTo, hole
<1>9. CASE ~(To(hole) <= acc.at \/ From(hole) >= acc.end)
  <2> DEFINE piece == <<acc.at, From(hole)>>
             kept == IF From(hole) > acc.at THEN acc.kept \cup {piece} ELSE acc.kept
  <2>0. /\ To(hole) > acc.at /\ From(hole) < To(i)
        /\ piece \in Stretches /\ From(piece) = acc.at /\ To(piece) = From(hole)
    BY <1>0, <1>1, <1>6, <1>9 DEF Stretches, From, To
  <2>1. next = [at |-> To(hole), end |-> To(i), kept |-> kept]
    BY <1>1, <1>6, <1>9, <2>0 DEF CutHole, Later
  <2> HIDE DEF piece
  <2>2. kept \subseteq Stretches /\ IsFiniteSet(kept)
    BY <1>1, <2>0, FS_AddElement
  <2>3. Apart(kept)
    <3>1. \A p \in acc.kept : To(p) < From(piece)
      BY <1>1, <2>0
    <3> QED
      BY <1>1, <3>1 DEF Apart
  <2>4. \A p \in kept : From(i) <= From(p) /\ From(p) < To(p) /\ To(p) < To(hole) /\ To(p) <= To(i)
    <3>1. \A p \in acc.kept : To(p) \in Int /\ From(p) \in Int
      BY <1>1 DEF Stretches, From, To
    <3>2. \A p \in acc.kept : From(i) <= From(p) /\ From(p) < To(p) /\ To(p) < To(hole) /\ To(p) <= To(i)
      BY <1>1, <1>6, <2>0, <3>1
    <3>3. From(hole) > acc.at =>
             From(i) <= From(piece) /\ From(piece) < To(piece) /\ To(piece) < To(hole) /\ To(piece) <= To(i)
      BY <1>0, <1>1, <1>6, <2>0
    <3> QED
      BY <3>2, <3>3
  <2>5. ASSUME NEW t \in Int, From(i) <= t, t < To(i)
        PROVE  /\ t < To(hole) => ((\E p \in kept : Covers(p, t)) <=> \A k \in 1 .. n : ~Covers(holes[k], t))
               /\ t >= To(hole) => \A k \in 1 .. n : ~Covers(holes[k], t)
    <3>1. (\A k \in 1 .. n : ~Covers(holes[k], t)) <=> (\A k \in 1 .. n - 1 : ~Covers(holes[k], t)) /\ ~Covers(hole, t)
      BY <1>3, <1>4, <1>5 DEF hole
    <3>2. (\E p \in kept : Covers(p, t)) <=>
             (\E p \in acc.kept : Covers(p, t)) \/ (From(hole) > acc.at /\ Covers(piece, t))
      OBVIOUS
    <3>3. CASE t < acc.at
      <4>1. ~Covers(hole, t) /\ ~Covers(piece, t)
        BY <1>1, <1>7, <2>0, <2>5, <3>3 DEF Covers
      <4> QED
        BY <1>1, <1>2, <1>6, <2>0, <2>5, <3>1, <3>2, <3>3, <4>1
    <3>4. CASE t >= acc.at
      <4>1. \A k \in 1 .. n - 1 : ~Covers(holes[k], t)
        BY <1>2, <2>5, <3>4
      <4>2. ~\E p \in acc.kept : Covers(p, t)
        <5>1. \A p \in acc.kept : To(p) \in Int /\ From(p) \in Int
          BY <1>1 DEF Stretches, From, To
        <5> QED
          BY <1>1, <3>4, <5>1 DEF Covers
      <4>3. t < To(hole) => (Covers(hole, t) <=> ~(From(hole) > acc.at /\ Covers(piece, t)))
        BY <1>1, <1>6, <2>0, <3>4 DEF Covers
      <4>4. t >= To(hole) => ~Covers(hole, t)
        BY <1>6 DEF Covers
      <4> QED
        BY <3>1, <3>2, <4>1, <4>2, <4>3, <4>4
    <3> QED
      BY <3>3, <3>4, <1>1
  <2>6. \A k \in n + 1 .. Len(holes) : To(hole) < From(holes[k])
    BY <1>0, <1>5 DEF hole
  <2>7. From(i) <= To(hole)
    BY <1>0, <1>1, <1>6, <2>0
  <2> HIDE DEF kept
  <2>8. /\ next.at = To(hole) /\ next.end = To(i) /\ next.kept = kept
        /\ next \in [at : Int, end : Int, kept : SUBSET Stretches]
    BY <1>0, <1>6, <2>1, <2>2
  <2> HIDE DEF next
  <2> QED
    BY <2>2, <2>3, <2>4, <2>5, <2>6, <2>7, <2>8 DEF CutUpTo, next, hole
<1> QED
  BY <1>8, <1>9

(* What is left of an interval: its minutes that no hole covers. *)
LEMMA WhatIsLeft ==
    ASSUME NEW i \in Stretches, From(i) < To(i), NEW holes, Separate(holes)
    PROVE  /\ CutHoles(i, holes) \subseteq Stretches /\ IsFiniteSet(CutHoles(i, holes))
           /\ Apart(CutHoles(i, holes))
           /\ \A p \in CutHoles(i, holes) : From(i) <= From(p) /\ From(p) < To(p) /\ To(p) <= To(i)
           /\ \A t \in Int : (\E p \in CutHoles(i, holes) : Covers(p, t)) <=> Covers(i, t) /\ ~CoveredBy(holes, t)
<1> DEFINE N == Len(holes)
           cut == Cutting(i, holes)
           H == {n \in 0 .. N : CutUpTo(cut[n], i, holes, n)}
<1>1. N \in Nat
  BY DEF Separate
<1>2. cut[0] = Whole(i) /\ \A n \in 1 .. N : cut[n] = CutHole(cut[n - 1], holes[n])
  BY <1>1, CuttingTurns
<1>3. From(i) \in Int /\ To(i) \in Int
  BY DEF Stretches, From, To
<1> HIDE DEF cut
<1>4. 0 \in H
  <2>1. CutUpTo(Whole(i), i, holes, 0)
    BY <1>3, FS_EmptySet DEF CutUpTo, Whole, Apart
  <2> QED
    BY <1>1, <1>2, <2>1
<1>5. \A n \in 1 .. N : n - 1 \in H => n \in H
  BY <1>1, <1>2, CutOne
<1> HIDE DEF H
<1>6. \A n \in 0 .. N : n \in H
  BY <1>1, <1>4, <1>5, UpTo, Zenon
<1> DEFINE last == cut[N]
           piece == <<last.at, To(i)>>
           left == CutHoles(i, holes)
<1>7. CutUpTo(last, i, holes, N)
  BY <1>1, <1>6 DEF H
<1>8. left = last.kept \cup (IF last.at < To(i) THEN {piece} ELSE {})
  BY DEF CutHoles, cut
<1> HIDE DEF last, left
<1>9. /\ last.at \in Int /\ From(i) <= last.at /\ last.kept \subseteq Stretches
      /\ IsFiniteSet(last.kept) /\ Apart(last.kept)
      /\ \A p \in last.kept : From(i) <= From(p) /\ From(p) < To(p) /\ To(p) < last.at /\ To(p) <= To(i)
      /\ \A t \in Int : From(i) <= t /\ t < To(i) =>
           /\ t < last.at => ((\E p \in last.kept : Covers(p, t)) <=> ~CoveredBy(holes, t))
           /\ t >= last.at => ~CoveredBy(holes, t)
  BY <1>7 DEF CutUpTo, CoveredBy
<1>10. piece \in Stretches /\ From(piece) = last.at /\ To(piece) = To(i)
  BY <1>3, <1>9 DEF Stretches, From, To
<1> HIDE DEF piece
<1>11. left \subseteq Stretches /\ IsFiniteSet(left)
  <2>1. CASE last.at < To(i)
    <3>1. left = last.kept \cup {piece}
      BY <1>8, <2>1
    <3>2. IsFiniteSet(last.kept \cup {piece})
      BY <1>9, FS_AddElement
    <3> QED
      BY <1>9, <1>10, <3>1, <3>2
  <2>2. CASE ~(last.at < To(i))
    BY <1>8, <1>9, <2>2
  <2> QED
    BY <2>1, <2>2
<1>12. \A p \in last.kept : To(p) \in Int /\ From(p) \in Int
  BY <1>9 DEF Stretches, From, To
<1>13. Apart(left)
  BY <1>3, <1>8, <1>9, <1>10 DEF Apart
<1>14. \A p \in left : From(i) <= From(p) /\ From(p) < To(p) /\ To(p) <= To(i)
  BY <1>3, <1>8, <1>9, <1>10
<1>15. ASSUME NEW t \in Int PROVE (\E p \in left : Covers(p, t)) <=> Covers(i, t) /\ ~CoveredBy(holes, t)
  <2>1. (\E p \in left : Covers(p, t)) <=> (\E p \in last.kept : Covers(p, t)) \/ (last.at < To(i) /\ Covers(piece, t))
    BY <1>8
  <2>2. CASE ~(From(i) <= t /\ t < To(i))
    BY <1>3, <1>14, <1>11, <2>2 DEF Covers, Stretches, From, To
  <2>3. CASE From(i) <= t /\ t < To(i) /\ t < last.at
    BY <1>9, <1>10, <2>1, <2>3 DEF Covers
  <2>4. CASE From(i) <= t /\ t < To(i) /\ t >= last.at
    <3>1. Covers(piece, t) /\ last.at < To(i)
      BY <1>3, <1>9, <1>10, <2>4 DEF Covers
    <3> QED
      BY <1>9, <2>1, <2>4, <3>1 DEF Covers
  <2> QED
    BY <2>2, <2>3, <2>4, <1>9
<1> QED
  BY <1>11, <1>13, <1>14, <1>15 DEF left

LEMMA FiniteImage ==
    ASSUME NEW S, IsFiniteSet(S), NEW f, DOMAIN f = S
    PROVE  IsFiniteSet({f[x] : x \in S})
<1> DEFINE T == {f[x] : x \in S}
<1>1. f \in [S -> T] \/ [x \in S |-> f[x]] \in [S -> T]
  OBVIOUS
<1>2. [x \in S |-> f[x]] \in Surjection(S, T)
  BY DEF Surjection
<1> QED
  BY <1>2, FS_Surjection

(* Taking one set of intervals from another is taking their minutes. *)
LEMMA Subtracted ==
    ASSUME NEW from, IsFiniteSet(from), from \subseteq Stretches,
           NEW remove, IsFiniteSet(remove), remove \subseteq Stretches
    PROVE  LET left == SubtractIntervals(from, remove) IN
              /\ left \subseteq Stretches /\ IsFiniteSet(left) /\ Apart(left)
              /\ \A p \in left : From(p) < To(p)
              /\ \A t \in Int : (\E p \in left : Covers(p, t)) <=>
                                   (\E i \in from : Covers(i, t)) /\ ~\E i \in remove : Covers(i, t)
<1> DEFINE whole == NormalizeIntervals(from)
           holes == NormalizeIntervals(remove)
           N == Len(whole)
           Left(n) == CutHoles(whole[n], holes)
           left == SubtractIntervals(from, remove)
<1>1. /\ Separate(whole) /\ \A t \in Int : CoveredBy(whole, t) <=> \E i \in from : Covers(i, t)
      /\ Separate(holes) /\ \A t \in Int : CoveredBy(holes, t) <=> \E i \in remove : Covers(i, t)
  BY Normalized
<1>2. left = UNION {Left(n) : n \in 1 .. N}
  BY DEF SubtractIntervals
<1> HIDE DEF whole, holes, left
<1>3. N \in Nat /\ \A n \in 1 .. N : whole[n] \in Stretches /\ From(whole[n]) < To(whole[n])
  BY <1>1 DEF Separate
<1>4. \A n \in 1 .. N :
        /\ Left(n) \subseteq Stretches /\ IsFiniteSet(Left(n)) /\ Apart(Left(n))
        /\ \A p \in Left(n) : From(whole[n]) <= From(p) /\ From(p) < To(p) /\ To(p) <= To(whole[n])
        /\ \A t \in Int : (\E p \in Left(n) : Covers(p, t)) <=> Covers(whole[n], t) /\ ~CoveredBy(holes, t)
  BY <1>1, <1>3, WhatIsLeft
<1>5. IsFiniteSet(left)
  <2> DEFINE f == [n \in 1 .. N |-> Left(n)]
  <2>1. IsFiniteSet(1 .. N)
    BY <1>3, FS_Interval
  <2>2. {f[n] : n \in 1 .. N} = {Left(n) : n \in 1 .. N}
    OBVIOUS
  <2>3. IsFiniteSet({f[n] : n \in 1 .. N})
    BY <2>1, FiniteImage
  <2>4. \A T \in {Left(n) : n \in 1 .. N} : IsFiniteSet(T)
    BY <1>4
  <2> HIDE DEF Left
  <2> QED
    BY <1>2, <2>2, <2>3, <2>4, FS_UNION
<1> HIDE DEF Left
<1>6. \A p \in left : \E n \in 1 .. N : p \in Left(n)
  BY <1>2
<1>7. \A n \in 1 .. N : \A p \in Left(n) : p \in left
  BY <1>2
<1>8. left \subseteq Stretches /\ \A p \in left : From(p) < To(p)
  BY <1>4, <1>6
<1>9. Apart(left)
  <2> SUFFICES ASSUME NEW p \in left, NEW q \in left, p # q PROVE To(p) < From(q) \/ To(q) < From(p)
    BY DEF Apart
  <2>1. PICK m \in 1 .. N : p \in Left(m)
    BY <1>6
  <2>2. PICK n \in 1 .. N : q \in Left(n)
    BY <1>6
  <2>3. CASE m = n
    BY <1>4, <2>1, <2>2, <2>3 DEF Apart
  <2>4. \A j \in Stretches : From(j) \in Int /\ To(j) \in Int
    BY DEF Stretches, From, To
  <2>5. /\ To(p) <= To(whole[m]) /\ From(whole[m]) <= From(p)
        /\ To(q) <= To(whole[n]) /\ From(whole[n]) <= From(q)
    BY <1>4, <2>1, <2>2
  <2>6. CASE m < n
    <3>1. To(whole[m]) < From(whole[n])
      BY <1>1, <2>6 DEF Separate
    <3> QED
      BY <1>3, <1>8, <2>4, <2>5, <3>1
  <2>7. CASE n < m
    <3>1. To(whole[n]) < From(whole[m])
      BY <1>1, <2>7 DEF Separate
    <3> QED
      BY <1>3, <1>8, <2>4, <2>5, <3>1
  <2> QED
    BY <2>3, <2>6, <2>7
<1>10. ASSUME NEW t \in Int
       PROVE  (\E p \in left : Covers(p, t)) <=> CoveredBy(whole, t) /\ ~CoveredBy(holes, t)
  <2>1. (\E p \in left : Covers(p, t)) <=> \E n \in 1 .. N : \E p \in Left(n) : Covers(p, t)
    BY <1>6, <1>7
  <2>2. CoveredBy(whole, t) <=> \E n \in 1 .. N : Covers(whole[n], t)
    BY DEF CoveredBy
  <2> QED
    BY <1>4, <2>1, <2>2
<1> QED
  BY <1>1, <1>5, <1>8, <1>9, <1>10 DEF left

(* Minutes in a row that are all covered lie in one interval. *)
LEMMA InOnePiece ==
    ASSUME NEW pieces, pieces \subseteq Stretches, Apart(pieces),
           NEW a \in Int, NEW b \in Int, a < b,
           \A t \in a .. b - 1 : \E p \in pieces : Covers(p, t)
    PROVE  \E p \in pieces : From(p) <= a /\ b <= To(p)
<1>0. \A p \in pieces : From(p) \in Int /\ To(p) \in Int
  BY DEF Stretches, From, To
<1>1. PICK p \in pieces : Covers(p, a)
  OBVIOUS
<1>2. ASSUME To(p) < b PROVE FALSE
  <2>1. To(p) \in a .. b - 1
    BY <1>0, <1>1, <1>2 DEF Covers
  <2>2. PICK q \in pieces : Covers(q, To(p))
    BY <2>1
  <2>3. p # q
    BY <1>0, <2>2 DEF Covers
  <2> QED
    BY <1>0, <1>1, <2>2, <2>3 DEF Covers, Apart
<1>3. From(p) <= a /\ b <= To(p)
  BY <1>0, <1>1, <1>2 DEF Covers
<1> QED
  BY <1>3

---------------------------------------------------------------------------
(* Rows of a day: finite, well formed, and no visit begins on another day. *)
SheetInv ==
    /\ DayPictureTypeOK
    /\ IsFiniteSet(sheet.branchRules) /\ IsFiniteSet(sheet.ownRules) /\ IsFiniteSet(sheet.breaks)
    /\ IsFiniteSet(sheet.opened) /\ IsFiniteSet(sheet.closed) /\ IsFiniteSet(sheet.visits)
    /\ \A v \in sheet.visits : From(v[1]) \in 0 .. DayUnits - 1

DayMinute(t) == 0 <= t /\ t < DayUnits
MeetsSome(set, t) == \E i \in set : Covers(i, t)
Blocked == {BlockedWindow(v) : v \in sheet.visits}

LEMMA MinutesAre ==
    ASSUME NEW set, set \subseteq Stretches
    PROVE  \A t : t \in Minutes(set) <=> t \in Int /\ MeetsSome(set, t)
BY DEF Minutes, MeetsSome, Covers, Stretches, From, To

LEMMA RowsAreIntervals ==
    ASSUME SheetInv
    PROVE  /\ sheet.branchRules \subseteq Stretches /\ sheet.ownRules \subseteq Stretches
           /\ sheet.breaks \subseteq Stretches /\ sheet.opened \subseteq Stretches /\ sheet.closed \subseteq Stretches
           /\ sheet.visits \subseteq Stretches \X Nat
           /\ BaseIntervals \subseteq Stretches /\ IsFiniteSet(BaseIntervals)
           /\ DayUnits \in Nat \ {0} /\ HourUnits \in Nat \ {0} /\ SlotUnits \in Nat \ {0}
<1>1. Spans \subseteq Stretches /\ VisitSpans \subseteq Stretches /\ Buffers \subseteq Nat
  BY DayPictureAssumption DEF Stretches
<1>2. DayUnits \in Nat \ {0} /\ HourUnits \in Nat \ {0} /\ SlotUnits \in Nat \ {0}
  BY DayPictureAssumption
<1>3. /\ sheet.branchRules \subseteq Spans /\ sheet.ownRules \subseteq Spans
      /\ sheet.breaks \subseteq Spans /\ sheet.opened \subseteq Spans /\ sheet.closed \subseteq Spans
      /\ sheet.visits \subseteq VisitSpans \X Buffers
  BY DEF SheetInv, DayPictureTypeOK
<1>4. BaseIntervals \subseteq Stretches /\ IsFiniteSet(BaseIntervals)
  BY <1>1, <1>3 DEF BaseIntervals, SheetInv
<1> QED
  BY <1>1, <1>2, <1>3, <1>4

LEMMA Clamped ==
    ASSUME NEW set, IsFiniteSet(set), set \subseteq Stretches, DayUnits \in Nat
    PROVE  /\ ClampIntervals(set) \subseteq Stretches /\ IsFiniteSet(ClampIntervals(set))
           /\ \A t \in Int : MeetsSome(ClampIntervals(set), t) <=> DayMinute(t) /\ MeetsSome(set, t)
<1> DEFINE f == [j \in set |-> ClampInterval(j)]
           all == {ClampInterval(j) : j \in set}
<1>1. ASSUME NEW j \in set
      PROVE  /\ ClampInterval(j) \in Stretches
             /\ \A t \in Int : Covers(ClampInterval(j), t) <=> DayMinute(t) /\ Covers(j, t)
  BY DEF ClampInterval, Stretches, Covers, From, To, Later, Earlier, DayMinute
<1>2. IsFiniteSet(all)
  <2>1. IsFiniteSet({f[j] : j \in set})
    BY FiniteImage
  <2>2. {f[j] : j \in set} = all
    OBVIOUS
  <2> QED
    BY <2>1, <2>2
<1>3. ClampIntervals(set) \subseteq all
  BY DEF ClampIntervals
<1>4. IsFiniteSet(ClampIntervals(set))
  BY <1>2, <1>3, FS_Subset
<1>5. all \subseteq Stretches
  BY <1>1
<1>6. ASSUME NEW t \in Int PROVE MeetsSome(ClampIntervals(set), t) <=> MeetsSome(all, t)
  <2>1. \A i \in all : Covers(i, t) => To(i) > From(i)
    BY <1>5 DEF Covers, Stretches, From, To
  <2> QED
    BY <2>1 DEF MeetsSome, ClampIntervals
<1>7. ASSUME NEW t \in Int PROVE MeetsSome(all, t) <=> DayMinute(t) /\ MeetsSome(set, t)
  BY <1>1 DEF MeetsSome
<1> QED
  BY <1>3, <1>4, <1>5, <1>6, <1>7

LEMMA OpenTime ==
    ASSUME SheetInv
    PROVE  /\ WorkingIntervals \subseteq Stretches /\ IsFiniteSet(WorkingIntervals)
           /\ \A t \in Int : DayMinute(t) =>
                (MeetsSome(WorkingIntervals, t) <=>
                    /\ MeetsSome(BaseIntervals, t) \/ MeetsSome(sheet.opened, t)
                    /\ ~MeetsSome(sheet.breaks, t) /\ ~MeetsSome(sheet.closed, t))
<1> DEFINE open == BaseIntervals \cup ClampIntervals(sheet.opened)
           shut == sheet.breaks \cup ClampIntervals(sheet.closed)
<1>1. /\ ClampIntervals(sheet.opened) \subseteq Stretches /\ IsFiniteSet(ClampIntervals(sheet.opened))
      /\ \A t \in Int : MeetsSome(ClampIntervals(sheet.opened), t) <=> DayMinute(t) /\ MeetsSome(sheet.opened, t)
      /\ ClampIntervals(sheet.closed) \subseteq Stretches /\ IsFiniteSet(ClampIntervals(sheet.closed))
      /\ \A t \in Int : MeetsSome(ClampIntervals(sheet.closed), t) <=> DayMinute(t) /\ MeetsSome(sheet.closed, t)
  BY RowsAreIntervals, Clamped DEF SheetInv
<1>2. open \subseteq Stretches /\ IsFiniteSet(open) /\ shut \subseteq Stretches /\ IsFiniteSet(shut)
  BY <1>1, RowsAreIntervals, FS_Union DEF SheetInv
<1>3. \A t \in Int : (MeetsSome(open, t) <=> MeetsSome(BaseIntervals, t) \/ MeetsSome(ClampIntervals(sheet.opened), t))
                  /\ (MeetsSome(shut, t) <=> MeetsSome(sheet.breaks, t) \/ MeetsSome(ClampIntervals(sheet.closed), t))
  BY DEF MeetsSome
<1>4. /\ WorkingIntervals \subseteq Stretches /\ IsFiniteSet(WorkingIntervals)
      /\ \A t \in Int : MeetsSome(WorkingIntervals, t) <=> MeetsSome(open, t) /\ ~MeetsSome(shut, t)
  <2> HIDE DEF open, shut
  <2>1. LET left == SubtractIntervals(open, shut) IN
              /\ left \subseteq Stretches /\ IsFiniteSet(left)
              /\ \A t \in Int : (\E p \in left : Covers(p, t)) <=>
                                   (\E i \in open : Covers(i, t)) /\ ~\E i \in shut : Covers(i, t)
    BY <1>2, Subtracted
  <2> QED
    BY <2>1 DEF WorkingIntervals, MeetsSome, open, shut
<1> QED
  BY <1>1, <1>3, <1>4

LEMMA BlockedTime ==
    ASSUME SheetInv
    PROVE  /\ Blocked \subseteq Stretches /\ IsFiniteSet(Blocked)
           /\ \A v \in sheet.visits : \A t \in Int :
                Covers(BlockedWindow(v), t) <=> From(v[1]) - v[2] <= t /\ t < To(v[1]) + v[2]
<1>1. \A v \in sheet.visits : v[1] \in Stretches /\ v[2] \in Nat
  BY RowsAreIntervals
<1>2. \A v \in sheet.visits :
        /\ BlockedWindow(v) \in Stretches
        /\ \A t \in Int : Covers(BlockedWindow(v), t) <=> From(v[1]) - v[2] <= t /\ t < To(v[1]) + v[2]
  BY <1>1 DEF BlockedWindow, Stretches, Covers, From, To
<1> DEFINE f == [v \in sheet.visits |-> BlockedWindow(v)]
<1>3. IsFiniteSet({f[v] : v \in sheet.visits})
  BY FiniteImage DEF SheetInv
<1>4. {f[v] : v \in sheet.visits} = Blocked
  BY DEF Blocked
<1> QED
  BY <1>2, <1>3, <1>4 DEF Blocked

LEMMA FreeTime ==
    ASSUME SheetInv
    PROVE  /\ FreeIntervals \subseteq Stretches /\ Apart(FreeIntervals)
           /\ \A t \in Int : MeetsSome(FreeIntervals, t) <=> MeetsSome(WorkingIntervals, t) /\ ~MeetsSome(Blocked, t)
<1>1. LET left == SubtractIntervals(WorkingIntervals, Blocked) IN
        /\ left \subseteq Stretches /\ Apart(left)
        /\ \A t \in Int : (\E p \in left : Covers(p, t)) <=>
              (\E i \in WorkingIntervals : Covers(i, t)) /\ ~\E i \in Blocked : Covers(i, t)
  BY OpenTime, BlockedTime, Subtracted
<1> QED
  BY <1>1 DEF FreeIntervals, Blocked, MeetsSome

LEMMA WholeHours ==
    ASSUME NEW d \in Nat, NEW h \in Nat \ {0}, d % h = 0, NEW x \in Int, 0 <= x, x < d
    PROVE  /\ (x \div h) * h \in Int /\ 0 <= (x \div h) * h /\ (x \div h) * h + h <= d
<1>1. PICK n \in Int : d = n * h
  <2>1. d = (d \div h) * h
    OBVIOUS
  <2> QED
    BY <2>1
<1>2. PICK q \in Int : q = x \div h
  OBVIOUS
<1>3. q * h <= x /\ x < q * h + h
  BY <1>2, DivBounds
<1>4. 0 <= q
  BY <1>3
<1>5. q < n
  BY <1>1, <1>3
<1>6. q + 1 <= n
  BY <1>5
<1>7. (q + 1) * h <= n * h
  BY <1>6
<1> QED
  BY <1>1, <1>2, <1>4, <1>7

(* The hours drawn lie within the day and hold every minute of it that is  *)
(* open or blocked.                                                        *)
LEMMA ViewHolds ==
    ASSUME SheetInv
    PROVE  /\ From(View) \in Int /\ To(View) \in Int /\ 0 <= From(View) /\ To(View) <= DayUnits
           /\ \A t \in Int : DayMinute(t) /\ (MeetsSome(WorkingIntervals, t) \/ MeetsSome(Blocked, t)) =>
                                From(View) <= t /\ t < To(View)
<1> DEFINE shown == WorkingIntervals \cup Blocked
           N == Len(Covered)
<1>0. DayUnits \in Nat \ {0} /\ HourUnits \in Nat \ {0} /\ DayUnits % HourUnits = 0
  BY DayPictureAssumption
<1>1. shown \subseteq Stretches /\ IsFiniteSet(shown)
  BY OpenTime, BlockedTime, FS_Union
<1>2. \A t \in Int : MeetsSome(shown, t) <=> MeetsSome(WorkingIntervals, t) \/ MeetsSome(Blocked, t)
  BY DEF MeetsSome
<1>3. /\ ClampIntervals(shown) \subseteq Stretches /\ IsFiniteSet(ClampIntervals(shown))
      /\ \A t \in Int : MeetsSome(ClampIntervals(shown), t) <=> DayMinute(t) /\ MeetsSome(shown, t)
  <2> HIDE DEF shown
  <2> QED
    BY <1>0, <1>1, Clamped
<1>4. Covered = NormalizeIntervals(ClampIntervals(shown))
  BY DEF Covered, Blocked
<1> HIDE DEF shown
<1>5. Separate(Covered) /\ \A t \in Int : CoveredBy(Covered, t) <=> DayMinute(t) /\ MeetsSome(shown, t)
  BY <1>3, <1>4, Normalized DEF MeetsSome
<1>6. N \in Nat /\ Covered \in Seq(Stretches)
  BY <1>5 DEF Separate
<1>7. \A k \in 1 .. N : /\ From(Covered[k]) \in Int /\ To(Covered[k]) \in Int /\ From(Covered[k]) < To(Covered[k])
                        /\ 0 <= From(Covered[k]) /\ To(Covered[k]) <= DayUnits
  <2> TAKE k \in 1 .. N
  <2>1. Covered[k] \in Stretches /\ From(Covered[k]) < To(Covered[k])
    BY <1>5 DEF Separate
  <2>2. From(Covered[k]) \in Int /\ To(Covered[k]) \in Int
    BY <2>1 DEF Stretches, From, To
  <2>3. Covers(Covered[k], From(Covered[k])) /\ Covers(Covered[k], To(Covered[k]) - 1)
    BY <2>1, <2>2 DEF Covers
  <2>4. DayMinute(From(Covered[k])) /\ DayMinute(To(Covered[k]) - 1)
    BY <1>5, <2>2, <2>3 DEF CoveredBy
  <2> QED
    BY <1>0, <2>1, <2>2, <2>4 DEF DayMinute
<1>8. CASE Covered = <<>>
  <2>1. View = DefaultView
    BY <1>8 DEF View
  <2>2. From(View) \in 0 .. DayUnits /\ To(View) \in 0 .. DayUnits
    BY <2>1, DayPictureAssumption DEF From, To
  <2>3. \A t \in Int : ~(DayMinute(t) /\ MeetsSome(shown, t))
    BY <1>5, <1>8 DEF CoveredBy
  <2> QED
    BY <1>0, <1>2, <2>2, <2>3
<1>9. CASE Covered # <<>>
  <2>1. 1 \in 1 .. N /\ N \in 1 .. N
    BY <1>6, <1>9
  <2> DEFINE a == From(Covered[1])
             b == To(Covered[N])
             start == (a \div HourUnits) * HourUnits
             end == ((b + HourUnits - 1) \div HourUnits) * HourUnits
  <2>2. View = <<start, Later(Earlier(DayUnits, end), start + HourUnits)>>
    BY <1>9 DEF View
  <2>3. a \in Int /\ b \in Int /\ 0 <= a /\ b <= DayUnits /\ a < DayUnits
    BY <1>0, <1>7, <2>1
  <2> HIDE DEF a, b
  <2>4. start \in Int /\ 0 <= start /\ start + HourUnits <= DayUnits
    BY <1>0, <2>3, WholeHours
  <2>5. start <= a
    BY <1>0, <2>3, DivBounds
  <2>6. end \in Int /\ b <= end
    <3> DEFINE c == b + HourUnits - 1
    <3>1. c \in Int
      BY <1>0, <2>3
    <3>2. (c \div HourUnits) * HourUnits \in Int /\ c < (c \div HourUnits) * HourUnits + HourUnits
      BY <1>0, <3>1, DivBounds
    <3> QED
      BY <1>0, <2>3, <3>2
  <2> HIDE DEF start, end
  <2>7. /\ From(View) = start /\ To(View) \in Int /\ To(View) <= DayUnits
        /\ b <= To(View)
    BY <1>0, <2>2, <2>3, <2>4, <2>6 DEF From, To, Later, Earlier
  <2>8. ASSUME NEW t \in Int, DayMinute(t), MeetsSome(shown, t) PROVE a <= t /\ t < b
    <3>1. PICK k \in 1 .. N : Covers(Covered[k], t)
      BY <1>5, <2>8 DEF CoveredBy
    <3>2. a <= From(Covered[k])
      <4>1. CASE k = 1
        BY <1>7, <2>1, <4>1 DEF a
      <4>2. CASE 1 < k
        BY <1>5, <1>7, <2>1, <4>2 DEF a, Separate
      <4> QED
        BY <1>6, <4>1, <4>2
    <3>3. To(Covered[k]) <= b
      <4>1. CASE k = N
        BY <1>7, <2>1, <4>1 DEF b
      <4>2. CASE k < N
        BY <1>5, <1>7, <2>1, <4>2 DEF b, Separate
      <4> QED
        BY <1>6, <4>1, <4>2
    <3> QED
      BY <1>7, <2>3, <3>1, <3>2, <3>3 DEF Covers
  <2>9. \A t \in Int : DayMinute(t) /\ MeetsSome(shown, t) => From(View) <= t /\ t < To(View)
    BY <2>3, <2>4, <2>5, <2>7, <2>8
  <2> QED
    BY <1>2, <2>4, <2>7, <2>9
<1> QED
  BY <1>8, <1>9

(***************************************************************************)
(* A slot is offered exactly if every minute of it is open and blocked by  *)
(* no visit.                                                               *)
(***************************************************************************)
LEMMA GapsAreFree == ASSUME SheetInv PROVE OffersAreFree
<1> DEFINE open == (Minutes(BaseIntervals) \cup Minutes(sheet.opened))
                      \ (Minutes(sheet.breaks) \cup Minutes(sheet.closed))
           taken == UNION {From(v[1]) - v[2] .. To(v[1]) + v[2] - 1 : v \in sheet.visits}
           free == open \ taken
           Whole2(slot) == slot % SlotUnits = 0 /\ slot .. slot + SlotUnits - 1 \subseteq free \cap 0 .. DayUnits - 1
<1>0. DayUnits \in Nat \ {0} /\ SlotUnits \in Nat \ {0}
  BY RowsAreIntervals
<1>1. \A t : t \in open <=> /\ t \in Int /\ (MeetsSome(BaseIntervals, t) \/ MeetsSome(sheet.opened, t))
                            /\ ~MeetsSome(sheet.breaks, t) /\ ~MeetsSome(sheet.closed, t)
  BY MinutesAre, RowsAreIntervals
<1>2. \A t \in Int : t \in taken <=> MeetsSome(Blocked, t)
  <2>1. \A v \in sheet.visits : \A t \in Int :
           t \in From(v[1]) - v[2] .. To(v[1]) + v[2] - 1 <=> Covers(BlockedWindow(v), t)
    <3>1. \A v \in sheet.visits : From(v[1]) \in Int /\ To(v[1]) \in Int /\ v[2] \in Nat
      BY RowsAreIntervals DEF Stretches, From, To
    <3> QED
      BY <3>1, BlockedTime
  <2> QED
    BY <2>1 DEF MeetsSome, Blocked
<1> HIDE DEF open, taken
<1>3. \A t \in Int : DayMinute(t) => (t \in free <=> MeetsSome(FreeIntervals, t))
  BY <1>1, <1>2, OpenTime, FreeTime
<1>4. \A t \in Int : DayMinute(t) <=> t \in 0 .. DayUnits - 1
  BY <1>0 DEF DayMinute
<1>5. FreeIntervals \subseteq Stretches /\ Apart(FreeIntervals)
  BY FreeTime
<1>6. \A i \in FreeIntervals : From(i) \in Int /\ To(i) \in Int
  BY <1>5 DEF Stretches, From, To
<1>7. From(View) \in Int /\ To(View) \in Int /\ 0 <= From(View) /\ To(View) <= DayUnits
  BY ViewHolds
<1> HIDE DEF free
<1>8. ASSUME NEW slot \in FreeSlots PROVE slot \in 0 .. DayUnits - 1 /\ Whole2(slot)
  <2>1. PICK i \in FreeIntervals :
          /\ slot \in 0 .. DayUnits /\ slot % SlotUnits = 0
          /\ slot >= Later(From(i), From(View)) /\ slot + SlotUnits <= Earlier(To(i), To(View))
    BY <1>8 DEF FreeSlots
  <2>2. /\ slot \in Int /\ slot + SlotUnits \in Int /\ From(i) <= slot /\ slot + SlotUnits <= To(i)
        /\ 0 <= slot /\ slot + SlotUnits <= DayUnits
    BY <1>0, <1>6, <1>7, <2>1 DEF Later, Earlier
  <2>3. ASSUME NEW t \in slot .. slot + SlotUnits - 1 PROVE t \in free \cap 0 .. DayUnits - 1
    <3>1. t \in Int /\ Covers(i, t) /\ DayMinute(t)
      BY <1>0, <1>6, <2>2 DEF Covers, DayMinute
    <3> QED
      BY <1>3, <1>4, <3>1 DEF MeetsSome
  <2> QED
    BY <1>0, <2>1, <2>2, <2>3
<1>9. ASSUME NEW slot \in 0 .. DayUnits - 1, Whole2(slot) PROVE slot \in FreeSlots
  <2>1. slot \in Int /\ slot + SlotUnits \in Int /\ slot < slot + SlotUnits
    BY <1>0
  <2>2. \A t \in slot .. slot + SlotUnits - 1 : t \in Int /\ t \in free /\ DayMinute(t)
    BY <1>4, <1>9
  <2>3. \A t \in slot .. slot + SlotUnits - 1 : MeetsSome(FreeIntervals, t)
    BY <1>3, <2>2
  <2>4. PICK i \in FreeIntervals : From(i) <= slot /\ slot + SlotUnits <= To(i)
    <3> DEFINE stop == slot + SlotUnits
    <3>1. \A t \in slot .. stop - 1 : \E p \in FreeIntervals : Covers(p, t)
      <4>1. stop - 1 = slot + SlotUnits - 1
        BY <1>0, <2>1
      <4> QED
        BY <2>3, <4>1, Zenon DEF MeetsSome
    <3>2. stop \in Int /\ slot < stop
      BY <2>1
    <3> HIDE DEF stop
    <3>3. \E p \in FreeIntervals : From(p) <= slot /\ stop <= To(p)
      BY <1>5, <2>1, <3>1, <3>2, InOnePiece
    <3> QED
      BY <3>3 DEF stop
  <2>5. \A t \in slot .. slot + SlotUnits - 1 : From(View) <= t /\ t < To(View)
    BY <2>2, <2>3, FreeTime, ViewHolds
  <2>6. slot \in slot .. slot + SlotUnits - 1 /\ slot + SlotUnits - 1 \in slot .. slot + SlotUnits - 1
    BY <1>0, <2>1
  <2>7. From(View) <= slot /\ slot + SlotUnits - 1 < To(View)
    BY <2>5, <2>6
  <2>8. slot >= Later(From(i), From(View)) /\ slot + SlotUnits <= Earlier(To(i), To(View))
    BY <1>0, <1>6, <1>7, <2>1, <2>4, <2>7 DEF Later, Earlier
  <2>9. slot \in 0 .. DayUnits /\ slot % SlotUnits = 0
    BY <1>0, <1>9
  <2> QED
    BY <2>4, <2>8, <2>9 DEF FreeSlots
<1> HIDE DEF Whole2
<1>10. FreeSlots \subseteq 0 .. DayUnits
  BY DEF FreeSlots
<1>11. FreeSlots = {slot \in 0 .. DayUnits - 1 : Whole2(slot)}
  BY <1>8, <1>9
<1> QED
  BY <1>11 DEF OffersAreFree, Whole2, free, open, taken

(***************************************************************************)
(* Lanes, after n visits of a line: every visit has a lane; the last visit *)
(* of its lane is itself or begins when it is over; and of two visits in   *)
(* one lane the earlier is over when the later begins.                     *)
(***************************************************************************)
VisitLine(line, N) ==
    /\ line \in [1 .. N -> Stretches \X Nat]
    /\ \A m, n \in 1 .. N : m < n => From(line[m][1]) <= From(line[n][1])
Span(line, n) == line[n][1]
LanesUpTo(acc, line, n) ==
    /\ acc.lanes \in Seq([last : Stretches]) /\ acc.laneOf \in Seq(Nat) /\ Len(acc.laneOf) = n
    /\ \A m \in 1 .. n : acc.laneOf[m] + 1 \in 1 .. Len(acc.lanes)
    /\ \A k \in 1 .. Len(acc.lanes) : \E m \in 1 .. n : acc.lanes[k].last = Span(line, m)
    /\ \A m \in 1 .. n : LET last == acc.lanes[acc.laneOf[m] + 1].last IN
          Span(line, m) = last \/ To(Span(line, m)) <= From(last)
    /\ \A m, k \in 1 .. n : m < k /\ acc.laneOf[m] = acc.laneOf[k] => To(Span(line, m)) <= From(Span(line, k))

(* One more visit keeps that so, whether it reuses a lane or opens one. *)
LEMMA PlaceOne ==
    ASSUME NEW N \in Nat, NEW line, VisitLine(line, N), NEW n \in 1 .. N,
           NEW acc, LanesUpTo(acc, line, n - 1)
    PROVE  LanesUpTo(TakeLane(acc, line[n]), line, n)
<1> DEFINE free == {k \in 1 .. Len(acc.lanes) : LaneFree(acc.lanes[k], line[n])}
           L == Len(acc.lanes)
           taken == IF free = {} THEN L + 1 ELSE CHOOSE k \in free : \A l \in free : k <= l
           next == TakeLane(acc, line[n])
           span == Span(line, n)
<1>1. /\ L \in Nat /\ Len(acc.laneOf) = n - 1 /\ n \in Nat /\ n - 1 \in Nat
      /\ acc.lanes \in Seq([last : Stretches]) /\ acc.laneOf \in Seq(Nat)
      /\ \A k \in 1 .. L : acc.lanes[k].last \in Stretches
      /\ \A m \in 1 .. n - 1 : acc.laneOf[m] \in Nat
  <2>1. /\ Len(acc.laneOf) = n - 1
        /\ acc.lanes \in Seq([last : Stretches]) /\ acc.laneOf \in Seq(Nat)
    BY DEF LanesUpTo
  <2>2. L \in Nat /\ \A k \in 1 .. L : acc.lanes[k] \in [last : Stretches]
    <3>1. ASSUME NEW T, NEW s \in Seq(T) PROVE Len(s) \in Nat /\ \A k \in 1 .. Len(s) : s[k] \in T
      OBVIOUS
    <3> QED
      BY <2>1, <3>1, Zenon
  <2> QED
    BY <2>1, <2>2, SMTT(30)
<1>2. /\ \A m \in 1 .. N : Span(line, m) \in Stretches /\ From(Span(line, m)) \in Int /\ To(Span(line, m)) \in Int
      /\ \A m \in 1 .. n - 1 : m \in 1 .. N /\ From(Span(line, m)) <= From(span)
      /\ span = line[n][1]
  <2>1. \A m \in 1 .. N : line[m] \in Stretches \X Nat
    BY DEF VisitLine
  <2>2. \A m \in 1 .. N : Span(line, m) \in Stretches
    BY <2>1 DEF Span
  <2>3. \A m \in 1 .. n - 1 : m \in 1 .. N /\ m < n
    OBVIOUS
  <2>4. \A m \in 1 .. n - 1 : From(Span(line, m)) <= From(span)
    BY <2>3 DEF VisitLine, Span
  <2> QED
    BY <2>2, <2>3, <2>4 DEF Span, Stretches, From, To
<1>3. /\ next.lanes = IF free = {} THEN Append(acc.lanes, [last |-> span]) ELSE [acc.lanes EXCEPT ![taken] = [last |-> span]]
      /\ next.laneOf = Append(acc.laneOf, taken - 1)
  BY DEF TakeLane, Span
<1>4. free # {} => taken \in free
  <2>1. free # {} => \E k \in free : \A l \in free : k <= l
    <3>1. free \subseteq Nat
      OBVIOUS
    <3> HIDE DEF free
    <3> QED
      BY <3>1, LeastOf
  <2> HIDE DEF free
  <2> QED
    BY <2>1
<1>5. taken \in Nat \ {0} /\ (free = {} => taken = L + 1) /\ (free # {} => taken \in 1 .. L)
  <2>1. free \subseteq 1 .. L
    OBVIOUS
  <2> HIDE DEF free
  <2>2. free # {} => taken \in 1 .. L
    BY <1>4, <2>1
  <2>3. free = {} => taken = L + 1
    OBVIOUS
  <2> HIDE DEF taken
  <2> QED
    BY <1>1, <2>2, <2>3
<1>6. free # {} => To(acc.lanes[taken].last) <= From(span)
  BY <1>2, <1>4 DEF LaneFree
<1> HIDE DEF taken, next, span, free
<1>7. /\ next.lanes \in Seq([last : Stretches])
      /\ Len(next.lanes) = IF free = {} THEN L + 1 ELSE L
      /\ taken \in 1 .. Len(next.lanes)
      /\ next.lanes[taken].last = span
      /\ \A k \in 1 .. Len(next.lanes) : k # taken => k \in 1 .. L /\ next.lanes[k] = acc.lanes[k]
  <2>1. [last |-> span] \in [last : Stretches]
    BY <1>2 DEF span
  <2>2. CASE free = {}
    BY <1>1, <1>3, <1>5, <2>1, <2>2
  <2>3. CASE free # {}
    <3>1. next.lanes = [acc.lanes EXCEPT ![taken] = [last |-> span]] /\ taken \in 1 .. L
      BY <1>3, <1>5, <2>3
    <3>2. /\ next.lanes \in Seq([last : Stretches]) /\ Len(next.lanes) = L /\ next.lanes[taken] = [last |-> span]
          /\ \A k \in 1 .. L : k # taken => next.lanes[k] = acc.lanes[k]
      BY <1>1, <2>1, <3>1
    <3> QED
      BY <2>3, <3>1, <3>2
  <2> QED
    BY <2>2, <2>3
<1>8. /\ next.laneOf \in Seq(Nat) /\ Len(next.laneOf) = n /\ next.laneOf[n] = taken - 1
      /\ \A m \in 1 .. n - 1 : next.laneOf[m] = acc.laneOf[m]
  BY <1>1, <1>3, <1>5
<1>9. \A m \in 1 .. n : m = n \/ m \in 1 .. n - 1
  BY <1>1
<1>10. /\ \A m \in 1 .. n - 1 : acc.laneOf[m] + 1 \in 1 .. L
       /\ \A k \in 1 .. L : \E m \in 1 .. n - 1 : acc.lanes[k].last = Span(line, m)
       /\ \A m \in 1 .. n - 1 : \/ Span(line, m) = acc.lanes[acc.laneOf[m] + 1].last
                                \/ To(Span(line, m)) <= From(acc.lanes[acc.laneOf[m] + 1].last)
       /\ \A m, k \in 1 .. n - 1 : m < k /\ acc.laneOf[m] = acc.laneOf[k] => To(Span(line, m)) <= From(Span(line, k))
  BY DEF LanesUpTo
<1>11. L <= Len(next.lanes) /\ Len(next.lanes) \in Nat
  BY <1>1, <1>7
<1>12. \A m \in 1 .. n : next.laneOf[m] + 1 \in 1 .. Len(next.lanes)
  <2> TAKE m \in 1 .. n
  <2>1. CASE m = n
    <3>1. next.laneOf[m] + 1 = taken
      BY <1>5, <1>8, <2>1
    <3> QED
      BY <1>7, <3>1
  <2>2. CASE m \in 1 .. n - 1
    <3>1. next.laneOf[m] = acc.laneOf[m] /\ acc.laneOf[m] + 1 \in 1 .. L
      BY <1>8, <1>10, <2>2
    <3>2. 1 .. L \subseteq 1 .. Len(next.lanes)
      BY <1>1, <1>11
    <3> QED
      BY <3>1, <3>2
  <2> QED
    BY <1>9, <2>1, <2>2
<1>13. \A k \in 1 .. Len(next.lanes) : \E m \in 1 .. n : next.lanes[k].last = Span(line, m)
  <2> TAKE k \in 1 .. Len(next.lanes)
  <2>1. CASE k = taken
    <3>1. next.lanes[k].last = Span(line, n)
      BY <1>7, <2>1 DEF span
    <3>2. n \in 1 .. n
      BY <1>1
    <3> QED
      BY <3>1, <3>2
  <2>2. CASE k # taken
    <3>1. k \in 1 .. L /\ next.lanes[k] = acc.lanes[k]
      BY <1>7, <2>2
    <3>2. PICK m \in 1 .. n - 1 : acc.lanes[k].last = Span(line, m)
      BY <1>10, <3>1
    <3>3. m \in 1 .. n
      BY <1>1
    <3>4. next.lanes[k].last = Span(line, m)
      BY <3>1, <3>2
    <3> QED
      BY <3>3, <3>4
  <2> QED
    BY <2>1, <2>2
(* A visit whose lane is taken over is over by then. *)
<1>14. ASSUME NEW m \in 1 .. n - 1, acc.laneOf[m] + 1 = taken PROVE To(Span(line, m)) <= From(span)
  <2>1. free # {} /\ taken \in 1 .. L
    <3>1. taken \in 1 .. L
      BY <1>10, <1>14
    <3>2. L \in Nat
      BY <1>1
    <3> HIDE DEF L
    <3> QED
      BY <3>1, <3>2, <1>5
  <2>2. PICK p \in 1 .. n - 1 : acc.lanes[taken].last = Span(line, p)
    BY <1>10, <2>1
  <2>3. From(Span(line, p)) <= From(span) /\ To(Span(line, p)) <= From(span)
    BY <1>2, <1>6, <2>1, <2>2
  <2>4. Span(line, m) = Span(line, p) \/ To(Span(line, m)) <= From(Span(line, p))
    BY <1>10, <1>14, <2>2
  <2>5. /\ To(Span(line, m)) \in Int /\ From(Span(line, p)) \in Int /\ To(Span(line, p)) \in Int
        /\ From(span) \in Int
    BY <1>2 DEF span
  <2> QED
    BY <2>3, <2>4, <2>5
<1>15. \A m \in 1 .. n : LET last == next.lanes[next.laneOf[m] + 1].last IN
          Span(line, m) = last \/ To(Span(line, m)) <= From(last)
  <2> TAKE m \in 1 .. n
  <2>1. CASE m = n
    <3>1. next.laneOf[m] + 1 = taken
      BY <1>5, <1>8, <2>1
    <3> QED
      BY <1>7, <2>1, <3>1 DEF span
  <2>2. CASE m \in 1 .. n - 1 /\ acc.laneOf[m] + 1 = taken
    BY <1>7, <1>8, <1>14, <2>2
  <2>3. CASE m \in 1 .. n - 1 /\ acc.laneOf[m] + 1 # taken
    <3>1. next.laneOf[m] = acc.laneOf[m] /\ next.lanes[acc.laneOf[m] + 1] = acc.lanes[acc.laneOf[m] + 1]
      BY <1>7, <1>8, <1>10, <1>11, <1>12, <2>3
    <3> QED
      BY <1>10, <2>3, <3>1
  <2> QED
    BY <1>9, <2>1, <2>2, <2>3
<1>16. \A m, k \in 1 .. n : m < k /\ next.laneOf[m] = next.laneOf[k] => To(Span(line, m)) <= From(Span(line, k))
  <2> SUFFICES ASSUME NEW m \in 1 .. n, NEW k \in 1 .. n, m < k, next.laneOf[m] = next.laneOf[k]
               PROVE  To(Span(line, m)) <= From(Span(line, k))
    OBVIOUS
  <2>1. m \in 1 .. n - 1
    OBVIOUS
  <2>2. CASE k = n
    <3>1. acc.laneOf[m] + 1 = taken
      <4>1. acc.laneOf[m] = taken - 1
        BY <1>8, <2>1, <2>2
      <4> QED
        BY <1>5, <4>1
    <3> QED
      BY <1>14, <2>1, <2>2, <3>1 DEF span
  <2>3. CASE k \in 1 .. n - 1
    BY <1>8, <1>10, <2>1, <2>3
  <2> QED
    BY <1>9, <2>2, <2>3
<1> QED
  BY <1>7, <1>8, <1>12, <1>13, <1>15, <1>16, Zenon DEF LanesUpTo, next

LEMMA LanesKeepApart ==
    ASSUME NEW N \in Nat, NEW line, VisitLine(line, N)
    PROVE  LET laneOf == Placing(line)[Len(line)].laneOf IN
              /\ laneOf \in [1 .. N -> Nat]
              /\ \A m, k \in 1 .. N : m < k /\ laneOf[m] = laneOf[k] => To(Span(line, m)) <= From(Span(line, k))
<1> DEFINE S == {n \in 0 .. N : LanesUpTo(Placing(line)[n], line, n)}
<1>1. Len(line) = N
  BY DEF VisitLine
<1>2. /\ Placing(line)[0] = [lanes |-> <<>>, laneOf |-> <<>>]
      /\ \A n \in 1 .. N : Placing(line)[n] = TakeLane(Placing(line)[n - 1], line[n])
  BY <1>1, PlacingTurns
<1>3. 0 \in S
  <2>1. LanesUpTo([lanes |-> <<>>, laneOf |-> <<>>], line, 0)
    BY DEF LanesUpTo
  <2> QED
    BY <1>2, <2>1
<1>4. ASSUME NEW n \in 1 .. N, n - 1 \in S PROVE n \in S
  BY <1>2, <1>4, PlaceOne
<1> HIDE DEF S
<1>5. \A n \in 0 .. N : n \in S
  BY <1>3, <1>4, UpTo, Zenon
<1>6. LanesUpTo(Placing(line)[N], line, N)
  BY <1>5 DEF S
<1> DEFINE laneOf == Placing(line)[N].laneOf
<1>7. /\ laneOf \in Seq(Nat) /\ Len(laneOf) = N
      /\ \A m, k \in 1 .. N : m < k /\ laneOf[m] = laneOf[k] => To(Span(line, m)) <= From(Span(line, k))
  BY <1>6 DEF LanesUpTo
<1> HIDE DEF laneOf
<1>8. laneOf \in [1 .. N -> Nat]
  BY <1>7
<1> QED
  BY <1>1, <1>7, <1>8 DEF laneOf

(***************************************************************************)
(* Runs, after n visits of a line: they part the visits among themselves; a *)
(* run has at least the lanes of its visits and lasts until the last of     *)
(* them is over; and whatever lies in an earlier run is over when a visit   *)
(* of a later one begins.                                                   *)
(***************************************************************************)
RunRows == [end : Int, lanes : Nat, members : SUBSET Nat]
RunsUpTo(runs, line, laneOf, n) ==
    /\ runs \in Seq(RunRows)
    /\ \A k \in 1 .. Len(runs) : runs[k].members # {} /\ runs[k].members \subseteq 1 .. n
    /\ \A m \in 1 .. n : \E k \in 1 .. Len(runs) : m \in runs[k].members
    /\ \A k, l \in 1 .. Len(runs) : k # l => runs[k].members \cap runs[l].members = {}
    /\ \A k \in 1 .. Len(runs) : \A m \in runs[k].members :
          laneOf[m] < runs[k].lanes /\ To(Span(line, m)) <= runs[k].end
    /\ \A k, l \in 1 .. Len(runs) : k < l =>
          \A m \in runs[k].members : \A p \in runs[l].members : To(Span(line, m)) <= From(Span(line, p))

LEMMA LineSpans ==
    ASSUME NEW N \in Nat, NEW line, VisitLine(line, N)
    PROVE  /\ \A m \in 1 .. N : /\ Span(line, m) = line[m][1] /\ Span(line, m) \in Stretches
                                /\ From(Span(line, m)) \in Int /\ To(Span(line, m)) \in Int
           /\ \A m, n \in 1 .. N : m < n => From(Span(line, m)) <= From(Span(line, n))
<1>1. \A m \in 1 .. N : line[m] \in Stretches \X Nat
  BY DEF VisitLine
<1>2. \A m \in 1 .. N : Span(line, m) \in Stretches /\ Span(line, m) = line[m][1]
  BY <1>1 DEF Span
<1>3. \A m \in 1 .. N : From(Span(line, m)) \in Int /\ To(Span(line, m)) \in Int
  BY <1>2 DEF Stretches, From, To
<1> QED
  BY <1>2, <1>3 DEF VisitLine

(* One more visit keeps that so: it begins before its run is over and joins *)
(* it, or the run is over and it begins another.                            *)
LEMMA ExtendOne ==
    ASSUME NEW N \in Nat, NEW line, VisitLine(line, N), NEW laneOf \in [1 .. N -> Nat], NEW n \in 1 .. N,
           NEW runs, RunsUpTo(runs, line, laneOf, n - 1)
    PROVE  RunsUpTo(ExtendRun(runs, line[n], laneOf[n], n), line, laneOf, n)
<1> DEFINE R == Len(runs)
           run == runs[R]
           next == ExtendRun(runs, line[n], laneOf[n], n)
           span == Span(line, n)
           joins == runs # <<>> /\ From(span) < run.end
<1>1. runs \in Seq(RunRows) /\ R \in Nat
  BY DEF RunsUpTo
<1>2. \A k \in 1 .. R : /\ runs[k] \in RunRows /\ runs[k].end \in Int /\ runs[k].lanes \in Nat
                        /\ runs[k].members \subseteq Nat
  <2>1. ASSUME NEW T, NEW s \in Seq(T) PROVE \A k \in 1 .. Len(s) : s[k] \in T
    OBVIOUS
  <2>2. \A k \in 1 .. R : runs[k] \in RunRows
    BY <1>1, <2>1, Zenon
  <2> QED
    BY <2>2 DEF RunRows
<1>3. /\ \A m \in 1 .. N : From(Span(line, m)) \in Int /\ To(Span(line, m)) \in Int
      /\ \A m \in 1 .. n - 1 : m \in 1 .. N /\ m \in Nat /\ m # n /\ From(Span(line, m)) <= From(span)
      /\ span = line[n][1] /\ laneOf[n] \in Nat /\ n \in Nat /\ span \in Stretches
      /\ From(span) \in Int /\ To(span) \in Int
  BY LineSpans
<1>4. /\ \A k \in 1 .. R : runs[k].members # {} /\ runs[k].members \subseteq 1 .. n - 1
      /\ \A m \in 1 .. n - 1 : \E k \in 1 .. R : m \in runs[k].members
      /\ \A k, l \in 1 .. R : k # l => runs[k].members \cap runs[l].members = {}
      /\ \A k \in 1 .. R : \A m \in runs[k].members : laneOf[m] < runs[k].lanes /\ To(Span(line, m)) <= runs[k].end
      /\ \A k, l \in 1 .. R : k < l =>
            \A m \in runs[k].members : \A p \in runs[l].members : To(Span(line, m)) <= From(Span(line, p))
  BY DEF RunsUpTo
(* What lies in a run before the last one is over when visit n begins. *)
<1>5. ASSUME NEW k \in 1 .. R, k < R, NEW m \in runs[k].members PROVE To(Span(line, m)) <= From(span)
  <2>1. R \in 1 .. R
    BY <1>1, <1>5
  <2>2. PICK p \in runs[R].members : p \in 1 .. n - 1
    <3>1. runs[R].members # {} /\ runs[R].members \subseteq 1 .. n - 1
      BY <1>4, <2>1
    <3> HIDE DEF R
    <3> QED
      BY <3>1
  <2>3. To(Span(line, m)) <= From(Span(line, p)) /\ From(Span(line, p)) <= From(span)
    BY <1>3, <1>4, <1>5, <2>1, <2>2
  <2>4. To(Span(line, m)) \in Int /\ From(Span(line, p)) \in Int
    BY <1>3, <1>4, <2>2
  <2> QED
    BY <1>3, <2>3, <2>4
<1> HIDE DEF span
<1>6. CASE joins
  <2> DEFINE grown == [end |-> Later(run.end, To(span)), lanes |-> Later(run.lanes, laneOf[n] + 1),
                       members |-> run.members \cup {n}]
  <2>1. R \in 1 .. R /\ run \in RunRows /\ run.end \in Int /\ run.lanes \in Nat /\ run.members \subseteq Nat
    <3>1. R \in 1 .. R
      BY <1>1, <1>6
    <3> QED
      BY <1>2, <3>1
  <2>2. /\ grown.end \in Int /\ grown.end >= run.end /\ grown.end >= To(span)
        /\ grown.lanes \in Nat /\ grown.lanes >= run.lanes /\ grown.lanes > laneOf[n]
        /\ grown.members = run.members \cup {n}
    <3>1. ASSUME NEW a \in Int, NEW b \in Int
          PROVE  Later(a, b) \in Int /\ Later(a, b) >= a /\ Later(a, b) >= b
      BY DEF Later
    <3>2. ASSUME NEW a \in Nat, NEW b \in Nat
          PROVE  Later(a, b + 1) \in Nat /\ Later(a, b + 1) >= a /\ Later(a, b + 1) > b
      BY DEF Later
    <3>3. Later(run.end, To(span)) \in Int /\ Later(run.end, To(span)) >= run.end
            /\ Later(run.end, To(span)) >= To(span)
      BY <1>3, <2>1, <3>1
    <3>4. Later(run.lanes, laneOf[n] + 1) \in Nat /\ Later(run.lanes, laneOf[n] + 1) >= run.lanes
            /\ Later(run.lanes, laneOf[n] + 1) > laneOf[n]
      BY <1>3, <2>1, <3>2
    <3> QED
      BY <3>3, <3>4
  <2>3. grown \in RunRows
    BY <1>3, <2>1 DEF Later, RunRows
  <2>4. next = [runs EXCEPT ![R] = grown]
    BY <1>3, <1>6 DEF ExtendRun
  <2> HIDE DEF grown, next
  <2>5. /\ next \in Seq(RunRows) /\ Len(next) = R /\ next[R] = grown
        /\ \A k \in 1 .. R : k # R => next[k] = runs[k]
    BY <1>1, <2>1, <2>3, <2>4
  <2>6. \A k \in 1 .. R : next[k].members # {} /\ next[k].members \subseteq 1 .. n
    <3> TAKE k \in 1 .. R
    <3>1. runs[k].members # {} /\ runs[k].members \subseteq 1 .. n /\ n \in 1 .. n
      BY <1>3, <1>4
    <3> QED
      BY <2>2, <2>5, <3>1
  <2>7. \A m \in 1 .. n : \E k \in 1 .. R : m \in next[k].members
    <3> TAKE m \in 1 .. n
    <3>1. CASE m = n
      BY <2>1, <2>2, <2>5, <3>1
    <3>2. CASE m # n
      <4>0. m \in 1 .. n - 1
        BY <1>3, <3>2
      <4>1. PICK k \in 1 .. R : m \in runs[k].members
        BY <1>4, <4>0
      <4> QED
        BY <2>2, <2>5, <4>1
    <3> QED
      BY <3>1, <3>2
  <2>8. \A k \in 1 .. R : n \notin runs[k].members
    BY <1>3, <1>4
  <2>9. \A k, l \in 1 .. R : k # l => next[k].members \cap next[l].members = {}
    <3> SUFFICES ASSUME NEW k \in 1 .. R, NEW l \in 1 .. R, k # l PROVE next[k].members \cap next[l].members = {}
      OBVIOUS
    <3>1. runs[k].members \cap runs[l].members = {} /\ n \notin runs[k].members /\ n \notin runs[l].members
      BY <1>4, <2>8
    <3> QED
      BY <2>2, <2>5, <3>1
  <2>10. \A k \in 1 .. R : \A m \in next[k].members : laneOf[m] < next[k].lanes /\ To(Span(line, m)) <= next[k].end
    <3> SUFFICES ASSUME NEW k \in 1 .. R, NEW m \in next[k].members
                 PROVE  laneOf[m] < next[k].lanes /\ To(Span(line, m)) <= next[k].end
      OBVIOUS
    <3>1. CASE k # R
      BY <1>4, <2>5, <3>1
    <3>2. CASE k = R /\ m = n
      BY <2>2, <2>5, <3>2 DEF span
    <3>3. CASE k = R /\ m # n
      <4>1. m \in run.members
        BY <2>2, <2>5, <3>3
      <4>2. laneOf[m] < run.lanes /\ To(Span(line, m)) <= run.end
        BY <1>4, <2>1, <4>1
      <4>3. laneOf[m] \in Nat /\ To(Span(line, m)) \in Int
        BY <1>3, <1>4, <2>1, <4>1
      <4>4. laneOf[m] < grown.lanes /\ To(Span(line, m)) <= grown.end
        BY <2>1, <2>2, <4>2, <4>3, SMTT(30)
      <4>5. next[k] = grown
        BY <2>5, <3>3
      <4> QED
        BY <4>4, <4>5
    <3> QED
      BY <3>1, <3>2, <3>3
  <2>11. \A k, l \in 1 .. R : k < l =>
            \A m \in next[k].members : \A p \in next[l].members : To(Span(line, m)) <= From(Span(line, p))
    <3> SUFFICES ASSUME NEW k \in 1 .. R, NEW l \in 1 .. R, k < l,
                        NEW m \in next[k].members, NEW p \in next[l].members
                 PROVE  To(Span(line, m)) <= From(Span(line, p))
      OBVIOUS
    <3>1. k < R /\ m \in runs[k].members
      BY <1>1, <2>5
    <3>2. CASE p = n
      BY <1>5, <3>1, <3>2 DEF span
    <3>3. CASE p # n
      <4>1. p \in runs[l].members
        BY <2>2, <2>5, <3>3
      <4> QED
        BY <1>4, <3>1, <4>1
    <3> QED
      BY <3>2, <3>3
  <2> QED
    BY <2>5, <2>6, <2>7, <2>9, <2>10, <2>11, Zenon DEF RunsUpTo, next
<1>7. CASE ~joins
  <2> DEFINE opened == [end |-> To(span), lanes |-> laneOf[n] + 1, members |-> {n}]
  <2>1. opened \in RunRows /\ opened.members = {n} /\ opened.lanes = laneOf[n] + 1 /\ opened.end = To(span)
    BY <1>3 DEF RunRows
  <2>2. next = Append(runs, opened)
    BY <1>3, <1>7 DEF ExtendRun
  <2> HIDE DEF opened, next
  <2>3. /\ next \in Seq(RunRows) /\ Len(next) = R + 1 /\ next[R + 1] = opened
        /\ \A k \in 1 .. R : next[k] = runs[k]
    BY <1>1, <2>1, <2>2
  <2>4. \A k \in 1 .. R + 1 : k = R + 1 \/ k \in 1 .. R
    BY <1>1
  <2>5. ASSUME NEW k \in 1 .. R, NEW m \in runs[k].members PROVE To(Span(line, m)) <= From(span)
    <3>1. CASE k < R
      BY <1>5, <3>1
    <3>2. CASE k = R
      <4>1. run.end <= From(span) /\ run.end \in Int
        BY <1>1, <1>2, <1>3, <1>7, <3>2, SMTT(30)
      <4>2. To(Span(line, m)) <= run.end /\ To(Span(line, m)) \in Int
        BY <1>3, <1>4, <3>2
      <4> QED
        BY <1>3, <4>1, <4>2
    <3> QED
      BY <1>1, <3>1, <3>2
  <2>6. \A k \in 1 .. R + 1 : next[k].members # {} /\ next[k].members \subseteq 1 .. n
    <3> TAKE k \in 1 .. R + 1
    <3>0. n \in 1 .. n /\ 1 .. n - 1 \subseteq 1 .. n
      BY <1>3
    <3>1. CASE k = R + 1
      BY <2>1, <2>3, <3>0, <3>1
    <3>2. CASE k \in 1 .. R
      <4>1. next[k].members = runs[k].members /\ runs[k].members # {} /\ runs[k].members \subseteq 1 .. n - 1
        BY <1>4, <2>3, <3>2
      <4> QED
        BY <3>0, <4>1
    <3> QED
      BY <2>4, <3>1, <3>2
  <2>7. \A m \in 1 .. n : \E k \in 1 .. R + 1 : m \in next[k].members
    <3> TAKE m \in 1 .. n
    <3>0. R + 1 \in 1 .. R + 1
      BY <1>1
    <3>1. CASE m = n
      BY <2>1, <2>3, <3>0, <3>1
    <3>2. CASE m # n
      <4>0. m \in 1 .. n - 1
        BY <1>3, <3>2
      <4>1. PICK k \in 1 .. R : m \in runs[k].members
        BY <1>4, <4>0
      <4> QED
        BY <1>1, <2>3, <4>1
    <3> QED
      BY <3>1, <3>2
  <2>8. \A k \in 1 .. R : n \notin runs[k].members
    BY <1>3, <1>4
  <2>9. \A k, l \in 1 .. R + 1 : k # l => next[k].members \cap next[l].members = {}
    <3> SUFFICES ASSUME NEW k \in 1 .. R + 1, NEW l \in 1 .. R + 1, k # l
                 PROVE next[k].members \cap next[l].members = {}
      OBVIOUS
    <3>1. CASE k = R + 1
      BY <2>1, <2>3, <2>4, <2>8, <3>1
    <3>2. CASE l = R + 1
      BY <2>1, <2>3, <2>4, <2>8, <3>2
    <3>3. CASE k \in 1 .. R /\ l \in 1 .. R
      BY <1>4, <2>3, <3>3
    <3> QED
      BY <2>4, <3>1, <3>2, <3>3
  <2>10. \A k \in 1 .. R + 1 : \A m \in next[k].members : laneOf[m] < next[k].lanes /\ To(Span(line, m)) <= next[k].end
    <3> TAKE k \in 1 .. R + 1
    <3>1. CASE k = R + 1
      BY <1>3, <2>1, <2>3, <3>1, SMTT(30) DEF span
    <3>2. CASE k \in 1 .. R
      BY <1>4, <2>3, <3>2
    <3> QED
      BY <2>4, <3>1, <3>2
  <2>11. \A k, l \in 1 .. R + 1 : k < l =>
            \A m \in next[k].members : \A p \in next[l].members : To(Span(line, m)) <= From(Span(line, p))
    <3> SUFFICES ASSUME NEW k \in 1 .. R + 1, NEW l \in 1 .. R + 1, k < l,
                        NEW m \in next[k].members, NEW p \in next[l].members
                 PROVE  To(Span(line, m)) <= From(Span(line, p))
      OBVIOUS
    <3>1. k \in 1 .. R /\ m \in runs[k].members
      BY <1>1, <2>3
    <3>2. CASE l = R + 1
      BY <2>1, <2>3, <2>5, <3>1, <3>2 DEF span
    <3>3. CASE l \in 1 .. R
      BY <1>4, <2>3, <3>1, <3>3
    <3> QED
      BY <2>4, <3>2, <3>3
  <2> QED
    BY <2>3, <2>6, <2>7, <2>9, <2>10, <2>11, Zenon DEF RunsUpTo, next
<1> QED
  BY <1>6, <1>7

LEMMA RunsPart ==
    ASSUME NEW N \in Nat, NEW line, VisitLine(line, N), NEW laneOf \in [1 .. N -> Nat]
    PROVE  RunsUpTo(Clustering(line, laneOf)[Len(line)], line, laneOf, N)
<1> DEFINE S == {n \in 0 .. N : RunsUpTo(Clustering(line, laneOf)[n], line, laneOf, n)}
<1>1. Len(line) = N
  BY DEF VisitLine
<1>2. /\ Clustering(line, laneOf)[0] = <<>>
      /\ \A n \in 1 .. N : Clustering(line, laneOf)[n] = ExtendRun(Clustering(line, laneOf)[n - 1], line[n], laneOf[n], n)
  BY <1>1, ClusteringTurns
<1>3. 0 \in S
  <2>1. RunsUpTo(<<>>, line, laneOf, 0)
    BY DEF RunsUpTo
  <2> QED
    BY <1>2, <2>1
<1>4. ASSUME NEW n \in 1 .. N, n - 1 \in S PROVE n \in S
  <2>1. RunsUpTo(Clustering(line, laneOf)[n - 1], line, laneOf, n - 1)
    BY <1>4
  <2>2. RunsUpTo(ExtendRun(Clustering(line, laneOf)[n - 1], line[n], laneOf[n], n), line, laneOf, n)
    BY <2>1, ExtendOne, Zenon
  <2>3. Clustering(line, laneOf)[n] = ExtendRun(Clustering(line, laneOf)[n - 1], line[n], laneOf[n], n)
    BY <1>2
  <2>4. n \in 0 .. N
    OBVIOUS
  <2> QED
    BY <2>2, <2>3, <2>4
<1> HIDE DEF S
<1>5. \A n \in 0 .. N : n \in S
  BY <1>3, <1>4, UpTo, Zenon
<1> QED
  BY <1>1, <1>5 DEF S

(***************************************************************************)
(* Visits that share time lie in lanes of their own, in one run, and their *)
(* lanes are among the run's.                                              *)
(***************************************************************************)
LEMMA NothingHidden == ASSUME SheetInv PROVE NoVisitHidden
<1> DEFINE N == Cardinality(sheet.visits)
           K(n) == CHOOSE k \in 1 .. Len(Runs) : n \in Runs[k].members
<1>1. /\ VisitLine(Ordered, N) /\ N \in Nat /\ Len(Ordered) = N
      /\ \A n \in 1 .. N : Ordered[n] \in sheet.visits
  <2>1. sheet.visits \subseteq Stretches \X Nat /\ IsFiniteSet(sheet.visits)
    BY RowsAreIntervals DEF SheetInv
  <2>2. N \in Nat
    BY <2>1, FS_CardinalityType
  <2>3. /\ Ordered \in [1 .. N -> sheet.visits]
        /\ \A m, n \in 1 .. N : m < n => From(Ordered[m][1]) <= From(Ordered[n][1])
    BY <2>1, VisitsInOrder DEF Stretches
  <2>4. Ordered \in [1 .. N -> Stretches \X Nat]
    BY <2>1, <2>3
  <2> QED
    BY <2>2, <2>3, <2>4 DEF VisitLine
<1> HIDE DEF N
<1>2. /\ LaneOf \in [1 .. N -> Nat]
      /\ \A m, k \in 1 .. N : m < k /\ LaneOf[m] = LaneOf[k] => To(Span(Ordered, m)) <= From(Span(Ordered, k))
  BY <1>1, LanesKeepApart DEF LaneOf
<1>3. RunsUpTo(Runs, Ordered, LaneOf, N)
  BY <1>1, <1>2, RunsPart DEF Runs
<1>4. \A m \in 1 .. N : /\ Span(Ordered, m) = Ordered[m][1]
                        /\ From(Span(Ordered, m)) \in Int /\ To(Span(Ordered, m)) \in Int
  BY <1>1, LineSpans
<1>5. \A n \in 1 .. N : K(n) \in 1 .. Len(Runs) /\ n \in Runs[K(n)].members
  BY <1>3 DEF RunsUpTo
<1>6. \A n \in 1 .. N : LaneCount(n) = Runs[K(n)].lanes
  BY DEF LaneCount
<1> HIDE DEF K
<1>7. \A n \in 1 .. N : LaneOf[n] < LaneCount(n)
  BY <1>3, <1>5, <1>6 DEF RunsUpTo
(* A visit that is over when another begins shares no minute with it. *)
<1>8. ASSUME NEW m \in 1 .. N, NEW n \in 1 .. N, To(Span(Ordered, m)) <= From(Span(Ordered, n))
      PROVE  Inside(Ordered[m][1]) \cap Inside(Ordered[n][1]) = {}
  <2>1. /\ From(Ordered[m][1]) \in Int /\ To(Ordered[m][1]) \in Int
        /\ From(Ordered[n][1]) \in Int /\ To(Ordered[n][1]) \in Int
        /\ To(Ordered[m][1]) <= From(Ordered[n][1])
    BY <1>4, <1>8
  <2> QED
    BY <2>1 DEF Inside
<1>9. ASSUME NEW m \in 1 .. N, NEW n \in 1 .. N, m # n, Inside(Ordered[m][1]) \cap Inside(Ordered[n][1]) # {}
      PROVE  LaneOf[m] # LaneOf[n] /\ LaneCount(m) = LaneCount(n)
  <2>1. ~(To(Span(Ordered, m)) <= From(Span(Ordered, n))) /\ ~(To(Span(Ordered, n)) <= From(Span(Ordered, m)))
    BY <1>8, <1>9
  <2>2. LaneOf[m] # LaneOf[n]
    <3>1. m < n \/ n < m
      BY <1>1, <1>9
    <3> QED
      BY <1>2, <2>1, <3>1
  <2>3. K(m) = K(n)
    <3> SUFFICES ASSUME K(m) # K(n) PROVE FALSE
      OBVIOUS
    <3>1. K(m) < K(n) \/ K(n) < K(m)
      BY <1>5
    <3> QED
      BY <1>3, <1>5, <2>1, <3>1 DEF RunsUpTo
  <2> QED
    BY <1>6, <2>2, <2>3
<1>10. ASSUME NEW n \in 1 .. N PROVE Inside(Ordered[n][1]) \cap 0 .. DayUnits - 1 \subseteq Inside(View)
  <2>1. /\ Ordered[n] \in sheet.visits
        /\ From(Ordered[n][1]) \in Int /\ To(Ordered[n][1]) \in Int /\ Ordered[n][2] \in Nat
    BY <1>1, <1>4 DEF VisitLine
  <2>2. ASSUME NEW t \in Inside(Ordered[n][1]) \cap 0 .. DayUnits - 1 PROVE t \in Inside(View)
    <3>1. /\ t \in Int /\ From(Ordered[n][1]) <= t /\ t < To(Ordered[n][1]) /\ 0 <= t /\ t < DayUnits
      BY <2>1, <2>2, RowsAreIntervals DEF Inside
    <3>2. Covers(BlockedWindow(Ordered[n]), t)
      BY <2>1, <3>1, BlockedTime
    <3>3. MeetsSome(Blocked, t)
      BY <2>1, <3>2 DEF MeetsSome, Blocked
    <3>4. From(View) <= t /\ t < To(View) /\ From(View) \in Int /\ To(View) \in Int
      BY <3>1, <3>3, ViewHolds DEF DayMinute
    <3> QED
      BY <3>1, <3>4 DEF Inside
  <2> QED
    BY <2>2
<1> QED
  BY <1>1, <1>7, <1>9, <1>10 DEF NoVisitHidden

(***************************************************************************)
(* What is drawn is true of every sheet that rows can make.                *)
(***************************************************************************)
LEMMA SheetStarts == DayPictureInit => SheetInv
<1> SUFFICES ASSUME DayPictureInit PROVE SheetInv
  OBVIOUS
<1>1. sheet \in [branchRules : {{}}, ownRules : {{}}, ownElsewhere : BOOLEAN, breaks : {{}},
                 opened : {{}}, closed : {{}}, visits : {{}}]
  BY DEF DayPictureInit
<1>2. /\ sheet.branchRules = {} /\ sheet.ownRules = {} /\ sheet.breaks = {}
      /\ sheet.opened = {} /\ sheet.closed = {} /\ sheet.visits = {}
  BY <1>1
<1>3. DayPictureTypeOK
  BY <1>1 DEF DayPictureTypeOK
<1> QED
  BY <1>2, <1>3, FS_EmptySet DEF SheetInv

LEMMA SheetKept == SheetInv /\ [DayPictureNext]_sheet => SheetInv'
<1> SUFFICES ASSUME SheetInv, [DayPictureNext]_sheet PROVE SheetInv'
  OBVIOUS
<1>1. ASSUME NEW S, IsFiniteSet(S), NEW x PROVE IsFiniteSet(S \cup {x})
  BY <1>1, FS_AddElement
<1>2. ASSUME NEW i \in Spans, SetRule(i) \/ SetException(i) PROVE SheetInv'
  <2>1. CASE sheet' = [sheet EXCEPT !.branchRules = @ \cup {i}]
    <3>1. IsFiniteSet(sheet.branchRules \cup {i})
      BY <1>1 DEF SheetInv
    <3>2. DayPictureTypeOK'
      BY <2>1 DEF SheetInv, DayPictureTypeOK
    <3>3. /\ sheet'.branchRules = sheet.branchRules \cup {i}
          /\ sheet'.ownRules = sheet.ownRules /\ sheet'.breaks = sheet.breaks
          /\ sheet'.opened = sheet.opened /\ sheet'.closed = sheet.closed /\ sheet'.visits = sheet.visits
      BY <2>1 DEF SheetInv, DayPictureTypeOK
    <3> QED
      BY <3>1, <3>2, <3>3 DEF SheetInv
  <2>2. CASE sheet' = [sheet EXCEPT !.ownRules = @ \cup {i}]
    <3>1. IsFiniteSet(sheet.ownRules \cup {i})
      BY <1>1 DEF SheetInv
    <3>2. DayPictureTypeOK'
      BY <2>2 DEF SheetInv, DayPictureTypeOK
    <3>3. /\ sheet'.ownRules = sheet.ownRules \cup {i}
          /\ sheet'.branchRules = sheet.branchRules /\ sheet'.breaks = sheet.breaks
          /\ sheet'.opened = sheet.opened /\ sheet'.closed = sheet.closed /\ sheet'.visits = sheet.visits
      BY <2>2 DEF SheetInv, DayPictureTypeOK
    <3> QED
      BY <3>1, <3>2, <3>3 DEF SheetInv
  <2>3. CASE sheet' = [sheet EXCEPT !.breaks = @ \cup {i}]
    <3>1. IsFiniteSet(sheet.breaks \cup {i})
      BY <1>1 DEF SheetInv
    <3>2. DayPictureTypeOK'
      BY <2>3 DEF SheetInv, DayPictureTypeOK
    <3>3. /\ sheet'.breaks = sheet.breaks \cup {i}
          /\ sheet'.branchRules = sheet.branchRules /\ sheet'.ownRules = sheet.ownRules
          /\ sheet'.opened = sheet.opened /\ sheet'.closed = sheet.closed /\ sheet'.visits = sheet.visits
      BY <2>3 DEF SheetInv, DayPictureTypeOK
    <3> QED
      BY <3>1, <3>2, <3>3 DEF SheetInv
  <2>4. CASE sheet' = [sheet EXCEPT !.opened = @ \cup {i}]
    <3>1. IsFiniteSet(sheet.opened \cup {i})
      BY <1>1 DEF SheetInv
    <3>2. DayPictureTypeOK'
      BY <2>4 DEF SheetInv, DayPictureTypeOK
    <3>3. /\ sheet'.opened = sheet.opened \cup {i}
          /\ sheet'.branchRules = sheet.branchRules /\ sheet'.ownRules = sheet.ownRules /\ sheet'.breaks = sheet.breaks /\ sheet'.closed = sheet.closed /\ sheet'.visits = sheet.visits
      BY <2>4 DEF SheetInv, DayPictureTypeOK
    <3> QED
      BY <3>1, <3>2, <3>3 DEF SheetInv
  <2>5. CASE sheet' = [sheet EXCEPT !.closed = @ \cup {i}]
    <3>1. IsFiniteSet(sheet.closed \cup {i})
      BY <1>1 DEF SheetInv
    <3>2. DayPictureTypeOK'
      BY <2>5 DEF SheetInv, DayPictureTypeOK
    <3>3. /\ sheet'.closed = sheet.closed \cup {i}
          /\ sheet'.branchRules = sheet.branchRules /\ sheet'.ownRules = sheet.ownRules /\ sheet'.breaks = sheet.breaks
          /\ sheet'.opened = sheet.opened /\ sheet'.visits = sheet.visits
      BY <2>5 DEF SheetInv, DayPictureTypeOK
    <3> QED
      BY <3>1, <3>2, <3>3 DEF SheetInv
  <2> QED
    BY <1>2, <2>1, <2>2, <2>3, <2>4, <2>5 DEF SetRule, SetException
<1>3. ASSUME NEW i \in VisitSpans, NEW b \in Buffers, DrawVisit(i, b) PROVE SheetInv'
  <2>1. /\ sheet' = [sheet EXCEPT !.visits = @ \cup {<<i, b>>}]
        /\ From(i) \in 0 .. DayUnits - 1 /\ <<i, b>> \in VisitSpans \X Buffers
    BY <1>3 DEF DrawVisit
  <2>2. IsFiniteSet(sheet.visits \cup {<<i, b>>})
    BY <1>1 DEF SheetInv
  <2>3. DayPictureTypeOK'
    BY <2>1 DEF SheetInv, DayPictureTypeOK
  <2>4. /\ sheet'.branchRules = sheet.branchRules /\ sheet'.ownRules = sheet.ownRules
        /\ sheet'.breaks = sheet.breaks /\ sheet'.opened = sheet.opened /\ sheet'.closed = sheet.closed
        /\ sheet'.visits = sheet.visits \cup {<<i, b>>}
    BY <2>1 DEF SheetInv, DayPictureTypeOK
  <2>5. \A v \in sheet'.visits : From(v[1]) \in 0 .. DayUnits - 1
    BY <2>1, <2>4 DEF SheetInv
  <2> QED
    BY <2>2, <2>3, <2>4, <2>5 DEF SheetInv
<1>4. CASE UNCHANGED sheet
  BY <1>4 DEF SheetInv, DayPictureTypeOK
<1> QED
  BY <1>2, <1>3, <1>4 DEF DayPictureNext

(***************************************************************************)
(* The rows of a sheet keep their shape.                                   *)
(***************************************************************************)
THEOREM DayPictureTyped == DayPictureSpec => []DayPictureTypeOK
<1>1. SheetInv => DayPictureTypeOK
  BY DEF SheetInv
<1> QED
  BY <1>1, SheetStarts, SheetKept, PTL DEF DayPictureSpec

(***************************************************************************)
(* No visit is drawn on top of another or outside the hours shown, and a   *)
(* slot is offered exactly if all of it is open and free (buildDay,        *)
(* assignLanes, subtractIntervals), whatever rows the day has.             *)
(***************************************************************************)
THEOREM DayDrawnTrue == DayPictureSpec => [](NoVisitHidden /\ OffersAreFree)
<1>1. SheetInv => NoVisitHidden /\ OffersAreFree
  BY NothingHidden, GapsAreFree
<1> QED
  BY <1>1, SheetStarts, SheetKept, PTL DEF DayPictureSpec

---------------------------------------------------------------------------
(***************************************************************************)
(* Types.  What the invariants above leave open: the bounds that the guards *)
(* keep, the histories, and what a row carries while it has a meaning.      *)
(***************************************************************************)

PhoneLimits ==
    /\ \A y \in Visitors : visitor[y].now <= MaxPhoneClock
    /\ asked \in [Windows -> Nat]
    /\ overlapping \subseteq Purposes
    /\ unspent \subseteq Codes
    /\ phoneClock <= MaxPhoneClock

LEMMA PhoneLimitsNext == CodesShape /\ PhoneLimits /\ [PhoneNext]_phoneVars => PhoneLimits'
<1> SUFFICES ASSUME CodesShape, PhoneLimits, [PhoneNext]_phoneVars PROVE PhoneLimits'
  OBVIOUS
<1> USE PhoneAssumption
<1>a. visitor \in [Visitors -> VisitorRow] /\ MaxPhoneClock \in Nat /\ phoneClock \in Nat
  BY DEF CodesShape
<1>b. ASSUME NEW x \in Visitors, NEW r, r.now <= MaxPhoneClock, visitor' = [visitor EXCEPT ![x] = r]
      PROVE  \A y \in Visitors : visitor'[y].now <= MaxPhoneClock
  BY <1>a, <1>b DEF PhoneLimits
<1>1. ASSUME NEW x \in Visitors, NEW p \in Purposes, AskForCode(x, p) PROVE PhoneLimits'
  <2>1. \A y \in Visitors : visitor'[y].now <= MaxPhoneClock
    <3> DEFINE r == [Fresh(x) EXCEPT !.pc = "expire", !.purpose = p, !.now = phoneClock]
    <3>1. visitor' = [visitor EXCEPT ![x] = r] \/ visitor' = visitor
      BY <1>1 DEF AskForCode, Begins
    <3>2. r.now <= MaxPhoneClock
      BY <1>a DEF PhoneLimits, VisitorRow, Fresh
    <3> HIDE DEF r
    <3> QED
      BY <3>1, <3>2, <1>b DEF PhoneLimits
  <2>2. asked' \in [Windows -> Nat]
    <3>1. asked' = [asked EXCEPT ![Window] = @ + 1]
      BY <1>1 DEF AskForCode
    <3>2. asked \in [Windows -> Nat]
      BY DEF PhoneLimits
    <3>3. asked' = [w \in Windows |-> IF w = Window THEN asked[w] + 1 ELSE asked[w]]
      BY <3>1, <3>2, Zenon
    <3>4. \A w \in Windows : asked[w] \in Nat
      BY <3>2
    <3> QED
      BY <3>3, <3>4
  <2> QED
    BY <1>1, <2>1, <2>2 DEF PhoneLimits, Windows, AskForCode, Idle, Window, Cooling, Begins, Fresh,
         CodesKept, Live
<1>2. ASSUME NEW x \in Visitors, ExpirePending(x) PROVE PhoneLimits'
  BY <1>2 DEF PhoneLimits, Windows, ExpirePending, LimitKept
<1>3. ASSUME NEW x \in Visitors, SmsRefused(x) PROVE PhoneLimits'
  BY <1>3 DEF PhoneLimits, Windows, SmsRefused, Ends, LimitKept, Fresh
<1>4. ASSUME NEW x \in Visitors, NEW v \in Codes, CreateCode(x, v) PROVE PhoneLimits'
  <2>1. \A y \in Visitors : visitor'[y].now <= MaxPhoneClock
    <3> DEFINE r == [visitor[x] EXCEPT !.pc = "sms", !.code = v]
    <3>1. visitor' = [visitor EXCEPT ![x] = r]
      BY <1>4, <1>a DEF CreateCode
    <3>2. r.now <= MaxPhoneClock
      BY <1>a DEF PhoneLimits, VisitorRow
    <3> HIDE DEF r
    <3> QED
      BY <3>1, <3>2, <1>b
  <2> QED
    BY <1>4, <2>1 DEF PhoneLimits, Windows, CreateCode, LimitKept
<1>5. ASSUME NEW x \in Visitors, NEW v \in Codes, ConfirmAgain(x, v) PROVE PhoneLimits'
  <2>1. \A y \in Visitors : visitor'[y].now <= MaxPhoneClock
    <3> DEFINE r == [Confirmed(x, v) EXCEPT !.now = phoneClock]
    <3>1. visitor' = [visitor EXCEPT ![x] = r]
      BY <1>5, <1>a DEF ConfirmAgain, Begins
    <3>2. r.now <= MaxPhoneClock
      BY <1>a DEF PhoneLimits, VisitorRow, Fresh, Confirmed
    <3> HIDE DEF r
    <3> QED
      BY <3>1, <3>2, <1>b
  <2>2. overlapping' \subseteq Purposes
    <3>1. code[v].purpose \in Purposes
      BY DEF CodesShape, CodeRow
    <3> QED
      BY <1>5, <3>1 DEF PhoneLimits, ConfirmAgain, Begins
  <2> QED
    BY <1>5, <2>1, <2>2 DEF PhoneLimits, Windows, ConfirmAgain, Confirming, Live, Begins, Confirmed,
         CodesKept, LimitKept, Idle, Fresh
<1>6. ASSUME NEW x \in Visitors, NEW v \in Codes, ConfirmLate(x, v) PROVE PhoneLimits'
  BY <1>6 DEF PhoneLimits, Windows, ConfirmLate, Confirming, Live, LimitKept, Idle
<1>7. ASSUME NEW x \in Visitors, NEW answered \in BOOLEAN, SmsAccepted(x, answered)
      PROVE  PhoneLimits'
  BY <1>7 DEF PhoneLimits, Windows, SmsAccepted, Fresh, CodesKept, LimitKept
<1>8. ASSUME NEW x \in Visitors, NEW v \in Codes, NEW a \in {"right", "wrong"}, 
      CompareCode(x, v, a)
      PROVE  PhoneLimits'
  <2>1. \A y \in Visitors : visitor'[y].now <= MaxPhoneClock
    <3> DEFINE r == [Fresh(x) EXCEPT !.pc = a, !.purpose = code[v].purpose, !.code = v,
                                      !.now = phoneClock, !.seen = code[v].attempts]
    <3>1. visitor' = [visitor EXCEPT ![x] = r]
      BY <1>8, <1>a DEF CompareCode, Begins
    <3>2. r.now <= MaxPhoneClock
      BY <1>a DEF PhoneLimits, VisitorRow, Fresh
    <3> HIDE DEF r
    <3> QED
      BY <3>1, <3>2, <1>b
  <2>2. overlapping' \subseteq Purposes
    <3>1. code[v].purpose \in Purposes
      BY DEF CodesShape, CodeRow
    <3> QED
      BY <1>8, <3>1 DEF PhoneLimits, CompareCode, Begins
  <2> QED
    BY <1>8, <2>1, <2>2 DEF PhoneLimits, Windows, CompareCode, Confirming, Live, Begins, Fresh,
         LimitKept, Idle
<1>9. ASSUME NEW x \in Visitors, CountWrongCode(x) PROVE PhoneLimits'
  BY <1>9 DEF PhoneLimits, Windows, CountWrongCode, GuessesOver, Ends, LimitKept, Fresh
<1>10. ASSUME NEW x \in Visitors, MarkVerified(x) PROVE PhoneLimits'
  BY <1>10 DEF PhoneLimits, Windows, MarkVerified, Confirmed, LimitKept, Fresh
<1>11. ASSUME NEW x \in Visitors, SpendCode(x) PROVE PhoneLimits'
  BY <1>11 DEF PhoneLimits, Windows, SpendCode, Spendable, Ends, LimitKept, Fresh
<1>12. ASSUME NEW x \in Visitors, AbandonSpend(x) PROVE PhoneLimits'
  BY <1>12 DEF PhoneLimits, Windows, AbandonSpend, Ends, CodesKept, LimitKept, Fresh
<1>13. ASSUME NEW x \in Visitors, NEW v \in Codes, PassGate(x, v) PROVE PhoneLimits'
  <2>1. \A y \in Visitors : visitor'[y].now <= MaxPhoneClock
    <3> DEFINE r == [Fresh(x) EXCEPT !.pc = "book", !.purpose = "BOOKING", !.code = v, !.now = phoneClock]
    <3>1. visitor' = [visitor EXCEPT ![x] = r]
      BY <1>13, <1>a DEF PassGate, Begins
    <3>2. r.now <= MaxPhoneClock
      BY <1>a DEF PhoneLimits, VisitorRow, Fresh
    <3> HIDE DEF r
    <3> QED
      BY <3>1, <3>2, <1>b
  <2>2. overlapping' \subseteq Purposes
    <3>1. code[v].purpose \in Purposes
      BY DEF CodesShape, CodeRow
    <3> QED
      BY <1>13, <3>1 DEF PhoneLimits, PassGate, Spendable, Confirming, Begins
  <2> QED
    BY <1>13, <2>1, <2>2 DEF PhoneLimits, Windows, PassGate, Confirming, Spendable, Begins, Fresh,
         CodesKept, LimitKept, Idle
<1>14. ASSUME NEW x \in Visitors, Book(x) PROVE PhoneLimits'
  BY <1>14 DEF PhoneLimits, Windows, Book, LimitKept
<1>15. ASSUME NEW x \in Visitors, SpendAfterBooking(x) PROVE PhoneLimits'
  BY <1>15 DEF PhoneLimits, Windows, SpendAfterBooking, Spendable, Ends, LimitKept, Fresh
<1>16. ASSUME NEW x \in Visitors, FailToSpend(x) PROVE PhoneLimits'
  <2>1. \A y \in Visitors : visitor'[y].now <= MaxPhoneClock
    <3> DEFINE r == Fresh(x)
    <3>1. visitor' = [visitor EXCEPT ![x] = r]
      BY <1>16, <1>a DEF FailToSpend, Ends
    <3>2. r.now <= MaxPhoneClock
      BY <1>a DEF PhoneLimits, VisitorRow, Fresh
    <3> HIDE DEF r
    <3> QED
      BY <3>1, <3>2, <1>b
  <2>2. unspent' \subseteq Codes
    <3>1. visitor[x].code \in Codes
      BY <1>16 DEF CodesShape, HasCode, FailToSpend
    <3> QED
      BY <1>16, <3>1 DEF PhoneLimits, FailToSpend
  <2> QED
    BY <1>16, <2>1, <2>2 DEF PhoneLimits, Windows, FailToSpend, Ends, LimitKept, Fresh
<1>17. CASE PhoneTick
  <2>1. phoneClock' <= MaxPhoneClock
    <3> QED
      BY <1>17, <1>a DEF PhoneLimits, PhoneTick
  <2> QED
    BY <1>17, <2>1 DEF PhoneLimits, Windows, PhoneTick
<1>18. CASE ExpireStale \/ SweepCounters
  BY <1>18 DEF PhoneLimits, Windows, ExpireStale, SweepCounters, Live, LimitKept, Window
<1>19. CASE UNCHANGED phoneVars
  BY <1>19 DEF PhoneLimits, Windows, phoneVars
<1> QED
  BY <1>1, <1>2, <1>3, <1>4, <1>5, <1>6, <1>7, <1>8, <1>9, <1>10, <1>11, <1>12, <1>13, <1>14, <1>15,
       <1>16, <1>17, <1>18, <1>19 DEF PhoneNext

(* Codes, requests and counters have their types: a request about a phone   *)
(* carries a moment that has been.                                          *)
THEOREM CodesTyped == PhoneSpec => []PhoneTypeOK
<1>1. PhoneInit => PhoneLimits
  BY PhoneAssumption DEF PhoneInit, PhoneLimits
<1>2. CodesInv /\ PhoneLimits => PhoneTypeOK
  <2> SUFFICES ASSUME CodesShape, PhoneLimits PROVE PhoneTypeOK
    BY DEF CodesInv
  <2>1. visitor \in [Visitors ->
          [pc : {"idle", "expire", "create", "sms", "right", "wrong", "spend", "book", "charge"},
           purpose : Purposes, code : Codes \cup {0}, now : 0 .. MaxPhoneClock,
           seen : 0 .. MaxGuesses, held : Codes \cup {0}]]
    BY PhoneAssumption DEF CodesShape, PhoneLimits, VisitorRow
  <2>2. phoneClock \in 0 .. MaxPhoneClock
    BY PhoneAssumption DEF CodesShape, PhoneLimits
  <2> QED
    BY <2>1, <2>2 DEF CodesShape, PhoneLimits, PhoneTypeOK
<1>3. CodesInv /\ PhoneLimits /\ [PhoneNext]_phoneVars => PhoneLimits'
  BY PhoneLimitsNext DEF CodesInv
<1> QED
  BY <1>1, <1>2, <1>3, CodesInvHolds, PTL DEF PhoneSpec

ManagersAt ==
    /\ \A m \in Managers : managers[m].pc \in {"rest", "counted", "checked"}

LEMMA ManagersAtNext == ShopFine /\ ManagersAt /\ [CatalogueNext]_catalogueVars => ManagersAt'
<1> SUFFICES ASSUME ShopFine, ManagersAt, [CatalogueNext]_catalogueVars PROVE ManagersAt'
  OBVIOUS
<1> USE CatalogueAssumption
<1>1. ASSUME NEW a \in Managers, NEW part \in Parts, CountVisits(a, part) PROVE ManagersAt'
  BY <1>1 DEF ManagersAt, CountVisits, Request, Parts, MayArchive, AtRest, ActiveBranches,
       BranchIsBooked, StaffIsBooked, ServiceIsBooked, ResourceIsBooked
<1>2. ASSUME NEW a \in Managers, NEW part \in Parts, Restore(a, part) PROVE ManagersAt'
  BY <1>2 DEF ManagersAt, Restore, Request, Parts, WithArchived, BeingArchived, AtRest
<1>3. ASSUME NEW a \in Managers, NEW b \in Branches, CreateBranch(a, b) PROVE ManagersAt'
  BY <1>3 DEF ManagersAt, CreateBranch, Request, AtRest
<1>4. ASSUME NEW a \in Managers, WriteArchived(a) PROVE ManagersAt'
  BY <1>4 DEF ManagersAt, WriteArchived, WithArchived, AtRest
<1>5. ASSUME NEW a \in Managers, WriteForm(a) PROVE ManagersAt'
  BY <1>5 DEF ManagersAt, WriteForm, AtRest
<1>6. ASSUME NEW a \in Managers, SaveStaffForm(a) PROVE ManagersAt'
  BY <1>6 DEF ManagersAt, SaveStaffForm, StaffForms, StaffFormFits, CheckForm, ActiveBranches,
       Request, AtRest
<1>7. ASSUME NEW a \in Managers, SaveServiceForm(a) PROVE ManagersAt'
  BY <1>7 DEF ManagersAt, SaveServiceForm, ServiceForms, ServiceFormFits, CheckForm, ActiveBranches,
       Request, AtRest
<1>8. ASSUME NEW a \in Managers, SaveResourceForm(a) PROVE ManagersAt'
  BY <1>8 DEF ManagersAt, SaveResourceForm, ResourceForms, ResourceFormFits, CheckForm,
       ActiveBranches, Request, AtRest
<1>9. CASE FindTime \/ Reserve \/ VisitEnds
  BY <1>9 DEF ManagersAt, FindTime, Reserve, VisitEnds, AtRest, IsOffered, BelongsToBranch,
       BeingArchived, ArchivedUnseen, NothingBooked, ActiveBranches, Parts, IsArchived
<1>10. CASE UNCHANGED catalogueVars
  BY <1>10 DEF ManagersAt, catalogueVars
<1> QED
  BY <1>1, <1>2, <1>3, <1>4, <1>5, <1>6, <1>7, <1>8, <1>9, <1>10 DEF CatalogueNext

(* A salon's parts, its managers' requests and the upcoming visit have      *)
(* their types.                                                             *)
THEOREM CatalogueTyped == CatalogueSpec => []CatalogueTypeOK
<1>1. CatalogueInit => CatalogueInv /\ ManagersAt
  BY CatalogueInvStarts DEF CatalogueInit, ManagersAt, AtRest
<1>2. CatalogueInv /\ ManagersAt => CatalogueTypeOK
  BY DEF CatalogueInv, ShopFine, ManagersAt, CatalogueTypeOK, ShopRow, VisitRow, FoundRow
<1>3. CatalogueInv /\ [CatalogueNext]_catalogueVars => CatalogueInv'
  BY CatalogueInvStays
<1>4. CatalogueInv /\ ManagersAt /\ [CatalogueNext]_catalogueVars => ManagersAt'
  BY ManagersAtNext DEF CatalogueInv
<1> QED
  BY <1>1, <1>2, <1>3, <1>4, PTL DEF CatalogueSpec

SalonStates == [open : BOOLEAN, specialist : BOOLEAN, edits : 0 .. MaxEdits]
RequestRow == {DeskIdle} \cup [pc : {"committed"}, late : BOOLEAN]
                         \cup [pc : {"listed", "counted"}, late : BOOLEAN, service : Services]

(* Each kind of step keeps its row: a service, the salon, a request. *)
LEMMA FirstServiceStaysTyped ==
  ASSUME FirstServiceTypeOK, [FirstServiceNext]_firstServiceVars
  PROVE  FirstServiceTypeOK'
<1> USE FirstServiceAssumption
<1>1. /\ catalogue \in [Services -> ServiceRow] /\ salon \in SalonStates /\ desks \in [Admins -> RequestRow]
      /\ trail \subseteq {"saved", "shelved"} /\ decided \in BOOLEAN
  BY DEF FirstServiceTypeOK, SalonStates, RequestRow
<1>2. ASSUME NEW v, NEW r \in ServiceRow PROVE [catalogue EXCEPT ![v] = r] \in [Services -> ServiceRow]
  BY <1>1
<1>3. ASSUME NEW a, NEW r \in RequestRow PROVE [desks EXCEPT ![a] = r] \in [Admins -> RequestRow]
  BY <1>1
<1>4. ASSUME NEW a, NEW s \in SalonStates, s.edits = salon.edits, Edit(a, s) PROVE salon' \in SalonStates
  BY <1>1, <1>4 DEF Edit, SalonStates
<1>5. ASSUME NEW a, EditService(a) PROVE salon' \in SalonStates
  BY <1>1, <1>4, <1>5 DEF EditService
<1>6. ASSUME NEW a, PublishLater(a) PROVE desks' \in [Admins -> RequestRow]
  <2>1. [pc |-> "committed", late |-> decided] \in RequestRow
    BY <1>1 DEF RequestRow
  <2> QED
    BY <1>3, <1>6, <2>1 DEF PublishLater
<1>7. ASSUME NEW type \in {"saved", "shelved"}, Settle(type) PROVE trail' \subseteq {"saved", "shelved"} /\ decided' \in BOOLEAN
  BY <1>1, <1>7 DEF Settle
<1>8. DeskIdle \in RequestRow
  BY DEF RequestRow
<1>9. SUFFICES /\ catalogue' \in [Services -> ServiceRow] /\ salon' \in SalonStates /\ desks' \in [Admins -> RequestRow]
               /\ trail' \subseteq {"saved", "shelved"} /\ decided' \in BOOLEAN
  BY <1>9 DEF FirstServiceTypeOK, SalonStates, RequestRow
<1>10. CASE UNCHANGED firstServiceVars
  BY <1>1, <1>10 DEF firstServiceVars
<1>11. ASSUME NEW a \in Admins, CreateFirstService(a) PROVE catalogue' \in [Services -> ServiceRow]
  <2>1. [made |-> TRUE, archived |-> FALSE, staffed |-> TRUE, published |-> salon.specialist /\ salon.open] \in ServiceRow
    BY <1>1 DEF ServiceRow, SalonStates
  <2> QED
    BY <1>2, <1>11, <2>1 DEF CreateFirstService
<1>12. ASSUME NEW a \in Admins, CreateFirstService(a) \/ UpdateFirstService(a) PROVE UNCHANGED <<trail, decided>> /\ salon' \in SalonStates
  BY <1>12, <1>5 DEF CreateFirstService, UpdateFirstService
<1>13. ASSUME NEW a \in Admins, CreateFirstService(a) PROVE UNCHANGED desks
  BY <1>13 DEF CreateFirstService
<1>14. ASSUME NEW a \in Admins, UpdateFirstService(a) PROVE UNCHANGED catalogue /\ desks' \in [Admins -> RequestRow]
  BY <1>14, <1>6 DEF UpdateFirstService
<1>15. ASSUME NEW a \in Admins, NEW on \in BOOLEAN, ReplaceBranchSchedule(a, on) \/ ArchiveStaff(a, on)
       PROVE  UNCHANGED <<catalogue, trail, decided>> /\ salon' \in SalonStates /\ desks' \in [Admins -> RequestRow]
  <2>1. /\ [salon EXCEPT !.open = on] \in SalonStates /\ [salon EXCEPT !.open = on].edits = salon.edits
        /\ [salon EXCEPT !.specialist = on] \in SalonStates /\ [salon EXCEPT !.specialist = on].edits = salon.edits
    BY <1>1 DEF SalonStates
  <2>2. Edit(a, [salon EXCEPT !.open = on]) \/ Edit(a, [salon EXCEPT !.specialist = on])
    BY <1>15 DEF ReplaceBranchSchedule, ArchiveStaff, EditSalon
  <2>3. salon' \in SalonStates
    BY <2>1, <2>2, <1>4
  <2> QED
    BY <1>1, <1>6, <1>15, <2>3 DEF ReplaceBranchSchedule, ArchiveStaff
<1>16. ASSUME NEW a \in Admins, NEW assigned \in SUBSET Services, SaveStaff(a, assigned)
       PROVE  /\ catalogue' \in [Services -> ServiceRow] /\ UNCHANGED <<trail, decided>>
              /\ salon' \in SalonStates /\ desks' \in [Admins -> RequestRow]
  <2>1. ASSUME NEW v \in Services, NEW b \in BOOLEAN PROVE [catalogue[v] EXCEPT !.staffed = b] \in ServiceRow
    BY <1>1 DEF ServiceRow
  <2>2. \A v \in Services : [catalogue[v] EXCEPT !.staffed = v \in assigned] \in ServiceRow
    <3> TAKE v \in Services
    <3> DEFINE chosen == v \in assigned
    <3>1. chosen \in BOOLEAN
      OBVIOUS
    <3> HIDE DEF chosen
    <3>2. [catalogue[v] EXCEPT !.staffed = chosen] \in ServiceRow
      BY <2>1, <3>1
    <3> QED
      BY <3>2, Zenon DEF chosen
  <2> QED
    BY <2>2, <1>5, <1>6, <1>16 DEF SaveStaff
<1>17. ASSUME NEW a \in Admins, NEW v \in Services, NEW row \in ServiceRow, SaveService(a, v, row)
       PROVE  /\ catalogue' \in [Services -> ServiceRow] /\ UNCHANGED desks /\ salon' \in SalonStates
              /\ trail' \subseteq {"saved", "shelved"} /\ decided' \in BOOLEAN
  BY <1>2, <1>5, <1>7, <1>17 DEF SaveService
<1>18. ASSUME NEW a \in Admins, NEW v \in Services, DuplicateService(a, v)
       PROVE  /\ catalogue' \in [Services -> ServiceRow] /\ UNCHANGED desks /\ salon' \in SalonStates
              /\ trail' \subseteq {"saved", "shelved"} /\ decided' \in BOOLEAN
  <2>1. [catalogue[v] EXCEPT !.published = FALSE] \in ServiceRow
    BY <1>1 DEF ServiceRow
  <2> QED
    BY <2>1, <1>2, <1>5, <1>7, <1>18 DEF DuplicateService
<1>19. ASSUME NEW a \in Admins, NEW v \in Services, NEW on \in BOOLEAN, ArchiveService(a, v, on)
       PROVE  /\ catalogue' \in [Services -> ServiceRow] /\ UNCHANGED desks /\ salon' \in SalonStates
              /\ trail' \subseteq {"saved", "shelved"} /\ decided' \in BOOLEAN
  <2> DEFINE r == [catalogue[v] EXCEPT !.archived = on, !.published = IF on THEN FALSE ELSE catalogue[v].published]
  <2>1. r \in ServiceRow /\ catalogue' = [catalogue EXCEPT ![v] = r]
    BY <1>1, <1>19 DEF ServiceRow, ArchiveService
  <2> HIDE DEF r
  <2> QED
    BY <2>1, <1>2, <1>5, <1>7, <1>19 DEF ArchiveService
<1>20. ASSUME NEW a \in Admins, PublishLists(a) PROVE desks' \in [Admins -> RequestRow]
  <2>1. desks[a] \in RequestRow /\ desks[a].pc = "committed"
    BY <1>1, <1>20 DEF PublishLists
  <2>2. desks[a].late \in BOOLEAN
    BY <2>1 DEF RequestRow, DeskIdle
  <2>3. ASSUME Cardinality(Unarchived) = 1
        PROVE  [pc |-> "listed", late |-> desks[a].late, service |-> CHOOSE v \in Unarchived : TRUE] \in RequestRow
    <3>5. Cardinality({}) = 0
      BY FS_EmptySet
    <3>1. Unarchived # {} /\ Unarchived \subseteq Services
      <4>1. Unarchived # {}
        BY <2>3, <3>5
      <4> QED
        BY <4>1 DEF Unarchived, Made
    <3> DEFINE first == CHOOSE v \in Unarchived : TRUE
    <3>2. first \in Services
      BY <3>1
    <3> HIDE DEF first
    <3>3. [pc |-> "listed", late |-> desks[a].late, service |-> first] \in RequestRow
      BY <3>2, <2>2 DEF RequestRow
    <3> QED
      BY <3>3, Zenon DEF first
  <2> QED
    BY <2>3, <1>3, <1>8, <1>20 DEF PublishLists
<1>21. ASSUME NEW a \in Admins, PublishCounts(a) PROVE desks' \in [Admins -> RequestRow]
  <2>1. desks[a] \in RequestRow /\ desks[a].pc = "listed"
    BY <1>1, <1>21 DEF PublishCounts
  <2>2. [desks[a] EXCEPT !.pc = "counted"] \in RequestRow
    BY <2>1 DEF RequestRow, DeskIdle
  <2> QED
    BY <2>2, <1>3, <1>8, <1>21 DEF PublishCounts
<1>22. ASSUME NEW a \in Admins, PublishWrites(a) PROVE catalogue' \in [Services -> ServiceRow] /\ desks' \in [Admins -> RequestRow]
  <2> DEFINE v == desks[a].service
             r == [catalogue[v] EXCEPT !.published = TRUE]
  <2>1. catalogue' = [catalogue EXCEPT ![v] = r]
    BY <1>1, <1>22 DEF PublishWrites
  <2>2. v \in Services
    BY <1>1, <1>22 DEF PublishWrites, RequestRow, DeskIdle
  <2>3. r \in ServiceRow
    BY <1>1, <2>2 DEF ServiceRow
  <2> HIDE DEF r, v
  <2> QED
    BY <2>1, <2>3, <1>2, <1>3, <1>8, <1>22 DEF PublishWrites
<1>23. ASSUME NEW a \in Admins, PublishLists(a) \/ PublishCounts(a) PROVE UNCHANGED <<catalogue, salon, trail, decided>>
  BY <1>23 DEF PublishLists, PublishCounts
<1>24. ASSUME NEW a \in Admins, PublishWrites(a) PROVE UNCHANGED <<salon, trail, decided>>
  BY <1>24 DEF PublishWrites
<1>25. ASSUME NEW a \in Admins, PublishFails(a) PROVE desks' \in [Admins -> RequestRow] /\ UNCHANGED <<catalogue, salon, trail, decided>>
  BY <1>25, <1>3, <1>8 DEF PublishFails
<1> QED
  BY <1>1, <1>10, <1>11, <1>12, <1>13, <1>14, <1>15, <1>16, <1>17, <1>18, <1>19, <1>20, <1>21, <1>22, <1>23, <1>24, <1>25
     DEF FirstServiceNext

(* Services, the salon, the trail and the requests that have still to       *)
(* publish have their types.                                                *)
THEOREM FirstServiceTyped == FirstServiceSpec => []FirstServiceTypeOK
<1>1. FirstServiceInit => FirstServiceTypeOK
  <2>1. NoService \in ServiceRow
    BY DEF NoService, ServiceRow
  <2>2. [open |-> TRUE, specialist |-> TRUE, edits |-> 0] \in [open : BOOLEAN, specialist : BOOLEAN, edits : 0 .. MaxEdits]
    BY FirstServiceAssumption
  <2> QED
    BY <2>1, <2>2 DEF FirstServiceInit, FirstServiceTypeOK
<1>2. FirstServiceTypeOK /\ [FirstServiceNext]_firstServiceVars => FirstServiceTypeOK'
  BY FirstServiceStaysTyped
<1> QED
  BY <1>1, <1>2, PTL DEF FirstServiceSpec

(* Sign-ins and the counters of their windows have their types. *)
THEOREM SignInsTyped == LoginThrottleSpec => []LoginThrottleTypeOK
<1>1. LoginInv => LoginThrottleTypeOK
  BY DEF LoginInv
<1> QED
  BY <1>1, LoginInvHolds, PTL

(* Requests for a new password, their codes and the counters have their     *)
(* types.                                                                   *)
THEOREM RecoveriesTyped == PasswordRecoverySpec => []PasswordRecoveryTypeOK
<1>1. RecoveryInv => PasswordRecoveryTypeOK
  BY DEF RecoveryInv, RecoveryRowsFine
<1>2. RecoveryInv /\ [PasswordRecoveryNext]_recoveryVars => RecoveryInv'
  BY RecoveryInvStays
<1> QED
  BY <1>1, <1>2, RecoveryInvStarts, PTL DEF PasswordRecoverySpec
=============================================================================
