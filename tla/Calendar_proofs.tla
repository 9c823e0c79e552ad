-------------------------- MODULE Calendar_proofs --------------------------
(* The calendar keeps its own promise: claims in force are exclusive. *)
EXTENDS Calendar, TLAPS

(***************************************************************************)
(* The claims stay well formed, and only claims in force are overridden.   *)
(***************************************************************************)
THEOREM CalendarTyped == Spec => []TypeOK
<1>1. Init => TypeOK
  BY DEF Init, TypeOK
<1>2. TypeOK /\ [Next]_vars => TypeOK'
  <2> SUFFICES ASSUME TypeOK, [Next]_vars PROVE TypeOK'
    OBVIOUS
  <2> USE DEF TypeOK
  <2>1. ASSUME NEW v \in Visits, Take(v) PROVE TypeOK'
    BY <2>1 DEF Take
  <2>2. ASSUME NEW v \in Visits, Move(v) PROVE TypeOK'
    BY <2>2 DEF Move
  <2>3. ASSUME NEW v \in Visits, Override(v) PROVE TypeOK'
    BY <2>3 DEF Override
  <2>4. CASE Release
    BY <2>4 DEF Release
  <2>5. CASE UNCHANGED vars
    BY <2>5 DEF vars
  <2> QED
    BY <2>1, <2>2, <2>3, <2>4, <2>5 DEF Next
<1> QED
  BY <1>1, <1>2, PTL DEF Spec

LEMMA ClashSymmetric ==
  ASSUME NEW c \in Claims, NEW d \in Claims
  PROVE  Clash(c, d) <=> Clash(d, c)
BY DEF Clash, Claims

(***************************************************************************)
(* Two claims in force that nobody overrode never clash.                   *)
(***************************************************************************)
THEOREM CalendarExclusive == Spec => []Exclusive
<1>1. Init => Exclusive
  BY DEF Init, Exclusive
<1>2. TypeOK /\ TypeOK' /\ Exclusive /\ [Next]_vars => Exclusive'
  <2> SUFFICES ASSUME TypeOK, TypeOK', Exclusive, [Next]_vars,
                      NEW a \in (held \ overridden)', NEW b \in (held \ overridden)', a # b
               PROVE  ~Clash(claim'[a], claim'[b])
    BY DEF Exclusive
  <2>0. claim'[a] \in Claims /\ claim'[b] \in Claims
    BY DEF TypeOK
  <2>1. ASSUME NEW v \in Visits, Take(v) PROVE ~Clash(claim'[a], claim'[b])
    <3>1. \A w \in held : claim'[w] = claim[w]
      BY <2>1 DEF Take, TypeOK
    <3>2. \A w \in held : w # v => ~Clash(claim'[v], claim'[w])
      BY <2>1, <3>1 DEF Take, Free
    <3>3. CASE a = v
      BY <3>2, <3>3, <2>1 DEF Take
    <3>4. CASE b = v
      BY <3>2, <3>4, <2>0, <2>1, ClashSymmetric DEF Take
    <3>5. CASE a # v /\ b # v
      BY <3>1, <3>5, <2>1 DEF Take, Exclusive
    <3> QED
      BY <3>3, <3>4, <3>5
  <2>2. ASSUME NEW v \in Visits, Move(v) PROVE ~Clash(claim'[a], claim'[b])
    <3>1. \A w \in held \ {v} : claim'[w] = claim[w]
      BY <2>2 DEF Move, TypeOK
    <3>2. \A w \in held : w # v => ~Clash(claim'[v], claim'[w])
      BY <2>2, <3>1 DEF Move, Free
    <3>3. CASE a = v
      BY <3>2, <3>3, <2>2 DEF Move
    <3>4. CASE b = v
      BY <3>2, <3>4, <2>0, <2>2, ClashSymmetric DEF Move
    <3>5. CASE a # v /\ b # v
      BY <3>1, <3>5, <2>2 DEF Move, Exclusive
    <3> QED
      BY <3>3, <3>4, <3>5
  <2>3. ASSUME NEW v \in Visits, Override(v) PROVE ~Clash(claim'[a], claim'[b])
    BY <2>3 DEF Override, Exclusive
  <2>4. CASE Release
    BY <2>4 DEF Release, Exclusive
  <2>5. CASE UNCHANGED vars
    BY <2>5 DEF vars, Exclusive
  <2> QED
    BY <2>1, <2>2, <2>3, <2>4, <2>5 DEF Next
<1> QED
  BY <1>1, <1>2, CalendarTyped, PTL DEF Spec
=============================================================================
