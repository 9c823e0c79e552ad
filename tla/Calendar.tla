------------------------------ MODULE Calendar ------------------------------
(***************************************************************************)
(* What the booking calendar promises, with no word of branches, services, *)
(* buffers, transactions or requests.  A visit claims a set of lanes (the  *)
(* specialist and the resources it needs) for an interval.  A claim is     *)
(* taken, or moved, only while none of its lanes is held by another visit  *)
(* at an overlapping time.  A released claim comes back only by a person's *)
(* override, which looks at nothing; a visit stays in overridden until it  *)
(* is moved to a free place or released.                                   *)
(*                                                                         *)
(* SlotAllocation, the model of the code, is shown to implement this       *)
(* specification by TLC on small instances and by TLAPS for all constants. *)
(***************************************************************************)
EXTENDS Integers

CONSTANTS
  Visits,   \* the identities of visits
  Lanes     \* everything a visit can occupy: specialists and resources

VARIABLES
  claim,      \* for every visit that was ever booked, what it occupies
  held,       \* the visits whose claim is in force
  overridden  \* the visits whose claim is in force by an override only

vars == <<claim, held, overridden>>

Claims == [lanes : SUBSET Lanes, from : Int, to : Int]

TypeOK ==
  /\ DOMAIN claim \subseteq Visits
  /\ claim \in [DOMAIN claim -> Claims]
  /\ held \subseteq DOMAIN claim
  /\ overridden \subseteq held

\* Two claims clash when they share a lane and their intervals overlap; claims that only touch do not.
Clash(c, d) ==
  /\ c.lanes \cap d.lanes # {}
  /\ c.from < d.to
  /\ c.to > d.from

Free(v, c) == \A w \in held \ {v} : ~Clash(c, claim[w])

Init ==
  /\ claim = [v \in {} |-> 0]
  /\ held = {}
  /\ overridden = {}

Take(v) ==
  /\ v \notin DOMAIN claim
  /\ claim' \in [DOMAIN claim \cup {v} -> Claims]
  /\ \A w \in DOMAIN claim : claim'[w] = claim[w]
  /\ Free(v, claim'[v])
  /\ held' = held \cup {v}
  /\ UNCHANGED overridden

Move(v) ==
  /\ v \in held
  /\ claim' \in [DOMAIN claim -> Claims]
  /\ \A w \in DOMAIN claim \ {v} : claim'[w] = claim[w]
  /\ Free(v, claim'[v])
  /\ overridden' = overridden \ {v}
  /\ UNCHANGED held

\* The sweep that expires overdue holds releases many claims at once.
Release ==
  /\ held' \subseteq held
  /\ overridden' = overridden \cap held'
  /\ UNCHANGED claim

Override(v) ==
  /\ v \in DOMAIN claim \ held
  /\ held' = held \cup {v}
  /\ overridden' = overridden \cup {v}
  /\ UNCHANGED claim

Next ==
  \/ Release
  \/ \E v \in Visits : Take(v) \/ Move(v) \/ Override(v)

Spec == Init /\ [][Next]_vars

(***************************************************************************)
(* Two visits that share a specialist or a resource never overlap, buffers *)
(* included, unless a person's override brought one of them back.          *)
(***************************************************************************)
Exclusive ==
  \A v, w \in held \ overridden : v # w => ~Clash(claim[v], claim[w])
=============================================================================
