---------------------------- MODULE FirstService ----------------------------
(***************************************************************************)
(* How the first service of a salon comes before its customers              *)
(* (src/src/core/onboarding, src/src/core/business-settings): the wizard    *)
(* creates it, hidden if nobody could honour a booking yet; saving the      *)
(* opening hours or a specialist publishes it later; and the settings let   *)
(* the owners publish, hide, archive and copy services themselves.          *)
(* publishFirstServiceWhenReady runs after the transaction that called it,  *)
(* in three steps between which others may act.  The salon has the branch   *)
(* and the specialist that registration gave it.                            *)
(***************************************************************************)
EXTENDS Integers, FiniteSets

CONSTANTS
    Services,   \* ids of Service rows
    Admins,     \* requests of owners and administrators that may run at once
    MaxEdits    \* bound on the requests of a behaviour

ASSUME FirstServiceAssumption == Services # {} /\ MaxEdits \in Nat

VARIABLES
    catalogue,  \* Service rows
    salon,      \* BusinessScheduleRule rows of the branch, the specialist's archivedAt, requests so far
    trail,      \* AuditEvent rows whose type begins with "service."
    desks,      \* requests that have still to publish
    decided     \* history: an owner has settled a service in the settings

firstServiceVars == <<catalogue, salon, trail, desks, decided>>

DeskIdle == [pc |-> "idle"]
ServiceRow == [made : BOOLEAN, archived : BOOLEAN, published : BOOLEAN, staffed : BOOLEAN]
NoService == [made |-> FALSE, archived |-> FALSE, published |-> FALSE, staffed |-> FALSE]

FirstServiceTypeOK ==
    /\ catalogue \in [Services -> ServiceRow]
    /\ salon \in [open : BOOLEAN, specialist : BOOLEAN, edits : 0 .. MaxEdits]
    /\ trail \subseteq {"saved", "shelved"} /\ decided \in BOOLEAN
    /\ desks \in [Admins -> {DeskIdle} \cup [pc : {"committed"}, late : BOOLEAN]
                                   \cup [pc : {"listed", "counted"}, late : BOOLEAN, service : Services]]

(* registerBusiness *)
FirstServiceInit ==
    /\ catalogue = [v \in Services |-> NoService]
    /\ salon = [open |-> TRUE, specialist |-> TRUE, edits |-> 0]
    /\ trail = {} /\ decided = FALSE
    /\ desks = [a \in Admins |-> DeskIdle]

---------------------------------------------------------------------------
Made == {v \in Services : catalogue[v].made}
Unarchived == {v \in Made : ~catalogue[v].archived}
NextRow == CHOOSE v \in Services \ Made : TRUE

(* A request of the administrator: what it changes of the salon.            *)
Edit(a, changed) ==
    /\ desks[a] = DeskIdle /\ salon.edits < MaxEdits
    /\ salon' = [changed EXCEPT !.edits = @ + 1]
EditSalon(a, changed) == Edit(a, changed)
EditService(a) == Edit(a, salon)

(* The request's transaction is committed; now the first service.           *)
PublishLater(a) == desks' = [desks EXCEPT ![a] = [pc |-> "committed", late |-> decided]]

(* Every action on a service in the settings writes an audit event.         *)
Settle(type) == trail' = trail \cup {type} /\ decided' = TRUE

(* The wizard: one service, once; its transaction is serializable.          *)
CreateFirstService(a) ==
    /\ EditService(a) /\ Made = {}
    /\ catalogue' = [catalogue EXCEPT ![NextRow] =
                       [made |-> TRUE, archived |-> FALSE, staffed |-> TRUE,
                        published |-> salon.specialist /\ salon.open]]
    /\ UNCHANGED <<trail, desks, decided>>

(* A corrected price or name leaves the publication to the readiness check. *)
UpdateFirstService(a) ==
    /\ EditService(a) /\ Made # {}
    /\ PublishLater(a)
    /\ UNCHANGED <<catalogue, trail, decided>>

ReplaceBranchSchedule(a, open) ==
    /\ EditSalon(a, [salon EXCEPT !.open = open])
    /\ PublishLater(a)
    /\ UNCHANGED <<catalogue, trail, decided>>

(* The specialist's services are replaced by those that the form names.     *)
SaveStaff(a, assigned) ==
    /\ EditService(a) /\ assigned \subseteq Unarchived
    /\ catalogue' = [v \in Services |-> [catalogue[v] EXCEPT !.staffed = v \in assigned]]
    /\ PublishLater(a)
    /\ UNCHANGED <<trail, decided>>

(* Archiving is refused while visits are booked.                            *)
ArchiveStaff(a, active) ==
    /\ EditSalon(a, [salon EXCEPT !.specialist = active])
    /\ UNCHANGED <<catalogue, trail, desks, decided>>

(* A published service needs a specialist and opening hours; whoever is     *)
(* assigned must not be archived.  The row itself may be.                   *)
SaveService(a, v, row) ==
    /\ EditService(a)
    /\ v \in Made \cup (IF Made = Services THEN {} ELSE {NextRow})
    /\ row.made /\ row.archived = catalogue[v].archived
    /\ row.staffed => salon.specialist
    /\ row.published => row.staffed /\ salon.open
    /\ catalogue' = [catalogue EXCEPT ![v] = row]
    /\ Settle("saved")
    /\ UNCHANGED desks

DuplicateService(a, v) ==
    /\ EditService(a) /\ v \in Unarchived /\ Made # Services
    /\ catalogue[v].staffed => salon.specialist
    /\ catalogue' = [catalogue EXCEPT ![NextRow] = [catalogue[v] EXCEPT !.published = FALSE]]
    /\ Settle("saved")
    /\ UNCHANGED desks

(* Archiving hides the service, and restoring it leaves a draft.            *)
ArchiveService(a, v, archived) ==
    /\ EditService(a) /\ v \in Made
    /\ catalogue' = [catalogue EXCEPT ![v].archived = archived,
                                      ![v].published = IF archived THEN FALSE ELSE @]
    /\ Settle("shelved")
    /\ UNCHANGED desks

---------------------------------------------------------------------------
(***************************************************************************)
(* publishFirstServiceWhenReady                                             *)
(***************************************************************************)
PublishLists(a) ==
    /\ desks[a].pc = "committed"
    /\ desks' = [desks EXCEPT ![a] =
                   IF Cardinality(Unarchived) = 1 /\ \A v \in Unarchived : ~catalogue[v].published
                   THEN [pc |-> "listed", late |-> @.late, service |-> CHOOSE v \in Unarchived : TRUE]
                   ELSE DeskIdle]
    /\ UNCHANGED <<catalogue, salon, trail, decided>>

(* Altered: the events that came to mind *)
ManagedByForm == "saved" \in trail

(* Whether the owner has touched a service: the prefix of the event counts. *)
ManagedInSettings == trail # {}

PublishCounts(a) ==
    /\ desks[a].pc = "listed"
    /\ desks' = [desks EXCEPT ![a] =
                   IF ~ManagedInSettings /\ salon.open /\ salon.specialist /\ catalogue[@.service].staffed
                   THEN [@ EXCEPT !.pc = "counted"] ELSE DeskIdle]
    /\ UNCHANGED <<catalogue, salon, trail, decided>>

PublishWrites(a) ==
    /\ desks[a].pc = "counted"
    /\ catalogue' = [catalogue EXCEPT ![desks[a].service].published = TRUE]
    /\ desks' = [desks EXCEPT ![a] = DeskIdle]
    /\ UNCHANGED <<salon, trail, decided>>

(* A failure is logged, and the service stays hidden until the next save.   *)
PublishFails(a) ==
    /\ desks[a] # DeskIdle
    /\ desks' = [desks EXCEPT ![a] = DeskIdle]
    /\ UNCHANGED <<catalogue, salon, trail, decided>>

FirstServiceNext ==
    \E a \in Admins :
        \/ CreateFirstService(a) \/ UpdateFirstService(a)
        \/ \E on \in BOOLEAN : ReplaceBranchSchedule(a, on) \/ ArchiveStaff(a, on)
        \/ \E assigned \in SUBSET Services : SaveStaff(a, assigned)
        \/ \E v \in Services, on \in BOOLEAN : ArchiveService(a, v, on)
        \/ \E v \in Services :
             \/ DuplicateService(a, v)
             \/ \E row \in ServiceRow : SaveService(a, v, row)
        \/ PublishLists(a) \/ PublishCounts(a) \/ PublishWrites(a) \/ PublishFails(a)

FirstServiceSpec == FirstServiceInit /\ [][FirstServiceNext]_firstServiceVars

---------------------------------------------------------------------------
(* "Once the owner has touched a service at all, whether it is public is    *)
(* their decision and not ours to reverse": no request that committed after *)
(* that decision gets as far as publishing, whatever hours and specialists  *)
(* it saved and however the decision was made.                              *)
OwnersDecisionStands ==
    \A a \in Admins : desks[a].pc = "counted" => ~desks[a].late
=============================================================================
