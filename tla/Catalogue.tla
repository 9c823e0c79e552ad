------------------------------ MODULE Catalogue ------------------------------
(***************************************************************************)
(* What a salon has to offer (src/src/core/business-settings: branches,     *)
(* specialists, services, resources), changed by its owners while customers *)
(* book it.  The settings run in READ COMMITTED transactions that first     *)
(* check and then write, each a step here; a customer's request searches a  *)
(* free time (getAvailableStarts) and reserves it in a serializable         *)
(* transaction that checks less.  There is one specialist, one service and  *)
(* one resource; publication and hours are the module FirstService's, and   *)
(* the times of visits SlotAllocation's.                                    *)
(***************************************************************************)
EXTENDS Integers, FiniteSets

CONSTANTS
    Branches,     \* ids of Branch rows
    MainBranch,   \* the branch of the registration
    Managers,     \* requests of owners that may run at once
    MaxRequests   \* bound on the requests of owners in a behaviour

ASSUME CatalogueAssumption == MainBranch \in Branches /\ MaxRequests \in Nat

VARIABLES
    shop,         \* the rows that the settings edit, and the owners' requests so far
    managers,     \* requests that have checked and not yet written
    upcoming,     \* a visit, and the rows that were being archived when it was reserved
    customer      \* a customer's request: what its search found

catalogueVars == <<shop, managers, upcoming, customer>>

AtRest == [pc |-> "rest"]
NothingBooked == [booked |-> FALSE, branch |-> MainBranch, chair |-> FALSE, missed |-> {}]

CatalogueTypeOK ==
    /\ shop \in [branch : [Branches -> {"none", "active", "archived"}],
                 staffArchived : BOOLEAN, staffIn : SUBSET Branches, performs : BOOLEAN,
                 serviceArchived : BOOLEAN, serviceAt : Branches, needs : BOOLEAN,
                 chairMade : BOOLEAN, chairArchived : BOOLEAN, chairAt : Branches, chairAvailable : BOOLEAN,
                 requests : 0 .. MaxRequests]
    /\ \A a \in Managers : managers[a].pc \in {"rest", "counted", "checked"}
    /\ upcoming.booked \in BOOLEAN /\ upcoming.branch \in Branches /\ upcoming.chair \in BOOLEAN
    /\ customer \in {AtRest} \cup [pc : {"found"}, branch : Branches, chair : BOOLEAN]

(* A salon after its onboarding. *)
CatalogueInit ==
    /\ shop = [branch |-> [b \in Branches |-> IF b = MainBranch THEN "active" ELSE "none"],
               staffArchived |-> FALSE, staffIn |-> {MainBranch}, performs |-> TRUE,
               serviceArchived |-> FALSE, serviceAt |-> MainBranch, needs |-> FALSE,
               chairMade |-> FALSE, chairArchived |-> FALSE, chairAt |-> MainBranch, chairAvailable |-> TRUE,
               requests |-> 0]
    /\ managers = [a \in Managers |-> AtRest]
    /\ upcoming = NothingBooked /\ customer = AtRest

---------------------------------------------------------------------------
(***************************************************************************)
(* Archiving.  A part is <<"branch", b>>, <<"staff">>, <<"service">> or     *)
(* <<"chair">>.                                                             *)
(***************************************************************************)
ActiveBranches == {b \in Branches : shop.branch[b] = "active"}
Parts == {<<"staff">>, <<"service">>} \cup {<<"branch", b>> : b \in {c \in Branches : shop.branch[c] # "none"}}
           \cup (IF shop.chairMade THEN {<<"chair">>} ELSE {})

IsArchived(part) ==
    CASE part[1] = "branch"  -> shop.branch[part[2]] = "archived"
      [] part[1] = "staff"   -> shop.staffArchived
      [] part[1] = "service" -> shop.serviceArchived
      [] part[1] = "chair"   -> shop.chairArchived

WithArchived(part, archived) ==
    CASE part[1] = "branch"  -> [shop EXCEPT !.branch[part[2]] = IF archived THEN "archived" ELSE "active"]
      [] part[1] = "staff"   -> [shop EXCEPT !.staffArchived = archived]
      [] part[1] = "service" -> [shop EXCEPT !.serviceArchived = archived]
      [] part[1] = "chair"   -> [shop EXCEPT !.chairArchived = archived]

(* The parts that a visit is made of. *)
PartsOf(branch, chair) ==
    {<<"staff">>, <<"service">>, <<"branch", branch>>} \cup (IF chair THEN {<<"chair">>} ELSE {})

(* The counts of future visits behind the refusal FUTURE_BOOKINGS. *)
BranchIsBooked(b) == upcoming.booked /\ upcoming.branch = b
StaffIsBooked == upcoming.booked
ServiceIsBooked == upcoming.booked
ResourceIsBooked == upcoming.booked /\ upcoming.chair

MayArchive(part) ==
    CASE part[1] = "branch"  -> Cardinality(ActiveBranches) > 1 /\ ~BranchIsBooked(part[2])
      [] part[1] = "staff"   -> ~StaffIsBooked
      [] part[1] = "service" -> ~ServiceIsBooked
      [] part[1] = "chair"   -> ~ResourceIsBooked

Request(a) == managers[a] = AtRest /\ shop.requests < MaxRequests

CountVisits(a, part) ==
    /\ Request(a) /\ part \in Parts /\ MayArchive(part)
    /\ managers' = [managers EXCEPT ![a] = [pc |-> "counted", part |-> part]]
    /\ shop' = [shop EXCEPT !.requests = @ + 1]
    /\ UNCHANGED <<upcoming, customer>>

WriteArchived(a) ==
    /\ managers[a].pc = "counted"
    /\ shop' = WithArchived(managers[a].part, TRUE)
    /\ managers' = [managers EXCEPT ![a] = AtRest]
    /\ UNCHANGED <<upcoming, customer>>

(* What another request has counted and is about to archive. *)
BeingArchived == {managers[a].part : a \in {m \in Managers : managers[m].pc = "counted"}}

Restore(a, part) ==
    /\ Request(a) /\ part \in Parts
    /\ shop' = [WithArchived(part, FALSE) EXCEPT !.requests = @ + 1]
    /\ upcoming' = [upcoming EXCEPT !.missed = @ \ ({part} \ BeingArchived)]
    /\ UNCHANGED <<managers, customer>>

---------------------------------------------------------------------------
(***************************************************************************)
(* The forms.  What a form may name is checked first; what it says is       *)
(* written afterwards, as a whole.                                          *)
(***************************************************************************)
CreateBranch(a, b) ==
    /\ Request(a) /\ shop.branch[b] = "none"
    /\ shop' = [shop EXCEPT !.branch[b] = "active", !.requests = @ + 1]
    /\ UNCHANGED <<managers, upcoming, customer>>

StaffFormFits(form) ==
    /\ form.staffIn # {} /\ form.staffIn \subseteq ActiveBranches
    /\ form.performs => ~shop.serviceArchived /\ shop.serviceAt \in form.staffIn

ServiceFormFits(form) ==
    /\ form.serviceAt \in ActiveBranches
    /\ form.performs => ~shop.staffArchived /\ form.serviceAt \in shop.staffIn
    /\ form.needs => /\ shop.chairMade /\ ~shop.chairArchived /\ shop.chairAvailable
                     /\ shop.chairAt = form.serviceAt

ResourceFormFits(form) ==
    /\ form.chairAt \in ActiveBranches
    /\ form.needs => ~shop.serviceArchived /\ shop.serviceAt = form.chairAt

StaffForms == [staffIn : SUBSET Branches, performs : BOOLEAN]
ServiceForms == [serviceAt : Branches, performs : BOOLEAN, needs : BOOLEAN]
ResourceForms == [chairAt : Branches, chairAvailable : BOOLEAN, needs : BOOLEAN, chairMade : {TRUE}]

CheckForm(a, form) ==
    /\ Request(a)
    /\ managers' = [managers EXCEPT ![a] = [pc |-> "checked", form |-> form]]
    /\ shop' = [shop EXCEPT !.requests = @ + 1]
    /\ UNCHANGED <<upcoming, customer>>

WriteForm(a) ==
    /\ managers[a].pc = "checked"
    /\ LET form == managers[a].form
       IN  shop' = [field \in DOMAIN shop |-> IF field \in DOMAIN form THEN form[field] ELSE shop[field]]
    /\ managers' = [managers EXCEPT ![a] = AtRest]
    /\ UNCHANGED <<upcoming, customer>>

SaveStaffForm(a) == \E form \in StaffForms : StaffFormFits(form) /\ CheckForm(a, form)
SaveServiceForm(a) == \E form \in ServiceForms : ServiceFormFits(form) /\ CheckForm(a, form)
SaveResourceForm(a) == \E form \in ResourceForms : ResourceFormFits(form) /\ CheckForm(a, form)

---------------------------------------------------------------------------
(***************************************************************************)
(* A customer's booking                                                     *)
(***************************************************************************)
(* getAvailableStarts: nothing that it looks at may be archived.            *)
IsOffered ==
    /\ shop.serviceAt \in ActiveBranches /\ ~shop.serviceArchived
    /\ shop.performs /\ ~shop.staffArchived /\ shop.serviceAt \in shop.staffIn
    /\ shop.needs => /\ ~shop.chairArchived /\ shop.chairAvailable
                     /\ shop.chairAt = shop.serviceAt

FindTime ==
    /\ customer = AtRest /\ ~upcoming.booked /\ IsOffered
    /\ customer' = [pc |-> "found", branch |-> shop.serviceAt, chair |-> shop.needs]
    /\ UNCHANGED <<shop, managers, upcoming>>

(* Altered: the specialist's archivedAt is not looked at again *)
InTheBranch(request) ==
    /\ request.branch \in shop.staffIn /\ shop.serviceAt = request.branch
    /\ request.chair => shop.chairAt = request.branch

(* assertAllocationBelongsToBranch: of the three, it is the specialist that *)
(* must still not be archived.                                              *)
BelongsToBranch(request) ==
    /\ ~shop.staffArchived /\ request.branch \in shop.staffIn
    /\ shop.serviceAt = request.branch
    /\ request.chair => shop.chairAt = request.branch

ArchivedUnseen == {part \in Parts \ {<<"staff">>} : IsArchived(part)}

Reserve ==
    /\ customer # AtRest
    /\ \/ /\ BelongsToBranch(customer)
          /\ upcoming' = [booked |-> TRUE, branch |-> customer.branch, chair |-> customer.chair,
                          missed |-> BeingArchived \cup ArchivedUnseen]
       \/ ~BelongsToBranch(customer) /\ UNCHANGED upcoming
    /\ customer' = AtRest
    /\ UNCHANGED <<shop, managers>>

(* It takes place, or is cancelled. *)
VisitEnds ==
    /\ upcoming.booked
    /\ upcoming' = NothingBooked
    /\ UNCHANGED <<shop, managers, customer>>

CatalogueNext ==
    \/ \E a \in Managers :
         \/ \E part \in Parts : CountVisits(a, part) \/ Restore(a, part)
         \/ \E b \in Branches : CreateBranch(a, b)
         \/ WriteArchived(a) \/ WriteForm(a)
         \/ SaveStaffForm(a) \/ SaveServiceForm(a) \/ SaveResourceForm(a)
    \/ FindTime \/ Reserve \/ VisitEnds

CatalogueSpec == CatalogueInit /\ [][CatalogueNext]_catalogueVars

---------------------------------------------------------------------------
(* Whatever a customer has booked is not archived, so that nobody comes to  *)
(* a closed branch or to a specialist who left: archiving refuses while     *)
(* visits are ahead, and a reservation looks at the specialist again.  What *)
(* remains is an archiving that had counted before the visit was reserved,  *)
(* and a service, branch or resource archived after the search.             *)
ArchivedIsFree ==
    upcoming.booked =>
        \A part \in PartsOf(upcoming.branch, upcoming.chair) : IsArchived(part) => part \in upcoming.missed
=============================================================================
