------------------------------ MODULE SupplierScope ------------------------------
(***************************************************************************)
(* What a supplier may see and enter: client grants, per-project exceptions, *)
(* the unit policy of the account, API keys, and the two code paths that     *)
(* apply them, the inventory queries and the entry of a respondent, which    *)
(* admits a link, may wait for the provider and then reserves.               *)
(***************************************************************************)
EXTENDS Naturals, FiniteSets

CONSTANTS
  Accounts,       \* clients of the platform
  Offers,         \* surveys
  OfferedBy,      \* the client of each survey
  Prices,         \* CPI values
  NoPrice,        \* the CPI of a survey without one
  Unlimited,      \* a bound of a CPI range that is not set
  Entrants,       \* respondents entering concurrently
  MaxScopeEdits   \* bound: administrative edits, syncs and clock steps

ASSUME SupplierScopeAssumption ==
  /\ OfferedBy \in [Offers -> Accounts] /\ Prices \subseteq Nat /\ {NoPrice, Unlimited} \cap Prices = {}
  /\ MaxScopeEdits \in Nat

VARIABLES
  buyer,      \* Client.is_active
  supplier,   \* the supplier's account, commercial profile and API delivery
  grant,      \* VendorClientAllocation rows
  exception,  \* VendorSurveyAllocation rows
  offer,      \* what synchronization last stored of each survey
  policy,     \* the account's unit policy, per client, when it has a unit
  apiKey,     \* the supplier's key and the grants it exposes
  entrant,    \* entries between admission and reservation
  held,       \* reservations made
  scopeEdits

scopeVars == <<buyer, supplier, grant, exception, offer, policy, apiKey, entrant, held, scopeEdits>>

Limits == Prices \cup {Unlimited}
Ranges == {r \in [min : Limits, max : Limits] :
             r.min = Unlimited \/ r.max = Unlimited \/ r.min <= r.max}
AnyPrice == [min |-> Unlimited, max |-> Unlimited]
NoGrant == [set |-> FALSE, on |-> FALSE, open |-> FALSE, range |-> AnyPrice]
NoException == [set |-> FALSE, on |-> FALSE, open |-> FALSE]
NotEntering == [pc |-> "idle", offer |-> "none", keyed |-> FALSE, price |-> NoPrice, left |-> 0]

ScopeTypeOK ==
  /\ buyer \in [Accounts -> BOOLEAN]
  /\ supplier \in [active : BOOLEAN, commercial : BOOLEAN, api : BOOLEAN]
  /\ grant \in [Accounts -> [set : BOOLEAN, on : BOOLEAN, open : BOOLEAN, range : Ranges]]
  /\ exception \in [Offers -> [set : BOOLEAN, on : BOOLEAN, open : BOOLEAN]]
  /\ offer \in [Offers -> [price : Prices \cup {NoPrice}, left : 0 .. 1, live : BOOLEAN]]
  /\ policy.unit \in BOOLEAN /\ policy.of \in [Accounts -> [allow : BOOLEAN, range : Ranges]]
  /\ apiKey \in [on : BOOLEAN, grants : SUBSET {a \in Accounts : grant[a].set}]
  /\ entrant \in [Entrants -> [pc : {"idle", "admitted"}, offer : Offers \cup {"none"},
                   keyed : BOOLEAN, price : Prices \cup {NoPrice}, left : 0 .. 1]]
  /\ held \in [Entrants -> Offers \cup {"none"}] /\ scopeEdits \in 0 .. MaxScopeEdits

-----------------------------------------------------------------------------
(* Inventory queries: scope_surveys_for_user, scope_surveys_for_api_key *)

\* cpi__gte / cpi__lte: a NULL price satisfies no comparison.
QueryInRange(price, r) ==
  /\ r.min # Unlimited => price # NoPrice /\ price >= r.min
  /\ r.max # Unlimited => price # NoPrice /\ price <= r.max

GrantActive(a) ==
  /\ supplier.active /\ supplier.commercial /\ buyer[a]
  /\ grant[a].set /\ grant[a].on /\ grant[a].open

\* Faulty: a project rule that is switched off is taken for no rule.
NotExceptedLax(o) == TRUE
\* No project rule, or one that is on and within its dates.
NotExcepted(o) == exception[o].set => exception[o].on /\ exception[o].open

\* Faulty: the unit's range is not part of the query.
PolicyListsUnranged(o) == policy.unit => policy.of[OfferedBy[o]].allow /\ buyer[OfferedBy[o]]
\* Rules of inactive clients are not read at all.
PolicyLists(o) ==
  policy.unit =>
    /\ policy.of[OfferedBy[o]].allow /\ buyer[OfferedBy[o]]
    /\ QueryInRange(offer[o].price, policy.of[OfferedBy[o]].range)

ListedForUser(o) ==
  /\ GrantActive(OfferedBy[o]) /\ QueryInRange(offer[o].price, grant[OfferedBy[o]].range)
  /\ offer[o].left > 0 /\ NotExcepted(o) /\ PolicyLists(o)

ListedForKey(o) ==
  LET a == OfferedBy[o]
  IN a \in apiKey.grants /\ grant[a].set /\ grant[a].on /\ grant[a].open /\ buyer[a] /\ NotExcepted(o)

-----------------------------------------------------------------------------
(* Entry: resolve_vendor_survey_context, reserve_attempt_capacity *)

\* Faulty: the bounds are exclusive.
InRangeStrict(price, min, max) ==
  IF price = NoPrice THEN min = Unlimited /\ max = Unlimited
  ELSE (min # Unlimited => price > min) /\ (max # Unlimited => price < max)
InRange(price, min, max) ==
  IF price = NoPrice THEN min = Unlimited /\ max = Unlimited
  ELSE (min # Unlimited => price >= min) /\ (max # Unlimited => price <= max)

\* price and left are those of the survey row the request holds.
Resolves(o, price, left) ==
  LET a == OfferedBy[o]
  IN /\ policy.unit => /\ policy.of[a].allow /\ buyer[a]
                       /\ InRange(price, policy.of[a].range.min, policy.of[a].range.max)
     /\ GrantActive(a) /\ InRange(price, grant[a].range.min, grant[a].range.max)
     /\ exception[o].set => exception[o].on /\ exception[o].open
     /\ left >= 1

\* Faulty: the rows are not looked at again when the reservation is made.
ReservesUnseen(o) == TRUE
\* Read again under the locks of the reservation.
Reserves(o) == GrantActive(OfferedBy[o]) /\ NotExcepted(o) /\ offer[o].left >= 1

\* Faulty: the context resolved when the link was admitted is used.
StillResolvesUnseen(e) == TRUE
StillResolves(e) == Resolves(entrant[e].offer, entrant[e].price, entrant[e].left)

ScopeInit ==
  /\ buyer = [a \in Accounts |-> TRUE]
  /\ supplier = [active |-> TRUE, commercial |-> TRUE, api |-> TRUE]
  /\ grant = [a \in Accounts |-> NoGrant] /\ exception = [o \in Offers |-> NoException]
  /\ offer \in [Offers -> [price : Prices, left : {1}, live : {TRUE}]]
  /\ policy = [unit |-> FALSE, of |-> [a \in Accounts |-> [allow |-> FALSE, range |-> AnyPrice]]]
  /\ apiKey = [on |-> FALSE, grants |-> {}]
  /\ entrant = [e \in Entrants |-> NotEntering]
  /\ held = [e \in Entrants |-> "none"] /\ scopeEdits = 0

\* survey_start with a fresh link; a keyed link needs its key and its grants.
AdmitLink(e) ==
  /\ entrant[e] = NotEntering /\ held[e] = "none"
  /\ \E o \in Offers, keyed \in BOOLEAN :
       /\ keyed => apiKey.on /\ ListedForKey(o)
       /\ ListedForUser(o) /\ offer[o].live
       /\ entrant' = [entrant EXCEPT ![e] =
            [pc |-> "admitted", offer |-> o, keyed |-> keyed,
             price |-> offer[o].price, left |-> offer[o].left]]
  /\ UNCHANGED <<buyer, supplier, grant, exception, offer, policy, apiKey, held, scopeEdits>>

\* After the provider answered: one transaction resolves, creates and reserves.
ReserveEntry(e) ==
  LET o == entrant[e].offer
  IN /\ entrant[e].pc = "admitted"
     /\ held' = IF StillResolves(e) /\ Reserves(o) THEN [held EXCEPT ![e] = o] ELSE held
     /\ entrant' = [entrant EXCEPT ![e] = NotEntering]
     /\ UNCHANGED <<buyer, supplier, grant, exception, offer, policy, apiKey, scopeEdits>>

-----------------------------------------------------------------------------
(* Administration, synchronization, time *)

CountScopeEdit == scopeEdits < MaxScopeEdits /\ scopeEdits' = scopeEdits + 1

\* VendorClientAllocationSerializer, and destroy, which only switches it off.
SaveGrant(a) ==
  /\ CountScopeEdit
  /\ \E on \in BOOLEAN, r \in Ranges :
       grant' = [grant EXCEPT ![a] = [set |-> TRUE, on |-> on, range |-> r,
                                      open |-> IF grant[a].set THEN grant[a].open ELSE TRUE]]
  /\ UNCHANGED <<buyer, supplier, exception, offer, policy, apiKey, entrant, held>>

\* set_access: on is stored only on an existing rule, off creates one.
SetAccess(o, assigned) ==
  /\ grant[OfferedBy[o]].set /\ CountScopeEdit
  /\ exception' = IF exception[o].set THEN [exception EXCEPT ![o].on = assigned]
                  ELSE IF assigned THEN exception
                  ELSE [exception EXCEPT ![o] = [set |-> TRUE, on |-> FALSE, open |-> TRUE]]
  /\ UNCHANGED <<buyer, supplier, grant, offer, policy, apiKey, entrant, held>>

SwitchAccount ==
  /\ CountScopeEdit
  /\ \/ supplier' \in [active : BOOLEAN, commercial : BOOLEAN, api : BOOLEAN] \ {supplier} /\ UNCHANGED buyer
     \/ \E a \in Accounts : buyer' = [buyer EXCEPT ![a] = ~ @] /\ UNCHANGED supplier
  /\ UNCHANGED <<grant, exception, offer, policy, apiKey, entrant, held>>

\* Faulty: a key may name any client.
KeyableAny == Accounts
Keyable == {a \in Accounts : grant[a].set /\ grant[a].on /\ buyer[a]}

\* VendorAPIKeySerializer.validate: API delivery on, and active grants only.
SaveKey ==
  /\ ~ apiKey.on /\ supplier.commercial /\ supplier.api /\ CountScopeEdit
  /\ \E as \in (SUBSET Keyable) \ {{}} :
       apiKey' = [on |-> TRUE, grants |-> as]
  /\ UNCHANGED <<buyer, supplier, grant, exception, offer, policy, entrant, held>>

RevokeKey ==
  /\ apiKey.on /\ CountScopeEdit /\ apiKey' = [apiKey EXCEPT !.on = FALSE]
  /\ UNCHANGED <<buyer, supplier, grant, exception, offer, policy, entrant, held>>

AssignPolicy ==
  /\ CountScopeEdit
  /\ \E a \in Accounts, allow \in BOOLEAN, r \in Ranges :
       policy' = [unit |-> TRUE, of |-> [policy.of EXCEPT ![a] = [allow |-> allow, range |-> r]]]
  /\ UNCHANGED <<buyer, supplier, grant, exception, offer, apiKey, entrant, held>>

SyncOffer(o) ==
  /\ CountScopeEdit
  /\ \E p \in Prices \cup {NoPrice}, left \in 0 .. 1, live \in BOOLEAN :
       offer' = [offer EXCEPT ![o] = [price |-> p, left |-> left, live |-> live]]
  /\ UNCHANGED <<buyer, supplier, grant, exception, policy, apiKey, entrant, held>>

WindowCloses(a) ==
  /\ grant[a].open /\ CountScopeEdit /\ grant' = [grant EXCEPT ![a].open = FALSE]
  /\ UNCHANGED <<buyer, supplier, exception, offer, policy, apiKey, entrant, held>>

ScopeNext ==
  \/ \E e \in Entrants : AdmitLink(e) \/ ReserveEntry(e)
  \/ \E a \in Accounts : SaveGrant(a) \/ WindowCloses(a)
  \/ \E o \in Offers : SyncOffer(o) \/ \E assigned \in BOOLEAN : SetAccess(o, assigned)
  \/ SwitchAccount \/ SaveKey \/ RevokeKey \/ AssignPolicy

ScopeSpec == ScopeInit /\ [][ScopeNext]_scopeVars

-----------------------------------------------------------------------------
(* Properties *)

\* The inventory query and the entry check are two implementations of one
\* policy: a survey is listed exactly when entering it would be resolved.
ListedIffResolved == \A o \in Offers : ListedForUser(o) <=> Resolves(o, offer[o].price, offer[o].left)

\* However long the provider took, a reservation is made only while the
\* supplier, the client, the grant and the project rule allow it.
ReservedUnderLiveGrant ==
  [][\A e \in Entrants : held'[e] # held[e] =>
       /\ GrantActive(OfferedBy[held'[e]]) /\ NotExcepted(held'[e])
       /\ offer[held'[e]].left > 0]_scopeVars

\* A reservation outside the grant's or the unit's price range was admitted at
\* a price inside it: only a synchronization during the entry lets it through.
ReservedPriceWasAllowed ==
  [][\A e \in Entrants : held'[e] # held[e] =>
       LET r == grant[OfferedBy[held'[e]]].range
       IN /\ QueryInRange(entrant[e].price, r)
          /\ policy.unit => QueryInRange(entrant[e].price, policy.of[OfferedBy[held'[e]]].range)]_scopeVars

\* What a supplier is shown is what resolve_vendor_survey_context lets in, after
\* any edits of grants, exceptions, rules and keys.
ScopeInv == ScopeTypeOK /\ ListedIffResolved

\* A reservation of reserve_attempt_capacity is covered by what the records allow,
\* although the link was admitted long before.
ReservationsCovered == ReservedUnderLiveGrant /\ ReservedPriceWasAllowed
=============================================================================
