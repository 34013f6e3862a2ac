------------------------------ MODULE AccessControl ------------------------------
(***************************************************************************)
(* Accounts, roles and functions: what an account may do (its role's         *)
(* functions, then its own allow and deny overrides), who may create and     *)
(* edit whom, and what may be passed on.  A function code stands for the     *)
(* codes that guard the same operations.  The organization unit of an        *)
(* account is in OrganizationTree, its commercial profile in SupplierScope.  *)
(***************************************************************************)
EXTENDS Integers, FiniteSets

CONSTANTS
  Owner,            \* the superuser of the first setup
  Staff,            \* the other account names
  NoAccount,        \* the creator of what nobody created
  AccessRequests,   \* requests that edit an account
  MaxAccountEdits   \* bound: edits of accounts, roles and functions

ASSUME AccessControlAssumption ==
  /\ Owner \notin Staff /\ NoAccount \notin Staff \cup {Owner} /\ Staff # {}
  /\ MaxAccountEdits \in Nat

VARIABLES
  accounts,      \* User, EmployeeProfile and UserFunctionOverride rows
  roles,         \* Role and RoleFunctionPermission rows
  functions,     \* active AccessFunction codes
  patches,       \* edits validated and not yet saved
  roleCheck,     \* a deletion past its check: the role and who had it then
  crossed,       \* history: an edit was saved over an account changed meanwhile
  accountEdits

accessVars == <<accounts, roles, functions, patches, roleCheck, crossed, accountEdits>>

People == Staff \cup {Owner}
Codes == {"users", "roles", "suppliers", "respondents", "plain"}
\* EXTERNAL_VENDOR_FORBIDDEN_CODES
Forbidden == Codes \ {"plain"}
AccountTypes == {"employee", "internal", "external"}
RoleSlugs == {"employee", "admin", "external-vendor", "custom"}
SystemRoles == RoleSlugs \ {"custom"}
NoRole == "none"

NoOverrides == [c \in Codes |-> "none"]
Vacant == [exists |-> FALSE, active |-> FALSE, super |-> FALSE, role |-> NoRole,
           type |-> "employee", overrides |-> NoOverrides, creator |-> NoAccount]
NoPatch == [busy |-> FALSE]
NoCheck == [role |-> NoRole, holders |-> {}]

AccessTypeOK ==
  /\ accounts \in [People -> [exists : BOOLEAN, active : BOOLEAN, super : BOOLEAN,
                              role : RoleSlugs \cup {NoRole}, type : AccountTypes,
                              overrides : [Codes -> {"none", "allow", "deny"}],
                              creator : People \cup {NoAccount}]]
  /\ roles \in [RoleSlugs -> [exists : BOOLEAN, active : BOOLEAN, codes : SUBSET Codes,
                              owner : People \cup {NoAccount}]]
  /\ \A p \in People : ~ accounts[p].exists => accounts[p] = Vacant
  /\ \A p \in People : accounts[p].creator # NoAccount => accounts[accounts[p].creator].exists
  /\ functions \subseteq Codes /\ crossed \in BOOLEAN
  /\ roleCheck.role \in RoleSlugs \cup {NoRole} /\ roleCheck.holders \subseteq People
  /\ accountEdits \in 0 .. MaxAccountEdits

-----------------------------------------------------------------------------
(* effective_permission_codes, and what UserAccessSerializer shows *)

RoleCodes(r) == IF r # NoRole /\ roles[r].active THEN roles[r].codes \cap functions ELSE {}
Overriding(account, effect) == {c \in functions : account.overrides[c] = effect}

\* Faulty: an override of a function switched off still counts.
EffectiveOfInactive(account) ==
  IF ~ account.active THEN {}
  ELSE IF account.super THEN functions
  ELSE ((RoleCodes(account.role) \cup {c \in Codes : account.overrides[c] = "allow"})
         \ Overriding(account, "deny")) \ (IF account.type = "external" THEN Forbidden ELSE {})
Effective(account) ==
  IF ~ account.active THEN {}
  ELSE IF account.super THEN functions
  ELSE ((RoleCodes(account.role) \cup Overriding(account, "allow")) \ Overriding(account, "deny"))
         \ (IF account.type = "external" THEN Forbidden ELSE {})
May(p, code) == accounts[p].exists /\ accounts[p].active
                /\ (accounts[p].super \/ code \in Effective(accounts[p]))

\* _serialized_access: one override after the other, whichever the order.
Serialized(account) ==
  {c \in functions :
     /\ account.active
     /\ account.super \/
          /\ \/ account.overrides[c] = "allow"
             \/ account.overrides[c] = "none" /\ account.role # NoRole
                /\ roles[account.role].active /\ c \in roles[account.role].codes
          /\ account.type # "external" \/ c \notin Forbidden}

\* assignable_functions, assignable_roles
Grantable(p) == IF accounts[p].super THEN functions ELSE Effective(accounts[p])
\* Faulty: a role is assignable whatever it contains.
AssignableAny(p) == {r \in RoleSlugs : roles[r].exists /\ roles[r].active}
Assignable(p) ==
  {r \in RoleSlugs : roles[r].exists /\ roles[r].active
                     /\ (accounts[p].super \/ RoleCodes(r) \subseteq Effective(accounts[p]))}

\* subordinate_user_ids: everyone below, by who created whom.
Children(p) == {q \in People : accounts[q].exists /\ accounts[q].creator = p}
Subordinates(p) ==
  {q \in People : \A S \in SUBSET People :
     Children(p) \subseteq S /\ (\A s \in S : Children(s) \subseteq S) => q \in S} \ {p}
Reachable(p) ==
  IF accounts[p].super THEN {q \in People : accounts[q].exists}
  ELSE {q \in Subordinates(p) : ~ accounts[q].super}

-----------------------------------------------------------------------------
(* UserAccessSerializer *)

ForcedRole(type, asked) ==
  CASE type = "internal" -> "admin" [] type = "external" -> "external-vendor" [] OTHER -> asked

\* validate: who may make which kind of account.
TypeAllowed(p, type, allow) ==
  /\ type = "external" => allow \cap Forbidden = {}
  /\ accounts[p].type # "external"
  /\ accounts[p].type = "internal" => May(p, "respondents") /\ type = "employee"
  /\ accounts[p].type = "employee" /\ type # "employee" => May(p, "suppliers")

\* Faulty: codes the requester does not have may be passed on.
DelegableAll(p, codes) == codes \subseteq Codes
Delegable(p, codes) == codes \subseteq Grantable(p)

Overrides(allow, deny) ==
  [c \in Codes |-> IF c \in deny THEN "deny" ELSE IF c \in allow THEN "allow" ELSE "none"]

\* Faulty: what the account had been allowed before it became external is kept.
StrippedNot(account) == account
\* An external account loses its overrides of forbidden functions.
Stripped(account) ==
  IF account.type # "external" THEN account
  ELSE [account EXCEPT !.overrides = [c \in Codes |-> IF c \in Forbidden THEN "none" ELSE @[c]]]

Count == accountEdits < MaxAccountEdits /\ accountEdits' = accountEdits + 1

\* The signal gives a new account the employee role before the serializer's own.
CreateUser(p, q, type, asked, allow, deny) ==
  /\ ~ accounts[q].exists /\ Count
  /\ May(p, IF accounts[p].type = "employee" THEN "users" ELSE "respondents")
  /\ TypeAllowed(p, type, allow) /\ Delegable(p, allow \cup deny)
  /\ {asked, ForcedRole(type, asked)} \subseteq Assignable(p)
  /\ accounts' = [accounts EXCEPT ![q] =
       [exists |-> TRUE, active |-> TRUE, super |-> FALSE, role |-> ForcedRole(type, asked),
        type |-> type, overrides |-> Overrides(allow, deny), creator |-> p]]
  /\ UNCHANGED <<roles, functions, patches, roleCheck, crossed>>

\* A PATCH is validated against the account as it is loaded.
ValidatePatch(r, p, q, patch) ==
  /\ ~ patches[r].busy /\ Count
  /\ May(p, "users") /\ q \in Reachable(p)
  /\ LET type == IF "type" \in DOMAIN patch THEN patch.type ELSE accounts[q].type
         allow == IF "allow" \in DOMAIN patch THEN patch.allow ELSE {}
     IN /\ TypeAllowed(p, type, allow)
        /\ "allow" \in DOMAIN patch => Delegable(p, patch.allow \cup patch.deny)
        /\ "role" \in DOMAIN patch => patch.role \in Assignable(p)
  /\ patches' = [patches EXCEPT ![r] = [busy |-> TRUE, target |-> q, patch |-> patch, loaded |-> accounts[q]]]
  /\ UNCHANGED <<accounts, roles, functions, roleCheck, crossed>>

\* update and _update_access: the profile is read again, the forced role wins, and
\* overrides are replaced when the PATCH names any.
Updated(account, patch, loaded) ==
  LET type == IF "type" \in DOMAIN patch THEN patch.type ELSE loaded.type
      typed == IF "type" \in DOMAIN patch THEN [account EXCEPT !.type = patch.type] ELSE account
      asked == IF "role" \in DOMAIN patch THEN patch.role ELSE account.role
      kept == Stripped([typed EXCEPT !.role = ForcedRole(type, asked)])
  IN IF "allow" \in DOMAIN patch THEN [kept EXCEPT !.overrides = Overrides(patch.allow, patch.deny)]
     ELSE kept

SavePatch(r) ==
  /\ patches[r].busy
  /\ LET q == patches[r].target IN
     /\ accounts' = IF ~ accounts[q].exists THEN accounts
                    ELSE [accounts EXCEPT ![q] = Updated(@, patches[r].patch, patches[r].loaded)]
     /\ crossed' = (crossed \/ accounts[q] # patches[r].loaded)
  /\ patches' = [patches EXCEPT ![r] = NoPatch]
  /\ UNCHANGED <<roles, functions, roleCheck, accountEdits>>

\* Faulty: the accounts it created keep naming it.
RemovedAlone(q) == [accounts EXCEPT ![q] = Vacant]
Removed(q) ==
  [u \in People |-> IF u = q THEN Vacant
                    ELSE IF accounts[u].creator = q THEN [accounts[u] EXCEPT !.creator = NoAccount]
                    ELSE accounts[u]]

DeleteUser(p, q) ==
  /\ May(p, "users") /\ q \in Reachable(p) /\ q # p /\ ~ accounts[q].super /\ Count
  /\ accounts' = Removed(q)
  /\ roles' = [s \in RoleSlugs |-> IF roles[s].owner = q THEN [roles[s] EXCEPT !.owner = NoAccount] ELSE roles[s]]
  /\ UNCHANGED <<functions, patches, roleCheck, crossed>>

-----------------------------------------------------------------------------
(* RoleViewSet, AccessFunctionViewSet, sync_access_function_catalog *)

CanManageRole(p, s) == accounts[p].super \/ (s \notin SystemRoles /\ roles[s].owner = p)

CreateRole(p, codes) ==
  /\ May(p, "roles") /\ ~ roles["custom"].exists /\ Delegable(p, codes) /\ Count
  /\ roles' = [roles EXCEPT !["custom"] = [exists |-> TRUE, active |-> TRUE, codes |-> codes, owner |-> p]]
  /\ UNCHANGED <<accounts, functions, patches, roleCheck, crossed>>

UpdateRole(p, s, codes, active) ==
  /\ May(p, "roles") /\ s \in Assignable(p) /\ CanManageRole(p, s) /\ Delegable(p, codes) /\ Count
  /\ roles' = [roles EXCEPT ![s].codes = codes, ![s].active = active]
  /\ UNCHANGED <<accounts, functions, patches, roleCheck, crossed>>

Holders(s) == {q \in People : accounts[q].exists /\ accounts[q].role = s}

\* Faulty: a role that accounts hold may be deleted.
DeletableHeld(s) == TRUE
Deletable(s) == Holders(s) = {}

\* perform_destroy: the check is one query, the deletion another.
CheckRole(p, s) ==
  /\ roleCheck = NoCheck /\ Count
  /\ May(p, "roles") /\ s \in Assignable(p) /\ CanManageRole(p, s) /\ s \notin SystemRoles
  /\ Deletable(s)
  /\ roleCheck' = [role |-> s, holders |-> Holders(s)]
  /\ UNCHANGED <<accounts, roles, functions, patches, crossed>>

\* on_delete=SET_NULL
DeleteRole ==
  /\ roleCheck # NoCheck
  /\ roles' = [roles EXCEPT ![roleCheck.role] = [exists |-> FALSE, active |-> FALSE, codes |-> {}, owner |-> NoAccount]]
  /\ accounts' = [q \in People |-> IF accounts[q].role = roleCheck.role
                                   THEN [accounts[q] EXCEPT !.role = NoRole] ELSE accounts[q]]
  /\ roleCheck' = NoCheck
  /\ UNCHANGED <<functions, patches, crossed, accountEdits>>

ToggleFunction(c) ==
  /\ Count
  /\ functions' = IF c \in functions THEN functions \ {c} ELSE functions \cup {c}
  /\ UNCHANGED <<accounts, roles, patches, roleCheck, crossed>>

\* Every migration makes the functions of the catalog active again.
SyncCatalog ==
  /\ functions # Codes /\ functions' = Codes
  /\ UNCHANGED <<accounts, roles, patches, roleCheck, crossed, accountEdits>>

-----------------------------------------------------------------------------
(* The owner is set up first and has given the others accounts of some role. *)

Role(codes) == [exists |-> TRUE, active |-> TRUE, codes |-> codes, owner |-> NoAccount]

AccessInit ==
  /\ \E custom \in {{"users", "roles", "plain"}, {"users", "suppliers"}} :
       roles = [s \in RoleSlugs |->
         CASE s = "employee" -> Role({"plain"})
           [] s = "admin" -> Role({"users", "respondents", "plain"})
           [] s = "external-vendor" -> Role({"plain"})
           [] OTHER -> [Role(custom) EXCEPT !.owner = Owner]]
  /\ \E manager \in Staff, held \in {"admin", "custom"} :
       accounts = [q \in People |->
         CASE q = Owner -> [Vacant EXCEPT !.exists = TRUE, !.active = TRUE, !.super = TRUE]
           [] q = manager -> [Vacant EXCEPT !.exists = TRUE, !.active = TRUE, !.role = held, !.creator = Owner]
           [] OTHER -> Vacant]
  /\ functions = Codes /\ patches = [r \in AccessRequests |-> NoPatch] /\ roleCheck = NoCheck
  /\ crossed = FALSE /\ accountEdits = 0

\* One field per PATCH; few codes are passed on.
PassedOn == {{}, {"plain"}, {"users"}, {"suppliers"}}
Patches ==
  {[type |-> t] : t \in AccountTypes} \cup {[role |-> s] : s \in {"employee", "admin", "custom"}}
  \cup {[allow |-> a, deny |-> d] : a \in PassedOn, d \in {{}, {"plain"}}}

AccessNext ==
  \/ \E p \in People, q \in Staff : \E t \in AccountTypes, s \in {"employee", "custom"}, a \in PassedOn :
       CreateUser(p, q, t, s, a, {})
  \/ \E r \in AccessRequests, p \in People, q \in Staff, patch \in Patches : ValidatePatch(r, p, q, patch)
  \/ \E r \in AccessRequests : SavePatch(r)
  \/ \E p \in People, q \in Staff : DeleteUser(p, q)
  \/ \E p \in People, codes \in PassedOn : CreateRole(p, codes)
  \/ \E p \in People, codes \in PassedOn, b \in BOOLEAN : UpdateRole(p, "custom", codes, b)
  \/ \E p \in People : CheckRole(p, "custom")
  \/ DeleteRole \/ SyncCatalog
  \/ \E c \in {"users", "plain"} : ToggleFunction(c)

AccessSpec == AccessInit /\ [][AccessNext]_accessVars

-----------------------------------------------------------------------------
(* Properties *)

\* What the access page shows of an account is what its requests are held to.
ShownIsEnforced ==
  \A q \in People : accounts[q].exists => Serialized(accounts[q]) = Effective(accounts[q])

\* "You cannot delegate functions you do not have": a new account can do nothing
\* its creator could not do, as long as roles and functions stay as they were.
CreatedWithinCreator ==
  [][\A q \in People :
       ~ accounts[q].exists /\ accounts'[q].exists =>
         Effective(accounts'[q]) \subseteq Effective(accounts[accounts'[q].creator])]_accessVars

\* "External suppliers cannot receive management functions": none is stored as
\* allowed either, through any sequence of conversions between account types,
\* unless two edits of the account crossed.
ExternalAllowsNothingForbidden ==
  \A q \in People : accounts[q].type = "external" /\ ~ crossed =>
    \A c \in Forbidden : accounts[q].overrides[c] # "allow"

\* "Move users to another role before deleting this role": whoever loses the role
\* with its deletion was given it after the check.
StrandedOnlyLate ==
  [][roleCheck # NoCheck /\ roleCheck' = NoCheck =>
       \A q \in roleCheck.holders : accounts'[q].role # NoRole \/ ~ accounts'[q].exists]_accessVars

\* What UserAccessSerializer and RoleViewSet guarantee of accounts and roles, in
\* every state and of every step that creates an account or deletes a role.
AccessSound ==
  /\ [](AccessTypeOK /\ ShownIsEnforced /\ ExternalAllowsNothingForbidden)
  /\ CreatedWithinCreator
  /\ StrandedOnlyLate
=============================================================================
