------------------------------ MODULE MCRecords ------------------------------
(***************************************************************************)
(* Instances of the components that are checked for safety only.  They     *)
(* share no state, so one run of TLC takes them up one after the other:    *)
(* `focus' is the component whose steps a behaviour takes, and the others  *)
(* rest in one of their initial states.                                    *)
(***************************************************************************)
EXTENDS SharedCache, OrganizationTree, SupplierScope, SupplierPricing,
        IntegrationSettings, AccessControl, Screening, TrafficReports, TLC

CONSTANTS
    Focuses,         \* the components to check
    a1, o1, h1, h2   \* model values

----------------------------------------------------------------------------
(* The constants of the instances.                                         *)

\* SupplierScope: one buyer's account and one offer of it.
OneOffer == o1 :> a1

\* Screening: contracts over two questions.  RFG quotas are single rules under
\* a project rule; Toluna quotas have one or two layers of subquotas.
NoQuestion == [q \in {} |-> {}]
OneAnswerRules == {NoQuestion} \cup UNION {[D -> {{1}, {2}}] : D \in (SUBSET Questions) \ {{}}}
FewRules == {r \in OneAnswerRules : \A q \in DOMAIN r : r[q] = {1}} \cup {"q1" :> {2}}

Layered(left, layers) == [left |-> left, layers |-> layers]
OnlyRule(r) == {{[rule |-> r, full |-> FALSE]}}

RfgContracts ==
    [provider : {"rfg"}, project : FewRules, exclude : BOOLEAN, primary : {{}}, alias : {{}},
     quotas : {<<>>} \cup [1 .. 2 -> {Layered(l, OnlyRule(r)) : l \in {0, 1}, r \in OneAnswerRules}]]

SubquotaRows == [rule : FewRules, full : BOOLEAN]

TolunaContracts ==
    LET layers == {{}} \cup {{{s, t}} : s, t \in SubquotaRows} \cup {{{s}, {t}} : s, t \in SubquotaRows}
    IN  [provider : {"toluna"}, project : {NoQuestion}, exclude : {FALSE},
         primary : {{}}, alias : {{}},
         quotas : {<<Layered(l, x), Layered(1, OnlyRule(r))>> :
                        l \in {0, 1}, x \in layers, r \in FewRules}]

AgeRanges == SUBSET {<<1, 2>>, <<1, 5>>, <<2, 3>>, <<4, 4>>, <<6, 6>>}

AgeContracts ==
    [provider : {"rfg"}, project : {NoQuestion}, exclude : {FALSE},
     primary : AgeRanges, alias : AgeRanges, quotas : {<<>>}]

SomeContracts == AgeContracts \cup RfgContracts \cup TolunaContracts

\* TrafficReports: user 2's primary key is user 1's employee id; months of one,
\* two and seven days; a row with its owner and one of an early link.
CrossedIds == (1 :> 2) @@ (2 :> 9)
ShortMonths == <<0, 2, 6, 20>>
OwnedAndEarly == {[owner |-> 1, legacy |-> 1], [owner |-> NoOwner, legacy |-> 2]}
EveryUser == {ReportUsers}
OneEach == (h1 :> 1) @@ (h2 :> 2)

----------------------------------------------------------------------------
VARIABLE focus

recordsVars == <<focus, cacheVars, treeVars, scopeVars,
                 priceVars, settingVars, accessVars, screenVars, reportVars>>

AnyOf(S) == CHOOSE x \in S : TRUE

\* A component out of focus rests in one initial state.
\* Grants are interchangeable, and so are the members of the staff: one of each
\* stands for the others in the initial states.
CacheRests == granted = AnyOf(Access)
TreeRests ==
    /\ unit = [u \in Units |-> [type |-> "branch", parent |-> Root, active |-> TRUE]]
    /\ rule = [u \in Units |-> [b \in Buyers |-> NoRule]]
    /\ place = [m \in Members |-> AnyOf(Units)]
ScopeRests == offer = [o \in Offers |-> [price |-> AnyOf(Prices), left |-> 1, live |-> TRUE]]
PriceRests == viewer = AnyOf(Viewers) /\ source = AnyOf(Amounts)
SettingRests ==
    integration = CHOOSE r \in Rows : /\ r.status = "" /\ r.token = NoCredential
                                      /\ Acceptable([r EXCEPT !.scheduled = FALSE], r)
AccessRests ==
    /\ roles = [s \in RoleSlugs |->
            CASE s = "employee"        -> Role({"plain"})
              [] s = "admin"           -> Role({"users", "respondents", "plain"})
              [] s = "external-vendor" -> Role({"plain"})
              [] OTHER                 -> [Role({"users", "suppliers"}) EXCEPT !.owner = Owner]]
    /\ accounts = [p \in People |->
            CASE p = Owner        -> [Vacant EXCEPT !.exists = TRUE, !.active = TRUE, !.super = TRUE]
              [] p = AnyOf(Staff) -> [Vacant EXCEPT !.exists = TRUE, !.active = TRUE,
                                                    !.role = "admin", !.creator = Owner]
              [] OTHER            -> Vacant]
ScreenRests == contract = AnyOf(SomeContracts)

RecordsInit ==
    /\ focus \in Focuses
    /\ CacheRests /\ CacheInit
    /\ (IF focus = "tree" THEN TRUE ELSE TreeRests) /\ TreeInit
    /\ (IF focus = "scope" THEN TRUE ELSE ScopeRests) /\ ScopeInit
    /\ (IF focus = "price" THEN TRUE ELSE PriceRests) /\ PriceInit
    /\ (IF focus = "setting" THEN TRUE ELSE SettingRests) /\ SettingInit
    /\ (IF focus = "access" THEN TRUE ELSE AccessRests) /\ AccessInit
    /\ accounts[AnyOf(Staff)].exists
    /\ (IF focus = "screen" THEN TRUE ELSE ScreenRests) /\ ScreenInit
    /\ ReportInit

RecordsNext ==
    \/ /\ focus = "cache" /\ CacheNext
       /\ UNCHANGED <<focus, treeVars, scopeVars, priceVars, settingVars,
                      accessVars, screenVars, reportVars>>
    \/ /\ focus = "tree" /\ TreeNext
       /\ UNCHANGED <<focus, cacheVars, scopeVars, priceVars, settingVars,
                      accessVars, screenVars, reportVars>>
    \/ /\ focus = "scope" /\ ScopeNext
       /\ UNCHANGED <<focus, cacheVars, treeVars, priceVars, settingVars,
                      accessVars, screenVars, reportVars>>
    \/ /\ focus = "price" /\ PriceNext
       /\ UNCHANGED <<focus, cacheVars, treeVars, scopeVars, settingVars,
                      accessVars, screenVars, reportVars>>
    \/ /\ focus = "setting" /\ SettingNext
       /\ UNCHANGED <<focus, cacheVars, treeVars, scopeVars, priceVars,
                      accessVars, screenVars, reportVars>>
    \/ /\ focus = "access" /\ AccessNext
       /\ UNCHANGED <<focus, cacheVars, treeVars, scopeVars, priceVars,
                      settingVars, screenVars, reportVars>>
    \/ /\ focus = "screen" /\ ScreenNext
       /\ UNCHANGED <<focus, cacheVars, treeVars, scopeVars, priceVars,
                      settingVars, accessVars, reportVars>>
    \/ /\ focus = "report" /\ ReportNext
       /\ UNCHANGED <<focus, cacheVars, treeVars, scopeVars, priceVars,
                      settingVars, accessVars, screenVars>>

RecordsSpec == RecordsInit /\ [][RecordsNext]_recordsVars
=============================================================================
