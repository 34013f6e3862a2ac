------------------------------ MODULE MCInventory ------------------------------
(***************************************************************************)
(* Instances of the models of what is kept in step with the providers: the  *)
(* inventory runs (InventorySync), one Toluna survey with its quota and     *)
(* notifications (TolunaInventory), the adapters' surveys with their        *)
(* details (SurveyFeed) and a Toluna member's profile (TolunaMembers).      *)
(* They share no variables, so `focus' says which of them a behaviour       *)
(* moves; the others rest.                                                  *)
(***************************************************************************)
EXTENDS InventorySync, TolunaInventory, SurveyFeed, TolunaMembers, TLC

CONSTANTS
  Focuses,                    \* the models to check
  m1, m2, e1, e2, e3, q1      \* model values

\* SurveyFeed: one survey per market.
OneMarketEach == (1 :> m1) @@ (2 :> m2)

\* TolunaMembers: three attempts with one profile, on surveys one of which asks
\* for nothing.
OneMember == [e \in Submissions |-> "member"]
TwoForms  == [e \in Submissions |-> IF e = e3 THEN {} ELSE Questions]

VARIABLE focus

AnyOf(S) == CHOOSE x \in S : TRUE

\* The contracts are interchangeable, so the survey begins with a given one.
FirstContract ==
  upstream \in {s \in Snapshot : s.raw.contract = AnyOf(Contracts)}

MCInit ==
  /\ focus \in Focuses
  /\ (IF focus = "inventory" THEN TRUE ELSE batched = AnyOf(Paths) /\ allocated = {})
  /\ InventoryInit
  /\ (IF focus = "toluna" THEN FirstContract ELSE upstream = AnyOf(Snapshot))
  /\ TolunaInit
  /\ (IF focus = "feed" THEN TRUE ELSE adapter = AnyOf(Adapters))
  /\ FeedInit
  /\ MemberInit

MCNext ==
  \/ focus = "inventory" /\ InventoryNext /\ UNCHANGED <<focus, tolunaVars, feedVars, memberVars>>
  \/ focus = "toluna" /\ TolunaNext /\ UNCHANGED <<focus, inventoryVars, feedVars, memberVars>>
  \/ focus = "feed" /\ FeedNext /\ UNCHANGED <<focus, inventoryVars, tolunaVars, memberVars>>
  \/ focus = "members" /\ MemberNext /\ UNCHANGED <<focus, inventoryVars, tolunaVars, feedVars>>

MCSpec == MCInit /\ [][MCNext]_<<focus, inventoryVars, tolunaVars, feedVars, memberVars>>

(***************************************************************************)
(* The types of the three models (Survey and SyncRun rows, notifications,   *)
(* replays and processes), among them that no offset skips a batch and no   *)
(* replay takes a notification both as applied and as pending.              *)
(***************************************************************************)
InventoryTypesOK == InventoryTypeOK /\ TolunaTypeOK /\ FeedTypeOK
=============================================================================
