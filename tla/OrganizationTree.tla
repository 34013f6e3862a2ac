---------------------------- MODULE OrganizationTree ----------------------------
(***************************************************************************)
(* The Branch -> Sub-branch -> Shift tree of one workspace, the client rules *)
(* of its units and the members placed in them.  Requests validate an edit   *)
(* against the rows they read and save the whole row afterwards; no lock is  *)
(* held in between.  A member's client policy is resolved along its unit's   *)
(* ancestry.                                                                 *)
(***************************************************************************)
EXTENDS Naturals, Sequences, FiniteSets, FiniteSetsExt

CONSTANTS
  Units,       \* unit ids, in the order of creation
  Buyers,      \* clients a rule may name
  Members,     \* employees
  Editors,     \* concurrent requests that edit units
  MaxTreeEdits \* bound: unit and rule edits

ASSUME OrganizationTreeAssumption ==
  /\ IsFiniteSet(Units) /\ Units \subseteq Nat \ {0}
  /\ IsFiniteSet(Members) /\ MaxTreeEdits \in Nat

VARIABLES
  unit,      \* OrganizationUnit rows
  rule,      \* OrganizationClientAccess rows, by unit and client
  place,     \* EmployeeProfile.organization_unit
  allotted,  \* clients allocated to the workspace owner and active
  editing,   \* validated unit edits not yet saved
  treeEdits,
  overlapped \* history: two unit edits were under way at once

treeVars == <<unit, rule, place, allotted, editing, treeEdits, overlapped>>

Root == 0  \* no parent, no unit
UnitTypes == {"branch", "sub_branch", "shift"}
NoUnit == [type |-> "absent", parent |-> Root, active |-> FALSE]
NoRule == [set |-> FALSE, allow |-> FALSE, inherit |-> FALSE]
NotEditing == [unit |-> Root, row |-> NoUnit]
UnitRows == [type : UnitTypes, parent : Units \cup {Root}, active : BOOLEAN]

Present(u) == unit[u] # NoUnit

TreeTypeOK ==
  /\ unit \in [Units -> UnitRows \cup {NoUnit}]
  /\ rule \in [Units -> [Buyers -> [set : BOOLEAN, allow : BOOLEAN, inherit : BOOLEAN]]]
  /\ place \in [Members -> Units \cup {Root}]
  /\ \A m \in Members : place[m] # Root => Present(place[m])
  /\ allotted \subseteq Buyers
  /\ editing \in [Editors -> [unit : Units \cup {Root}, row : UnitRows \cup {NoUnit}]]
  /\ treeEdits \in 0 .. MaxTreeEdits /\ overlapped \in BOOLEAN

-----------------------------------------------------------------------------
(* OrganizationUnit.clean *)

ParentType(t) == CASE t = "branch" -> "absent" [] t = "sub_branch" -> "branch"
                   [] t = "shift" -> "sub_branch"
ChildType(t) == CASE t = "branch" -> "sub_branch" [] t = "sub_branch" -> "shift"
                  [] t = "shift" -> "absent"
ChildrenOf(u) == {c \in Units : Present(c) /\ unit[c].parent = u}

\* Units from u up to its root, stopping where the walk meets a unit again.
Ancestry(u) ==
  LET walk[n \in 0 .. Cardinality(Units)] ==
        IF n = 0 THEN <<u>>
        ELSE LET up == unit[walk[n - 1][Len(walk[n - 1])]].parent
             IN IF up = Root \/ \E i \in 1 .. Len(walk[n - 1]) : walk[n - 1][i] = up
                  THEN walk[n - 1] ELSE Append(walk[n - 1], up)
  IN walk[Cardinality(Units)]

InAncestry(u, v) == \E i \in 1 .. Len(Ancestry(u)) : Ancestry(u)[i] = v

\* Faulty: the children of a unit that changes its type are not looked at.
ValidRowAlone(u, row) ==
  IF row.type = "branch" THEN row.parent = Root
  ELSE /\ row.parent # Root /\ row.parent # u
       /\ unit[row.parent].type = ParentType(row.type) /\ ~ InAncestry(row.parent, u)
ValidRow(u, row) ==
  /\ IF row.type = "branch" THEN row.parent = Root
     ELSE /\ row.parent # Root /\ row.parent # u
          /\ unit[row.parent].type = ParentType(row.type) /\ ~ InAncestry(row.parent, u)
  /\ \A c \in ChildrenOf(u) : unit[c].type = ChildType(row.type)

StrictTree ==
  \A u \in Units : Present(u) =>
    IF unit[u].type = "branch" THEN unit[u].parent = Root
    ELSE unit[u].parent # Root /\ unit[unit[u].parent].type = ParentType(unit[u].type)

-----------------------------------------------------------------------------
(* OrganizationUnitViewSet and OrganizationClientAccessViewSet *)

\* Some tree, with client rules and its members in shifts once it has shifts.
TreeInit ==
  /\ unit \in [Units -> UnitRows] /\ StrictTree
  /\ \A u \in Units : unit[u].parent < u  \* a parent is created first
  /\ \A u \in Units : Present(u) => unit[u].active
  /\ rule \in [Units -> [Buyers -> {NoRule} \cup [set : {TRUE}, allow : BOOLEAN, inherit : BOOLEAN]]]
  /\ LET shifts == {u \in Units : unit[u].type = "shift"}
     IN IF shifts # {} THEN place \in [Members -> shifts]
        ELSE place \in [Members -> Units] /\ \A u \in Units, b \in Buyers : rule[u][b] = NoRule
  /\ allotted = Buyers
  /\ editing = [e \in Editors |-> NotEditing]
  /\ treeEdits = 0 /\ overlapped = FALSE

CountEdit == treeEdits < MaxTreeEdits /\ treeEdits' = treeEdits + 1

\* The serializer loads the row, applies the fields sent and validates the result.
ValidateUnit(e) ==
  /\ editing[e] = NotEditing /\ CountEdit
  /\ \E u \in Units, row \in UnitRows :
       /\ row # unit[u] /\ row.parent \in {Root} \cup {v \in Units : Present(v)} /\ ValidRow(u, row)
       /\ editing' = [editing EXCEPT ![e] = [unit |-> u, row |-> row]]
  /\ overlapped' = (overlapped \/ \E f \in Editors : editing[f] # NotEditing)
  /\ UNCHANGED <<unit, rule, place, allotted>>

\* A foreign key to a parent deleted meanwhile is refused by the database.
SaveUnit(e) ==
  LET row == editing[e].row
  IN /\ editing[e] # NotEditing
     /\ unit' = IF row.parent # Root /\ ~ Present(row.parent) THEN unit
                ELSE [unit EXCEPT ![editing[e].unit] = row]
     /\ editing' = [editing EXCEPT ![e] = NotEditing]
     /\ UNCHANGED <<rule, place, allotted, treeEdits, overlapped>>

\* Faulty: the members keep naming the deleted unit.
VacatedNot(u) == place
Vacated(u) == [m \in Members |-> IF place[m] = u THEN Root ELSE place[m]]

\* Children and client rules protect a unit; members are set to no unit.
DeleteUnit(u) ==
  /\ Present(u) /\ ChildrenOf(u) = {} /\ \A b \in Buyers : ~ rule[u][b].set
  /\ CountEdit
  /\ unit' = [unit EXCEPT ![u] = NoUnit]
  /\ place' = Vacated(u)
  /\ overlapped' = (overlapped \/ \E f \in Editors : editing[f] # NotEditing)
  /\ UNCHANGED <<rule, allotted, editing>>

AssignClient(u, b) ==
  /\ Present(u) /\ b \in allotted /\ CountEdit
  /\ \E allow, inherit \in BOOLEAN :
       rule' = [rule EXCEPT ![u][b] = [set |-> TRUE, allow |-> allow, inherit |-> inherit]]
  /\ UNCHANGED <<unit, place, allotted, editing, overlapped>>

RemoveClient(u, b) ==
  /\ rule[u][b].set /\ CountEdit
  /\ rule' = [rule EXCEPT ![u][b] = NoRule]
  /\ UNCHANGED <<unit, place, allotted, editing, overlapped>>

\* The owner's allocation, or the client itself, is switched off.
WithdrawClient(b) ==
  /\ b \in allotted /\ allotted' = allotted \ {b} /\ CountEdit
  /\ UNCHANGED <<unit, rule, place, editing, overlapped>>

\* UserAccessSerializer: the new unit is a shift below active units only.
MoveMember(m) ==
  /\ CountEdit
  /\ \E u \in Units :
       /\ unit[u].type = "shift" /\ u # place[m]
       /\ \A i \in 1 .. Len(Ancestry(u)) : unit[Ancestry(u)[i]].active
       /\ place' = [place EXCEPT ![m] = u]
  /\ UNCHANGED <<unit, rule, allotted, editing, overlapped>>

TreeNext ==
  \/ \E e \in Editors : ValidateUnit(e) \/ SaveUnit(e)
  \/ \E u \in Units : DeleteUnit(u) \/ \E b \in Buyers : AssignClient(u, b) \/ RemoveClient(u, b)
  \/ \E b \in Buyers : WithdrawClient(b)
  \/ \E m \in Members : MoveMember(m)

TreeSpec == TreeInit /\ [][TreeNext]_treeVars

-----------------------------------------------------------------------------
(* organization_client_policies_for_user, organization_unit_rollup_counts *)

Unruled == [allow |-> FALSE, range |-> Root]

\* Faulty: every rule keeps the range of the unit it is set on.
OverriddenFlat(policy, r, u) == [allow |-> r.allow, range |-> u]
\* A rule replaces its parent's policy; an inheriting one keeps the CPI range,
\* which is named here by the unit it was entered on.
Overridden(policy, r, u) ==
  [allow |-> r.allow,
   range |-> IF r.inherit /\ policy # Unruled THEN policy.range ELSE u]

Closed(u) == \E i \in 1 .. Len(Ancestry(u)) : ~ unit[Ancestry(u)[i]].active

\* The rules of the ancestry applied from the root down.
PolicyOf(u, b) ==
  LET up == Ancestry(u)
      fold[n \in 0 .. Len(up)] ==
        IF n = 0 THEN Unruled
        ELSE LET v == up[Len(up) + 1 - n]
             IN IF rule[v][b].set THEN Overridden(fold[n - 1], rule[v][b], v) ELSE fold[n - 1]
  IN IF Closed(u) \/ b \notin allotted THEN Unruled ELSE fold[Len(up)]

\* Faulty: only the units directly below are added.
RollupOneLevel(u) ==
  Cardinality({m \in Members : place[m] \in {u} \cup ChildrenOf(u)})
\* visit: members of a unit and, once each, of everything below it.
RollupMembers(u) ==
  LET sum[n \in 0 .. Cardinality(Units)] ==
        IF n = 0 THEN [v \in Units |-> 0]
        ELSE [v \in Units |-> Cardinality({m \in Members : place[m] = v})
                                + MapThenSumSet(LAMBDA c : sum[n - 1][c], ChildrenOf(v))]
  IN sum[Cardinality(Units)][u]

-----------------------------------------------------------------------------
(* Properties *)

\* The strict hierarchy of the model's docstring is kept by every sequence of
\* edits in which no two of them overlap.
StrictUnlessOverlapped == overlapped \/ StrictTree

\* Whatever the tree has become, a member's policy for a client is the rule of
\* the nearest unit that has one, with the range of the nearest rule that does
\* not inherit (or of the topmost), and an inactive unit anywhere above closes it.
PolicyIsNearest ==
  \A m \in Members, b \in Buyers : place[m] # Root =>
    LET up == Ancestry(place[m])
        ruled == {i \in 1 .. Len(up) : rule[up[i]][b].set}
        own == {i \in ruled : ~ rule[up[i]][b].inherit}
    IN PolicyOf(place[m], b) =
         IF ruled = {} \/ b \notin allotted \/ \E i \in 1 .. Len(up) : ~ unit[up[i]].active
           THEN Unruled
           ELSE [allow |-> rule[up[Min(ruled)]][b].allow,
                 range |-> up[IF own = {} THEN Max(ruled) ELSE Min(own)]]

\* The totals shown for a unit of an intact tree count each member of its
\* subtree once.
RollupCountsOnce ==
  StrictTree => \A u \in Units : Present(u) =>
    RollupMembers(u) = Cardinality({m \in Members : place[m] # Root /\ InAncestry(place[m], u)})

\* What OrganizationUnit.clean, the policy and the rollup promise of a workspace's
\* tree under edits that overlap, deletions and moves.
TreeInv == TreeTypeOK /\ StrictUnlessOverlapped /\ PolicyIsNearest /\ RollupCountsOnce
=============================================================================
