----------------------------- MODULE SupplierPricing -----------------------------
(***************************************************************************)
(* The CPI a viewer sees: per row in the inventory, as a database expression *)
(* when the inventory is sorted or exported, frozen with an entry, and in    *)
(* the reports on that entry.  Amounts are cents and percentages are whole   *)
(* here: the code keeps four and two decimals.             *)
(***************************************************************************)
EXTENDS Integers, FiniteSets

CONSTANTS
  Amounts,        \* source CPIs, in cents
  Cuts,           \* percentages
  Inherited,      \* an override that is not set
  Viewers,        \* kinds of account that look
  MaxPriceEdits   \* bound: edits and synchronizations

ASSUME SupplierPricingAssumption ==
  /\ Amounts \subseteq Nat /\ Cuts \subseteq 0 .. 100 /\ 0 \in Cuts /\ Inherited \notin Cuts
  /\ Viewers \subseteq {"owner", "admin", "employee", "internal", "internal_employee",
                        "external", "external_employee"}
  /\ MaxPriceEdits \in Nat

VARIABLES
  viewer,     \* who looks
  source,     \* Survey.cpi
  cuts,       \* commercial default, client override and project rule of the supplier
  visible,    \* Role.cpi_visibility_percent of an employee viewer
  frozen,     \* the snapshot of the viewer's attempt
  seen,       \* history: the inventory price when the attempt entered
  priceEdits

priceVars == <<viewer, source, cuts, visible, frozen, seen, priceEdits>>

Whole == 100
NotFrozen == [set |-> FALSE, source |-> 0, cut |-> 0, payable |-> 0]
NoProject == [set |-> FALSE, cut |-> Inherited]
Employees == {"admin", "employee", "internal_employee", "external_employee"}
Scoped == {"internal", "internal_employee", "external", "external_employee"}
ExternalScope == {"external", "external_employee"}

PriceTypeOK ==
  /\ viewer \in Viewers /\ source \in Amounts /\ visible \in Cuts \cup {Whole}
  /\ cuts.default \in Cuts /\ cuts.client \in Cuts \cup {Inherited}
  /\ cuts.project \in [set : BOOLEAN, cut : Cuts \cup {Inherited}]
  /\ frozen.set \in BOOLEAN /\ frozen.source \in Amounts \cup {0}
  /\ frozen.cut \in Cuts /\ frozen.payable \in 0 .. frozen.source
  /\ seen \in Nat /\ priceEdits \in 0 .. MaxPriceEdits

-----------------------------------------------------------------------------
(* payable_cpi, apply_percentage, effective_cpi_cut_percent *)

\* Faulty: rounded down instead of half up.
PayableDown(cents, cut) == (cents * (Whole - cut)) \div Whole
\* Faulty: the cut is added.
PayableAdded(cents, cut) == (cents * (Whole + cut) + Whole \div 2) \div Whole
Payable(cents, cut) == (cents * (Whole - cut) + Whole \div 2) \div Whole
ApplyPercentage(cents, percent) == (cents * percent + Whole \div 2) \div Whole

EffectiveShare(override, otherwise) == IF override = Inherited THEN otherwise ELSE override

\* Faulty: a project rule without a cut of its own falls back to the default.
SupplierCutDefault ==
  IF viewer \notin ExternalScope THEN 0
  ELSE IF cuts.project.set THEN EffectiveShare(cuts.project.cut, cuts.default)
  ELSE EffectiveShare(cuts.client, cuts.default)
\* Internal suppliers always receive the full CPI.
SupplierCut ==
  IF viewer \notin ExternalScope THEN 0
  ELSE IF cuts.project.set THEN EffectiveShare(cuts.project.cut, EffectiveShare(cuts.client, cuts.default))
  ELSE EffectiveShare(cuts.client, cuts.default)

Visible == IF viewer \in Employees THEN visible ELSE Whole

-----------------------------------------------------------------------------
(* survey_pricing_for_user, annotate_survey_pricing_for_user, report_pricing *)

\* One rounding for the supplier's cut, another for the role's share.
RowPrice ==
  LET paid == IF viewer \in Scoped THEN Payable(source, SupplierCut) ELSE source
  IN IF viewer \in Employees THEN Payable(paid, Whole - visible) ELSE paid

\* Coalesced cuts, one rounding at the end.
AnnotatedCut ==
  LET client == IF cuts.client # Inherited THEN cuts.client ELSE cuts.default
  IN IF viewer \notin ExternalScope THEN 0
     ELSE IF cuts.project.set /\ cuts.project.cut # Inherited THEN cuts.project.cut ELSE client
AnnotatedPrice ==
  (source * (Whole - AnnotatedCut) * Visible + (Whole * Whole) \div 2) \div (Whole * Whole)

CanViewCommercials == viewer \in {"owner", "admin", "internal"}

\* Faulty: the live cut is applied to a past attempt.
ReportPriceLive(current) ==
  IF CanViewCommercials THEN IF current THEN source ELSE frozen.source
  ELSE ApplyPercentage(ApplyPercentage(IF current THEN source ELSE frozen.source, Whole - SupplierCut),
                       Visible)
\* viewer_attempt_cpi
ReportPrice(current) ==
  LET of == IF current THEN source ELSE frozen.source
      base == IF viewer \notin ExternalScope THEN of
              ELSE IF current THEN ApplyPercentage(of, Whole - frozen.cut) ELSE frozen.payable
  IN IF CanViewCommercials THEN of ELSE ApplyPercentage(base, Visible)

-----------------------------------------------------------------------------
PriceInit ==
  /\ viewer \in Viewers /\ source \in Amounts
  /\ cuts = [default |-> 0, client |-> Inherited, project |-> NoProject]
  /\ visible = Whole /\ frozen = NotFrozen /\ seen = 0 /\ priceEdits = 0

CountPriceEdit == priceEdits < MaxPriceEdits /\ priceEdits' = priceEdits + 1

SyncPrice ==
  /\ source' \in Amounts \ {source} /\ CountPriceEdit
  /\ UNCHANGED <<viewer, cuts, visible, frozen, seen>>

\* Internal suppliers' cuts must stay zero.
EditCut ==
  /\ viewer \in ExternalScope /\ CountPriceEdit
  /\ \E c \in Cuts, o \in Cuts \cup {Inherited} :
       cuts' \in {[cuts EXCEPT !.default = c], [cuts EXCEPT !.client = o],
                  [cuts EXCEPT !.project = [set |-> TRUE, cut |-> o]],
                  [cuts EXCEPT !.project = NoProject]} \ {cuts}
  /\ UNCHANGED <<viewer, source, visible, frozen, seen>>

EditVisibility ==
  /\ viewer \in Employees /\ visible' \in (Cuts \cup {Whole}) \ {visible} /\ CountPriceEdit
  /\ UNCHANGED <<viewer, source, cuts, frozen, seen>>

\* reserve_attempt_capacity
FreezePrice ==
  /\ viewer \in Scoped /\ ~ frozen.set
  /\ frozen' = [set |-> TRUE, source |-> source, cut |-> SupplierCut,
                payable |-> Payable(source, SupplierCut)]
  /\ seen' = RowPrice
  /\ UNCHANGED <<viewer, source, cuts, visible, priceEdits>>

PriceNext == SyncPrice \/ EditCut \/ EditVisibility \/ FreezePrice
PriceSpec == PriceInit /\ [][PriceNext]_priceVars

-----------------------------------------------------------------------------
(* Properties *)

Apart(x, y) == IF x > y THEN x - y ELSE y - x

\* The price an inventory row shows and the one the database sorts, filters and
\* exports by differ by a cent at most, and not at all where one cut applies.
AnnotatedWithinACent ==
  /\ Apart(RowPrice, AnnotatedPrice) <= 1
  /\ SupplierCut = 0 \/ Visible = Whole => RowPrice = AnnotatedPrice

\* "The project inventory and respondent reports must show the same commercial
\* price to a scoped user": the price of a past entry is the one its inventory
\* row showed, under the viewer's share as it is now, whatever is edited after.
ReportShowsEntryPrice ==
  frozen.set /\ viewer \in ExternalScope =>
    ReportPrice(FALSE) = ApplyPercentage(Payable(frozen.source, frozen.cut), Visible)
    /\ (priceEdits = 0 => ReportPrice(FALSE) = seen)

\* While the supplier's cut is the frozen one, the current price in a report is
\* the inventory's.
ReportFollowsInventory ==
  frozen.set /\ ~ CanViewCommercials /\ frozen.cut = SupplierCut => ReportPrice(TRUE) = RowPrice

\* One price, however it is computed: row by row, in the database, or for a past
\* entry in a report (viewer_attempt_cpi).
PriceInv ==
  PriceTypeOK /\ AnnotatedWithinACent /\ ReportShowsEntryPrice /\ ReportFollowsInventory
=============================================================================
