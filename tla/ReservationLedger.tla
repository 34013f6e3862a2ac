--------------------------- MODULE ReservationLedger ---------------------------
(***************************************************************************)
(* What the reservation service promises of an attempt's frozen unit: it is *)
(* taken when the journey opens and leaves "reserved" once, either in the   *)
(* very step that ends the journey, by that step's outcome, or by lapsing   *)
(* while the journey is open.  A provider may revise the outcome of an      *)
(* ended journey; the unit does not follow.                                 *)
(***************************************************************************)
CONSTANT Attempts

VARIABLES
  journey,  \* "absent", "open", "completed" or "failed"
  unit      \* "none", "reserved", "consumed", "released" or "expired"

vars == <<journey, unit>>

Ends == {"completed", "failed"}

\* Journeys of an earlier release may be open when this one starts.
Init ==
  \E old \in SUBSET Attempts :
    /\ journey = [a \in Attempts |-> IF a \in old THEN "open" ELSE "absent"]
    /\ unit = [a \in Attempts |-> IF a \in old THEN "reserved" ELSE "none"]

Open(a, held) ==
  /\ journey[a] = "absent"
  /\ journey' = [journey EXCEPT ![a] = "open"]
  /\ unit' = [unit EXCEPT ![a] = IF held THEN "reserved" ELSE "none"]

End(a, end) ==
  /\ journey[a] = "open"
  /\ journey' = [journey EXCEPT ![a] = end]
  /\ unit' = [unit EXCEPT ![a] =
                IF @ = "reserved"
                  THEN IF end = "completed" THEN "consumed" ELSE "released"
                  ELSE @]

Revise(a, end) ==
  /\ journey[a] \in Ends
  /\ journey' = [journey EXCEPT ![a] = end]
  /\ UNCHANGED unit

Lapse(a) ==
  /\ journey[a] = "open"
  /\ unit[a] = "reserved"
  /\ unit' = [unit EXCEPT ![a] = "expired"]
  /\ UNCHANGED journey

Next ==
  \E a \in Attempts :
    \/ \E held \in BOOLEAN : Open(a, held)
    \/ \E end \in Ends : End(a, end) \/ Revise(a, end)
    \/ Lapse(a)

Spec == Init /\ [][Next]_vars
=============================================================================
