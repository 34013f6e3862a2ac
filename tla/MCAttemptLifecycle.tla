-------------------------- MODULE MCAttemptLifecycle --------------------------
(* Instances of AttemptLifecycle for TLC: an attempt enters the survey of its *)
(* provider, and attempts of one provider share it.                           *)
EXTENDS AttemptLifecycle

CONSTANTS a1, a2, a3

Innovate == [a \in Attempts |-> "innovatemr"]
Polled   == [a \in Attempts |-> IF a = a1 THEN "innovatemr" ELSE "biobrain"]
Rfg      == [a \in Attempts |-> "rfg"]

\* The two providers that may revise an outcome.
Revised  == [a \in Attempts |-> IF a = a3 THEN "toluna" ELSE "rfg"]

\* Attempts of two providers meet nowhere (a claim on an address is one on a
\* survey and an address), so a behaviour needs those of one of them.
OneProvider ==
  \A a, b \in Attempts :
    row[a].status # "absent" /\ row[b].status # "absent" => ProviderOf[a] = ProviderOf[b]
=============================================================================
