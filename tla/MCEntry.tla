-------------------------------- MODULE MCEntry --------------------------------
(***************************************************************************)
(* Instances of what the submission of a prescreener rests on: the older    *)
(* profile that may replace the respondent's own (ProfileReuse), and the    *)
(* quotas and questions of an InnovateMR survey (InnovateDetails).  They    *)
(* share no variables, so `focus' says which of them a behaviour moves; the *)
(* other rests.                                                             *)
(***************************************************************************)
EXTENDS ProfileReuse, InnovateDetails, TLC

CONSTANTS
  Focuses,                            \* the models to check
  a1, a2, a3, l1, o1, p1, p2,         \* model values
  f1, f2

\* ProfileReuse: two attempts and one of early days on a project, an attempt on
\* another, and the older profile.
OneProject == [a \in Attempts |->
                 CASE a = o1 -> "old" [] a = a3 -> "other" [] OTHER -> "project"]

Drawn == [a \in Attempts |-> CASE a = o1 -> 1 [] a = a1 -> 2 [] a = a2 -> 3
                              [] a = a3 -> 4 [] a = l1 -> 5]

\* A profile that also knows the postal code matches one that asks for gender.
TwoProfiles == {{<<"gender", "male">>}, {<<"gender", "male">>, <<"postal", "10001">>}}
MaleOnly == {{<<"gender", "male">>}}

\* Requests are interchangeable, and so are refreshes.
Interchangeable == Permutations(Posts) \cup Permutations(Fetchers)

VARIABLE focus

EntryInit ==
  /\ focus \in Focuses
  /\ ReuseInit
  /\ focus # "reuse" => vault[UidOf[o1]].answers \in MaleOnly
  /\ InnovateInit

EntryNext ==
  \/ focus = "reuse" /\ ReuseNext /\ UNCHANGED <<focus, innovateVars>>
  \/ focus = "innovate" /\ InnovateNext /\ UNCHANGED <<focus, reuseVars>>

EntrySpec == EntryInit /\ [][EntryNext]_<<focus, reuseVars, innovateVars>>
=============================================================================
