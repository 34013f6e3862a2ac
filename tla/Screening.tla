------------------------------- MODULE Screening -------------------------------
(***************************************************************************)
(* The prescreener of the providers whose quotas are judged here: Research  *)
(* For Good and Toluna.  A refresh turns the provider's contract into the   *)
(* form (the answers it accepts per question) and quota rows; a submission  *)
(* is judged by the form first and by the quota rows then.  The provider's  *)
(* counts move in between.                                                  *)
(***************************************************************************)
EXTENDS Naturals, Sequences, FiniteSets

CONSTANTS
  Questions,    \* targeting questions with a choice of answers
  Options,      \* their answers
  Derived,      \* the questions answered by RFG's postal lookup
  Routable,     \* the questions that Toluna's router may ask instead
  FormContracts,    \* provider contracts to consider
  OldestAge,    \* bound: ages are 1 .. OldestAge
  MaxMoves      \* bound: changes of the provider's counts

\* A contract has a provider, a project rule, a flag excludeNonMatching, the age
\* ranges of the age question and of its RFG alias, and a sequence of quotas.  A
\* quota has completes left or none and a set of layers; a layer is a set of
\* subquotas; a rule gives the answers accepted for some questions.
AgeRange  == (1 .. OldestAge) \X (1 .. OldestAge)
Rules     == UNION {[D -> SUBSET Options] : D \in SUBSET Questions}
SubQuota  == [rule : Rules, full : BOOLEAN]
QuotaForm == [left : {0, 1}, layers : SUBSET SUBSET SubQuota]
Contract  ==
  [provider : {"rfg", "toluna"}, project : Rules, exclude : BOOLEAN,
   primary : SUBSET AgeRange, alias : SUBSET AgeRange, quotas : Seq(QuotaForm)]

\* RFG's quotas have one layer of one subquota, without a limit of its own.
SingleRules(c) ==
  \A i \in DOMAIN c.quotas : \E r \in Rules :
    c.quotas[i].layers = {{[rule |-> r, full |-> FALSE]}}

ASSUME ScreeningAssumption ==
  /\ Derived \subseteq Questions /\ Routable \subseteq Questions
  /\ FormContracts \subseteq Contract
  /\ \A c \in FormContracts : c.provider = "rfg" => SingleRules(c)
  /\ OldestAge \in Nat \ {0}
  /\ MaxMoves \in Nat

VARIABLES
  contract,   \* what the provider says now
  stored,     \* the contract as the quota rows have it
  asked,      \* the questions of the form
  allowed,    \* the form's accepted answers; no limit where it is empty
  hydrated,   \* the details have been refreshed
  reopened,   \* history: capacity came back after the refresh
  ages,       \* the form's age ranges, in order
  moves       \* changes of the counts so far

screenVars == <<contract, stored, asked, allowed, hydrated, reopened, ages,
                moves>>

ScreenInit ==
  /\ contract \in FormContracts
  /\ stored = contract
  /\ asked = {}
  /\ allowed = [q \in Questions |-> {}]
  /\ hydrated = FALSE
  /\ reopened = FALSE
  /\ ages = <<>>
  /\ moves = 0

QuotasOf(c)   == {c.quotas[i] : i \in DOMAIN c.quotas}
SubQuotas(qt) == UNION qt.layers

ScreenTypeOK ==
  /\ contract \in Contract /\ stored \in Contract
  /\ contract.provider = stored.provider
  /\ Len(contract.quotas) = Len(stored.quotas)
  /\ asked \subseteq Questions
  /\ allowed \in [Questions -> SUBSET Options]
  /\ hydrated \in BOOLEAN /\ reopened \in BOOLEAN
  /\ ages \in Seq(AgeRange)
  /\ \A i, j \in DOMAIN ages : i < j => ages[i][2] < ages[j][1]
  /\ moves \in 0 .. MaxMoves

-----------------------------------------------------------------------------
(* refresh_details *)

\* _quota_question_rows: a Toluna quota is advertised while it has completes
\* left and every layer has a subquota with room.
Advertised(qt) ==
  /\ qt.left > 0
  /\ \A layer \in qt.layers : \E sq \in layer : ~sq.full

AdvertisedRules(c) ==
  {sq.rule : sq \in UNION {{s \in SubQuotas(qt) : ~s.full} :
                           qt \in {x \in QuotasOf(c) : Advertised(x)}}}

RfgRules(c) == {sq.rule : sq \in UNION {SubQuotas(qt) : qt \in QuotasOf(c)}}

Naming(rules, q) == {r \in rules : q \in DOMAIN r}

\* Faulty: the last quota that names a question decides.
EitherAnswerOne(rules, q) ==
  IF Naming(rules, q) = {} THEN {} ELSE (CHOOSE r \in Naming(rules, q) : TRUE)[q]

EitherAnswer(rules, q) == UNION {r[q] : r \in Naming(rules, q)}

\* add_question_for: the project's answers, or those of the quotas when
\* respondents outside every quota are excluded.
RfgAllowed(c, q) ==
  IF q \in Derived THEN {}
  ELSE IF q \in DOMAIN c.project THEN c.project[q]
  ELSE IF c.exclude THEN EitherAnswer(RfgRules(c), q)
  ELSE {}

RfgAsked(c) ==
  (DOMAIN c.project \cup UNION {DOMAIN r : r \in RfgRules(c)}) \ Derived

TolunaAsked(c) == UNION {DOMAIN r : r \in AdvertisedRules(c)}

\* The end of two ranges that overlap or touch.
Joined(last, r) == <<last[1], IF last[2] > r[2] THEN last[2] ELSE r[2]>>

Touches(last, r) == r[1] <= last[2] + 1

SortsBefore(a, b) == a[1] < b[1] \/ (a[1] = b[1] /\ a[2] < b[2])

\* Each range stands behind those that sort before it.
InOrder(ranges) ==
  [i \in 1 .. Cardinality(ranges) |->
     CHOOSE r \in ranges : Cardinality({x \in ranges : SortsBefore(x, r)}) = i - 1]

AddRange(out, r) ==
  IF out # <<>> /\ Touches(out[Len(out)], r)
    THEN [out EXCEPT ![Len(out)] = Joined(@, r)]
    ELSE Append(out, r)

\* Sorted ranges are joined when they overlap or touch.
Merged(ranges) ==
  LET joined[n \in 0 .. Cardinality(ranges)] ==
        IF n = 0 THEN <<>> ELSE AddRange(joined[n - 1], InOrder(ranges)[n])
  IN joined[Cardinality(ranges)]

\* Ranges of the alias narrow those of the question it stands for.
Narrowed(p, a) ==
  IF p = {} THEN a
  ELSE IF a = {} THEN p
  ELSE {<<IF z[1][1] > z[2][1] THEN z[1][1] ELSE z[2][1],
          IF z[1][2] < z[2][2] THEN z[1][2] ELSE z[2][2]>> :
          z \in {w \in p \X a : w[1][1] <= w[2][2] /\ w[2][1] <= w[1][2]}}

Hydrate ==
  /\ stored' = contract
  /\ asked' = IF contract.provider = "rfg" THEN RfgAsked(contract)
                                           ELSE TolunaAsked(contract)
  /\ allowed' = [q \in Questions |->
                   IF contract.provider = "rfg" THEN RfgAllowed(contract, q)
                   ELSE EitherAnswer(AdvertisedRules(contract), q)]
  /\ ages' = Merged(Narrowed(contract.primary, contract.alias))
  /\ hydrated' = TRUE
  /\ reopened' = FALSE
  /\ UNCHANGED <<contract, moves>>

\* A quota fills up or gets room again.  Toluna's rows follow with the next
\* merge, which rebuilds no question; RFG's follow with the next refresh.
CountsMove(i) ==
  LET now == [contract EXCEPT !.quotas[i].left = 1 - @] IN
  /\ moves < MaxMoves
  /\ moves' = moves + 1
  /\ contract' = now
  /\ stored' = IF now.provider = "toluna" /\ hydrated THEN now ELSE stored
  /\ reopened' = (reopened \/ now.quotas[i].left > 0)
  /\ UNCHANGED <<asked, allowed, hydrated, ages>>

ScreenNext == Hydrate \/ \E i \in DOMAIN contract.quotas : CountsMove(i)

ScreenSpec == ScreenInit /\ [][ScreenNext]_screenVars

-----------------------------------------------------------------------------
(* Judging a submission *)

\* _collect_prescreener_answers for Toluna, the question loop of
\* validate_prescreener for RFG.
FormAccepts(answers) ==
  \A q \in asked : allowed[q] = {} \/ answers[q] \in allowed[q]

\* An answer that RFG derives from the postal code is unknown in an outage.
Decided(rule, answers, outage) ==
  {q \in DOMAIN rule : ~(outage /\ q \in Derived)}

Fails(rule, answers, outage) ==
  \E q \in Decided(rule, answers, outage) : answers[q] \notin rule[q]

Unknown(rule, answers, outage) ==
  /\ ~Fails(rule, answers, outage)
  /\ Decided(rule, answers, outage) # DOMAIN rule

Fits(rule, answers, outage) ==
  ~Fails(rule, answers, outage) /\ ~Unknown(rule, answers, outage)

RuleOf(qt) == (CHOOSE sq \in SubQuotas(qt) : TRUE).rule

SomeUnknown(answers, outage) ==
  \E qt \in QuotasOf(stored) : Unknown(RuleOf(qt), answers, outage)

\* validate_prescreener and _validate_quota_matches
RfgAccepts(answers, outage) ==
  LET match == {qt \in QuotasOf(stored) : Fits(RuleOf(qt), answers, outage)} IN
  /\ FormAccepts(answers)
  /\ ~Fails([q \in DOMAIN stored.project \cap Derived |-> stored.project[q]],
            answers, outage)
  /\ \A qt \in match : qt.left > 0
  /\ stored.exclude /\ QuotasOf(stored) # {} /\ match = {}
       => SomeUnknown(answers, outage)

\* condition_matches: a question that is not asked is left to Toluna's router,
\* when that may ask it.
Satisfies(rule, answers) ==
  \A q \in DOMAIN rule :
    IF q \in asked THEN answers[q] \in rule[q] ELSE q \in Routable

\* _matching_quota: some quota with completes left, in every layer some
\* subquota with room that the answers satisfy.
TolunaAccepts(answers) ==
  /\ FormAccepts(answers)
  /\ \E qt \in QuotasOf(stored) :
       /\ qt.left > 0
       /\ \A layer \in qt.layers :
            \E sq \in layer : ~sq.full /\ Satisfies(sq.rule, answers)

Accepts(answers, outage) ==
  IF stored.provider = "rfg" THEN RfgAccepts(answers, outage)
                             ELSE TolunaAccepts(answers)

\* validate of the age question
AgeAccepted(age) ==
  \/ ages = <<>> /\ stored.primary \cup stored.alias = {}
  \/ \E i \in DOMAIN ages : ages[i][1] <= age /\ age <= ages[i][2]

-----------------------------------------------------------------------------
(* Properties *)

Respondents == [Questions -> Options]

\* The answers fit the quota as the provider defines it.
InQuota(qt, answers) ==
  \A layer \in qt.layers : \E sq \in layer :
    ~sq.full /\ \A q \in DOMAIN sq.rule : answers[q] \in sq.rule[q]

\* Every quota has a say on the same questions; one without subquotas has none.
SameQuestions ==
  \E D \in SUBSET Questions : \A qt \in QuotasOf(stored) :
    /\ \A sq \in SubQuotas(qt) : DOMAIN sq.rule = D
    /\ SubQuotas(qt) = {} => D = {}

WantsAll(answers) ==
  /\ \A q \in DOMAIN stored.project : answers[q] \in stored.project[q]
  /\ \E qt \in QuotasOf(stored) : qt.left > 0 /\ InQuota(qt, answers)
  /\ \A qt \in QuotasOf(stored) : InQuota(qt, answers) => qt.left > 0

(***************************************************************************)
(* Whoever fits the project and an open quota, and no full one, passes the  *)
(* form and the quota rows, while no quota has got room again since the     *)
(* form was built and all quotas name the same questions.                   *)
(***************************************************************************)
QualifiedPass ==
  hydrated /\ ~reopened /\ SameQuestions
    => \A answers \in Respondents : WantsAll(answers) => Accepts(answers, FALSE)

(***************************************************************************)
(* Without RFG's postal lookup nobody is refused who passes with it: an     *)
(* answer that cannot be derived never counts against the respondent.       *)
(***************************************************************************)
OutageRefusesNobody ==
  hydrated /\ stored.provider = "rfg" =>
    \A answers \in Respondents :
      RfgAccepts(answers, FALSE)
        => RfgAccepts(answers, TRUE)

(***************************************************************************)
(* The form accepts exactly the ages that the ranges of the question and of *)
(* its alias have in common, after sorting and joining.                     *)
(***************************************************************************)
AgesExact ==
  LET In(ranges, age) == ranges = {} \/ \E r \in ranges : r[1] <= age /\ age <= r[2]
  IN hydrated => \A age \in 1 .. OldestAge :
       AgeAccepted(age) <=> In(stored.primary, age) /\ In(stored.alias, age)

(***************************************************************************)
(* Whom the form and the quota rows let pass, for every contract: neither   *)
(* too strict nor dependent on a lookup that is down, and exact about ages. *)
(***************************************************************************)
ScreenInv == ScreenTypeOK /\ QualifiedPass /\ OutageRefusesNobody /\ AgesExact
=============================================================================
