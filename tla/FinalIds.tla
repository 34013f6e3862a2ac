----------------------------- MODULE FinalIds -----------------------------
(***************************************************************************)
(* The client's final word on a respondent journey.  An administrator      *)
(* uploads a file of RIDs that one client accepted or rejected for one     *)
(* accounting month; import_final_ids applies it in one transaction that   *)
(* first locks the Client row, then the attempts the file names, then, for *)
(* an accepted file, every other completed attempt of the client and the   *)
(* month that nobody has decided yet, which it rejects.  The operator's    *)
(* repair command re-reads those undecided attempts for an older accepted  *)
(* upload and feeds them to the same import as a rejected file.            *)
(*                                                                         *)
(* The locking reads join the attempt's own client, so they lock that      *)
(* Client row too: two imports can wait for one another, and the database  *)
(* rolls one of them back.  The database is InnoDB at READ COMMITTED: a    *)
(* locking read sees what the holder it waited for committed.              *)
(***************************************************************************)
EXTENDS Naturals, Sequences, FiniteSets, SequencesExt

CONSTANTS
    Buying,       \* clients of the panel
    Journeys,     \* attempts; the RID is the attempt
    Unmatched,    \* an RID no attempt has
    HomeClient,   \* [Journeys -> Buying]: SurveyAttempt.client
    SurveyClient, \* [Journeys -> Buying]: the survey's (integration's) client now
    MonthOf,      \* [Journeys -> Months]: the month of initiated_at
    Months,
    Files,        \* the sets of RIDs an uploaded file may hold
    Imports,      \* requests and commands at work
    MaxUploads    \* bound on the transactions begun

ASSUME FinalAssumption ==
    /\ HomeClient \in [Journeys -> Buying]
    /\ SurveyClient \in [Journeys -> Buying]
    /\ MonthOf \in [Journeys -> Months]
    /\ Unmatched \notin Journeys
    /\ \A file \in Files : file # {} /\ file \subseteq Journeys \cup {Unmatched}
    /\ MaxUploads \in Nat

VARIABLES
    ended,      \* [Journeys -> Lifecycles]: SurveyAttempt.status
    final,      \* [Journeys -> Verdicts]: FinalIDStatus.status, "" without a row
    trail,      \* [Journeys -> Seq]: the applied FinalIDUploadItems, oldest first
    uploads,    \* the FinalIDUpload rows, in commit order
    import,     \* [Imports -> the transaction each is in]
    begun       \* transactions begun

finalVars == <<ended, final, trail, uploads, import, begun>>

Lifecycles == {"open", "completed", "terminated"}
Decisions == {"accepted", "rejected"}
Verdicts == Decisions \cup {""}

NoImport == [at |-> "none"]

\* A transaction: what it was asked, how far it is, and the rows it holds; found
\* are the statuses it has read.
Transaction ==
    [at: {"client", "listed", "others"}, client: Buying, month: Months,
     decision: Decisions, file: SUBSET (Journeys \cup {Unmatched}),
     omitted: SUBSET Journeys, found: [Journeys -> Verdicts], repair: BOOLEAN]

FinalItem == [previous: Verdicts, applied: Decisions, why: {"listed", "omitted", "repair"}]

FinalInit ==
    /\ ended \in [Journeys -> {"open", "completed"}]
    /\ final = [a \in Journeys |-> ""]
    /\ trail = [a \in Journeys |-> <<>>]
    /\ uploads = <<>>
    /\ import = [i \in Imports |-> NoImport]
    /\ begun = 0

----------------------------------------------------------------------------
(* What an import selects.                                                 *)

AttemptMatchesClient(a, c) == c \in {HomeClient[a], SurveyClient[a]}

Listed(i) == import[i].file \cap Journeys

FinalLifecycles == Lifecycles \ {"open"}

\* The listed attempts the decision is applied to, as their locked rows read.
Eligible(i) ==
    {a \in Listed(i) : /\ AttemptMatchesClient(a, import[i].client)
                       /\ ended[a] \in FinalLifecycles}

\* A fault: statuses are not consulted when the omitted completes are selected.
UndecidedAny(a) == TRUE

Undecided(a) == final[a] = ""

\* The completes of one client and month that wait for a decision.
PendingCompletes(c, m) ==
    {a \in Journeys : /\ AttemptMatchesClient(a, c)
                      /\ ended[a] = "completed"
                      /\ MonthOf[a] = m
                      /\ Undecided(a)}

\* A file with no eligible RID rejects nobody by omission.
Omitted(i) ==
    IF import[i].decision = "accepted" /\ Eligible(i) # {}
    THEN PendingCompletes(import[i].client, import[i].month) \ Listed(i)
    ELSE {}

----------------------------------------------------------------------------
(* Row locks.  A locking read of attempts locks the rows and the Client    *)
(* rows they join.                                                         *)

ClientRows(i) ==
    IF import[i].at = "none" THEN {}
    ELSE {import[i].client}
         \cup (IF import[i].at \in {"listed", "others"}
               THEN {HomeClient[a] : a \in Listed(i) \cup import[i].omitted} ELSE {})

AttemptRows(i) ==
    IF import[i].at \in {"listed", "others"} THEN Listed(i) \cup import[i].omitted ELSE {}

ClientsFree(i, C) == \A j \in Imports \ {i} : C \cap ClientRows(j) = {}
AttemptsFree(i, A) == \A j \in Imports \ {i} : A \cap AttemptRows(j) = {}

\* The locks import i needs for its next statement.
Wants(i) ==
    CASE import[i].at = "client" -> Listed(i)
      [] import[i].at = "listed" -> Omitted(i)
      [] OTHER                   -> {}

\* A fault: the attempts are read without select_for_update.
MayLockUnlocked(i) == TRUE

MayLock(i) ==
    /\ AttemptsFree(i, Wants(i))
    /\ ClientsFree(i, {HomeClient[a] : a \in Wants(i)})

\* A fault: the Client rows that a locking read joins are forgotten.
WaitsForRows(i, j) ==
    /\ i # j
    /\ Wants(i) \cap AttemptRows(j) # {}

\* Import i waits for a row import j holds.
WaitsFor(i, j) ==
    /\ i # j
    /\ \/ Wants(i) \cap AttemptRows(j) # {}
       \/ {HomeClient[a] : a \in Wants(i)} \cap ClientRows(j) # {}

\* A fault: the Client row is read without select_for_update.
MayLockClientUnlocked(i, c) == TRUE

MayLockClient(i, c) == ClientsFree(i, {c})

----------------------------------------------------------------------------
(* The steps of a transaction.                                             *)

Begin(i, c, m, d, file, repair) ==
    /\ begun < MaxUploads
    /\ import[i] = NoImport
    /\ MayLockClient(i, c)
    /\ import' = [import EXCEPT ![i] =
            [at |-> "client", client |-> c, month |-> m, decision |-> d,
             file |-> file, omitted |-> {}, found |-> [a \in Journeys |-> ""],
             repair |-> repair]]
    /\ begun' = begun + 1
    /\ UNCHANGED <<ended, final, trail, uploads>>

\* POST final-ids-import; read_uploaded_rids refused files without an RID.
Upload(i, c, m, d, file) == Begin(i, c, m, d, file, FALSE)

\* reconcile_pending_final_ids --apply: the pending completes are read without
\* locks under the client's row, and become a rejected file.
Repair(i, u) ==
    /\ uploads[u].decision = "accepted"
    /\ uploads[u].applied > 0
    /\ LET pending == PendingCompletes(uploads[u].client, uploads[u].month)
       IN  /\ pending # {}
           /\ Begin(i, uploads[u].client, uploads[u].month, "rejected", pending, TRUE)

\* The locking read of the attempts the file names.
LockListed(i) ==
    /\ import[i].at = "client"
    /\ MayLock(i)
    /\ import' = [import EXCEPT ![i].at = "listed"]
    /\ UNCHANGED <<ended, final, trail, uploads, begun>>

\* The locking read of the other completes, then of the existing statuses.
LockOthers(i) ==
    /\ import[i].at = "listed"
    /\ MayLock(i)
    /\ import' = [import EXCEPT ![i].at = "others", ![i].omitted = Omitted(i),
                                ![i].found = final]
    /\ UNCHANGED <<ended, final, trail, uploads, begun>>

\* A fault: the item of an omitted attempt records the status found.
AppliedAsFound(i, a) == IF a \in import[i].omitted THEN import[i].found[a] ELSE import[i].decision

Applied(i, a) == IF a \in import[i].omitted THEN "rejected" ELSE import[i].decision

Reason(i, a) == IF a \in import[i].omitted THEN "omitted"
                ELSE IF import[i].repair THEN "repair" ELSE "listed"

\* The repair insists that every RID it read was applied.
RepairMatches(i) == import[i].repair => Eligible(i) = import[i].file

\* The status rows, the items and the upload's counters, and the commit.
Apply(i) ==
    LET decided == Eligible(i) \cup import[i].omitted IN
    /\ import[i].at = "others"
    /\ RepairMatches(i)
    /\ final' = [a \in Journeys |-> IF a \in decided THEN Applied(i, a) ELSE final[a]]
    /\ trail' = [a \in Journeys |->
            IF a \in decided
            THEN Append(trail[a], [previous |-> import[i].found[a], applied |-> Applied(i, a),
                                   why |-> Reason(i, a)])
            ELSE trail[a]]
    /\ uploads' = Append(uploads, [client |-> import[i].client, month |-> import[i].month,
            decision |-> import[i].decision, applied |-> Cardinality(Eligible(i))])
    /\ import' = [import EXCEPT ![i] = NoImport]
    /\ UNCHANGED <<ended, begun>>

\* The repair's CommandError, and the transaction it takes back.
RepairRefused(i) ==
    /\ import[i].at = "others"
    /\ ~RepairMatches(i)
    /\ import' = [import EXCEPT ![i] = NoImport]
    /\ UNCHANGED <<ended, final, trail, uploads, begun>>

\* The database picks a transaction of a cycle of waits and rolls it back.
DeadlockVictim(i) ==
    /\ \E j \in Imports : WaitsFor(i, j) /\ WaitsFor(j, i)
    /\ import' = [import EXCEPT ![i] = NoImport]
    /\ UNCHANGED <<ended, final, trail, uploads, begun>>

\* A callback ends or revises an attempt, under the attempt's row lock.
Ends(a, s) ==
    /\ \A i \in Imports : a \notin AttemptRows(i)
    /\ <<ended[a], s>> \in {<<"open", "completed">>, <<"open", "terminated">>,
                            <<"completed", "terminated">>}
    /\ ended' = [ended EXCEPT ![a] = s]
    /\ UNCHANGED <<final, trail, uploads, import, begun>>

ImportStep(i) ==
    \/ LockListed(i)
    \/ LockOthers(i)
    \/ Apply(i)
    \/ RepairRefused(i)
    \/ DeadlockVictim(i)

FinalNext ==
    \/ \E i \in Imports : ImportStep(i)
    \/ \E i \in Imports, c \in Buying, m \in Months, d \in Decisions :
            \E file \in Files : Upload(i, c, m, d, file)
    \/ \E i \in Imports, u \in DOMAIN uploads : Repair(i, u)
    \/ \E a \in Journeys, s \in Lifecycles : Ends(a, s)

\* A transaction once begun goes on; the lock waits end with the holders.
FinalFairness == \A i \in Imports : WF_finalVars(ImportStep(i))

FinalSpec == FinalInit /\ [][FinalNext]_finalVars /\ FinalFairness

----------------------------------------------------------------------------
(* Properties.                                                             *)

FinalTypeOK ==
    /\ ended \in [Journeys -> Lifecycles]
    /\ final \in [Journeys -> Verdicts]
    /\ \A a \in Journeys : \A n \in DOMAIN trail[a] : trail[a][n] \in FinalItem
    /\ \A i \in Imports : import[i] \in Transaction \cup {NoImport}
    /\ begun \in 0 .. MaxUploads
    /\ Len(uploads) <= begun

\* The upload items of an attempt are a gapless account of its verdict: each
\* starts from the verdict the one before it left, and the last one is the
\* current FinalIDStatus, however imports of two clients interleave.
TrailExplainsVerdict ==
    \A a \in Journeys :
        /\ \A n \in DOMAIN trail[a] :
                trail[a][n].previous = IF n = 1 THEN "" ELSE trail[a][n - 1].applied
        /\ final[a] = IF trail[a] = <<>> THEN "" ELSE Last(trail[a]).applied

\* Being left out of an accepted file never takes back a decision somebody
\* uploaded, not even one committed while the import waited for the row.
OmissionOverridesNothing ==
    \A a \in Journeys : \A n \in DOMAIN trail[a] :
        trail[a][n].why = "omitted" => trail[a][n].previous = ""

\* The repair command rejects attempts that are undecided when it commits,
\* although it read them without locks: of the attempts of one client only,
\* the client's row lock keeps every other import away.
RepairRejectsOnlyPending ==
    \A a \in Journeys : \A n \in DOMAIN trail[a] :
        /\ trail[a][n].why = "repair"
        /\ HomeClient[a] = SurveyClient[a]
        => trail[a][n].previous = ""

\* No import waits for ever: it commits, is refused or is rolled back.
ImportsEnd == \A i \in Imports : import[i] # NoImport ~> import[i] = NoImport

\* What import_final_ids and the repair command may do to a verdict, however the
\* row locks of two clients' imports interleave.
FinalInv ==
    FinalTypeOK /\ TrailExplainsVerdict /\ OmissionOverridesNothing /\ RepairRejectsOnlyPending
=============================================================================
