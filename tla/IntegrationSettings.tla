--------------------------- MODULE IntegrationSettings ---------------------------
(***************************************************************************)
(* The settings of one client integration.  An edit loads the row, validates *)
(* and then commits three times: the whole row, the access token (which      *)
(* clears what was fetched with the old one) and, if the connection changed, *)
(* the reset of its verdict and schedule.  A connection test reads the row,  *)
(* talks to the provider and writes its verdict, which switches the schedule *)
(* on or off.                                                                *)
(***************************************************************************)
EXTENDS Integers, FiniteSets

CONSTANTS
  SettingEditors,   \* requests that edit the row
  Testers,          \* requests that test the connection
  Tokens,           \* access tokens
  NoCredential,     \* no token
  MaxSettingEdits   \* bound: edits, tests and inventories

ASSUME IntegrationSettingsAssumption ==
  NoCredential \notin Tokens /\ Tokens # {} /\ MaxSettingEdits \in Nat

VARIABLES
  integration,   \* the stored row
  edits,         \* per editor: its step, the row it loaded and what it wants
  tests,         \* per tester: the row it loaded
  links,         \* token the survey links were fetched with
  fetching,      \* tokens of inventories under way
  verified,      \* history: connections a test has verified
  races,         \* history: what came between the reads and the writes of requests
  settingEdits

settingVars == <<integration, edits, tests, links, fetching, verified, races, settingEdits>>

\* Provider, base URL, credential names and options are one value.
Connections == {"rfg_a", "rfg_b", "zamplia", "innovatemr"}
Managed == {"rfg_a", "rfg_b", "zamplia"}
Intervals == 1 .. 2
\* 600 seconds for RFG, 300 for the other managed providers.
MinimumInterval(c) == IF c \in {"rfg_a", "rfg_b"} THEN 2 ELSE 1

Rows == [conn : Connections, interval : Intervals, status : {"", "success", "failed"},
         scheduled : BOOLEAN, token : Tokens \cup {NoCredential}]
NoEdit == [busy |-> FALSE]
EditSteps == {"loaded", "saved", "stored"}

\* "lost_update": a row or a token was saved over one changed since it was read;
\* "foreign_verdict": a verdict was written over another connection than tested;
\* "torn_save": a new connection stands with the verdict on the old one;
\* "late_fetch": the token changed while an inventory was under way.
Races == {"lost_update", "foreign_verdict", "torn_save", "late_fetch"}
Noted(race, seen) == IF seen THEN {race} ELSE {}

SettingsTypeOK ==
  /\ integration \in Rows /\ links \in Tokens \cup {NoCredential}
  /\ \A e \in SettingEditors : edits[e].busy =>
       edits[e].at \in EditSteps /\ edits[e].loaded \in Rows /\ edits[e].wants \in Rows
  /\ \A t \in Testers : tests[t].busy => tests[t].loaded \in Rows
  /\ fetching \subseteq Tokens \cup {NoCredential}
  /\ verified \subseteq Connections /\ races \subseteq Races
  /\ settingEdits \in 0 .. MaxSettingEdits

-----------------------------------------------------------------------------
(* ClientIntegrationSerializer *)

\* Faulty: the interval is not held against the provider's minimum.
AcceptableAnyInterval(loaded, wants) ==
  wants.conn \in Managed /\ wants.scheduled /\ ~ loaded.scheduled => loaded.status = "success"
\* validate: the interval, and no schedule asked for before a verified test.
Acceptable(loaded, wants) ==
  wants.conn \in Managed =>
    /\ wants.interval >= MinimumInterval(wants.conn)
    /\ wants.scheduled /\ ~ loaded.scheduled => loaded.status = "success"

\* Faulty: the verdict on the old connection is kept.
ResetsNever(loaded, wants) == FALSE
\* update: a changed connection of a managed provider has to be tested again.
Resets(loaded, wants) == wants.conn # loaded.conn /\ wants.conn \in Managed

\* Faulty: what was fetched with the old token stays.
ClearedNot(loaded, wants) == links
\* set_integration_token: only a change of a known token clears.
Cleared(loaded, wants) ==
  IF loaded.token # NoCredential /\ wants.token # loaded.token THEN NoCredential ELSE links

-----------------------------------------------------------------------------
\* A created managed integration is not scheduled: there is no verdict yet.
SettingInit ==
  /\ integration \in {r \in Rows : r.status = "" /\ r.token = NoCredential
                                   /\ Acceptable([r EXCEPT !.scheduled = FALSE], r)}
  /\ edits = [e \in SettingEditors |-> NoEdit] /\ tests = [t \in Testers |-> NoEdit]
  /\ links = NoCredential /\ fetching = {} /\ verified = {}
  /\ races = {} /\ settingEdits = 0

CountSettingEdit == settingEdits < MaxSettingEdits /\ settingEdits' = settingEdits + 1

\* What a request may ask of the row: another connection or interval, with or
\* without another token, or the schedule.
Changes(row) ==
  {r \in Rows :
     \/ r.status = row.status /\ r.scheduled = row.scheduled /\ r.token \in Tokens \cup {row.token}
     \/ \E b \in BOOLEAN : r = [row EXCEPT !.scheduled = b]}

\* The request loads the row and validates its changes against that copy.
LoadSettings(e) ==
  /\ ~ edits[e].busy /\ CountSettingEdit
  /\ \E wants \in Changes(integration) :
       /\ wants # integration /\ Acceptable(integration, wants)
       /\ edits' = [edits EXCEPT ![e] = [busy |-> TRUE, at |-> "loaded",
                                         loaded |-> integration, wants |-> wants]]
  /\ UNCHANGED <<integration, tests, links, fetching, verified, races>>

EditAt(e, step) == edits[e].busy /\ edits[e].at = step

\* super().update: the whole row but the token is saved as the request has it,
\* the fields nobody changed and the verdict included.
SaveSettings(e) ==
  /\ EditAt(e, "loaded")
  /\ integration' = [edits[e].wants EXCEPT !.token = edits[e].loaded.token]
  /\ races' = races \cup Noted("lost_update", edits[e].loaded # integration)
                    \cup Noted("torn_save", Resets(edits[e].loaded, edits[e].wants))
  /\ edits' = [edits EXCEPT ![e].at = "saved"]
  /\ UNCHANGED <<tests, links, fetching, verified, settingEdits>>

\* set_integration_token, a transaction of its own.
StoreToken(e) ==
  /\ EditAt(e, "saved")
  /\ IF edits[e].wants.token = edits[e].loaded.token
     THEN UNCHANGED <<integration, links, races>>
     ELSE /\ integration' = [integration EXCEPT !.token = edits[e].wants.token]
          /\ links' = Cleared(edits[e].loaded, edits[e].wants)
          /\ races' = races \cup Noted("lost_update", integration.token # edits[e].loaded.token)
                            \cup Noted("late_fetch", fetching # {})
  /\ edits' = [edits EXCEPT ![e].at = "stored"]
  /\ UNCHANGED <<tests, fetching, verified, settingEdits>>

\* Only the verdict and the schedule are saved.
ResetVerdict(e) ==
  /\ EditAt(e, "stored")
  /\ IF Resets(edits[e].loaded, edits[e].wants)
     THEN /\ integration' = [integration EXCEPT !.status = "", !.scheduled = FALSE]
          /\ races' = races \ {"torn_save"}
     ELSE UNCHANGED <<integration, races>>
  /\ edits' = [edits EXCEPT ![e] = NoEdit]
  /\ UNCHANGED <<tests, links, fetching, verified, settingEdits>>

\* The process ends between two commits, or the token cannot be encrypted.
BreakOffEdit(e) ==
  /\ EditAt(e, "saved") \/ EditAt(e, "stored")
  /\ edits' = [edits EXCEPT ![e] = NoEdit]
  /\ UNCHANGED <<integration, tests, links, fetching, verified, races, settingEdits>>

-----------------------------------------------------------------------------
(* test_connection *)

StartTest(t) ==
  /\ ~ tests[t].busy /\ CountSettingEdit
  /\ tests' = [tests EXCEPT ![t] = [busy |-> TRUE, loaded |-> integration]]
  /\ UNCHANGED <<integration, edits, links, fetching, verified, races>>

LargerOf(x, y) == IF x > y THEN x ELSE y

\* A verdict on the connection stored makes up for the reset that is missing.
Judged(t) == IF tests[t].loaded.conn = integration.conn
             THEN races \ {"torn_save"} ELSE races \cup {"foreign_verdict"}

\* Faulty: a provider without a minimum gets no interval.
TestedIntervalUnset(loaded) ==
  IF loaded.conn \in Managed THEN LargerOf(loaded.interval, MinimumInterval(loaded.conn)) ELSE 0
TestedInterval(loaded) ==
  IF loaded.conn \in Managed THEN LargerOf(loaded.interval, MinimumInterval(loaded.conn)) ELSE 1

TestSucceeds(t) ==
  /\ tests[t].busy
  /\ integration' = [integration EXCEPT !.status = "success", !.scheduled = TRUE,
                                        !.interval = TestedInterval(tests[t].loaded)]
  /\ verified' = verified \cup {tests[t].loaded.conn}
  /\ races' = Judged(t)
  /\ tests' = [tests EXCEPT ![t] = NoEdit]
  /\ UNCHANGED <<edits, links, fetching, settingEdits>>

\* Faulty: a failed test leaves the schedule on.
FailedScheduleKept(loaded) == loaded.scheduled
\* A managed provider's schedule is switched off; InnovateMR's is left as it was read.
FailedSchedule(loaded) == loaded.scheduled /\ loaded.conn \notin Managed

TestFails(t) ==
  /\ tests[t].busy
  /\ integration' = [integration EXCEPT !.status = "failed", !.scheduled = FailedSchedule(tests[t].loaded)]
  /\ verified' = verified \ {tests[t].loaded.conn}
  /\ races' = Judged(t)
  /\ tests' = [tests EXCEPT ![t] = NoEdit]
  /\ UNCHANGED <<edits, links, fetching, settingEdits>>

-----------------------------------------------------------------------------
(* Synchronizations and the token of the environment *)

\* sync_now refuses an untested managed provider; the schedule starts one too.
StartFetch ==
  /\ integration.conn \in Managed => integration.status = "success"
  /\ integration.token \notin fetching /\ CountSettingEdit
  /\ fetching' = fetching \cup {integration.token}
  /\ UNCHANGED <<integration, edits, tests, links, verified, races>>

StoreFetched ==
  /\ \E k \in fetching : links' = k /\ fetching' = fetching \ {k}
  /\ UNCHANGED <<integration, edits, tests, verified, races, settingEdits>>

\* reconcile_all_integration_credentials, when a worker starts with another token
\* in its environment.
ReconcileCredential ==
  /\ CountSettingEdit
  /\ \E k \in Tokens \ {integration.token} :
       /\ integration' = [integration EXCEPT !.token = k]
       /\ links' = Cleared(integration, [integration EXCEPT !.token = k])
  /\ races' = races \cup Noted("late_fetch", fetching # {})
  /\ UNCHANGED <<edits, tests, fetching, verified>>

SettingNext ==
  \/ \E e \in SettingEditors : \/ LoadSettings(e) \/ SaveSettings(e) \/ StoreToken(e)
                             \/ ResetVerdict(e) \/ BreakOffEdit(e)
  \/ \E t \in Testers : StartTest(t) \/ TestSucceeds(t) \/ TestFails(t)
  \/ StartFetch \/ StoreFetched \/ ReconcileCredential

SettingSpec == SettingInit /\ [][SettingNext]_settingVars

-----------------------------------------------------------------------------
(* Properties *)

Without(kinds) == races \cap kinds = {}
Polled == integration.conn \in Managed /\ integration.scheduled
Verified == integration.conn \in verified /\ integration.status = "success"

\* The schedule polls a managed provider only over the very connection whose last
\* test succeeded, unless a request saved over what it had not read, a verdict
\* came for another connection, or an edit's reset is still to come or was lost.
ScheduledWasVerified ==
  Without({"lost_update", "foreign_verdict", "torn_save"}) /\ Polled => Verified

\* "RFG inventory cannot be polled more often than every 600 seconds": no sequence
\* of edits, lost updates and broken-off edits included, leaves a schedule below
\* its provider's minimum; only a verdict on another connection can.
PolledWithinLimit ==
  Without({"foreign_verdict"}) /\ Polled => integration.interval >= MinimumInterval(integration.conn)

\* "Store a secret and immediately invalidate only this integration if it changed":
\* the links left were fetched with the token stored, wherever an edit breaks off,
\* unless an inventory was under way or another request wrote the token.
LinksOfCurrentToken ==
  Without({"lost_update", "late_fetch"}) => links \in {NoCredential, integration.token}

\* What the serializer, the connection test and set_integration_token guarantee of
\* an integration's row through edits and tests that overlap or break off.
SettingInv == SettingsTypeOK /\ ScheduledWasVerified /\ PolledWithinLimit /\ LinksOfCurrentToken
=============================================================================
