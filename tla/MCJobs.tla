-------------------------------- MODULE MCJobs --------------------------------
(***************************************************************************)
(* Instances of the components that work in the background and are checked *)
(* for liveness as well.  They share no state, so one run of TLC takes     *)
(* them up one after the other: `focus' is the component whose steps a     *)
(* behaviour takes, and the others rest.  The fairness of a component is   *)
(* asked of the behaviours that move it.                                   *)
(***************************************************************************)
EXTENDS SupplierCallbacks, ExportJobs, CacheLease, FinalIds, SurveyFeed, TLC

CONSTANTS
    Focuses,                \* the components to check
    a1, a2, c1, c2, m1, m2  \* model values

----------------------------------------------------------------------------
(* The constants of the instances.                                         *)

\* FinalIds: the second attempt started under client c2, and its survey belongs
\* to client c1 now; both are of one month.
Homes == (a1 :> c1) @@ (a2 :> c2)
SurveysOf == (a1 :> c1) @@ (a2 :> c1)
SameMonth == (a1 :> 1) @@ (a2 :> 1)
ShortFiles == {{a1}, {a2, Unmatched}}

\* SurveyFeed: one survey per market.
OneMarketEach == (1 :> m1) @@ (2 :> m2)

----------------------------------------------------------------------------
VARIABLE focus

jobsVars == <<focus, callbackVars, exportVars, leaseVars, finalVars, feedVars>>

AnyOf(S) == CHOOSE x \in S : TRUE

\* A component out of focus rests in one initial state.
JobsInit ==
    /\ focus \in Focuses
    /\ (IF focus = "callback" THEN TRUE ELSE outcome = [a \in Results |-> AnyOf(SupplierCodes)])
    /\ CallbackInit
    /\ ExportInit
    /\ (IF focus = "lease" THEN TRUE ELSE cacheKind = "reports") /\ LeaseInit
    /\ (IF focus = "final" THEN TRUE ELSE ended = [a \in Journeys |-> "open"]) /\ FinalInit
    /\ (IF focus = "feed" THEN TRUE ELSE adapter = AnyOf(Adapters)) /\ FeedInit

JobsNext ==
    \/ /\ focus = "callback" /\ CallbackNext
       /\ UNCHANGED <<focus, exportVars, leaseVars, finalVars, feedVars>>
    \/ /\ focus = "export" /\ ExportNext
       /\ UNCHANGED <<focus, callbackVars, leaseVars, finalVars, feedVars>>
    \/ /\ focus = "lease" /\ CacheLeaseNext
       /\ UNCHANGED <<focus, callbackVars, exportVars, finalVars, feedVars>>
    \/ /\ focus = "final" /\ FinalNext
       /\ UNCHANGED <<focus, callbackVars, exportVars, leaseVars, feedVars>>
    \/ /\ focus = "feed" /\ FeedNext
       /\ UNCHANGED <<focus, callbackVars, exportVars, leaseVars, finalVars>>

\* The components' own fairness, asked of the component in focus.
JobsFairness ==
    /\ \A j \in Jobs : WF_exportVars(focus = "export" /\ ExpireExport(j))
    /\ \A r \in Requests : WF_exportVars(focus = "export" /\ EnqueueBuild(r))
    /\ WF_exportVars(focus = "export" /\ ListExpired)
    /\ WF_exportVars(focus = "export" /\ DeleteExpired)
    /\ WF_exportVars(focus = "export" /\ UnlinkFiles)
    /\ \A q \in LeaseRequests :
        /\ WF_leaseVars(focus = "lease" /\ (TakeLock(q) \/ MissLock(q)))
        /\ WF_leaseVars(focus = "lease" /\ (Query(q) \/ FinishBuild(q)))
        /\ WF_leaseVars(focus = "lease" /\ (PeerStored(q) \/ WaitTimesOut(q)))
    /\ \A i \in Imports : WF_finalVars(focus = "final" /\ ImportStep(i))
    /\ WF_feedVars(focus = "feed" /\ StartBatch)
    /\ WF_feedVars(focus = "feed" /\ \E s \in Surveys : NextOfBatch(s))
    /\ \A w \in DetailWorkers : WF_feedVars(focus = "feed" /\ RefreshSteps(w))

JobsSpec == JobsInit /\ [][JobsNext]_jobsVars /\ JobsFairness

----------------------------------------------------------------------------
(* Properties over the components.                                         *)

\* Everything the background takes up comes to an end: an export
\* (cleanup_expired_export_jobs), a request that missed the cache
\* (_cached_with_stale_revalidation), an import (import_final_ids) and the details
\* of a survey (refresh_stale_details). PendingEventSettles has a run of its own.
JobsSettle ==
    ExportSettles /\ MissesAnswered /\ ImportsEnd /\ DetailsArrive

\* What has been reached is not lost again: a delivered result (_finish_delivery)
\* and the newest data under a cache key, with the exceptions that each part names.
JobsNeverGoBack == DeliveredStands /\ EntryNeverGoesBack
=============================================================================
