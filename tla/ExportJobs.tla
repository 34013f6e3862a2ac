------------------------------ MODULE ExportJobs ------------------------------
(***************************************************************************)
(* Report exports: a request creates or reuses an ExportJob row, a Celery   *)
(* task builds the workbook into a file, downloads serve the file, and a    *)
(* periodic task deletes expired rows and then their files.  The queue      *)
(* message is acknowledged when the task starts: a killed builder is gone.  *)
(***************************************************************************)
EXTENDS Naturals, FiniteSets

CONSTANTS
  Jobs,        \* bound: job ids that may be created
  Queries,     \* (user, kind, filters) a job is requested for
  Requests,    \* web requests that create jobs
  Builders,    \* Celery processes that build
  MaxExportFaults  \* bound: broker outages, duplicates, killed processes

ASSUME ExportJobsAssumption == MaxExportFaults \in Nat /\ "none" \notin Jobs

VARIABLES
  export,   \* ExportJob rows
  file,     \* the file under each job's storage_key
  message,  \* build messages in the broker, by job
  asking,   \* requests between their look-up and the queueing of the task
  builder,  \* builds in progress
  cleaner,  \* the clean-up's step, and the storage keys it has listed
  leaked,   \* history: files no row names because a process died or was late
  exportFaults

exportVars == <<export, file, message, asking, builder, cleaner, leaked, exportFaults>>

NoJob == [status |-> "absent", query |-> "none", downloaded |-> FALSE, expired |-> FALSE]
NotAsking == [pc |-> "idle", query |-> "none", job |-> "none"]
NotBuilding == [pc |-> "idle", job |-> "none"]
NotCleaning == [pc |-> "idle", keys |-> {}]

Exists(j) == export[j].status \notin {"absent", "deleted"}
\* Keys whose rows the clean-up has deleted and whose files it is to unlink.
Unlinking == IF cleaner.pc = "unlink" THEN cleaner.keys ELSE {}

ExportTypeOK ==
  /\ export \in [Jobs -> [status : {"absent", "deleted", "queued", "running", "completed", "failed"},
                          query : Queries \cup {"none"}, downloaded : BOOLEAN,
                          expired : BOOLEAN]]
  /\ \A j \in Jobs : Exists(j) => export[j].query \in Queries
  /\ file \in [Jobs -> {"none", "temporary", "whole"}]
  /\ message \in [Jobs -> 0 .. 2]
  /\ builder \in [Builders -> [pc : {"idle", "building", "written", "replaced"},
                               job : Jobs \cup {"none"}]]
  /\ cleaner \in [pc : {"idle", "delete", "unlink"}, keys : SUBSET Jobs] /\ leaked \subseteq Jobs
  /\ exportFaults \in 0 .. MaxExportFaults

ExportInit ==
  /\ export = [j \in Jobs |-> NoJob]
  /\ file = [j \in Jobs |-> "none"]
  /\ message = [j \in Jobs |-> 0]
  /\ asking = [r \in Requests |-> NotAsking]
  /\ builder = [b \in Builders |-> NotBuilding]
  /\ cleaner = NotCleaning
  /\ leaked = {} /\ exportFaults = 0

Fault == exportFaults < MaxExportFaults /\ exportFaults' = exportFaults + 1

-----------------------------------------------------------------------------
(* export_job_create, export_job_download, and time *)

\* A job of the same query that is under way, or not yet downloaded.
Reusable(j, q) ==
  /\ export[j].query = q /\ export[j].status \in {"queued", "running", "completed"}
  /\ ~ export[j].downloaded /\ ~ export[j].expired

LookUpExport(r) ==
  /\ asking[r] = NotAsking
  /\ \E q \in Queries :
       /\ ~ \E j \in Jobs : Reusable(j, q)
       /\ asking' = [asking EXCEPT ![r] = [pc |-> "create", query |-> q, job |-> "none"]]
  /\ UNCHANGED <<export, file, message, builder, cleaner, leaked, exportFaults>>

CreateExport(r) ==
  /\ asking[r].pc = "create"
  /\ \E j \in Jobs :
       /\ export[j] = NoJob
       /\ export' = [export EXCEPT ![j] = [NoJob EXCEPT !.status = "queued",
                                                        !.query = asking[r].query]]
       /\ asking' = [asking EXCEPT ![r].pc = "enqueue", ![r].job = j]
  /\ UNCHANGED <<file, message, builder, cleaner, leaked, exportFaults>>

EnqueueBuild(r) ==
  /\ asking[r].pc = "enqueue"
  /\ message' = [message EXCEPT ![asking[r].job] = 1]
  /\ asking' = [asking EXCEPT ![r] = NotAsking]
  /\ UNCHANGED <<export, file, builder, cleaner, leaked, exportFaults>>

\* The broker refuses: job.save marks the row failed (one not yet expired).
EnqueueRefused(r) ==
  LET j == asking[r].job
  IN /\ asking[r].pc = "enqueue" /\ Fault
     /\ export' = IF Exists(j) THEN [export EXCEPT ![j].status = "failed"] ELSE export
     /\ asking' = [asking EXCEPT ![r] = NotAsking]
     /\ UNCHANGED <<file, message, builder, cleaner, leaked>>

RequestKilled(r) ==
  /\ asking[r].pc = "enqueue" /\ Fault
  /\ asking' = [asking EXCEPT ![r] = NotAsking]
  /\ UNCHANGED <<export, file, message, builder, cleaner, leaked>>

Served(j) == export[j].status = "completed" /\ ~ export[j].expired

DownloadExport(j) ==
  /\ Served(j) /\ file[j] = "whole" /\ ~ export[j].downloaded
  /\ export' = [export EXCEPT ![j].downloaded = TRUE]
  /\ UNCHANGED <<file, message, asking, builder, cleaner, leaked, exportFaults>>

\* A request is over long before the row it created expires.
ExpireExport(j) ==
  /\ Exists(j) /\ ~ export[j].expired /\ \A r \in Requests : asking[r].job # j
  /\ export' = [export EXCEPT ![j].expired = TRUE]
  /\ UNCHANGED <<file, message, asking, builder, cleaner, leaked, exportFaults>>

DuplicateMessage(j) ==
  /\ message[j] = 1 /\ Fault /\ message' = [message EXCEPT ![j] = 2]
  /\ UNCHANGED <<export, file, asking, builder, cleaner, leaked>>

-----------------------------------------------------------------------------
(* build_export_job *)

\* Faulty: the claim does not ask for a queued row.
ClaimableAny(j) == Exists(j) /\ ~ export[j].expired
Claimable(j) == export[j].status = "queued" /\ ~ export[j].expired

\* A missing, expired or already claimed job ends the task.
StartBuild(b) ==
  /\ builder[b] = NotBuilding
  /\ \E j \in Jobs :
       /\ message[j] > 0 /\ message' = [message EXCEPT ![j] = @ - 1]
       /\ IF Claimable(j)
            THEN /\ export' = [export EXCEPT ![j].status = "running"]
                 /\ builder' = [builder EXCEPT ![b] = [pc |-> "building", job |-> j]]
            ELSE UNCHANGED <<export, builder>>
  /\ UNCHANGED <<file, asking, cleaner, leaked, exportFaults>>

WriteTemporary(b) ==
  /\ builder[b].pc = "building"
  /\ builder' = [builder EXCEPT ![b].pc = "written"]
  /\ file' = [file EXCEPT ![builder[b].job] = IF @ = "none" THEN "temporary" ELSE @]
  /\ UNCHANGED <<export, message, asking, cleaner, leaked, exportFaults>>

\* Faulty: the temporary file is not moved into place.
ReplacedNot(f) == f
Replaced(f) == "whole"

\* temporary.replace(destination); a row deleted meanwhile leaves the file alone.
ReplaceFile(b) ==
  LET j == builder[b].job
  IN /\ builder[b].pc = "written"
     /\ builder' = [builder EXCEPT ![b].pc = "replaced"]
     /\ file' = [file EXCEPT ![j] = Replaced(@)]
     /\ leaked' = IF Exists(j) THEN leaked ELSE leaked \cup {j}
     /\ UNCHANGED <<export, message, asking, cleaner, exportFaults>>

\* Faulty: the row is saved though the clean-up has deleted it.
EndBuildAnyway(b, status) ==
  /\ export' = [export EXCEPT ![builder[b].job].status = status]
  /\ builder' = [builder EXCEPT ![b] = NotBuilding]
EndBuild(b, status) ==
  LET j == builder[b].job
  IN /\ export' = IF Exists(j) THEN [export EXCEPT ![j].status = status] ELSE export
     /\ builder' = [builder EXCEPT ![b] = NotBuilding]

CompleteBuild(b) ==
  /\ builder[b].pc = "replaced" /\ EndBuild(b, "completed")
  /\ UNCHANGED <<file, message, asking, cleaner, leaked, exportFaults>>

\* Any exception, the soft time limit included; what is on disk stays.
BuildFails(b) ==
  /\ builder[b].pc # "idle" /\ EndBuild(b, "failed")
  /\ leaked' = IF Exists(builder[b].job) /\ file[builder[b].job] # "temporary" THEN leaked
               ELSE leaked \cup {builder[b].job}
  /\ UNCHANGED <<file, message, asking, cleaner, exportFaults>>

BuilderKilled(b) ==
  /\ builder[b].pc # "idle" /\ Fault
  /\ builder' = [builder EXCEPT ![b] = NotBuilding]
  /\ leaked' = leaked \cup {builder[b].job}
  /\ UNCHANGED <<export, file, message, asking, cleaner>>

-----------------------------------------------------------------------------
(* cleanup_expired_export_jobs *)

\* Faulty: jobs that seem to be at work are spared.
ExpiredFinished ==
  {j \in Jobs : Exists(j) /\ export[j].expired /\ export[j].status \notin {"queued", "running"}}
Expired == {j \in Jobs : Exists(j) /\ export[j].expired}

ListExpired ==
  /\ cleaner = NotCleaning /\ Expired # {}
  /\ cleaner' = [pc |-> "delete", keys |-> Expired]
  /\ UNCHANGED <<export, file, message, asking, builder, leaked, exportFaults>>

\* The same filter, with the same time, once more: builders may have ended.
DeleteExpired ==
  LET gone == Expired \cap cleaner.keys
  IN /\ cleaner.pc = "delete"
     /\ cleaner' = [pc |-> "unlink", keys |-> gone]
     /\ export' = [j \in Jobs |-> IF j \in gone THEN [NoJob EXCEPT !.status = "deleted"]
                              ELSE export[j]]
     /\ leaked' = leaked \cup {j \in gone : file[j] = "temporary"}
     /\ UNCHANGED <<file, message, asking, builder, exportFaults>>

\* Faulty: only the rows are deleted.
UnlinkedNone(keys) == file
\* The temporary file has another name and stays.
Unlinked(keys) ==
  [j \in Jobs |-> IF j \in keys /\ file[j] = "whole" THEN "none" ELSE file[j]]

UnlinkFiles ==
  /\ cleaner.pc = "unlink"
  /\ file' = Unlinked(cleaner.keys)
  /\ cleaner' = NotCleaning
  /\ UNCHANGED <<export, message, asking, builder, leaked, exportFaults>>

CleanerKilled ==
  /\ cleaner # NotCleaning /\ Fault
  /\ cleaner' = NotCleaning
  /\ leaked' = leaked \cup Unlinking
  /\ UNCHANGED <<export, file, message, asking, builder>>

ExportNext ==
  \/ \E r \in Requests : \/ LookUpExport(r) \/ CreateExport(r) \/ EnqueueBuild(r)
                         \/ EnqueueRefused(r) \/ RequestKilled(r)
  \/ \E j \in Jobs : DownloadExport(j) \/ ExpireExport(j) \/ DuplicateMessage(j)
  \/ \E b \in Builders : \/ StartBuild(b) \/ WriteTemporary(b) \/ ReplaceFile(b)
                         \/ CompleteBuild(b) \/ BuildFails(b) \/ BuilderKilled(b)
  \/ ListExpired \/ DeleteExpired \/ UnlinkFiles \/ CleanerKilled

ExportSpec == ExportInit /\ [][ExportNext]_exportVars

\* Rows expire with time, workers run, and beat starts the clean-up every hour.
ExportFairness ==
  /\ \A j \in Jobs : WF_exportVars(ExpireExport(j))
  /\ \A r \in Requests : WF_exportVars(EnqueueBuild(r))
  /\ WF_exportVars(ListExpired) /\ WF_exportVars(DeleteExpired) /\ WF_exportVars(UnlinkFiles)

-----------------------------------------------------------------------------
(* Properties *)

\* A completed job that may still be downloaded has its whole file on disk,
\* whatever builders, duplicates and the clean-up do meanwhile.
ServedHasFile == \A j \in Jobs : Served(j) => file[j] = "whole"

\* One builder per job, even when its message is delivered twice.
OneBuilderPerJob ==
  \A b, c \in Builders : b # c /\ builder[b].pc # "idle" => builder[b].job # builder[c].job

\* A file that no row names is the work of a process that died, or of a builder
\* that outlived the row: the clean-up itself forgets none.
NoFileForgotten ==
  \A j \in Jobs : file[j] # "none" /\ ~ Exists(j) =>
    j \in leaked \cup Unlinking \/ \E b \in Builders : builder[b].job = j

\* No export hangs for ever: a job whose message or builder is lost is gone
\* once it expires.
ExportSettles ==
  \A j \in Jobs : export[j].status \in {"queued", "running"} ~>
                  export[j].status \notin {"queued", "running"}

\* What build_export_job and cleanup_expired_export_jobs keep true of rows and
\* files with no transaction over both.
ExportInv == ExportTypeOK /\ ServedHasFile /\ OneBuilderPerJob /\ NoFileForgotten
=============================================================================
