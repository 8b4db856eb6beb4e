------------------------------ MODULE MediaJobs ------------------------------
(***************************************************************************)
(* The media-processing service on top of file storage. A job takes a      *)
(* stored file and either derives a file from it (thumbnail, optimize) or  *)
(* only looks at it (scan, transcribe). The worker drains the queue;       *)
(* requests process one job by its id, next to the worker and to one       *)
(* another. Each run saves the whole record it carries, so what runs of    *)
(* one job save overwrites what others saved.                              *)
(*                                                                         *)
(* The service's environment decides what it does (settings): whether it   *)
(* drains the queue by itself (by default it does not), whether it derives *)
(* images or names files it never makes, and whether it looks at files or  *)
(* answers with placeholders (the default).                                *)
(*                                                                         *)
(* The service is one process and its store synchronous, so a look-up and  *)
(* the save that follows it are one step; runs interleave where they wait  *)
(* for core's status callback or for storage. Core keeps the callbacks in  *)
(* memory only; they are not modelled beyond the wait. Jobs are numbered   *)
(* in the order they were created.                                         *)
(***************************************************************************)
EXTENDS FileStorage

CONSTANTS
    MaxJobs,        \* bound: jobs created
    Requests,       \* calls of processJob that may run at once
    MaxRequests,    \* bound: calls of processJob
    MaxAttempts,    \* MEDIA_JOB_MAX_ATTEMPTS
    Settings,       \* environments the service may be started with
    MaxCrashes      \* bound: crashes of the media service

ASSUME MediaAssumption ==
    /\ MaxJobs \in Nat /\ MaxRequests \in Nat /\ MaxCrashes \in Nat
    /\ MaxAttempts \in Nat \ {0}
    /\ Settings # {}
    /\ Settings \subseteq [worker : BOOLEAN, images : BOOLEAN, providers : BOOLEAN]

Jobs == 1..MaxJobs
Runs == Requests \cup {"worker"}

VARIABLES
    job,        \* the job store
    run,        \* the worker's run and those of requests
    requests,   \* calls of processJob begun
    settings,   \* worker: MEDIA_WORKER_ENABLED is 'true'; images: the mode is not
                \* "placeholder"; providers: scanning and transcription are over HTTP
    crashes,    \* crashes of the media service
    overlapped  \* history: jobs two runs have worked on at once

mediaVars == <<job, run, requests, settings, crashes, overlapped>>
vars == <<storageVars, mediaVars>>
-----------------------------------------------------------------------------
\* The id "<fileId>:thumbnail" or "<fileId>:optimized", which no file has.
Placeholder == MaxUploads + 1

\* waiting: nextAttemptAt is still to come. output: the derived file, 0 without.
Job == [status : {"absent", "queued", "processing", "completed", "failed"},
        derives : BOOLEAN, source : Uploads \cup {0}, tenant : Tenants \cup {Nobody},
        attempts : Nat, waiting : BOOLEAN,
        output : Uploads \cup {0, Placeholder}]
NoJob == [status |-> "absent", derives |-> FALSE, source |-> 0, tenant |-> Nobody,
          attempts |-> 0, waiting |-> FALSE, output |-> 0]
Settled(j) == j.status \in {"completed", "failed"}

\* A run: the record it carries and the upload of the file it derives.
Run == [step : {"idle", "started", "source", "upload", "settled"}, j : Jobs \cup {0},
        copy : Job, u : Uploads \cup {0}]
NoRun == [step |-> "idle", j |-> 0, copy |-> NoJob, u |-> 0]

Init ==
    /\ StorageInit
    /\ job = [j \in Jobs |-> NoJob]
    /\ run = [r \in Runs |-> NoRun]
    /\ requests = 0
    /\ settings \in Settings
    /\ crashes = 0
    /\ overlapped = {}

Doing(r, step) == run[r].step = step
Save(j, record) == job' = [job EXCEPT ![j] = record]
-----------------------------------------------------------------------------
\* createJob: whoever asks names any file.
CreateJob ==
    /\ \E j \in Jobs, u \in Uploads, t \in Tenants, d \in BOOLEAN :
          /\ job[j] = NoJob /\ \A i \in 1..j - 1 : job[i] # NoJob
          /\ Save(j, [NoJob EXCEPT !.status = "queued", !.derives = d,
                                   !.source = u, !.tenant = t])
    /\ UNCHANGED <<storageVars, run, requests, settings, crashes, overlapped>>

\* processQueuedJob, up to its first callback.
Start(r, j) ==
    /\ Doing(r, "idle")
    /\ LET copy == [job[j] EXCEPT !.status = "processing", !.attempts = @ + 1,
                                  !.waiting = FALSE] IN
       /\ Save(j, copy)
       /\ run' = [run EXCEPT ![r] = [step |-> "started", j |-> j, copy |-> copy, u |-> 0]]
    /\ overlapped' = IF \E s \in Runs : run[s].j = j THEN overlapped \cup {j} ELSE overlapped
    /\ UNCHANGED <<storageVars, settings, crashes>>

\* drainQueue, called by the worker's timer and by createJob where the worker is on
\* and by an operator's request anyway; nextQueuedJob is the oldest that is due.
Due(j) == job[j].status = "queued" /\ ~job[j].waiting
DrainQueue(j) ==
    /\ Due(j) /\ \A i \in 1..j - 1 : ~Due(i)
    /\ Start("worker", j)
    /\ UNCHANGED requests

\* processJob, whatever the job's status but settled and whoever else runs it.
ProcessableStored(j) == job[j].status # "absent"
Processable(j) == job[j].status \notin {"absent", "completed", "failed"}
ProcessJob(r, j) ==
    /\ requests < MaxRequests
    /\ requests' = requests + 1
    /\ Processable(j)
    /\ Start(r, j)

\* The callback's result is saved with the record, whatever the store holds now.
SaveCallback(r) ==
    /\ Doing(r, "started")
    /\ Save(run[r].j, run[r].copy)
    /\ run' = [run EXCEPT ![r].step = "source"]
    /\ UNCHANGED <<storageVars, requests, settings, crashes, overlapped>>

\* transition(..., "completed") up to its callback.
Complete(r, u) ==
    LET copy == [run[r].copy EXCEPT !.status = "completed", !.output = u] IN
    /\ Save(run[r].j, copy)
    /\ run' = [run EXCEPT ![r].step = "settled", ![r].copy = copy, ![r].u = 0]

\* fetchSourceFile: the file must be the tenant's, kept and have content. Placeholder
\* providers never ask for it.
Readable(u, t) == Registered(file[u]) /\ file[u].tenant = t /\ file[u].content
Inspect(r) ==
    /\ Doing(r, "source") /\ ~run[r].copy.derives
    /\ settings.providers => Readable(run[r].copy.source, run[r].copy.tenant)
    /\ Complete(r, 0)
    /\ UNCHANGED <<storageVars, requests, settings, crashes, overlapped>>

\* placeholderImageOutput: the output names a file that nobody makes, whatever has
\* become of the source.
NamePlaceholder(r) ==
    /\ Doing(r, "source") /\ run[r].copy.derives /\ ~settings.images
    /\ Complete(r, Placeholder)
    /\ UNCHANGED <<storageVars, requests, settings, crashes, overlapped>>

\* uploadDerivedFile: the request for an upload names no capacity.
Derive(r) ==
    /\ Doing(r, "source") /\ run[r].copy.derives /\ settings.images
    /\ Readable(run[r].copy.source, run[r].copy.tenant)
    /\ \E u \in Uploads :
          /\ BeginUpload(u, run[r].copy.tenant, "derived", "post", Unlimited)
          /\ run' = [run EXCEPT ![r].step = "upload", ![r].u = u]
    /\ UNCHANGED <<file, section, lease, limit, tenant, stops, disturbed>>
    /\ UNCHANGED <<job, requests, settings, crashes, overlapped>>

\* The upload's content was accepted.
UploadedOnce(r) == upload[run[r].u].kept
Uploaded(r) == At(run[r].u, "written")
CompleteDerived(r) ==
    /\ Doing(r, "upload")
    /\ Uploaded(r)
    /\ Complete(r, run[r].u)
    /\ UNCHANGED <<storageVars, requests, settings, crashes, overlapped>>

\* Uploads whose run is gone go on by themselves; nobody waits for their end.
Unwatched(k) == IF k.step = "refused" THEN NoUpload
                ELSE IF k.step = "written" THEN Ended(k)
                ELSE IF k.kind = "derived" THEN [k EXCEPT !.kind = "orphan"] ELSE k

\* A record queued again after a failed attempt.
RetriedProcessing(copy) == [copy EXCEPT !.waiting = TRUE]
Retried(copy) == [copy EXCEPT !.status = "queued", !.waiting = TRUE]

\* Any error of createOutputs: the attempt counts, the job is queued again after
\* a pause or, its attempts used up, fails.
Fail(r) ==
    /\ run[r].step \in {"source", "upload"}
    /\ upload' = [u \in Uploads |-> IF u = run[r].u THEN Unwatched(upload[u]) ELSE upload[u]]
    /\ IF run[r].copy.attempts >= MaxAttempts
       THEN LET copy == [run[r].copy EXCEPT !.status = "failed"] IN
            /\ Save(run[r].j, copy)
            /\ run' = [run EXCEPT ![r].step = "settled", ![r].copy = copy, ![r].u = 0]
       ELSE /\ Save(run[r].j, Retried(run[r].copy))
            /\ run' = [run EXCEPT ![r] = NoRun]
    /\ UNCHANGED <<file, section, lease, limit, tenant, stops, disturbed>>
    /\ UNCHANGED <<requests, settings, crashes, overlapped>>

\* The last callback's result is saved with the settled record.
Finish(r) ==
    /\ Doing(r, "settled")
    /\ Save(run[r].j, run[r].copy)
    /\ run' = [run EXCEPT ![r] = NoRun]
    /\ UNCHANGED <<storageVars, requests, settings, crashes, overlapped>>

\* nextAttemptAt passes.
RetryDue(j) ==
    /\ job[j].waiting
    /\ Save(j, [job[j] EXCEPT !.waiting = FALSE])
    /\ UNCHANGED <<storageVars, run, requests, settings, crashes, overlapped>>

\* The service stops and starts again, maybe with another environment; the store and
\* what it asked of storage stay.
Crash ==
    /\ crashes < MaxCrashes
    /\ crashes' = crashes + 1
    /\ settings' \in Settings
    /\ run' = [r \in Runs |-> NoRun]
    /\ upload' = [u \in Uploads |-> Unwatched(upload[u])]
    /\ UNCHANGED <<file, section, lease, limit, tenant, stops, disturbed>>
    /\ UNCHANGED <<job, requests, overlapped>>

RunStep(r) ==
    \/ SaveCallback(r) \/ Fail(r) \/ Finish(r)
    \/ Inspect(r) \/ NamePlaceholder(r) \/ Derive(r) \/ CompleteDerived(r)
Next ==
    \/ StorageNext /\ UNCHANGED mediaVars
    \/ CreateJob \/ Crash
    \/ \E r \in Runs : RunStep(r)
    \/ \E j \in Jobs : DrainQueue(j) \/ RetryDue(j) \/ \E r \in Requests : ProcessJob(r, j)

Spec == Init /\ [][Next]_vars

\* The timer of a worker that is on and the retry pause come round; without a worker
\* nobody need drain the queue. A run goes on, for the fetch it waits on ends, with an
\* error at the latest.
Fairness ==
    /\ \A r \in Runs : WF_vars(RunStep(r))
    /\ \A j \in Jobs : WF_vars(settings.worker /\ DrainQueue(j)) /\ WF_vars(RetryDue(j))
FairSpec == Spec /\ Fairness
-----------------------------------------------------------------------------
\* The types of the variables.
TypeOK ==
    /\ StorageTypeOK
    /\ job \in [Jobs -> Job] /\ run \in [Runs -> Run]
    /\ requests \in 0..MaxRequests /\ settings \in Settings /\ crashes \in 0..MaxCrashes
    /\ overlapped \subseteq Jobs

\* A completed job that derives names a file that exists, is the job's tenant's and has
\* its content, even archived since, however often the job was retried or run twice and
\* whoever else uploads, as long as no two processes rewrite the metadata at once
\* (processQueuedJob, uploadDerivedFile). Only a service that may run in the image mode
\* "placeholder" completes such a job without a file, and marks its output so.
OutputsExist ==
    ~disturbed => \A j \in Jobs : (job[j].status = "completed" /\ job[j].derives) =>
        /\ job[j].output # 0
        /\ IF job[j].output = Placeholder THEN \E s \in Settings : ~s.images
           ELSE LET f == file[job[j].output] IN
                f.status # "none" /\ f.content /\ f.tenant = job[j].tenant

\* A job that settled stays as it is, unless two runs of it overlapped: then the
\* later save of either run stands (processJob, drainQueue).
SettledStays ==
    [][\A j \in Jobs : (Settled(job[j]) /\ j \notin overlapped) => job'[j] = job[j]]_vars

\* A job left "processing" by a run that a crash ended: the worker never looks for it.
Stranded(j) == crashes > 0 /\ job[j].status = "processing" /\ \A r \in Runs : run[r].j # j

\* While the worker is on, a queued job settles, also one queued when the service
\* crashed and one whose runs overlap, unless a crash cut off its last run. With the
\* worker off it may stay queued for good (drainQueue, processQueuedJob, nextQueuedJob).
JobSettles ==
    \A j \in Jobs :
        job[j].status = "queued" ~> (Settled(job[j]) \/ Stranded(j) \/ ~settings.worker)
=============================================================================
