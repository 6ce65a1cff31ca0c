-------------------------------- MODULE Media -------------------------------
(***************************************************************************)
(* One media object from the request for an upload to its deletion:        *)
(* media-service (MediaService, MediaEventsConsumer) writes the row and    *)
(* removes the file, and media-worker (ProcessingJobService,               *)
(* MediaProcessorService, MediaRecoveryService) makes its variants.        *)
(*                                                                         *)
(* No write of the row is conditional: every handler reads the row once    *)
(* and writes its status later, whatever happened in between.  The jobs of *)
(* a worker live in its memory, and Kafka counts the event as consumed as  *)
(* soon as the job is there.                                               *)
(*                                                                         *)
(* The variants of an object are one thing here, its presigned URL is used *)
(* once, and the ages findStuckMedia asks for (ten and five minutes) may   *)
(* be those of any row, since a run may last that long.  Its limit of 50   *)
(* rows, in no order, is kept: a scan need not find this object.  A job    *)
(* that is completed or given up leaves the map at once, not after minutes.*)
(***************************************************************************)
EXTENDS Naturals, FiniteSets

CONSTANTS
  MaxCalls,     \* bound: requests and events media-service handles
  Workers,      \* instances of media-worker
  Jobs, Runs,   \* job objects in memory, and places of the p-queues
  NoJob,
  MaxRetries,   \* maxRetries of ProcessingJobService
  MaxFaults     \* bound: failing calls to MinIO, MongoDB or Kafka, and crashes

ASSUME MediaAssumption ==
  /\ NoJob \notin Jobs
  /\ MaxCalls \in Nat /\ MaxRetries \in Nat \ {0} /\ MaxFaults \in Nat

Calls == 1..MaxCalls

VARIABLES
  kind,         \* "image" stands for images and videos, "file" for the rest
  status,       \* the row in MongoDB, "ABSENT" when there is none
  objects,      \* what MinIO has of the object
  upload,       \* what the client holds: a presigned URL or a multipart session
  call,         \* call[c]: what a handler of media-service does next
  uploaded,     \* media.uploaded events nobody has consumed
  job,          \* job[j]: state, attempts, retry timers and worker of a job
  entry,        \* entry[w]: the job in the worker's map
  run,          \* run[r]: the job a run works on and what it does next
  recovery,     \* the cron job under its leader lock
  faults,
  stray,        \* history: the original is one the client uploaded after the
                \* deletion, or of an upload aborted after its completion
  stranded      \* history: nobody is left who would end PROCESSING

rowVars == <<kind, status>>
workerVars == <<job, entry, run>>
historyVars == <<stray, stranded>>
vars == <<kind, status, objects, upload, call, uploaded,
          job, entry, run, recovery, faults, historyVars>>

Statuses == {"ABSENT", "CREATED", "UPLOADED", "PROCESSING", "READY", "FAILED",
             "DELETION_PENDING", "DELETED"}
JobStates == {"pending", "processing", "completed", "failed"}
CallSteps == {"idle", "verify", "mark", "publish", "fail", "markParts",
              "publishParts", "erase", "markDeleted", "markPending",
              "eraseAll", "drop", "markAborted", "done"}
RunSteps == {"idle", "find", "claim", "work", "save", "announce", "fail", "tell"}
RecoverySteps == {"idle", "enqueue", "erase", "mark"}

NewJob(w) == [state |-> "pending", attempts |-> 0, timers |-> 0, on |-> w]

Init ==
  /\ kind \in {"image", "file"}
  /\ status = "ABSENT" /\ objects = {} /\ upload = "none"
  /\ call = [c \in Calls |-> "idle"]
  /\ uploaded = 0
  /\ \E w \in Workers : job = [j \in Jobs |-> NewJob(w)]
  /\ entry = [w \in Workers |-> NoJob]
  /\ run = [r \in Runs |-> [job |-> NoJob, at |-> "idle"]]
  /\ recovery = [at |-> "idle", on |-> CHOOSE w \in Workers : TRUE]
  /\ faults = 0
  /\ stray = FALSE /\ stranded = FALSE

Fault == faults < MaxFaults /\ faults' = faults + 1

\* findOneAndUpdate by id: nothing happens when the row is gone.
SetStatus(s) == status' = IF status = "ABSENT" THEN status ELSE s

EraseOriginal == objects' = objects \ {"original"} /\ stray' = FALSE

\* A row that is, or is about to be, DELETED.
Erased == \/ status = "DELETED" \/ recovery.at = "mark"
          \/ \E c \in Calls : call[c] = "markDeleted"

Arrives == objects' = objects \cup {"original"} /\ stray' = Erased

-----------------------------------------------------------------------------
(* The client and media-service.                                           *)

callRest == <<kind, workerVars, recovery>>

\* createUpload and initMultipartUpload.
CreateUpload ==
  /\ status = "ABSENT" /\ upload = "none"
  /\ status' = "CREATED" /\ upload' \in {"url", "parts"}
  /\ UNCHANGED <<callRest, objects, call, uploaded, faults, historyVars>>

\* The client's PUT may come at any time, after a deletion too.
Put ==
  /\ upload = "url" /\ upload' = "used"
  /\ Arrives
  /\ UNCHANGED <<callRest, status, call, uploaded, faults, stranded>>

Goto(c, step) == call' = [call EXCEPT ![c] = step]

\* Handlers are taken in the order of their numbers.
Free(c) == call[c] = "idle" /\ \A b \in 1..(c - 1) : call[b] # "idle"

BeginFinalize(c) ==
  /\ Free(c) /\ status = "CREATED"
  /\ Goto(c, "verify")
  /\ UNCHANGED <<callRest, status, objects, upload, uploaded, faults, historyVars>>

\* The file is there and the checksum fits, or FAILED is written, once here
\* and once more by the catch.
Verify(c) ==
  /\ call[c] = "verify"
  /\ \/ "original" \in objects /\ Goto(c, "mark") /\ UNCHANGED <<status, faults>>
     \/ Goto(c, "fail") /\ SetStatus("FAILED") /\ UNCHANGED faults
     \/ Fault /\ Goto(c, "fail") /\ UNCHANGED status
  /\ UNCHANGED <<callRest, objects, upload, uploaded, historyVars>>

\* What throws in finalizeUpload leads to its catch; a multipart upload has none.
AfterThrow(c) == IF call[c] \in {"mark", "publish"} THEN "fail" ELSE "done"

MarkUploaded(c) ==
  /\ call[c] \in {"mark", "markParts"}
  /\ \/ /\ Goto(c, IF call[c] = "mark" THEN "publish" ELSE "publishParts")
        /\ SetStatus("UPLOADED") /\ UNCHANGED faults
     \/ Fault /\ Goto(c, AfterThrow(c)) /\ UNCHANGED status
  /\ UNCHANGED <<callRest, objects, upload, uploaded, historyVars>>

PublishUploaded(c) ==
  /\ call[c] \in {"publish", "publishParts"}
  /\ \/ uploaded' = uploaded + 1 /\ Goto(c, "done") /\ UNCHANGED faults
     \/ Fault /\ Goto(c, AfterThrow(c)) /\ UNCHANGED uploaded
  /\ UNCHANGED <<callRest, status, objects, upload, historyVars>>

FinalizeFails(c) ==
  /\ call[c] = "fail" /\ Goto(c, "done")
  /\ \/ SetStatus("FAILED") /\ UNCHANGED faults
     \/ Fault /\ UNCHANGED status
  /\ UNCHANGED <<callRest, objects, upload, uploaded, historyVars>>

\* MinIO assembles the parts once; the status is not looked at.
CompleteMultipart(c) ==
  /\ Free(c) /\ upload = "parts"
  /\ upload' = "closed" /\ Arrives /\ Goto(c, "markParts")
  /\ UNCHANGED <<callRest, status, uploaded, faults, stranded>>

\* Only the session is looked at, which outlives the upload: neither the status
\* nor whether the parts have been assembled.  MinIO takes the abort of an upload
\* that is over; if it refuses, nothing changes.
AbortMultipart(c) ==
  /\ Free(c) /\ upload \in {"parts", "closed"} /\ upload' = "closed"
  /\ stray' = (stray \/ "original" \in objects)
  /\ Goto(c, "markAborted")
  /\ UNCHANGED <<callRest, status, objects, uploaded, faults, stranded>>

\* The owner may delete in any status, an avatar is deleted once, and the
\* media of a deleted message only if it is READY.
Deletable ==
  [ owner   |-> Statuses \ {"ABSENT"},
    avatar  |-> Statuses \ {"ABSENT", "DELETED", "DELETION_PENDING"},
    message |-> {"READY"} ]

BeginDelete(c) ==
  /\ Free(c)
  /\ \/ \E why \in DOMAIN Deletable : status \in Deletable[why] /\ Goto(c, "erase")
     \/ status # "ABSENT" /\ Goto(c, "eraseAll")      \* deleteUserMedia
  /\ UNCHANGED <<callRest, status, objects, upload, uploaded, faults, historyVars>>

\* Mutant: a file that could not be deleted counts as deleted.
EraseIgnoringErrors(c) ==
  /\ call[c] \in {"erase", "eraseAll"}
  /\ Goto(c, IF call[c] = "erase" THEN "markDeleted" ELSE "drop")
  /\ \/ EraseOriginal /\ UNCHANGED faults
     \/ Fault /\ UNCHANGED <<objects, stray>>
  /\ UNCHANGED <<callRest, status, upload, uploaded, stranded>>

Erase(c) ==
  /\ call[c] \in {"erase", "eraseAll"}
  /\ \/ EraseOriginal /\ Goto(c, IF call[c] = "erase" THEN "markDeleted" ELSE "drop")
        /\ UNCHANGED faults
     \/ Fault /\ Goto(c, "markPending") /\ UNCHANGED <<objects, stray>>
  /\ UNCHANGED <<callRest, status, upload, uploaded, stranded>>

\* The write of DELETED is in the try block of the erasing.
AfterErase(c) ==
  /\ \/ /\ \/ call[c] \in {"markDeleted", "markAborted"} /\ SetStatus("DELETED")
           \/ call[c] = "markPending" /\ SetStatus("DELETION_PENDING")
           \/ call[c] = "drop" /\ status' = "ABSENT"
        /\ Goto(c, "done") /\ UNCHANGED faults
     \/ /\ call[c] \in {"markDeleted", "markAborted", "markPending", "drop"}
        /\ Goto(c, IF call[c] = "markDeleted" THEN "markPending" ELSE "done")
        /\ Fault /\ UNCHANGED status
  /\ UNCHANGED <<callRest, objects, upload, uploaded, historyVars>>

ServiceCrash(c) ==
  /\ Fault
  /\ call[c] \notin {"idle", "done"} /\ Goto(c, "done")
  /\ UNCHANGED <<callRest, status, objects, upload, uploaded, historyVars>>

ServiceStep(c) == \/ Verify(c) \/ MarkUploaded(c) \/ PublishUploaded(c)
                  \/ FinalizeFails(c) \/ Erase(c) \/ AfterErase(c)

ClientRequest(c) == \/ BeginFinalize(c) \/ CompleteMultipart(c)
                    \/ AbortMultipart(c) \/ BeginDelete(c)

-----------------------------------------------------------------------------
(* media-worker: a map of jobs by media id, and a p-queue.                 *)

runRest == <<kind, upload, call, recovery>>

RunsOf(w) == {r \in Runs : run[r].job # NoJob /\ job[run[r].job].on = w}

Used(jobs, entries, runs) == {j \in Jobs : \/ \E w \in Workers : entries[w] = j
                                          \/ \E r \in Runs : runs[r].job = j
                                          \/ jobs[j].timers > 0}

\* Objects nothing refers to are collected.
Collect(jobs, entries, runs) ==
  [j \in Jobs |-> IF j \in Used(jobs, entries, runs) THEN jobs[j] ELSE NewJob(jobs[j].on)]

\* jobs.set replaces the entry; runs and timers of the old job keep it.
Enqueue(w) ==
  \E j \in Jobs \ Used(job, entry, run) :
    /\ entry' = [entry EXCEPT ![w] = j]
    /\ job' = Collect([job EXCEPT ![j] = NewJob(w)], entry', run)

\* handleMediaUploaded: the event is consumed once the job is in the map.
Consume(w) ==
  /\ uploaded > 0 /\ uploaded' = uploaded - 1
  /\ Enqueue(w)
  /\ UNCHANGED <<runRest, status, objects, run, faults, historyVars>>

Begin(r, j, timers) ==
  /\ run[r].at = "idle"
  /\ run' = [run EXCEPT ![r] = [job |-> j, at |-> "find"]]
  /\ job' = [job EXCEPT ![j].state = "processing", ![j].attempts = @ + 1,
                        ![j].timers = timers]
  /\ UNCHANGED <<runRest, status, objects, uploaded, entry,
                 faults, historyVars>>

\* The poll of every second takes pending jobs when nothing runs.
Poll(w, r) ==
  /\ entry[w] # NoJob /\ RunsOf(w) = {} /\ job[entry[w]].state = "pending"
  /\ Begin(r, entry[w], job[entry[w]].timers)

\* A retry timer adds the job whatever has become of it.
RetryTimer(j, r) == job[j].timers > 0 /\ Begin(r, j, job[j].timers - 1)

At(r, step) == run[r].at = step
Next_(r, step) == run' = [run EXCEPT ![r].at = step] /\ UNCHANGED <<job, entry>>
FreeRun(r) == run' = [run EXCEPT ![r] = [job |-> NoJob, at |-> "idle"]]

EndJob(r, state, timers) ==
  LET j == run[r].job
  IN  /\ FreeRun(r)
      /\ entry' = IF state = "pending" THEN entry
                  ELSE [w \in Workers |-> IF entry[w] = j THEN NoJob ELSE entry[w]]
      /\ job' = Collect([job EXCEPT ![j].state = state, ![j].timers = timers], entry', run')

Complete(r) == EndJob(r, "completed", job[run[r].job].timers)

\* The job throws: it is tried again after a delay, or given up.
Throw(r) ==
  LET j == job[run[r].job]
  IN  IF j.attempts < MaxRetries THEN EndJob(r, "pending", j.timers + 1)
                                 ELSE EndJob(r, "failed", j.timers)

\* processMediaJob returns without work for a row that is gone, READY, or
\* taken by somebody else when this is the first attempt.
Skips(r) == \/ status \in {"ABSENT", "READY"}
            \/ status = "PROCESSING" /\ job[run[r].job].attempts = 1

stepRest == <<runRest, uploaded, stray>>

Find(r) ==
  /\ At(r, "find")
  /\ IF Skips(r) THEN Complete(r) ELSE Next_(r, "claim")
  /\ UNCHANGED <<stepRest, status, objects, faults, stranded>>

Claim(r) ==
  /\ At(r, "claim") /\ SetStatus("PROCESSING") /\ Next_(r, "work")
  /\ UNCHANGED <<stepRest, objects, faults, stranded>>

\* Audio and files are READY at once, without an event.
FileReady(r) ==
  /\ At(r, "work") /\ kind = "file" /\ SetStatus("READY") /\ Complete(r)
  /\ UNCHANGED <<stepRest, objects, faults, stranded>>

\* Mutant: the upload of the variants is skipped.
KeepOriginalOnly(r) ==
  /\ At(r, "work") /\ kind = "image" /\ "original" \in objects
  /\ Next_(r, "save")
  /\ UNCHANGED <<stepRest, status, objects, faults, stranded>>

MakeVariants(r) ==
  /\ At(r, "work") /\ kind = "image" /\ "original" \in objects
  /\ objects' = objects \cup {"variants"} /\ Next_(r, "save")
  /\ UNCHANGED <<stepRest, status, faults, stranded>>

SaveReady(r) ==
  /\ At(r, "save") /\ SetStatus("READY") /\ Next_(r, "announce")
  /\ UNCHANGED <<stepRest, objects, faults, stranded>>

\* media.ready is published; nothing here reads it.
Announce(r) ==
  /\ At(r, "announce") /\ Complete(r)
  /\ UNCHANGED <<stepRest, status, objects, faults, stranded>>

\* The file is missing, the processor cannot read it, or a call fails.
WorkFails(r) ==
  /\ \/ At(r, "work") /\ kind = "image" /\ UNCHANGED faults
     \/ run[r].at \in {"find", "claim", "work", "save", "announce"} /\ Fault
  /\ Next_(r, "fail")
  /\ UNCHANGED <<stepRest, status, objects, stranded>>

\* Mutant: a failure is announced but not written to the row.
FailureNotSaved(r) ==
  /\ At(r, "fail") /\ Next_(r, "tell")
  /\ UNCHANGED <<stepRest, status, objects, faults, stranded>>

SaveFailed(r) ==
  /\ At(r, "fail")
  /\ \/ SetStatus("FAILED") /\ Next_(r, "tell") /\ UNCHANGED <<faults, stranded>>
     \/ /\ Fault /\ Throw(r) /\ UNCHANGED status
        /\ stranded' = (stranded \/ job[run[r].job].attempts >= MaxRetries)
  /\ UNCHANGED <<stepRest, objects>>

\* Whether media.failed is published or the publish fails, the job throws.
TellFailed(r) ==
  /\ At(r, "tell") /\ Throw(r)
  /\ UNCHANGED <<stepRest, status, objects, faults, stranded>>

RunStep(r) == \/ Find(r) \/ Claim(r) \/ FileReady(r) \/ MakeVariants(r)
              \/ SaveReady(r) \/ Announce(r) \/ WorkFails(r)
              \/ SaveFailed(r) \/ TellFailed(r)

-----------------------------------------------------------------------------
(* The recovery job of media-worker.                                      *)

recoveryRest == <<kind, upload, call, uploaded, run>>

Recover(step) == recovery' = [recovery EXCEPT !.at = step]

\* Mutant: the query leaves out the media that failed.
StuckNotFailed == {"PROCESSING", "DELETION_PENDING"}

\* What findStuckMedia looks for.  Media in PROCESSING that nobody processes is
\* found too, but its new job starts with a first attempt, which skips it.
Stuck == {"PROCESSING", "FAILED", "DELETION_PENDING"}

RecoveryScan(w) ==
  /\ recovery.at = "idle" /\ status \in Stuck
  /\ recovery' = [at |-> IF status = "DELETION_PENDING" THEN "erase" ELSE "enqueue",
                  on |-> w]
  /\ UNCHANGED <<recoveryRest, status, objects, job, entry, faults, historyVars>>

RecoveryEnqueue ==
  /\ recovery.at = "enqueue" /\ Enqueue(recovery.on) /\ Recover("idle")
  /\ UNCHANGED <<recoveryRest, status, objects, faults, historyVars>>

RecoveryErase ==
  /\ recovery.at = "erase"
  /\ \/ EraseOriginal /\ Recover("mark") /\ UNCHANGED faults
     \/ Fault /\ Recover("idle") /\ UNCHANGED <<objects, stray>>
  /\ UNCHANGED <<recoveryRest, status, job, entry, stranded>>

RecoveryMark ==
  /\ recovery.at = "mark" /\ Recover("idle")
  /\ \/ SetStatus("DELETED") /\ UNCHANGED faults
     \/ Fault /\ UNCHANGED status
  /\ UNCHANGED <<recoveryRest, objects, job, entry, historyVars>>

RecoveryStep == RecoveryEnqueue \/ RecoveryErase \/ RecoveryMark

\* The process restarts: its jobs, timers and runs are gone, and the offset
\* of the last event may not have been committed.
WorkerCrash(w) ==
  LET lives(j) == j # NoJob /\ job[j].on # w
  IN  /\ Fault /\ stranded' = (stranded \/ status = "PROCESSING")
      /\ run' = [r \in Runs |-> IF lives(run[r].job) THEN run[r]
                                ELSE [job |-> NoJob, at |-> "idle"]]
      /\ job' = [j \in Jobs |-> IF lives(j) THEN job[j] ELSE NewJob(w)]
      /\ entry' = [entry EXCEPT ![w] = NoJob]
      /\ recovery' = IF recovery.on = w THEN [recovery EXCEPT !.at = "idle"] ELSE recovery
      /\ uploaded' \in {uploaded} \cup {uploaded + 1 : j \in {entry[w]} \ {NoJob}}
      /\ UNCHANGED <<rowVars, objects, upload, call, stray>>

-----------------------------------------------------------------------------
Next ==
  \/ CreateUpload \/ Put
  \/ \E c \in Calls : ClientRequest(c) \/ ServiceStep(c) \/ ServiceCrash(c)
  \/ \E w \in Workers : Consume(w) \/ RecoveryScan(w) \/ WorkerCrash(w)
  \/ \E w \in Workers, r \in Runs : Poll(w, r)
  \/ \E j \in Jobs, r \in Runs : RetryTimer(j, r)
  \/ \E r \in Runs : RunStep(r)
  \/ RecoveryStep

Spec == Init /\ [][Next]_vars

\* Runs and the recovery job go on, and the timers fire.  The p-queue is first in,
\* first out: a retry in it gets a place in the end, whoever takes the place in
\* between (SF).  Nothing is owed by the client, by the handlers of media-service
\* or by Kafka, and no outcome by a call that may fail.
Fairness ==
  /\ \A r \in Runs : WF_vars(RunStep(r))
  /\ \A w \in Workers : WF_vars(\E r \in Runs : Poll(w, r))
  /\ \A j \in Jobs : SF_vars(\E r \in Runs : RetryTimer(j, r))
  /\ WF_vars(RecoveryStep)

FairSpec == Spec /\ Fairness

-----------------------------------------------------------------------------
MediaTypeOK ==
  /\ kind \in {"image", "file"} /\ status \in Statuses
  /\ objects \subseteq {"original", "variants"}
  /\ upload \in {"none", "url", "used", "parts", "closed"}
  /\ call \in [Calls -> CallSteps]
  /\ uploaded \in Nat
  /\ job \in [Jobs -> [state : JobStates, attempts : Nat, timers : Nat, on : Workers]]
  /\ entry \in [Workers -> Jobs \cup {NoJob}]
  /\ run \in [Runs -> [job : Jobs \cup {NoJob}, at : RunSteps]]
  /\ recovery \in [at : RecoverySteps, on : Workers]
  /\ faults \in 0..MaxFaults
  /\ stray \in BOOLEAN /\ stranded \in BOOLEAN

\* An image that is READY has its variants in MinIO, whichever of several runs,
\* finalizations and deletions wrote the row last.
ReadyIsComplete ==
  kind = "image" /\ status = "READY"
    => "variants" \in objects

\* Media that is DELETED has left no original behind: a deletion that failed does
\* not look like one that succeeded, to whichever of four ways of deleting it
\* belongs.  The exceptions (stray) are an original the client uploads after the
\* deletion, and an upload that was aborted after it was complete: its row is
\* marked DELETED and its file stays.  Variants are removed by none of them.
DeletedLeavesNoOriginal == status = "DELETED" => "original" \notin objects \/ stray

\* The recovery job gets to this object in the end.  It does not if fifty others
\* that fail for ever are found before it every time.
ScanFindsIt == WF_vars(\E w \in Workers : RecoveryScan(w))

\* Media that FAILED is tried again (or deleted) whenever the recovery job gets to
\* it: when the worker's own attempts are used up or were lost with the worker,
\* the query still asks for it, and its new job is not skipped.
FailedIsRetried == ScanFindsIt => (status = "FAILED" ~> status # "FAILED")

\* PROCESSING ends, however runs, retries and deletions overlap: a run that leaves
\* media to whoever set it to PROCESSING leaves it to a run or a retry that is
\* alive.  It does not end (stranded) after a crash of the worker, whose retries are
\* gone and whose row every later first attempt skips, or when the write of FAILED
\* failed on the last attempt.
ProcessingEnds ==
  (status = "PROCESSING" /\ ~stranded) ~> (status # "PROCESSING" \/ stranded)
=============================================================================
