----------------------------- MODULE MediaProofs -----------------------------
(***************************************************************************)
(* Proofs about a media object: what READY and DELETED promise holds for   *)
(* any number of handlers, workers, runs, retries and failing calls.       *)
(***************************************************************************)
EXTENDS Media, TLAPS

JobType == [state : JobStates, attempts : Nat, timers : Nat, on : Workers]
RunType == [job : Jobs \cup {NoJob}, at : RunSteps]

RunsNamed == \A r \in Runs : run[r].at # "idle" => run[r].job \in Jobs

(* Variants are in MinIO before a run says so. *)
SavedAfterUpload ==
  kind = "image" /\ (\E r \in Runs : At(r, "save")) => "variants" \in objects

(* No upload arrives once one is aborted; a file that is there is known of. *)
AbortedIsOver ==
  (\E c \in Calls : call[c] = "markAborted")
    => upload = "closed" /\ ("original" \notin objects \/ stray)

(* From the removal of the file on, only a late upload brings one back, and only *)
(* an abort that leaves the file behind ends in DELETED without a removal.       *)
ErasedIsGone == Erased => "original" \notin objects \/ stray

MediaInv ==
  /\ MediaTypeOK /\ RunsNamed
  /\ SavedAfterUpload /\ ReadyIsComplete
  /\ AbortedIsOver /\ ErasedIsGone

-----------------------------------------------------------------------------
(* What happens to jobs and runs is one of five things. *)
WorkerType ==
  /\ job \in [Jobs -> JobType]
  /\ entry \in [Workers -> Jobs \cup {NoJob}]
  /\ run \in [Runs -> RunType]
  /\ RunsNamed

LEMMA CollectType ==
  ASSUME NEW jobs \in [Jobs -> JobType], NEW entries, NEW runs
  PROVE  Collect(jobs, entries, runs) \in [Jobs -> JobType]
<1>1. \A j \in Jobs : NewJob(jobs[j].on) \in JobType
  BY DEF NewJob, JobType, JobStates
<1>2. QED
  BY <1>1 DEF Collect

LEMMA EnqueueType ==
  ASSUME WorkerType, NEW w \in Workers, Enqueue(w), run' = run
  PROVE  WorkerType'
<1>1. PICK j \in Jobs : /\ entry' = [entry EXCEPT ![w] = j]
                        /\ job' = Collect([job EXCEPT ![j] = NewJob(w)], entry', run)
  BY DEF Enqueue
<1>2. NewJob(w) \in JobType
  BY DEF NewJob, JobType, JobStates
<1>3. [job EXCEPT ![j] = NewJob(w)] \in [Jobs -> JobType]
  BY <1>2 DEF WorkerType
<1>4. job' \in [Jobs -> JobType]
  BY <1>1, <1>3, CollectType
<1>5. entry' \in [Workers -> Jobs \cup {NoJob}]
  BY <1>1 DEF WorkerType
<1>6. QED
  BY <1>4, <1>5 DEF WorkerType, RunsNamed

LEMMA BeginType ==
  ASSUME WorkerType, NEW r \in Runs, NEW j \in Jobs, NEW n \in Nat, Begin(r, j, n)
  PROVE  WorkerType'
<1> DEFINE new == [job[j] EXCEPT !.state = "processing", !.attempts = job[j].attempts + 1,
                                 !.timers = n]
           place == [job |-> j, at |-> "find"]
<1>1. new \in JobType /\ place \in RunType
  <2>1. job[j] \in JobType
    BY DEF WorkerType
  <2>2. job[j].attempts + 1 \in Nat
    BY <2>1 DEF JobType
  <2>3. QED
    BY <2>1, <2>2 DEF JobType, JobStates, RunType, RunSteps
<1>2. run' = [run EXCEPT ![r] = place] /\ entry' = entry
  BY DEF Begin
<1>3. job' = [job EXCEPT ![j] = new]
  <2>1. job[j] \in JobType
    BY DEF WorkerType
  <2>2. QED
    BY <2>1 DEF Begin, JobType
<1>4. run' \in [Runs -> RunType] /\ RunsNamed'
  BY <1>1, <1>2 DEF WorkerType, RunsNamed
<1>5. QED
  BY <1>1, <1>2, <1>3, <1>4 DEF WorkerType

LEMMA NextStepType ==
  ASSUME WorkerType, NEW r \in Runs, NEW l \in RunSteps, Next_(r, l), run[r].at # "idle"
  PROVE  WorkerType'
<1> DEFINE place == [run[r] EXCEPT !.at = l]
<1>1. place \in RunType /\ place.job \in Jobs
  BY DEF WorkerType, RunType, RunsNamed
<1>2. run' = [run EXCEPT ![r] = place]
  BY DEF Next_
<1>3. run' \in [Runs -> RunType] /\ RunsNamed'
  BY <1>1, <1>2 DEF WorkerType, RunsNamed
<1>4. QED
  BY <1>3 DEF WorkerType, Next_

LEMMA EndJobType ==
  ASSUME WorkerType, NEW r \in Runs, NEW s \in JobStates, NEW n \in Nat, EndJob(r, s, n),
         run[r].at # "idle"
  PROVE  WorkerType'
<1> DEFINE j == run[r].job
           new == [job[j] EXCEPT !.state = s, !.timers = n]
           place == [job |-> NoJob, at |-> "idle"]
<1>1. j \in Jobs /\ job[j] \in JobType /\ place \in RunType
  BY DEF WorkerType, RunsNamed, RunType, RunSteps
<1>2. new \in JobType
  BY <1>1 DEF JobType
<1>3. run' \in [Runs -> RunType] /\ RunsNamed'
  BY <1>1 DEF EndJob, FreeRun, WorkerType, RunsNamed
<1>4. entry' \in [Workers -> Jobs \cup {NoJob}]
  BY DEF EndJob, WorkerType
<1>5. job' = Collect([job EXCEPT ![j] = new], entry', run')
  BY <1>1 DEF EndJob, JobType
<1>6. [job EXCEPT ![j] = new] \in [Jobs -> JobType]
  BY <1>2 DEF WorkerType
<1>7. job' \in [Jobs -> JobType]
  BY <1>5, <1>6, CollectType
<1>8. QED
  BY <1>3, <1>4, <1>7 DEF WorkerType

LEMMA RunStepType ==
  ASSUME WorkerType, NEW r \in Runs, RunStep(r)
  PROVE  WorkerType'
<1>1. run[r].at # "idle"
  BY DEF RunStep, Find, Claim, FileReady, MakeVariants, SaveReady, Announce, WorkFails,
     SaveFailed, TellFailed, At
<1>2. /\ run[r].job \in Jobs /\ job[run[r].job] \in JobType
      /\ job[run[r].job].timers \in Nat
  BY <1>1 DEF WorkerType, RunsNamed, JobType
<1>3. Complete(r) => WorkerType'
  BY <1>1, <1>2, EndJobType DEF Complete, JobStates
<1>4. Throw(r) => WorkerType'
  <2>1. job[run[r].job].timers + 1 \in Nat
    BY <1>2
  <2>2. QED
    BY <1>1, <1>2, <2>1, EndJobType DEF Throw, JobStates
<1>5. (\E l \in RunSteps : Next_(r, l)) => WorkerType'
  BY <1>1, NextStepType
<1>6. Complete(r) \/ Throw(r) \/ \E l \in RunSteps : Next_(r, l)
  BY DEF RunStep, Find, Claim, FileReady, MakeVariants, SaveReady, Announce, WorkFails,
     SaveFailed, TellFailed, RunSteps
<1>7. QED
  BY <1>3, <1>4, <1>5, <1>6
LEMMA CrashType ==
  ASSUME WorkerType, NEW w \in Workers, WorkerCrash(w)
  PROVE  WorkerType'
<1> DEFINE lives(j) == j # NoJob /\ job[j].on # w
<1>1. run' = [r \in Runs |-> IF lives(run[r].job) THEN run[r]
                              ELSE [job |-> NoJob, at |-> "idle"]]
  BY DEF WorkerCrash
<1>2. run' \in [Runs -> RunType] /\ RunsNamed'
  BY <1>1 DEF WorkerType, RunsNamed, RunType, RunSteps
<1>3. NewJob(w) \in JobType
  BY DEF NewJob, JobType, JobStates
<1>4. job' \in [Jobs -> JobType] /\ entry' \in [Workers -> Jobs \cup {NoJob}]
  BY <1>3 DEF WorkerCrash, WorkerType
<1>5. QED
  BY <1>2, <1>4 DEF WorkerType

LEMMA WorkerTypeStep ==
  ASSUME WorkerType, recovery.on \in Workers, [Next]_vars
  PROVE  WorkerType'
<1>1. CASE UNCHANGED <<job, entry, run>>
  BY <1>1 DEF WorkerType, RunsNamed
<1>2. CASE \/ CreateUpload \/ Put \/ UNCHANGED vars \/ RecoveryErase \/ RecoveryMark
           \/ \E w \in Workers : RecoveryScan(w)
           \/ \E c \in Calls : ClientRequest(c) \/ ServiceStep(c) \/ ServiceCrash(c)
  <2>1. UNCHANGED <<job, entry, run>>
    BY <1>2 DEF CreateUpload, Put, RecoveryErase, RecoveryMark, RecoveryScan,
       ClientRequest, ServiceStep, ServiceCrash, BeginFinalize, CompleteMultipart,
       AbortMultipart, BeginDelete, Verify, MarkUploaded, PublishUploaded,
       FinalizeFails, Erase, AfterErase, vars, workerVars, callRest, recoveryRest
  <2>2. QED
    BY <1>1, <2>1
<1>3. ASSUME NEW w \in Workers, Consume(w) PROVE WorkerType'
  BY <1>3, EnqueueType DEF Consume
<1>4. CASE RecoveryEnqueue
  BY <1>4, EnqueueType DEF RecoveryEnqueue, recoveryRest
<1>5. ASSUME NEW w \in Workers, NEW r \in Runs, Poll(w, r) PROVE WorkerType'
  <2>1. entry[w] \in Jobs
    BY <1>5 DEF Poll, WorkerType
  <2>2. job[entry[w]].timers \in Nat
    BY <2>1 DEF WorkerType, JobType
  <2>3. QED
    BY <1>5, <2>1, <2>2, BeginType DEF Poll
<1>6. ASSUME NEW j \in Jobs, NEW r \in Runs, RetryTimer(j, r) PROVE WorkerType'
  <2>1. job[j].timers \in Nat /\ job[j].timers > 0
    BY <1>6 DEF RetryTimer, WorkerType, JobType
  <2>2. job[j].timers - 1 \in Nat
    BY <2>1
  <2>3. QED
    BY <1>6, <2>2, BeginType DEF RetryTimer
<1>7. QED
  BY <1>2, <1>3, <1>4, <1>5, <1>6, RunStepType, CrashType DEF Next, RecoveryStep
(* The variables that are not the worker's. *)
RestType ==
  /\ kind \in {"image", "file"} /\ status \in Statuses
  /\ objects \subseteq {"original", "variants"}
  /\ upload \in {"none", "url", "used", "parts", "closed"}
  /\ call \in [Calls -> CallSteps]
  /\ uploaded \in Nat /\ faults \in 0..MaxFaults
  /\ recovery \in [at : RecoverySteps, on : Workers]
  /\ stray \in BOOLEAN /\ stranded \in BOOLEAN

LEMMA RestTypeStep ==
  ASSUME RestType, [Next]_vars
  PROVE  RestType'
<1> USE MediaAssumption DEF RestType
<1>f. Fault => faults' \in 0..MaxFaults
  BY DEF Fault
<1>1. CASE CreateUpload \/ Put \/ UNCHANGED vars
  BY <1>1 DEF CreateUpload, Put, vars, callRest, historyVars, Arrives, Erased, Statuses
<1>2. ASSUME NEW c \in Calls, ClientRequest(c) PROVE RestType'
  BY <1>2 DEF ClientRequest, BeginFinalize, CompleteMultipart, AbortMultipart, BeginDelete,
     callRest, historyVars, Arrives, Erased, Goto, CallSteps
<1>3. ASSUME NEW c \in Calls, ServiceStep(c) \/ ServiceCrash(c) PROVE RestType'
  <2>1. UNCHANGED <<kind, upload, recovery>>
    BY <1>3 DEF ServiceStep, ServiceCrash, Verify, MarkUploaded, PublishUploaded,
       FinalizeFails, Erase, AfterErase, callRest
  <2>2. status' \in Statuses
    BY <1>3 DEF ServiceStep, ServiceCrash, Verify, MarkUploaded, PublishUploaded,
       FinalizeFails, Erase, AfterErase, SetStatus, Statuses
  <2>3. objects' \subseteq {"original", "variants"} /\ stray' \in BOOLEAN
    BY <1>3 DEF ServiceStep, ServiceCrash, Verify, MarkUploaded, PublishUploaded,
       FinalizeFails, Erase, AfterErase, EraseOriginal, historyVars
  <2>4. call' \in [Calls -> CallSteps]
    BY <1>3 DEF ServiceStep, ServiceCrash, Verify, MarkUploaded, PublishUploaded,
       FinalizeFails, Erase, AfterErase, AfterThrow, Goto, CallSteps
  <2>5. faults' \in 0..MaxFaults
    BY <1>3, <1>f DEF ServiceStep, ServiceCrash, Verify, MarkUploaded, PublishUploaded,
       FinalizeFails, Erase, AfterErase
  <2>6. uploaded' \in Nat
    BY <1>3 DEF ServiceStep, ServiceCrash, Verify, MarkUploaded, PublishUploaded,
       FinalizeFails, Erase, AfterErase
  <2>7. stranded' \in BOOLEAN
    BY <1>3 DEF ServiceStep, ServiceCrash, Verify, MarkUploaded, PublishUploaded,
       FinalizeFails, Erase, AfterErase, historyVars
  <2>8. QED
    BY <2>1, <2>2, <2>3, <2>4, <2>5, <2>6, <2>7
<1>4. ASSUME NEW w \in Workers, Consume(w) PROVE RestType'
  <2>1. uploaded \in Nat /\ uploaded > 0 /\ uploaded' = uploaded - 1
    BY <1>4 DEF Consume
  <2>2. uploaded' \in Nat
    BY <2>1
  <2>3. UNCHANGED <<kind, status, objects, upload, call, recovery, faults, stray, stranded>>
    BY <1>4 DEF Consume, runRest, historyVars
  <2>4. QED
    BY <2>2, <2>3
<1>5. ASSUME NEW r \in Runs, NEW j, NEW n, Begin(r, j, n) PROVE RestType'
  BY <1>5 DEF Begin, runRest, historyVars
<1>6. ASSUME NEW r \in Runs, RunStep(r) PROVE RestType'
  <2>1. UNCHANGED <<kind, upload, call, recovery, uploaded, stray>>
    BY <1>6 DEF RunStep, Find, Claim, FileReady, MakeVariants, SaveReady, Announce,
       WorkFails, SaveFailed, TellFailed, stepRest, runRest
  <2>2. status' \in Statuses
    BY <1>6 DEF RunStep, Find, Claim, FileReady, MakeVariants, SaveReady, Announce,
       WorkFails, SaveFailed, TellFailed, SetStatus, Statuses
  <2>3. objects' \subseteq {"original", "variants"} /\ stranded' \in BOOLEAN
    BY <1>6 DEF RunStep, Find, Claim, FileReady, MakeVariants, SaveReady, Announce,
       WorkFails, SaveFailed, TellFailed
  <2>4. faults' \in 0..MaxFaults
    BY <1>6, <1>f DEF RunStep, Find, Claim, FileReady, MakeVariants, SaveReady, Announce,
       WorkFails, SaveFailed, TellFailed
  <2>5. QED
    BY <2>1, <2>2, <2>3, <2>4
<1>7. CASE RecoveryStep \/ \E w \in Workers : RecoveryScan(w)
  <2>1. UNCHANGED <<kind, upload, call, uploaded, stranded>>
    BY <1>7 DEF RecoveryStep, RecoveryScan, RecoveryEnqueue, RecoveryErase, RecoveryMark,
       recoveryRest, historyVars
  <2>2. status' \in Statuses /\ faults' \in 0..MaxFaults
    BY <1>7, <1>f DEF RecoveryStep, RecoveryScan, RecoveryEnqueue, RecoveryErase,
       RecoveryMark, SetStatus, Statuses
  <2>3. objects' \subseteq {"original", "variants"} /\ stray' \in BOOLEAN
    BY <1>7 DEF RecoveryStep, RecoveryScan, RecoveryEnqueue, RecoveryErase, RecoveryMark,
       EraseOriginal, historyVars
  <2>4. recovery' \in [at : RecoverySteps, on : Workers]
    BY <1>7 DEF RecoveryStep, RecoveryScan, RecoveryEnqueue, RecoveryErase, RecoveryMark,
       Recover, RecoverySteps
  <2>5. QED
    BY <2>1, <2>2, <2>3, <2>4
<1>8. ASSUME NEW w \in Workers, WorkerCrash(w) PROVE RestType'
  <2>1. UNCHANGED <<kind, status, objects, upload, call, stray>> /\ stranded' \in BOOLEAN
    BY <1>8 DEF WorkerCrash, rowVars
  <2>2. uploaded' \in Nat
    BY <1>8 DEF WorkerCrash
  <2>3. recovery' \in [at : RecoverySteps, on : Workers]
    BY <1>8 DEF WorkerCrash, RecoverySteps
  <2>4. QED
    BY <1>8, <1>f, <2>1, <2>2, <2>3 DEF WorkerCrash
<1>9. QED
  BY <1>1, <1>2, <1>3, <1>4, <1>5, <1>6, <1>7, <1>8 DEF Next, Poll, RetryTimer

LEMMA MediaTypeStep ==
  ASSUME MediaTypeOK, RunsNamed, [Next]_vars
  PROVE  MediaTypeOK' /\ RunsNamed'
<1>1. recovery.on \in Workers /\ WorkerType /\ RestType
  BY DEF MediaTypeOK, WorkerType, RestType, JobType, RunType
<1>2. WorkerType' /\ RestType'
  BY <1>1, WorkerTypeStep, RestTypeStep
<1>3. QED
  BY <1>2 DEF MediaTypeOK, WorkerType, RestType, JobType, RunType
-----------------------------------------------------------------------------
LEMMA ReadyStep ==
  ASSUME MediaTypeOK, SavedAfterUpload, ReadyIsComplete, [Next]_vars
  PROVE  SavedAfterUpload' /\ ReadyIsComplete'
<1>t. run \in [Runs -> RunType]
  BY DEF MediaTypeOK, RunType
<1>q. ASSUME kind' = kind, "variants" \in objects => "variants" \in objects',
             \A r \in Runs : At(r, "save")' => At(r, "save"),
             status' = "READY" => status = "READY" \/ \E r \in Runs : At(r, "save")
      PROVE  SavedAfterUpload' /\ ReadyIsComplete'
  BY <1>q DEF SavedAfterUpload, ReadyIsComplete
<1>1. CASE CreateUpload \/ Put \/ UNCHANGED vars
  BY <1>1, <1>q DEF CreateUpload, Put, vars, callRest, workerVars, Arrives, At
<1>2. ASSUME NEW c \in Calls, ClientRequest(c) \/ ServiceStep(c) \/ ServiceCrash(c)
      PROVE  SavedAfterUpload' /\ ReadyIsComplete'
  <2>1. kind' = kind /\ run' = run
    BY <1>2 DEF ClientRequest, BeginFinalize, CompleteMultipart, AbortMultipart,
       BeginDelete, ServiceStep, ServiceCrash, Verify, MarkUploaded, PublishUploaded,
       FinalizeFails, Erase, AfterErase, callRest, workerVars
  <2>2. "variants" \in objects => "variants" \in objects'
    BY <1>2 DEF ClientRequest, BeginFinalize, CompleteMultipart, AbortMultipart,
       BeginDelete, ServiceStep, ServiceCrash, Verify, MarkUploaded, PublishUploaded,
       FinalizeFails, Erase, AfterErase, EraseOriginal, Arrives
  <2>3. status' = "READY" => status = "READY"
    BY <1>2 DEF ClientRequest, BeginFinalize, CompleteMultipart, AbortMultipart,
       BeginDelete, ServiceStep, ServiceCrash, Verify, MarkUploaded, PublishUploaded,
       FinalizeFails, Erase, AfterErase, SetStatus
  <2>4. QED
    BY <1>q, <2>1, <2>2, <2>3 DEF At
<1>3. ASSUME NEW w \in Workers, Consume(w)
      PROVE  SavedAfterUpload' /\ ReadyIsComplete'
  BY <1>3, <1>q DEF Consume, runRest, At
<1>4. ASSUME NEW r \in Runs, NEW j, NEW n, Begin(r, j, n)
      PROVE  SavedAfterUpload' /\ ReadyIsComplete'
  <2>1. run' = [run EXCEPT ![r] = [job |-> j, at |-> "find"]]
    BY <1>4 DEF Begin
  <2>2. \A x \in Runs : At(x, "save")' => At(x, "save")
    BY <1>t, <2>1 DEF At
  <2>3. QED
    BY <1>4, <1>q, <2>2 DEF Begin, runRest
<1>5. ASSUME NEW r \in Runs, RunStep(r)
      PROVE  SavedAfterUpload' /\ ReadyIsComplete'
  <2>1. kind' = kind /\ ("variants" \in objects => "variants" \in objects')
    BY <1>5 DEF RunStep, Find, Claim, FileReady, MakeVariants, SaveReady, Announce,
       WorkFails, SaveFailed, TellFailed, stepRest, runRest
  <2>f. FreeRun(r) => \A x \in Runs : At(x, "save")' => At(x, "save")
    BY <1>t DEF FreeRun, At
  <2>n. ASSUME NEW l \in RunSteps, Next_(r, l), l # "save" \/ At(r, "save")
        PROVE  \A x \in Runs : At(x, "save")' => At(x, "save")
    BY <1>t, <2>n DEF Next_, At, RunType
  <2>2. CASE MakeVariants(r)
    <3>1. "variants" \in objects' /\ status' = status
      BY <2>2 DEF MakeVariants
    <3>2. QED
      BY <2>1, <3>1 DEF SavedAfterUpload, ReadyIsComplete
  <2>3. CASE ~MakeVariants(r)
    <3>1. FreeRun(r) \/ \E l \in RunSteps \ {"save"} : Next_(r, l)
      BY <1>5, <2>3 DEF RunStep, Find, Claim, FileReady, SaveReady, Announce, WorkFails,
         SaveFailed, TellFailed, Complete, Throw, EndJob, RunSteps
    <3>2. \A x \in Runs : At(x, "save")' => At(x, "save")
      BY <2>f, <2>n, <3>1
    <3>3. FileReady(r) \/ (status' = "READY" => status = "READY" \/ At(r, "save"))
      BY <1>5, <2>3 DEF RunStep, Find, Claim, SaveReady, Announce, WorkFails,
         SaveFailed, TellFailed, SetStatus
    <3>4. CASE FileReady(r)
      <4>1. kind # "image"
        BY <3>4 DEF FileReady
      <4>2. QED
        BY <2>1, <4>1 DEF SavedAfterUpload, ReadyIsComplete
    <3>5. QED
      BY <1>q, <2>1, <3>2, <3>3, <3>4
  <2>4. QED
    BY <2>2, <2>3
<1>6. CASE RecoveryStep \/ \E w \in Workers : RecoveryScan(w)
  <2>1. kind' = kind /\ run' = run /\ ("variants" \in objects => "variants" \in objects')
    BY <1>6 DEF RecoveryStep, RecoveryScan, RecoveryEnqueue, RecoveryErase, RecoveryMark,
       recoveryRest, EraseOriginal
  <2>2. status' = "READY" => status = "READY"
    BY <1>6 DEF RecoveryStep, RecoveryScan, RecoveryEnqueue, RecoveryErase, RecoveryMark,
       SetStatus
  <2>3. QED
    BY <1>q, <2>1, <2>2 DEF At
<1>7. ASSUME NEW w \in Workers, WorkerCrash(w)
      PROVE  SavedAfterUpload' /\ ReadyIsComplete'
  <2>1. \A x \in Runs : At(x, "save")' => At(x, "save")
    BY <1>7 DEF WorkerCrash, At
  <2>2. QED
    BY <1>7, <1>q, <2>1 DEF WorkerCrash, rowVars
<1>8. QED
  BY <1>1, <1>2, <1>3, <1>4, <1>5, <1>6, <1>7 DEF Next, Poll, RetryTimer

LEMMA ErasedStep ==
  ASSUME MediaTypeOK, AbortedIsOver, ErasedIsGone, [Next]_vars
  PROVE  AbortedIsOver' /\ ErasedIsGone'
<1> USE DEF AbortedIsOver, ErasedIsGone
<1>t. call \in [Calls -> CallSteps]
  BY DEF MediaTypeOK
<1>q. ASSUME UNCHANGED <<upload, call, stray>>, "original" \in objects' => "original" \in objects,
             Erased' => Erased
      PROVE  AbortedIsOver' /\ ErasedIsGone'
  BY <1>q
<1>1. CASE CreateUpload \/ UNCHANGED vars
  BY <1>1 DEF CreateUpload, vars, callRest, historyVars, Erased
<1>2. CASE Put
  <2>1. upload' = "used" /\ upload = "url" /\ stray' = Erased
    BY <1>2 DEF Put, Arrives
  <2>2. UNCHANGED <<status, recovery, call>>
    BY <1>2 DEF Put, callRest
  <2>3. QED
    BY <2>1, <2>2 DEF Erased
<1>3. ASSUME NEW c \in Calls, ClientRequest(c)
      PROVE  AbortedIsOver' /\ ErasedIsGone'
  <2>1. status' = status /\ recovery' = recovery
    BY <1>3 DEF ClientRequest, BeginFinalize, CompleteMultipart, AbortMultipart,
       BeginDelete, callRest
  <2>2. /\ \A b \in Calls \ {c} : call'[b] = call[b]
        /\ call'[c] # "markDeleted"
    BY <1>3, <1>t DEF ClientRequest, BeginFinalize, CompleteMultipart, AbortMultipart,
       BeginDelete, Goto
  <2>3. Erased' => Erased
    BY <2>1, <2>2 DEF Erased
  <2>4. CASE BeginFinalize(c) \/ BeginDelete(c)
    <3>1. call'[c] # "markAborted" /\ UNCHANGED <<objects, upload, stray>>
      BY <1>t, <2>4 DEF BeginFinalize, BeginDelete, Goto, historyVars
    <3>2. QED
      BY <2>2, <2>3, <3>1
  <2>5. CASE CompleteMultipart(c)
    <3>1. /\ upload = "parts" /\ upload' = "closed" /\ stray' = Erased
          /\ call'[c] # "markAborted"
      BY <1>t, <2>5 DEF CompleteMultipart, Arrives, Goto
    <3>2. QED
      BY <2>2, <2>3, <3>1
  <2>6. CASE AbortMultipart(c)
    <3>1. /\ upload' = "closed" /\ objects' = objects
          /\ stray' = (stray \/ "original" \in objects)
      BY <2>6 DEF AbortMultipart
    <3>2. QED
      BY <2>3, <3>1
  <2>7. QED
    BY <1>3, <2>4, <2>5, <2>6 DEF ClientRequest
<1>4. ASSUME NEW c \in Calls, ServiceStep(c) \/ ServiceCrash(c)
      PROVE  AbortedIsOver' /\ ErasedIsGone'
  <2>1. upload' = upload /\ recovery' = recovery
    BY <1>4 DEF ServiceStep, ServiceCrash, Verify, MarkUploaded, PublishUploaded,
       FinalizeFails, Erase, AfterErase, callRest
  <2>2. /\ \A b \in Calls \ {c} : call'[b] = call[b]
        /\ call'[c] # "markAborted"
    BY <1>4, <1>t DEF ServiceStep, ServiceCrash, Verify, MarkUploaded, PublishUploaded,
       FinalizeFails, Erase, AfterErase, AfterThrow, Goto
  <2>3. CASE Erase(c)
    <3>1. CASE EraseOriginal
      BY <2>1, <2>2, <3>1 DEF EraseOriginal
    <3>2. CASE UNCHANGED <<objects, stray>> /\ call'[c] = "markPending" /\ status' = status
      BY <2>1, <2>2, <3>2 DEF Erased
    <3>3. QED
      BY <1>t, <2>3, <3>1, <3>2 DEF Erase, Goto
  <2>4. CASE ~Erase(c)
    <3>1. UNCHANGED <<objects, stray>> /\ call'[c] # "markDeleted"
      BY <1>4, <1>t, <2>4 DEF ServiceStep, ServiceCrash, Verify, MarkUploaded,
         PublishUploaded, FinalizeFails, AfterErase, AfterThrow, Goto,
         historyVars
    <3>2. status' = "DELETED" => \/ status = "DELETED"
                                 \/ call[c] \in {"markDeleted", "markAborted"}
      BY <1>4, <2>4 DEF ServiceStep, ServiceCrash, Verify, MarkUploaded,
         PublishUploaded, FinalizeFails, AfterErase, SetStatus
    <3>3. Erased' => Erased \/ call[c] = "markAborted"
      BY <2>1, <2>2, <3>1, <3>2 DEF Erased
    <3>4. QED
      BY <2>1, <2>2, <3>1, <3>3
  <2>5. QED
    BY <2>3, <2>4
<1>5. ASSUME NEW w \in Workers, Consume(w)
      PROVE  AbortedIsOver' /\ ErasedIsGone'
  BY <1>5, <1>q DEF Consume, runRest, historyVars, Erased
<1>6. ASSUME NEW r \in Runs, NEW j, NEW n, Begin(r, j, n)
      PROVE  AbortedIsOver' /\ ErasedIsGone'
  BY <1>6, <1>q DEF Begin, runRest, historyVars, Erased
<1>7. ASSUME NEW r \in Runs, RunStep(r)
      PROVE  AbortedIsOver' /\ ErasedIsGone'
  <2>1. UNCHANGED <<upload, call, recovery, stray>>
    BY <1>7 DEF RunStep, Find, Claim, FileReady, MakeVariants, SaveReady, Announce,
       WorkFails, SaveFailed, TellFailed, stepRest, runRest
  <2>2. "original" \in objects' => "original" \in objects
    BY <1>7 DEF RunStep, Find, Claim, FileReady, MakeVariants, SaveReady, Announce,
       WorkFails, SaveFailed, TellFailed
  <2>3. status' = "DELETED" => status = "DELETED"
    BY <1>7 DEF RunStep, Find, Claim, FileReady, MakeVariants, SaveReady, Announce,
       WorkFails, SaveFailed, TellFailed, SetStatus
  <2>4. QED
    BY <1>q, <2>1, <2>2, <2>3 DEF Erased
<1>8. CASE RecoveryErase
  <2>1. UNCHANGED <<upload, call, status>>
    BY <1>8 DEF RecoveryErase, recoveryRest
  <2>2. CASE EraseOriginal
    BY <2>1, <2>2 DEF EraseOriginal
  <2>3. CASE UNCHANGED <<objects, stray>> /\ recovery'.at = "idle"
    BY <2>1, <2>3, <1>q DEF Erased
  <2>4. QED
    BY <1>8, <2>2, <2>3 DEF RecoveryErase, Recover, MediaTypeOK
<1>9. CASE RecoveryEnqueue \/ RecoveryMark \/ \E w \in Workers : RecoveryScan(w)
  <2>1. UNCHANGED <<upload, call, objects, stray>>
    BY <1>9 DEF RecoveryScan, RecoveryEnqueue, RecoveryMark, recoveryRest, historyVars
  <2>2. recovery'.at # "mark"
    BY <1>9 DEF RecoveryScan, RecoveryEnqueue, RecoveryMark, Recover, MediaTypeOK
  <2>3. status' = "DELETED" => status = "DELETED" \/ recovery.at = "mark"
    BY <1>9 DEF RecoveryScan, RecoveryEnqueue, RecoveryMark, SetStatus
  <2>4. QED
    BY <1>q, <2>1, <2>2, <2>3 DEF Erased
<1>10. ASSUME NEW w \in Workers, WorkerCrash(w)
       PROVE  AbortedIsOver' /\ ErasedIsGone'
  <2>1. UNCHANGED <<upload, call, objects, status, stray>>
    BY <1>10 DEF WorkerCrash, rowVars
  <2>2. recovery'.at = "mark" => recovery.at = "mark"
    BY <1>10 DEF WorkerCrash, MediaTypeOK
  <2>3. QED
    BY <1>q, <2>1, <2>2 DEF Erased
<1>11. QED
  BY <1>1, <1>2, <1>3, <1>4, <1>5, <1>6, <1>7, <1>8, <1>9, <1>10
     DEF Next, Poll, RetryTimer, RecoveryStep

-----------------------------------------------------------------------------
LEMMA MediaInitial == Init => MediaInv
<1> SUFFICES ASSUME Init
             PROVE  MediaInv
  OBVIOUS
<1> USE MediaAssumption
<1>1. PICK w \in Workers : job = [j \in Jobs |-> NewJob(w)]
  BY DEF Init
<1>2. NewJob(w) \in JobType /\ recovery \in [at : RecoverySteps, on : Workers]
  BY DEF NewJob, JobType, JobStates, Init, RecoverySteps
<1>3. MediaTypeOK /\ RunsNamed
  <2>1. job \in [Jobs -> JobType]
    BY <1>1, <1>2
  <2>2. run \in [Runs -> RunType] /\ entry \in [Workers -> Jobs \cup {NoJob}] /\ RunsNamed
    BY DEF Init, RunType, RunSteps, RunsNamed
  <2>3. call \in [Calls -> CallSteps] /\ faults \in 0..MaxFaults
    BY DEF Init, CallSteps
  <2>4. QED
    BY <1>2, <2>1, <2>2, <2>3 DEF Init, MediaTypeOK, JobType, RunType, Statuses
<1>4. \A r \in Runs : run[r].at = "idle"
  BY DEF Init
<1>5. SavedAfterUpload /\ ReadyIsComplete
  BY <1>4 DEF Init, SavedAfterUpload, ReadyIsComplete, At
<1>6. AbortedIsOver /\ ErasedIsGone
  BY DEF Init, AbortedIsOver, ErasedIsGone
<1>7. QED
  BY <1>3, <1>5, <1>6 DEF MediaInv

LEMMA MediaInvariant == Spec => []MediaInv
<1>1. MediaInv /\ [Next]_vars => MediaInv'
  BY MediaTypeStep, ReadyStep, ErasedStep DEF MediaInv
<1>2. QED
  BY MediaInitial, <1>1, PTL DEF Spec

(* Every variable of the media services keeps its type. *)
THEOREM MediaTypeCorrect == Spec => []MediaTypeOK
<1>1. MediaInv => MediaTypeOK
  BY DEF MediaInv
<1>2. QED
  BY MediaInvariant, <1>1, PTL

(* An image that is READY has its variants, whoever wrote the row last. *)
THEOREM MediaReadyIsComplete == FairSpec => []ReadyIsComplete
<1>1. MediaInv => ReadyIsComplete
  BY DEF MediaInv
<1>2. QED
  BY MediaInvariant, <1>1, PTL DEF FairSpec

(* Media that is DELETED has left no original behind but one that the client *)
(* uploaded after the deletion, or of an upload it aborted when it was done. *)
THEOREM MediaDeletedLeavesNoOriginal == FairSpec => []DeletedLeavesNoOriginal
<1>1. MediaInv => DeletedLeavesNoOriginal
  BY DEF MediaInv, ErasedIsGone, Erased, DeletedLeavesNoOriginal
<1>2. QED
  BY MediaInvariant, <1>1, PTL DEF FairSpec
=============================================================================
