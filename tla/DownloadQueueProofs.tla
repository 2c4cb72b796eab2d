------------------------ MODULE DownloadQueueProofs ------------------------
(***************************************************************************)
(* Theorems about DownloadQueue, for every number of videos, jobs and      *)
(* attempts.                                                               *)
(***************************************************************************)
EXTENDS DownloadQueue, TLAPS

\* A job row that exists names a video; the worker and the scan goroutine,
\* between two steps, hold the job and the video they work on.
Held ==
  /\ \A j \in Jobs : jobState[j] # "none" => jobVideo[j] \in Videos
  /\ pc \in InProcess => cur \in Jobs /\ jobState[cur] # "none"
  /\ scanAt # "idle" => scanned \in Videos

\* What makes the types and the budget inductive. The Boolean variables are
\* kept apart: they need another prover.
TypeInv == JobTypes /\ VideoTypes /\ WorkerTypes /\ AgentTypes /\ BoundTypes /\ BudgetKept /\ Held

USE DEF Jobs, JobStates, Live, Terminal, VideoStates, LedgerStates, PCs, InProcess,
        Outcomes, Answers, Refusals,
        jobVars, videoVars, callVars, flagVars, gateVars, agentVars, scanVars,
        quietVars, boundVars

LEMMA TypeInit == Init => TypeInv
<1> SUFFICES ASSUME Init PROVE TypeInv OBVIOUS
<1> USE ConstantsAssumption DEF Init
<1>1. JobTypes /\ VideoTypes BY DEF JobTypes, VideoTypes
<1>2. WorkerTypes /\ AgentTypes /\ BoundTypes BY DEF WorkerTypes, AgentTypes, BoundTypes
<1>3. BudgetKept /\ Held BY DEF BudgetKept, Held
<1> QED BY <1>1, <1>2, <1>3 DEF TypeInv

\* A new row is typed like the others.
LEMMA InsertTypes ==
  ASSUME TypeInv, NEW v \in Videos, NEW p \in {0, 1}, InsertJob(v, p)
  PROVE  JobTypes'
  BY ConstantsAssumption DEF TypeInv, JobTypes, InsertJob

\* A guarded write that keeps to the states and the budget keeps the types.
LEMMA GuardedTypes ==
  ASSUME TypeInv, cur \in Jobs,
         NEW s \in JobStates, NEW n, Running(cur) => n \in 0..MaxAttempts,
         NEW later \in SUBSET Jobs, NEW next, NEW notRunning,
         Guarded(s, n, later, next, notRunning)
  PROVE  JobTypes'
  BY ConstantsAssumption DEF TypeInv, JobTypes, Guarded, Fault, NoFault, Running

LEMMA TypeWorker == TypeInv /\ (Worker) => TypeInv'
<1> SUFFICES ASSUME TypeInv, Worker PROVE TypeInv' OBVIOUS
<1> USE ConstantsAssumption
  DEF TypeInv, JobTypes, VideoTypes, WorkerTypes, AgentTypes, BoundTypes, BudgetKept,
      Held
<1>1. CASE ResetOrphans
  <2>1. JobTypes' BY <1>1 DEF ResetOrphans, Running, Fault, NoFault
  <2>2. (VideoTypes /\ AgentTypes)' BY <1>1 DEF ResetOrphans, Running, Fault, NoFault
  <2>3. (WorkerTypes /\ BoundTypes)' BY <1>1 DEF ResetOrphans, Running, Fault, NoFault
  <2>4. (BudgetKept /\ Held)' BY <1>1 DEF ResetOrphans, Running, Fault, NoFault
  <2> QED BY <2>1, <2>2, <2>3, <2>4
<1>2. CASE PassGates
  BY <1>2 DEF PassGates
<1>3. CASE ClaimNext
  <2>1. JobTypes' BY <1>3 DEF ClaimNext, Claimable
  <2>2. (VideoTypes /\ AgentTypes)' BY <1>3 DEF ClaimNext, Claimable
  <2>3. (WorkerTypes /\ BoundTypes)' BY <1>3 DEF ClaimNext, Claimable
  <2>4. (BudgetKept /\ Held)' BY <1>3 DEF ClaimNext, Claimable
  <2> QED BY <2>1, <2>2, <2>3, <2>4
<1>4. CASE Register
  BY <1>4 DEF Register
<1>5. CASE ReadVideo
  <2>1. JobTypes' BY <1>5 DEF ReadVideo, Fault, NoFault
  <2>2. (VideoTypes /\ AgentTypes)' BY <1>5 DEF ReadVideo, Fault, NoFault
  <2>3. (WorkerTypes /\ BoundTypes)' BY <1>5 DEF ReadVideo, Fault, NoFault
  <2>4. (BudgetKept /\ Held)' BY <1>5 DEF ReadVideo, Fault, NoFault
  <2> QED BY <2>1, <2>2, <2>3, <2>4
<1>6. CASE CheckPreflight
  BY <1>6 DEF CheckPreflight, Fault, NoFault
<1>7. CASE RequeueSettings
  <2>1. JobTypes' BY <1>7 DEF RequeueSettings, Guarded, Running, Fault, NoFault
  <2>2. (VideoTypes /\ AgentTypes)' BY <1>7 DEF RequeueSettings, Guarded, Running, Fault, NoFault
  <2>3. (WorkerTypes /\ BoundTypes)' BY <1>7 DEF RequeueSettings, Guarded, Running, Fault, NoFault
  <2>4. (BudgetKept /\ Held)' BY <1>7 DEF RequeueSettings, Guarded, Running, Fault, NoFault
  <2> QED BY <2>1, <2>2, <2>3, <2>4
<1>8. CASE MetadataGates
  BY <1>8 DEF MetadataGates, RunnerGates, Interrupted
<1>9. CASE MetadataReturns
  BY <1>9 DEF MetadataReturns, RunnerReturns, Interrupted
<1>10. CASE MetadataSettles
  <2>1. (JobTypes /\ BudgetKept)' BY <1>10 DEF MetadataSettles, Route
  <2>2. VideoTypes' BY <1>10 DEF MetadataSettles, Route
  <2>3. AgentTypes' BY <1>10 DEF MetadataSettles, Route
  <2>4. WorkerTypes' BY <1>10 DEF MetadataSettles, Route
  <2>5. BoundTypes' BY <1>10 DEF MetadataSettles, Route
  <2>6. Held' BY <1>10 DEF MetadataSettles, Route
  <2> QED BY <2>1, <2>2, <2>3, <2>4, <2>5, <2>6
<1>11. CASE SaveMetadata
  <2>1. (JobTypes /\ BudgetKept)' BY <1>11 DEF SaveMetadata, V, Fault, NoFault
  <2>2. VideoTypes'
    <3>1. V \in Videos BY <1>11 DEF SaveMetadata, V
    <3>2. titled' \subseteq Videos /\ had' \subseteq Videos BY <1>11, <3>1 DEF SaveMetadata
    <3>3. status' \in [Videos -> VideoStates] BY <1>11, <3>1 DEF SaveMetadata, SetStatus
    <3>4. UNCHANGED ledger BY <1>11 DEF SaveMetadata
    <3> QED BY <3>2, <3>3, <3>4
  <2>3. AgentTypes' BY <1>11 DEF SaveMetadata, V, Fault, NoFault
  <2>4. WorkerTypes' BY <1>11 DEF SaveMetadata, V, Fault, NoFault
  <2>5. BoundTypes' BY <1>11 DEF SaveMetadata, V, Fault, NoFault
  <2>6. Held' BY <1>11 DEF SaveMetadata, V, Fault, NoFault
  <2> QED BY <2>1, <2>2, <2>3, <2>4, <2>5, <2>6
<1>12. CASE StartDownload
  <2>1. (JobTypes /\ BudgetKept)' BY <1>12 DEF StartDownload, V, SetStatus, Fault, NoFault
  <2>2. VideoTypes' BY <1>12 DEF StartDownload, V, SetStatus, Fault, NoFault
  <2>3. AgentTypes' BY <1>12 DEF StartDownload, V, SetStatus, Fault, NoFault
  <2>4. WorkerTypes' BY <1>12 DEF StartDownload, V, SetStatus, Fault, NoFault
  <2>5. BoundTypes' BY <1>12 DEF StartDownload, V, SetStatus, Fault, NoFault
  <2>6. Held' BY <1>12 DEF StartDownload, V, SetStatus, Fault, NoFault
  <2> QED BY <2>1, <2>2, <2>3, <2>4, <2>5, <2>6
<1>13. CASE DownloadGates
  BY <1>13 DEF DownloadGates, RunnerGates, Interrupted
<1>14. CASE DownloadReturns
  BY <1>14 DEF DownloadReturns, RunnerReturns, Interrupted
<1>15. CASE DownloadSettles
  <2>1. (JobTypes /\ BudgetKept)' BY <1>15 DEF DownloadSettles, Route
  <2>2. VideoTypes' BY <1>15 DEF DownloadSettles, Route
  <2>3. AgentTypes' BY <1>15 DEF DownloadSettles, Route
  <2>4. WorkerTypes' BY <1>15 DEF DownloadSettles, Route
  <2>5. BoundTypes' BY <1>15 DEF DownloadSettles, Route
  <2>6. Held' BY <1>15 DEF DownloadSettles, Route
  <2> QED BY <2>1, <2>2, <2>3, <2>4, <2>5, <2>6
<1>16. CASE CompleteDownload
  <2>1. JobTypes' BY <1>16 DEF CompleteDownload, V, SetStatus, Running, Fault, NoFault
  <2>2. VideoTypes'
    <3>1. V \in Videos BY <1>16 DEF CompleteDownload, V
    <3>2. titled' \subseteq Videos /\ had' \subseteq Videos BY <1>16, <3>1 DEF CompleteDownload
    <3>3. status' \in [Videos -> VideoStates] BY <1>16, <3>1 DEF CompleteDownload, SetStatus
    <3>4. UNCHANGED ledger BY <1>16 DEF CompleteDownload
    <3> QED BY <3>2, <3>3, <3>4
  <2>3. AgentTypes' BY <1>16 DEF CompleteDownload, V, SetStatus, Running, Fault, NoFault
  <2>4. (WorkerTypes /\ BoundTypes)'
    BY <1>16 DEF CompleteDownload, V, SetStatus, Running, Fault, NoFault
  <2>5. BudgetKept' BY <1>16 DEF CompleteDownload, V, SetStatus, Running, Fault, NoFault
  <2>6. Held' BY <1>16 DEF CompleteDownload, V, SetStatus, Running, Fault, NoFault
  <2> QED BY <2>1, <2>2, <2>3, <2>4, <2>5, <2>6
<1>17. CASE Retry
  <2>0. Guarded("pending", attempts[cur] + 1, backoff \cup {cur}, "leave", "settle")
    BY <1>17 DEF Retry
  <2>n. attempts[cur] + 1 \in 0..MaxAttempts BY <1>17 DEF Retry, Exhausted
  <2>c. cur \in Jobs BY <1>17 DEF Retry
  <2>1. JobTypes' BY <2>0, <2>n, <2>c, GuardedTypes
  <2>2. (VideoTypes /\ AgentTypes)' BY <1>17 DEF Retry, Exhausted, Guarded, Running, Fault, NoFault
  <2>3. (WorkerTypes /\ BoundTypes)' BY <1>17 DEF Retry, Exhausted, Guarded, Running, Fault, NoFault
  <2>4. (BudgetKept /\ Held)' BY <1>17 DEF Retry, Exhausted, Guarded, Running, Fault, NoFault
  <2> QED BY <2>1, <2>2, <2>3, <2>4
<1>18. CASE RetryExhausted
  <2>0. Guarded("failed", attempts[cur] + 1, backoff, "markErr", "settle")
    BY <1>18 DEF RetryExhausted
  <2>n. Running(cur) => attempts[cur] + 1 \in 0..MaxAttempts
    BY <1>18 DEF RetryExhausted, Running
  <2>c. cur \in Jobs BY <1>18 DEF RetryExhausted
  <2>1. JobTypes' BY <2>0, <2>n, <2>c, GuardedTypes
  <2>2. (VideoTypes /\ AgentTypes)'
    BY <1>18 DEF RetryExhausted, Exhausted, Guarded, Running, Fault, NoFault
  <2>3. (WorkerTypes /\ BoundTypes)'
    BY <1>18 DEF RetryExhausted, Exhausted, Guarded, Running, Fault, NoFault
  <2>4. (BudgetKept /\ Held)'
    BY <1>18 DEF RetryExhausted, Exhausted, Guarded, Running, Fault, NoFault
  <2> QED BY <2>1, <2>2, <2>3, <2>4
<1>19. CASE Fail
  <2>1. JobTypes' BY <1>19 DEF Fail, Guarded, Running, Fault, NoFault
  <2>2. (VideoTypes /\ AgentTypes)' BY <1>19 DEF Fail, Guarded, Running, Fault, NoFault
  <2>3. (WorkerTypes /\ BoundTypes)' BY <1>19 DEF Fail, Guarded, Running, Fault, NoFault
  <2>4. (BudgetKept /\ Held)' BY <1>19 DEF Fail, Guarded, Running, Fault, NoFault
  <2> QED BY <2>1, <2>2, <2>3, <2>4
<1>20. CASE ParkLookup
  BY <1>20 DEF ParkLookup, Fault, NoFault
<1>21. CASE ParkWrite
  <2>1. JobTypes' BY <1>21 DEF ParkWrite, V, Fault, NoFault
  <2>2. (VideoTypes /\ AgentTypes)' BY <1>21 DEF ParkWrite, V, Fault, NoFault
  <2>3. (WorkerTypes /\ BoundTypes)' BY <1>21 DEF ParkWrite, V, Fault, NoFault
  <2>4. (BudgetKept /\ Held)' BY <1>21 DEF ParkWrite, V, Fault, NoFault
  <2> QED BY <2>1, <2>2, <2>3, <2>4
<1>22. CASE ParkDiscard
  <2>1. JobTypes'
    <3>1. CASE DropRows({V}) /\ NoFault BY <3>1 DEF DropRows
    <3>2. CASE UNCHANGED jobVars BY <3>2
    <3> QED BY <1>22, <3>1, <3>2 DEF ParkDiscard
  <2>2. (VideoTypes /\ AgentTypes)' BY <1>22 DEF ParkDiscard, V, DropRows, Fault, NoFault
  <2>3. (WorkerTypes /\ BoundTypes)' BY <1>22 DEF ParkDiscard, V, DropRows, Fault, NoFault
  <2>4. (BudgetKept /\ Held)' BY <1>22 DEF ParkDiscard, V, DropRows, Fault, NoFault
  <2> QED BY <2>1, <2>2, <2>3, <2>4
<1>23. CASE MarkError
  <2>1. (JobTypes /\ BudgetKept)' BY <1>23 DEF MarkError, V, SetStatus, Fault, NoFault
  <2>2. VideoTypes' BY <1>23 DEF MarkError, V, SetStatus, Fault, NoFault
  <2>3. AgentTypes' BY <1>23 DEF MarkError, V, SetStatus, Fault, NoFault
  <2>4. WorkerTypes' BY <1>23 DEF MarkError, V, SetStatus, Fault, NoFault
  <2>5. BoundTypes' BY <1>23 DEF MarkError, V, SetStatus, Fault, NoFault
  <2>6. Held' BY <1>23 DEF MarkError, V, SetStatus, Fault, NoFault
  <2> QED BY <2>1, <2>2, <2>3, <2>4, <2>5, <2>6
<1>24. CASE PauseCookie
  BY <1>24 DEF PauseCookie, Fault, NoFault
<1>25. CASE PauseFlag
  BY <1>25 DEF PauseFlag
<1>26. CASE PauseBump
  <2>1. JobTypes' BY <1>26 DEF PauseBump, Guarded, Running, Fault, NoFault
  <2>2. (VideoTypes /\ AgentTypes)' BY <1>26 DEF PauseBump, Guarded, Running, Fault, NoFault
  <2>3. (WorkerTypes /\ BoundTypes)' BY <1>26 DEF PauseBump, Guarded, Running, Fault, NoFault
  <2>4. (BudgetKept /\ Held)' BY <1>26 DEF PauseBump, Guarded, Running, Fault, NoFault
  <2> QED BY <2>1, <2>2, <2>3, <2>4
<1>27. CASE SettleJob
  BY <1>27 DEF SettleJob, Fault, NoFault
<1>28. CASE SettleVideo
  <2>1. (JobTypes /\ BudgetKept)' BY <1>28 DEF SettleVideo, V, SetStatus, Fault, NoFault
  <2>2. VideoTypes' BY <1>28 DEF SettleVideo, V, SetStatus, Fault, NoFault
  <2>3. AgentTypes' BY <1>28 DEF SettleVideo, V, SetStatus, Fault, NoFault
  <2>4. WorkerTypes' BY <1>28 DEF SettleVideo, V, SetStatus, Fault, NoFault
  <2>5. BoundTypes' BY <1>28 DEF SettleVideo, V, SetStatus, Fault, NoFault
  <2>6. Held' BY <1>28 DEF SettleVideo, V, SetStatus, Fault, NoFault
  <2> QED BY <2>1, <2>2, <2>3, <2>4, <2>5, <2>6
<1>29. CASE Leave
  BY <1>29 DEF Leave
<1>30. CASE Stop
  BY <1>30 DEF Stop, Dies
<1> QED
  BY <1>1, <1>2, <1>3, <1>4, <1>5, <1>6, <1>7, <1>8, <1>9, <1>10, <1>11, <1>12, <1>13, <1>14,
    <1>15, <1>16, <1>17, <1>18, <1>19, <1>20, <1>21, <1>22, <1>23, <1>24, <1>25, <1>26, <1>27,
    <1>28, <1>29, <1>30 DEF Worker

LEMMA TypeHandlers == TypeInv /\ (Handlers) => TypeInv'
<1> SUFFICES ASSUME TypeInv, Handlers PROVE TypeInv' OBVIOUS
<1> USE ConstantsAssumption
  DEF TypeInv, JobTypes, VideoTypes, WorkerTypes, AgentTypes, BoundTypes, BudgetKept,
      Held
<1>1. ASSUME NEW v \in Videos, AddByURL(v) \/ Approve(v) \/ Redownload(v) PROVE TypeInv'
  <2>1. PICK d \in Decisions : Decide(v, d)
    BY <1>1 DEF AddByURL, Approve, Redownload, Decisions
  <2> QED BY <2>1 DEF Decide
<1>2. ASSUME NEW v \in Videos, EnqueueNew(v) \/ EnqueueKnown(v) PROVE TypeInv'
  <2>1. JobTypes'
    <3>1. CASE EnqueueDownload(v) BY <3>1, InsertTypes DEF EnqueueDownload
    <3>2. CASE UNCHANGED jobVars BY <3>2
    <3> QED BY <1>2, <3>1, <3>2 DEF EnqueueNew, EnqueueKnown
  <2>2. VideoTypes' BY <1>2 DEF EnqueueNew, EnqueueKnown, EnqueueDownload, InsertJob
  <2>3. AgentTypes' BY <1>2 DEF EnqueueNew, EnqueueKnown, Decided
  <2>4. (WorkerTypes /\ BoundTypes)' BY <1>2 DEF EnqueueNew, EnqueueKnown
  <2>5. (BudgetKept /\ Held)'
    <3>0. UNCHANGED <<pc, cur, scanVars>> BY <1>2 DEF EnqueueNew, EnqueueKnown
    <3>1. CASE EnqueueDownload(v) BY <3>0, <3>1 DEF EnqueueDownload, InsertJob
    <3>2. CASE UNCHANGED jobVars BY <3>0, <3>2
    <3> QED BY <1>2, <3>1, <3>2 DEF EnqueueNew, EnqueueKnown
  <2> QED BY <2>1, <2>2, <2>3, <2>4, <2>5
<1>3. ASSUME NEW v \in Videos, SettleEntry(v) PROVE TypeInv'
  BY <1>3 DEF SettleEntry, Decided
<1>4. ASSUME NEW v \in Videos, DeleteVideo(v) PROVE TypeInv'
    <2>1. CASE DropRows({v}) /\ UNCHANGED <<pc, callVars, flagVars, gateVars, agentVars,
             boundVars, acked>>
    <3>1. JobTypes' BY <2>1 DEF DropRows
    <3>2. VideoTypes'
      <4>1. status' \in [Videos -> VideoStates] BY <2>1 DEF DropRows
      <4>2. titled' \subseteq Videos /\ had' \subseteq Videos BY <2>1 DEF DropRows
      <4>3. ledger' \in [Videos -> LedgerStates] BY <1>4 DEF DeleteVideo
      <4> QED BY <4>1, <4>2, <4>3
    <3>3. (AgentTypes /\ WorkerTypes /\ BoundTypes)' BY <2>1
    <3>4. (BudgetKept /\ Held)' BY <2>1 DEF DropRows
    <3> QED BY <3>1, <3>2, <3>3, <3>4
    <2>2. CASE UNCHANGED <<jobVars, titled, had, ledger>> /\ status' = [status EXCEPT ![v] =
             "tombstoned"]
    <3>1. (JobTypes /\ VideoTypes /\ BudgetKept)' BY <2>2
    <3>2. (AgentTypes /\ WorkerTypes /\ BoundTypes /\ Held)' BY <1>4, <2>2 DEF DeleteVideo
    <3> QED BY <3>1, <3>2
  <2> QED BY <1>4, <2>1, <2>2 DEF DeleteVideo
<1>5. ASSUME NEW j \in Jobs, CancelDownload(j) PROVE TypeInv'
  <2>1. JobTypes' BY <1>5 DEF CancelDownload, CancelJob
  <2>2. (VideoTypes /\ AgentTypes)' BY <1>5 DEF CancelDownload, CancelJob
  <2>3. (WorkerTypes /\ BoundTypes)' BY <1>5 DEF CancelDownload, CancelJob
  <2>4. (BudgetKept /\ Held)' BY <1>5 DEF CancelDownload, CancelJob
  <2> QED BY <2>1, <2>2, <2>3, <2>4
<1>6. ASSUME NEW j \in Jobs, DeleteChannelCancel(j) PROVE TypeInv'
  <2>1. JobTypes' BY <1>6 DEF DeleteChannelCancel, CancelJob
  <2>2. (VideoTypes /\ AgentTypes)' BY <1>6 DEF DeleteChannelCancel, CancelJob
  <2>3. (WorkerTypes /\ BoundTypes)' BY <1>6 DEF DeleteChannelCancel, CancelJob
  <2>4. (BudgetKept /\ Held)' BY <1>6 DEF DeleteChannelCancel, CancelJob
  <2> QED BY <2>1, <2>2, <2>3, <2>4
<1>7. CASE DeleteChannelBegin
  BY <1>7 DEF DeleteChannelBegin
<1>8. CASE DeleteChannelRows
  BY <1>8 DEF DeleteChannelRows, DropRows
<1>9. CASE PasteCookie
  BY <1>9 DEF PasteCookie
<1>10. CASE Resume
  BY <1>10 DEF Resume
<1>11. CASE ToggleYoutubePause
  BY <1>11 DEF ToggleYoutubePause
<1> QED
  BY <1>1, <1>2, <1>3, <1>4, <1>5, <1>6, <1>7, <1>8, <1>9, <1>10, <1>11 DEF Handlers

LEMMA TypeRest == TypeInv /\ (Clock \/ Scan \/ Process) => TypeInv'
<1> SUFFICES ASSUME TypeInv, Clock \/ Scan \/ Process PROVE TypeInv' OBVIOUS
<1> USE ConstantsAssumption
  DEF TypeInv, JobTypes, VideoTypes, WorkerTypes, AgentTypes, BoundTypes, BudgetKept,
      Held
<1>1. CASE ScanFlagsCookie
  BY <1>1 DEF ScanFlagsCookie
<1>2. ASSUME NEW v \in Videos, ScanRevives(v) PROVE TypeInv'
  BY <1>2 DEF ScanRevives
<1>3. ASSUME NEW v \in Videos, ScanAuto(v) PROVE TypeInv'
  <2>1. JobTypes'
    <3>1. CASE InsertJob(v, 0) BY <3>1, InsertTypes
    <3>2. CASE UNCHANGED jobVars BY <3>2
    <3> QED
      BY <1>3, <3>1, <3>2 DEF ScanAuto, ScanUpsert, ScanSetQueued, ScanEnqueue, ScanRecord,
        ScanFails
  <2>2. VideoTypes' BY <1>3 DEF ScanAuto, ScanUpsert, ScanSetQueued, ScanEnqueue, ScanRecord,
  ScanFails, InsertJob, SetStatus, ScanStep, Fault, NoFault
  <2>3. AgentTypes' BY <1>3 DEF ScanAuto, ScanUpsert, ScanSetQueued, ScanEnqueue, ScanRecord,
  ScanFails, InsertJob, SetStatus, ScanStep, Fault, NoFault
  <2>4. (WorkerTypes /\ BoundTypes)'
    BY <1>3 DEF ScanAuto, ScanUpsert, ScanSetQueued, ScanEnqueue, ScanRecord, ScanFails,
        InsertJob, SetStatus, ScanStep, Fault, NoFault
  <2>5. BudgetKept' BY <1>3 DEF ScanAuto, ScanUpsert, ScanSetQueued, ScanEnqueue, ScanRecord,
  ScanFails, InsertJob, SetStatus, ScanStep, Fault, NoFault
  <2>6. Held' BY <1>3 DEF ScanAuto, ScanUpsert, ScanSetQueued, ScanEnqueue, ScanRecord, ScanFails,
  InsertJob, SetStatus, ScanStep, Fault, NoFault
  <2> QED BY <2>1, <2>2, <2>3, <2>4, <2>5, <2>6
<1>4. CASE Shutdown
  BY <1>4 DEF Shutdown
<1>5. CASE Crash
  <2>1. JobTypes' BY <1>5 DEF Crash, Dies, Up
  <2>2. (VideoTypes /\ AgentTypes)' BY <1>5 DEF Crash, Dies, Up
  <2>3. (WorkerTypes /\ BoundTypes)' BY <1>5 DEF Crash, Dies, Up
  <2>4. (BudgetKept /\ Held)' BY <1>5 DEF Crash, Dies, Up
  <2> QED BY <2>1, <2>2, <2>3, <2>4
<1>6. CASE Boot
  BY <1>6 DEF Boot
<1>7. CASE Panic
  BY <1>7 DEF Panic, InProcess
<1>8. CASE CoolOffEnds
  BY <1>8 DEF CoolOffEnds
<1>9. ASSUME NEW j \in Jobs, BackoffElapses(j) PROVE TypeInv'
  BY <1>9 DEF BackoffElapses
<1> QED
  BY <1>1, <1>2, <1>3, <1>4, <1>5, <1>6, <1>7, <1>8, <1>9 DEF Clock, Scan, Process

LEMMA TypeStep == TypeInv /\ [Next]_vars => TypeInv'
<1> SUFFICES ASSUME TypeInv, [Next]_vars PROVE TypeInv' OBVIOUS
<1>1. CASE Worker BY <1>1, TypeWorker
<1>2. CASE Handlers BY <1>2, TypeHandlers
<1>3. CASE Clock \/ Scan \/ Process BY <1>3, TypeRest
<1>4. CASE UNCHANGED vars
  BY <1>4 DEF vars, TypeInv, JobTypes, VideoTypes, WorkerTypes, AgentTypes, BoundTypes,
    BudgetKept, Held
<1> QED BY <1>1, <1>2, <1>3, <1>4 DEF Next

\* The flags stay Boolean: the steps that write one write a Boolean, and all
\* other steps leave the flags alone.
Flags == <<cancelReq, paused, cooling, ytPaused, paste, stopping>>

LEMMA FlagStep == FlagTypes /\ [Next]_vars => FlagTypes'
<1> SUFFICES ASSUME FlagTypes, [Next]_vars PROVE FlagTypes' OBVIOUS
<1>0. CASE UNCHANGED Flags BY <1>0 DEF Flags, FlagTypes
<1>1. CASE Worker
  <2>1. CASE Register BY <2>1 DEF Register, FlagTypes
  <2>2. CASE Retry BY <2>2 DEF Retry, FlagTypes
  <2>3. CASE PauseFlag BY <2>3 DEF PauseFlag, FlagTypes
  <2>4. CASE DownloadSettles BY <2>4 DEF DownloadSettles, FlagTypes
  <2>5. CASE Stop BY <2>5 DEF Stop, Dies, FlagTypes
    <2>6. CASE ResetOrphans \/ PassGates \/ ClaimNext \/ ReadVideo \/ CheckPreflight \/
             RequeueSettings \/ MetadataGates \/ MetadataReturns \/ MetadataSettles \/
             SaveMetadata \/ StartDownload \/ DownloadGates \/ DownloadReturns
    BY <1>0, <2>6 DEF Flags, RunnerGates, RunnerReturns,
       ResetOrphans, PassGates, ClaimNext, ReadVideo, CheckPreflight, RequeueSettings,
       MetadataGates, MetadataReturns, MetadataSettles, SaveMetadata, StartDownload,
       DownloadGates, DownloadReturns
    <2>7. CASE CompleteDownload \/ RetryExhausted \/ Fail \/ ParkLookup \/ ParkWrite \/
             ParkDiscard \/ MarkError \/ PauseCookie \/ PauseBump \/ SettleJob \/
             SettleVideo \/ Leave
    BY <1>0, <2>7 DEF Flags, RunnerGates, RunnerReturns,
       CompleteDownload, RetryExhausted, Fail, ParkLookup, ParkWrite, ParkDiscard, MarkError,
       PauseCookie, PauseBump, SettleJob, SettleVideo, Leave
  <2> QED BY <1>1, <2>1, <2>2, <2>3, <2>4, <2>5, <2>6, <2>7 DEF Worker
<1>2. CASE Clock
  BY <1>2, <1>0 DEF Clock, CoolOffEnds, BackoffElapses, Flags, FlagTypes
<1>3. CASE Handlers
  <2>1. ASSUME NEW j \in Jobs, CancelDownload(j) \/ DeleteChannelCancel(j) PROVE FlagTypes'
    BY <2>1 DEF CancelDownload, DeleteChannelCancel, CancelJob, FlagTypes
  <2>2. CASE PasteCookie BY <2>2 DEF PasteCookie, FlagTypes
  <2>3. CASE Resume BY <2>3 DEF Resume, FlagTypes
  <2>4. CASE ToggleYoutubePause BY <2>4 DEF ToggleYoutubePause, FlagTypes
  <2>5. CASE DeleteChannelBegin \/ DeleteChannelRows
    BY <1>0, <2>5 DEF DeleteChannelBegin, DeleteChannelRows, Flags
  <2>6. ASSUME NEW v \in Videos, AddByURL(v) \/ Approve(v) \/ Redownload(v) \/ DeleteVideo(v)
        PROVE  FlagTypes'
    BY <1>0, <2>6 DEF AddByURL, Approve, Redownload, Decide, DeleteVideo, Flags
  <2>7. ASSUME NEW v \in Videos, EnqueueNew(v) \/ EnqueueKnown(v) \/ SettleEntry(v)
        PROVE  FlagTypes'
    BY <1>0, <2>7 DEF EnqueueNew, EnqueueKnown, SettleEntry, Flags
  <2> QED BY <1>3, <2>1, <2>2, <2>3, <2>4, <2>5, <2>6, <2>7 DEF Handlers
<1>4. CASE Scan
  BY <1>0, <1>4 DEF Scan, ScanFlagsCookie, ScanRevives, ScanAuto, Flags
<1>5. CASE Process
  <2>1. CASE Shutdown BY <2>1 DEF Shutdown, FlagTypes
  <2>2. CASE Crash BY <2>2 DEF Crash, Dies, FlagTypes
  <2>3. CASE Boot \/ Panic BY <1>0, <2>3 DEF Boot, Panic, Flags
  <2> QED BY <1>5, <2>1, <2>2, <2>3 DEF Process
<1>6. CASE UNCHANGED vars BY <1>0, <1>6 DEF vars, Flags
<1> QED BY <1>1, <1>2, <1>3, <1>4, <1>5, <1>6 DEF Next

\* Every variable keeps its type, and a job that can still run has attempts
\* left, however many faults, panics, crashes and shutdowns there are.
THEOREM TypeCorrect == Spec => [](TypeOK /\ BudgetKept)
<1>1. Init => FlagTypes BY DEF Init, FlagTypes
<1>2. TypeInv /\ FlagTypes => TypeOK /\ BudgetKept BY DEF TypeInv, TypeOK
<1> QED BY <1>1, <1>2, TypeInit, TypeStep, FlagStep, PTL DEF Spec

\* What makes the single lane inductive when no database call fails and
\* nothing panics: a job runs only while the worker is at it, except that a
\* worker that is shutting down may leave it running for the next boot.
Lane ==
  /\ AtMostOneRunning
  /\ pc = "claim" => \A j \in Jobs : ~Running(j)
  /\ pc \in {"loop", "leave"} /\ ~stopping => \A j \in Jobs : ~Running(j)
  /\ pc \in InProcess => \A j \in Jobs : Running(j) => j = cur
  /\ pc \in {"park", "parkWrite", "discard", "markErr", "settleVideo"} => ~Running(cur)

LaneInv == TypeInv /\ Lane

LEMMA LaneInit == Init => Lane
  BY DEF Init, Lane, AtMostOneRunning, Running

LEMMA LaneWorker ==
  ASSUME MaxFaults = 0, MaxPanics = 0, TypeInv, Lane, Worker
  PROVE  Lane'
<1> USE ConstantsAssumption
  DEF TypeInv, JobTypes, WorkerTypes, BoundTypes, Held, Lane, AtMostOneRunning, Running
<1>1. CASE ResetOrphans
  BY <1>1 DEF ResetOrphans, Fault, NoFault
<1>2. CASE PassGates
  BY <1>2 DEF PassGates
<1>3. CASE ClaimNext
  BY <1>3 DEF ClaimNext, Claimable
<1>4. CASE Register
  BY <1>4 DEF Register
<1>5. CASE ReadVideo
  BY <1>5 DEF ReadVideo, Fault, NoFault
<1>6. CASE CheckPreflight
  BY <1>6 DEF CheckPreflight, Fault, NoFault
<1>7. CASE RequeueSettings
  BY <1>7 DEF RequeueSettings, Guarded, Fault, NoFault
<1>8. CASE MetadataGates
  BY <1>8 DEF MetadataGates, RunnerGates, Interrupted
<1>9. CASE MetadataReturns
  BY <1>9 DEF MetadataReturns, RunnerReturns, Interrupted
<1>10. CASE MetadataSettles
  BY <1>10 DEF MetadataSettles, Route
<1>11. CASE SaveMetadata
  BY <1>11 DEF SaveMetadata, V, Fault, NoFault
<1>12. CASE StartDownload
  BY <1>12 DEF StartDownload, V, SetStatus, Fault, NoFault
<1>13. CASE DownloadGates
  BY <1>13 DEF DownloadGates, RunnerGates, Interrupted
<1>14. CASE DownloadReturns
  BY <1>14 DEF DownloadReturns, RunnerReturns, Interrupted
<1>15. CASE DownloadSettles
  BY <1>15 DEF DownloadSettles, Route
<1>16. CASE CompleteDownload
  BY <1>16 DEF CompleteDownload, V, SetStatus, Fault, NoFault
<1>17. CASE Retry
  <2>1. CASE /\ Running(cur) /\ pc' = "leave"
             /\ jobState' = [jobState EXCEPT ![cur] = "pending"]
    BY <1>17, <2>1 DEF Retry
  <2>2. CASE /\ ~Running(cur) /\ pc' = "settle" /\ UNCHANGED jobVars
    BY <1>17, <2>2 DEF Retry
  <2> QED BY <1>17, <2>1, <2>2 DEF Retry, Guarded, Fault
<1>18. CASE RetryExhausted
  BY <1>18 DEF RetryExhausted, Exhausted, Guarded, Fault, NoFault
<1>19. CASE Fail
  BY <1>19 DEF Fail, Guarded, Fault, NoFault
<1>20. CASE ParkLookup
  BY <1>20 DEF ParkLookup, Fault, NoFault
<1>21. CASE ParkWrite
  BY <1>21 DEF ParkWrite, V, Fault, NoFault
<1>22. CASE ParkDiscard
  BY <1>22 DEF ParkDiscard, V, DropRows, Fault, NoFault
<1>23. CASE MarkError
  BY <1>23 DEF MarkError, V, SetStatus, Fault, NoFault
<1>24. CASE PauseCookie
  BY <1>24 DEF PauseCookie, Fault, NoFault
<1>25. CASE PauseFlag
  BY <1>25 DEF PauseFlag
<1>26. CASE PauseBump
  <2>1. CASE /\ Running(cur) /\ pc' = "leave"
             /\ jobState' = [jobState EXCEPT ![cur] = "pending"]
    BY <1>26, <2>1 DEF PauseBump
  <2>2. CASE /\ ~Running(cur) /\ pc' = "leave" /\ UNCHANGED jobVars
    BY <1>26, <2>2 DEF PauseBump
  <2> QED BY <1>26, <2>1, <2>2 DEF PauseBump, Guarded, Fault
<1>27. CASE SettleJob
  BY <1>27 DEF SettleJob, Fault, NoFault
<1>28. CASE SettleVideo
  BY <1>28 DEF SettleVideo, V, SetStatus, Fault, NoFault
<1>29. CASE Leave
  BY <1>29 DEF Leave
<1>30. CASE Stop
  BY <1>30 DEF Stop, Dies
<1> QED
  BY <1>1, <1>2, <1>3, <1>4, <1>5, <1>6, <1>7, <1>8, <1>9, <1>10, <1>11, <1>12, <1>13, <1>14,
    <1>15, <1>16, <1>17, <1>18, <1>19, <1>20, <1>21, <1>22, <1>23, <1>24, <1>25, <1>26, <1>27,
    <1>28, <1>29, <1>30 DEF Worker

LEMMA LaneHandlers ==
  ASSUME MaxFaults = 0, MaxPanics = 0, TypeInv, Lane, Handlers
  PROVE  Lane'
<1> USE ConstantsAssumption
  DEF TypeInv, JobTypes, WorkerTypes, BoundTypes, Held, Lane, AtMostOneRunning, Running
<1>1. ASSUME NEW v \in Videos, AddByURL(v) \/ Approve(v) \/ Redownload(v) PROVE Lane'
  BY <1>1 DEF AddByURL, Approve, Redownload, Decide
<1>2. ASSUME NEW v \in Videos, EnqueueNew(v) \/ EnqueueKnown(v) PROVE Lane'
  <2>1. UNCHANGED <<pc, cur, stopping>> BY <1>2 DEF EnqueueNew, EnqueueKnown
  <2>2. \A j \in Jobs : Running(j)' => Running(j)
    <3>1. CASE EnqueueDownload(v) BY <3>1 DEF EnqueueDownload, InsertJob
    <3>2. CASE UNCHANGED jobVars BY <3>2
    <3> QED BY <1>2, <3>1, <3>2 DEF EnqueueNew, EnqueueKnown
  <2> QED BY <2>1, <2>2
<1>3. ASSUME NEW v \in Videos, SettleEntry(v) PROVE Lane'
  BY <1>3 DEF SettleEntry
<1>4. ASSUME NEW v \in Videos, DeleteVideo(v) PROVE Lane'
  BY <1>4 DEF DeleteVideo, DropRows
<1>5. ASSUME NEW j \in Jobs, CancelDownload(j) PROVE Lane'
  BY <1>5 DEF CancelDownload, CancelJob
<1>6. ASSUME NEW j \in Jobs, DeleteChannelCancel(j) PROVE Lane'
  BY <1>6 DEF DeleteChannelCancel, CancelJob
<1>7. CASE DeleteChannelBegin
  BY <1>7 DEF DeleteChannelBegin
<1>8. CASE DeleteChannelRows
  BY <1>8 DEF DeleteChannelRows, DropRows
<1>9. CASE PasteCookie
  BY <1>9 DEF PasteCookie
<1>10. CASE Resume
  BY <1>10 DEF Resume
<1>11. CASE ToggleYoutubePause
  BY <1>11 DEF ToggleYoutubePause
<1> QED
  BY <1>1, <1>2, <1>3, <1>4, <1>5, <1>6, <1>7, <1>8, <1>9, <1>10, <1>11 DEF Handlers

LEMMA LaneRest ==
  ASSUME MaxFaults = 0, MaxPanics = 0, TypeInv, Lane, Clock \/ Scan \/ Process
  PROVE  Lane'
<1> USE ConstantsAssumption
  DEF TypeInv, JobTypes, WorkerTypes, BoundTypes, Held, Lane, AtMostOneRunning, Running
<1>1. CASE ScanFlagsCookie
  BY <1>1 DEF ScanFlagsCookie
<1>2. ASSUME NEW v \in Videos, ScanRevives(v) PROVE Lane'
  BY <1>2 DEF ScanRevives
<1>3. ASSUME NEW v \in Videos, ScanAuto(v) PROVE Lane'
  <2>1. UNCHANGED <<pc, cur, stopping>> BY <1>3 DEF ScanAuto
  <2>2. \A j \in Jobs : Running(j)' => Running(j)
    <3>1. CASE InsertJob(v, 0) BY <3>1 DEF InsertJob
    <3>2. CASE UNCHANGED jobVars BY <3>2
    <3> QED
      BY <1>3, <3>1, <3>2 DEF ScanAuto, ScanUpsert, ScanSetQueued, ScanEnqueue, ScanRecord,
        ScanFails
  <2> QED BY <2>1, <2>2
<1>4. CASE Shutdown
  BY <1>4 DEF Shutdown
<1>5. CASE Crash
  BY <1>5 DEF Crash, Dies, Up
<1>6. CASE Boot
  BY <1>6 DEF Boot
<1>7. CASE Panic
  BY <1>7 DEF Panic, InProcess
<1>8. CASE CoolOffEnds
  BY <1>8 DEF CoolOffEnds
<1>9. ASSUME NEW j \in Jobs, BackoffElapses(j) PROVE Lane'
  BY <1>9 DEF BackoffElapses
<1> QED
  BY <1>1, <1>2, <1>3, <1>4, <1>5, <1>6, <1>7, <1>8, <1>9 DEF Clock, Scan, Process

LEMMA LaneAlways ==
  ASSUME MaxFaults = 0, MaxPanics = 0
  PROVE  Spec => []LaneInv
<1>1. LaneInv /\ [Next]_vars => LaneInv'
  <2> SUFFICES ASSUME LaneInv, [Next]_vars PROVE LaneInv' OBVIOUS
  <2>0. SUFFICES Lane' BY TypeStep DEF LaneInv
  <2>1. CASE Worker BY <2>1, LaneWorker DEF LaneInv
  <2>2. CASE Handlers BY <2>2, LaneHandlers DEF LaneInv
  <2>3. CASE Clock \/ Scan \/ Process BY <2>3, LaneRest DEF LaneInv
  <2>4. CASE UNCHANGED vars BY <2>4 DEF LaneInv, vars, Lane, AtMostOneRunning, Running
  <2> QED BY <2>1, <2>2, <2>3, <2>4 DEF Next
<1>2. Init => LaneInv BY TypeInit, LaneInit DEF LaneInv
<1> QED BY <1>1, <1>2, PTL DEF Spec

\* jobs/state.go: at most one row is running, whatever crashes, shutdowns,
\* cancels and deletes do, as long as no database call fails and nothing
\* panics.
THEOREM SingleLane ==
  ASSUME MaxFaults = 0, MaxPanics = 0
  PROVE  Spec => []AtMostOneRunning
<1>1. LaneInv => AtMostOneRunning BY DEF LaneInv, Lane
<1> QED BY <1>1, LaneAlways, PTL

----------------------------------------------------------------------------
(* Cancels: what holds of the job in hand, whatever fails *)

\* Where the registration Register made stands, from the read of the row to
\* the critical section after the download.
Registered == {"read", "check", "meta", "metaRun", "metaRet", "save", "start",
               "media", "mediaRun", "mediaRet"}

\* Where no terminal write of the job has been tried yet.
Undecided == Registered \cup {"claimed", "settingsErr", "complete", "retry", "fail",
                              "pauseCookie", "pauseFlag", "pauseBump", "requeue"}

\* A row of download_jobs has its videos row: the cascade drops the one with
\* the other.
JobHasRow ==
  \A j \in Jobs : jobState[j] \notin {"none", "gone"} => status[jobVideo[j]] # "none"

\* The job the worker has is never back in the queue before the worker has
\* decided about it; what is registered is that job.
JobInHand ==
  /\ pc \in Undecided => jobState[cur] \in {"running", "canceled", "gone"}
  /\ pc \in Registered => reg = cur
  /\ reg # 0 => reg = cur /\ pc \in InProcess \ {"claimed"}

\* A raised flag was answered with true, and the worker settles a cancel only
\* for a job somebody cancelled, or one it has lost already.
AskedFor ==
  /\ OnlyAskedCancels
  /\ cancelReq /\ reg # 0 => reg \in acked
  /\ pc = "settle" => cur \in acked \/ jobState[cur] \notin Live

\* What the worker's copy of the row still tells it: an empty copy belongs to a
\* call that never reached the runner, and a video downloaded by now was
\* downloaded when the copy was made (only this goroutine sets downloaded_at).
CopyOfRow ==
  /\ pc \notin InProcess \/ pc \in {"claimed", "read"} => snap = {} /\ outcome = "-"
  /\ snap = {} => outcome = "-"
  /\ pc \in {"meta", "metaRun", "metaRet", "save", "start", "media", "mediaRun",
             "mediaRet", "complete", "settingsErr", "park", "parkWrite", "discard"} => snap # {}
  /\ pc \in InProcess \ {"claimed", "read", "leave"} /\ snap # {} =>
       (jobVideo[cur] \in had => "had" \in snap)
  /\ pc \in {"parkWrite", "discard"} => "had" \notin snap

\* Only a video somebody adds by URL is ever without its title, so only such a
\* one sends the worker to YouTube for its metadata.
UntitledIsPasted ==
  /\ \A v \in Videos : status[v] # "none" /\ v \notin titled => v \in Pasted
  /\ \A v \in Videos : <<"add", v>> \in clicked => v \in Pasted
  /\ pc = "check" /\ snap # {} /\ "titled" \notin snap => jobVideo[cur] \in Pasted
  /\ pc \in {"meta", "metaRun", "metaRet", "save"} => jobVideo[cur] \in Pasted

InHand == JobHasRow /\ JobInHand /\ AskedFor /\ CopyOfRow /\ UntitledIsPasted

LEMMA InHandWorker ==
  ASSUME TypeInv, InHand, Worker
  PROVE  InHand'
<1> USE ConstantsAssumption
  DEF TypeInv, JobTypes, VideoTypes, WorkerTypes, AgentTypes, Held, InHand, JobHasRow,
      JobInHand, AskedFor, CopyOfRow, UntitledIsPasted, OnlyAskedCancels, Registered,
      Undecided
<1>1. CASE ResetOrphans
  BY <1>1 DEF ResetOrphans, Running, Fault, NoFault
<1>2. CASE PassGates
  BY <1>2 DEF PassGates
<1>3. CASE ClaimNext
  BY <1>3 DEF ClaimNext, Claimable
<1>4. CASE Register
  BY <1>4 DEF Register
<1>5. CASE ReadVideo
  BY <1>5 DEF ReadVideo, V, RowFacts, Fault, NoFault
<1>6. CASE CheckPreflight
  BY <1>6 DEF CheckPreflight, Fault, NoFault
<1>7. CASE RequeueSettings
  BY <1>7 DEF RequeueSettings, Guarded, Running, Fault, NoFault
<1>8. CASE MetadataGates
  BY <1>8 DEF MetadataGates, RunnerGates, Interrupted
<1>9. CASE MetadataReturns
  BY <1>9 DEF MetadataReturns, RunnerReturns, Interrupted
<1>10. CASE MetadataSettles
  BY <1>10 DEF MetadataSettles, Route
<1>11. CASE SaveMetadata
  BY <1>11 DEF SaveMetadata, V, Fault, NoFault
<1>12. CASE StartDownload
  BY <1>12 DEF StartDownload, V, SetStatus, Fault, NoFault
<1>13. CASE DownloadGates
  BY <1>13 DEF DownloadGates, RunnerGates, Interrupted
<1>14. CASE DownloadReturns
  BY <1>14 DEF DownloadReturns, RunnerReturns, Interrupted
<1>15. CASE DownloadSettles
  BY <1>15 DEF DownloadSettles, Route
<1>16. CASE CompleteDownload
  BY <1>16 DEF CompleteDownload, V, SetStatus, Running, Fault, NoFault
<1>17. CASE Retry
  BY <1>17 DEF Retry, Guarded, Running, Fault, NoFault
<1>18. CASE RetryExhausted
  BY <1>18 DEF RetryExhausted, Guarded, Running, Fault, NoFault
<1>19. CASE Fail
  BY <1>19 DEF Fail, Guarded, Running, Fault, NoFault
<1>20. CASE ParkLookup
  BY <1>20 DEF ParkLookup, V, Fault, NoFault
<1>21. CASE ParkWrite
  BY <1>21 DEF ParkWrite, V, Fault, NoFault
<1>22. CASE ParkDiscard
  BY <1>22 DEF ParkDiscard, V, DropRows, Fault, NoFault
<1>23. CASE MarkError
  BY <1>23 DEF MarkError, V, SetStatus, Fault, NoFault
<1>24. CASE PauseCookie
  BY <1>24 DEF PauseCookie, Fault, NoFault
<1>25. CASE PauseFlag
  BY <1>25 DEF PauseFlag
<1>26. CASE PauseBump
  BY <1>26 DEF PauseBump, Guarded, Running, Fault, NoFault
<1>27. CASE SettleJob
  BY <1>27 DEF SettleJob, Fault, NoFault
<1>28. CASE SettleVideo
  BY <1>28 DEF SettleVideo, V, SetStatus, Fault, NoFault
<1>29. CASE Leave
  BY <1>29 DEF Leave
<1>30. CASE Stop
  BY <1>30 DEF Stop, Dies
<1> QED
  BY <1>1, <1>2, <1>3, <1>4, <1>5, <1>6, <1>7, <1>8, <1>9, <1>10, <1>11, <1>12, <1>13, <1>14,
    <1>15, <1>16, <1>17, <1>18, <1>19, <1>20, <1>21, <1>22, <1>23, <1>24, <1>25, <1>26, <1>27,
    <1>28, <1>29, <1>30 DEF Worker

LEMMA InHandHandlers ==
  ASSUME TypeInv, InHand, Handlers
  PROVE  InHand'
<1> USE ConstantsAssumption
  DEF TypeInv, JobTypes, VideoTypes, WorkerTypes, AgentTypes, Held, InHand, JobHasRow,
      JobInHand, AskedFor, CopyOfRow, UntitledIsPasted, OnlyAskedCancels, Registered,
      Undecided
<1>1. ASSUME NEW v \in Videos, AddByURL(v) \/ Approve(v) \/ Redownload(v) PROVE InHand'
  <2>1. UNCHANGED <<jobVars, videoVars, pc, callVars, reg, cancelReq, acked>>
    BY <1>1 DEF AddByURL, Approve, Redownload, Decide
  <2>2. \A w \in Videos : <<"add", w>> \in clicked' => <<"add", w>> \in clicked \/ w \in Pasted
    BY <1>1 DEF AddByURL, Approve, Redownload, Decide
  <2>3. (JobHasRow /\ JobInHand /\ AskedFor /\ CopyOfRow)' BY <2>1
  <2>4. UntitledIsPasted' BY <2>1, <2>2
  <2> QED BY <2>3, <2>4
<1>2. ASSUME NEW v \in Videos, EnqueueNew(v) PROVE InHand'
  BY <1>2 DEF EnqueueNew, Decided, EnqueueDownload, InsertJob
<1>3. ASSUME NEW v \in Videos, EnqueueKnown(v) PROVE InHand'
  BY <1>3 DEF EnqueueKnown, Decided, EnqueueDownload, InsertJob
<1>4. ASSUME NEW v \in Videos, SettleEntry(v) PROVE InHand'
  BY <1>4 DEF SettleEntry, Decided
<1>5. ASSUME NEW v \in Videos, DeleteVideo(v) PROVE InHand'
  BY <1>5 DEF DeleteVideo, DropRows, Up
<1>6. ASSUME NEW j \in Jobs, CancelDownload(j) PROVE InHand'
  BY <1>6 DEF CancelDownload, CancelJob, Up
<1>7. ASSUME NEW j \in Jobs, DeleteChannelCancel(j) PROVE InHand'
  BY <1>7 DEF DeleteChannelCancel, CancelJob
<1>8. CASE DeleteChannelBegin
  BY <1>8 DEF DeleteChannelBegin
<1>9. CASE DeleteChannelRows
  BY <1>9 DEF DeleteChannelRows, DropRows
<1>10. CASE PasteCookie
  BY <1>10 DEF PasteCookie
<1>11. CASE Resume
  BY <1>11 DEF Resume
<1>12. CASE ToggleYoutubePause
  BY <1>12 DEF ToggleYoutubePause
<1> QED
  BY <1>1, <1>2, <1>3, <1>4, <1>5, <1>6, <1>7, <1>8, <1>9, <1>10, <1>11, <1>12 DEF Handlers

LEMMA InHandRest ==
  ASSUME TypeInv, InHand, Clock \/ Scan \/ Process
  PROVE  InHand'
<1> USE ConstantsAssumption
  DEF TypeInv, JobTypes, VideoTypes, WorkerTypes, AgentTypes, Held, InHand, JobHasRow,
      JobInHand, AskedFor, CopyOfRow, UntitledIsPasted, OnlyAskedCancels, Registered,
      Undecided
<1>1. CASE ScanFlagsCookie
  BY <1>1 DEF ScanFlagsCookie
<1>2. ASSUME NEW v \in Videos, ScanRevives(v) PROVE InHand'
  BY <1>2 DEF ScanRevives
<1>3. ASSUME NEW v \in Videos, ScanAuto(v) PROVE InHand'
  <2>1. JobHasRow' /\ JobInHand'
    BY <1>3 DEF ScanAuto, ScanUpsert, ScanSetQueued, ScanEnqueue, ScanRecord, ScanFails, ScanStep,
      InsertJob, SetStatus, Fault, NoFault
  <2>2. AskedFor' /\ CopyOfRow' /\ UntitledIsPasted'
    BY <1>3 DEF ScanAuto, ScanUpsert, ScanSetQueued, ScanEnqueue, ScanRecord, ScanFails, ScanStep,
      InsertJob, SetStatus, Fault, NoFault
  <2> QED BY <2>1, <2>2
<1>4. CASE Shutdown
  BY <1>4 DEF Shutdown
<1>5. CASE Crash
  BY <1>5 DEF Crash, Dies, Up
<1>6. CASE Boot
  BY <1>6 DEF Boot
<1>7. CASE Panic
  BY <1>7 DEF Panic
<1>8. CASE CoolOffEnds
  BY <1>8 DEF CoolOffEnds
<1>9. ASSUME NEW j \in Jobs, BackoffElapses(j) PROVE InHand'
  BY <1>9 DEF BackoffElapses
<1> QED
  BY <1>1, <1>2, <1>3, <1>4, <1>5, <1>6, <1>7, <1>8, <1>9 DEF Clock, Scan, Process

LEMMA InHandAlways == Spec => [](TypeInv /\ InHand)
<1>1. Init => InHand
  BY DEF Init, InHand, JobHasRow, JobInHand, AskedFor, CopyOfRow, UntitledIsPasted,
         OnlyAskedCancels, Registered, Undecided
<1>2. TypeInv /\ InHand /\ [Next]_vars => InHand'
  <2> SUFFICES ASSUME TypeInv, InHand, [Next]_vars PROVE InHand' OBVIOUS
  <2>1. CASE Worker BY <2>1, InHandWorker
  <2>2. CASE Handlers BY <2>2, InHandHandlers
  <2>3. CASE Clock \/ Scan \/ Process BY <2>3, InHandRest
  <2>4. CASE UNCHANGED vars
    BY <2>4 DEF vars, InHand, JobHasRow, JobInHand, AskedFor, CopyOfRow, UntitledIsPasted,
                OnlyAskedCancels
  <2> QED BY <2>1, <2>2, <2>3, <2>4 DEF Next
<1> QED BY <1>1, <1>2, TypeInit, TypeStep, PTL DEF Spec

\* A job is canceled only because somebody asked for it, whatever fails,
\* panics, crashes or shuts down: the flag of one job never reaches the next,
\* and a guarded write that lost its race settles only what another cancelled.
THEOREM CancelsAreAsked == Spec => []OnlyAskedCancels
<1>1. InHand => OnlyAskedCancels BY DEF InHand, AskedFor
<1> QED BY <1>1, InHandAlways, PTL

----------------------------------------------------------------------------
(* Cancels: nothing fails *)

\* When no database call fails and nothing panics, the copy is empty only when
\* the row was gone, job and all, and the worker goes on from a terminal write
\* with the job where that write leaves it.
Settled ==
  /\ pc # "settingsErr"
  /\ pc \in InProcess \ {"claimed", "read"} /\ snap = {} => jobState[cur] = "gone"
  /\ pc = "settle" => jobState[cur] \in {"running", "canceled", "gone"}
  /\ pc = "settleVideo" => jobState[cur] \in {"canceled", "gone"}
  /\ pc \in {"markErr", "park", "parkWrite", "discard"} => jobState[cur] \in {"failed", "gone"}

SettledInv == TypeInv /\ InHand /\ Settled

LEMMA SettledWorker ==
  ASSUME MaxFaults = 0, MaxPanics = 0, TypeInv, InHand, Settled, Worker
  PROVE  Settled'
<1> USE ConstantsAssumption
  DEF TypeInv, JobTypes, VideoTypes, WorkerTypes, AgentTypes, BoundTypes, Held, InHand,
      JobHasRow, JobInHand, CopyOfRow, Settled, Registered, Undecided
<1>1. CASE ResetOrphans
  BY <1>1 DEF ResetOrphans, Running, Fault, NoFault
<1>2. CASE PassGates
  BY <1>2 DEF PassGates
<1>3. CASE ClaimNext
  BY <1>3 DEF ClaimNext, Claimable
<1>4. CASE Register
  BY <1>4 DEF Register
<1>5. CASE ReadVideo
  <2>1. /\ pc = "read" /\ pc' = "check" /\ UNCHANGED <<jobState, cur>>
        /\ snap' = {f \in RowFacts :
             /\ status[V] # "none"
             /\ f = "titled" => V \in titled
             /\ f = "had" => V \in had}
    <3>1. ~Fault BY DEF Fault
    <3>2. pc = "read" /\ pc' = "check" /\ UNCHANGED <<jobState, cur>>
      BY <1>5 DEF ReadVideo
    <3>3. snap' = {f \in RowFacts :
                   /\ status[V] # "none"
                   /\ f = "titled" => V \in titled
                   /\ f = "had" => V \in had}
      BY <1>5, <3>1, Zenon DEF ReadVideo
    <3> QED BY <3>2, <3>3, Zenon
  <2>2. snap' = {} => status[V] = "none"
    <3>1. status[V] # "none" => "row" \in snap' BY <2>1 DEF RowFacts
    <3> QED BY <3>1
  <2>3. status[V] = "none" => jobState[cur] = "gone" BY <2>1 DEF V
  <2> QED BY <2>1, <2>2, <2>3
<1>6. CASE CheckPreflight
  BY <1>6 DEF CheckPreflight, Fault, NoFault
<1>7. CASE RequeueSettings
  BY <1>7 DEF RequeueSettings, Guarded, Running, Fault, NoFault
<1>8. CASE MetadataGates
  BY <1>8 DEF MetadataGates, RunnerGates, Interrupted
<1>9. CASE MetadataReturns
  BY <1>9 DEF MetadataReturns, RunnerReturns, Interrupted
<1>10. CASE MetadataSettles
  BY <1>10 DEF MetadataSettles, Route
<1>11. CASE SaveMetadata
  BY <1>11 DEF SaveMetadata, V, Fault, NoFault
<1>12. CASE StartDownload
  BY <1>12 DEF StartDownload, V, SetStatus, Fault, NoFault
<1>13. CASE DownloadGates
  BY <1>13 DEF DownloadGates, RunnerGates, Interrupted
<1>14. CASE DownloadReturns
  BY <1>14 DEF DownloadReturns, RunnerReturns, Interrupted
<1>15. CASE DownloadSettles
  BY <1>15 DEF DownloadSettles, Route
<1>16. CASE CompleteDownload
  BY <1>16 DEF CompleteDownload, V, SetStatus, Running, Fault, NoFault
<1>17. CASE Retry
  BY <1>17 DEF Retry, Guarded, Running, Fault, NoFault
<1>18. CASE RetryExhausted
  BY <1>18 DEF RetryExhausted, Guarded, Running, Fault, NoFault
<1>19. CASE Fail
  BY <1>19 DEF Fail, Guarded, Running, Fault, NoFault
<1>20. CASE ParkLookup
  BY <1>20 DEF ParkLookup, V, Fault, NoFault
<1>21. CASE ParkWrite
  BY <1>21 DEF ParkWrite, V, Fault, NoFault
<1>22. CASE ParkDiscard
  BY <1>22 DEF ParkDiscard, V, DropRows, Fault, NoFault
<1>23. CASE MarkError
  BY <1>23 DEF MarkError, V, SetStatus, Fault, NoFault
<1>24. CASE PauseCookie
  BY <1>24 DEF PauseCookie, Fault, NoFault
<1>25. CASE PauseFlag
  BY <1>25 DEF PauseFlag
<1>26. CASE PauseBump
  BY <1>26 DEF PauseBump, Guarded, Running, Fault, NoFault
<1>27. CASE SettleJob
  BY <1>27 DEF SettleJob, Fault, NoFault
<1>28. CASE SettleVideo
  BY <1>28 DEF SettleVideo, V, SetStatus, Fault, NoFault
<1>29. CASE Leave
  BY <1>29 DEF Leave
<1>30. CASE Stop
  BY <1>30 DEF Stop, Dies
<1> QED
  BY <1>1, <1>2, <1>3, <1>4, <1>5, <1>6, <1>7, <1>8, <1>9, <1>10, <1>11, <1>12, <1>13, <1>14,
    <1>15, <1>16, <1>17, <1>18, <1>19, <1>20, <1>21, <1>22, <1>23, <1>24, <1>25, <1>26, <1>27,
    <1>28, <1>29, <1>30 DEF Worker

LEMMA SettledHandlers ==
  ASSUME MaxFaults = 0, MaxPanics = 0, TypeInv, InHand, Settled, Handlers
  PROVE  Settled'
<1> USE ConstantsAssumption
  DEF TypeInv, JobTypes, VideoTypes, WorkerTypes, AgentTypes, BoundTypes, Held, InHand,
      JobHasRow, JobInHand, CopyOfRow, Settled, Registered, Undecided
<1>1. ASSUME NEW v \in Videos, AddByURL(v) \/ Approve(v) \/ Redownload(v) PROVE Settled'
  BY <1>1 DEF AddByURL, Approve, Redownload, Decide
<1>2. ASSUME NEW v \in Videos, EnqueueNew(v) PROVE Settled'
  BY <1>2 DEF EnqueueNew, Decided, EnqueueDownload, InsertJob
<1>3. ASSUME NEW v \in Videos, EnqueueKnown(v) PROVE Settled'
  BY <1>3 DEF EnqueueKnown, Decided, EnqueueDownload, InsertJob
<1>4. ASSUME NEW v \in Videos, SettleEntry(v) PROVE Settled'
  BY <1>4 DEF SettleEntry, Decided
<1>5. ASSUME NEW v \in Videos, DeleteVideo(v) PROVE Settled'
  BY <1>5 DEF DeleteVideo, DropRows, Up
<1>6. ASSUME NEW j \in Jobs, CancelDownload(j) PROVE Settled'
  BY <1>6 DEF CancelDownload, CancelJob, Up
<1>7. ASSUME NEW j \in Jobs, DeleteChannelCancel(j) PROVE Settled'
  BY <1>7 DEF DeleteChannelCancel, CancelJob
<1>8. CASE DeleteChannelBegin
  BY <1>8 DEF DeleteChannelBegin
<1>9. CASE DeleteChannelRows
  BY <1>9 DEF DeleteChannelRows, DropRows
<1>10. CASE PasteCookie
  BY <1>10 DEF PasteCookie
<1>11. CASE Resume
  BY <1>11 DEF Resume
<1>12. CASE ToggleYoutubePause
  BY <1>12 DEF ToggleYoutubePause
<1> QED
  BY <1>1, <1>2, <1>3, <1>4, <1>5, <1>6, <1>7, <1>8, <1>9, <1>10, <1>11, <1>12 DEF Handlers

LEMMA SettledRest ==
  ASSUME MaxFaults = 0, MaxPanics = 0, TypeInv, InHand, Settled, Clock \/ Scan \/ Process
  PROVE  Settled'
<1> USE ConstantsAssumption
  DEF TypeInv, JobTypes, VideoTypes, WorkerTypes, AgentTypes, BoundTypes, Held, InHand,
      JobHasRow, JobInHand, CopyOfRow, Settled, Registered, Undecided
<1>1. CASE ScanFlagsCookie
  BY <1>1 DEF ScanFlagsCookie
<1>2. ASSUME NEW v \in Videos, ScanRevives(v) PROVE Settled'
  BY <1>2 DEF ScanRevives
<1>3. ASSUME NEW v \in Videos, ScanAuto(v) PROVE Settled'
  BY <1>3 DEF ScanAuto, ScanUpsert, ScanSetQueued, ScanEnqueue, ScanRecord, ScanFails, ScanStep,
    InsertJob, SetStatus, Fault, NoFault
<1>4. CASE Shutdown
  BY <1>4 DEF Shutdown
<1>5. CASE Crash
  BY <1>5 DEF Crash, Dies, Up
<1>6. CASE Boot
  BY <1>6 DEF Boot
<1>7. CASE Panic
  BY <1>7 DEF Panic
<1>8. CASE CoolOffEnds
  BY <1>8 DEF CoolOffEnds
<1>9. ASSUME NEW j \in Jobs, BackoffElapses(j) PROVE Settled'
  BY <1>9 DEF BackoffElapses
<1> QED
  BY <1>1, <1>2, <1>3, <1>4, <1>5, <1>6, <1>7, <1>8, <1>9 DEF Clock, Scan, Process

LEMMA SettledAlways ==
  ASSUME MaxFaults = 0, MaxPanics = 0
  PROVE  Spec => []SettledInv
<1>1. Init => Settled BY DEF Init, Settled
<1>2. TypeInv /\ InHand /\ Settled /\ [Next]_vars => Settled'
  <2> SUFFICES ASSUME TypeInv, InHand, Settled, [Next]_vars PROVE Settled' OBVIOUS
  <2>1. CASE Worker BY <2>1, SettledWorker
  <2>2. CASE Handlers BY <2>2, SettledHandlers
  <2>3. CASE Clock \/ Scan \/ Process BY <2>3, SettledRest
  <2>4. CASE UNCHANGED vars BY <2>4 DEF vars, Settled
  <2> QED BY <2>1, <2>2, <2>3, <2>4 DEF Next
<1> QED BY <1>1, <1>2, InHandAlways, PTL DEF Spec, SettledInv

\* Without a preflight call to YouTube there is no step between the raised flag
\* and the critical section that reads it: while a job is registered, the
\* worker will still look at the flag, or the job is canceled already.
FlagIsRead ==
  /\ CancelHolds
  /\ reg # 0 => pc \in Registered \cup {"settle"} \/ jobState[cur] \in {"canceled", "gone"}

LEMMA FlagIsReadWorker ==
  ASSUME MaxFaults = 0, MaxPanics = 0, Pasted = {}, SettledInv, FlagIsRead, Worker
  PROVE  FlagIsRead'
<1> USE ConstantsAssumption
  DEF TypeInv, JobTypes, VideoTypes, WorkerTypes, AgentTypes, BoundTypes, Held,
      SettledInv, InHand, JobHasRow, JobInHand, UntitledIsPasted, Settled, FlagIsRead,
      CancelHolds, Registered, Undecided
<1>1. CASE ResetOrphans
  BY <1>1 DEF ResetOrphans, Running, Fault, NoFault
<1>2. CASE PassGates
  BY <1>2 DEF PassGates
<1>3. CASE ClaimNext
  BY <1>3 DEF ClaimNext, Claimable
<1>4. CASE Register
  BY <1>4 DEF Register
<1>5. CASE ReadVideo
  BY <1>5 DEF ReadVideo, V, RowFacts, Fault, NoFault
<1>6. CASE CheckPreflight
  BY <1>6 DEF CheckPreflight, Fault, NoFault
<1>7. CASE RequeueSettings
  BY <1>7 DEF RequeueSettings, Guarded, Running, Fault, NoFault
<1>8. CASE MetadataGates
  BY <1>8 DEF MetadataGates, RunnerGates, Interrupted
<1>9. CASE MetadataReturns
  BY <1>9 DEF MetadataReturns, RunnerReturns, Interrupted
<1>10. CASE MetadataSettles
  BY <1>10 DEF MetadataSettles, Route
<1>11. CASE SaveMetadata
  BY <1>11 DEF SaveMetadata, V, Fault, NoFault
<1>12. CASE StartDownload
  BY <1>12 DEF StartDownload, V, SetStatus, Fault, NoFault
<1>13. CASE DownloadGates
  BY <1>13 DEF DownloadGates, RunnerGates, Interrupted
<1>14. CASE DownloadReturns
  BY <1>14 DEF DownloadReturns, RunnerReturns, Interrupted
<1>15. CASE DownloadSettles
  BY <1>15 DEF DownloadSettles, Route
<1>16. CASE CompleteDownload
  BY <1>16 DEF CompleteDownload, V, SetStatus, Running, Fault, NoFault
<1>17. CASE Retry
  BY <1>17 DEF Retry, Guarded, Running, Fault, NoFault
<1>18. CASE RetryExhausted
  BY <1>18 DEF RetryExhausted, Guarded, Running, Fault, NoFault
<1>19. CASE Fail
  BY <1>19 DEF Fail, Guarded, Running, Fault, NoFault
<1>20. CASE ParkLookup
  BY <1>20 DEF ParkLookup, V, Fault, NoFault
<1>21. CASE ParkWrite
  BY <1>21 DEF ParkWrite, V, Fault, NoFault
<1>22. CASE ParkDiscard
  BY <1>22 DEF ParkDiscard, V, DropRows, Fault, NoFault
<1>23. CASE MarkError
  BY <1>23 DEF MarkError, V, SetStatus, Fault, NoFault
<1>24. CASE PauseCookie
  BY <1>24 DEF PauseCookie, Fault, NoFault
<1>25. CASE PauseFlag
  BY <1>25 DEF PauseFlag
<1>26. CASE PauseBump
  BY <1>26 DEF PauseBump, Guarded, Running, Fault, NoFault
<1>27. CASE SettleJob
  BY <1>27 DEF SettleJob, Fault, NoFault
<1>28. CASE SettleVideo
  BY <1>28 DEF SettleVideo, V, SetStatus, Fault, NoFault
<1>29. CASE Leave
  BY <1>29 DEF Leave
<1>30. CASE Stop
  BY <1>30 DEF Stop, Dies
<1> QED
  BY <1>1, <1>2, <1>3, <1>4, <1>5, <1>6, <1>7, <1>8, <1>9, <1>10, <1>11, <1>12, <1>13, <1>14,
    <1>15, <1>16, <1>17, <1>18, <1>19, <1>20, <1>21, <1>22, <1>23, <1>24, <1>25, <1>26, <1>27,
    <1>28, <1>29, <1>30 DEF Worker

LEMMA FlagIsReadHandlers ==
  ASSUME MaxFaults = 0, MaxPanics = 0, Pasted = {}, SettledInv, FlagIsRead, Handlers
  PROVE  FlagIsRead'
<1> USE ConstantsAssumption
  DEF TypeInv, JobTypes, VideoTypes, WorkerTypes, AgentTypes, BoundTypes, Held,
      SettledInv, InHand, JobHasRow, JobInHand, UntitledIsPasted, Settled, FlagIsRead,
      CancelHolds, Registered, Undecided
<1>1. ASSUME NEW v \in Videos, AddByURL(v) \/ Approve(v) \/ Redownload(v) PROVE FlagIsRead'
  <2>1. UNCHANGED <<jobState, pc, cur, reg, cancelReq, acked>>
    BY <1>1 DEF AddByURL, Approve, Redownload, Decide
  <2> QED BY <2>1
<1>2. ASSUME NEW v \in Videos, EnqueueNew(v) PROVE FlagIsRead'
  BY <1>2 DEF EnqueueNew, Decided, EnqueueDownload, InsertJob
<1>3. ASSUME NEW v \in Videos, EnqueueKnown(v) PROVE FlagIsRead'
  BY <1>3 DEF EnqueueKnown, Decided, EnqueueDownload, InsertJob
<1>4. ASSUME NEW v \in Videos, SettleEntry(v) PROVE FlagIsRead'
  BY <1>4 DEF SettleEntry, Decided
<1>5. ASSUME NEW v \in Videos, DeleteVideo(v) PROVE FlagIsRead'
  BY <1>5 DEF DeleteVideo, DropRows, Up
<1>6. ASSUME NEW j \in Jobs, CancelDownload(j) PROVE FlagIsRead'
  <2>1. UNCHANGED <<pc, cur, reg>> /\ CancelJob(j) BY <1>6 DEF CancelDownload
  <2>2. ASSUME NEW k \in acked PROVE jobState'[k] \in {"canceled", "gone"}
                                  \/ (cur = k /\ ((reg = k /\ cancelReq') \/ pc = "settle"))
    <3>1. jobState[k] \in {"canceled", "gone"} => jobState'[k] \in {"canceled", "gone"}
      BY <2>1 DEF CancelJob
    <3>2. cancelReq' = TRUE \/ cancelReq' = cancelReq BY <2>1 DEF CancelJob
    <3>3. cancelReq => cancelReq' BY <3>2, Zenon
    <3>4. CASE jobState[k] \in {"canceled", "gone"} BY <3>1, <3>4
    <3>5. CASE cur = k /\ ((reg = k /\ cancelReq) \/ pc = "settle") BY <3>3, <3>5, Zenon
    <3> QED BY <3>4, <3>5, Zenon
  <2>3. j \in acked' => \/ jobState'[j] \in {"canceled", "gone"}
                        \/ (cur = j /\ ((reg = j /\ cancelReq') \/ pc = "settle"))
    <3>1. CASE reg = j /\ cancelReq' = TRUE BY <2>1, <3>1
    <3>2. CASE jobState' = [jobState EXCEPT ![j] = "canceled"] BY <3>2
    <3>3. CASE UNCHANGED <<jobState, cancelReq, acked>> BY <2>1, <3>3
    <3> QED BY <2>1, <3>1, <3>2, <3>3 DEF CancelJob
  <2>4. CancelHolds'
    <3>1. acked' \subseteq acked \cup {j} BY <2>1 DEF CancelJob
    <3> QED BY <2>1, <2>2, <2>3, <3>1
  <2>5. reg # 0 /\ jobState[cur] \in {"canceled", "gone"} => jobState'[cur] \in {"canceled", "gone"}
    BY <2>1 DEF CancelJob
  <2> QED BY <2>1, <2>4, <2>5
<1>7. ASSUME NEW j \in Jobs, DeleteChannelCancel(j) PROVE FlagIsRead'
  <2>1. UNCHANGED <<pc, cur, reg>> /\ CancelJob(j) BY <1>7 DEF DeleteChannelCancel
  <2>2. ASSUME NEW k \in acked PROVE jobState'[k] \in {"canceled", "gone"}
                                  \/ (cur = k /\ ((reg = k /\ cancelReq') \/ pc = "settle"))
    <3>1. jobState[k] \in {"canceled", "gone"} => jobState'[k] \in {"canceled", "gone"}
      BY <2>1 DEF CancelJob
    <3>2. cancelReq' = TRUE \/ cancelReq' = cancelReq BY <2>1 DEF CancelJob
    <3>3. cancelReq => cancelReq' BY <3>2, Zenon
    <3>4. CASE jobState[k] \in {"canceled", "gone"} BY <3>1, <3>4
    <3>5. CASE cur = k /\ ((reg = k /\ cancelReq) \/ pc = "settle") BY <3>3, <3>5, Zenon
    <3> QED BY <3>4, <3>5, Zenon
  <2>3. j \in acked' => \/ jobState'[j] \in {"canceled", "gone"}
                        \/ (cur = j /\ ((reg = j /\ cancelReq') \/ pc = "settle"))
    <3>1. CASE reg = j /\ cancelReq' = TRUE BY <2>1, <3>1
    <3>2. CASE jobState' = [jobState EXCEPT ![j] = "canceled"] BY <3>2
    <3>3. CASE UNCHANGED <<jobState, cancelReq, acked>> BY <2>1, <3>3
    <3> QED BY <2>1, <3>1, <3>2, <3>3 DEF CancelJob
  <2>4. CancelHolds'
    <3>1. acked' \subseteq acked \cup {j} BY <2>1 DEF CancelJob
    <3> QED BY <2>1, <2>2, <2>3, <3>1
  <2>5. reg # 0 /\ jobState[cur] \in {"canceled", "gone"} => jobState'[cur] \in {"canceled", "gone"}
    BY <2>1 DEF CancelJob
  <2> QED BY <2>1, <2>4, <2>5
<1>8. CASE DeleteChannelBegin
  BY <1>8 DEF DeleteChannelBegin
<1>9. CASE DeleteChannelRows
  BY <1>9 DEF DeleteChannelRows, DropRows
<1>10. CASE PasteCookie
  BY <1>10 DEF PasteCookie
<1>11. CASE Resume
  BY <1>11 DEF Resume
<1>12. CASE ToggleYoutubePause
  BY <1>12 DEF ToggleYoutubePause
<1> QED
  BY <1>1, <1>2, <1>3, <1>4, <1>5, <1>6, <1>7, <1>8, <1>9, <1>10, <1>11, <1>12 DEF Handlers

LEMMA FlagIsReadRest ==
  ASSUME MaxFaults = 0, MaxPanics = 0, Pasted = {}, SettledInv, FlagIsRead, Clock \/ Scan \/ Process
  PROVE  FlagIsRead'
<1> USE ConstantsAssumption
  DEF TypeInv, JobTypes, VideoTypes, WorkerTypes, AgentTypes, BoundTypes, Held,
      SettledInv, InHand, JobHasRow, JobInHand, UntitledIsPasted, Settled, FlagIsRead,
      CancelHolds, Registered, Undecided
<1>1. CASE ScanFlagsCookie
  BY <1>1 DEF ScanFlagsCookie
<1>2. ASSUME NEW v \in Videos, ScanRevives(v) PROVE FlagIsRead'
  BY <1>2 DEF ScanRevives
<1>3. ASSUME NEW v \in Videos, ScanAuto(v) PROVE FlagIsRead'
  BY <1>3 DEF ScanAuto, ScanUpsert, ScanSetQueued, ScanEnqueue, ScanRecord, ScanFails, ScanStep,
    InsertJob, SetStatus, Fault, NoFault
<1>4. CASE Shutdown
  BY <1>4 DEF Shutdown
<1>5. CASE Crash
  BY <1>5 DEF Crash, Dies, Up
<1>6. CASE Boot
  BY <1>6 DEF Boot
<1>7. CASE Panic
  BY <1>7 DEF Panic
<1>8. CASE CoolOffEnds
  BY <1>8 DEF CoolOffEnds
<1>9. ASSUME NEW j \in Jobs, BackoffElapses(j) PROVE FlagIsRead'
  BY <1>9 DEF BackoffElapses
<1> QED
  BY <1>1, <1>2, <1>3, <1>4, <1>5, <1>6, <1>7, <1>8, <1>9 DEF Clock, Scan, Process

\* A cancel that was answered with true is not lost, whatever crashes,
\* shutdowns, deletes, gates and scans do, as long as no database call fails,
\* nothing panics and no video is added by its bare URL: a cancel that comes
\* while the outcome of such a video's metadata call is being written is
\* answered with true and dropped.
THEOREM CancelsHold ==
  ASSUME MaxFaults = 0, MaxPanics = 0, Pasted = {}
  PROVE  Spec => []CancelHolds
<1>1. Init => FlagIsRead BY DEF Init, FlagIsRead, CancelHolds
<1>2. SettledInv /\ FlagIsRead /\ [Next]_vars => FlagIsRead'
  <2> SUFFICES ASSUME SettledInv, FlagIsRead, [Next]_vars PROVE FlagIsRead' OBVIOUS
  <2>1. CASE Worker BY <2>1, FlagIsReadWorker
  <2>2. CASE Handlers BY <2>2, FlagIsReadHandlers
  <2>3. CASE Clock \/ Scan \/ Process BY <2>3, FlagIsReadRest
  <2>4. CASE UNCHANGED vars BY <2>4 DEF vars, FlagIsRead, CancelHolds
  <2> QED BY <2>1, <2>2, <2>3, <2>4 DEF Next
<1>3. FlagIsRead => CancelHolds BY DEF FlagIsRead
<1> QED BY <1>1, <1>2, <1>3, SettledAlways, PTL DEF Spec

\* With the gates open for good and no shutdown, no call is refused or cut
\* short except by a cancel.
GatesOpen ==
  /\ ~stopping /\ ~ytPaused /\ cookie = "valid"
  /\ outcome \notin Refusals \cup {"rejected"}
  /\ pc \notin {"pauseCookie", "pauseFlag", "pauseBump", "requeue"}

LEMMA GatesOpenWorker ==
  ASSUME MaxShutdowns = 0, Gates = FALSE, TypeInv, GatesOpen, Worker
  PROVE  GatesOpen'
<1> USE ConstantsAssumption DEF TypeInv, WorkerTypes, BoundTypes, GatesOpen
<1>1. CASE ResetOrphans
  BY <1>1 DEF ResetOrphans, Running, Fault, NoFault
<1>2. CASE PassGates
  BY <1>2 DEF PassGates
<1>3. CASE ClaimNext
  BY <1>3 DEF ClaimNext, Claimable
<1>4. CASE Register
  BY <1>4 DEF Register
<1>5. CASE ReadVideo
  BY <1>5 DEF ReadVideo, V, RowFacts, Fault, NoFault
<1>6. CASE CheckPreflight
  BY <1>6 DEF CheckPreflight, Fault, NoFault
<1>7. CASE RequeueSettings
  BY <1>7 DEF RequeueSettings, Guarded, Running, Fault, NoFault
<1>8. CASE MetadataGates
  BY <1>8 DEF MetadataGates, RunnerGates, Interrupted
<1>9. CASE MetadataReturns
  BY <1>9 DEF MetadataReturns, RunnerReturns, Interrupted
<1>10. CASE MetadataSettles
  BY <1>10 DEF MetadataSettles, Route
<1>11. CASE SaveMetadata
  BY <1>11 DEF SaveMetadata, V, Fault, NoFault
<1>12. CASE StartDownload
  BY <1>12 DEF StartDownload, V, SetStatus, Fault, NoFault
<1>13. CASE DownloadGates
  BY <1>13 DEF DownloadGates, RunnerGates, Interrupted
<1>14. CASE DownloadReturns
  BY <1>14 DEF DownloadReturns, RunnerReturns, Interrupted
<1>15. CASE DownloadSettles
  BY <1>15 DEF DownloadSettles, Route
<1>16. CASE CompleteDownload
  BY <1>16 DEF CompleteDownload, V, SetStatus, Running, Fault, NoFault
<1>17. CASE Retry
  BY <1>17 DEF Retry, Guarded, Running, Fault, NoFault
<1>18. CASE RetryExhausted
  BY <1>18 DEF RetryExhausted, Guarded, Running, Fault, NoFault
<1>19. CASE Fail
  BY <1>19 DEF Fail, Guarded, Running, Fault, NoFault
<1>20. CASE ParkLookup
  BY <1>20 DEF ParkLookup, V, Fault, NoFault
<1>21. CASE ParkWrite
  BY <1>21 DEF ParkWrite, V, Fault, NoFault
<1>22. CASE ParkDiscard
  BY <1>22 DEF ParkDiscard, V, DropRows, Fault, NoFault
<1>23. CASE MarkError
  BY <1>23 DEF MarkError, V, SetStatus, Fault, NoFault
<1>24. CASE PauseCookie
  BY <1>24 DEF PauseCookie, Fault, NoFault
<1>25. CASE PauseFlag
  BY <1>25 DEF PauseFlag
<1>26. CASE PauseBump
  BY <1>26 DEF PauseBump, Guarded, Running, Fault, NoFault
<1>27. CASE SettleJob
  BY <1>27 DEF SettleJob, Fault, NoFault
<1>28. CASE SettleVideo
  BY <1>28 DEF SettleVideo, V, SetStatus, Fault, NoFault
<1>29. CASE Leave
  BY <1>29 DEF Leave
<1>30. CASE Stop
  BY <1>30 DEF Stop, Dies
<1> QED
  BY <1>1, <1>2, <1>3, <1>4, <1>5, <1>6, <1>7, <1>8, <1>9, <1>10, <1>11, <1>12, <1>13, <1>14,
    <1>15, <1>16, <1>17, <1>18, <1>19, <1>20, <1>21, <1>22, <1>23, <1>24, <1>25, <1>26, <1>27,
    <1>28, <1>29, <1>30 DEF Worker

LEMMA GatesOpenHandlers ==
  ASSUME MaxShutdowns = 0, Gates = FALSE, TypeInv, GatesOpen, Handlers
  PROVE  GatesOpen'
<1> USE ConstantsAssumption DEF TypeInv, WorkerTypes, BoundTypes, GatesOpen
<1>1. ASSUME NEW v \in Videos, AddByURL(v) \/ Approve(v) \/ Redownload(v) PROVE GatesOpen'
  BY <1>1 DEF AddByURL, Approve, Redownload, Decide
<1>2. ASSUME NEW v \in Videos, EnqueueNew(v) PROVE GatesOpen'
  BY <1>2 DEF EnqueueNew, Decided, EnqueueDownload, InsertJob
<1>3. ASSUME NEW v \in Videos, EnqueueKnown(v) PROVE GatesOpen'
  BY <1>3 DEF EnqueueKnown, Decided, EnqueueDownload, InsertJob
<1>4. ASSUME NEW v \in Videos, SettleEntry(v) PROVE GatesOpen'
  BY <1>4 DEF SettleEntry, Decided
<1>5. ASSUME NEW v \in Videos, DeleteVideo(v) PROVE GatesOpen'
  BY <1>5 DEF DeleteVideo, DropRows, Up
<1>6. ASSUME NEW j \in Jobs, CancelDownload(j) PROVE GatesOpen'
  BY <1>6 DEF CancelDownload, CancelJob, Up
<1>7. ASSUME NEW j \in Jobs, DeleteChannelCancel(j) PROVE GatesOpen'
  BY <1>7 DEF DeleteChannelCancel, CancelJob
<1>8. CASE DeleteChannelBegin
  BY <1>8 DEF DeleteChannelBegin
<1>9. CASE DeleteChannelRows
  BY <1>9 DEF DeleteChannelRows, DropRows
<1>10. CASE PasteCookie
  BY <1>10 DEF PasteCookie
<1>11. CASE Resume
  BY <1>11 DEF Resume
<1>12. CASE ToggleYoutubePause
  BY <1>12 DEF ToggleYoutubePause
<1> QED
  BY <1>1, <1>2, <1>3, <1>4, <1>5, <1>6, <1>7, <1>8, <1>9, <1>10, <1>11, <1>12 DEF Handlers

LEMMA GatesOpenRest ==
  ASSUME MaxShutdowns = 0, Gates = FALSE, TypeInv, GatesOpen, Clock \/ Scan \/ Process
  PROVE  GatesOpen'
<1> USE ConstantsAssumption DEF TypeInv, WorkerTypes, BoundTypes, GatesOpen
<1>1. CASE ScanFlagsCookie
  BY <1>1 DEF ScanFlagsCookie
<1>2. ASSUME NEW v \in Videos, ScanRevives(v) PROVE GatesOpen'
  BY <1>2 DEF ScanRevives
<1>3. ASSUME NEW v \in Videos, ScanAuto(v) PROVE GatesOpen'
  BY <1>3 DEF ScanAuto, ScanUpsert, ScanSetQueued, ScanEnqueue, ScanRecord, ScanFails, ScanStep,
    InsertJob, SetStatus, Fault, NoFault
<1>4. CASE Shutdown
  BY <1>4 DEF Shutdown
<1>5. CASE Crash
  BY <1>5 DEF Crash, Dies, Up
<1>6. CASE Boot
  BY <1>6 DEF Boot
<1>7. CASE Panic
  BY <1>7 DEF Panic
<1>8. CASE CoolOffEnds
  BY <1>8 DEF CoolOffEnds
<1>9. ASSUME NEW j \in Jobs, BackoffElapses(j) PROVE GatesOpen'
  BY <1>9 DEF BackoffElapses
<1> QED
  BY <1>1, <1>2, <1>3, <1>4, <1>5, <1>6, <1>7, <1>8, <1>9 DEF Clock, Scan, Process

LEMMA GatesAlways ==
  ASSUME MaxShutdowns = 0, Gates = FALSE
  PROVE  Spec => []GatesOpen
<1>1. Init => GatesOpen BY DEF Init, GatesOpen
<1>2. TypeInv /\ GatesOpen /\ [Next]_vars => GatesOpen'
  <2> SUFFICES ASSUME TypeInv, GatesOpen, [Next]_vars PROVE GatesOpen' OBVIOUS
  <2>1. CASE Worker BY <2>1, GatesOpenWorker
  <2>2. CASE Handlers BY <2>2, GatesOpenHandlers
  <2>3. CASE Clock \/ Scan \/ Process BY <2>3, GatesOpenRest
  <2>4. CASE UNCHANGED vars BY <2>4 DEF vars, GatesOpen
  <2> QED BY <2>1, <2>2, <2>3, <2>4 DEF Next
<1> QED BY <1>1, <1>2, TypeInit, TypeStep, PTL DEF Spec

\* The steps that end the work on a job: every other step leaves the worker
\* where it is, or moves it elsewhere.
LEMMA StepsThatLeave ==
  ASSUME MaxPanics = 0, TypeInv, Next, pc # "leave", pc' = "leave"
  PROVE  \/ RequeueSettings \/ MetadataSettles \/ DownloadSettles \/ CompleteDownload
         \/ Retry \/ ParkDiscard \/ MarkError \/ PauseBump \/ SettleVideo
<1>1. CASE Worker
  BY <1>1 DEF Worker, ResetOrphans, PassGates, ClaimNext, Register, ReadVideo, CheckPreflight,
     MetadataGates, MetadataReturns, DownloadGates, DownloadReturns, RunnerGates, RunnerReturns,
     SaveMetadata, StartDownload, RetryExhausted, Fail, Guarded, ParkLookup, ParkWrite,
     PauseCookie, PauseFlag, SettleJob, Leave, Stop, Dies
<1>2. CASE Clock BY <1>2 DEF Clock, CoolOffEnds, BackoffElapses
<1>3. CASE Handlers
  BY <1>3 DEF Handlers, AddByURL, Approve, Redownload, Decide, DeleteVideo, EnqueueNew,
     EnqueueKnown, SettleEntry, CancelDownload, DeleteChannelCancel, DeleteChannelBegin,
     DeleteChannelRows, PasteCookie, Resume, ToggleYoutubePause
<1>4. CASE Scan BY <1>4 DEF Scan, ScanFlagsCookie, ScanRevives, ScanAuto
<1>5. CASE Process
  BY <1>5 DEF Process, Shutdown, Crash, Dies, Boot, Panic, TypeInv, BoundTypes
<1> QED BY <1>1, <1>2, <1>3, <1>4, <1>5 DEF Next

\* Whichever way the worker learns of a cancel, it puts the video back to
\* 'new' before it leaves the job, as long as no database call fails, nothing
\* panics, and neither a shutdown nor a gate sends it away first: those leave
\* without looking at the row again.
THEOREM CanceledVideosReleased ==
  ASSUME MaxFaults = 0, MaxPanics = 0, MaxShutdowns = 0, Gates = FALSE
  PROVE  Spec => CanceledVideoIsReleased
<1>1. ASSUME SettledInv, GatesOpen, Next, pc # "leave", pc' = "leave", cur # 0,
             jobState'[cur] = "canceled"
      PROVE  status'[V] \notin {"queued", "downloading"}
  <2> USE <1>1, ConstantsAssumption
      DEF SettledInv, Settled, InHand, JobInHand, TypeInv, JobTypes, VideoTypes, WorkerTypes,
          BoundTypes, Held, Undecided, Registered, Fault, NoFault, V
  <2>1. CASE RequeueSettings BY <2>1 DEF RequeueSettings
  <2>2. CASE MetadataSettles \/ DownloadSettles
    BY <2>2 DEF MetadataSettles, DownloadSettles, Route, GatesOpen
  <2>3. CASE CompleteDownload BY <2>3 DEF CompleteDownload
  <2>4. CASE Retry BY <2>4 DEF Retry, Guarded
  <2>5. CASE ParkDiscard BY <2>5 DEF ParkDiscard, DropRows
  <2>6. CASE MarkError BY <2>6 DEF MarkError
  <2>7. CASE PauseBump BY <2>7 DEF PauseBump, GatesOpen
  <2>8. CASE SettleVideo
    <3>1. UNCHANGED jobState BY <2>8 DEF SettleVideo
    <3>2. snap # {} BY <3>1, <2>8 DEF SettleVideo
    <3>3. SetStatus(V, "new") BY <2>8, <3>2 DEF SettleVideo
    <3>4. V \in Videos BY <2>8 DEF SettleVideo
    <3> QED BY <3>3, <3>4 DEF SetStatus
  <2> QED BY <2>1, <2>2, <2>3, <2>4, <2>5, <2>6, <2>7, <2>8, StepsThatLeave
<1>2. SettledInv /\ GatesOpen /\ [Next]_vars
        => [(pc # "leave" /\ pc' = "leave" /\ cur # 0 /\ jobState'[cur] = "canceled")
             => status'[V] \notin {"queued", "downloading"}]_vars
  BY <1>1
<1> QED BY <1>2, SettledAlways, GatesAlways, PTL DEF Spec, CanceledVideoIsReleased

----------------------------------------------------------------------------
(* What is never lost *)

\* Nobody deletes a ledger row, so what park found is still there at the
\* discard.
Remembered ==
  /\ del = "no"
  /\ pc \in {"parkWrite", "discard"} => ledger[jobVideo[cur]] # "none"

LEMMA RememberedWorker ==
  ASSUME "channel" \notin Deletes, TypeInv, Remembered, Worker
  PROVE  Remembered'
<1> USE ConstantsAssumption
  DEF TypeInv, JobTypes, VideoTypes, WorkerTypes, AgentTypes, Held, Remembered
<1>1. CASE ResetOrphans
  BY <1>1 DEF ResetOrphans, Running, Fault, NoFault
<1>2. CASE PassGates
  BY <1>2 DEF PassGates
<1>3. CASE ClaimNext
  BY <1>3 DEF ClaimNext, Claimable
<1>4. CASE Register
  BY <1>4 DEF Register
<1>5. CASE ReadVideo
  BY <1>5 DEF ReadVideo, V, RowFacts, Fault, NoFault
<1>6. CASE CheckPreflight
  BY <1>6 DEF CheckPreflight, Fault, NoFault
<1>7. CASE RequeueSettings
  BY <1>7 DEF RequeueSettings, Guarded, Running, Fault, NoFault
<1>8. CASE MetadataGates
  BY <1>8 DEF MetadataGates, RunnerGates, Interrupted
<1>9. CASE MetadataReturns
  BY <1>9 DEF MetadataReturns, RunnerReturns, Interrupted
<1>10. CASE MetadataSettles
  BY <1>10 DEF MetadataSettles, Route
<1>11. CASE SaveMetadata
  BY <1>11 DEF SaveMetadata, V, Fault, NoFault
<1>12. CASE StartDownload
  BY <1>12 DEF StartDownload, V, SetStatus, Fault, NoFault
<1>13. CASE DownloadGates
  BY <1>13 DEF DownloadGates, RunnerGates, Interrupted
<1>14. CASE DownloadReturns
  BY <1>14 DEF DownloadReturns, RunnerReturns, Interrupted
<1>15. CASE DownloadSettles
  BY <1>15 DEF DownloadSettles, Route
<1>16. CASE CompleteDownload
  BY <1>16 DEF CompleteDownload, V, SetStatus, Running, Fault, NoFault
<1>17. CASE Retry
  BY <1>17 DEF Retry, Guarded, Running, Fault, NoFault
<1>18. CASE RetryExhausted
  BY <1>18 DEF RetryExhausted, Guarded, Running, Fault, NoFault
<1>19. CASE Fail
  BY <1>19 DEF Fail, Guarded, Running, Fault, NoFault
<1>20. CASE ParkLookup
  BY <1>20 DEF ParkLookup, V, Fault, NoFault
<1>21. CASE ParkWrite
  BY <1>21 DEF ParkWrite, V, Fault, NoFault
<1>22. CASE ParkDiscard
  BY <1>22 DEF ParkDiscard, V, DropRows, Fault, NoFault
<1>23. CASE MarkError
  BY <1>23 DEF MarkError, V, SetStatus, Fault, NoFault
<1>24. CASE PauseCookie
  BY <1>24 DEF PauseCookie, Fault, NoFault
<1>25. CASE PauseFlag
  BY <1>25 DEF PauseFlag
<1>26. CASE PauseBump
  BY <1>26 DEF PauseBump, Guarded, Running, Fault, NoFault
<1>27. CASE SettleJob
  BY <1>27 DEF SettleJob, Fault, NoFault
<1>28. CASE SettleVideo
  BY <1>28 DEF SettleVideo, V, SetStatus, Fault, NoFault
<1>29. CASE Leave
  BY <1>29 DEF Leave
<1>30. CASE Stop
  BY <1>30 DEF Stop, Dies
<1> QED
  BY <1>1, <1>2, <1>3, <1>4, <1>5, <1>6, <1>7, <1>8, <1>9, <1>10, <1>11, <1>12, <1>13, <1>14,
    <1>15, <1>16, <1>17, <1>18, <1>19, <1>20, <1>21, <1>22, <1>23, <1>24, <1>25, <1>26, <1>27,
    <1>28, <1>29, <1>30 DEF Worker

LEMMA RememberedHandlers ==
  ASSUME "channel" \notin Deletes, TypeInv, Remembered, Handlers
  PROVE  Remembered'
<1> USE ConstantsAssumption
  DEF TypeInv, JobTypes, VideoTypes, WorkerTypes, AgentTypes, Held, Remembered
<1>1. ASSUME NEW v \in Videos, AddByURL(v) \/ Approve(v) \/ Redownload(v) PROVE Remembered'
  BY <1>1 DEF AddByURL, Approve, Redownload, Decide
<1>2. ASSUME NEW v \in Videos, EnqueueNew(v) PROVE Remembered'
  BY <1>2 DEF EnqueueNew, Decided, EnqueueDownload, InsertJob
<1>3. ASSUME NEW v \in Videos, EnqueueKnown(v) PROVE Remembered'
  BY <1>3 DEF EnqueueKnown, Decided, EnqueueDownload, InsertJob
<1>4. ASSUME NEW v \in Videos, SettleEntry(v) PROVE Remembered'
  BY <1>4 DEF SettleEntry, Decided
<1>5. ASSUME NEW v \in Videos, DeleteVideo(v) PROVE Remembered'
  BY <1>5 DEF DeleteVideo, DropRows, Up
<1>6. ASSUME NEW j \in Jobs, CancelDownload(j) PROVE Remembered'
  BY <1>6 DEF CancelDownload, CancelJob, Up
<1>7. ASSUME NEW j \in Jobs, DeleteChannelCancel(j) PROVE Remembered'
  BY <1>7 DEF DeleteChannelCancel, CancelJob
<1>8. CASE DeleteChannelBegin
  BY <1>8 DEF DeleteChannelBegin
<1>9. CASE DeleteChannelRows
  BY <1>9 DEF DeleteChannelRows, DropRows
<1>10. CASE PasteCookie
  BY <1>10 DEF PasteCookie
<1>11. CASE Resume
  BY <1>11 DEF Resume
<1>12. CASE ToggleYoutubePause
  BY <1>12 DEF ToggleYoutubePause
<1> QED
  BY <1>1, <1>2, <1>3, <1>4, <1>5, <1>6, <1>7, <1>8, <1>9, <1>10, <1>11, <1>12 DEF Handlers

LEMMA RememberedRest ==
  ASSUME "channel" \notin Deletes, TypeInv, Remembered, Clock \/ Scan \/ Process
  PROVE  Remembered'
<1> USE ConstantsAssumption
  DEF TypeInv, JobTypes, VideoTypes, WorkerTypes, AgentTypes, Held, Remembered
<1>1. CASE ScanFlagsCookie
  BY <1>1 DEF ScanFlagsCookie
<1>2. ASSUME NEW v \in Videos, ScanRevives(v) PROVE Remembered'
  BY <1>2 DEF ScanRevives
<1>3. ASSUME NEW v \in Videos, ScanAuto(v) PROVE Remembered'
  BY <1>3 DEF ScanAuto, ScanUpsert, ScanSetQueued, ScanEnqueue, ScanRecord, ScanFails, ScanStep,
    InsertJob, SetStatus, Fault, NoFault
<1>4. CASE Shutdown
  BY <1>4 DEF Shutdown
<1>5. CASE Crash
  BY <1>5 DEF Crash, Dies, Up
<1>6. CASE Boot
  BY <1>6 DEF Boot
<1>7. CASE Panic
  BY <1>7 DEF Panic
<1>8. CASE CoolOffEnds
  BY <1>8 DEF CoolOffEnds
<1>9. ASSUME NEW j \in Jobs, BackoffElapses(j) PROVE Remembered'
  BY <1>9 DEF BackoffElapses
<1> QED
  BY <1>1, <1>2, <1>3, <1>4, <1>5, <1>6, <1>7, <1>8, <1>9 DEF Clock, Scan, Process

LEMMA StepsFromDiscard ==
  ASSUME Next, pc = "discard", pc' = "leave"
  PROVE  ParkDiscard \/ Panic
<1>1. CASE Worker
  BY <1>1 DEF Worker, ResetOrphans, PassGates, ClaimNext, Register, ReadVideo, CheckPreflight,
     RequeueSettings, MetadataGates, MetadataReturns, DownloadGates, DownloadReturns, RunnerGates,
     RunnerReturns, MetadataSettles, DownloadSettles, SaveMetadata, StartDownload,
     CompleteDownload, Retry, RetryExhausted, Fail, ParkLookup, ParkWrite, MarkError,
     PauseCookie, PauseFlag, PauseBump, SettleJob, SettleVideo, Leave, Stop
<1>2. CASE Clock BY <1>2 DEF Clock, CoolOffEnds, BackoffElapses
<1>3. CASE Handlers
  BY <1>3 DEF Handlers, AddByURL, Approve, Redownload, Decide, DeleteVideo, EnqueueNew,
     EnqueueKnown, SettleEntry, CancelDownload, DeleteChannelCancel, DeleteChannelBegin,
     DeleteChannelRows, PasteCookie, Resume, ToggleYoutubePause
<1>4. CASE Scan BY <1>4 DEF Scan, ScanFlagsCookie, ScanRevives, ScanAuto
<1>5. CASE Process BY <1>5 DEF Process, Shutdown, Crash, Dies, Boot
<1> QED BY <1>1, <1>2, <1>3, <1>4, <1>5 DEF Next

\* The row the worker discards was never downloaded and the scan ledger
\* remembers the video, whatever fails, panics or crashes, as long as no
\* channel is deleted: deleting one deletes its ledger rows by design.
THEOREM DiscardsLoseNothing ==
  ASSUME "channel" \notin Deletes
  PROVE  Spec => DiscardLosesNothing
<1>1. Init => Remembered BY DEF Init, Remembered
<1>2. TypeInv /\ Remembered /\ [Next]_vars => Remembered'
  <2> SUFFICES ASSUME TypeInv, Remembered, [Next]_vars PROVE Remembered' OBVIOUS
  <2>1. CASE Worker BY <2>1, RememberedWorker
  <2>2. CASE Handlers BY <2>2, RememberedHandlers
  <2>3. CASE Clock \/ Scan \/ Process BY <2>3, RememberedRest
  <2>4. CASE UNCHANGED vars BY <2>4 DEF vars, Remembered
  <2> QED BY <2>1, <2>2, <2>3, <2>4 DEF Next
<1>3. ASSUME TypeInv, InHand, Remembered, Next, pc = "discard", pc' = "leave",
             NEW v \in Videos, status[v] # "none", status'[v] = "none"
      PROVE  v \notin had /\ ledger[v] # "none"
  <2>1. V \notin had /\ ledger[V] # "none"
    BY <1>3 DEF V, InHand, CopyOfRow, Remembered
  <2>2. \A w \in Videos : w # V => (status'[w] = "none" => status[w] = "none")
    <3>1. CASE ParkDiscard BY <3>1 DEF ParkDiscard, DropRows
    <3>2. CASE Panic BY <3>2 DEF Panic
    <3>3. ParkDiscard \/ Panic BY <1>3, StepsFromDiscard
    <3> QED BY <3>1, <3>2, <3>3
  <2> QED BY <1>3, <2>1, <2>2
<1>4. TypeInv /\ InHand /\ Remembered /\ [Next]_vars
        => [(pc = "discard" /\ pc' = "leave") =>
             \A v \in Videos :
               (status[v] # "none" /\ status'[v] = "none") => v \notin had /\ ledger[v] # "none"]_vars
  BY <1>3
<1> QED BY <1>1, <1>2, <1>4, InHandAlways, PTL DEF Spec, DiscardLosesNothing

\* When nothing fails, panics, crashes, is cancelled or is deleted with its
\* channel, what is pasted is kept when it is deleted, and a shutdown does not
\* meet a scan that enqueues.
Stays ==
  /\ MaxFaults = 0 /\ MaxPanics = 0 /\ MaxCrashes = 0
  /\ Cancels = FALSE /\ "channel" \notin Deletes /\ Pasted \subseteq Kept
  /\ MaxShutdowns = 0 \/ Automatic = {}

\* A video that claims to be on its way has a job, or is between two writes of
\* the worker, which holds its row and will write the second, or of the scan.
Covered(v) == HasLiveJob(v) \/ (Settling(v) /\ snap # {}) \/ Enqueuing(v)

\* The job in hand goes only with its videos row, purged from the Library. The
\* purge settles the ledger row, so no scan brings the video back behind the
\* worker's back; a person who does brings a job along.
PurgedInHand ==
  /\ pc \in Undecided /\ jobState[cur] = "gone" =>
       /\ ledger[jobVideo[cur]] = "queued" /\ jobVideo[cur] \notin Kept
       /\ status[jobVideo[cur]] # "none" => HasLiveJob(jobVideo[cur])
  /\ pc \in {"settle", "settleVideo"} => jobState[cur] = "gone"

\* Nobody cancels, and nothing cuts a scan short between its writes.
NobodyCancels ==
  /\ del = "no" /\ ~cancelReq
  /\ \A j \in Jobs : jobState[j] # "canceled"
  /\ MaxShutdowns = 0 => ~stopping
  /\ Automatic = {} => scanAt = "idle"

AllCovered ==
  /\ \A v \in Videos : status[v] \in {"queued", "downloading"} => Covered(v)
  /\ PurgedInHand /\ NobodyCancels

\* What an enqueue adds to the jobs: one live job of the video, and nothing
\* else changes.
LEMMA InsertCovers ==
  ASSUME TypeInv, NEW w \in Videos, NEW p \in {0, 1}, InsertJob(w, p)
  PROVE  /\ \E j \in Jobs : jobVideo'[j] = w /\ jobState'[j] = "pending"
         /\ \A j \in Jobs : jobState[j] # "none" =>
              jobState'[j] = jobState[j] /\ jobVideo'[j] = jobVideo[j]
         /\ \A j \in Jobs : jobState[j] = "none" => jobState'[j] \in {"none", "pending"}
  BY DEF TypeInv, JobTypes, InsertJob

\* A video stays covered while its jobs, the second write and the scan are
\* still to come.
LEMMA StaysCovered ==
  ASSUME NEW v \in Videos, Covered(v),
         \A j \in Jobs : jobVideo[j] = v /\ jobState[j] \in Live =>
           jobVideo'[j] = v /\ jobState'[j] \in Live,
         Settling(v) /\ snap # {} => (Settling(v) /\ snap # {})',
         Enqueuing(v) => Enqueuing(v)'
  PROVE  Covered(v)'
<1>1. CASE HasLiveJob(v) BY <1>1 DEF HasLiveJob, Covered
<1>2. CASE Settling(v) /\ snap # {} BY <1>2 DEF Covered
<1>3. CASE Enqueuing(v) BY <1>3 DEF Covered
<1> QED BY <1>1, <1>2, <1>3 DEF Covered

\* A guarded write either keeps the job alive, or ends it with the second write
\* still to come, or finds it purged.
LEMMA GuardedCovers ==
  ASSUME Stays, SettledInv, AllCovered, pc \in Undecided \ {"claimed", "read"},
         NEW n, NEW later, NEW next, NEW s, NEW notRunning \in {"leave", "settle"},
         (s = "pending" /\ next = "leave") \/ (s = "failed" /\ next \in {"markErr", "park"}),
         Guarded(s, n, later, next, notRunning),
         UNCHANGED <<status, ledger, cur, snap, cancelReq, del, scanVars, stopping>>
  PROVE  AllCovered'
<1> USE ConstantsAssumption
    DEF TypeInv, JobTypes, WorkerTypes, BoundTypes, Held, SettledInv, InHand, JobInHand, Settled,
        Stays, AllCovered, PurgedInHand, NobodyCancels, Undecided, Registered
<1>1. CASE Running(cur) /\ jobState' = [jobState EXCEPT ![cur] = s] /\ jobVideo' = jobVideo
           /\ pc' = next
  <2>1. ASSUME NEW v \in Videos, status'[v] \in {"queued", "downloading"} PROVE Covered(v)'
    <3>1. Covered(v) BY <2>1
    <3>2. CASE jobVideo[cur] = v /\ s = "failed"
      <4>1. (Settling(v) /\ snap # {})' BY <1>1, <3>2 DEF Settling, Running
      <4> QED BY <4>1 DEF Covered
    <3>3. CASE ~(jobVideo[cur] = v /\ s = "failed")
      <4>1. \A j \in Jobs : jobVideo[j] = v /\ jobState[j] \in Live =>
              jobVideo'[j] = v /\ jobState'[j] \in Live
        BY <1>1, <3>3 DEF Running
      <4>2. ~Settling(v) BY DEF Settling
      <4>3. Enqueuing(v) => Enqueuing(v)' BY DEF Enqueuing
      <4> QED BY <3>1, <4>1, <4>2, <4>3, StaysCovered
    <3> QED BY <3>2, <3>3
  <2>2. PurgedInHand' BY <1>1
  <2>3. NobodyCancels' BY <1>1
  <2> QED BY <2>1, <2>2, <2>3
<1>2. CASE ~Running(cur) /\ UNCHANGED jobVars /\ pc' = notRunning
  <2>1. ASSUME NEW v \in Videos, status'[v] \in {"queued", "downloading"} PROVE Covered(v)'
    <3>1. Covered(v) BY <2>1
    <3>2. ~Settling(v) BY DEF Settling
    <3>3. Enqueuing(v) => Enqueuing(v)' BY DEF Enqueuing
    <3> QED BY <1>2, <3>1, <3>2, <3>3, StaysCovered
  <2>2. PurgedInHand' BY <1>2 DEF Running
  <2>3. NobodyCancels' BY <1>2
  <2> QED BY <2>1, <2>2, <2>3
<1>3. ~Fault BY DEF Fault
<1> QED BY <1>1, <1>2, <1>3 DEF Guarded

\* An enqueue covers its video and leaves the others as they were.
LEMMA EnqueueCovers ==
  ASSUME TypeInv, AllCovered, NEW w \in Videos, EnqueueDownload(w),
         UNCHANGED <<pc, cur, snap, cancelReq, del, scanVars, stopping>>
  PROVE  AllCovered'
<1> USE DEF TypeInv, JobTypes, VideoTypes, WorkerTypes, Held, AllCovered, PurgedInHand,
            NobodyCancels, Undecided, Registered
<1>0. /\ \E j \in Jobs : jobVideo'[j] = w /\ jobState'[j] = "pending"
      /\ \A j \in Jobs : jobState[j] # "none" =>
           jobState'[j] = jobState[j] /\ jobVideo'[j] = jobVideo[j]
      /\ \A j \in Jobs : jobState[j] = "none" => jobState'[j] \in {"none", "pending"}
  BY InsertCovers DEF EnqueueDownload
<1>1. HasLiveJob(w)' BY <1>0 DEF HasLiveJob
<1>2. ASSUME NEW v \in Videos, status'[v] \in {"queued", "downloading"} PROVE Covered(v)'
  <2>1. CASE v = w BY <1>1, <2>1 DEF Covered
  <2>2. CASE v # w
    <3>1. Covered(v) BY <1>2, <2>2 DEF EnqueueDownload
    <3>2. Settling(v) /\ snap # {} => (Settling(v) /\ snap # {})' BY <1>0 DEF Settling
    <3>3. Enqueuing(v) => Enqueuing(v)' BY DEF Enqueuing
    <3> QED BY <1>0, <3>1, <3>2, <3>3, StaysCovered
  <2> QED BY <2>1, <2>2
<1>3. PurgedInHand'
  <2>1. CASE pc \in Undecided /\ jobState'[cur] = "gone"
    <3>1. cur \in Jobs /\ jobState[cur] = "gone" /\ jobVideo'[cur] = jobVideo[cur]
      BY <1>0, <2>1
    <3>2. ledger'[jobVideo[cur]] = "queued" BY <2>1, <3>1 DEF EnqueueDownload
    <3>3. status'[jobVideo[cur]] # "none" => HasLiveJob(jobVideo[cur])'
      <4>1. CASE jobVideo[cur] = w BY <1>0, <3>1, <4>1 DEF HasLiveJob
      <4>2. CASE jobVideo[cur] # w
        <5>1. status'[jobVideo[cur]] = status[jobVideo[cur]] BY <4>2 DEF EnqueueDownload
        <5> QED BY <1>0, <2>1, <3>1, <5>1 DEF HasLiveJob
      <4> QED BY <4>1, <4>2
    <3> QED BY <2>1, <3>1, <3>2, <3>3 DEF HasLiveJob
  <2>2. CASE pc \in {"settle", "settleVideo"} BY <1>0, <2>2
  <2> QED BY <2>1, <2>2
<1>4. NobodyCancels' BY <1>0
<1> QED BY <1>2, <1>3, <1>4

LEMMA CoveredWorker ==
  ASSUME Stays, SettledInv, AllCovered, Worker
  PROVE  AllCovered'
<1> USE ConstantsAssumption
  DEF TypeInv, JobTypes, VideoTypes, WorkerTypes, AgentTypes, BoundTypes, Held,
      SettledInv, InHand, JobHasRow, JobInHand, CopyOfRow, UntitledIsPasted, Settled,
      Stays, AllCovered, Covered, PurgedInHand, NobodyCancels, HasLiveJob, Settling,
      Enqueuing, Registered, Undecided
<1>1. CASE ResetOrphans
  BY <1>1 DEF ResetOrphans, Running, Fault, NoFault
<1>2. CASE PassGates
  BY <1>2 DEF PassGates
<1>3. CASE ClaimNext
  <2>1. UNCHANGED <<status, ledger, jobVideo, snap, cancelReq, del, stopping, scanVars>>
    BY <1>3 DEF ClaimNext
  <2>2. \A j \in Jobs : jobState[j] \in Live => jobState'[j] \in Live
    BY <1>3 DEF ClaimNext
  <2>3. ASSUME NEW v \in Videos, status'[v] \in {"queued", "downloading"} PROVE Covered(v)'
    <3>1. Covered(v) /\ ~Settling(v) BY <1>3, <2>1, <2>3 DEF ClaimNext
    <3>2. Enqueuing(v) => Enqueuing(v)' BY <2>1
    <3> QED BY <2>1, <2>2, <3>1, <3>2, StaysCovered
  <2>4. PurgedInHand' BY <1>3, <2>1 DEF ClaimNext, Claimable
  <2>5. NobodyCancels' BY <1>3, <2>1 DEF ClaimNext, Claimable
  <2> QED BY <2>3, <2>4, <2>5
<1>4. CASE Register
  BY <1>4 DEF Register
<1>5. CASE ReadVideo
  BY <1>5 DEF ReadVideo, V, RowFacts, Fault, NoFault
<1>6. CASE CheckPreflight
  BY <1>6 DEF CheckPreflight, Fault, NoFault
<1>7. CASE RequeueSettings
  BY <1>7 DEF RequeueSettings, Guarded, Running, Fault, NoFault
<1>8. CASE MetadataGates
  BY <1>8 DEF MetadataGates, RunnerGates, Interrupted
<1>9. CASE MetadataReturns
  BY <1>9 DEF MetadataReturns, RunnerReturns, Interrupted
<1>10. CASE MetadataSettles
  BY <1>10 DEF MetadataSettles, Route
<1>11. CASE SaveMetadata
  BY <1>11 DEF SaveMetadata, V, Fault, NoFault
<1>12. CASE StartDownload
  BY <1>12 DEF StartDownload, V, SetStatus, Fault, NoFault
<1>13. CASE DownloadGates
  BY <1>13 DEF DownloadGates, RunnerGates, Interrupted
<1>14. CASE DownloadReturns
  BY <1>14 DEF DownloadReturns, RunnerReturns, Interrupted
<1>15. CASE DownloadSettles
  BY <1>15 DEF DownloadSettles, Route
<1>16. CASE CompleteDownload
  <2>0. UNCHANGED <<jobVideo, ledger, cur, snap, cancelReq, del, stopping, scanVars>>
    BY <1>16 DEF CompleteDownload
  <2>1. CASE /\ jobState' = [jobState EXCEPT ![cur] = "done"] /\ SetStatus(V, "downloaded")
             /\ pc' = "leave"
    <3>1. ASSUME NEW v \in Videos, status'[v] \in {"queued", "downloading"} PROVE Covered(v)'
      <4>1. v # V /\ status'[v] = status[v] BY <2>1, <3>1 DEF SetStatus
      <4>2. Covered(v) /\ ~Settling(v) BY <1>16, <3>1, <4>1 DEF CompleteDownload
      <4>3. Enqueuing(v) => Enqueuing(v)' BY <2>0
      <4> QED BY <2>0, <2>1, <4>1, <4>2, <4>3, StaysCovered DEF V
    <3> QED BY <2>0, <2>1, <3>1
  <2>2. CASE UNCHANGED <<jobState, status>> /\ (pc' = "retry" \/ (pc' = "settle" /\ ~Running(cur)))
    BY <1>16, <2>0, <2>2 DEF CompleteDownload, Running
  <2> QED BY <1>16, <2>1, <2>2 DEF CompleteDownload
<1>17. CASE Retry
  <2>1. Guarded("pending", attempts[cur] + 1, backoff \cup {cur}, "leave", "settle")
    BY <1>17 DEF Retry
  <2>2. pc = "retry" /\ UNCHANGED <<status, ledger, cur, snap, cancelReq, del, scanVars, stopping>>
    BY <1>17 DEF Retry
  <2> HIDE DEF AllCovered, SettledInv, Stays
  <2> QED BY <2>1, <2>2, GuardedCovers
<1>18. CASE RetryExhausted
  BY <1>18, GuardedCovers DEF RetryExhausted
<1>19. CASE Fail
  BY <1>19, GuardedCovers DEF Fail
<1>20. CASE ParkLookup
  BY <1>20 DEF ParkLookup, V, Fault, NoFault
<1>21. CASE ParkWrite
  BY <1>21 DEF ParkWrite, V, Fault, NoFault
<1>22. CASE ParkDiscard
  BY <1>22 DEF ParkDiscard, V, DropRows, Fault, NoFault
<1>23. CASE MarkError
  BY <1>23 DEF MarkError, V, SetStatus, Fault, NoFault
<1>24. CASE PauseCookie
  BY <1>24 DEF PauseCookie, Fault, NoFault
<1>25. CASE PauseFlag
  BY <1>25 DEF PauseFlag
<1>26. CASE PauseBump
  <2>1. Guarded("pending", attempts[cur], backoff, "leave", "leave")
    BY <1>26 DEF PauseBump
  <2>2. /\ pc \in {"pauseBump", "requeue"}
        /\ UNCHANGED <<status, ledger, cur, snap, cancelReq, del, scanVars, stopping>>
    BY <1>26 DEF PauseBump
  <2> HIDE DEF AllCovered, SettledInv, Stays
  <2> QED BY <2>1, <2>2, GuardedCovers
<1>27. CASE SettleJob
  <2>1. UNCHANGED <<jobState, jobVideo, status, ledger, cur, snap>> /\ pc' = "settleVideo"
    BY <1>27 DEF SettleJob, Fault
  <2> QED BY <1>27, <2>1 DEF SettleJob
<1>28. CASE SettleVideo
  <2>0. UNCHANGED <<jobState, jobVideo, ledger, cur, snap, cancelReq, del, stopping, scanVars>>
        /\ pc' = "leave"
    BY <1>28 DEF SettleVideo
  <2>1. \A w \in Videos : status'[w] \in {"queued", "downloading"} =>
          status[w] \in {"queued", "downloading"} /\ (snap = {} \/ w # jobVideo[cur])
    BY <1>28 DEF SettleVideo, V, SetStatus, Fault
  <2>2. ASSUME NEW w \in Videos, status'[w] \in {"queued", "downloading"} PROVE Covered(w)'
    <3>1. Covered(w) /\ ~(Settling(w) /\ snap # {}) BY <2>1, <2>2 DEF Settling
    <3>2. Enqueuing(w) => Enqueuing(w)' BY <2>0
    <3> QED BY <2>0, <3>1, <3>2, StaysCovered
  <2> QED BY <2>0, <2>2
<1>29. CASE Leave
  BY <1>29 DEF Leave
<1>30. CASE Stop
  BY <1>30 DEF Stop, Dies
<1> QED
  BY <1>1, <1>2, <1>3, <1>4, <1>5, <1>6, <1>7, <1>8, <1>9, <1>10, <1>11, <1>12, <1>13, <1>14,
    <1>15, <1>16, <1>17, <1>18, <1>19, <1>20, <1>21, <1>22, <1>23, <1>24, <1>25, <1>26, <1>27,
    <1>28, <1>29, <1>30 DEF Worker

LEMMA CoveredHandlers ==
  ASSUME Stays, SettledInv, AllCovered, Handlers
  PROVE  AllCovered'
<1> USE ConstantsAssumption
  DEF TypeInv, JobTypes, VideoTypes, WorkerTypes, AgentTypes, BoundTypes, Held,
      SettledInv, InHand, JobHasRow, JobInHand, CopyOfRow, UntitledIsPasted, Settled,
      Stays, AllCovered, Covered, PurgedInHand, NobodyCancels, HasLiveJob, Settling,
      Enqueuing, Registered, Undecided
<1>1. ASSUME NEW v \in Videos, AddByURL(v) \/ Approve(v) \/ Redownload(v) PROVE AllCovered'
  <2>1. UNCHANGED <<jobState, jobVideo, status, ledger, pc, cur, snap, cancelReq, del, stopping,
  scanVars>>
    BY <1>1 DEF AddByURL, Approve, Redownload, Decide
  <2> QED BY <2>1
<1>2. ASSUME NEW v \in Videos, EnqueueNew(v) PROVE AllCovered'
  BY <1>2, EnqueueCovers DEF EnqueueNew
<1>3. ASSUME NEW v \in Videos, EnqueueKnown(v) PROVE AllCovered'
  <2>1. CASE EnqueueDownload(v) BY <1>3, <2>1, EnqueueCovers DEF EnqueueKnown
  <2>2. CASE UNCHANGED <<jobVars, status, ledger>> BY <1>3, <2>2 DEF EnqueueKnown
  <2> QED BY <1>3, <2>1, <2>2 DEF EnqueueKnown
<1>4. ASSUME NEW v \in Videos, SettleEntry(v) PROVE AllCovered'
  BY <1>4 DEF SettleEntry, Decided
<1>5. ASSUME NEW v \in Videos, DeleteVideo(v) PROVE AllCovered'
  <2>0. UNCHANGED <<jobVideo, pc, cur, snap, cancelReq, del, stopping, scanVars>>
    BY <1>5 DEF DeleteVideo, DropRows
  <2>1. CASE status' = [status EXCEPT ![v] = "tombstoned"] /\ UNCHANGED <<jobVars, ledger>>
    <3>1. ASSUME NEW w \in Videos, status'[w] \in {"queued", "downloading"} PROVE Covered(w)'
      <4>1. Covered(w) BY <2>1, <3>1
      <4> QED BY <2>0, <2>1, <4>1, StaysCovered
    <3>2. PurgedInHand'
      <4>1. HasLiveJob(jobVideo[cur]) => HasLiveJob(jobVideo[cur])' BY <2>0, <2>1
      <4>2. status'[jobVideo[cur]] # "none" /\ jobVideo[cur] \in Videos => status[jobVideo[cur]] # "none"
        BY <1>5, <2>1 DEF DeleteVideo
      <4> QED BY <2>0, <2>1, <4>1, <4>2
    <3>3. NobodyCancels' BY <2>0, <2>1
    <3> QED BY <3>1, <3>2, <3>3
  <2>2. CASE v \notin Kept /\ DropRows({v}) /\ ledger' = [ledger EXCEPT ![v] = "queued"]
    <3>1. ASSUME NEW w \in Videos, w # v
          PROVE  /\ status'[w] = status[w] /\ ledger'[w] = ledger[w]
                 /\ \A j \in Jobs : jobVideo[j] = w => jobState'[j] = jobState[j]
      BY <2>2, <3>1 DEF DropRows
    <3>2. ASSUME NEW w \in Videos, status'[w] \in {"queued", "downloading"} PROVE Covered(w)'
      <4>1. w # v BY <2>2, <3>2 DEF DropRows
      <4>2. Covered(w) BY <3>1, <3>2, <4>1
      <4> QED BY <2>0, <3>1, <4>1, <4>2, StaysCovered
    <3>3. PurgedInHand'
      <4>1. CASE jobVideo[cur] = v
        <5>1. cur \in Jobs => jobState'[cur] = IF jobState[cur] # "none" THEN "gone" ELSE "none"
          BY <2>2, <4>1 DEF DropRows
        <5>2. status'[v] = "none" /\ ledger'[v] = "queued" BY <2>2 DEF DropRows
        <5> QED BY <2>0, <2>2, <4>1, <5>1, <5>2
      <4>2. CASE cur \in Jobs /\ jobVideo[cur] # v
        <5>1. jobState'[cur] = jobState[cur] BY <2>2, <4>2 DEF DropRows
        <5>2. CASE jobState[cur] # "none"
          <6>1. jobVideo[cur] \in Videos BY <4>2, <5>2
          <6>2. HasLiveJob(jobVideo[cur]) => HasLiveJob(jobVideo[cur])'
            BY <2>0, <3>1, <4>2, <6>1
          <6> QED BY <2>0, <3>1, <4>2, <5>1, <6>1, <6>2
        <5> QED BY <2>0, <5>1, <5>2
      <4> QED BY <2>0, <4>1, <4>2
    <3>4. NobodyCancels' BY <2>0, <2>2 DEF DropRows
    <3> QED BY <3>2, <3>3, <3>4
  <2> QED BY <1>5, <2>1, <2>2 DEF DeleteVideo
<1>6. ASSUME NEW j \in Jobs, CancelDownload(j) PROVE AllCovered'
  BY <1>6 DEF CancelDownload, CancelJob, Up
<1>7. ASSUME NEW j \in Jobs, DeleteChannelCancel(j) PROVE AllCovered'
  BY <1>7 DEF DeleteChannelCancel, CancelJob
<1>8. CASE DeleteChannelBegin
  BY <1>8 DEF DeleteChannelBegin
<1>9. CASE DeleteChannelRows
  BY <1>9 DEF DeleteChannelRows, DropRows
<1>10. CASE PasteCookie
  BY <1>10 DEF PasteCookie
<1>11. CASE Resume
  BY <1>11 DEF Resume
<1>12. CASE ToggleYoutubePause
  BY <1>12 DEF ToggleYoutubePause
<1> QED
  BY <1>1, <1>2, <1>3, <1>4, <1>5, <1>6, <1>7, <1>8, <1>9, <1>10, <1>11, <1>12 DEF Handlers

LEMMA CoveredRest ==
  ASSUME Stays, SettledInv, AllCovered, Clock \/ Scan \/ Process
  PROVE  AllCovered'
<1> USE ConstantsAssumption
  DEF TypeInv, JobTypes, VideoTypes, WorkerTypes, AgentTypes, BoundTypes, Held,
      SettledInv, InHand, JobHasRow, JobInHand, CopyOfRow, UntitledIsPasted, Settled,
      Stays, AllCovered, Covered, PurgedInHand, NobodyCancels, HasLiveJob, Settling,
      Enqueuing, Registered, Undecided
<1>1. CASE ScanFlagsCookie
  BY <1>1 DEF ScanFlagsCookie
<1>2. ASSUME NEW v \in Videos, ScanRevives(v) PROVE AllCovered'
  BY <1>2 DEF ScanRevives
<1>3. ASSUME NEW v \in Videos, ScanAuto(v) PROVE AllCovered'
  <2>0. UNCHANGED <<pc, cur, snap, cancelReq, del, stopping>> BY <1>3 DEF ScanAuto
  <2>a. scanAt # "idle" \/ v \in Automatic BY <1>3 DEF ScanAuto, ScanUpsert, ScanSetQueued,
    ScanEnqueue, ScanRecord, ScanFails, ScanStep
  <2>b. MaxShutdowns = 0 /\ Automatic # {} BY <2>a
  <2>1. CASE ScanUpsert(v)
    <3>0. /\ UNCHANGED <<jobState, jobVideo, ledger>> /\ scanAt = "idle" /\ ledger[v] # "queued"
          /\ status' = [status EXCEPT ![v] = IF @ = "none" THEN "new" ELSE @]
      BY <2>1 DEF ScanUpsert, ScanStep
    <3>1. ASSUME NEW w \in Videos, status'[w] \in {"queued", "downloading"} PROVE Covered(w)'
      <4>1. Covered(w) /\ ~Enqueuing(w) BY <3>0, <3>1
      <4>2. Settling(w) /\ snap # {} => (Settling(w) /\ snap # {})' BY <2>0, <3>0
      <4> QED BY <3>0, <4>1, <4>2, StaysCovered
    <3>2. PurgedInHand'
      <4>1. HasLiveJob(jobVideo[cur]) => HasLiveJob(jobVideo[cur])' BY <2>0, <3>0
      <4>2. jobVideo[cur] # v => status'[jobVideo[cur]] = status[jobVideo[cur]] BY <3>0
      <4> QED BY <2>0, <3>0, <4>1, <4>2
    <3> QED BY <2>0, <2>b, <3>0, <3>1, <3>2
  <2>2. CASE ScanSetQueued(v)
    <3>0. /\ UNCHANGED <<jobState, jobVideo, ledger>> /\ scanAt = "status"
          /\ scanAt' = "job" /\ scanned' = v
          /\ status' = [status EXCEPT ![v] = IF @ = "none" THEN "none" ELSE "queued"]
      BY <2>2 DEF ScanSetQueued, ScanStep, SetStatus
    <3>1. ASSUME NEW w \in Videos, status'[w] \in {"queued", "downloading"} PROVE Covered(w)'
      <4>1. CASE w = v BY <3>0, <4>1
      <4>2. CASE w # v
        <5>1. Covered(w) /\ ~Enqueuing(w) BY <3>0, <3>1, <4>2
        <5>2. Settling(w) /\ snap # {} => (Settling(w) /\ snap # {})' BY <2>0, <3>0
        <5> QED BY <3>0, <5>1, <5>2, StaysCovered
      <4> QED BY <4>1, <4>2
    <3>2. PurgedInHand'
      <4>1. HasLiveJob(jobVideo[cur]) => HasLiveJob(jobVideo[cur])' BY <2>0, <3>0
      <4>2. status'[jobVideo[cur]] # "none" /\ jobVideo[cur] \in Videos => status[jobVideo[cur]] # "none"
        BY <3>0
      <4> QED BY <2>0, <3>0, <4>1, <4>2
    <3> QED BY <2>0, <2>b, <3>0, <3>1, <3>2
  <2>3. CASE ScanEnqueue(v)
    <3>0. scanAt = "job" /\ scanned = v BY <2>3 DEF ScanEnqueue, ScanStep
        <3>1. CASE status[v] # "none" /\ InsertJob(v, 0) /\ UNCHANGED <<status, ledger>> /\
               scanAt' = "record"
      <4>0. /\ \E j \in Jobs : jobVideo'[j] = v /\ jobState'[j] = "pending"
            /\ \A j \in Jobs : jobState[j] # "none" =>
                 jobState'[j] = jobState[j] /\ jobVideo'[j] = jobVideo[j]
            /\ \A j \in Jobs : jobState[j] = "none" => jobState'[j] \in {"none", "pending"}
        BY <3>1, InsertCovers
      <4>1. ASSUME NEW w \in Videos, status'[w] \in {"queued", "downloading"} PROVE Covered(w)'
        <5>1. CASE w = v BY <4>0, <5>1
        <5>2. CASE w # v
          <6>1. Covered(w) /\ ~Enqueuing(w) BY <3>0, <3>1, <4>1, <5>2
          <6>2. Settling(w) /\ snap # {} => (Settling(w) /\ snap # {})' BY <2>0, <4>0
          <6> QED BY <4>0, <6>1, <6>2, StaysCovered
        <5> QED BY <5>1, <5>2
      <4>2. PurgedInHand'
        <5>1. pc \in InProcess => cur \in Jobs /\ jobState'[cur] = jobState[cur] /\ jobVideo'[cur] = jobVideo[cur]
          BY <4>0
        <5>2. pc \in InProcess /\ HasLiveJob(jobVideo[cur]) => HasLiveJob(jobVideo[cur])'
          BY <2>0, <4>0, <5>1
        <5> QED BY <2>0, <3>1, <5>1, <5>2
      <4>3. NobodyCancels' BY <2>0, <2>b, <4>0
      <4> QED BY <4>1, <4>2, <4>3
    <3>2. CASE status[v] = "none" /\ UNCHANGED <<jobVars, status, ledger>>
      <4>1. ASSUME NEW w \in Videos, status'[w] \in {"queued", "downloading"} PROVE Covered(w)'
        <5>1. w # v /\ Covered(w) /\ ~Enqueuing(w) BY <3>0, <3>2, <4>1
        <5>2. Settling(w) /\ snap # {} => (Settling(w) /\ snap # {})' BY <2>0, <3>2
        <5> QED BY <3>2, <5>1, <5>2, StaysCovered
      <4> QED BY <2>0, <2>b, <3>2, <4>1
    <3> QED BY <2>3, <3>1, <3>2 DEF ScanEnqueue, ScanStep
  <2>4. CASE ScanRecord(v) BY <2>0, <2>4 DEF ScanRecord, ScanStep
  <2>5. ~Fault BY DEF Fault
  <2> QED BY <1>3, <2>1, <2>2, <2>3, <2>4, <2>5 DEF ScanAuto, ScanFails
<1>4. CASE Shutdown
  BY <1>4 DEF Shutdown
<1>5. CASE Crash
  BY <1>5 DEF Crash, Dies, Up
<1>6. CASE Boot
  BY <1>6 DEF Boot
<1>7. CASE Panic
  BY <1>7 DEF Panic
<1>8. CASE CoolOffEnds
  BY <1>8 DEF CoolOffEnds
<1>9. ASSUME NEW j \in Jobs, BackoffElapses(j) PROVE AllCovered'
  BY <1>9 DEF BackoffElapses
<1> QED
  BY <1>1, <1>2, <1>3, <1>4, <1>5, <1>6, <1>7, <1>8, <1>9 DEF Clock, Scan, Process

\* No video is left 'queued' or 'downloading' with no job behind it, whatever
\* gates, pauses, retries, parks, purges, scans and shutdowns do. What the
\* assumptions leave out does strand a video: a failed second write, a panic or
\* a crash between two writes, a cancel of a waiting job, the purge of a video
\* whose metadata is being saved, and a shutdown between two writes of a scan.
THEOREM NothingIsStranded ==
  ASSUME Stays
  PROVE  Spec => []NothingStranded
<1>1. Init => AllCovered
  BY DEF Init, AllCovered, PurgedInHand, NobodyCancels, Undecided, Registered
<1>2. SettledInv /\ AllCovered /\ [Next]_vars => AllCovered'
  <2> SUFFICES ASSUME SettledInv, AllCovered, [Next]_vars PROVE AllCovered' OBVIOUS
  <2>1. CASE Worker BY <2>1, CoveredWorker
  <2>2. CASE Handlers BY <2>2, CoveredHandlers
  <2>3. CASE Clock \/ Scan \/ Process BY <2>3, CoveredRest
  <2>4. CASE UNCHANGED vars
    BY <2>4 DEF vars, AllCovered, Covered, PurgedInHand, NobodyCancels, HasLiveJob, Settling,
                Enqueuing
  <2> QED BY <2>1, <2>2, <2>3, <2>4 DEF Next
<1>3. AllCovered => NothingStranded BY DEF AllCovered, Covered, NothingStranded
<1>4. MaxFaults = 0 /\ MaxPanics = 0 BY DEF Stays
<1> QED BY <1>1, <1>2, <1>3, <1>4, SettledAlways, PTL DEF Spec

(***************************************************************************)
(* DownloadQueue implements JobLifecycle when no database call fails and   *)
(* nothing panics: every step is one move of one job, a recovery, a        *)
(* deletion, or leaves the jobs alone.                                     *)
(***************************************************************************)
\* A row not inserted yet has spent nothing.
Fresh == \A j \in Jobs : jobState[j] = "none" => attempts[j] = 0

RefInv == LaneInv /\ Fresh

USE ConstantsAssumption
    DEF Jobs, Live, jobVars, callVars,
        Lifecycle!vars, Lifecycle!Next, Lifecycle!Live

\* A step that touches no job is a stutter.
LEMMA Stutter ==
  ASSUME UNCHANGED <<jobState, attempts>>
  PROVE  [Lifecycle!Next]_(Lifecycle!vars)
  OBVIOUS

LEMMA InsertIsEnqueue ==
  ASSUME RefInv, NEW v \in Videos, NEW p \in {0, 1}, InsertJob(v, p)
  PROVE  [Lifecycle!Next]_(Lifecycle!vars) /\ Fresh'
<1>1. PICK j \in Jobs : /\ jobState[j] = "none" /\ attempts[j] = 0
                        /\ jobState' = [jobState EXCEPT ![j] = "pending"]
                        /\ attempts' = [attempts EXCEPT ![j] = 0]
  BY DEF InsertJob, RefInv, Fresh
<1>2. attempts' = attempts BY <1>1 DEF RefInv, LaneInv, TypeInv, JobTypes
<1>3. Lifecycle!Enqueue(j) BY <1>1, <1>2 DEF Lifecycle!Enqueue, Lifecycle!Move
<1>4. Fresh' BY <1>1, <1>2 DEF RefInv, LaneInv, TypeInv, JobTypes, Fresh
<1> QED BY <1>3, <1>4

LEMMA GuardedIsMove ==
  ASSUME RefInv, cur \in Jobs, NEW s \in {"pending", "failed"},
         NEW n, n \in {attempts[cur], attempts[cur] + 1},
         Running(cur) => n <= (IF s = "pending" THEN MaxAttempts - 1 ELSE MaxAttempts),
         NEW later, NEW next, NEW notRunning,
         Guarded(s, n, later, next, notRunning)
  PROVE  [Lifecycle!Next]_(Lifecycle!vars) /\ Fresh'
<1>1. CASE UNCHANGED <<jobState, attempts>>
  BY <1>1 DEF RefInv, Fresh
<1>2. CASE /\ Running(cur)
           /\ jobState' = [jobState EXCEPT ![cur] = s]
           /\ attempts' = [attempts EXCEPT ![cur] = n]
  <2>1. Fresh' BY <1>2 DEF Running, RefInv, LaneInv, TypeInv, JobTypes, Fresh
  <2>2. CASE s = "pending"
    BY <1>2, <2>1, <2>2
       DEF Running, Lifecycle!Requeue, Lifecycle!Move, Lifecycle!Spend
  <2>3. CASE s = "failed"
    BY <1>2, <2>1, <2>3
       DEF Running, Lifecycle!Fail, Lifecycle!Move, Lifecycle!Spend
  <2> QED BY <2>2, <2>3
<1> QED BY <1>1, <1>2 DEF Guarded

LEMMA DropIsDrop ==
  ASSUME RefInv, NEW vs \in SUBSET Videos, DropRows(vs)
  PROVE  [Lifecycle!Next]_(Lifecycle!vars) /\ Fresh'
<1> DEFINE S == {j \in Jobs : jobState[j] # "none" /\ jobVideo[j] \in vs}
<1>1. jobState' = [j \in Jobs |-> IF j \in S THEN "gone" ELSE jobState[j]]
  BY DEF DropRows
<1>2. UNCHANGED attempts BY DEF DropRows
<1>3. S \in SUBSET {j \in Jobs : jobState[j] # "none"} OBVIOUS
<1>4. Lifecycle!Drop BY <1>1, <1>2, <1>3 DEF Lifecycle!Drop
<1>5. Fresh' BY <1>1, <1>2 DEF RefInv, Fresh
<1> QED BY <1>4, <1>5

LEMMA CancelIsCancel ==
  ASSUME RefInv, NEW j \in Jobs, UNCHANGED attempts,
         jobState' = [jobState EXCEPT ![j] = IF @ \in Live THEN "canceled" ELSE @]
  PROVE  [Lifecycle!Next]_(Lifecycle!vars) /\ Fresh'
<1>1. CASE jobState[j] \in Live
  <2>1. Lifecycle!Cancel(j) BY <1>1 DEF Lifecycle!Cancel, Lifecycle!Move
  <2> QED BY <1>1, <2>1 DEF RefInv, LaneInv, TypeInv, JobTypes, Fresh
<1>2. CASE jobState[j] \notin Live
  BY <1>2 DEF RefInv, LaneInv, TypeInv, JobTypes, Fresh
<1> QED BY <1>1, <1>2

LEMMA StepWorker ==
  ASSUME MaxFaults = 0, RefInv, Worker
  PROVE  [Lifecycle!Next]_(Lifecycle!vars) /\ Fresh'
<1>c. pc \in InProcess => cur \in Jobs
  BY DEF RefInv, LaneInv, TypeInv, Held
<1>f. ~Fault BY DEF Fault, RefInv, LaneInv, TypeInv, BoundTypes
<1>0. CASE UNCHANGED <<jobState, attempts>> BY <1>0 DEF RefInv, Fresh
<1>1. CASE ResetOrphans
  <2>1. Lifecycle!Recover BY <1>1, <1>f DEF ResetOrphans, Running, Lifecycle!Recover
  <2>2. Fresh' BY <1>1, <1>f DEF ResetOrphans, RefInv, Fresh
  <2> QED BY <2>1, <2>2
<1>2. CASE ClaimNext
  <2>1. CASE UNCHANGED jobVars BY <1>0, <2>1
  <2>2. ASSUME NEW j \in Jobs, Claimable(j), pc = "claim", UNCHANGED attempts,
               jobState' = [jobState EXCEPT ![j] = "running"]
        PROVE  Lifecycle!Claim(j) /\ Fresh'
    <3>1. \A k \in Jobs : jobState[k] # "running"
      BY <2>2 DEF RefInv, LaneInv, Lane, Running
    <3>2. jobState[j] = "pending" BY <2>2 DEF Claimable
    <3>3. Fresh' BY <2>2, <3>2 DEF RefInv, LaneInv, TypeInv, JobTypes, Fresh
    <3> QED BY <2>2, <3>1, <3>2, <3>3 DEF Lifecycle!Claim, Lifecycle!Move
  <2> QED BY <1>2, <2>1, <2>2 DEF ClaimNext
<1>3. CASE RequeueSettings
  <2>1. Guarded("pending", attempts[cur], backoff \cup {cur}, "leave", "settle")
    BY <1>3 DEF RequeueSettings
  <2>2. cur \in Jobs BY <1>3, <1>c DEF RequeueSettings, InProcess
  <2>3. Running(cur) => attempts[cur] <= MaxAttempts - 1
    BY <2>2 DEF Running, RefInv, LaneInv, TypeInv, JobTypes, BudgetKept
  <2> QED BY <2>1, <2>2, <2>3, GuardedIsMove
<1>4. CASE CompleteDownload
  <2>1. CASE UNCHANGED jobState BY <1>0, <1>4, <2>1 DEF CompleteDownload
  <2>2. CASE Running(cur) /\ jobState' = [jobState EXCEPT ![cur] = "done"]
    <3>1. Lifecycle!Done(cur) BY <1>4, <2>2 DEF CompleteDownload, Running, Lifecycle!Done, Lifecycle!Move
    <3>2. cur \in Jobs BY <1>4, <1>c DEF CompleteDownload, InProcess
    <3>3. Fresh' BY <1>4, <2>2, <3>2 DEF CompleteDownload, Running, RefInv, LaneInv, TypeInv, JobTypes, Fresh
    <3> QED BY <3>1, <3>2, <3>3
  <2> QED BY <1>4, <2>1, <2>2 DEF CompleteDownload
<1>5. CASE Retry
  <2>1. Guarded("pending", attempts[cur] + 1, backoff \cup {cur}, "leave", "settle")
    BY <1>5 DEF Retry
  <2>2. cur \in Jobs BY <1>5, <1>c DEF Retry, InProcess
  <2>3. attempts[cur] + 1 <= MaxAttempts - 1
    BY <1>5, <2>2 DEF Retry, Exhausted, RefInv, LaneInv, TypeInv, JobTypes
  <2> QED BY <2>1, <2>2, <2>3, GuardedIsMove
<1>6. CASE RetryExhausted
  <2>1. Guarded("failed", attempts[cur] + 1, backoff, "markErr", "settle")
    BY <1>6 DEF RetryExhausted
  <2>2. cur \in Jobs BY <1>6, <1>c DEF RetryExhausted, InProcess
  <2>3. Running(cur) => attempts[cur] + 1 <= MaxAttempts
    BY <2>2 DEF Running, RefInv, LaneInv, TypeInv, JobTypes, BudgetKept
  <2> QED BY <2>1, <2>2, <2>3, GuardedIsMove
<1>7. CASE Fail
  <2>1. cur \in Jobs BY <1>7, <1>c DEF Fail, InProcess
  <2>2. attempts[cur] <= MaxAttempts
    BY <2>1 DEF RefInv, LaneInv, TypeInv, JobTypes
  <2> QED BY <1>7, <2>1, <2>2, GuardedIsMove DEF Fail
<1>8. CASE ParkDiscard
  <2>1. {V} \in SUBSET Videos
    BY <1>8 DEF ParkDiscard, V, InProcess, RefInv, LaneInv, TypeInv, Held
  <2> QED BY <1>8, <1>f, <2>1, DropIsDrop DEF ParkDiscard
<1>9. CASE PauseBump
  <2>1. Guarded("pending", attempts[cur], backoff, "leave", "leave")
    BY <1>9 DEF PauseBump
  <2>2. cur \in Jobs BY <1>9, <1>c DEF PauseBump, InProcess
  <2>3. Running(cur) => attempts[cur] <= MaxAttempts - 1
    BY <2>2 DEF Running, RefInv, LaneInv, TypeInv, JobTypes, BudgetKept
  <2> QED BY <2>1, <2>2, <2>3, GuardedIsMove
<1>10. CASE SettleJob
  <2>1. cur \in Jobs BY <1>10, <1>c DEF SettleJob, InProcess
  <2> QED BY <1>10, <1>f, <2>1, CancelIsCancel DEF SettleJob
<1>11. CASE PassGates \/ Register \/ ReadVideo \/ CheckPreflight \/ MetadataGates \/ MetadataReturns \/ MetadataSettles \/ SaveMetadata \/ StartDownload \/ DownloadGates
         \/ DownloadReturns \/ DownloadSettles \/ ParkLookup \/ ParkWrite \/ MarkError \/ PauseCookie \/ PauseFlag \/ SettleVideo \/ Leave \/ Stop
  BY <1>0, <1>11 DEF RunnerGates, RunnerReturns, Dies,
     PassGates, Register, ReadVideo, CheckPreflight, MetadataGates, MetadataReturns, MetadataSettles, SaveMetadata, StartDownload, DownloadGates,
     DownloadReturns, DownloadSettles, ParkLookup, ParkWrite, MarkError, PauseCookie, PauseFlag, SettleVideo, Leave, Stop
<1> QED
  BY <1>1, <1>2, <1>3, <1>4, <1>5, <1>6, <1>7, <1>8, <1>9, <1>10, <1>11 DEF Worker

LEMMA StepOthers ==
  ASSUME RefInv, Handlers \/ Clock \/ Scan \/ Process
  PROVE  [Lifecycle!Next]_(Lifecycle!vars) /\ Fresh'
<1>0. CASE UNCHANGED <<jobState, attempts>> BY <1>0 DEF RefInv, Fresh
<1>1. ASSUME NEW v \in Videos, EnqueueDownload(v) PROVE [Lifecycle!Next]_(Lifecycle!vars) /\ Fresh'
  BY <1>1, InsertIsEnqueue DEF EnqueueDownload
<1>2. CASE Handlers
  <2>1. ASSUME NEW v \in Videos, AddByURL(v) \/ Approve(v) \/ Redownload(v) \/ SettleEntry(v)
        PROVE  [Lifecycle!Next]_(Lifecycle!vars) /\ Fresh'
    BY <1>0, <2>1 DEF AddByURL, Approve, Redownload, Decide, SettleEntry
  <2>2. ASSUME NEW v \in Videos, EnqueueNew(v) \/ EnqueueKnown(v)
        PROVE  [Lifecycle!Next]_(Lifecycle!vars) /\ Fresh'
    BY <1>0, <1>1, <2>2 DEF EnqueueNew, EnqueueKnown
  <2>3. ASSUME NEW v \in Videos, DeleteVideo(v) PROVE [Lifecycle!Next]_(Lifecycle!vars) /\ Fresh'
    BY <1>0, <2>3, DropIsDrop DEF DeleteVideo
  <2>4. ASSUME NEW j \in Jobs, CancelJob(j), UNCHANGED attempts
        PROVE  [Lifecycle!Next]_(Lifecycle!vars) /\ Fresh'
    <3>1. CASE UNCHANGED jobState BY <1>0, <2>4, <3>1
    <3>2. CASE jobState[j] \in Live /\ jobState' = [jobState EXCEPT ![j] = "canceled"]
      BY <2>4, <3>2, CancelIsCancel
    <3> QED BY <2>4, <3>1, <3>2 DEF CancelJob
  <2>5. ASSUME NEW j \in Jobs, CancelDownload(j) \/ DeleteChannelCancel(j)
        PROVE  [Lifecycle!Next]_(Lifecycle!vars) /\ Fresh'
    BY <2>4, <2>5 DEF CancelDownload, DeleteChannelCancel
  <2>6. CASE DeleteChannelRows
    BY <2>6, DropIsDrop DEF DeleteChannelRows, RefInv, LaneInv, TypeInv, VideoTypes
  <2>7. CASE DeleteChannelBegin \/ PasteCookie \/ Resume \/ ToggleYoutubePause
    BY <1>0, <2>7 DEF DeleteChannelBegin, PasteCookie, Resume, ToggleYoutubePause
  <2> QED BY <1>2, <2>1, <2>2, <2>3, <2>5, <2>6, <2>7 DEF Handlers
<1>3. CASE Clock
  BY <1>0, <1>3 DEF Clock, CoolOffEnds, BackoffElapses
<1>4. CASE Scan
  <2>1. ASSUME NEW v \in Videos, ScanAuto(v) PROVE [Lifecycle!Next]_(Lifecycle!vars) /\ Fresh'
    <3>1. CASE InsertJob(v, 0) BY <3>1, InsertIsEnqueue
    <3>2. CASE UNCHANGED jobVars BY <1>0, <3>2
    <3> QED
      BY <2>1, <3>1, <3>2 DEF ScanAuto, ScanUpsert, ScanSetQueued, ScanEnqueue, ScanRecord, ScanFails
  <2> QED BY <1>0, <1>4, <2>1 DEF Scan, ScanFlagsCookie, ScanRevives
<1>5. CASE Process
  BY <1>0, <1>5 DEF Process, Shutdown, Crash, Dies, Boot, Panic
<1> QED BY <1>2, <1>3, <1>4, <1>5

\* The jobs table keeps the promises of JobLifecycle: a job runs alone, ends
\* once, never comes back from canceled, done or failed, and never goes back
\* to waiting with its budget spent.
THEOREM Refinement ==
  ASSUME MaxFaults = 0, MaxPanics = 0
  PROVE  Spec => JobsKeepTheirPromise
<1>1. Init => Lifecycle!Init /\ Fresh
  BY DEF Init, Lifecycle!Init, Fresh
<1>2. RefInv /\ [Next]_vars => [Lifecycle!Next]_(Lifecycle!vars) /\ Fresh'
  <2> SUFFICES ASSUME RefInv, [Next]_vars
               PROVE  [Lifecycle!Next]_(Lifecycle!vars) /\ Fresh' OBVIOUS
  <2>1. CASE Worker BY <2>1, StepWorker
  <2>2. CASE Handlers \/ Clock \/ Scan \/ Process BY <2>2, StepOthers
  <2>3. CASE UNCHANGED vars BY <2>3 DEF vars, RefInv, Fresh
  <2> QED BY <2>1, <2>2, <2>3 DEF Next
<1>3. Spec => []LaneInv BY LaneAlways
<1> QED BY <1>1, <1>2, <1>3, PTL DEF Spec, RefInv, JobsKeepTheirPromise, Lifecycle!Spec

=============================================================================
