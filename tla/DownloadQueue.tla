--------------------------- MODULE DownloadQueue ---------------------------
(***************************************************************************)
(* The download queue of peeq: the download_jobs and videos tables, the    *)
(* one worker goroutine that drains them (package download), and the HTTP  *)
(* handlers, the scan goroutine and the yt-dlp runner it races with.       *)
(*                                                                         *)
(* Every action is one atomic step of the program: one SQL statement or    *)
(* transaction, one critical section of Worker.mu, or one outside event.   *)
(* The worker's position between two steps is pc; everything another       *)
(* goroutine can do happens between any two of its steps.                  *)
(***************************************************************************)
EXTENDS Naturals, FiniteSets

CONSTANTS
  Videos,       \* ids of videos
  NoVideo,      \* the video of a job id not allotted yet
  MaxJobs,      \* BOUND: rows ever inserted into download_jobs
  MaxAttempts,  \* download_jobs.max_attempts
  Pasted,       \* videos somebody adds by URL
  Listed,       \* videos a scan has put in the inbox
  Automatic,         \* videos a scan finds on an autodownload channel
  Kept,         \* videos of channels whose keep_reads is on
  Cancels,      \* BOOLEAN: does anybody cancel jobs?
  Deletes,      \* what gets deleted: a subset of {"video", "channel"}
  Gates,        \* BOOLEAN: do the cookie and the kill-switch change?
  MaxRequests,  \* BOUND: enqueueing requests between their check and their write
  MaxCrashes,   \* BOUND: kills of the process
  MaxShutdowns, \* BOUND: orderly shutdowns
  MaxFaults,    \* BOUND: failed database calls
  MaxPanics     \* BOUND: panics while a job is processed

ASSUME ConstantsAssumption ==
  /\ NoVideo \notin Videos
  /\ MaxJobs \in Nat /\ MaxAttempts \in Nat \ {0}
  /\ Pasted \subseteq Videos /\ Listed \subseteq Videos
  /\ Automatic \subseteq Videos /\ Kept \subseteq Videos
  /\ Cancels \in BOOLEAN /\ Deletes \subseteq {"video", "channel"} /\ Gates \in BOOLEAN
  /\ MaxRequests \in Nat /\ MaxCrashes \in Nat /\ MaxShutdowns \in Nat
  /\ MaxFaults \in Nat /\ MaxPanics \in Nat

VARIABLES
  \* download_jobs, by id (ids are allotted in order)
  jobState, jobVideo, attempts, prio,
  backoff,      \* the jobs whose next_attempt_at lies ahead
  \* videos: status ("none": no row), and which rows have
  \* a title and channel, which a downloaded_at
  status, titled, had,
  ledger,       \* channel_videos.state ("none": no row)
  \* the worker goroutine and the fields of Worker
  pc, cur, snap, outcome, reg, cancelReq, paused, cooling,
  \* settings.cookie_status and settings.youtube_paused
  cookie, ytPaused,
  \* handlers that take several steps, and the scan goroutine
  paste, del, doomed, clicked, scanAt, scanned,
  stopping,     \* the process context is cancelled
  crashes, shutdowns, faults, panics,
  acked         \* HISTORY: jobs whose cancel was answered with true

jobVars    == <<jobState, jobVideo, attempts, prio, backoff>>
videoVars  == <<status, titled, had>>
callVars   == <<cur, snap, outcome>>
flagVars   == <<reg, cancelReq, paused, cooling>>
gateVars   == <<cookie, ytPaused>>
agentVars  == <<paste, del, doomed, clicked, scanAt, scanned>>
scanVars   == <<scanAt, scanned>>
quietVars  == <<crashes, shutdowns, panics>>
boundVars  == <<crashes, shutdowns, faults, panics>>
vars == <<jobVars, videoVars, ledger, pc, callVars, flagVars, gateVars,
          agentVars, stopping, boundVars, acked>>

Jobs == 1..MaxJobs

Live     == {"pending", "running"}
Terminal == {"done", "failed", "canceled"}
\* "none": id not allotted yet; "gone": the row was deleted with its video
JobStates   == Live \cup Terminal \cup {"none", "gone"}
VideoStates == {"none", "new", "queued", "downloading", "downloaded",
                "error", "tombstoned"}
LedgerStates == {"none", "pending", "queued", "unavailable"}

\* What a call of the runner comes back with. "rejected" stands for both
\* ErrBlocked and ErrCookieExpired, "hung" for the watchdog or the cap.
Answers  == {"ok", "rejected", "terminal", "retryable", "error", "hung"}
\* What the worker's copy of a videos row says: there is one, it has a title,
\* it has a downloaded_at.
RowFacts == {"row", "titled", "had"}
Refusals == {"paused", "rejected", "nocookie"}
Outcomes == Answers \cup Refusals \cup {"interrupted", "-"}

InProcess == {"claimed", "read", "check", "settingsErr", "meta", "metaRun",
              "metaRet", "save", "start", "media", "mediaRun", "mediaRet",
              "complete", "retry", "fail", "park", "parkWrite", "discard",
              "markErr", "pauseCookie", "pauseFlag", "pauseBump", "requeue",
              "settle", "settleVideo", "leave"}
PCs == InProcess \cup {"down", "boot", "loop", "claim"}

----------------------------------------------------------------------------
(* Table writes *)

\* videos.Store.SetStatus: an UPDATE that hits no row when there is none.
SetStatus(v, s) ==
  status' = [status EXCEPT ![v] = IF @ = "none" THEN "none" ELSE s]

\* Deleting a videos row takes its download_jobs rows with it (ON DELETE CASCADE).
DropRows(vs) ==
  /\ status' = [v \in Videos |-> IF v \in vs THEN "none" ELSE status[v]]
  /\ titled' = titled \ vs
  /\ had'    = had \ vs
  /\ jobState' = [j \in Jobs |->
       IF jobState[j] # "none" /\ jobVideo[j] \in vs THEN "gone" ELSE jobState[j]]
  /\ UNCHANGED <<jobVideo, attempts, prio, backoff>>

\* jobs.EnqueueSQL: the next autoincrement id, pending, no attempts spent.
InsertJob(v, p) ==
  \E j \in Jobs :
    /\ jobState[j] = "none"
    /\ \A k \in Jobs : k < j => jobState[k] # "none"
    /\ jobState' = [jobState EXCEPT ![j] = "pending"]
    /\ jobVideo' = [jobVideo EXCEPT ![j] = v]
    /\ attempts' = [attempts EXCEPT ![j] = 0]
    /\ prio'     = [prio EXCEPT ![j] = p]
    /\ UNCHANGED backoff

\* enqueueTx: status, inbox row and job in one transaction.
EnqueueDownload(v) ==
  /\ status' = [status EXCEPT ![v] = "queued"]
  /\ ledger' = [ledger EXCEPT ![v] = IF @ = "pending" THEN "queued" ELSE @]
  /\ InsertJob(v, 1)

Running(j) == jobState[j] = "running"

\* Anything that goes wrong on our side spends one unit of the fault bound.
Fault    == faults < MaxFaults /\ faults' = faults + 1
NoFault  == UNCHANGED faults

\* Variants of the guarded write with the bugs it exists to prevent: no guard,
\* and a lost race taken for a success.
GuardedBlindly(s, n, later, next, notRunning) ==
  /\ jobState' = [jobState EXCEPT ![cur] = s]
  /\ attempts' = [attempts EXCEPT ![cur] = n]
  /\ backoff'  = later
  /\ pc' = next /\ NoFault
  /\ UNCHANGED <<jobVideo, prio>>

GuardedIgnoringCancel(s, n, later, next, notRunning) ==
  /\ pc' = next /\ NoFault
  /\ jobState' = [jobState EXCEPT ![cur] = IF Running(cur) THEN s ELSE @]
  /\ attempts' = [attempts EXCEPT ![cur] = IF Running(cur) THEN n ELSE @]
  /\ backoff'  = IF Running(cur) THEN later ELSE backoff
  /\ UNCHANGED <<jobVideo, prio>>

\* The guarded UPDATE ... WHERE state = 'running' of Finish, Fail and
\* BumpAfter, and where the worker goes on: after the write, on ErrNotRunning,
\* or after any other error, which is only logged.
Guarded(s, n, later, next, notRunning) ==
  \/ /\ Running(cur) /\ NoFault
     /\ jobState' = [jobState EXCEPT ![cur] = s]
     /\ attempts' = [attempts EXCEPT ![cur] = n]
     /\ backoff'  = later
     /\ UNCHANGED <<jobVideo, prio>>
     /\ pc' = next
  \/ /\ ~Running(cur) /\ NoFault
     /\ pc' = notRunning
     /\ UNCHANGED jobVars
  \/ /\ Fault
     /\ pc' = next
     /\ UNCHANGED jobVars

----------------------------------------------------------------------------
(* Initial state: the first boot over a library whose inbox is filled *)

Init ==
  /\ jobState = [j \in Jobs |-> "none"]
  /\ jobVideo = [j \in Jobs |-> NoVideo]
  /\ attempts = [j \in Jobs |-> 0]
  /\ prio = [j \in Jobs |-> 0]
  /\ backoff = {}
  /\ status = [v \in Videos |-> "none"]
  /\ titled = {}
  /\ had = {}
  /\ ledger = [v \in Videos |-> IF v \in Listed THEN "pending" ELSE "none"]
  /\ pc = "boot" /\ cur = 0 /\ snap = {} /\ outcome = "-"
  /\ reg = 0 /\ cancelReq = FALSE /\ paused = FALSE /\ cooling = FALSE
  /\ cookie \in (IF Gates THEN {"absent", "valid"} ELSE {"valid"})
  /\ ytPaused = FALSE
  /\ paste = FALSE /\ del = "no" /\ doomed = {} /\ clicked = {} /\ scanAt = "idle" /\ scanned = NoVideo
  /\ stopping = FALSE
  /\ crashes = 0 /\ shutdowns = 0 /\ faults = 0 /\ panics = 0
  /\ acked = {}

----------------------------------------------------------------------------
(* Worker.Run: boot, gates, claim *)

\* Variant: a boot that does not look at what the last process left.
ResetOrphansSkipped ==
  /\ pc = "boot" /\ pc' = "loop"
  /\ UNCHANGED <<jobVars, videoVars, ledger, callVars, flagVars, gateVars,
                 agentVars, stopping, boundVars, acked>>

\* Jobs.ResetOrphans, once per boot; a failure is logged and the loop starts.
ResetOrphans ==
  /\ pc = "boot" /\ pc' = "loop"
  /\ \/ /\ jobState' = [j \in Jobs |-> IF Running(j) THEN "pending" ELSE jobState[j]]
        /\ UNCHANGED <<jobVideo, attempts, prio, backoff>> /\ NoFault
     \/ Fault /\ UNCHANGED jobVars
  /\ UNCHANGED <<videoVars, ledger, callVars, flagVars, gateVars, agentVars,
                 stopping, quietVars, acked>>

\* One turn of the loop up to ClaimNext. Every closed gate is a sleep and a
\* re-check, so it is the step that is not enabled.
PassGates ==
  /\ pc = "loop" /\ pc' = "claim"
  /\ ~stopping /\ ~paused /\ ~ytPaused /\ ~cooling
  /\ UNCHANGED <<jobVars, videoVars, ledger, callVars, flagVars, gateVars,
                 agentVars, stopping, boundVars, acked>>

Claimable(j) == jobState[j] = "pending" /\ j \notin backoff
ClaimedBefore(j, k) == prio[j] > prio[k] \/ (prio[j] = prio[k] /\ j <= k)

\* Jobs.ClaimNext: one UPDATE ... RETURNING.
ClaimNext ==
  /\ pc = "claim"
  /\ \/ \E j \in Jobs :
          /\ Claimable(j)
          /\ \A k \in Jobs : Claimable(k) => ClaimedBefore(j, k)
          /\ jobState' = [jobState EXCEPT ![j] = "running"]
          /\ cur' = j /\ pc' = "claimed"
          /\ UNCHANGED <<jobVideo, attempts, prio, backoff>>
     \/ /\ \A j \in Jobs : ~Claimable(j)
        /\ pc' = "loop"
        /\ UNCHANGED <<jobVars, cur>>
  /\ UNCHANGED <<videoVars, ledger, snap, outcome, flagVars, gateVars,
                 agentVars, stopping, boundVars, acked>>

----------------------------------------------------------------------------
(* Worker.process: preflight *)

\* Variant: the flag of an earlier cancel is left standing.
RegisterKeepingFlag ==
  /\ pc = "claimed" /\ pc' = "read"
  /\ reg' = cur
  /\ UNCHANGED <<jobVars, videoVars, ledger, callVars, cancelReq, paused,
                 cooling, gateVars, agentVars, stopping, boundVars, acked>>

\* The first critical section: from here a Cancel takes the flag path.
Register ==
  /\ pc = "claimed" /\ pc' = "read"
  /\ reg' = cur /\ cancelReq' = FALSE
  /\ UNCHANGED <<jobVars, videoVars, ledger, callVars, paused, cooling,
                 gateVars, agentVars, stopping, boundVars, acked>>

V == jobVideo[cur]

\* Videos.Get: the copy of the row the worker decides on from here.
ReadVideo ==
  /\ pc = "read" /\ pc' = "check"
  /\ \/ /\ NoFault
        /\ snap' = {f \in RowFacts :
             /\ status[V] # "none"
             /\ f = "titled" => V \in titled
             /\ f = "had" => V \in had}
     \/ Fault /\ snap' = {}
  /\ UNCHANGED <<jobVars, videoVars, ledger, cur, outcome, flagVars, gateVars,
                 agentVars, stopping, quietVars, acked>>

\* The decision after the reads: a cancel first, then a missing row, a failed
\* settings read, an unresolved row, or the download.
CheckPreflight ==
  /\ pc = "check"
  /\ \/ cancelReq /\ pc' = "settle" /\ NoFault
     \/ ~cancelReq /\ snap = {} /\ pc' = "fail" /\ NoFault
     \/ ~cancelReq /\ snap # {} /\ pc' = "settingsErr" /\ Fault
     \/ ~cancelReq /\ snap # {} /\ "titled" \notin snap /\ pc' = "meta" /\ NoFault
     \/ ~cancelReq /\ "titled" \in snap /\ pc' = "start" /\ NoFault
  /\ outcome' = "-"
  /\ UNCHANGED <<jobVars, videoVars, ledger, cur, snap, flagVars, gateVars,
                 agentVars, stopping, quietVars, acked>>

\* Settings could not be loaded: back to pending, spaced, no attempt spent.
RequeueSettings ==
  /\ pc = "settingsErr"
  /\ Guarded("pending", attempts[cur], backoff \cup {cur}, "leave", "settle")
  /\ UNCHANGED <<videoVars, ledger, callVars, flagVars, gateVars, agentVars,
                 stopping, quietVars, acked>>

----------------------------------------------------------------------------
(* Runner calls: the gates, then the process, then what it came back with *)

Interrupted == cancelReq \/ stopping

\* Runner.gates after the queue wait: refuse, or start yt-dlp. A call whose
\* context ended while it queued starts nothing.
RunnerGates(at, run, ret) ==
  /\ pc = at
  /\ \/ Interrupted /\ outcome' = "interrupted" /\ pc' = ret
     \/ ytPaused /\ outcome' = "paused" /\ pc' = ret
     \/ ~ytPaused /\ cookie = "rejected" /\ outcome' = "rejected" /\ pc' = ret
     \/ ~ytPaused /\ cookie = "absent" /\ outcome' = "nocookie" /\ pc' = ret
     \/ /\ ~Interrupted /\ ~ytPaused /\ cookie = "valid"
        /\ pc' = run /\ UNCHANGED outcome
  /\ UNCHANGED <<jobVars, videoVars, ledger, cur, snap, flagVars, gateVars,
                 agentVars, stopping, boundVars, acked>>

\* The process exits: with YouTube's answer, or killed through its context.
RunnerReturns(run, ret) ==
  /\ pc = run /\ pc' = ret
  /\ \/ outcome' \in (IF Gates THEN Answers ELSE Answers \ {"rejected"})
     \/ Interrupted /\ outcome' = "interrupted"
  /\ UNCHANGED <<jobVars, videoVars, ledger, cur, snap, flagVars, gateVars,
                 agentVars, stopping, boundVars, acked>>

MetadataGates   == RunnerGates("meta", "metaRun", "metaRet")
MetadataReturns == RunnerReturns("metaRun", "metaRet")
DownloadGates   == RunnerGates("media", "mediaRun", "mediaRet")
DownloadReturns == RunnerReturns("mediaRun", "mediaRet")

\* Worker.classify (and the watchdog and cap branches before it): where an
\* answer sends the job.
Route(o) ==
  CASE o = "rejected"  -> "pauseCookie"
    [] o = "nocookie"  -> "pauseFlag"
    [] o = "paused"    -> "requeue"
    [] o = "terminal"  -> "fail"
    [] OTHER           -> "retry"

\* After the metadata call. The registration is still standing.
MetadataSettles ==
  /\ pc = "metaRet"
  /\ pc' = IF cancelReq THEN "settle"
           ELSE IF stopping THEN "leave"
           ELSE IF outcome = "ok" THEN "save" ELSE Route(outcome)
  /\ UNCHANGED <<jobVars, videoVars, ledger, callVars, flagVars, gateVars,
                 agentVars, stopping, boundVars, acked>>

\* Videos.Upsert with the resolved metadata: inserts the row, as 'new', when
\* there is none any more; otherwise leaves its status alone.
SaveMetadata ==
  /\ pc = "save"
  /\ \/ /\ status' = [status EXCEPT ![V] = IF @ = "none" THEN "new" ELSE @]
        /\ titled' = titled \cup {V}
        /\ pc' = "start" /\ NoFault
        /\ UNCHANGED had
     \/ Fault /\ pc' = "retry" /\ UNCHANGED videoVars
  /\ UNCHANGED <<jobVars, ledger, callVars, flagVars, gateVars, agentVars,
                 stopping, quietVars, acked>>

\* Videos.SetStatus(downloading); its error is discarded.
StartDownload ==
  /\ pc = "start" /\ pc' = "media"
  /\ \/ SetStatus(V, "downloading") /\ NoFault
     \/ Fault /\ UNCHANGED status
  /\ UNCHANGED <<jobVars, titled, had, ledger, callVars, flagVars, gateVars,
                 agentVars, stopping, quietVars, acked>>

\* After the download: one critical section reads the cancel flag and clears
\* the registration, before any terminal write. An unclassified failure of a
\* download feeds the FailMonitor, which may engage the kill-switch.
DownloadSettles ==
  /\ pc = "mediaRet"
  /\ reg' = 0
  /\ pc' = IF cancelReq THEN "settle"
           ELSE IF stopping THEN "leave"
           ELSE IF outcome = "ok" THEN "complete" ELSE Route(outcome)
  /\ \/ UNCHANGED ytPaused
     \/ /\ Gates /\ pc' = "retry" /\ outcome # "hung"
        /\ ytPaused' = TRUE
  /\ UNCHANGED <<jobVars, videoVars, ledger, callVars, cancelReq, paused,
                 cooling, cookie, agentVars, stopping, boundVars, acked>>

----------------------------------------------------------------------------
(* Worker.process: outcomes *)

\* Worker.complete: the job's 'done' and the video's 'downloaded' in one
\* transaction on the process context, so a shutdown fails it too.
CompleteDownload ==
  /\ pc = "complete"
  /\ \/ /\ ~stopping /\ Running(cur) /\ NoFault
        /\ jobState' = [jobState EXCEPT ![cur] = "done"]
        /\ SetStatus(V, "downloaded")
        /\ had' = had \cup {V}
        /\ pc' = "leave"
     \/ /\ ~stopping /\ ~Running(cur) /\ NoFault
        /\ pc' = "settle"
        /\ UNCHANGED <<jobState, status, had>>
     \/ /\ (stopping /\ NoFault) \/ Fault
        /\ pc' = "retry"
        /\ UNCHANGED <<jobState, status, had>>
  /\ UNCHANGED <<jobVideo, attempts, prio, backoff, titled, ledger, callVars,
                 flagVars, gateVars, agentVars, stopping, quietVars, acked>>

\* Variant: one attempt too many.
ExhaustedLate == attempts[cur] + 1 > MaxAttempts

Exhausted == attempts[cur] + 1 >= MaxAttempts

\* Worker.retry with attempts left: requeue behind a backoff, and cool the
\* loop when the failure was YouTube's own answer.
Retry ==
  /\ pc = "retry" /\ ~Exhausted
  /\ Guarded("pending", attempts[cur] + 1, backoff \cup {cur}, "leave", "settle")
  /\ cooling' = (cooling \/ (outcome = "retryable" /\ pc' = "leave"))
  /\ UNCHANGED <<videoVars, ledger, callVars, reg, cancelReq, paused, gateVars,
                 agentVars, stopping, quietVars, acked>>

\* Variant: the last attempt fails the job and forgets the video.
RetryExhaustedQuietly ==
  /\ pc = "retry" /\ Exhausted
  /\ Guarded("failed", attempts[cur] + 1, backoff, "leave", "settle")
  /\ UNCHANGED <<videoVars, ledger, callVars, flagVars, gateVars, agentVars,
                 stopping, quietVars, acked>>

\* Worker.retry on the last attempt: fail, with no gate reason.
RetryExhausted ==
  /\ pc = "retry" /\ Exhausted
  /\ Guarded("failed", attempts[cur] + 1, backoff, "markErr", "settle")
  /\ UNCHANGED <<videoVars, ledger, callVars, flagVars, gateVars, agentVars,
                 stopping, quietVars, acked>>

\* Worker.fail: Jobs.Fail, then park a walled-off video or mark the row.
Fail ==
  /\ pc = "fail"
  /\ Guarded("failed", attempts[cur], backoff,
             IF outcome = "terminal" THEN "park" ELSE "markErr", "settle")
  /\ UNCHANGED <<videoVars, ledger, callVars, flagVars, gateVars, agentVars,
                 stopping, quietVars, acked>>

\* Variant: a video is parked whatever it has been.
ParkLookupAnyVideo ==
  /\ pc = "park" /\ NoFault
  /\ pc' = (IF ledger[V] # "none" THEN "parkWrite" ELSE "markErr")
  /\ UNCHANGED <<jobVars, videoVars, ledger, callVars, flagVars, gateVars,
                 agentVars, stopping, quietVars, acked>>

\* Worker.park, its refusals: a video that has ever been downloaded, or one
\* no ledger row remembers, keeps its row.
ParkLookup ==
  /\ pc = "park"
  /\ \/ /\ pc' = (IF "had" \notin snap /\ ledger[V] # "none" THEN "parkWrite" ELSE "markErr")
        /\ NoFault
     \/ Fault /\ pc' = "markErr"
  /\ UNCHANGED <<jobVars, videoVars, ledger, callVars, flagVars, gateVars,
                 agentVars, stopping, quietVars, acked>>

\* Ledger.SetUnavailable
ParkWrite ==
  /\ pc = "parkWrite"
  /\ \/ /\ ledger' = [ledger EXCEPT ![V] = IF @ = "none" THEN "none" ELSE "unavailable"]
        /\ pc' = "discard" /\ NoFault
     \/ Fault /\ pc' = "markErr" /\ UNCHANGED ledger
  /\ UNCHANGED <<jobVars, videoVars, callVars, flagVars, gateVars, agentVars,
                 stopping, quietVars, acked>>

\* Videos.Discard: every job of the video goes with the row.
ParkDiscard ==
  /\ pc = "discard" /\ pc' = "leave"
  /\ \/ DropRows({V}) /\ NoFault
     \/ Fault /\ UNCHANGED <<jobVars, videoVars>>
  /\ UNCHANGED <<ledger, callVars, flagVars, gateVars, agentVars, stopping, quietVars, acked>>

\* The ordinary failure: Videos.SetStatus(error), unless no row was loaded.
MarkError ==
  /\ pc = "markErr" /\ pc' = "leave"
  /\ \/ snap # {} /\ SetStatus(V, "error") /\ NoFault
     \/ snap = {} /\ UNCHANGED status /\ NoFault
     \/ Fault /\ UNCHANGED status
  /\ UNCHANGED <<jobVars, titled, had, ledger, callVars, flagVars, gateVars,
                 agentVars, stopping, quietVars, acked>>

\* Worker.pause, three steps: flag the cookie, raise paused, requeue.
PauseCookie ==
  /\ pc = "pauseCookie" /\ pc' = "pauseFlag"
  /\ \/ cookie' = "rejected" /\ NoFault
     \/ Fault /\ UNCHANGED cookie
  /\ UNCHANGED <<jobVars, videoVars, ledger, callVars, flagVars, ytPaused,
                 agentVars, stopping, quietVars, acked>>

PauseFlag ==
  /\ pc = "pauseFlag" /\ pc' = "pauseBump"
  /\ paused' = TRUE
  /\ UNCHANGED <<jobVars, videoVars, ledger, callVars, reg, cancelReq, cooling,
                 gateVars, agentVars, stopping, boundVars, acked>>

\* The requeue of pause and of requeuePaused; ErrNotRunning is only noted.
PauseBump ==
  /\ pc \in {"pauseBump", "requeue"}
  /\ Guarded("pending", attempts[cur], backoff, "leave", "leave")
  /\ UNCHANGED <<videoVars, ledger, callVars, flagVars, gateVars, agentVars,
                 stopping, quietVars, acked>>

\* Variant: Jobs.Cancel as it would be for pending jobs only.
SettlePendingJob ==
  /\ pc = "settle" /\ pc' = "settleVideo" /\ NoFault
  /\ jobState' = [jobState EXCEPT ![cur] = IF @ = "pending" THEN "canceled" ELSE @]
  /\ UNCHANGED <<jobVideo, attempts, prio, backoff, videoVars, ledger, callVars,
                 flagVars, gateVars, agentVars, stopping, quietVars, acked>>

\* Worker.settleCanceled, two writes: Jobs.Cancel, then the video to 'new'.
SettleJob ==
  /\ pc = "settle" /\ pc' = "settleVideo"
  /\ \/ /\ jobState' = [jobState EXCEPT ![cur] = IF @ \in Live THEN "canceled" ELSE @]
        /\ NoFault
     \/ Fault /\ UNCHANGED jobState
  /\ UNCHANGED <<jobVideo, attempts, prio, backoff, videoVars, ledger, callVars,
                 flagVars, gateVars, agentVars, stopping, quietVars, acked>>

SettleVideo ==
  /\ pc = "settleVideo" /\ pc' = "leave"
  /\ \/ snap # {} /\ SetStatus(V, "new") /\ NoFault
     \/ snap = {} /\ UNCHANGED status /\ NoFault
     \/ Fault /\ UNCHANGED status
  /\ UNCHANGED <<jobVars, titled, had, ledger, callVars, flagVars, gateVars,
                 agentVars, stopping, quietVars, acked>>

\* process returns: the deferred unregister, and back to the loop.
Leave ==
  /\ pc = "leave" /\ pc' = "loop"
  /\ reg' = 0 /\ cur' = 0 /\ snap' = {} /\ outcome' = "-"
  /\ UNCHANGED <<jobVars, videoVars, ledger, cancelReq, paused, cooling,
                 gateVars, agentVars, stopping, boundVars, acked>>

\* A panic anywhere in process, recovered by safely.
Panic ==
  /\ pc \in InProcess \ {"leave"} /\ pc' = "leave"
  /\ panics < MaxPanics /\ panics' = panics + 1
  /\ UNCHANGED <<jobVars, videoVars, ledger, callVars, flagVars, gateVars,
                 agentVars, stopping, crashes, shutdowns, faults, acked>>

----------------------------------------------------------------------------
(* The clock *)

\* next_attempt_at passes.
BackoffElapses(j) ==
  /\ jobState[j] = "pending" /\ j \in backoff
  /\ backoff' = backoff \ {j}
  /\ UNCHANGED <<jobState, jobVideo, attempts, prio, videoVars, ledger, pc,
                 callVars, flagVars, gateVars, agentVars, stopping, boundVars, acked>>

CoolOffEnds ==
  /\ cooling /\ cooling' = FALSE
  /\ UNCHANGED <<jobVars, videoVars, ledger, pc, callVars, reg, cancelReq,
                 paused, gateVars, agentVars, stopping, boundVars, acked>>

----------------------------------------------------------------------------
(* HTTP handlers *)

Up == pc # "down"

\* The requests that enqueue read the row, decide, and write later: insert the
\* row without a title, insert it from the inbox entry, enqueue the row there
\* is, or only settle the inbox entry.
Decisions == {"add", "approve", "requeue", "settle"}

Decide(v, d) ==
  /\ Up /\ Cardinality(clicked) < MaxRequests
  /\ clicked' = clicked \cup {<<d, v>>}
  /\ UNCHANGED <<jobVars, videoVars, ledger, pc, callVars, flagVars, gateVars,
                 paste, del, doomed, scanVars, stopping, boundVars, acked>>

\* POST /api/downloads: a known video goes back in the queue, whatever its
\* status.
AddByURL(v) ==
  v \in Pasted /\ Decide(v, IF status[v] = "none" THEN "add" ELSE "requeue")

\* Approving an inbox entry, unless the video is in the pipeline already.
Approve(v) ==
  /\ ledger[v] = "pending"
  /\ Decide(v, IF status[v] \in {"queued", "downloading", "downloaded"}
               THEN "settle" ELSE "approve")

\* The Library's re-download button.
Redownload(v) == status[v] \in {"error", "tombstoned"} /\ Decide(v, "requeue")

Decided(v, d) == <<d, v>> \in clicked /\ clicked' = clicked \ {<<d, v>>}

\* UpsertAndEnqueueDownload: an id and a URL, which blank the title of a row
\* that appeared meanwhile, or the inbox entry's title and channel.
EnqueueNew(v) ==
  /\ \/ Decided(v, "add") /\ titled' = titled \ {v}
     \/ Decided(v, "approve") /\ titled' = titled \cup {v}
  /\ EnqueueDownload(v)
  /\ UNCHANGED <<had, pc, callVars, flagVars, gateVars, paste, del, doomed,
                 scanVars, stopping, boundVars, acked>>

\* EnqueueDownload, which fails with ErrNotFound when the row has gone.
EnqueueKnown(v) ==
  /\ Decided(v, "requeue")
  /\ \/ status[v] # "none" /\ EnqueueDownload(v)
     \/ status[v] = "none" /\ UNCHANGED <<jobVars, status, ledger>>
  /\ UNCHANGED <<titled, had, pc, callVars, flagVars, gateVars, paste, del, doomed,
                 scanVars, stopping, boundVars, acked>>

\* Ledger.SetState(queued), whatever the row says by now.
SettleEntry(v) ==
  /\ Decided(v, "settle")
  /\ ledger' = [ledger EXCEPT ![v] = IF @ = "none" THEN "none" ELSE "queued"]
  /\ UNCHANGED <<jobVars, videoVars, pc, callVars, flagVars, gateVars, paste, del,
                 doomed, scanVars, stopping, boundVars, acked>>

\* Worker.Cancel: the flag for the registered job, the guarded UPDATE for any
\* other. The UPDATE runs after the lock is released, so the job may have been
\* claimed and registered since. TRUE is answered when something was there to
\* cancel.
CancelJob(j) ==
  \/ /\ reg = j
     /\ cancelReq' = TRUE /\ acked' = acked \cup {j}
     /\ UNCHANGED jobState
  \/ /\ jobState[j] \in Live
     /\ jobState' = [jobState EXCEPT ![j] = "canceled"]
     /\ acked' = acked \cup {j}
     /\ UNCHANGED cancelReq
  \/ /\ jobState[j] \notin Live
     /\ UNCHANGED <<jobState, cancelReq, acked>>

CancelDownload(j) ==
  /\ Up /\ Cancels
  /\ CancelJob(j)
  /\ UNCHANGED <<jobVideo, attempts, prio, backoff, videoVars, ledger, pc, callVars,
                 reg, paused, cooling, gateVars, agentVars, stopping, boundVars>>

\* DELETE /api/videos/{id}, videos.Store.Remove: a tombstone when the channel
\* keeps its reads (or there is no channel row), a purge otherwise.
DeleteVideo(v) ==
  /\ Up /\ "video" \in Deletes /\ status[v] # "none"
  /\ \/ /\ v \in Kept \/ v \notin titled
        /\ status' = [status EXCEPT ![v] = "tombstoned"]
        /\ UNCHANGED <<jobVars, titled, had, ledger>>
     \/ /\ v \notin Kept /\ v \in titled
        /\ DropRows({v})
        /\ ledger' = [ledger EXCEPT ![v] = "queued"]
  /\ UNCHANGED <<pc, callVars, flagVars, gateVars, agentVars, stopping, boundVars, acked>>

\* DELETE /api/channels/{id}: read the active jobs of the channel's videos,
\* cancel them one by one, then delete the rows.
DeleteChannelBegin ==
  /\ Up /\ "channel" \in Deletes /\ del = "no" /\ del' = "cancel"
  /\ doomed' = {j \in Jobs : jobState[j] \in Live /\ jobVideo[j] \in titled}
  /\ UNCHANGED <<jobVars, videoVars, ledger, pc, callVars, flagVars, gateVars,
                 paste, clicked, scanVars, stopping, boundVars, acked>>

DeleteChannelCancel(j) ==
  /\ del = "cancel" /\ j \in doomed
  /\ doomed' = doomed \ {j}
  /\ CancelJob(j)
  /\ UNCHANGED <<jobVideo, attempts, prio, backoff, videoVars, ledger, pc, callVars,
                 reg, paused, cooling, gateVars, paste, del, clicked, scanVars, stopping, boundVars>>

DeleteChannelRows ==
  /\ del = "cancel" /\ doomed = {} /\ del' = "done"
  /\ DropRows(titled)
  /\ ledger' = [v \in Videos |-> "none"]
  /\ UNCHANGED <<pc, callVars, flagVars, gateVars, paste, doomed, clicked, scanVars, stopping, boundVars, acked>>

\* PUT /api/settings/cookie: store the cookie, then Worker.Resume.
PasteCookie ==
  /\ Up /\ Gates /\ ~paste
  /\ cookie' = "valid" /\ paste' = TRUE
  /\ UNCHANGED <<jobVars, videoVars, ledger, pc, callVars, flagVars, ytPaused,
                 del, doomed, clicked, scanVars, stopping, boundVars, acked>>

Resume ==
  /\ paste /\ paste' = FALSE
  /\ paused' = FALSE
  /\ UNCHANGED <<jobVars, videoVars, ledger, pc, callVars, reg, cancelReq,
                 cooling, gateVars, del, doomed, clicked, scanVars, stopping, boundVars, acked>>

\* The kill-switch, thrown or released by hand.
ToggleYoutubePause ==
  /\ Up /\ Gates
  /\ ytPaused' = ~ytPaused
  /\ UNCHANGED <<jobVars, videoVars, ledger, pc, callVars, flagVars, cookie,
                 agentVars, stopping, boundVars, acked>>

----------------------------------------------------------------------------
(* The scan goroutine *)

\* Another caller of YouTube finds the cookie rejected and flags it.
ScanFlagsCookie ==
  /\ Up /\ Gates /\ cookie = "valid"
  /\ cookie' = "rejected"
  /\ UNCHANGED <<jobVars, videoVars, ledger, pc, callVars, flagVars, ytPaused,
                 agentVars, stopping, boundVars, acked>>

\* A parked video answers again: settled when it has been downloaded by other
\* means, back to the inbox otherwise; on an autodownload channel see below.
ScanRevives(v) ==
  /\ Up /\ ledger[v] = "unavailable" /\ (v \in had \/ v \notin Automatic)
  /\ ledger' = [ledger EXCEPT ![v] = IF v \in had THEN "queued" ELSE "pending"]
  /\ UNCHANGED <<jobVars, videoVars, pc, callVars, flagVars, gateVars, agentVars, stopping, boundVars, acked>>

\* enqueueAuto and the ledger row after it: four writes (the row, its status,
\* the job, the ledger) for the video the scan goroutine is at.
ScanStep(v, from, to) ==
  /\ Up /\ scanAt = from /\ scanAt' = to
  /\ scanned' = IF to = "idle" THEN NoVideo ELSE v
  /\ IF from = "idle" THEN v \in Automatic ELSE v = scanned

ScanUpsert(v) ==
  /\ ScanStep(v, "idle", "status")
  /\ \/ ledger[v] = "none" /\ status[v] = "none" /\ del # "done"
     \/ ledger[v] = "unavailable" /\ v \notin had
  /\ status' = [status EXCEPT ![v] = IF @ = "none" THEN "new" ELSE @]
  /\ titled' = titled \cup {v}
  /\ UNCHANGED <<jobVars, had, ledger>>

ScanSetQueued(v) ==
  /\ ScanStep(v, "status", "job")
  /\ SetStatus(v, "queued")
  /\ UNCHANGED <<jobVars, titled, had, ledger>>

\* The insert fails on its foreign key when the row has been deleted.
ScanEnqueue(v) ==
  \/ /\ ScanStep(v, "job", "record")
     /\ status[v] # "none" /\ InsertJob(v, 0)
     /\ UNCHANGED <<videoVars, ledger>>
  \/ /\ ScanStep(v, "job", "idle")
     /\ status[v] = "none"
     /\ UNCHANGED <<jobVars, videoVars, ledger>>

\* A write that fails ends the pass for this video where it stands.
ScanFails(v) ==
  /\ scanAt # "idle" /\ ScanStep(v, scanAt, "idle")
  /\ Fault
  /\ UNCHANGED <<jobVars, videoVars, ledger>>

\* The ledger row's insert fails likewise, when the channel has.
ScanRecord(v) ==
  /\ ScanStep(v, "record", "idle")
  /\ ledger' = [ledger EXCEPT ![v] = IF del = "done" THEN @ ELSE "queued"]
  /\ UNCHANGED <<jobVars, videoVars>>

ScanAuto(v) ==
  /\ \/ ScanUpsert(v) /\ NoFault
     \/ ScanSetQueued(v) /\ NoFault
     \/ ScanEnqueue(v) /\ NoFault
     \/ ScanRecord(v) /\ NoFault
     \/ ScanFails(v)
  /\ UNCHANGED <<pc, callVars, flagVars, gateVars, paste, del, doomed, clicked,
                 stopping, quietVars, acked>>

----------------------------------------------------------------------------
(* The process *)

\* SIGTERM: the context every goroutine runs under is cancelled.
Shutdown ==
  /\ Up /\ ~stopping /\ shutdowns < MaxShutdowns
  /\ stopping' = TRUE /\ shutdowns' = shutdowns + 1
  /\ UNCHANGED <<jobVars, videoVars, ledger, pc, callVars, flagVars, gateVars,
                 agentVars, crashes, faults, panics, acked>>

\* Whatever only memory held is lost, an in-flight cancel with it.
Dies ==
  /\ pc' = "down"
  /\ cur' = 0 /\ snap' = {} /\ outcome' = "-"
  /\ reg' = 0 /\ cancelReq' = FALSE /\ paused' = FALSE /\ cooling' = FALSE
  /\ paste' = FALSE /\ doomed' = {} /\ clicked' = {} /\ scanAt' = "idle" /\ scanned' = NoVideo
  /\ del' = IF del = "cancel" THEN "no" ELSE del
  /\ stopping' = FALSE
  /\ acked' = {j \in acked : jobState[j] \notin Live}
  /\ UNCHANGED <<jobVars, videoVars, ledger, gateVars>>

\* Worker.Run returns and the process ends.
Stop == /\ pc = "loop" /\ stopping
        /\ Dies /\ UNCHANGED boundVars

Crash == /\ Up /\ crashes < MaxCrashes
         /\ Dies /\ crashes' = crashes + 1
         /\ UNCHANGED <<shutdowns, faults, panics>>

Boot ==
  /\ pc = "down" /\ pc' = "boot"
  /\ UNCHANGED <<jobVars, videoVars, ledger, callVars, flagVars, gateVars,
                 agentVars, stopping, boundVars, acked>>

----------------------------------------------------------------------------

\* The steps of the worker goroutine, which is always scheduled again.
Worker ==
  \/ ResetOrphans \/ PassGates \/ ClaimNext
  \/ Register \/ ReadVideo \/ CheckPreflight \/ RequeueSettings
  \/ MetadataGates \/ MetadataReturns \/ MetadataSettles \/ SaveMetadata
  \/ StartDownload \/ DownloadGates \/ DownloadReturns \/ DownloadSettles
  \/ CompleteDownload \/ Retry \/ RetryExhausted \/ Fail
  \/ ParkLookup \/ ParkWrite \/ ParkDiscard \/ MarkError
  \/ PauseCookie \/ PauseFlag \/ PauseBump
  \/ SettleJob \/ SettleVideo \/ Leave \/ Stop

Clock == CoolOffEnds \/ \E j \in Jobs : BackoffElapses(j)

Handlers ==
  \/ \E v \in Videos :
       \/ AddByURL(v) \/ Approve(v) \/ Redownload(v) \/ DeleteVideo(v)
       \/ EnqueueNew(v) \/ EnqueueKnown(v) \/ SettleEntry(v)
  \/ \E j \in Jobs : CancelDownload(j) \/ DeleteChannelCancel(j)
  \/ DeleteChannelBegin \/ DeleteChannelRows
  \/ PasteCookie \/ Resume \/ ToggleYoutubePause

Scan == ScanFlagsCookie \/ \E v \in Videos : ScanRevives(v) \/ ScanAuto(v)

Process == Shutdown \/ Crash \/ Boot \/ Panic

Next == Worker \/ Clock \/ Handlers \/ Scan \/ Process

Spec == Init /\ [][Next]_vars

\* Fairness: Run is a loop that never waits for anything but a gate, and every
\* call it makes is bounded (the watchdog, the metadata cap); clocks run; the
\* container restarts the process. Nobody is obliged to click anything.
Fairness ==
  /\ WF_vars(Worker) /\ WF_vars(Boot) /\ WF_vars(CoolOffEnds)
  /\ \A j \in Jobs : WF_vars(BackoffElapses(j))

FairSpec == Spec /\ Fairness

----------------------------------------------------------------------------
(* Properties *)

JobTypes ==
  /\ jobState \in [Jobs -> JobStates]
  /\ jobVideo \in [Jobs -> Videos \cup {NoVideo}]
  /\ attempts \in [Jobs -> 0..MaxAttempts]
  /\ prio \in [Jobs -> {0, 1}] /\ backoff \subseteq Jobs

VideoTypes ==
  /\ status \in [Videos -> VideoStates]
  /\ titled \subseteq Videos /\ had \subseteq Videos
  /\ ledger \in [Videos -> LedgerStates]

WorkerTypes ==
  /\ pc \in PCs /\ cur \in Jobs \cup {0} /\ reg \in Jobs \cup {0}
  /\ snap \subseteq RowFacts /\ outcome \in Outcomes

AgentTypes ==
  /\ cookie \in {"absent", "valid", "rejected"}
  /\ del \in {"no", "cancel", "done"} /\ doomed \subseteq Jobs
  /\ scanAt \in {"idle", "status", "job", "record"}
  /\ scanned \in Videos \cup {NoVideo}
  /\ clicked \subseteq Decisions \X Videos
  /\ acked \subseteq Jobs

BoundTypes ==
  /\ crashes \in 0..MaxCrashes /\ shutdowns \in 0..MaxShutdowns
  /\ faults \in 0..MaxFaults /\ panics \in 0..MaxPanics

FlagTypes ==
  /\ cancelReq \in BOOLEAN /\ paused \in BOOLEAN /\ cooling \in BOOLEAN
  /\ ytPaused \in BOOLEAN /\ paste \in BOOLEAN /\ stopping \in BOOLEAN

TypeOK ==
  JobTypes /\ VideoTypes /\ WorkerTypes /\ AgentTypes /\ BoundTypes /\ FlagTypes

\* The jobs table keeps the promises of JobLifecycle: a job runs alone, ends
\* once, and never comes back from canceled, done or failed, however cancels,
\* deletes, restarts and the worker's late writes interleave.
Lifecycle == INSTANCE JobLifecycle
JobsKeepTheirPromise == Lifecycle!Spec

\* jobs/state.go: at most one row is running. Between a crash and the next
\* ResetOrphans it is the dead process's row.
AtMostOneRunning == \A j, k \in Jobs : Running(j) /\ Running(k) => j = k

\* A cancel that was answered with true is not lost: the job is canceled (or
\* deleted), or the running process still holds the flag and will settle it.
CancelHolds ==
  \A j \in acked :
    \/ jobState[j] \in {"canceled", "gone"}
    \/ cur = j /\ ((reg = j /\ cancelReq) \/ pc = "settle")

\* A job is canceled only because somebody asked for it: a flag raised for one
\* job never cancels the next.
OnlyAskedCancels == \A j \in Jobs : jobState[j] = "canceled" => j \in acked

\* A cancel that was answered with true is settled in the end, unless the
\* process dies first (Dies forgets the cancels only memory held).
CancelSettles ==
  \A j \in Jobs :
    (j \in acked) ~> (j \in acked => jobState[j] \in {"canceled", "gone"})

\* The worker leaves no job canceled with its video still in flight: whichever
\* way it learns of the cancel, the video goes back to 'new'.
CanceledVideoIsReleased ==
  [][(pc # "leave" /\ pc' = "leave" /\ cur # 0 /\ jobState'[cur] = "canceled")
       => status'[V] \notin {"queued", "downloading"}]_vars

HasLiveJob(v) == \E j \in Jobs : jobVideo[j] = v /\ jobState[j] \in Live
Settling(v) == /\ cur # 0 /\ jobVideo[cur] = v
               /\ pc \in {"markErr", "park", "parkWrite", "discard", "settleVideo"}
Enqueuing(v) == scanned = v /\ scanAt = "job"

\* No video is left 'queued' or 'downloading' with no job behind it, a state
\* nothing revisits, except while the worker or a scan is between two writes.
NothingStranded ==
  \A v \in Videos :
    status[v] \in {"queued", "downloading"} =>
      HasLiveJob(v) \/ Settling(v) \/ Enqueuing(v)

\* The row the worker discards was never downloaded, and the scan ledger
\* remembers the video.
DiscardLosesNothing ==
  [][(pc = "discard" /\ pc' = "leave") =>
       \A v \in Videos :
         (status[v] # "none" /\ status'[v] = "none") => v \notin had /\ ledger[v] # "none"]_vars

\* A job that can still run has attempts left.
BudgetKept == \A j \in Jobs : jobState[j] \in Live => attempts[j] < MaxAttempts

\* With the cookie valid and the switches open for good, every waiting job
\* ends.
QueueDrains ==
  <>[](cookie = "valid" /\ ~ytPaused /\ ~paused) =>
    \A j \in Jobs : (jobState[j] = "pending") ~> (jobState[j] \notin Live)

----------------------------------------------------------------------------
(* What comments of the code say and it does not do *)

\* settings_handlers.go: a valid cookie is stored and the worker resumed, so
\* an idle worker is not paused over a valid cookie.  It does not hold: see the
\* README.
PasteResumes == ~(paused /\ cookie = "valid" /\ ~paste /\ pc = "loop")

=============================================================================
