-------------------------- MODULE SummaryPipeline --------------------------
(***************************************************************************)
(* How peeq reads a video: the summary_jobs queue and the one worker that  *)
(* drains it (packages summaryjobs and summarize), for one video and the   *)
(* row, transcript, in-depth text and search index that belong to it. The  *)
(* worker races with the caption fetcher, the end of a download, an ignore, *)
(* a reprocess and the purge that follows a channel's keep_reads off.      *)
(*                                                                         *)
(* An action is one SQL statement or transaction, one critical section of  *)
(* purgeMu, one model or embedder call together with the reads it is built  *)
(* from (the step after it is the one that acts on them, possibly late), or *)
(* one outside event. Left out: the texts themselves, categories, failing   *)
(* statements and panics, deletes of the video or its channel, and the     *)
(* auto_summary switch (taken as on).                                      *)
(***************************************************************************)
EXTENDS Naturals, FiniteSets

CONSTANTS
  MaxJobs,      \* BOUND: rows ever inserted into summary_jobs
  MaxAttempts,  \* summary_jobs.max_attempts
  MaxRungs,     \* channelvideos.CaptionMaxAttempts
  MaxDownloads, \* BOUND: times somebody asks for the download
  MaxSwitches,  \* BOUND: flips of keep_reads
  MaxRedos,     \* BOUND: reprocess requests
  MaxRetries,   \* BOUND: "retry all failed" requests
  MaxCrashes,   \* BOUND: kills of the process
  MaxShutdowns, \* BOUND: orderly shutdowns
  Ignores,      \* BOOLEAN: is the inbox entry ever ignored?
  Blanks        \* BOOLEAN: are there transcripts with nothing to summarize?

ASSUME BoundsAssumption ==
  /\ MaxJobs \in Nat /\ MaxAttempts \in Nat \ {0} /\ MaxRungs \in Nat \ {0}
  /\ MaxDownloads \in Nat /\ MaxSwitches \in Nat /\ MaxRedos \in Nat
  /\ MaxRetries \in Nat /\ MaxCrashes \in Nat /\ MaxShutdowns \in Nat
  /\ Ignores \in BOOLEAN /\ Blanks \in BOOLEAN

VARIABLES
  \* the videos row and what hangs off it: status ("none": no row, "queued":
  \* queued or downloading), sum (summary_status), text (a summary is stored),
  \* keyed (key points are), current (embed_rev is the recipe's), source and
  \* blank (of the transcript), deep (in-depth text), owed (in_depth_retry),
  \* index (what its transcript_chunks were built from)
  video,
  jobState, tries,
  later,        \* the jobs whose next_attempt_at lies ahead
  ledger,       \* channel_videos.state
  rungs,        \* channel_videos.caption_attempts
  keep,         \* channels.keep_reads
  stranded,     \* vec_chunks and fts_chunks rows have lost their chunk
  \* the summarize worker: its place, its job, the rows it read, what it knows
  \* of the index it replaces, and what it embeds for
  pc, cur, saw, hand, goal,
  \* other goroutines between two steps: caption fetcher, finished download,
  \* ignore, reprocess, switch-off, purge and its second pass
  cap, dl, ign, redo, kick, purge, rerun,
  stopping,     \* the process context is cancelled
  left          \* what the bounds have left

jobVars   == <<jobState, tries, later>>
ledgVars  == <<ledger, rungs>>
knownVars == <<saw, hand, goal>>
workVars  == <<pc, cur, knownVars>>
purgeVars == <<kick, purge, rerun>>
agentVars == <<cap, dl, ign, redo, purgeVars>>
vars == <<video, jobVars, ledgVars, keep, stranded, workVars, agentVars, stopping, left>>

Jobs == 1..MaxJobs

Rows     == {"pending", "running", "done", "failed"}
JobStates == Rows \cup {"none", "gone"}
Statuses == {"none", "new", "queued", "downloaded", "error"}
Sums     == {"pending", "running", "done", "error", "no_transcript"}
Sources  == {"none", "caption", "download"}
Kinds    == {"summary", "chapters", "sections"}

Absent == [status |-> "none", sum |-> "pending", text |-> FALSE, keyed |-> FALSE,
           current |-> FALSE, source |-> "none", blank |-> FALSE, deep |-> FALSE,
           owed |-> "no", index |-> {}]

Exists == video.status # "none"

\* An UPDATE finds no row when there is none, an INSERT beside it no parent.
Write(row) == video' = IF Exists THEN row ELSE video

\* DELETE FROM videos: jobs, transcript, in-depth text and chunks cascade, the
\* virtual tables beside the chunks do not.
DeleteRow ==
  /\ video' = Absent
  /\ jobState' = [j \in Jobs |-> IF jobState[j] \in Rows THEN "gone" ELSE jobState[j]]
  /\ later' = {} /\ UNCHANGED tries

\* What the worker keeps of the row it read.
Facts == [f \in {"status", "sum", "text", "keyed", "current", "source", "blank"} |-> video[f]]
Nothing == [f \in DOMAIN Facts |-> Absent[f]]

Inbox(row) == row.status = "new" /\ row.source = "caption"

Spend(e) == left[e] > 0 /\ left' = [left EXCEPT ![e] = @ - 1]

Init ==
  /\ video = Absent
  /\ jobState = [j \in Jobs |-> "none"] /\ tries = [j \in Jobs |-> 0] /\ later = {}
  /\ ledger = "pending" /\ rungs = 0
  /\ keep \in BOOLEAN /\ stranded = FALSE
  /\ pc = "boot" /\ cur = 0 /\ saw = Nothing /\ hand = {} /\ goal = "-"
  /\ cap = "idle" /\ dl = "idle" /\ ign = "idle" /\ redo = FALSE
  /\ kick = ~keep /\ purge = "idle" /\ rerun = FALSE
  /\ stopping = FALSE
  /\ left = [downloads |-> MaxDownloads, switches |-> MaxSwitches, redos |-> MaxRedos,
             retries |-> MaxRetries, crashes |-> MaxCrashes, shutdowns |-> MaxShutdowns]

----------------------------------------------------------------------------
(* The queue *)

\* summaryjobs.EnqueueSQL, under the row's foreign key.
Insert ==
  \E j \in Jobs :
    /\ jobState[j] = "none" /\ \A k \in Jobs : k < j => jobState[k] # "none"
    /\ jobState' = [jobState EXCEPT ![j] = "pending"]
    /\ UNCHANGED <<tries, later>>

Claimable(j) == jobState[j] = "pending" /\ j \notin later

Quiet == UNCHANGED <<ledgVars, keep, stranded, agentVars, stopping, left>>

\* Run, before its loop: the last process's running jobs wait again ...
ResetOrphans ==
  /\ pc = "boot" /\ pc' = "missing"
  /\ jobState' = [j \in Jobs |-> IF jobState[j] = "running" THEN "pending" ELSE jobState[j]]
  /\ UNCHANGED <<video, tries, later, cur, knownVars>> /\ Quiet

Forgotten ==
  /\ video.status = "downloaded" /\ video.sum \notin {"done", "no_transcript"}
  /\ \A j \in Jobs : jobState[j] \notin Rows

\* Variant: a boot without the sweep.
EnqueueMissingSkipped ==
  /\ pc = "missing" /\ pc' = "backfill"
  /\ UNCHANGED <<video, jobVars, cur, knownVars>> /\ Quiet

\* ... a downloaded video without any job gets one ...
EnqueueMissing ==
  /\ pc = "missing" /\ pc' = "backfill"
  /\ IF Forgotten THEN Insert ELSE UNCHANGED jobVars
  /\ UNCHANGED <<video, cur, knownVars>> /\ Quiet

\* ... and a summary without its in-depth text owes one.
BackfillInDepth ==
  /\ pc = "backfill" /\ pc' = "idle"
  /\ video' = IF /\ video.sum = "done" /\ video.text /\ ~video.deep /\ video.owed = "no"
                 /\ video.status \in {"new", "queued", "downloaded"}
                 /\ video.source # "none" /\ ledger # "ignored"
              THEN [video EXCEPT !.owed = "due"] ELSE video
  /\ UNCHANGED <<jobVars, cur, knownVars>> /\ Quiet

\* Variant: an attempt is not counted.
ClaimNextUncounted ==
  /\ pc = "idle" /\ ~stopping
  /\ \E j \in Jobs :
       /\ Claimable(j) /\ \A k \in Jobs : Claimable(k) => j <= k
       /\ jobState' = [jobState EXCEPT ![j] = "running"]
       /\ cur' = j
  /\ pc' = "claimed"
  /\ UNCHANGED <<video, tries, later, knownVars>> /\ Quiet

\* Jobs.ClaimNext: the oldest job that is due; the claim counts the attempt.
ClaimNext ==
  /\ pc = "idle" /\ ~stopping
  /\ \E j \in Jobs :
       /\ Claimable(j) /\ \A k \in Jobs : Claimable(k) => j <= k
       /\ jobState' = [jobState EXCEPT ![j] = "running"]
       /\ tries' = [tries EXCEPT ![j] = @ + 1]
       /\ cur' = j
  /\ pc' = "claimed"
  /\ UNCHANGED <<video, later, knownVars>> /\ Quiet

\* A worker at rest knows nothing.
Rest == pc' = "idle" /\ cur' = 0 /\ saw' = Nothing /\ hand' = {} /\ goal' = "-"

\* Jobs.Finish
Finish ==
  /\ pc = "finish" /\ Rest
  /\ jobState' = [jobState EXCEPT ![cur] = IF @ \in Rows THEN "done" ELSE @]
  /\ UNCHANGED <<video, tries, later>> /\ Quiet

\* Jobs.Fail: back in the queue behind its backoff, or failed for good.
Fail ==
  /\ pc = "fail" \/ (pc = "requeue" /\ ~stopping)
  /\ Rest
  /\ LET last == tries[cur] >= MaxAttempts IN
     /\ jobState' = [jobState EXCEPT ![cur] =
          IF @ \notin Rows THEN @ ELSE IF last THEN "failed" ELSE "pending"]
     /\ later' = IF last THEN later \ {cur} ELSE later \cup {cur}
  /\ UNCHANGED <<video, tries>> /\ Quiet

BackoffElapses(j) ==
  /\ j \in later /\ later' = later \ {j}
  /\ UNCHANGED <<video, jobState, tries, workVars>> /\ Quiet

\* RetryFailed: a person gives every failed job a fresh budget.
RetryFailed ==
  /\ pc # "down" /\ Spend("retries")
  /\ \E j \in Jobs : jobState[j] = "failed"
  /\ jobState' = [j \in Jobs |-> IF jobState[j] = "failed" THEN "pending" ELSE jobState[j]]
  /\ tries' = [j \in Jobs |-> IF jobState[j] = "failed" THEN 0 ELSE tries[j]]
  /\ UNCHANGED <<video, later, ledgVars, keep, stranded, workVars, agentVars, stopping>>

----------------------------------------------------------------------------
(* The worker and its job: processOne *)

\* One step of the worker from p to q.
Go(p, q) == pc = p /\ pc' = q
SameJob  == UNCHANGED <<jobVars, cur>> /\ Quiet

\* Videos.Get; the job of a deleted row is gone with it.
LoadVideo ==
  /\ pc = "claimed"
  /\ \/ Exists /\ pc' = "transcript" /\ saw' = Facts /\ UNCHANGED <<cur, hand, goal>>
     \/ ~Exists /\ Rest
  /\ UNCHANGED <<video, jobVars>> /\ Quiet

LoadTranscript ==
  /\ Go("transcript", IF video.source = "none" THEN "noTranscript" ELSE "announce")
  /\ saw' = [saw EXCEPT !.source = video.source, !.blank = video.blank]
  /\ UNCHANGED <<video, hand, goal>> /\ SameJob

\* summary_status, then the summary call unless a summary is stored.
Announce ==
  /\ pc = "announce"
  /\ IF saw.sum = "done" THEN UNCHANGED video ELSE Write([video EXCEPT !.sum = "running"])
  /\ pc' \in IF saw.blank THEN {IF saw.text \/ saw.keyed THEN "discard" ELSE "unindex"}
            ELSE IF saw.text THEN {"summarized"} ELSE {"save", "failed"}
  /\ UNCHANGED knownVars /\ SameJob

\* discardStaleAnalysis, first half: ClearSummary drops the in-depth text too.
DiscardStale ==
  /\ Go("discard", "unindex")
  /\ Write([video EXCEPT !.text = FALSE, !.keyed = FALSE, !.deep = FALSE, !.owed = "no"])
  /\ UNCHANGED knownVars /\ SameJob

\* Second half: DeleteVideoChunks leaves embed_rev alone.
Unindex ==
  /\ Go("unindex", "noTranscript")
  /\ Write([video EXCEPT !.index = {}])
  /\ UNCHANGED knownVars /\ SameJob

NoTranscript ==
  /\ Go("noTranscript", "finish")
  /\ Write([video EXCEPT !.sum = "no_transcript"])
  /\ UNCHANGED knownVars /\ SameJob

\* SetSummaryText takes the in-depth text of the old summary with it.
SaveSummary ==
  /\ Go("save", "summarized")
  /\ Write([video EXCEPT !.text = TRUE, !.deep = FALSE, !.owed = "no"])
  /\ UNCHANGED knownVars /\ SameJob

MarkDone ==
  /\ Go("summarized", "deep")
  /\ IF saw.sum = "done" /\ ~Inbox(saw) THEN UNCHANGED video
     ELSE Write([video EXCEPT !.sum = "done"])
  /\ UNCHANGED knownVars /\ SameJob

AfterDeep == IF Inbox(saw) THEN "keepCheck" ELSE "keys"

\* inDepthStep: skipped beside a stored text, else the call.
InDepth ==
  /\ pc = "deep"
  /\ pc' \in IF video.deep THEN {AfterDeep} ELSE {"deepSave", "deepFailed"}
  /\ UNCHANGED <<video, knownVars>> /\ SameJob

SetInDepth ==
  /\ Go("deepSave", AfterDeep)
  /\ Write([video EXCEPT !.deep = TRUE])
  /\ UNCHANGED knownVars /\ SameJob

\* Variant: nobody owes the text afterwards.
DeferInDepthSkipped ==
  /\ Go("deepFailed", AfterDeep)
  /\ UNCHANGED <<video, knownVars>> /\ SameJob

\* deferInDepthFromJob, unless it was a shutdown that cut the call short.
DeferInDepth ==
  /\ Go("deepFailed", AfterDeep)
  /\ IF stopping THEN UNCHANGED video ELSE Write([video EXCEPT !.owed = "later"])
  /\ UNCHANGED knownVars /\ SameJob

\* An inbox read stops here, indexed only where the channel keeps its reads:
\* keep_reads as it is now, not as it was when the row was read.
KeepCheck ==
  /\ pc = "keepCheck"
  /\ IF keep /\ Exists THEN pc' = "embed" /\ goal' = "inbox"
                       ELSE pc' = "finish" /\ UNCHANGED goal
  /\ UNCHANGED <<video, saw, hand>> /\ SameJob

\* The key-points call. After a failure an unindexed video is embedded anyway.
KeyPoints ==
  /\ pc = "keys"
  /\ \/ pc' = "saveKeys" /\ UNCHANGED goal
     \/ ~saw.current /\ pc' = "embed" /\ goal' = "fallback"
     \/ saw.current /\ pc' = "requeue" /\ UNCHANGED goal
  /\ UNCHANGED <<video, saw, hand>> /\ SameJob

\* Variant: the chapters are written and embed_rev stays.
SetKeyPointsKeepsRev ==
  /\ Go("saveKeys", "embed") /\ goal' = "full"
  /\ Write([video EXCEPT !.keyed = TRUE])
  /\ UNCHANGED <<saw, hand>> /\ SameJob

\* SetKeyPoints: new chapters, and the index is not current any more.
SetKeyPoints ==
  /\ Go("saveKeys", "embed") /\ goal' = "full"
  /\ Write([video EXCEPT !.keyed = TRUE, !.current = FALSE])
  /\ UNCHANGED <<saw, hand>> /\ SameJob

----------------------------------------------------------------------------
(* The index: embedAndStore, for a job or for an in-depth retry *)

EmbedFailed == [inbox |-> "failed", full |-> "requeue", fallback |-> "requeue",
                retry |-> "retryFailed"][goal]

\* The in-depth text, the chunks to keep and the embedder's answer for the
\* rest. "reuse": a stored chunk is counted on.
Embed ==
  /\ pc = "embed"
  /\ \/ /\ pc' = "replace"
        /\ \E reuse \in SUBSET {"reuse"} :
             /\ reuse # {} => video.index # {}
             /\ hand' = reuse \cup IF video.deep THEN {"deep"} ELSE {}
     \/ pc' = EmbedFailed /\ UNCHANGED hand
  /\ UNCHANGED <<video, saw, goal>> /\ SameJob

\* The chapters of an index come from key points just written, or from the row
\* the worker read; an inbox read has none.
Chaptered ==
  goal = "full" \/ (goal = "fallback" /\ saw.keyed) \/ (goal = "retry" /\ saw.keyed /\ ~Inbox(saw))

Built ==
  {"summary"} \cup (IF Chaptered THEN {"chapters"} ELSE {})
              \cup (IF "deep" \in hand THEN {"sections"} ELSE {})

AfterEmbed ==
  CASE goal = "full" -> "finish"
    [] goal = "fallback" -> "requeue"
    [] goal = "retry" /\ ~Inbox(saw) -> "retryClear"
    [] OTHER -> "recheck"

\* ReplaceVideoChunks: it fails without the row, without a chunk it was to
\* keep, and under a cancelled context.
ReplaceVideoChunks ==
  /\ pc = "replace"
  /\ IF Exists /\ ("reuse" \in hand => video.index # {}) /\ ~stopping
     THEN /\ video' = [video EXCEPT !.index = Built, !.current = TRUE]
          /\ pc' = AfterEmbed
     ELSE UNCHANGED video /\ pc' = EmbedFailed
  /\ UNCHANGED knownVars /\ SameJob

AfterRecheck == IF goal = "retry" THEN "retryClear" ELSE "finish"

\* Variant: the switch is not asked again.
RecheckKeepSkipped ==
  /\ Go("recheck", AfterRecheck)
  /\ UNCHANGED <<video, knownVars>> /\ SameJob

\* The embed of an inbox read took a while: is the switch still on?
RecheckKeep ==
  /\ Go("recheck", IF keep /\ Exists THEN AfterRecheck ELSE "drop")
  /\ UNCHANGED <<video, knownVars>> /\ SameJob

DropIndex ==
  /\ Go("drop", AfterRecheck)
  /\ Write([video EXCEPT !.index = {}, !.current = FALSE])
  /\ UNCHANGED knownVars /\ SameJob

----------------------------------------------------------------------------
(* In-depth retries, on a turn without a job: inDepthOne *)

Need(row) ==
  /\ video.index # {} /\ "sections" \notin video.index
  /\ Inbox(row) => keep

RetryRead ==
  /\ pc = "idle" /\ ~stopping /\ (\A j \in Jobs : ~Claimable(j)) /\ video.owed = "due"
  /\ saw' = Facts /\ goal' = "retry"
  /\ LET worth == /\ video.sum = "done" /\ video.text /\ ledger # "ignored"
                  /\ video.source # "none"
     IN pc' \in CASE worth /\ video.deep /\ Need(Facts) /\ ~video.blank -> {"embed"}
                  [] worth /\ ~video.deep /\ ~video.blank -> {"retrySave", "retryFailed"}
                  [] OTHER -> {"retryClear"}
  /\ UNCHANGED <<video, hand>> /\ SameJob

\* SetInDepthIfSummary: only beside the summary it was written from.
RetrySave ==
  /\ pc = "retrySave"
  /\ IF video.sum = "done" /\ video.text
     THEN video' = [video EXCEPT !.deep = TRUE] /\ pc' = "retryAgain"
     ELSE UNCHANGED video /\ pc' = "retryClear"
  /\ UNCHANGED knownVars /\ SameJob

\* The row as it is after the call; the transcript is the one read before it.
RetryAgain ==
  /\ pc = "retryAgain"
  /\ saw' = [Facts EXCEPT !.source = saw.source, !.blank = saw.blank]
  /\ pc' = IF video.text /\ Need(saw') THEN "embed" ELSE "retryClear"
  /\ UNCHANGED <<video, hand, goal>> /\ SameJob

RetryClear ==
  /\ pc = "retryClear" /\ Rest
  /\ Write([video EXCEPT !.owed = "no"])
  /\ UNCHANGED jobVars /\ Quiet

RetryDefer ==
  /\ pc = "retryFailed" /\ ~stopping /\ Rest
  /\ Write([video EXCEPT !.owed = "later"])
  /\ UNCHANGED jobVars /\ Quiet

RetryFallsDue ==
  /\ video.owed = "later" /\ video' = [video EXCEPT !.owed = "due"]
  /\ UNCHANGED <<jobVars, workVars>> /\ Quiet

----------------------------------------------------------------------------
(* How a job's analysis fails: failJob, requeueJob, interrupted *)

FailJob ==
  /\ Go("failed", "fail") /\ ~stopping
  /\ Write([video EXCEPT !.sum = "error"])
  /\ UNCHANGED knownVars /\ SameJob

\* A failure during a shutdown writes nothing, the running job is an orphan;
\* an idle worker just returns.
Interrupted ==
  /\ pc \in {"failed", "requeue", "retryFailed", "idle"} /\ stopping
  /\ pc' = "down" /\ cur' = 0 /\ saw' = Nothing /\ hand' = {} /\ goal' = "-"
  /\ UNCHANGED <<video, jobVars>> /\ Quiet

----------------------------------------------------------------------------
(* The caption fetcher (captionfetch), for a video in the Inbox *)

Up == pc # "down" \/ stopping

\* What no other goroutine than the worker touches.
Apart == UNCHANGED workVars

CapStep(p, q) == Up /\ cap = p /\ cap' = q
CapOnly == UNCHANGED <<keep, stranded, dl, ign, redo, purgeVars, stopping, left>> /\ Apart

\* NextCaptionCandidate: undecided, in no download's hands, the ladder not run out.
NextCaptionCandidate ==
  ledger = "pending" /\ video.status \in {"none", "new", "error"} /\ rungs < MaxRungs

\* pass: the attempt is counted before anything can fail.
TakeCandidate ==
  /\ CapStep("idle", "row") /\ ~stopping /\ NextCaptionCandidate
  /\ rungs' = rungs + 1
  /\ UNCHANGED <<video, jobVars, ledger>> /\ CapOnly

EnsureRow ==
  /\ CapStep("row", "fetch")
  /\ video' = IF Exists THEN video ELSE [Absent EXCEPT !.status = "new"]
  /\ UNCHANGED <<jobVars, ledgVars>> /\ CapOnly

\* Captions; none, or an error on the last attempt: settle without; a gate, a
\* shutdown or a rate limit on the last attempt: the attempt is given back.
FetchCaptions ==
  /\ Up /\ cap = "fetch"
  /\ \/ cap' = "check" /\ UNCHANGED rungs
     \/ cap' = (IF rungs >= MaxRungs THEN "without" ELSE "idle") /\ UNCHANGED rungs
     \/ cap' = "idle" /\ rungs' = IF rungs > 0 THEN rungs - 1 ELSE 0
  /\ UNCHANGED <<video, jobVars, ledger>> /\ CapOnly

\* settleWithout
SetNoCaptions ==
  /\ CapStep("without", "settleOnly")
  /\ Write([video EXCEPT !.sum = "no_transcript"])
  /\ UNCHANGED <<jobVars, ledgVars>> /\ CapOnly

\* claimedByPipeline, after the fetch.
CheckClaimed ==
  /\ CapStep("check", IF video.status \notin {"none", "new", "error"} \/ video.source = "download"
                      THEN "idle" ELSE "store")
  /\ UNCHANGED <<video, jobVars, ledgVars>> /\ CapOnly

StoreCaptions ==
  /\ CapStep("store", IF Exists THEN "settle" ELSE "idle")
  /\ \E blank \in {FALSE, Blanks} :
       Write([video EXCEPT !.source = "caption", !.blank = blank])
  /\ UNCHANGED <<jobVars, ledgVars>> /\ CapOnly

SettleCaptions ==
  /\ \/ CapStep("settle", "enqueue")
     \/ CapStep("settleOnly", "idle")
  /\ rungs' = MaxRungs
  /\ UNCHANGED <<video, jobVars, ledger>> /\ CapOnly

EnqueueRead ==
  /\ CapStep("enqueue", "idle")
  /\ IF Exists THEN Insert ELSE UNCHANGED jobVars
  /\ UNCHANGED <<video, ledgVars>> /\ CapOnly

\* RetryCaptions: a person asks once more for captions that were not found.
RetryCaptions ==
  /\ Up /\ Spend("retries")
  /\ ledger = "pending" /\ video.status \in {"new", "error"}
  /\ video.sum = "no_transcript" /\ video.source = "none"
  /\ rungs' = 0
  /\ video' = [video EXCEPT !.sum = "pending"]
  /\ UNCHANGED <<jobVars, ledger, keep, stranded, workVars, agentVars, stopping>>

----------------------------------------------------------------------------
(* The download, as far as it touches this video *)

DlOnly == UNCHANGED <<keep, cap, ign, redo, purgeVars, stopping>> /\ Apart

\* By URL, or approved in the Inbox or from Search; only an approval takes an
\* ignored entry along.
AskDownload ==
  /\ Up /\ ~stopping /\ Spend("downloads")
  /\ video.status \in {"none", "new", "error"} /\ dl = "idle"
  /\ video' = IF Exists THEN [video EXCEPT !.status = "queued"]
                        ELSE [Absent EXCEPT !.status = "queued"]
  /\ ledger' \in [pending |-> {"queued"}, ignored |-> {"ignored", "queued"},
                 queued |-> {"queued"}, unavailable |-> {"unavailable"}][ledger]
  /\ UNCHANGED <<jobVars, rungs, stranded, dl>> /\ DlOnly

\* complete
SetDownloaded ==
  /\ Up /\ video.status = "queued" /\ dl = "idle" /\ dl' = "store"
  /\ video' = [video EXCEPT !.status = "downloaded"]
  /\ UNCHANGED <<jobVars, ledgVars, stranded, left>> /\ DlOnly

\* storeTranscript: the video's own, if it has one.
StoreTranscript ==
  /\ Up /\ dl = "store" /\ dl' = "enqueue"
  /\ \/ UNCHANGED video
     \/ \E blank \in {FALSE, Blanks} :
          Write([video EXCEPT !.source = "download", !.blank = blank])
  /\ UNCHANGED <<jobVars, ledgVars, stranded, left>> /\ DlOnly

EnqueueDownloaded ==
  /\ Up /\ dl = "enqueue" /\ dl' = "idle"
  /\ IF Exists THEN Insert ELSE UNCHANGED jobVars
  /\ UNCHANGED <<video, ledgVars, stranded, left>> /\ DlOnly

\* settleCanceled, or fail.
DownloadEnds ==
  /\ Up /\ video.status = "queued"
  /\ \E status \in {"new", "error"} : video' = [video EXCEPT !.status = status]
  /\ UNCHANGED <<jobVars, ledgVars, stranded, dl, left>> /\ DlOnly

\* park: the ledger remembers the video, Discard deletes its row.
Park ==
  /\ Up /\ video.status = "queued"
  /\ ledger' = "unavailable"
  /\ stranded' = (stranded \/ video.index # {})
  /\ DeleteRow
  /\ UNCHANGED <<rungs, dl, left>> /\ DlOnly

----------------------------------------------------------------------------
(* Requests: ignore, reprocess, keep_reads *)

\* handlePendingIgnore: the ledger first ...
Ignore ==
  /\ Up /\ Ignores /\ ign = "idle" /\ ledger = "pending"
  /\ ledger' = "ignored" /\ ign' = "look"
  /\ UNCHANGED <<video, jobVars, rungs, keep, stranded, cap, dl, redo, purgeVars, stopping, left>>
  /\ Apart

\* ... then dropInboxRead looks whether it was only a read, and an unindexed one ...
IgnoreLooks ==
  /\ Up /\ ign = "look"
  /\ ign' = IF video.status = "new" /\ video.source # "download" /\ video.index = {}
            THEN "discard" ELSE "idle"
  /\ UNCHANGED <<video, jobVars, ledgVars, keep, stranded, cap, dl, redo, purgeVars, stopping, left>>
  /\ Apart

\* ... and discards it.
IgnoreDiscards ==
  /\ Up /\ ign = "discard" /\ ign' = "idle"
  /\ stranded' = (stranded \/ video.index # {})
  /\ DeleteRow
  /\ UNCHANGED <<ledgVars, keep, cap, dl, redo, purgeVars, stopping, left>> /\ Apart

\* handleReprocess: its conditions ...
AskReprocess ==
  /\ Up /\ Spend("redos") /\ ~redo /\ redo' = TRUE
  /\ Exists /\ video.source # "none" /\ video.status # "queued"
  /\ UNCHANGED <<video, jobVars, ledgVars, keep, stranded, cap, dl, ign, purgeVars, stopping>>
  /\ Apart

\* ... then ResetAndEnqueueSummary in one transaction.
ResetAndEnqueueSummary ==
  /\ Up /\ redo /\ redo' = FALSE
  /\ \/ /\ Exists /\ Insert
        /\ video' = [video EXCEPT !.sum = "pending", !.text = FALSE, !.keyed = FALSE,
                                  !.current = FALSE, !.deep = FALSE, !.owed = "no"]
     \/ ~Exists /\ UNCHANGED <<video, jobVars>>
  /\ UNCHANGED <<ledgVars, keep, stranded, cap, dl, ign, purgeVars, stopping, left>> /\ Apart

\* SetKeepReads; every off asks for a purge.
SetKeepReads ==
  /\ Up /\ Spend("switches") /\ keep' = ~keep /\ kick' = (kick \/ keep)
  /\ UNCHANGED <<video, jobVars, ledgVars, stranded, cap, dl, ign, redo, purge, rerun, stopping>>
  /\ Apart

PurgeOnly == UNCHANGED <<ledgVars, keep, stranded, cap, dl, ign, redo, stopping, left>> /\ Apart

\* claimPurge: a running purge is asked for one more pass.
ClaimPurge ==
  /\ Up /\ kick /\ kick' = FALSE
  /\ IF purge = "idle" THEN purge' = "list" /\ UNCHANGED rerun
                       ELSE rerun' = TRUE /\ UNCHANGED purge
  /\ UNCHANGED <<video, jobVars>> /\ PurgeOnly

\* keptVideos: what this pass will do with the video.
ListKept ==
  /\ Up /\ purge = "list"
  /\ purge' = IF video.status # "new" \/ video.source = "download" THEN "end"
              ELSE IF ledger = "ignored" THEN "askIgnored"
              ELSE IF ledger = "pending" /\ video.index # {} THEN "askInbox"
              ELSE "end"
  /\ UNCHANGED <<video, jobVars, kick, rerun>> /\ PurgeOnly

\* stillOff
AskStillOff ==
  /\ Up /\ purge \in {"askIgnored", "askInbox"}
  /\ purge' = IF keep \/ stopping THEN "end"
              ELSE IF purge = "askIgnored" THEN "purge" ELSE "dropIndex"
  /\ UNCHANGED <<video, jobVars, kick, rerun>> /\ PurgeOnly

\* PurgeKept: the row with its chunks, or only the index.
PurgeKept ==
  /\ Up /\ purge \in {"purge", "dropIndex"} /\ purge' = "end"
  /\ IF purge = "purge" THEN DeleteRow
     ELSE Write([video EXCEPT !.index = {}, !.current = FALSE]) /\ UNCHANGED jobVars
  /\ ledger' = IF purge = "purge" /\ Exists /\ ledger \in {"unavailable", "pending"}
               THEN "queued" ELSE ledger
  /\ UNCHANGED <<rungs, keep, stranded, cap, dl, ign, redo, kick, rerun, stopping, left>> /\ Apart

\* runPurge: once more, or release the claim.
EndPass ==
  /\ Up /\ purge = "end" /\ purge' = (IF rerun /\ ~stopping THEN "list" ELSE "idle")
  /\ rerun' = FALSE
  /\ UNCHANGED <<video, jobVars, kick>> /\ PurgeOnly

----------------------------------------------------------------------------
(* The process *)

NoAgents == /\ cap' = "idle" /\ dl' = "idle" /\ ign' = "idle" /\ redo' = FALSE
            /\ purge' = "idle" /\ rerun' = FALSE /\ stopping' = FALSE

Crash ==
  /\ pc # "down" /\ Spend("crashes")
  /\ pc' = "down" /\ cur' = 0 /\ saw' = Nothing /\ hand' = {} /\ goal' = "-"
  /\ NoAgents /\ kick' = FALSE
  /\ UNCHANGED <<video, jobVars, ledgVars, keep, stranded>>

Shutdown ==
  /\ pc # "down" /\ ~stopping /\ Spend("shutdowns") /\ stopping' = TRUE
  /\ UNCHANGED <<video, jobVars, ledgVars, keep, stranded, workVars, agentVars>>

\* A new process: resumeKeptPurges takes up every switched-off channel.
Restart ==
  /\ pc = "down" /\ pc' = "boot" /\ NoAgents /\ kick' = ~keep
  /\ UNCHANGED <<video, jobVars, ledgVars, keep, stranded, cur, knownVars, left>>

Work ==
  \/ ResetOrphans \/ EnqueueMissing \/ BackfillInDepth \/ ClaimNext
  \/ LoadVideo \/ LoadTranscript \/ Announce \/ DiscardStale \/ Unindex \/ NoTranscript
  \/ SaveSummary \/ MarkDone \/ InDepth \/ SetInDepth \/ DeferInDepth \/ KeepCheck
  \/ KeyPoints \/ SetKeyPoints \/ Embed \/ ReplaceVideoChunks \/ RecheckKeep \/ DropIndex
  \/ RetryRead \/ RetrySave \/ RetryAgain \/ RetryClear \/ RetryDefer
  \/ Finish \/ FailJob \/ Fail \/ Interrupted

Others ==
  \/ TakeCandidate \/ EnsureRow \/ FetchCaptions \/ SetNoCaptions \/ CheckClaimed
  \/ StoreCaptions \/ SettleCaptions \/ EnqueueRead \/ RetryCaptions
  \/ AskDownload \/ SetDownloaded \/ StoreTranscript \/ EnqueueDownloaded
  \/ DownloadEnds \/ Park
  \/ Ignore \/ IgnoreLooks \/ IgnoreDiscards \/ AskReprocess \/ ResetAndEnqueueSummary
  \/ SetKeepReads \/ ClaimPurge \/ ListKept \/ AskStillOff \/ PurgeKept \/ EndPass

Next ==
  \/ Work \/ Others
  \/ RetryFailed \/ RetryFallsDue \/ (\E j \in Jobs : BackoffElapses(j))
  \/ Crash \/ Shutdown \/ Restart

\* The worker loop runs, a backoff runs out, and a stopped process is started
\* again; nobody has to ask for anything, and no call has to succeed.
Spec ==
  /\ Init /\ [][Next]_vars
  /\ WF_vars(Work) /\ WF_vars(Restart)
  /\ \A j \in Jobs : WF_vars(BackoffElapses(j))

----------------------------------------------------------------------------
(* Properties *)

\* The types; a row that does not exist holds nothing; the ladder of caption
\* attempts stays within its rungs however often one is given back.
TypeOK ==
  /\ video \in [status : Statuses, sum : Sums, text : BOOLEAN, keyed : BOOLEAN,
                current : BOOLEAN, source : Sources, blank : BOOLEAN, deep : BOOLEAN,
                owed : {"no", "later", "due"}, index : SUBSET Kinds]
  /\ ~Exists => video = Absent
  /\ jobState \in [Jobs -> JobStates] /\ tries \in [Jobs -> Nat] /\ later \subseteq Jobs
  /\ ledger \in {"pending", "ignored", "queued", "unavailable"} /\ rungs \in 0..MaxRungs
  /\ keep \in BOOLEAN /\ stranded \in BOOLEAN
  /\ cur \in Jobs \cup {0} /\ hand \subseteq {"deep", "reuse"}
  /\ goal \in {"-", "inbox", "full", "fallback", "retry"}
  /\ cap \in {"idle", "row", "fetch", "check", "store", "settle", "enqueue", "without", "settleOnly"}
  /\ dl \in {"idle", "store", "enqueue"} /\ ign \in {"idle", "look", "discard"}
  /\ purge \in {"idle", "list", "askIgnored", "askInbox", "purge", "dropIndex", "end"}
  /\ {redo, kick, rerun, stopping} \subseteq BOOLEAN

Live(j) == jobState[j] \in {"pending", "running"}

\* The worker's embed of an inbox read, up to its second look at the switch.
Embedding == goal \in {"inbox", "retry"}

\* Once a switch-off has been carried out, no read that nobody ever asked to
\* download is left in the search index: neither the purge nor the embed that
\* was under way when it ran may lose the other's effect.
SwitchOffHolds ==
  (/\ ~keep /\ ~kick /\ purge = "idle" /\ pc # "down" /\ ~stopping /\ ~Embedding
   /\ left.downloads = MaxDownloads /\ video.source = "caption")
    => video.index = {}

\* A downloaded video the summary queue has never heard of is one whose
\* download is just about to say so, or whose process has died and whose boot
\* sweep is still to come.
NothingForgotten ==
  Forgotten => dl # "idle" \/ pc \in {"down", "boot", "missing"}

\* An index that is marked current was built from the key points that are on
\* the row, whatever order failures, fallbacks and reprocesses came in: of a
\* video whose download is the first that was asked for. (A second one may find
\* the row read in the Inbox again: see the README.)
IndexHasChapters ==
  (/\ video.status = "downloaded" /\ video.current /\ video.keyed
   /\ left.downloads + 1 >= MaxDownloads)
    => "chapters" \in video.index

\* Between two turns of the worker and with no job to come: a summary without
\* in-depth text, and no retry that owes it.
Unowed ==
  /\ video.sum = "done" /\ video.text /\ video.source # "none" /\ ~video.blank
  /\ ~video.deep /\ video.owed = "no" /\ video.status \in {"new", "downloaded"}
  /\ pc = "idle" /\ ~stopping /\ dl = "idle" /\ cap = "idle" /\ \A j \in Jobs : ~Live(j)

\* No summary is left without its in-depth text and without a retry that owes
\* it, unless the user ignored the video.
DeepOwed == Unowed => ledger = "ignored"

\* Every queued analysis comes to an end, done or failed for good, although any
\* call may fail, the worker may be interrupted and the process may die.
SummarySettles ==
  \A j \in Jobs : jobState[j] = "pending" ~> jobState[j] \in {"done", "failed", "gone"}

\* The next three do not hold: see the README.

\* What Discard's comment says: the rows it deletes have no chunks, so no
\* vector loses its chunk.
VectorsHaveChunks == ~stranded

\* What IgnoredRead's comment says: the in-depth retries that are dropped as
\* ignored are those of reads that stayed in the Inbox, never of a downloaded
\* video.
OnlyReadsDropped == Unowed => video.status # "downloaded"

\* What EnqueueMissing's comment says: a process killed between marking a video
\* downloaded and queueing its summary leaves no downloaded video unanalysed.
DownloadedIsAnalysed ==
  (video.status = "downloaded" /\ video.sum = "done" /\ dl = "idle" /\ pc = "idle")
    => video.keyed \/ \E j \in Jobs : jobState[j] \in {"pending", "running", "failed"}
=============================================================================
