------------------------ MODULE SummaryPipelineProofs ------------------------
(***************************************************************************)
(* Theorems about SummaryPipeline: its types, its four safety invariants,  *)
(* and the lane of its queue, each from an inductive invariant. Every      *)
(* invariant is kept by the worker's steps (Work), by those of the other    *)
(* goroutines (Others) and by clocks, clicks and the process (Process); an *)
(* action that matters to it has a step of its own, those that leave it    *)
(* alone share one.                                                        *)
(***************************************************************************)
EXTENDS SummaryPipeline, TLAPS

----------------------------------------------------------------------------
(* Types. The worker's place decides what it holds: nothing between two     *)
(* turns, its job from the claim to the write that ends it, and a caller to  *)
(* go back to while it embeds.                                              *)

VideoRows == [status : Statuses, sum : Sums, text : BOOLEAN, keyed : BOOLEAN,
              current : BOOLEAN, source : Sources, blank : BOOLEAN, deep : BOOLEAN,
              owed : {"no", "later", "due"}, index : SUBSET Kinds]

RowOK == video \in VideoRows /\ (~Exists => video = Absent)

QueueOK == /\ jobState \in [Jobs -> JobStates] /\ tries \in [Jobs -> Nat]
           /\ later \subseteq Jobs /\ cur \in Jobs \cup {0}

Budgets == [downloads : Nat, switches : Nat, redos : Nat, retries : Nat, crashes : Nat,
            shutdowns : Nat]

LedgerOK == ledger \in {"pending", "ignored", "queued", "unavailable"} /\ rungs \in 0..MaxRungs

FlagsOK ==
  /\ keep \in BOOLEAN /\ stranded \in BOOLEAN
  /\ redo \in BOOLEAN /\ kick \in BOOLEAN /\ rerun \in BOOLEAN /\ stopping \in BOOLEAN

PlacesOK ==
  /\ cap \in {"idle", "row", "fetch", "check", "store", "settle", "enqueue", "without", "settleOnly"}
  /\ dl \in {"idle", "store", "enqueue"} /\ ign \in {"idle", "look", "discard"}
  /\ purge \in {"idle", "list", "askIgnored", "askInbox", "purge", "dropIndex", "end"}

OthersOK == LedgerOK /\ FlagsOK /\ PlacesOK /\ left \in Budgets

AtRest == pc \in {"boot", "missing", "backfill", "idle", "down"}

\* Where the worker has a job in hand whatever else it does.
OfJob == pc \in {"claimed", "transcript", "announce", "discard", "unindex", "noTranscript", "save",
                 "summarized", "deep", "deepSave", "deepFailed", "keepCheck", "keys", "saveKeys",
                 "failed", "fail", "requeue", "finish"}

Copies == [status : Statuses, sum : Sums, text : BOOLEAN, keyed : BOOLEAN,
           current : BOOLEAN, source : Sources, blank : BOOLEAN]

WorkerOK ==
  /\ saw \in Copies
  /\ hand \subseteq {"deep", "reuse"} /\ goal \in {"-", "inbox", "full", "fallback", "retry"}
  /\ goal = "retry" => cur = 0
  /\ \/ AtRest /\ cur = 0 /\ saw = Nothing /\ hand = {} /\ goal = "-"
     \/ OfJob /\ cur # 0
        /\ (goal # "-" => pc \in {"failed", "fail", "requeue", "finish"})
     \/ pc \in {"embed", "replace"} /\ (goal = "retry" \/ (goal # "-" /\ cur # 0))
     \/ pc \in {"recheck", "drop"} /\ (goal = "retry" \/ (goal = "inbox" /\ cur # 0))
     \/ pc \in {"retrySave", "retryAgain", "retryClear", "retryFailed"} /\ goal = "retry"

TypeInv == RowOK /\ QueueOK /\ OthersOK /\ WorkerOK

LEMMA TypeInvTypes ==
  ASSUME TypeInv
  PROVE  TypeOK
BY DEF TypeInv, RowOK, QueueOK, OthersOK, LedgerOK, FlagsOK, PlacesOK, WorkerOK, VideoRows, TypeOK

\* What the worker copies of a row is that row's, column by column.
LEMMA FactsCopy ==
  ASSUME RowOK
  PROVE  /\ Facts \in Copies
         /\ Facts.status = video.status /\ Facts.sum = video.sum /\ Facts.text = video.text
         /\ Facts.keyed = video.keyed /\ Facts.current = video.current
         /\ Facts.source = video.source /\ Facts.blank = video.blank
BY DEF Facts, Copies, RowOK, VideoRows

\* The copy of a worker at rest says nothing of any row.
LEMMA NothingCopy ==
  /\ Nothing \in Copies
  /\ Nothing.status = "none" /\ Nothing.sum = "pending" /\ ~Nothing.text
  /\ ~Nothing.keyed /\ ~Nothing.current /\ Nothing.source = "none" /\ ~Nothing.blank
  /\ Nothing' = Nothing
BY DEF Nothing, Facts, Absent, Copies, Statuses, Sums, Sources

\* No action of the worker touches what belongs to the other goroutines.
LEMMA WorkIsQuiet ==
  ASSUME Work
  PROVE  UNCHANGED <<ledger, rungs, keep, stranded, cap, dl, ign, redo, kick, purge, rerun,
                     stopping, left>>
<1> USE DEF Quiet, SameJob, ledgVars, agentVars, purgeVars
<1>1. CASE ResetOrphans \/ EnqueueMissing \/ BackfillInDepth \/ ClaimNext \/ LoadVideo \/
        LoadTranscript
  BY <1>1 DEF ResetOrphans, EnqueueMissing, Insert, BackfillInDepth, ClaimNext, Claimable,
    LoadVideo, Exists, Rest, LoadTranscript, Go
<1>2. CASE Announce \/ DiscardStale \/ Unindex \/ NoTranscript \/ SaveSummary \/ MarkDone
  BY <1>2 DEF Announce, Write, Exists, DiscardStale, Go, Unindex, NoTranscript, SaveSummary,
    MarkDone, Inbox
<1>3. CASE InDepth \/ SetInDepth \/ DeferInDepth \/ KeepCheck \/ KeyPoints \/ SetKeyPoints
  BY <1>3 DEF InDepth, AfterDeep, SetInDepth, Go, Write, Exists, DeferInDepth, KeepCheck,
    KeyPoints, SetKeyPoints
<1>4. CASE Embed \/ ReplaceVideoChunks \/ RecheckKeep \/ DropIndex \/ RetryRead \/ RetrySave
  BY <1>4 DEF Embed, EmbedFailed, ReplaceVideoChunks, Exists, AfterEmbed, RecheckKeep, Go,
    AfterRecheck, DropIndex, Write, RetryRead, RetrySave
<1>5. CASE RetryAgain \/ RetryClear \/ RetryDefer \/ Finish \/ FailJob \/ Fail
  BY <1>5 DEF RetryAgain, RetryClear, Write, Exists, Rest, RetryDefer, Finish, FailJob, Go,
    Fail
<1>6. CASE Interrupted
  BY <1>6 DEF Interrupted
<1> QED
  BY <1>1, <1>2, <1>3, <1>4, <1>5, <1>6 DEF Work
\* And no action of theirs touches what is the worker's.
LEMMA OthersLeaveWorker ==
  ASSUME Others
  PROVE  UNCHANGED <<pc, cur, saw, hand, goal>>
<1> USE DEF Apart, workVars, knownVars
<1>1. CASE TakeCandidate \/ EnsureRow \/ FetchCaptions \/ SetNoCaptions \/ CheckClaimed \/
        StoreCaptions
  BY <1>1 DEF TakeCandidate, CapStep, CapOnly, EnsureRow, Exists, FetchCaptions,
    SetNoCaptions, Write, CheckClaimed, StoreCaptions
<1>2. CASE SettleCaptions \/ EnqueueRead \/ RetryCaptions \/ AskDownload \/ SetDownloaded \/
        StoreTranscript
  BY <1>2 DEF SettleCaptions, CapStep, CapOnly, EnqueueRead, Insert, Exists, RetryCaptions,
    Spend, AskDownload, DlOnly, SetDownloaded, StoreTranscript, Write
<1>3. CASE EnqueueDownloaded \/ DownloadEnds \/ Park \/ Ignore \/ IgnoreLooks \/ IgnoreDiscards
  BY <1>3 DEF EnqueueDownloaded, DlOnly, Insert, Exists, DownloadEnds, Park, DeleteRow,
    Ignore, IgnoreLooks, IgnoreDiscards
<1>4. CASE AskReprocess \/ ResetAndEnqueueSummary \/ SetKeepReads \/ ClaimPurge \/ ListKept \/
        AskStillOff
  BY <1>4 DEF AskReprocess, Spend, Exists, ResetAndEnqueueSummary, Insert, SetKeepReads,
    ClaimPurge, PurgeOnly, ListKept, AskStillOff
<1>5. CASE PurgeKept \/ EndPass
  BY <1>5 DEF PurgeKept, DeleteRow, Write, Exists, EndPass, PurgeOnly
<1> QED
  BY <1>1, <1>2, <1>3, <1>4, <1>5 DEF Others

----------------------------------------------------------------------------
(* Types: every step keeps them *)

LEMMA RowWork ==
  ASSUME TypeInv, Work
  PROVE  RowOK'
<1> USE BoundsAssumption
  DEF RowOK, VideoRows, Write, Exists, Absent, Statuses, Sums, Sources, Quiet, SameJob, Apart,
      jobVars, ledgVars, knownVars, TypeInv, WorkerOK
<1>1. CASE BackfillInDepth
  BY <1>1 DEF BackfillInDepth
<1>2. CASE Announce
  BY <1>2 DEF Announce
<1>3. CASE DiscardStale
  BY <1>3 DEF DiscardStale, Go
<1>4. CASE Unindex
  BY <1>4 DEF Unindex, Go
<1>5. CASE NoTranscript
  BY <1>5 DEF NoTranscript, Go
<1>6. CASE SaveSummary
  BY <1>6 DEF SaveSummary, Go
<1>7. CASE MarkDone
  BY <1>7 DEF MarkDone, Go, Inbox
<1>8. CASE SetInDepth
  BY <1>8 DEF SetInDepth, Go, AfterDeep
<1>9. CASE DeferInDepth
  BY <1>9 DEF DeferInDepth, Go, AfterDeep
<1>10. CASE SetKeyPoints
  BY <1>10 DEF SetKeyPoints, Go
<1>11. CASE ReplaceVideoChunks
  <2>1. Built \in SUBSET Kinds
    BY DEF Built, Kinds
  <2>2. CASE Exists /\ video' = [video EXCEPT !.index = Built, !.current = TRUE]
    BY <2>1, <2>2
  <2> QED
    BY <1>11, <2>2 DEF ReplaceVideoChunks
<1>12. CASE DropIndex
  BY <1>12 DEF DropIndex, Go, AfterRecheck
<1>13. CASE RetrySave
  <2>1. video.text => Exists
    OBVIOUS
  <2>2. CASE Exists /\ video' = [video EXCEPT !.deep = TRUE]
    BY <2>2
  <2> QED
    BY <1>13, <2>1, <2>2 DEF RetrySave
<1>14. CASE RetryClear
  BY <1>14 DEF RetryClear, Rest
<1>15. CASE RetryDefer
  BY <1>15 DEF RetryDefer, Rest
<1>16. CASE FailJob
  BY <1>16 DEF FailJob, Go
<1>17. CASE ResetOrphans \/ EnqueueMissing \/ ClaimNext \/ LoadVideo \/ LoadTranscript \/ InDepth
  BY <1>17 DEF ResetOrphans, EnqueueMissing, Insert, ClaimNext, Claimable, LoadVideo, Rest,
    LoadTranscript, Go, InDepth, AfterDeep
<1>18. CASE KeepCheck \/ KeyPoints \/ Embed \/ RecheckKeep \/ RetryRead \/ RetryAgain
  BY <1>18 DEF KeepCheck, KeyPoints, Embed, EmbedFailed, RecheckKeep, Go, AfterRecheck,
    RetryRead, RetryAgain
<1>19. CASE Finish \/ Fail \/ Interrupted
  BY <1>19 DEF Finish, Rest, Fail, Interrupted
<1> QED
  BY <1>1, <1>2, <1>3, <1>4, <1>5, <1>6, <1>7, <1>8, <1>9, <1>10, <1>11, <1>12, <1>13, <1>14,
     <1>15, <1>16, <1>17, <1>18, <1>19 DEF Work

LEMMA RowOthers ==
  ASSUME TypeInv, Others
  PROVE  RowOK'
<1> USE BoundsAssumption
  DEF RowOK, VideoRows, Write, Exists, Absent, Statuses, Sums, Sources, Quiet, SameJob, Apart,
      jobVars, ledgVars, knownVars, TypeInv
<1>1. CASE EnsureRow
  BY <1>1 DEF EnsureRow, CapStep, CapOnly
<1>2. CASE SetNoCaptions
  BY <1>2 DEF SetNoCaptions, CapStep, CapOnly
<1>3. CASE StoreCaptions
  <2>1. PICK blank \in {FALSE, Blanks} : Write([video EXCEPT !.source = "caption", !.blank = blank])
    BY <1>3 DEF StoreCaptions
  <2> QED
    BY <2>1
<1>4. CASE RetryCaptions
  BY <1>4 DEF RetryCaptions, Spend
<1>5. CASE AskDownload
  BY <1>5 DEF AskDownload, DlOnly, Spend
<1>6. CASE SetDownloaded
  BY <1>6 DEF SetDownloaded, DlOnly
<1>7. CASE StoreTranscript
  BY <1>7 DEF StoreTranscript, DlOnly
<1>8. CASE DownloadEnds
  BY <1>8 DEF DownloadEnds, DlOnly
<1>9. CASE Park
  BY <1>9 DEF Park, DlOnly, DeleteRow
<1>10. CASE IgnoreDiscards
  BY <1>10 DEF IgnoreDiscards, DeleteRow
<1>11. CASE ResetAndEnqueueSummary
  BY <1>11 DEF ResetAndEnqueueSummary, Insert
<1>12. CASE PurgeKept
  <2>1. CASE DeleteRow
    BY <2>1 DEF DeleteRow, Kinds
  <2>2. CASE Write([video EXCEPT !.index = {}, !.current = FALSE])
    BY <2>2
  <2> QED
    BY <1>12, <2>1, <2>2 DEF PurgeKept
<1>13. CASE TakeCandidate \/ FetchCaptions \/ CheckClaimed \/ SettleCaptions \/ EnqueueRead \/
        EnqueueDownloaded
  BY <1>13 DEF TakeCandidate, CapStep, CapOnly, FetchCaptions, CheckClaimed, SettleCaptions,
    EnqueueRead, Insert, EnqueueDownloaded, DlOnly
<1>14. CASE Ignore \/ IgnoreLooks \/ AskReprocess \/ SetKeepReads \/ ClaimPurge \/ ListKept
  BY <1>14 DEF Ignore, IgnoreLooks, AskReprocess, Spend, SetKeepReads, ClaimPurge, PurgeOnly,
    ListKept
<1>15. CASE AskStillOff \/ EndPass
  BY <1>15 DEF AskStillOff, PurgeOnly, EndPass
<1> QED
  BY <1>1, <1>2, <1>3, <1>4, <1>5, <1>6, <1>7, <1>8, <1>9, <1>10, <1>11, <1>12, <1>13, <1>14,
     <1>15 DEF Others

LEMMA RowProcess ==
  ASSUME TypeInv,
         RetryFailed \/ RetryFallsDue \/ (\E j \in Jobs : BackoffElapses(j))
         \/ Crash \/ Shutdown \/ Restart
  PROVE  RowOK'
<1> USE BoundsAssumption
  DEF RowOK, VideoRows, Write, Exists, Absent, Statuses, Sums, Sources, Quiet, SameJob, Apart,
      jobVars, ledgVars, knownVars, TypeInv, ledgVars, agentVars, workVars, purgeVars
<1>1. CASE RetryFailed \/ RetryFallsDue \/ (\E j \in Jobs : BackoffElapses(j)) \/ Crash \/
        Shutdown \/ Restart
  BY <1>1 DEF RetryFailed, Spend, RetryFallsDue, BackoffElapses, Crash, NoAgents, Shutdown,
    Restart
<1> QED
  BY <1>1

LEMMA QueueWork ==
  ASSUME TypeInv, Work
  PROVE  QueueOK'
<1> USE BoundsAssumption
  DEF QueueOK, Rows, JobStates, Quiet, SameJob, Apart, workVars, jobVars, knownVars, TypeInv,
      WorkerOK, OfJob
<1>1. CASE ResetOrphans
  BY <1>1 DEF ResetOrphans
<1>2. CASE EnqueueMissing
  BY <1>2 DEF EnqueueMissing, Insert
<1>3. CASE ClaimNext
  BY <1>3 DEF ClaimNext, Claimable
<1>4. CASE LoadVideo
  BY <1>4 DEF LoadVideo, Exists, Rest
<1>5. CASE Finish
  BY <1>5 DEF Finish, Rest
<1>6. CASE Fail
  <2>1. cur \in Jobs /\ jobState[cur] \in JobStates
    BY <1>6 DEF Fail, AtRest
  <2>2. CASE tries[cur] >= MaxAttempts
    BY <1>6, <2>1, <2>2 DEF Fail, Rest
  <2>3. CASE ~(tries[cur] >= MaxAttempts)
    BY <1>6, <2>1, <2>3 DEF Fail, Rest
  <2> QED
    BY <2>2, <2>3
<1>7. CASE BackfillInDepth \/ LoadTranscript \/ Announce \/ DiscardStale \/ Unindex \/
        NoTranscript
  BY <1>7 DEF BackfillInDepth, LoadTranscript, Go, Announce, Write, Exists, DiscardStale,
    Unindex, NoTranscript
<1>8. CASE SaveSummary \/ MarkDone \/ InDepth \/ SetInDepth \/ DeferInDepth \/ KeepCheck
  BY <1>8 DEF SaveSummary, Go, Write, Exists, MarkDone, Inbox, InDepth, AfterDeep, SetInDepth,
    DeferInDepth, KeepCheck
<1>9. CASE KeyPoints \/ SetKeyPoints \/ Embed \/ ReplaceVideoChunks \/ RecheckKeep \/ DropIndex
  BY <1>9 DEF KeyPoints, SetKeyPoints, Go, Write, Exists, Embed, EmbedFailed,
    ReplaceVideoChunks, AfterEmbed, RecheckKeep, AfterRecheck, DropIndex
<1>10. CASE RetryRead \/ RetrySave \/ RetryAgain \/ RetryClear \/ RetryDefer \/ FailJob
  BY <1>10 DEF RetryRead, RetrySave, RetryAgain, RetryClear, Write, Exists, Rest, RetryDefer,
    FailJob, Go
<1>11. CASE Interrupted
  BY <1>11 DEF Interrupted
<1> QED
  BY <1>1, <1>2, <1>3, <1>4, <1>5, <1>6, <1>7, <1>8, <1>9, <1>10, <1>11 DEF Work

LEMMA QueueOthers ==
  ASSUME TypeInv, Others
  PROVE  QueueOK'
<1> USE BoundsAssumption
  DEF QueueOK, Rows, JobStates, Quiet, SameJob, Apart, workVars, jobVars, knownVars, TypeInv
<1>1. CASE EnqueueRead
  BY <1>1 DEF EnqueueRead, CapStep, CapOnly, Insert, Exists
<1>2. CASE EnqueueDownloaded
  BY <1>2 DEF EnqueueDownloaded, DlOnly, Insert, Exists
<1>3. CASE Park
  BY <1>3 DEF Park, DlOnly, DeleteRow
<1>4. CASE IgnoreDiscards
  BY <1>4 DEF IgnoreDiscards, DeleteRow
<1>5. CASE ResetAndEnqueueSummary
  BY <1>5 DEF ResetAndEnqueueSummary, Insert, Exists
<1>6. CASE PurgeKept
  BY <1>6 DEF PurgeKept, DeleteRow, Write, Exists
<1>7. CASE TakeCandidate \/ EnsureRow \/ FetchCaptions \/ SetNoCaptions \/ CheckClaimed \/
        StoreCaptions
  BY <1>7 DEF TakeCandidate, CapStep, CapOnly, EnsureRow, Exists, FetchCaptions,
    SetNoCaptions, Write, CheckClaimed, StoreCaptions
<1>8. CASE SettleCaptions \/ RetryCaptions \/ AskDownload \/ SetDownloaded \/ StoreTranscript \/
        DownloadEnds
  BY <1>8 DEF SettleCaptions, CapStep, CapOnly, RetryCaptions, Spend, AskDownload, DlOnly,
    Exists, SetDownloaded, StoreTranscript, Write, DownloadEnds
<1>9. CASE Ignore \/ IgnoreLooks \/ AskReprocess \/ SetKeepReads \/ ClaimPurge \/ ListKept
  BY <1>9 DEF Ignore, IgnoreLooks, AskReprocess, Spend, Exists, SetKeepReads, ClaimPurge,
    PurgeOnly, ListKept
<1>10. CASE AskStillOff \/ EndPass
  BY <1>10 DEF AskStillOff, PurgeOnly, EndPass
<1> QED
  BY <1>1, <1>2, <1>3, <1>4, <1>5, <1>6, <1>7, <1>8, <1>9, <1>10 DEF Others

LEMMA QueueProcess ==
  ASSUME TypeInv,
         RetryFailed \/ RetryFallsDue \/ (\E j \in Jobs : BackoffElapses(j))
         \/ Crash \/ Shutdown \/ Restart
  PROVE  QueueOK'
<1> USE BoundsAssumption
  DEF QueueOK, Rows, JobStates, Quiet, SameJob, Apart, workVars, jobVars, knownVars, TypeInv
<1>1. CASE RetryFailed
  BY <1>1 DEF RetryFailed, Spend
<1>2. CASE RetryFallsDue
  BY <1>2 DEF RetryFallsDue
<1>3. CASE \E j \in Jobs : BackoffElapses(j)
  BY <1>3 DEF BackoffElapses
<1>4. CASE Crash
  BY <1>4 DEF Crash, Spend, NoAgents
<1>5. CASE Shutdown
  BY <1>5 DEF Shutdown, Spend
<1>6. CASE Restart
  BY <1>6 DEF Restart, NoAgents
<1> QED
  BY <1>1, <1>2, <1>3, <1>4, <1>5, <1>6

LEMMA OthersOthers ==
  ASSUME TypeInv, Others
  PROVE  OthersOK'
<1> USE BoundsAssumption
  DEF TypeInv, OthersOK, LedgerOK, FlagsOK, PlacesOK, Budgets, agentVars, purgeVars, ledgVars
<1>1. CASE TakeCandidate
  <2>1. LedgerOK'
    BY <1>1 DEF TakeCandidate, CapStep, CapOnly, NextCaptionCandidate
  <2>2. FlagsOK'
    BY <1>1 DEF TakeCandidate, CapStep, CapOnly, NextCaptionCandidate
  <2>3. PlacesOK' /\ left' \in Budgets
    BY <1>1 DEF TakeCandidate, CapStep, CapOnly, NextCaptionCandidate
  <2> QED
    BY <2>1, <2>2, <2>3
<1>2. CASE EnsureRow
  BY <1>2 DEF EnsureRow, CapStep, CapOnly, Exists
<1>3. CASE FetchCaptions
  BY <1>3 DEF FetchCaptions, CapOnly
<1>4. CASE SetNoCaptions
  BY <1>4 DEF SetNoCaptions, CapStep, CapOnly, Write, Exists
<1>5. CASE CheckClaimed
  BY <1>5 DEF CheckClaimed, CapStep, CapOnly
<1>6. CASE StoreCaptions
  BY <1>6 DEF StoreCaptions, CapStep, CapOnly, Write, Exists
<1>7. CASE SettleCaptions
  BY <1>7 DEF SettleCaptions, CapStep, CapOnly
<1>8. CASE EnqueueRead
  BY <1>8 DEF EnqueueRead, CapStep, CapOnly, Insert, Exists
<1>9. CASE RetryCaptions
  BY <1>9 DEF RetryCaptions, Spend
<1>10. CASE AskDownload
  BY <1>10 DEF AskDownload, DlOnly, Spend, Exists
<1>11. CASE SetDownloaded
  BY <1>11 DEF SetDownloaded, DlOnly
<1>12. CASE StoreTranscript
  BY <1>12 DEF StoreTranscript, DlOnly, Write, Exists
<1>13. CASE EnqueueDownloaded
  BY <1>13 DEF EnqueueDownloaded, DlOnly, Insert, Exists
<1>14. CASE DownloadEnds
  BY <1>14 DEF DownloadEnds, DlOnly
<1>15. CASE Park
  BY <1>15 DEF Park, DlOnly, DeleteRow
<1>16. CASE Ignore
  BY <1>16 DEF Ignore
<1>17. CASE IgnoreLooks
  BY <1>17 DEF IgnoreLooks
<1>18. CASE IgnoreDiscards
  BY <1>18 DEF IgnoreDiscards, DeleteRow
<1>19. CASE AskReprocess
  BY <1>19 DEF AskReprocess, Spend, Exists
<1>20. CASE ResetAndEnqueueSummary
  <2>1. LedgerOK'
    BY <1>20 DEF ResetAndEnqueueSummary, Insert, Exists
  <2>2. FlagsOK'
    BY <1>20 DEF ResetAndEnqueueSummary, Insert, Exists
  <2>3. PlacesOK' /\ left' \in Budgets
    BY <1>20 DEF ResetAndEnqueueSummary, Insert, Exists
  <2> QED
    BY <2>1, <2>2, <2>3
<1>21. CASE SetKeepReads
  BY <1>21 DEF SetKeepReads, Spend
<1>22. CASE ClaimPurge
  <2>1. LedgerOK'
    BY <1>22 DEF ClaimPurge, PurgeOnly
  <2>2. FlagsOK'
    BY <1>22 DEF ClaimPurge, PurgeOnly
  <2>3. PlacesOK' /\ left' \in Budgets
    BY <1>22 DEF ClaimPurge, PurgeOnly
  <2> QED
    BY <2>1, <2>2, <2>3
<1>23. CASE ListKept
  BY <1>23 DEF ListKept, PurgeOnly
<1>24. CASE AskStillOff
  BY <1>24 DEF AskStillOff, PurgeOnly
<1>25. CASE PurgeKept
  BY <1>25 DEF PurgeKept, DeleteRow, Write, Exists
<1>26. CASE EndPass
  <2>1. LedgerOK'
    BY <1>26 DEF EndPass, PurgeOnly
  <2>2. FlagsOK'
    BY <1>26 DEF EndPass, PurgeOnly
  <2>3. PlacesOK' /\ left' \in Budgets
    BY <1>26 DEF EndPass, PurgeOnly
  <2> QED
    BY <2>1, <2>2, <2>3
<1> QED
  BY <1>1, <1>2, <1>3, <1>4, <1>5, <1>6, <1>7, <1>8, <1>9, <1>10, <1>11, <1>12, <1>13, <1>14,
     <1>15, <1>16, <1>17, <1>18, <1>19, <1>20, <1>21, <1>22, <1>23, <1>24, <1>25, <1>26 DEF Others

LEMMA OthersProcess ==
  ASSUME TypeInv,
         RetryFailed \/ RetryFallsDue \/ (\E j \in Jobs : BackoffElapses(j))
         \/ Crash \/ Shutdown \/ Restart
  PROVE  OthersOK'
<1> USE BoundsAssumption
  DEF TypeInv, OthersOK, LedgerOK, FlagsOK, PlacesOK, Budgets, agentVars, ledgVars, purgeVars,
      Quiet
<1>1. CASE RetryFailed
  BY <1>1 DEF RetryFailed, Spend
<1>2. CASE RetryFallsDue
  BY <1>2 DEF RetryFallsDue
<1>3. CASE \E j \in Jobs : BackoffElapses(j)
  BY <1>3 DEF BackoffElapses
<1>4. CASE Crash
  <2>1. LedgerOK'
    BY <1>4 DEF Crash, Spend, NoAgents
  <2>2. FlagsOK'
    BY <1>4 DEF Crash, Spend, NoAgents
  <2>3. PlacesOK' /\ left' \in Budgets
    BY <1>4 DEF Crash, Spend, NoAgents
  <2> QED
    BY <2>1, <2>2, <2>3
<1>5. CASE Shutdown
  BY <1>5 DEF Shutdown, Spend
<1>6. CASE Restart
  BY <1>6 DEF Restart, NoAgents
<1> QED
  BY <1>1, <1>2, <1>3, <1>4, <1>5, <1>6

LEMMA WorkerWork ==
  ASSUME TypeInv, Work
  PROVE  WorkerOK'
<1> USE BoundsAssumption
  DEF TypeInv, WorkerOK, AtRest, OfJob, SameJob, jobVars, knownVars
<1>1. CASE EnqueueMissing
  BY <1>1, NothingCopy DEF EnqueueMissing, Insert
<1>2. CASE ClaimNext
  BY <1>2, NothingCopy DEF ClaimNext, Claimable, Jobs
<1>3. CASE LoadVideo
  <2>1. CASE Exists /\ pc' = "transcript" /\ saw' = Facts /\ UNCHANGED <<cur, hand, goal>>
    BY <1>3, <2>1, FactsCopy DEF LoadVideo
  <2>2. CASE Rest
    BY <1>3, <2>2, NothingCopy DEF LoadVideo, Rest
  <2> QED
    BY <1>3, <2>1, <2>2 DEF LoadVideo
<1>4. CASE LoadTranscript
  <2>1. saw' \in Copies
    BY <1>4 DEF LoadTranscript, RowOK, VideoRows, Copies
  <2> QED
    BY <1>4, <2>1 DEF LoadTranscript, Go
<1>5. CASE Announce
  BY <1>5, NothingCopy DEF Announce, Write, Exists
<1>6. CASE Embed
  <2>1. goal # "-"
    BY <1>6 DEF Embed
  <2>2. EmbedFailed = IF goal = "inbox" THEN "failed"
                      ELSE IF goal = "retry" THEN "retryFailed" ELSE "requeue"
    BY <2>1 DEF EmbedFailed
  <2>3. hand' \subseteq {"deep", "reuse"}
    BY <1>6 DEF Embed
  <2> QED
    BY <1>6, <2>1, <2>2, <2>3 DEF Embed
<1>7. CASE ReplaceVideoChunks
  BY <1>7, NothingCopy DEF ReplaceVideoChunks, EmbedFailed, Exists, AfterEmbed
<1>8. CASE RecheckKeep
  BY <1>8, NothingCopy DEF RecheckKeep, Go, Exists, AfterRecheck
<1>9. CASE RetryRead
  <2>1. saw' \in Copies
    BY <1>9, FactsCopy DEF RetryRead
  <2>2. pc' \in {"embed", "retrySave", "retryFailed", "retryClear"}
    BY <1>9 DEF RetryRead
  <2> QED
    BY <1>9, <2>1, <2>2 DEF RetryRead
<1>10. CASE RetryAgain
  <2>1. saw' \in Copies
    BY <1>10, FactsCopy DEF RetryAgain, Copies
  <2> QED
    BY <1>10, <2>1 DEF RetryAgain
<1>11. CASE Fail
  BY <1>11, NothingCopy DEF Fail, Rest
<1>12. CASE ResetOrphans \/ BackfillInDepth \/ DiscardStale \/ Unindex \/ NoTranscript \/
        SaveSummary
  BY <1>12, NothingCopy DEF ResetOrphans, BackfillInDepth, DiscardStale, Go, Write, Exists,
    Unindex, NoTranscript, SaveSummary
<1>13. CASE MarkDone \/ InDepth \/ SetInDepth \/ DeferInDepth \/ KeepCheck \/ KeyPoints
  BY <1>13, NothingCopy DEF MarkDone, Go, Write, Exists, Inbox, InDepth, AfterDeep,
    SetInDepth, DeferInDepth, KeepCheck, KeyPoints
<1>14. CASE SetKeyPoints \/ DropIndex \/ RetrySave \/ RetryClear \/ RetryDefer \/ Finish
  BY <1>14, NothingCopy DEF SetKeyPoints, Go, Write, Exists, DropIndex, AfterRecheck,
    RetrySave, RetryClear, Rest, RetryDefer, Finish
<1>15. CASE FailJob \/ Interrupted
  BY <1>15, NothingCopy DEF FailJob, Go, Write, Exists, Interrupted
<1> QED
  BY <1>1, <1>2, <1>3, <1>4, <1>5, <1>6, <1>7, <1>8, <1>9, <1>10, <1>11, <1>12, <1>13, <1>14,
     <1>15 DEF Work

LEMMA WorkerProcess ==
  ASSUME TypeInv,
         RetryFailed \/ RetryFallsDue \/ (\E j \in Jobs : BackoffElapses(j))
         \/ Crash \/ Shutdown \/ Restart
  PROVE  WorkerOK'
<1> USE BoundsAssumption
  DEF TypeInv, WorkerOK, AtRest, OfJob, Copies, workVars, knownVars
<1>1. CASE RetryFailed
  BY <1>1, NothingCopy DEF RetryFailed, Spend
<1>2. CASE RetryFallsDue
  BY <1>2, NothingCopy DEF RetryFallsDue
<1>3. CASE \E j \in Jobs : BackoffElapses(j)
  BY <1>3, NothingCopy DEF BackoffElapses
<1>4. CASE Crash
  BY <1>4, NothingCopy DEF Crash, Spend, NoAgents
<1>5. CASE Shutdown
  BY <1>5, NothingCopy DEF Shutdown, Spend
<1>6. CASE Restart
  BY <1>6, NothingCopy DEF Restart, NoAgents
<1> QED
  BY <1>1, <1>2, <1>3, <1>4, <1>5, <1>6

LEMMA TypeInit ==
  ASSUME Init
  PROVE  TypeInv
<1> USE BoundsAssumption
  DEF Init
<1>1. RowOK
  BY DEF RowOK, VideoRows, Absent, Exists, Statuses, Sums, Sources, Kinds
<1>2. QueueOK
  BY DEF QueueOK, JobStates
<1>3. LedgerOK /\ PlacesOK /\ left \in Budgets
  BY DEF LedgerOK, PlacesOK, Budgets
<1>4. FlagsOK
  BY DEF FlagsOK
<1>5. WorkerOK
  BY NothingCopy DEF WorkerOK, AtRest
<1> QED
  BY <1>1, <1>2, <1>3, <1>4, <1>5 DEF TypeInv, OthersOK

LEMMA TypeStep ==
  ASSUME TypeInv, [Next]_vars
  PROVE  TypeInv'
<1>1. CASE Work
  <2>1. OthersOK'
    BY <1>1, WorkIsQuiet DEF TypeInv, OthersOK, LedgerOK, FlagsOK, PlacesOK
  <2> QED
    BY <1>1, <2>1, RowWork, QueueWork, WorkerWork DEF TypeInv
<1>2. CASE Others
  <2>1. WorkerOK'
    BY <1>2, OthersLeaveWorker, NothingCopy DEF TypeInv, WorkerOK, AtRest, OfJob
  <2> QED
    BY <1>2, <2>1, RowOthers, QueueOthers, OthersOthers DEF TypeInv
<1>3. CASE RetryFailed \/ RetryFallsDue \/ (\E j \in Jobs : BackoffElapses(j))
           \/ Crash \/ Shutdown \/ Restart
  BY <1>3, RowProcess, QueueProcess, OthersProcess, WorkerProcess DEF TypeInv
<1>4. CASE UNCHANGED vars
  BY <1>4, NothingCopy DEF vars, jobVars, ledgVars, workVars, knownVars, agentVars, purgeVars,
    TypeInv, RowOK, Exists, QueueOK, OthersOK, LedgerOK, FlagsOK, PlacesOK, WorkerOK, AtRest, OfJob
<1> QED
  BY <1>1, <1>2, <1>3, <1>4 DEF Next

\* The rows of the tables, the counters and what the worker holds have their
\* types at every step, whatever the bounds: the ladder of caption attempts stays
\* within its rungs, and no late write revives the row of a deleted video.
THEOREM TypeCorrect ==
  Spec => []TypeInv /\ []TypeOK
<1>1. Spec => []TypeInv
  BY TypeInit, TypeStep, PTL DEF Spec
<1>2. TypeInv => TypeOK
  BY TypeInvTypes
<1> QED
  BY <1>1, <1>2, PTL

----------------------------------------------------------------------------
(* What the queue has heard of *)

NoRows == \A j \in Jobs : jobState[j] \notin Rows

\* A downloaded video without a job has been analysed, and no worker holds a job
\* that could undo that: past the sweep only a download makes one, and it has not
\* yet come to its enqueue.
Heard ==
  (/\ video.status = "downloaded" /\ NoRows /\ dl = "idle"
   /\ pc \notin {"down", "boot", "missing"})
    => cur = 0 /\ video.sum \in {"done", "no_transcript"}

LEMMA InsertHeard ==
  ASSUME QueueOK, Insert
  PROVE  ~NoRows'
BY DEF QueueOK, Insert, NoRows, Rows, Jobs

LEMMA DeletedHeard ==
  ASSUME video' = Absent
  PROVE  Heard'
BY DEF Heard, Absent

LEMMA HeardWork ==
  ASSUME TypeInv, Heard, Work
  PROVE  Heard'
<1> USE BoundsAssumption
  DEF Heard, NoRows, Rows, Write, Exists, Quiet, SameJob, Apart, workVars, jobVars, knownVars,
      ledgVars, agentVars, purgeVars, TypeInv, RowOK, QueueOK, WorkerOK, AtRest, OfJob,
      VideoRows
<1>1. CASE ResetOrphans
  BY <1>1 DEF ResetOrphans
<1>2. CASE EnqueueMissing
  <2>1. CASE Forgotten
    BY <1>2, <2>1, InsertHeard DEF EnqueueMissing
  <2>2. CASE ~Forgotten
    BY <1>2, <2>2 DEF EnqueueMissing, Forgotten
  <2> QED
    BY <2>1, <2>2
<1>3. CASE ClaimNext
  BY <1>3 DEF ClaimNext, Claimable
<1>4. CASE LoadVideo
  BY <1>4 DEF LoadVideo, Rest
<1>5. CASE Announce
  BY <1>5 DEF Announce
<1>6. CASE NoTranscript
  BY <1>6 DEF NoTranscript, Go
<1>7. CASE MarkDone
  BY <1>7 DEF MarkDone, Go, Inbox
<1>8. CASE ReplaceVideoChunks
  BY <1>8 DEF ReplaceVideoChunks, EmbedFailed, AfterEmbed
<1>9. CASE RetrySave
  BY <1>9 DEF RetrySave
<1>10. CASE Finish
  BY <1>10 DEF Finish, Rest
<1>11. CASE FailJob
  BY <1>11 DEF FailJob, Go
<1>12. CASE Fail
  BY <1>12 DEF Fail, Rest
<1>13. CASE BackfillInDepth \/ LoadTranscript \/ DiscardStale \/ Unindex \/ SaveSummary \/ InDepth
  BY <1>13 DEF BackfillInDepth, LoadTranscript, Go, DiscardStale, Unindex, SaveSummary,
    InDepth, AfterDeep
<1>14. CASE SetInDepth \/ DeferInDepth \/ KeepCheck \/ KeyPoints \/ SetKeyPoints \/ Embed
  BY <1>14 DEF SetInDepth, Go, AfterDeep, DeferInDepth, KeepCheck, KeyPoints, SetKeyPoints,
    Embed, EmbedFailed
<1>15. CASE RecheckKeep \/ DropIndex \/ RetryRead \/ RetryAgain \/ RetryClear \/ RetryDefer
  BY <1>15 DEF RecheckKeep, Go, AfterRecheck, DropIndex, RetryRead, RetryAgain, RetryClear,
    Rest, RetryDefer
<1>16. CASE Interrupted
  BY <1>16 DEF Interrupted
<1> QED
  BY <1>1, <1>2, <1>3, <1>4, <1>5, <1>6, <1>7, <1>8, <1>9, <1>10, <1>11, <1>12, <1>13, <1>14,
     <1>15, <1>16 DEF Work

LEMMA HeardOthers ==
  ASSUME TypeInv, Heard, Others
  PROVE  Heard'
<1> USE BoundsAssumption
  DEF Heard, NoRows, Rows, Write, Exists, Quiet, SameJob, Apart, workVars, jobVars, knownVars,
      ledgVars, agentVars, purgeVars, TypeInv, RowOK, QueueOK, VideoRows
<1>1. CASE SetNoCaptions
  BY <1>1 DEF SetNoCaptions, CapStep, CapOnly
<1>2. CASE StoreCaptions
  BY <1>2 DEF StoreCaptions, CapStep, CapOnly
<1>3. CASE EnqueueRead
  BY <1>3 DEF EnqueueRead, CapStep, CapOnly, Insert
<1>4. CASE RetryCaptions
  BY <1>4 DEF RetryCaptions, Spend
<1>5. CASE AskDownload
  BY <1>5 DEF AskDownload, DlOnly, Spend
<1>6. CASE StoreTranscript
  BY <1>6 DEF StoreTranscript, DlOnly
<1>7. CASE EnqueueDownloaded
  BY <1>7 DEF EnqueueDownloaded, DlOnly, Insert
<1>8. CASE Park
  <2>1. video' = Absent
    BY <1>8 DEF Park, DeleteRow
  <2> QED
    BY <2>1, DeletedHeard DEF Heard
<1>9. CASE IgnoreDiscards
  <2>1. video' = Absent
    BY <1>9 DEF IgnoreDiscards, DeleteRow
  <2> QED
    BY <2>1, DeletedHeard DEF Heard
<1>10. CASE ResetAndEnqueueSummary
  BY <1>10 DEF ResetAndEnqueueSummary, Insert
<1>11. CASE PurgeKept
  <2>1. CASE DeleteRow
    <3>1. video' = Absent
      BY <2>1 DEF DeleteRow
    <3> QED
      BY <3>1, DeletedHeard DEF Heard
  <2>2. CASE Write([video EXCEPT !.index = {}, !.current = FALSE]) /\ UNCHANGED jobVars
    BY <1>11, <2>2 DEF PurgeKept
  <2> QED
    BY <1>11, <2>1, <2>2 DEF PurgeKept
<1>12. CASE TakeCandidate \/ EnsureRow \/ FetchCaptions \/ CheckClaimed \/ SettleCaptions \/
        SetDownloaded
  BY <1>12 DEF TakeCandidate, CapStep, CapOnly, EnsureRow, FetchCaptions, CheckClaimed,
    SettleCaptions, SetDownloaded, DlOnly
<1>13. CASE DownloadEnds \/ Ignore \/ IgnoreLooks \/ AskReprocess \/ SetKeepReads \/ ClaimPurge
  BY <1>13 DEF DownloadEnds, DlOnly, Ignore, IgnoreLooks, AskReprocess, Spend, SetKeepReads,
    ClaimPurge, PurgeOnly
<1>14. CASE ListKept \/ AskStillOff \/ EndPass
  BY <1>14 DEF ListKept, PurgeOnly, AskStillOff, EndPass
<1> QED
  BY <1>1, <1>2, <1>3, <1>4, <1>5, <1>6, <1>7, <1>8, <1>9, <1>10, <1>11, <1>12, <1>13, <1>14
    DEF Others

LEMMA HeardProcess ==
  ASSUME TypeInv, Heard,
         RetryFailed \/ RetryFallsDue \/ (\E j \in Jobs : BackoffElapses(j))
         \/ Crash \/ Shutdown \/ Restart
  PROVE  Heard'
<1> USE BoundsAssumption
  DEF Heard, NoRows, Rows, Write, Exists, Quiet, SameJob, Apart, workVars, jobVars, knownVars,
      ledgVars, agentVars, purgeVars, TypeInv, RowOK, QueueOK, VideoRows
<1>1. CASE RetryFailed
  BY <1>1 DEF RetryFailed, Spend
<1>2. CASE RetryFallsDue
  BY <1>2 DEF RetryFallsDue
<1>3. CASE \E j \in Jobs : BackoffElapses(j)
  BY <1>3 DEF BackoffElapses
<1>4. CASE Crash
  BY <1>4 DEF Crash, Spend, NoAgents
<1>5. CASE Shutdown
  BY <1>5 DEF Shutdown, Spend
<1>6. CASE Restart
  BY <1>6 DEF Restart, NoAgents
<1> QED
  BY <1>1, <1>2, <1>3, <1>4, <1>5, <1>6

\* The queue knows every downloaded video: one it has no job for, and that is not
\* yet analysed, is one whose download is just about to queue it, or whose process
\* has died and whose boot sweep is still to come.
THEOREM DownloadsAreHeardOf ==
  Spec => []NothingForgotten
<1>1. Init => Heard
  BY DEF Init, Heard, Absent
<1>2. TypeInv /\ Heard /\ [Next]_vars => Heard'
  <2> SUFFICES ASSUME TypeInv, Heard, [Next]_vars PROVE Heard'
    OBVIOUS
  <2>1. CASE UNCHANGED vars
    BY <2>1 DEF vars, jobVars, workVars, agentVars, Heard, NoRows
  <2> QED
    BY <2>1, HeardWork, HeardOthers, HeardProcess DEF Next
<1>3. TypeInv /\ Heard => NothingForgotten
  BY DEF Heard, NothingForgotten, Forgotten, NoRows
<1> QED
  BY <1>1, <1>2, <1>3, TypeCorrect, PTL DEF Spec

----------------------------------------------------------------------------
(* Before anybody asks for the download *)

Unasked == left.downloads = MaxDownloads

\* The row and the worker's copy of it are those of an inbox read, which has no key
\* points and no caller but the inbox branch and the in-depth retry.
InboxRow ==
  /\ video.status \in {"none", "new"} /\ ~video.keyed /\ video.source # "download"
  /\ dl = "idle" /\ ledger \in {"pending", "ignored"}
  /\ purge \in {"askIgnored", "purge"} => ledger = "ignored"

InboxWork ==
  /\ ~saw.keyed /\ saw.source # "download"
  /\ pc \notin {"keys", "saveKeys"} /\ goal \notin {"full", "fallback"}
  /\ AtRest \/ pc \in {"claimed", "retryClear"} \/ saw.status = "new"
  /\ \/ AtRest \/ pc \in {"claimed", "transcript", "discard", "unindex", "noTranscript", "finish",
                        "retryClear"}
     \/ saw.source = "caption"

ReadOnly == left.downloads <= MaxDownloads /\ (Unasked => InboxRow /\ InboxWork)

\* What the row of a video nobody asked for can become.
LEMMA ReadOnlyWorker ==
  ASSUME TypeInv, ReadOnly, Work
  PROVE  Unasked' => InboxWork'
<1> SUFFICES ASSUME Unasked PROVE InboxWork'
  BY WorkIsQuiet DEF Unasked
<1>a. InboxRow /\ InboxWork
  BY DEF ReadOnly
<1> USE DEF TypeInv, RowOK, VideoRows, WorkerOK, InboxRow, InboxWork, AtRest, OfJob, Exists, SameJob,
    knownVars
<1>1. CASE LoadVideo
  <2>1. CASE Exists /\ pc' = "transcript" /\ saw' = Facts /\ UNCHANGED <<cur, hand, goal>>
    BY <1>a, <1>1, <2>1, FactsCopy DEF LoadVideo
  <2>2. CASE Rest
    BY <2>2, NothingCopy DEF Rest
  <2> QED
    BY <1>a, <1>1, <2>1, <2>2 DEF LoadVideo
<1>2. CASE LoadTranscript
  <2>1. /\ saw'.status = saw.status /\ saw'.keyed = saw.keyed /\ saw'.source = video.source
    BY <1>a, <1>2 DEF LoadTranscript, Copies
  <2>2. saw'.source # "download" /\ (pc' # "noTranscript" => saw'.source = "caption")
    BY <1>a, <1>2, <2>1 DEF LoadTranscript, Go, Sources
  <2> QED
    BY <1>a, <1>2, <2>1, <2>2 DEF LoadTranscript, Go
<1>3. CASE Announce
  BY <1>3, <1>a, NothingCopy DEF Announce, Write
<1>4. CASE MarkDone
  BY <1>4, <1>a, NothingCopy DEF MarkDone, Go, Write, Inbox
<1>5. CASE InDepth
  BY <1>5, <1>a, NothingCopy DEF InDepth, AfterDeep, Inbox
<1>6. CASE SetInDepth
  BY <1>6, <1>a, NothingCopy DEF SetInDepth, Go, Write, AfterDeep, Inbox
<1>7. CASE DeferInDepth
  BY <1>7, <1>a, NothingCopy DEF DeferInDepth, Go, Write, AfterDeep, Inbox
<1>8. CASE KeepCheck
  BY <1>8, <1>a, NothingCopy DEF KeepCheck
<1>9. CASE KeyPoints
  BY <1>9, <1>a, NothingCopy DEF KeyPoints
<1>10. CASE Embed
  <2>1. pc' \in {"replace", "failed", "retryFailed"}
    BY <1>a, <1>10 DEF Embed, EmbedFailed
  <2> QED
    BY <1>a, <1>10, <2>1 DEF Embed
<1>11. CASE ReplaceVideoChunks
  <2>1. pc' \in {"recheck", "failed", "retryFailed"}
    BY <1>a, <1>11 DEF ReplaceVideoChunks, EmbedFailed, AfterEmbed, Inbox
  <2> QED
    BY <1>a, <1>11, <2>1 DEF ReplaceVideoChunks
<1>12. CASE RecheckKeep
  BY <1>12, <1>a, NothingCopy DEF RecheckKeep, Go, AfterRecheck
<1>13. CASE RetryRead
  <2>1. saw'.status = video.status /\ saw'.keyed = video.keyed /\ saw'.source = video.source
    BY <1>a, <1>13, FactsCopy DEF RetryRead
  <2>2. video.status = "new"
    BY <1>a, <1>13 DEF RetryRead, Absent
  <2>3. pc' \in {"embed", "retrySave", "retryFailed", "retryClear"}
        /\ (pc' # "retryClear" => video.source = "caption")
    BY <1>a, <1>13 DEF RetryRead, Sources
  <2> QED
    BY <1>a, <1>13, <2>1, <2>2, <2>3 DEF RetryRead
<1>14. CASE RetrySave
  BY <1>14, <1>a, NothingCopy DEF RetrySave
<1>15. CASE RetryAgain
  <2>1. saw'.status = video.status /\ saw'.keyed = video.keyed /\ saw'.source = saw.source
    BY <1>a, <1>15, FactsCopy DEF RetryAgain, Copies
  <2>2. pc' \in {"embed", "retryClear"} /\ (pc' = "embed" => Exists)
    BY <1>a, <1>15 DEF RetryAgain, Absent
  <2> QED
    BY <1>a, <1>15, <2>1, <2>2 DEF RetryAgain
<1>16. CASE ResetOrphans \/ EnqueueMissing \/ BackfillInDepth \/ ClaimNext \/ DiscardStale \/
        Unindex
  BY <1>16, <1>a, NothingCopy DEF ResetOrphans, EnqueueMissing, Insert, BackfillInDepth,
    ClaimNext, Claimable, DiscardStale, Go, Write, Unindex
<1>17. CASE NoTranscript \/ SaveSummary \/ SetKeyPoints \/ DropIndex \/ RetryClear \/ RetryDefer
  BY <1>17, <1>a, NothingCopy DEF NoTranscript, Go, Write, SaveSummary, SetKeyPoints,
    DropIndex, AfterRecheck, RetryClear, Rest, RetryDefer
<1>18. CASE Finish \/ FailJob \/ Fail \/ Interrupted
  BY <1>18, <1>a, NothingCopy DEF Finish, Rest, FailJob, Go, Write, Fail, Interrupted
<1> QED
  BY <1>1, <1>2, <1>3, <1>4, <1>5, <1>6, <1>7, <1>8, <1>9, <1>10, <1>11, <1>12, <1>13, <1>14,
     <1>15, <1>16, <1>17, <1>18 DEF Work

LEMMA ReadOnlyRowWork ==
  ASSUME TypeInv, ReadOnly, Work
  PROVE  left'.downloads <= MaxDownloads /\ (Unasked' => InboxRow')
<1> USE BoundsAssumption
  DEF InboxRow, InboxWork, Unasked, ReadOnly, TypeInv, RowOK, VideoRows, OthersOK, LedgerOK,
      Budgets, Write, Exists, Absent, Quiet, SameJob, Apart, jobVars, knownVars, ledgVars,
      agentVars, purgeVars
<1>1. CASE Announce
  BY <1>1 DEF Announce
<1>2. CASE DiscardStale
  BY <1>2 DEF DiscardStale, Go
<1>3. CASE SetKeyPoints
  BY <1>3 DEF SetKeyPoints, Go
<1>4. CASE ReplaceVideoChunks
  BY <1>4 DEF ReplaceVideoChunks, EmbedFailed, AfterEmbed
<1>5. CASE RetrySave
  BY <1>5 DEF RetrySave
<1>6. CASE ResetOrphans \/ EnqueueMissing \/ BackfillInDepth \/ ClaimNext \/ LoadVideo
  BY <1>6 DEF ResetOrphans, EnqueueMissing, Insert, BackfillInDepth, ClaimNext, Claimable,
    LoadVideo, Rest
<1>7. CASE LoadTranscript \/ Unindex \/ NoTranscript \/ SaveSummary \/ MarkDone
  BY <1>7 DEF LoadTranscript, Go, Unindex, NoTranscript, SaveSummary, MarkDone, Inbox
<1>8. CASE InDepth \/ SetInDepth \/ DeferInDepth \/ KeepCheck \/ KeyPoints
  BY <1>8 DEF InDepth, AfterDeep, SetInDepth, Go, DeferInDepth, KeepCheck, KeyPoints
<1>9. CASE Embed \/ RecheckKeep \/ DropIndex \/ RetryRead \/ RetryAgain
  BY <1>9 DEF Embed, EmbedFailed, RecheckKeep, Go, AfterRecheck, DropIndex, RetryRead,
    RetryAgain
<1>10. CASE RetryClear \/ RetryDefer \/ Finish \/ FailJob \/ Fail
  BY <1>10 DEF RetryClear, Rest, RetryDefer, Finish, FailJob, Go, Fail
<1>11. CASE Interrupted
  BY <1>11 DEF Interrupted
<1> QED
  BY <1>1, <1>2, <1>3, <1>4, <1>5, <1>6, <1>7, <1>8, <1>9, <1>10, <1>11 DEF Work

LEMMA ReadOnlyRowOthers ==
  ASSUME TypeInv, ReadOnly, Others
  PROVE  left'.downloads <= MaxDownloads /\ (Unasked' => InboxRow')
<1> USE BoundsAssumption
  DEF InboxRow, InboxWork, Unasked, ReadOnly, TypeInv, RowOK, VideoRows, OthersOK, LedgerOK,
      Budgets, Write, Exists, Absent, Quiet, SameJob, Apart, jobVars, knownVars, ledgVars,
      agentVars, purgeVars
<1>1. CASE TakeCandidate
  BY <1>1 DEF TakeCandidate, CapStep, CapOnly
<1>2. CASE EnsureRow
  BY <1>2 DEF EnsureRow, CapStep, CapOnly
<1>3. CASE FetchCaptions
  BY <1>3 DEF FetchCaptions, CapOnly
<1>4. CASE SetNoCaptions
  BY <1>4 DEF SetNoCaptions, CapStep, CapOnly
<1>5. CASE StoreCaptions
  BY <1>5 DEF StoreCaptions, CapStep, CapOnly
<1>6. CASE RetryCaptions
  BY <1>6 DEF RetryCaptions, Spend
<1>7. CASE AskDownload
  <2>1. left'.downloads = left.downloads - 1 /\ left.downloads \in Nat
    BY <1>7 DEF AskDownload, Spend
  <2>2. ~Unasked' /\ left'.downloads <= MaxDownloads
    BY <2>1
  <2> QED
    BY <2>2
<1>8. CASE SetDownloaded
  BY <1>8 DEF SetDownloaded, DlOnly
<1>9. CASE StoreTranscript
  BY <1>9 DEF StoreTranscript, DlOnly
<1>10. CASE EnqueueDownloaded
  BY <1>10 DEF EnqueueDownloaded, DlOnly, Insert
<1>11. CASE DownloadEnds
  BY <1>11 DEF DownloadEnds, DlOnly
<1>12. CASE Park
  BY <1>12 DEF Park, DlOnly, DeleteRow
<1>13. CASE Ignore
  BY <1>13 DEF Ignore
<1>14. CASE IgnoreDiscards
  BY <1>14 DEF IgnoreDiscards, DeleteRow
<1>15. CASE AskReprocess
  BY <1>15 DEF AskReprocess, Spend
<1>16. CASE ResetAndEnqueueSummary
  BY <1>16 DEF ResetAndEnqueueSummary, Insert
<1>17. CASE SetKeepReads
  BY <1>17 DEF SetKeepReads, Spend
<1>18. CASE ClaimPurge
  BY <1>18 DEF ClaimPurge, PurgeOnly
<1>19. CASE ListKept
  BY <1>19 DEF ListKept, PurgeOnly
<1>20. CASE AskStillOff
  BY <1>20 DEF AskStillOff, PurgeOnly
<1>21. CASE PurgeKept
  <2>1. CASE video' = Absent
    BY <1>21, <2>1 DEF PurgeKept
  <2>2. CASE Write([video EXCEPT !.index = {}, !.current = FALSE])
    BY <1>21, <2>2 DEF PurgeKept
  <2> QED
    BY <1>21, <2>1, <2>2 DEF PurgeKept, DeleteRow
<1>22. CASE EndPass
  BY <1>22 DEF EndPass, PurgeOnly
<1>23. CASE CheckClaimed \/ SettleCaptions \/ EnqueueRead \/ IgnoreLooks
  BY <1>23 DEF CheckClaimed, CapStep, CapOnly, SettleCaptions, EnqueueRead, Insert,
    IgnoreLooks
<1> QED
  BY <1>1, <1>2, <1>3, <1>4, <1>5, <1>6, <1>7, <1>8, <1>9, <1>10, <1>11, <1>12, <1>13, <1>14,
     <1>15, <1>16, <1>17, <1>18, <1>19, <1>20, <1>21, <1>22, <1>23 DEF Others

LEMMA ReadOnlyRowProcess ==
  ASSUME TypeInv, ReadOnly,
         RetryFailed \/ RetryFallsDue \/ (\E j \in Jobs : BackoffElapses(j))
         \/ Crash \/ Shutdown \/ Restart
  PROVE  left'.downloads <= MaxDownloads /\ (Unasked' => InboxRow')
<1> USE BoundsAssumption
  DEF InboxRow, InboxWork, Unasked, ReadOnly, TypeInv, RowOK, VideoRows, OthersOK, LedgerOK,
      Budgets, Write, Exists, Absent, Quiet, SameJob, Apart, jobVars, knownVars, ledgVars,
      agentVars, purgeVars
<1>1. CASE RetryFailed
  BY <1>1 DEF RetryFailed, Spend
<1>2. CASE RetryFallsDue
  BY <1>2 DEF RetryFallsDue
<1>3. CASE \E j \in Jobs : BackoffElapses(j)
  BY <1>3 DEF BackoffElapses
<1>4. CASE Crash
  BY <1>4 DEF Crash, Spend, NoAgents
<1>5. CASE Shutdown
  BY <1>5 DEF Shutdown, Spend
<1>6. CASE Restart
  BY <1>6 DEF Restart, NoAgents
<1> QED
  BY <1>1, <1>2, <1>3, <1>4, <1>5, <1>6

\* Nobody un-asks.
LEMMA ReadOnlyBudget ==
  ASSUME TypeInv, ReadOnly, Others
  PROVE  Unasked' => Unasked
<1> USE DEF TypeInv, OthersOK, Budgets, Unasked, ReadOnly, Spend
<1>1. CASE AskDownload
  BY <1>1 DEF AskDownload, DlOnly
<1>2. CASE TakeCandidate \/ EnsureRow \/ FetchCaptions \/ SetNoCaptions \/ CheckClaimed \/
        StoreCaptions
  BY <1>2 DEF TakeCandidate, CapStep, CapOnly, EnsureRow, FetchCaptions, SetNoCaptions,
    CheckClaimed, StoreCaptions
<1>3. CASE SettleCaptions \/ EnqueueRead \/ RetryCaptions \/ SetDownloaded \/ StoreTranscript \/
        EnqueueDownloaded
  BY <1>3 DEF SettleCaptions, CapStep, CapOnly, EnqueueRead, RetryCaptions, SetDownloaded,
    DlOnly, StoreTranscript, EnqueueDownloaded
<1>4. CASE DownloadEnds \/ Park \/ Ignore \/ IgnoreLooks \/ IgnoreDiscards \/ AskReprocess
  BY <1>4 DEF DownloadEnds, DlOnly, Park, DeleteRow, Ignore, IgnoreLooks, IgnoreDiscards,
    AskReprocess
<1>5. CASE ResetAndEnqueueSummary \/ SetKeepReads \/ ClaimPurge \/ ListKept \/ AskStillOff \/
        PurgeKept
  BY <1>5 DEF ResetAndEnqueueSummary, SetKeepReads, ClaimPurge, PurgeOnly, ListKept,
    AskStillOff, PurgeKept, DeleteRow
<1>6. CASE EndPass
  BY <1>6 DEF EndPass, PurgeOnly
<1> QED
  BY <1>1, <1>2, <1>3, <1>4, <1>5, <1>6 DEF Others

LEMMA ReadOnlyStep ==
  ASSUME TypeInv, ReadOnly, [Next]_vars
  PROVE  ReadOnly'
<1>1. CASE Work
  BY <1>1, ReadOnlyWorker, ReadOnlyRowWork DEF ReadOnly
<1>2. CASE Others
  <2>1. Unasked' => Unasked
    BY <1>2, ReadOnlyRowOthers, ReadOnlyBudget DEF ReadOnly
  <2>2. Unasked' => InboxWork'
    BY <1>2, <2>1, OthersLeaveWorker DEF ReadOnly, InboxWork, AtRest
  <2> QED
    BY <1>2, <2>2, ReadOnlyRowOthers DEF ReadOnly
<1>3. CASE RetryFailed \/ RetryFallsDue \/ (\E j \in Jobs : BackoffElapses(j))
           \/ Crash \/ Shutdown \/ Restart
  <2>1. Unasked' => Unasked
    BY <1>3 DEF TypeInv, OthersOK, Budgets, RetryFailed, RetryFallsDue, BackoffElapses, Crash,
      Shutdown,
      Restart, Spend, Quiet, Unasked
  <2>2. Unasked' => InboxWork'
    BY <1>3, <2>1, NothingCopy DEF ReadOnly, InboxWork, AtRest, RetryFailed, RetryFallsDue,
      BackoffElapses, Crash, Shutdown, Restart, workVars, knownVars
  <2> QED
    BY <1>3, <2>2, ReadOnlyRowProcess DEF ReadOnly
<1>4. CASE UNCHANGED vars
  BY <1>4 DEF vars, ledgVars, workVars, knownVars, agentVars, purgeVars, ReadOnly, Unasked,
    InboxRow,
    InboxWork, AtRest
<1> QED
  BY <1>1, <1>2, <1>3, <1>4 DEF Next

\* An index that a switched-off channel still has is on its way out: a purge is
\* asked for or under way, or the worker is about to look at the switch.
Purging ==
  (/\ Unasked /\ pc # "down" /\ ~stopping /\ ~keep /\ video.index # {})
    => \/ kick \/ purge \in {"list", "askIgnored", "askInbox", "purge", "dropIndex"}
       \/ purge = "end" /\ rerun
       \/ pc \in {"recheck", "drop"}

LEMMA PurgingWork ==
  ASSUME TypeInv, ReadOnly, Purging, Work
  PROVE  Purging'
<1> USE BoundsAssumption
  DEF Purging, ReadOnly, Unasked, TypeInv, RowOK, VideoRows, Write, Exists, Quiet, SameJob,
      Apart, workVars, jobVars, knownVars, ledgVars, agentVars, purgeVars
<1>1. CASE LoadVideo
  BY <1>1 DEF LoadVideo, Rest
<1>2. CASE Announce
  BY <1>2 DEF Announce
<1>3. CASE DiscardStale
  BY <1>3 DEF DiscardStale, Go
<1>4. CASE ReplaceVideoChunks
  <2>1. CASE UNCHANGED video
    BY <1>4, <2>1 DEF ReplaceVideoChunks
  <2>2. CASE pc' = AfterEmbed
    <3>1. Unasked => AfterEmbed = "recheck"
      BY <1>4 DEF ReplaceVideoChunks, AfterEmbed, Inbox, WorkerOK, AtRest, OfJob, InboxWork
    <3> QED
      BY <1>4, <2>2, <3>1 DEF ReplaceVideoChunks
  <2> QED
    BY <1>4, <2>1, <2>2 DEF ReplaceVideoChunks
<1>5. CASE RecheckKeep
  <2>1. CASE Exists
    BY <1>5, <2>1 DEF RecheckKeep, Go, AfterRecheck
  <2>2. CASE ~Exists
    BY <1>5, <2>2 DEF RecheckKeep, Go, Absent
  <2> QED
    BY <2>1, <2>2
<1>6. CASE DropIndex
  <2>1. video'.index = {}
    BY <1>6 DEF DropIndex, Absent
  <2> QED
    BY <2>1
<1>7. CASE RetrySave
  BY <1>7 DEF RetrySave
<1>8. CASE Interrupted
  BY <1>8 DEF Interrupted
<1>9. CASE ResetOrphans \/ EnqueueMissing \/ BackfillInDepth \/ ClaimNext \/ LoadTranscript \/
        Unindex
  BY <1>9 DEF ResetOrphans, EnqueueMissing, Insert, BackfillInDepth, ClaimNext, Claimable,
    LoadTranscript, Go, Unindex
<1>10. CASE NoTranscript \/ SaveSummary \/ MarkDone \/ InDepth \/ SetInDepth \/ DeferInDepth
  BY <1>10 DEF NoTranscript, Go, SaveSummary, MarkDone, Inbox, InDepth, AfterDeep, SetInDepth,
    DeferInDepth
<1>11. CASE KeepCheck \/ KeyPoints \/ SetKeyPoints \/ Embed \/ RetryRead \/ RetryAgain
  BY <1>11 DEF KeepCheck, KeyPoints, SetKeyPoints, Go, Embed, EmbedFailed, RetryRead,
    RetryAgain
<1>12. CASE RetryClear \/ RetryDefer \/ Finish \/ FailJob \/ Fail
  BY <1>12 DEF RetryClear, Rest, RetryDefer, Finish, FailJob, Go, Fail
<1> QED
  BY <1>1, <1>2, <1>3, <1>4, <1>5, <1>6, <1>7, <1>8, <1>9, <1>10, <1>11, <1>12 DEF Work

LEMMA PurgingOthers ==
  ASSUME TypeInv, ReadOnly, Purging, Others
  PROVE  Purging'
<1> USE BoundsAssumption
  DEF Purging, ReadOnly, Unasked, TypeInv, RowOK, VideoRows, Write, Exists, Quiet, SameJob,
      Apart, workVars, jobVars, knownVars, ledgVars, agentVars, purgeVars, OthersOK, Budgets,
      InboxRow, Absent
<1>1. CASE TakeCandidate
  BY <1>1 DEF TakeCandidate, CapStep, CapOnly
<1>2. CASE EnsureRow
  BY <1>2 DEF EnsureRow, CapStep, CapOnly
<1>3. CASE FetchCaptions
  BY <1>3 DEF FetchCaptions, CapOnly
<1>4. CASE SetNoCaptions
  BY <1>4 DEF SetNoCaptions, CapStep, CapOnly
<1>5. CASE StoreCaptions
  BY <1>5 DEF StoreCaptions, CapStep, CapOnly
<1>6. CASE RetryCaptions
  BY <1>6 DEF RetryCaptions, Spend
<1>7. CASE AskDownload
  <2>1. left'.downloads = left.downloads - 1 /\ left.downloads \in Nat
    BY <1>7 DEF AskDownload, Spend
  <2>2. ~Unasked' /\ left'.downloads <= MaxDownloads
    BY <2>1
  <2> QED
    BY <2>2 DEF Purging
<1>8. CASE SetDownloaded
  BY <1>8 DEF SetDownloaded, DlOnly
<1>9. CASE StoreTranscript
  BY <1>9 DEF StoreTranscript, DlOnly
<1>10. CASE EnqueueDownloaded
  BY <1>10 DEF EnqueueDownloaded, DlOnly, Insert
<1>11. CASE DownloadEnds
  BY <1>11 DEF DownloadEnds, DlOnly
<1>12. CASE Park
  BY <1>12 DEF Park, DlOnly, DeleteRow
<1>13. CASE Ignore
  BY <1>13 DEF Ignore
<1>14. CASE IgnoreDiscards
  BY <1>14 DEF IgnoreDiscards, DeleteRow
<1>15. CASE AskReprocess
  BY <1>15 DEF AskReprocess, Spend
<1>16. CASE ResetAndEnqueueSummary
  BY <1>16 DEF ResetAndEnqueueSummary, Insert
<1>17. CASE SetKeepReads
  <2>1. kick' = (kick \/ keep) /\ keep' = ~keep
    BY <1>17 DEF SetKeepReads
  <2>2. keep \in BOOLEAN /\ kick \in BOOLEAN
    BY DEF OthersOK, FlagsOK
  <2> QED
    BY <1>17, <2>1, <2>2 DEF SetKeepReads, Spend
<1>18. CASE ClaimPurge
  <2>1. CASE purge = "idle"
    BY <1>18, <2>1 DEF ClaimPurge, PurgeOnly
  <2>2. CASE purge # "idle"
    <3>1. rerun' /\ purge' = purge
      BY <1>18, <2>2 DEF ClaimPurge
    <3>2. purge \in {"list", "askIgnored", "askInbox", "purge", "dropIndex", "end"}
      BY <2>2 DEF OthersOK, PlacesOK
    <3> QED
      BY <3>1, <3>2
  <2> QED
    BY <2>1, <2>2
<1>19. CASE ListKept
  BY <1>19 DEF ListKept, PurgeOnly
<1>20. CASE AskStillOff
  BY <1>20 DEF AskStillOff, PurgeOnly
<1>21. CASE PurgeKept
  <2>1. CASE DeleteRow
    BY <2>1 DEF DeleteRow
  <2>2. CASE Write([video EXCEPT !.index = {}, !.current = FALSE])
    BY <2>2
  <2> QED
    BY <1>21, <2>1, <2>2 DEF PurgeKept
<1>22. CASE EndPass
  BY <1>22 DEF EndPass, PurgeOnly
<1>23. CASE CheckClaimed \/ SettleCaptions \/ EnqueueRead \/ IgnoreLooks
  BY <1>23 DEF CheckClaimed, CapStep, CapOnly, SettleCaptions, EnqueueRead, Insert,
    IgnoreLooks
<1> QED
  BY <1>1, <1>2, <1>3, <1>4, <1>5, <1>6, <1>7, <1>8, <1>9, <1>10, <1>11, <1>12, <1>13, <1>14,
     <1>15, <1>16, <1>17, <1>18, <1>19, <1>20, <1>21, <1>22, <1>23 DEF Others

LEMMA PurgingProcess ==
  ASSUME TypeInv, ReadOnly, Purging,
         RetryFailed \/ RetryFallsDue \/ (\E j \in Jobs : BackoffElapses(j))
         \/ Crash \/ Shutdown \/ Restart
  PROVE  Purging'
<1> USE BoundsAssumption
  DEF Purging, ReadOnly, Unasked, TypeInv, RowOK, VideoRows, Write, Exists, Quiet, SameJob,
      Apart, workVars, jobVars, knownVars, ledgVars, agentVars, purgeVars, OthersOK, Budgets
<1>1. CASE RetryFailed
  BY <1>1 DEF RetryFailed, Spend
<1>2. CASE RetryFallsDue
  BY <1>2 DEF RetryFallsDue
<1>3. CASE \E j \in Jobs : BackoffElapses(j)
  BY <1>3 DEF BackoffElapses
<1>4. CASE Crash
  BY <1>4 DEF Crash, Spend, NoAgents
<1>5. CASE Shutdown
  BY <1>5 DEF Shutdown, Spend
<1>6. CASE Restart
  BY <1>6 DEF Restart, NoAgents
<1> QED
  BY <1>1, <1>2, <1>3, <1>4, <1>5, <1>6

\* Once a switch-off has been carried out, no read that nobody ever asked to
\* download is left in the search index.
THEOREM SwitchOffIsCarriedOut ==
  Spec => []SwitchOffHolds
<1>1. Init => ReadOnly /\ Purging
  BY NothingCopy, BoundsAssumption DEF Init, ReadOnly, InboxRow, InboxWork, Purging, Absent, AtRest
<1>2. TypeInv /\ ReadOnly /\ Purging /\ [Next]_vars => ReadOnly' /\ Purging'
  <2> SUFFICES ASSUME TypeInv, ReadOnly, Purging, [Next]_vars PROVE Purging'
    BY ReadOnlyStep
  <2>1. CASE UNCHANGED vars
    BY <2>1 DEF vars, workVars, agentVars, purgeVars, Purging, Unasked
  <2> QED
    BY <2>1, PurgingWork, PurgingOthers, PurgingProcess DEF Next
<1>3. TypeInv /\ Purging => SwitchOffHolds
  BY DEF TypeInv, WorkerOK, AtRest, OfJob, Purging, Unasked, SwitchOffHolds, Embedding
<1> QED
  BY <1>1, <1>2, <1>3, TypeCorrect, PTL DEF Spec

----------------------------------------------------------------------------
(* The chapters of the index *)

\* Nobody but the worker writes key points: between reading the row and writing
\* new ones it knows of those that are there. An embed without them is that of an
\* inbox read.
Known ==
  /\ (~AtRest /\ pc # "claimed" /\ goal # "full" /\ video.keyed) => saw.keyed
  /\ pc = "unindex" => ~video.keyed
  /\ (goal = "inbox" \/ pc = "keepCheck") => Inbox(saw)

LEMMA KnownWork ==
  ASSUME TypeInv, Known, Work
  PROVE  Known'
<1> USE BoundsAssumption
  DEF Known, TypeInv, RowOK, VideoRows, Write, Exists, Absent, Quiet, SameJob, Apart,
      workVars, jobVars, knownVars, ledgVars, agentVars, purgeVars, WorkerOK, AtRest, OfJob
<1>1. CASE LoadVideo
  <2>1. CASE Exists /\ pc' = "transcript" /\ saw' = Facts /\ UNCHANGED <<cur, hand, goal>>
    BY <1>1, <2>1, FactsCopy DEF LoadVideo
  <2>2. CASE Rest
    BY <2>2 DEF Rest
  <2> QED
    BY <1>1, <2>1, <2>2 DEF LoadVideo
<1>2. CASE LoadTranscript
  <2>1. saw'.keyed = saw.keyed
    BY <1>2 DEF LoadTranscript, Copies
  <2> QED
    BY <1>2, <2>1 DEF LoadTranscript, Go
<1>3. CASE Announce
  BY <1>3 DEF Announce, Inbox
<1>4. CASE DiscardStale
  BY <1>4 DEF DiscardStale, Go, Inbox
<1>5. CASE MarkDone
  BY <1>5 DEF MarkDone, Go, Inbox
<1>6. CASE InDepth
  BY <1>6 DEF InDepth, AfterDeep, Inbox
<1>7. CASE SetInDepth
  BY <1>7 DEF SetInDepth, Go, AfterDeep, Inbox
<1>8. CASE DeferInDepth
  BY <1>8 DEF DeferInDepth, Go, AfterDeep, Inbox
<1>9. CASE KeepCheck
  BY <1>9 DEF KeepCheck, Inbox
<1>10. CASE KeyPoints
  BY <1>10 DEF KeyPoints, Inbox
<1>11. CASE SetKeyPoints
  BY <1>11 DEF SetKeyPoints, Go, Inbox
<1>12. CASE Embed
  <2>1. pc' \in {"replace", "failed", "requeue", "retryFailed"} /\ UNCHANGED <<video, saw, goal>>
    BY <1>12 DEF Embed, EmbedFailed
  <2> QED
    BY <1>12, <2>1 DEF Embed, Inbox
<1>13. CASE ReplaceVideoChunks
  <2>1. pc' \in {"recheck", "finish", "requeue", "failed", "retryClear", "retryFailed"}
    BY <1>13 DEF ReplaceVideoChunks, EmbedFailed, AfterEmbed
  <2>2. video'.keyed = video.keyed
    BY <1>13 DEF ReplaceVideoChunks
  <2> QED
    BY <1>13, <2>1, <2>2 DEF ReplaceVideoChunks, Inbox
<1>14. CASE RetryRead
  <2>1. saw'.keyed = video.keyed
    BY <1>14, FactsCopy DEF RetryRead
  <2>2. pc' \in {"embed", "retrySave", "retryFailed", "retryClear"}
    BY <1>14 DEF RetryRead
  <2> QED
    BY <1>14, <2>1, <2>2 DEF RetryRead
<1>15. CASE RetrySave
  BY <1>15 DEF RetrySave, Inbox
<1>16. CASE RetryAgain
  <2>1. saw'.keyed = video.keyed
    BY <1>16, FactsCopy DEF RetryAgain, Copies
  <2>2. pc' \in {"embed", "retryClear"} /\ goal = "retry"
    BY <1>16 DEF RetryAgain
  <2> QED
    BY <1>16, <2>1, <2>2 DEF RetryAgain
<1>17. CASE ResetOrphans \/ EnqueueMissing \/ BackfillInDepth \/ ClaimNext \/ Unindex \/
        NoTranscript
  BY <1>17 DEF ResetOrphans, EnqueueMissing, Insert, BackfillInDepth, ClaimNext, Claimable,
    Unindex, Go, NoTranscript
<1>18. CASE SaveSummary \/ RecheckKeep \/ DropIndex \/ RetryClear \/ RetryDefer \/ Finish
  BY <1>18 DEF SaveSummary, Go, RecheckKeep, AfterRecheck, DropIndex, RetryClear, Rest,
    RetryDefer, Finish
<1>19. CASE FailJob \/ Fail \/ Interrupted
  BY <1>19 DEF FailJob, Go, Fail, Rest, Interrupted
<1> QED
  BY <1>1, <1>2, <1>3, <1>4, <1>5, <1>6, <1>7, <1>8, <1>9, <1>10, <1>11, <1>12, <1>13, <1>14,
     <1>15, <1>16, <1>17, <1>18, <1>19 DEF Work

LEMMA KnownOthers ==
  ASSUME TypeInv, Known, Others
  PROVE  Known'
<1> USE BoundsAssumption
  DEF Known, TypeInv, RowOK, VideoRows, Write, Exists, Absent, Quiet, SameJob, Apart,
      workVars, jobVars, knownVars, ledgVars, agentVars, purgeVars, AtRest, Inbox
<1>1. CASE EnsureRow
  BY <1>1 DEF EnsureRow, CapStep, CapOnly
<1>2. CASE SetNoCaptions
  BY <1>2 DEF SetNoCaptions, CapStep, CapOnly
<1>3. CASE StoreCaptions
  BY <1>3 DEF StoreCaptions, CapStep, CapOnly
<1>4. CASE AskDownload
  BY <1>4 DEF AskDownload, DlOnly, Spend
<1>5. CASE StoreTranscript
  <2>1. video'.keyed = video.keyed
    BY <1>5 DEF StoreTranscript
  <2> QED
    BY <1>5, <2>1 DEF StoreTranscript, DlOnly
<1>6. CASE ResetAndEnqueueSummary
  BY <1>6 DEF ResetAndEnqueueSummary, Insert
<1>7. CASE PurgeKept
  <2>1. CASE video' = Absent
    BY <1>7, <2>1 DEF PurgeKept
  <2>2. CASE Write([video EXCEPT !.index = {}, !.current = FALSE])
    BY <1>7, <2>2 DEF PurgeKept
  <2> QED
    BY <1>7, <2>1, <2>2 DEF PurgeKept, DeleteRow
<1>8. CASE TakeCandidate \/ FetchCaptions \/ CheckClaimed \/ SettleCaptions \/ EnqueueRead \/
        RetryCaptions
  BY <1>8 DEF TakeCandidate, CapStep, CapOnly, FetchCaptions, CheckClaimed, SettleCaptions,
    EnqueueRead, Insert, RetryCaptions, Spend
<1>9. CASE SetDownloaded \/ EnqueueDownloaded \/ DownloadEnds \/ Park \/ Ignore \/ IgnoreLooks
  BY <1>9 DEF SetDownloaded, DlOnly, EnqueueDownloaded, Insert, DownloadEnds, Park, DeleteRow,
    Ignore, IgnoreLooks
<1>10. CASE IgnoreDiscards \/ AskReprocess \/ SetKeepReads \/ ClaimPurge \/ ListKept \/ AskStillOff
  BY <1>10 DEF IgnoreDiscards, DeleteRow, AskReprocess, Spend, SetKeepReads, ClaimPurge,
    PurgeOnly, ListKept, AskStillOff
<1>11. CASE EndPass
  BY <1>11 DEF EndPass, PurgeOnly
<1> QED
  BY <1>1, <1>2, <1>3, <1>4, <1>5, <1>6, <1>7, <1>8, <1>9, <1>10, <1>11 DEF Others

LEMMA KnownProcess ==
  ASSUME TypeInv, Known,
         RetryFailed \/ RetryFallsDue \/ (\E j \in Jobs : BackoffElapses(j))
         \/ Crash \/ Shutdown \/ Restart
  PROVE  Known'
<1> USE BoundsAssumption
  DEF Known, TypeInv, RowOK, VideoRows, Write, Exists, Absent, Quiet, SameJob, Apart,
      workVars, jobVars, knownVars, ledgVars, agentVars, purgeVars, AtRest, Inbox
<1>1. CASE RetryFailed
  BY <1>1 DEF RetryFailed, Spend
<1>2. CASE RetryFallsDue
  BY <1>2 DEF RetryFallsDue
<1>3. CASE \E j \in Jobs : BackoffElapses(j)
  BY <1>3 DEF BackoffElapses
<1>4. CASE Crash
  BY <1>4 DEF Crash, Spend, NoAgents
<1>5. CASE Shutdown
  BY <1>5 DEF Shutdown, Spend
<1>6. CASE Restart
  BY <1>6 DEF Restart, NoAgents
<1> QED
  BY <1>1, <1>2, <1>3, <1>4, <1>5, <1>6

Once == left.downloads + 1 >= MaxDownloads

Asked == video.status \in {"queued", "downloaded"}

\* While the first download lasts, a copy of the row that takes it for an inbox
\* read is older than its key points.
ReadAgain == (Once /\ Asked) => ~(saw.status = "new" /\ saw.keyed)

Indexed == (Once /\ Asked /\ video.current /\ video.keyed) => "chapters" \in video.index

\* What an embed leaves out the row does not have.
LEMMA BuiltInFull ==
  ASSUME TypeInv, Known, ReadAgain, ReplaceVideoChunks, Once, Asked, video.keyed
  PROVE  "chapters" \in Built
<1>1. goal # "full" => saw.keyed
  BY DEF ReplaceVideoChunks, Known, AtRest
<1>2. saw.keyed => ~Inbox(saw)
  BY DEF ReadAgain, Inbox
<1>3. goal \in {"inbox", "full", "fallback", "retry"}
  BY DEF TypeInv, WorkerOK, AtRest, OfJob, ReplaceVideoChunks
<1> QED
  BY <1>1, <1>2, <1>3 DEF Known, Built, Chaptered

LEMMA IndexedWork ==
  ASSUME TypeInv, ReadOnly, Known, ReadAgain, Indexed, Work
  PROVE  ReadAgain' /\ Indexed'
<1> USE BoundsAssumption
  DEF Indexed, ReadAgain, Once, TypeInv, RowOK, VideoRows, OthersOK, Budgets, Write, Exists,
      Absent, Quiet, SameJob, Apart, workVars, jobVars, knownVars, ledgVars, agentVars,
      purgeVars, Asked
<1>1. CASE LoadVideo
  <2>1. CASE Exists /\ pc' = "transcript" /\ saw' = Facts /\ UNCHANGED <<cur, hand, goal>>
    BY <1>1, <2>1, FactsCopy DEF LoadVideo
  <2>2. CASE Rest
    BY <1>1, <2>2, NothingCopy DEF LoadVideo, Rest
  <2> QED
    BY <1>1, <2>1, <2>2 DEF LoadVideo
<1>2. CASE LoadTranscript
  <2>1. saw'.keyed = saw.keyed /\ saw'.status = saw.status
    BY <1>2 DEF LoadTranscript, WorkerOK, Copies
  <2> QED
    BY <1>2, <2>1 DEF LoadTranscript, Go
<1>3. CASE Announce
  BY <1>3 DEF Announce
<1>4. CASE DiscardStale
  BY <1>4 DEF DiscardStale, Go
<1>5. CASE Unindex
  <2>1. ~video.keyed
    BY <1>5 DEF Unindex, Go, Known
  <2> QED
    BY <1>5, <2>1 DEF Unindex, Go
<1>6. CASE SetKeyPoints
  BY <1>6 DEF SetKeyPoints, Go
<1>7. CASE ReplaceVideoChunks
  <2>1. CASE UNCHANGED video
    BY <1>7, <2>1 DEF ReplaceVideoChunks
  <2>2. CASE video' = [video EXCEPT !.index = Built, !.current = TRUE]
    <3>1. (Once /\ Asked /\ video.keyed) => "chapters" \in Built
      BY <1>7, BuiltInFull
    <3>2. video'.index = Built /\ video'.keyed = video.keyed /\ video'.status = video.status
      BY <2>2
    <3> QED
      BY <1>7, <3>1, <3>2 DEF ReplaceVideoChunks
  <2> QED
    BY <1>7, <2>1, <2>2 DEF ReplaceVideoChunks
<1>8. CASE DropIndex
  BY <1>8 DEF DropIndex, Go, AfterRecheck
<1>9. CASE RetryRead
  <2>1. saw'.status = video.status
    BY <1>9, FactsCopy DEF RetryRead
  <2> QED
    BY <1>9, <2>1 DEF RetryRead
<1>10. CASE RetrySave
  BY <1>10 DEF RetrySave
<1>11. CASE RetryAgain
  <2>1. saw'.status = video.status
    BY <1>11, FactsCopy DEF RetryAgain, Copies
  <2> QED
    BY <1>11, <2>1 DEF RetryAgain
<1>12. CASE RetryClear
  BY <1>12, NothingCopy DEF RetryClear, Rest
<1>13. CASE RetryDefer
  BY <1>13, NothingCopy DEF RetryDefer, Rest
<1>14. CASE Finish
  BY <1>14, NothingCopy DEF Finish, Rest
<1>15. CASE Fail
  BY <1>15, NothingCopy DEF Fail, Rest
<1>16. CASE Interrupted
  BY <1>16, NothingCopy DEF Interrupted
<1>17. CASE ResetOrphans \/ EnqueueMissing \/ BackfillInDepth \/ ClaimNext \/ NoTranscript \/
        SaveSummary
  BY <1>17 DEF ResetOrphans, EnqueueMissing, Insert, BackfillInDepth, ClaimNext, Claimable,
    NoTranscript, Go, SaveSummary
<1>18. CASE MarkDone \/ InDepth \/ SetInDepth \/ DeferInDepth \/ KeepCheck \/ KeyPoints
  BY <1>18 DEF MarkDone, Go, Inbox, InDepth, AfterDeep, SetInDepth, DeferInDepth, KeepCheck,
    KeyPoints
<1>19. CASE Embed \/ RecheckKeep \/ FailJob
  BY <1>19 DEF Embed, EmbedFailed, RecheckKeep, Go, AfterRecheck, FailJob
<1> QED
  BY <1>1, <1>2, <1>3, <1>4, <1>5, <1>6, <1>7, <1>8, <1>9, <1>10, <1>11, <1>12, <1>13, <1>14,
     <1>15, <1>16, <1>17, <1>18, <1>19 DEF Work

LEMMA IndexedOthers ==
  ASSUME TypeInv, ReadOnly, Known, ReadAgain, Indexed, Others
  PROVE  ReadAgain' /\ Indexed'
<1> USE BoundsAssumption
  DEF Indexed, ReadAgain, Once, TypeInv, RowOK, VideoRows, OthersOK, Budgets, Write, Exists,
      Absent, Quiet, SameJob, Apart, workVars, jobVars, knownVars, ledgVars, agentVars,
      purgeVars, Asked
<1>1. CASE TakeCandidate
  BY <1>1 DEF TakeCandidate, CapStep, CapOnly
<1>2. CASE EnsureRow
  BY <1>2 DEF EnsureRow, CapStep, CapOnly
<1>3. CASE FetchCaptions
  BY <1>3 DEF FetchCaptions, CapOnly
<1>4. CASE SetNoCaptions
  BY <1>4 DEF SetNoCaptions, CapStep, CapOnly
<1>5. CASE StoreCaptions
  BY <1>5 DEF StoreCaptions, CapStep, CapOnly
<1>6. CASE RetryCaptions
  BY <1>6 DEF RetryCaptions, Spend
<1>7. CASE AskDownload
  <2>1. left'.downloads = left.downloads - 1 /\ left.downloads \in Nat
    BY <1>7 DEF AskDownload, Spend
  <2>2. Once' => Unasked
    BY <2>1 DEF ReadOnly, Unasked
  <2>3. Unasked => ~video.keyed /\ ~saw.keyed
    BY DEF ReadOnly, InboxRow, InboxWork
  <2>4. ~video.keyed => ~video'.keyed
    BY <1>7 DEF AskDownload
  <2>5. UNCHANGED saw
    BY <1>7 DEF AskDownload, DlOnly
  <2> QED
    BY <2>2, <2>3, <2>4, <2>5
<1>8. CASE SetDownloaded
  BY <1>8 DEF SetDownloaded, DlOnly
<1>9. CASE StoreTranscript
  <2>1. UNCHANGED <<video.keyed, video.current, video.status, video.index, saw, left>>
    BY <1>9 DEF StoreTranscript, DlOnly
  <2> QED
    BY <2>1
<1>10. CASE EnqueueDownloaded
  BY <1>10 DEF EnqueueDownloaded, DlOnly, Insert
<1>11. CASE DownloadEnds
  BY <1>11 DEF DownloadEnds, DlOnly
<1>12. CASE Park
  BY <1>12 DEF Park, DlOnly, DeleteRow
<1>13. CASE Ignore
  BY <1>13 DEF Ignore
<1>14. CASE IgnoreDiscards
  BY <1>14 DEF IgnoreDiscards, DeleteRow
<1>15. CASE AskReprocess
  BY <1>15 DEF AskReprocess, Spend
<1>16. CASE ResetAndEnqueueSummary
  BY <1>16 DEF ResetAndEnqueueSummary, Insert
<1>17. CASE SetKeepReads
  BY <1>17 DEF SetKeepReads, Spend
<1>18. CASE ClaimPurge
  BY <1>18 DEF ClaimPurge, PurgeOnly
<1>19. CASE ListKept
  BY <1>19 DEF ListKept, PurgeOnly
<1>20. CASE AskStillOff
  BY <1>20 DEF AskStillOff, PurgeOnly
<1>21. CASE PurgeKept
  <2>1. CASE video' = Absent
    BY <1>21, <2>1 DEF PurgeKept
  <2>2. CASE Write([video EXCEPT !.index = {}, !.current = FALSE])
    BY <1>21, <2>2 DEF PurgeKept
  <2> QED
    BY <1>21, <2>1, <2>2 DEF PurgeKept, DeleteRow
<1>22. CASE EndPass
  BY <1>22 DEF EndPass, PurgeOnly
<1>23. CASE CheckClaimed \/ SettleCaptions \/ EnqueueRead \/ IgnoreLooks
  BY <1>23 DEF CheckClaimed, CapStep, CapOnly, SettleCaptions, EnqueueRead, Insert,
    IgnoreLooks
<1> QED
  BY <1>1, <1>2, <1>3, <1>4, <1>5, <1>6, <1>7, <1>8, <1>9, <1>10, <1>11, <1>12, <1>13, <1>14,
     <1>15, <1>16, <1>17, <1>18, <1>19, <1>20, <1>21, <1>22, <1>23 DEF Others

LEMMA IndexedProcess ==
  ASSUME TypeInv, ReadOnly, Known, ReadAgain, Indexed,
         RetryFailed \/ RetryFallsDue \/ (\E j \in Jobs : BackoffElapses(j))
         \/ Crash \/ Shutdown \/ Restart
  PROVE  ReadAgain' /\ Indexed'
<1> USE BoundsAssumption
  DEF Indexed, ReadAgain, Once, TypeInv, RowOK, VideoRows, OthersOK, Budgets, Write, Exists,
      Absent, Quiet, SameJob, Apart, workVars, jobVars, knownVars, ledgVars, agentVars,
      purgeVars, Asked
<1>1. CASE RetryFailed
  BY <1>1, NothingCopy DEF RetryFailed, Spend
<1>2. CASE RetryFallsDue
  BY <1>2, NothingCopy DEF RetryFallsDue
<1>3. CASE \E j \in Jobs : BackoffElapses(j)
  BY <1>3, NothingCopy DEF BackoffElapses
<1>4. CASE Crash
  BY <1>4, NothingCopy DEF Crash, Spend, NoAgents
<1>5. CASE Shutdown
  BY <1>5, NothingCopy DEF Shutdown, Spend
<1>6. CASE Restart
  BY <1>6, NothingCopy DEF Restart, NoAgents
<1> QED
  BY <1>1, <1>2, <1>3, <1>4, <1>5, <1>6

\* Of a video whose first download succeeded, an index that is marked current has
\* the chapters of the key points on the row, whatever order failures, fallbacks,
\* in-depth retries and reprocesses came in.
THEOREM CurrentIndexHasChapters ==
  Spec => []IndexHasChapters
<1>1. Init => ReadOnly /\ Known /\ ReadAgain /\ Indexed
  BY NothingCopy, BoundsAssumption DEF Init, ReadOnly, InboxRow, InboxWork, Known, ReadAgain,
    Indexed,
    Absent, AtRest
<1>2. TypeInv /\ ReadOnly /\ Known /\ ReadAgain /\ Indexed /\ [Next]_vars
        => ReadOnly' /\ Known' /\ ReadAgain' /\ Indexed'
  <2> SUFFICES ASSUME TypeInv, ReadOnly, Known, ReadAgain, Indexed, [Next]_vars
               PROVE  Known' /\ ReadAgain' /\ Indexed'
    BY ReadOnlyStep
  <2>1. CASE UNCHANGED vars
    BY <2>1 DEF vars, workVars, knownVars, Known, AtRest, Inbox, ReadAgain, Indexed, Once, Asked
  <2> QED
    BY <2>1, KnownWork, KnownOthers, KnownProcess, IndexedWork, IndexedOthers, IndexedProcess
      DEF Next
<1>3. Indexed => IndexHasChapters
  BY DEF Indexed, Once, Asked, IndexHasChapters
<1> QED
  BY <1>1, <1>2, <1>3, TypeCorrect, PTL DEF Spec

----------------------------------------------------------------------------
(* The summary queue: jobs in hand, jobs that wait *)

\* The job in hand is not one that waits.
InHand == cur # 0 => jobState[cur] \in {"running", "gone"}

LEMMA InHandWork ==
  ASSUME TypeInv, InHand, Work
  PROVE  InHand'
<1> USE BoundsAssumption
  DEF InHand, TypeInv, QueueOK, WorkerOK, AtRest, OfJob, Quiet, SameJob, Apart, workVars,
      jobVars, knownVars, Rows
<1>1. CASE ResetOrphans
  BY <1>1 DEF ResetOrphans
<1>2. CASE EnqueueMissing
  BY <1>2 DEF EnqueueMissing, Insert, Jobs
<1>3. CASE ClaimNext
  BY <1>3 DEF ClaimNext, Claimable
<1>4. CASE LoadVideo
  BY <1>4 DEF LoadVideo, Exists, Rest
<1>5. CASE RetryClear
  BY <1>5 DEF RetryClear, Write, Exists, Rest
<1>6. CASE RetryDefer
  BY <1>6 DEF RetryDefer, Write, Exists, Rest
<1>7. CASE Finish
  BY <1>7 DEF Finish, Rest
<1>8. CASE Fail
  BY <1>8 DEF Fail, Rest
<1>9. CASE Interrupted
  BY <1>9 DEF Interrupted
<1>10. CASE BackfillInDepth \/ LoadTranscript \/ Announce \/ DiscardStale \/ Unindex \/
        NoTranscript
  BY <1>10 DEF BackfillInDepth, LoadTranscript, Go, Announce, Write, Exists, DiscardStale,
    Unindex, NoTranscript
<1>11. CASE SaveSummary \/ MarkDone \/ InDepth \/ SetInDepth \/ DeferInDepth \/ KeepCheck
  BY <1>11 DEF SaveSummary, Go, Write, Exists, MarkDone, Inbox, InDepth, AfterDeep,
    SetInDepth, DeferInDepth, KeepCheck
<1>12. CASE KeyPoints \/ SetKeyPoints \/ Embed \/ ReplaceVideoChunks \/ RecheckKeep \/ DropIndex
  BY <1>12 DEF KeyPoints, SetKeyPoints, Go, Write, Exists, Embed, EmbedFailed,
    ReplaceVideoChunks, AfterEmbed, RecheckKeep, AfterRecheck, DropIndex
<1>13. CASE RetryRead \/ RetrySave \/ RetryAgain \/ FailJob
  BY <1>13 DEF RetryRead, RetrySave, RetryAgain, FailJob, Go, Write, Exists
<1> QED
  BY <1>1, <1>2, <1>3, <1>4, <1>5, <1>6, <1>7, <1>8, <1>9, <1>10, <1>11, <1>12, <1>13 DEF Work

LEMMA InHandOthers ==
  ASSUME TypeInv, InHand, Others
  PROVE  InHand'
<1> USE BoundsAssumption
  DEF InHand, TypeInv, QueueOK, WorkerOK, AtRest, OfJob, Quiet, SameJob, Apart, workVars,
      jobVars, knownVars, Rows
<1>1. CASE EnqueueRead
  BY <1>1 DEF EnqueueRead, CapStep, CapOnly, Insert, Exists
<1>2. CASE EnqueueDownloaded
  BY <1>2 DEF EnqueueDownloaded, DlOnly, Insert, Exists
<1>3. CASE Park
  BY <1>3 DEF Park, DlOnly, DeleteRow
<1>4. CASE IgnoreDiscards
  BY <1>4 DEF IgnoreDiscards, DeleteRow
<1>5. CASE ResetAndEnqueueSummary
  BY <1>5 DEF ResetAndEnqueueSummary, Insert, Exists
<1>6. CASE PurgeKept
  BY <1>6 DEF PurgeKept, DeleteRow, Write, Exists
<1>7. CASE TakeCandidate \/ EnsureRow \/ FetchCaptions \/ SetNoCaptions \/ CheckClaimed \/
        StoreCaptions
  BY <1>7 DEF TakeCandidate, CapStep, CapOnly, EnsureRow, Exists, FetchCaptions,
    SetNoCaptions, Write, CheckClaimed, StoreCaptions
<1>8. CASE SettleCaptions \/ RetryCaptions \/ AskDownload \/ SetDownloaded \/ StoreTranscript \/
        DownloadEnds
  BY <1>8 DEF SettleCaptions, CapStep, CapOnly, RetryCaptions, Spend, AskDownload, DlOnly,
    Exists, SetDownloaded, StoreTranscript, Write, DownloadEnds
<1>9. CASE Ignore \/ IgnoreLooks \/ AskReprocess \/ SetKeepReads \/ ClaimPurge \/ ListKept
  BY <1>9 DEF Ignore, IgnoreLooks, AskReprocess, Spend, Exists, SetKeepReads, ClaimPurge,
    PurgeOnly, ListKept
<1>10. CASE AskStillOff \/ EndPass
  BY <1>10 DEF AskStillOff, PurgeOnly, EndPass
<1> QED
  BY <1>1, <1>2, <1>3, <1>4, <1>5, <1>6, <1>7, <1>8, <1>9, <1>10 DEF Others

LEMMA InHandProcess ==
  ASSUME TypeInv, InHand,
         RetryFailed \/ RetryFallsDue \/ (\E j \in Jobs : BackoffElapses(j))
         \/ Crash \/ Shutdown \/ Restart
  PROVE  InHand'
<1> USE BoundsAssumption
  DEF InHand, TypeInv, QueueOK, WorkerOK, AtRest, OfJob, Quiet, SameJob, Apart, workVars,
      jobVars, knownVars, Rows
<1>1. CASE RetryFailed
  BY <1>1 DEF RetryFailed, Spend
<1>2. CASE RetryFallsDue
  BY <1>2 DEF RetryFallsDue
<1>3. CASE \E j \in Jobs : BackoffElapses(j)
  BY <1>3 DEF BackoffElapses
<1>4. CASE Crash
  BY <1>4 DEF Crash, Spend, NoAgents
<1>5. CASE Shutdown
  BY <1>5 DEF Shutdown, Spend
<1>6. CASE Restart
  BY <1>6 DEF Restart, NoAgents
<1> QED
  BY <1>1, <1>2, <1>3, <1>4, <1>5, <1>6

Queued == \E j \in Jobs : jobState[j] = "pending"

LEMMA InsertQueues ==
  ASSUME QueueOK, Insert
  PROVE  Queued'
BY DEF QueueOK, Insert, Queued

\* A waiting job waits until it is claimed or its video is deleted.
LEMMA QueuedWork ==
  ASSUME TypeInv, InHand, Work
  PROVE  Queued => Queued' \/ pc' = "claimed"
<1> USE BoundsAssumption
  DEF Queued, TypeInv, QueueOK, Quiet, SameJob, Apart, workVars, jobVars, knownVars, Rows,
      InHand, WorkerOK, AtRest, OfJob
<1>1. CASE ResetOrphans
  BY <1>1 DEF ResetOrphans
<1>2. CASE EnqueueMissing
  BY <1>2, InsertQueues DEF EnqueueMissing, Insert
<1>3. CASE ClaimNext
  BY <1>3 DEF ClaimNext, Claimable
<1>4. CASE Finish
  BY <1>4 DEF Finish, Rest
<1>5. CASE Fail
  BY <1>5 DEF Fail, Rest
<1>6. CASE BackfillInDepth \/ LoadVideo \/ LoadTranscript \/ Announce \/ DiscardStale \/ Unindex
  BY <1>6 DEF BackfillInDepth, LoadVideo, Exists, Rest, LoadTranscript, Go, Announce, Write,
    DiscardStale, Unindex
<1>7. CASE NoTranscript \/ SaveSummary \/ MarkDone \/ InDepth \/ SetInDepth \/ DeferInDepth
  BY <1>7 DEF NoTranscript, Go, Write, Exists, SaveSummary, MarkDone, Inbox, InDepth,
    AfterDeep, SetInDepth, DeferInDepth
<1>8. CASE KeepCheck \/ KeyPoints \/ SetKeyPoints \/ Embed \/ ReplaceVideoChunks \/ RecheckKeep
  BY <1>8 DEF KeepCheck, Exists, KeyPoints, SetKeyPoints, Go, Write, Embed, EmbedFailed,
    ReplaceVideoChunks, AfterEmbed, RecheckKeep, AfterRecheck
<1>9. CASE DropIndex \/ RetryRead \/ RetrySave \/ RetryAgain \/ RetryClear \/ RetryDefer
  BY <1>9 DEF DropIndex, Go, Write, Exists, AfterRecheck, RetryRead, RetrySave, RetryAgain,
    RetryClear, Rest, RetryDefer
<1>10. CASE FailJob \/ Interrupted
  BY <1>10 DEF FailJob, Go, Write, Exists, Interrupted
<1> QED
  BY <1>1, <1>2, <1>3, <1>4, <1>5, <1>6, <1>7, <1>8, <1>9, <1>10 DEF Work

LEMMA QueuedOthers ==
  ASSUME TypeInv, InHand, Others
  PROVE  Queued => Queued' \/ video' = Absent
<1> USE BoundsAssumption
  DEF Queued, TypeInv, QueueOK, Quiet, SameJob, Apart, workVars, jobVars, knownVars, Rows
<1>1. CASE EnqueueRead
  BY <1>1, InsertQueues DEF EnqueueRead, CapStep, CapOnly, Insert, Exists
<1>2. CASE EnqueueDownloaded
  BY <1>2, InsertQueues DEF EnqueueDownloaded, DlOnly, Insert, Exists
<1>3. CASE Park
  BY <1>3 DEF Park, DlOnly, DeleteRow
<1>4. CASE IgnoreDiscards
  BY <1>4 DEF IgnoreDiscards, DeleteRow
<1>5. CASE ResetAndEnqueueSummary
  BY <1>5, InsertQueues DEF ResetAndEnqueueSummary, Insert, Exists
<1>6. CASE PurgeKept
  BY <1>6 DEF PurgeKept, DeleteRow, Write, Exists
<1>7. CASE TakeCandidate \/ EnsureRow \/ FetchCaptions \/ SetNoCaptions \/ CheckClaimed \/
        StoreCaptions
  BY <1>7 DEF TakeCandidate, CapStep, CapOnly, EnsureRow, Exists, FetchCaptions,
    SetNoCaptions, Write, CheckClaimed, StoreCaptions
<1>8. CASE SettleCaptions \/ RetryCaptions \/ AskDownload \/ SetDownloaded \/ StoreTranscript \/
        DownloadEnds
  BY <1>8 DEF SettleCaptions, CapStep, CapOnly, RetryCaptions, Spend, AskDownload, DlOnly,
    Exists, SetDownloaded, StoreTranscript, Write, DownloadEnds
<1>9. CASE Ignore \/ IgnoreLooks \/ AskReprocess \/ SetKeepReads \/ ClaimPurge \/ ListKept
  BY <1>9 DEF Ignore, IgnoreLooks, AskReprocess, Spend, Exists, SetKeepReads, ClaimPurge,
    PurgeOnly, ListKept
<1>10. CASE AskStillOff \/ EndPass
  BY <1>10 DEF AskStillOff, PurgeOnly, EndPass
<1> QED
  BY <1>1, <1>2, <1>3, <1>4, <1>5, <1>6, <1>7, <1>8, <1>9, <1>10 DEF Others

LEMMA QueuedProcess ==
  ASSUME TypeInv, InHand,
         RetryFailed \/ RetryFallsDue \/ (\E j \in Jobs : BackoffElapses(j))
         \/ Crash \/ Shutdown \/ Restart
  PROVE  Queued => Queued'
<1> USE BoundsAssumption
  DEF Queued, TypeInv, QueueOK, Quiet, SameJob, Apart, workVars, jobVars, knownVars, Rows
<1>1. CASE RetryFailed
  BY <1>1 DEF RetryFailed, Spend
<1>2. CASE RetryFallsDue
  BY <1>2 DEF RetryFallsDue
<1>3. CASE \E j \in Jobs : BackoffElapses(j)
  BY <1>3 DEF BackoffElapses
<1>4. CASE Crash
  BY <1>4 DEF Crash, Spend, NoAgents
<1>5. CASE Shutdown
  BY <1>5 DEF Shutdown, Spend
<1>6. CASE Restart
  BY <1>6 DEF Restart, NoAgents
<1> QED
  BY <1>1, <1>2, <1>3, <1>4, <1>5, <1>6

----------------------------------------------------------------------------
(* The lane of the summary queue *)

\* Rows that run are the worker's, or a dead process's until the boot takes them
\* back.
OneAtATime == \A j, k \in Jobs : jobState[j] = "running" /\ jobState[k] = "running" => j = k

Lane ==
  /\ OneAtATime
  /\ \A j \in Jobs : jobState[j] = "running" => j = cur \/ pc \in {"down", "boot"}
  /\ ~Exists => \A j \in Jobs : jobState[j] \notin Rows

LEMMA LaneWork ==
  ASSUME TypeInv, InHand, Lane, Work
  PROVE  Lane'
<1> USE BoundsAssumption
  DEF Lane, OneAtATime, TypeInv, QueueOK, RowOK, VideoRows, Write, Exists, Quiet, SameJob,
      Apart, workVars, jobVars, knownVars, Rows, InHand, WorkerOK, AtRest, OfJob
<1>1. CASE ResetOrphans
  BY <1>1 DEF ResetOrphans
<1>2. CASE EnqueueMissing
  BY <1>2 DEF EnqueueMissing, Insert, Forgotten
<1>3. CASE ClaimNext
  BY <1>3 DEF ClaimNext, Claimable, Jobs
<1>4. CASE LoadVideo
  BY <1>4 DEF LoadVideo, Rest
<1>5. CASE ReplaceVideoChunks
  BY <1>5 DEF ReplaceVideoChunks, EmbedFailed, AfterEmbed
<1>6. CASE RetrySave
  BY <1>6 DEF RetrySave
<1>7. CASE RetryClear
  BY <1>7 DEF RetryClear, Rest, Jobs
<1>8. CASE RetryDefer
  BY <1>8 DEF RetryDefer, Rest, Jobs
<1>9. CASE Finish
  BY <1>9 DEF Finish, Rest
<1>10. CASE Fail
  BY <1>10 DEF Fail, Rest
<1>11. CASE Interrupted
  BY <1>11 DEF Interrupted
<1>12. CASE BackfillInDepth \/ LoadTranscript \/ Announce \/ DiscardStale \/ Unindex \/
        NoTranscript
  BY <1>12 DEF BackfillInDepth, LoadTranscript, Go, Announce, DiscardStale, Unindex,
    NoTranscript
<1>13. CASE SaveSummary \/ MarkDone \/ InDepth \/ SetInDepth \/ DeferInDepth \/ KeepCheck
  BY <1>13 DEF SaveSummary, Go, MarkDone, Inbox, InDepth, AfterDeep, SetInDepth, DeferInDepth,
    KeepCheck
<1>14. CASE KeyPoints \/ SetKeyPoints \/ Embed \/ RecheckKeep \/ DropIndex \/ RetryRead
  BY <1>14 DEF KeyPoints, SetKeyPoints, Go, Embed, EmbedFailed, RecheckKeep, AfterRecheck,
    DropIndex, RetryRead
<1>15. CASE RetryAgain \/ FailJob
  BY <1>15 DEF RetryAgain, FailJob, Go
<1> QED
  BY <1>1, <1>2, <1>3, <1>4, <1>5, <1>6, <1>7, <1>8, <1>9, <1>10, <1>11, <1>12, <1>13, <1>14,
     <1>15 DEF Work

LEMMA LaneOthers ==
  ASSUME TypeInv, Lane, Others
  PROVE  Lane'
<1> USE BoundsAssumption
  DEF Lane, OneAtATime, TypeInv, QueueOK, RowOK, VideoRows, Write, Exists, Quiet, SameJob,
      Apart, workVars, jobVars, knownVars, Rows
<1>1. CASE EnsureRow
  BY <1>1 DEF EnsureRow, CapStep, CapOnly
<1>2. CASE StoreCaptions
  BY <1>2 DEF StoreCaptions, CapStep, CapOnly
<1>3. CASE EnqueueRead
  BY <1>3 DEF EnqueueRead, CapStep, CapOnly, Insert
<1>4. CASE RetryCaptions
  BY <1>4 DEF RetryCaptions, Spend
<1>5. CASE AskDownload
  BY <1>5 DEF AskDownload, DlOnly, Spend
<1>6. CASE SetDownloaded
  BY <1>6 DEF SetDownloaded, DlOnly
<1>7. CASE StoreTranscript
  BY <1>7 DEF StoreTranscript, DlOnly
<1>8. CASE EnqueueDownloaded
  BY <1>8 DEF EnqueueDownloaded, DlOnly, Insert
<1>9. CASE Park
  BY <1>9 DEF Park, DlOnly, DeleteRow
<1>10. CASE IgnoreDiscards
  BY <1>10 DEF IgnoreDiscards, DeleteRow
<1>11. CASE ResetAndEnqueueSummary
  <2>1. CASE ~Exists /\ UNCHANGED <<video, jobVars>>
    BY <1>11, <2>1 DEF ResetAndEnqueueSummary
  <2>2. CASE Exists /\ Insert
    <3>1. Exists'
      BY <1>11, <2>2 DEF ResetAndEnqueueSummary
    <3>2. UNCHANGED <<cur, pc>>
      BY <1>11 DEF ResetAndEnqueueSummary
    <3> QED
      BY <2>2, <3>1, <3>2 DEF Insert
  <2> QED
    BY <1>11, <2>1, <2>2 DEF ResetAndEnqueueSummary
<1>12. CASE PurgeKept
  BY <1>12 DEF PurgeKept, DeleteRow
<1>13. CASE TakeCandidate \/ FetchCaptions \/ SetNoCaptions \/ CheckClaimed \/ SettleCaptions \/
        DownloadEnds
  BY <1>13 DEF TakeCandidate, CapStep, CapOnly, FetchCaptions, SetNoCaptions, CheckClaimed,
    SettleCaptions, DownloadEnds, DlOnly
<1>14. CASE Ignore \/ IgnoreLooks \/ AskReprocess \/ SetKeepReads \/ ClaimPurge \/ ListKept
  BY <1>14 DEF Ignore, IgnoreLooks, AskReprocess, Spend, SetKeepReads, ClaimPurge, PurgeOnly,
    ListKept
<1>15. CASE AskStillOff \/ EndPass
  BY <1>15 DEF AskStillOff, PurgeOnly, EndPass
<1> QED
  BY <1>1, <1>2, <1>3, <1>4, <1>5, <1>6, <1>7, <1>8, <1>9, <1>10, <1>11, <1>12, <1>13, <1>14,
     <1>15 DEF Others

LEMMA LaneProcess ==
  ASSUME TypeInv, Lane,
         RetryFailed \/ RetryFallsDue \/ (\E j \in Jobs : BackoffElapses(j))
         \/ Crash \/ Shutdown \/ Restart
  PROVE  Lane'
<1> USE BoundsAssumption
  DEF Lane, OneAtATime, TypeInv, QueueOK, RowOK, VideoRows, Write, Exists, Quiet, SameJob,
      Apart, workVars, jobVars, knownVars, Rows
<1>1. CASE RetryFailed
  BY <1>1 DEF RetryFailed, Spend
<1>2. CASE RetryFallsDue
  BY <1>2 DEF RetryFallsDue
<1>3. CASE \E j \in Jobs : BackoffElapses(j)
  BY <1>3 DEF BackoffElapses
<1>4. CASE Crash
  BY <1>4 DEF Crash, Spend, NoAgents
<1>5. CASE Shutdown
  BY <1>5 DEF Shutdown, Spend
<1>6. CASE Restart
  BY <1>6 DEF Restart, NoAgents
<1> QED
  BY <1>1, <1>2, <1>3, <1>4, <1>5, <1>6

\* A step may not reopen an analysis that is done, nor one that has failed for
\* good unless a person asks for it.
Reopens(j) ==
  \/ jobState[j] = "done" /\ jobState'[j] \notin {"done", "gone"}
  \/ jobState[j] = "failed" /\ jobState'[j] \notin {"failed", "gone"} /\ ~RetryFailed

EndedStays == [][\A j \in Jobs : ~Reopens(j)]_vars

LEMMA EndedWork ==
  ASSUME TypeInv, InHand, Work
  PROVE  \A j \in Jobs : ~Reopens(j)
<1> USE BoundsAssumption
  DEF Reopens, TypeInv, QueueOK, Quiet, SameJob, Apart, workVars, jobVars, knownVars, Rows,
      InHand, WorkerOK, AtRest, OfJob
<1>1. CASE ResetOrphans
  BY <1>1 DEF ResetOrphans
<1>2. CASE EnqueueMissing
  BY <1>2 DEF EnqueueMissing, Insert
<1>3. CASE ClaimNext
  BY <1>3 DEF ClaimNext, Claimable
<1>4. CASE Finish
  BY <1>4 DEF Finish, Rest
<1>5. CASE Fail
  BY <1>5 DEF Fail, Rest
<1>6. CASE BackfillInDepth \/ LoadVideo \/ LoadTranscript \/ Announce \/ DiscardStale \/ Unindex
  BY <1>6 DEF BackfillInDepth, LoadVideo, Exists, Rest, LoadTranscript, Go, Announce, Write,
    DiscardStale, Unindex
<1>7. CASE NoTranscript \/ SaveSummary \/ MarkDone \/ InDepth \/ SetInDepth \/ DeferInDepth
  BY <1>7 DEF NoTranscript, Go, Write, Exists, SaveSummary, MarkDone, Inbox, InDepth,
    AfterDeep, SetInDepth, DeferInDepth
<1>8. CASE KeepCheck \/ KeyPoints \/ SetKeyPoints \/ Embed \/ ReplaceVideoChunks \/ RecheckKeep
  BY <1>8 DEF KeepCheck, Exists, KeyPoints, SetKeyPoints, Go, Write, Embed, EmbedFailed,
    ReplaceVideoChunks, AfterEmbed, RecheckKeep, AfterRecheck
<1>9. CASE DropIndex \/ RetryRead \/ RetrySave \/ RetryAgain \/ RetryClear \/ RetryDefer
  BY <1>9 DEF DropIndex, Go, Write, Exists, AfterRecheck, RetryRead, RetrySave, RetryAgain,
    RetryClear, Rest, RetryDefer
<1>10. CASE FailJob \/ Interrupted
  BY <1>10 DEF FailJob, Go, Write, Exists, Interrupted
<1> QED
  BY <1>1, <1>2, <1>3, <1>4, <1>5, <1>6, <1>7, <1>8, <1>9, <1>10 DEF Work

LEMMA EndedOthers ==
  ASSUME TypeInv, Others
  PROVE  \A j \in Jobs : ~Reopens(j)
<1> USE BoundsAssumption
  DEF Reopens, TypeInv, QueueOK, Quiet, SameJob, Apart, workVars, jobVars, knownVars, Rows
<1>1. CASE EnqueueRead
  BY <1>1 DEF EnqueueRead, CapStep, CapOnly, Insert, Exists
<1>2. CASE EnqueueDownloaded
  BY <1>2 DEF EnqueueDownloaded, DlOnly, Insert, Exists
<1>3. CASE Park
  BY <1>3 DEF Park, DlOnly, DeleteRow
<1>4. CASE IgnoreDiscards
  BY <1>4 DEF IgnoreDiscards, DeleteRow
<1>5. CASE ResetAndEnqueueSummary
  BY <1>5 DEF ResetAndEnqueueSummary, Insert, Exists
<1>6. CASE PurgeKept
  BY <1>6 DEF PurgeKept, DeleteRow, Write, Exists
<1>7. CASE TakeCandidate \/ EnsureRow \/ FetchCaptions \/ SetNoCaptions \/ CheckClaimed \/
        StoreCaptions
  BY <1>7 DEF TakeCandidate, CapStep, CapOnly, EnsureRow, Exists, FetchCaptions,
    SetNoCaptions, Write, CheckClaimed, StoreCaptions
<1>8. CASE SettleCaptions \/ RetryCaptions \/ AskDownload \/ SetDownloaded \/ StoreTranscript \/
        DownloadEnds
  BY <1>8 DEF SettleCaptions, CapStep, CapOnly, RetryCaptions, Spend, AskDownload, DlOnly,
    Exists, SetDownloaded, StoreTranscript, Write, DownloadEnds
<1>9. CASE Ignore \/ IgnoreLooks \/ AskReprocess \/ SetKeepReads \/ ClaimPurge \/ ListKept
  BY <1>9 DEF Ignore, IgnoreLooks, AskReprocess, Spend, Exists, SetKeepReads, ClaimPurge,
    PurgeOnly, ListKept
<1>10. CASE AskStillOff \/ EndPass
  BY <1>10 DEF AskStillOff, PurgeOnly, EndPass
<1> QED
  BY <1>1, <1>2, <1>3, <1>4, <1>5, <1>6, <1>7, <1>8, <1>9, <1>10 DEF Others

LEMMA EndedProcess ==
  ASSUME TypeInv,
         RetryFailed \/ RetryFallsDue \/ (\E j \in Jobs : BackoffElapses(j))
         \/ Crash \/ Shutdown \/ Restart
  PROVE  \A j \in Jobs : ~Reopens(j)
<1> USE BoundsAssumption
  DEF Reopens, TypeInv, QueueOK, Quiet, SameJob, Apart, workVars, jobVars, knownVars, Rows
<1>1. CASE RetryFailed
  BY <1>1 DEF RetryFailed, Spend
<1>2. CASE RetryFallsDue
  BY <1>2 DEF RetryFallsDue
<1>3. CASE \E j \in Jobs : BackoffElapses(j)
  BY <1>3 DEF BackoffElapses
<1>4. CASE Crash
  BY <1>4 DEF Crash, Spend, NoAgents
<1>5. CASE Shutdown
  BY <1>5 DEF Shutdown, Spend
<1>6. CASE Restart
  BY <1>6 DEF Restart, NoAgents
<1> QED
  BY <1>1, <1>2, <1>3, <1>4, <1>5, <1>6

\* The summary queue is single-lane: whatever crashes, deletes and retries do, two
\* analyses never run at once.
THEOREM OneAnalysisAtATime ==
  Spec => []OneAtATime
<1>1. Init => InHand /\ Lane
  BY DEF Init, InHand, Lane, OneAtATime, Rows
<1>2. TypeInv /\ InHand /\ Lane /\ [Next]_vars => InHand' /\ Lane'
  <2> SUFFICES ASSUME TypeInv, InHand, Lane, [Next]_vars PROVE InHand' /\ Lane'
    OBVIOUS
  <2>1. CASE UNCHANGED vars
    BY <2>1 DEF vars, jobVars, workVars, InHand, Lane, OneAtATime, Exists
  <2> QED
    BY <2>1, InHandWork, InHandOthers, InHandProcess, LaneWork, LaneOthers, LaneProcess DEF Next
<1>3. Lane => OneAtATime
  BY DEF Lane
<1> QED
  BY <1>1, <1>2, <1>3, TypeCorrect, PTL DEF Spec

\* An analysis that is over stays over: a late Finish or Fail, a boot or a sweep
\* never takes up a job that is done, and one that failed for good only a person
\* brings back.
THEOREM EndedAnalysesStay ==
  Spec => EndedStays
<1>1. Init => InHand
  BY DEF Init, InHand
<1>2. TypeInv /\ InHand /\ [Next]_vars => InHand'
  <2> SUFFICES ASSUME TypeInv, InHand, [Next]_vars PROVE InHand'
    OBVIOUS
  <2>1. CASE UNCHANGED vars
    BY <2>1 DEF vars, jobVars, workVars, InHand
  <2> QED
    BY <2>1, InHandWork, InHandOthers, InHandProcess DEF Next
<1>3. TypeInv /\ InHand /\ [Next]_vars => [\A j \in Jobs : ~Reopens(j)]_vars
  BY EndedWork, EndedOthers, EndedProcess DEF Next
<1> QED
  BY <1>1, <1>2, <1>3, TypeCorrect, PTL DEF Spec, EndedStays

----------------------------------------------------------------------------
(* The in-depth text stays owed *)

\* A finished summary without its in-depth text, of a video somebody may open.
Finished ==
  /\ video.sum = "done" /\ video.text /\ video.source # "none" /\ ~video.blank /\ ~video.deep
  /\ ledger # "ignored" /\ video.status # "error"

\* What will see to it: the boot sweep, the job in hand up to its in-depth step,
\* a job that waits, or a transcript whose job is just about to be queued.
Coming ==
  \/ stopping \/ pc \in {"down", "boot", "missing", "backfill"}
  \/ pc \in {"claimed", "transcript", "announce", "discard", "unindex", "noTranscript", "save",
             "summarized", "deep", "deepSave", "deepFailed", "failed"}
  \/ cap \in {"settle", "enqueue"} \/ dl # "idle" \/ Queued

Owed == Finished /\ video.owed = "no" => Coming

\* An in-depth retry that is about to be cleared was not needed.
Cleared ==
  (/\ Finished
   /\ \/ pc \in {"retryClear", "retryAgain"}
      \/ goal = "retry" /\ pc \in {"embed", "replace", "recheck", "drop"})
    => Coming

\* The download is asked for once at most, and not at all if the entry may be
\* ignored.
AtMostOnce == MaxDownloads = 0 \/ (~Ignores /\ MaxDownloads = 1)
\* Where nobody ignores, nothing is ignored.
NotIgnored == Ignores \/ ledger # "ignored"

Owes == Owed /\ Cleared /\ NotIgnored

LEMMA DeletedOwes ==
  ASSUME video' = Absent, NotIgnored'
  PROVE  Owes'
BY DEF Owes, Owed, Cleared, Finished, Absent

LEMMA OwesWork ==
  ASSUME TypeInv, ReadOnly, InHand, Owes, Work
  PROVE  Owes'
<1> USE BoundsAssumption
  DEF Owes, Owed, Cleared, Finished, Coming, TypeInv, RowOK, VideoRows, Write, Exists, Absent,
      Quiet, SameJob, Apart, workVars, jobVars, knownVars, ledgVars, agentVars, purgeVars,
      WorkerOK, AtRest, OfJob, NotIgnored
<1>q. Queued => Queued' \/ pc' = "claimed"
  BY QueuedWork
<1>1. CASE EnqueueMissing
  BY <1>1, <1>q DEF EnqueueMissing, Insert
<1>2. CASE BackfillInDepth
  <2>1. CASE Finished /\ video.owed = "no"
    <3>1. video.status \in {"new", "queued", "downloaded"}
      BY <2>1 DEF Statuses
    <3>2. video'.owed = "due"
      BY <1>2, <2>1, <3>1 DEF BackfillInDepth
    <3> QED
      BY <1>2, <3>2 DEF BackfillInDepth
  <2>2. CASE ~(Finished /\ video.owed = "no")
    <3>1. Finished' => Finished
      BY <1>2 DEF BackfillInDepth
    <3>2. video'.owed = "no" => video.owed = "no"
      BY <1>2 DEF BackfillInDepth
    <3> QED
      BY <1>2, <2>2, <3>1, <3>2 DEF BackfillInDepth
  <2> QED
    BY <2>1, <2>2
<1>3. CASE ClaimNext
  BY <1>3, <1>q DEF ClaimNext, Claimable
<1>4. CASE LoadVideo
  BY <1>4, <1>q DEF LoadVideo, Rest
<1>5. CASE LoadTranscript
  BY <1>5, <1>q DEF LoadTranscript, Go
<1>6. CASE Announce
  BY <1>6, <1>q DEF Announce
<1>7. CASE DiscardStale
  BY <1>7, <1>q DEF DiscardStale, Go
<1>8. CASE NoTranscript
  BY <1>8, <1>q DEF NoTranscript, Go
<1>9. CASE SaveSummary
  BY <1>9, <1>q DEF SaveSummary, Go
<1>10. CASE MarkDone
  BY <1>10, <1>q DEF MarkDone, Go, Inbox
<1>11. CASE InDepth
  BY <1>11, <1>q DEF InDepth, AfterDeep
<1>12. CASE SetInDepth
  BY <1>12, <1>q DEF SetInDepth, Go, AfterDeep
<1>13. CASE DeferInDepth
  BY <1>13, <1>q DEF DeferInDepth, Go, AfterDeep
<1>14. CASE KeepCheck
  BY <1>14, <1>q DEF KeepCheck
<1>15. CASE KeyPoints
  BY <1>15, <1>q DEF KeyPoints
<1>16. CASE SetKeyPoints
  BY <1>16, <1>q DEF SetKeyPoints, Go
<1>17. CASE Embed
  <2>1. goal = "retry" => pc' \in {"replace", "retryFailed"}
    BY <1>17 DEF Embed, EmbedFailed
  <2>2. goal # "retry" => pc' \in {"replace", "requeue", "failed"}
    BY <1>17 DEF Embed, EmbedFailed
  <2> QED
    BY <1>17, <1>q, <2>1, <2>2 DEF Embed
<1>18. CASE ReplaceVideoChunks
  <2>1. goal = "retry" /\ pc' # "retryFailed" => pc' \in {"retryClear", "recheck"}
    BY <1>18 DEF ReplaceVideoChunks, EmbedFailed, AfterEmbed
  <2>2. goal # "retry" => pc' \in {"finish", "requeue", "recheck", "failed"}
    BY <1>18 DEF ReplaceVideoChunks, EmbedFailed, AfterEmbed
  <2>3. UNCHANGED <<video.sum, video.text, video.source, video.blank, video.deep, video.status,
  video.owed>>
    BY <1>18 DEF ReplaceVideoChunks
  <2> QED
    BY <1>18, <1>q, <2>1, <2>2, <2>3 DEF ReplaceVideoChunks
<1>19. CASE RecheckKeep
  BY <1>19, <1>q DEF RecheckKeep, Go, AfterRecheck
<1>20. CASE DropIndex
  BY <1>20, <1>q DEF DropIndex, Go, AfterRecheck
<1>21. CASE RetryRead
  BY <1>21, <1>q DEF RetryRead
<1>22. CASE RetrySave
  BY <1>22, <1>q DEF RetrySave
<1>23. CASE RetryAgain
  BY <1>23, <1>q DEF RetryAgain
<1>24. CASE RetryClear
  BY <1>24, <1>q DEF RetryClear, Rest
<1>25. CASE RetryDefer
  BY <1>25, <1>q DEF RetryDefer, Rest
<1>26. CASE Finish
  BY <1>26, <1>q DEF Finish, Rest
<1>27. CASE FailJob
  BY <1>27, <1>q DEF FailJob, Go
<1>28. CASE Fail
  BY <1>28, <1>q DEF Fail, Rest
<1>29. CASE Interrupted
  BY <1>29, <1>q DEF Interrupted
<1>30. CASE ResetOrphans \/ Unindex
  BY <1>30, <1>q DEF ResetOrphans, Unindex, Go
<1> QED
  BY <1>1, <1>2, <1>3, <1>4, <1>5, <1>6, <1>7, <1>8, <1>9, <1>10, <1>11, <1>12, <1>13, <1>14,
     <1>15, <1>16, <1>17, <1>18, <1>19, <1>20, <1>21, <1>22, <1>23, <1>24, <1>25, <1>26, <1>27,
     <1>28, <1>29, <1>30 DEF Work

LEMMA OwesOthers ==
  ASSUME TypeInv, ReadOnly, InHand, Owes, AtMostOnce, Others
  PROVE  Owes'
<1> USE BoundsAssumption
  DEF Owes, Owed, Cleared, Finished, Coming, TypeInv, RowOK, VideoRows, Write, Exists, Absent,
      Quiet, SameJob, Apart, workVars, jobVars, knownVars, ledgVars, agentVars, purgeVars,
      NotIgnored
<1>q. Queued => Queued' \/ video' = Absent
  BY QueuedOthers
<1>1. CASE TakeCandidate
  BY <1>1, <1>q DEF TakeCandidate, CapStep, CapOnly
<1>2. CASE EnsureRow
  BY <1>2, <1>q DEF EnsureRow, CapStep, CapOnly
<1>3. CASE FetchCaptions
  BY <1>3, <1>q DEF FetchCaptions, CapOnly
<1>4. CASE SetNoCaptions
  BY <1>4, <1>q DEF SetNoCaptions, CapStep, CapOnly
<1>5. CASE CheckClaimed
  BY <1>5, <1>q DEF CheckClaimed, CapStep, CapOnly
<1>6. CASE StoreCaptions
  <2>1. UNCHANGED ledger
    BY <1>6 DEF StoreCaptions
  <2>2. CASE Exists
    BY <1>6, <2>1, <2>2 DEF StoreCaptions, CapStep, NotIgnored
  <2>3. CASE ~Exists
    BY <1>6, <2>1, <2>3, DeletedOwes DEF StoreCaptions, NotIgnored
  <2> QED
    BY <2>2, <2>3
<1>7. CASE SettleCaptions
  BY <1>7, <1>q DEF SettleCaptions, CapStep, CapOnly
<1>8. CASE EnqueueRead
  <2>1. CASE Exists
    BY <1>8, <2>1, InsertQueues DEF EnqueueRead, CapOnly, DlOnly, NotIgnored
  <2>2. CASE ~Exists
    BY <1>8, <2>2, DeletedOwes DEF EnqueueRead, CapOnly, DlOnly, NotIgnored
  <2> QED
    BY <2>1, <2>2
<1>9. CASE RetryCaptions
  BY <1>9, <1>q DEF RetryCaptions, Spend
<1>10. CASE AskDownload
  <2>1. left.downloads > 0 /\ left.downloads \in Nat
    BY <1>10 DEF AskDownload, Spend, OthersOK, Budgets
  <2>2. MaxDownloads = 1 /\ ~Ignores /\ Unasked
    BY <2>1 DEF AtMostOnce, ReadOnly, Unasked
  <2>3. ledger = "pending" /\ video.status # "error"
    BY <2>2 DEF ReadOnly, InboxRow, NotIgnored
  <2> QED
    BY <1>10, <1>q, <2>3 DEF AskDownload, DlOnly
<1>11. CASE SetDownloaded
  BY <1>11, <1>q DEF SetDownloaded, DlOnly
<1>12. CASE StoreTranscript
  <2>1. dl' = "enqueue" /\ UNCHANGED ledger
    BY <1>12 DEF StoreTranscript
  <2> QED
    BY <2>1 DEF NotIgnored
<1>13. CASE EnqueueDownloaded
  <2>1. CASE Exists
    BY <1>13, <2>1, InsertQueues DEF EnqueueDownloaded, CapOnly, DlOnly, NotIgnored
  <2>2. CASE ~Exists
    BY <1>13, <2>2, DeletedOwes DEF EnqueueDownloaded, CapOnly, DlOnly, NotIgnored
  <2> QED
    BY <2>1, <2>2
<1>14. CASE DownloadEnds
  BY <1>14, <1>q DEF DownloadEnds, DlOnly
<1>15. CASE Park
  <2>1. video' = Absent
    BY <1>15 DEF Park, DeleteRow
  <2> QED
    BY <1>15, <2>1, DeletedOwes DEF Park, NotIgnored
<1>16. CASE Ignore
  BY <1>16, <1>q DEF Ignore
<1>17. CASE IgnoreLooks
  BY <1>17, <1>q DEF IgnoreLooks
<1>18. CASE IgnoreDiscards
  <2>1. video' = Absent
    BY <1>18 DEF IgnoreDiscards, DeleteRow
  <2> QED
    BY <1>18, <2>1, DeletedOwes DEF IgnoreDiscards, NotIgnored
<1>19. CASE AskReprocess
  BY <1>19, <1>q DEF AskReprocess, Spend
<1>20. CASE ResetAndEnqueueSummary
  <2>1. CASE UNCHANGED <<video, jobVars>>
    BY <1>20, <2>1 DEF ResetAndEnqueueSummary, Queued, NotIgnored
  <2>2. CASE Exists /\ ~video'.text
    BY <1>20, <2>2 DEF ResetAndEnqueueSummary, NotIgnored
  <2> QED
    BY <1>20, <2>1, <2>2 DEF ResetAndEnqueueSummary
<1>21. CASE SetKeepReads
  BY <1>21, <1>q DEF SetKeepReads, Spend
<1>22. CASE ClaimPurge
  BY <1>22, <1>q DEF ClaimPurge, PurgeOnly
<1>23. CASE ListKept
  BY <1>23, <1>q DEF ListKept, PurgeOnly
<1>24. CASE AskStillOff
  BY <1>24, <1>q DEF AskStillOff, PurgeOnly
<1>25. CASE PurgeKept
  <2>1. CASE purge = "purge"
    BY <1>25, <2>1, DeletedOwes DEF PurgeKept, DeleteRow, NotIgnored
  <2>2. CASE purge # "purge"
    <3>1. UNCHANGED <<jobState, ledger, pc, goal, stopping, cap, dl>>
      BY <1>25, <2>2 DEF PurgeKept, DeleteRow
    <3>2. \/ video' = Absent
          \/ UNCHANGED <<video.sum, video.text, video.source, video.blank, video.deep,
                         video.status, video.owed>>
      BY <1>25, <2>2 DEF PurgeKept
    <3> QED
      BY <3>1, <3>2, <1>q, DeletedOwes DEF NotIgnored
  <2> QED
    BY <2>1, <2>2
<1>26. CASE EndPass
  BY <1>26, <1>q DEF EndPass, PurgeOnly
<1> QED
  BY <1>1, <1>2, <1>3, <1>4, <1>5, <1>6, <1>7, <1>8, <1>9, <1>10, <1>11, <1>12, <1>13, <1>14,
     <1>15, <1>16, <1>17, <1>18, <1>19, <1>20, <1>21, <1>22, <1>23, <1>24, <1>25, <1>26 DEF Others

LEMMA OwesProcess ==
  ASSUME TypeInv, ReadOnly, InHand, Owes,
         RetryFailed \/ RetryFallsDue \/ (\E j \in Jobs : BackoffElapses(j))
         \/ Crash \/ Shutdown \/ Restart
  PROVE  Owes'
<1> USE BoundsAssumption
  DEF Owes, Owed, Cleared, Finished, Coming, TypeInv, RowOK, VideoRows, Write, Exists, Absent,
      Quiet, SameJob, Apart, workVars, jobVars, knownVars, ledgVars, agentVars, purgeVars,
      NotIgnored, WorkerOK, AtRest, OfJob
<1>q. Queued => Queued'
  BY QueuedProcess
<1>1. CASE RetryFailed
  BY <1>1, <1>q DEF RetryFailed, Spend
<1>2. CASE RetryFallsDue
  BY <1>2, <1>q DEF RetryFallsDue
<1>3. CASE \E j \in Jobs : BackoffElapses(j)
  BY <1>3, <1>q DEF BackoffElapses
<1>4. CASE Crash
  BY <1>4, <1>q DEF Crash, Spend, NoAgents
<1>5. CASE Shutdown
  BY <1>5, <1>q DEF Shutdown, Spend
<1>6. CASE Restart
  BY <1>6, <1>q DEF Restart, NoAgents
<1> QED
  BY <1>1, <1>2, <1>3, <1>4, <1>5, <1>6

\* No summary is left without its in-depth text and without a retry that owes it,
\* unless the user ignored the video: for a video whose download is asked for once
\* at most, and not at all if its inbox entry may be ignored. (A second download
\* may bring back a row that the boot sweep passed over as errored, and an approval
\* one whose retry was dropped as ignored: see the README.)
THEOREM InDepthStaysOwed ==
  ASSUME AtMostOnce
  PROVE  Spec => []DeepOwed
<1>1. Init => ReadOnly /\ InHand /\ Owes
  BY NothingCopy, BoundsAssumption DEF Init, ReadOnly, InboxRow, InboxWork, AtRest, InHand, Owes,
    Owed,
    Cleared, Finished, Coming, NotIgnored, Absent
<1>2. TypeInv /\ ReadOnly /\ InHand /\ Owes /\ [Next]_vars => ReadOnly' /\ InHand' /\ Owes'
  <2> SUFFICES ASSUME TypeInv, ReadOnly, InHand, Owes, [Next]_vars PROVE InHand' /\ Owes'
    BY ReadOnlyStep
  <2>1. CASE UNCHANGED vars
    BY <2>1 DEF vars, jobVars, ledgVars, workVars, knownVars, agentVars, InHand, Owes, Owed,
      Cleared,
      Finished, Coming, Queued, NotIgnored
  <2> QED
    BY <2>1, AtMostOnce, InHandWork, InHandOthers, InHandProcess, OwesWork, OwesOthers, OwesProcess
      DEF Next
<1>3. Owes => DeepOwed
  BY DEF Owes, Owed, Finished, Coming, Queued, DeepOwed, Unowed, Live
<1> QED
  BY <1>1, <1>2, <1>3, TypeCorrect, PTL DEF Spec
=============================================================================
