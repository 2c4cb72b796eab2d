# A formal model of peeq

peeq is a self-hosted YouTube library: a Go process over one SQLite file. It scans
channels, puts finds in an inbox, downloads approved videos with yt-dlp one at a
time, fetches captions, writes summaries, answers questions about what it has, and
sweeps old files. The modules here model the places where its goroutines, its
tables, its pages and its users meet: the download queue, the runner every YouTube
request goes through, the queue that reads a video, the scan of a channel, the
channel's own row, a video's watched flag, the files of the library with the links
that lead to them, and one question from its first word to its last frame.

All paths below are relative to `src/backend/internal/` unless they start with `src/`.

## 1. Inventory

Everything runs in one process (`src/backend/cmd/peeq/main.go`): a pool of HTTP
handlers, and long-lived goroutines for the download worker, the scan scheduler,
the caption fetcher, the summarizer, the retention sweeper and a few refreshers.
They share the SQLite tables, a handful of in-memory flags, and the one
`ytdlp.Runner`.

| Component | State | Operations | Talks to | What is hard | What makes it correct |
|---|---|---|---|---|---|
| Download worker (`download/`) | `Worker.mu`: registered job, its cancel flag, `paused`, the cool-off deadline | `Run`, `process`, `complete`, `retry`, `fail`, `park`, `pause`, `settleCanceled`, `Cancel`, `Resume` | job, video, ledger and settings stores; runner; fail monitor | cancels against terminal writes; crash, panic or error between two writes; decisions on a row read long before | an answered cancel holds; job and video commit together; only failures spend an attempt; the queue drains |
| Job store (`jobs/`) | `download_jobs` | enqueue, `ClaimNext`, guarded `Finish`/`Fail`/`BumpAfter`, `Cancel`, `ResetOrphans` | worker, handlers, scan | late writers; deletion by cascade; orphans | at most one running row; an ended job stays ended |
| Video store (`videos/`) | `videos.status`, title, `downloaded_at`, watch state | `Upsert`, `SetStatus`, the enqueue transaction, `Discard`, `Remove`, purge | everybody | an upsert that re-creates a deleted row | no video in flight without a job |
| Queue handlers (`httpapi/`) | none | add by URL, approve, ignore, re-download, cancel, delete video or channel, pause/resume, paste cookie | stores, worker | check in one statement, write in another | no stranded or doubled video |
| Runner (`ytdlp/`) | `busy`, two FIFO lanes, `dispatching`, `lastEnd`, `gap` | `acquire`, `release`, `startDispatch`, `handOff`, held turns, `gates` | worker, scan, captions, refreshers, handlers | giving up as the turn arrives; the fast path beside a sleeping dispatch | serial, spaced calls; clicks first; the turn is never lost |
| Deferred timers (`ytdlp/deferred.go`) | a timer and a verdict | `CallWithCap`, the download's watchdog | worker | the cap firing as the call returns | a verdict that matches what happened |
| Fail monitor and kill-switch (`failmonitor/`, `ytgate/`) | streak counter; `settings.youtube_paused` | `Note`, `Reset`, engage | worker, captions, handlers | a callback after the unlock; a reset in between | engages once per streak |
| Settings (`settings/`) | cookie and its status, switches | typed getters and setters | all | several writers of the cookie status | the status belongs to the cookie stored |
| Scan (`scan/`) and ledger (`channelvideos/`) | `channel_videos.state`, scan marks | listing, probing, `enqueueAuto`, revival, rechecks | stores, runner | three writes without a transaction; half-done rows | a found video is decided once and never lost |
| Caption fetcher (`captionfetch/`) | retry columns of the ledger | fetch, retry ladder | runner, ledger, videos | races with approve, ignore, and the download of the same video | each video captioned once or given up |
| Summary queue (`summaryjobs/`) | `summary_jobs` | enqueue, `ClaimNext`, `Finish`, `Fail`, `RetryFailed`, `ResetOrphans`, the boot sweep `EnqueueMissing` | summarizer, captions, download worker, reprocess | unguarded updates; a job row that hides a video from the sweep | every queued analysis ends; no downloaded video is forgotten |
| Summarizer (`summarize/`) | the row it read, between calls of minutes | `processOne`, `embedAndStore`, `inDepthOne`, `failJob`, `requeueJob` | LLM and embedder, videos, search index | rows read before a call and used after it; best-effort steps nobody retries | an index that fits the row; in-depth text owed until written |
| Search index (`rag/store.go`) | `transcript_chunks`, `vec_chunks`, `fts_chunks`, `videos.embed_rev` | replace, delete, drop | summarizer, purge, ignore | virtual tables outside the cascade | a switched-off channel leaves nothing indexed |
| Keep-reads purge (`httpapi/keep_reads_purge.go`) | `purging` under `purgeMu` | claim, list, ask again, purge one | videos | a list that grows old; a second request during a pass | as above |
| Channel metadata (`channelmeta/`, `channels/`) | the `channels` row, its subscription with two schedules | `ClaimDueMetadata`, `ClaimUnresolved`, `Resolve`, `settle`, page resolve, Refresh, add, star | runner, scan, handlers | five writers that read the row, wait for a turn, and write; a delete under them | each channel read once per reason, and read at all |
| Retention (`retention/`) and the library's files | the list of a running sweep; the tracker of open streams; rows, files | sweep, delete, re-download, `purge`, `PurgeKept` | videos, playback, disk | row and file in two steps; a list that grows old; a file that arrives during a delete | a listed file exists; what was restored stays its time; old files go |
| Playback, grants, share links (`playback/`, `playbackgrant/`, `sharelink/`) | the now-playing pointer, tokens | open, stream, mint, share, stop, resolve | videos, public pages | a link outliving its video, or reborn with it | a dead link answers nothing again |
| Watched state (`videos/store_watch.go`, the player page) | watched flag, resume position, `state_version` | toggle, ping, flush, read again on conflict | two tabs, server | pings, toggles and refetches that overtake each other | no position is written over a decision its page has not seen |
| Search and answers (`rag/`, `httpapi/answer_*`, `mcpserver/`) | none; one request reads for seconds | understand, resolve channels, ladder, vector lanes, fuse, choose, stream | index, model, embedder | each of six calls may fail; a video deleted between two reads; an asker who leaves | what is quoted is listed; a constraint is honoured or its loss is told; "nothing" means nothing |
| The rest (SponsorBlock, media probe, LLM client, MCP protocol and tokens, activity, migrations, the other pages, extension) | rows of their own | periodic idempotent refreshes or request/response | stores | little shared mutable state | plain data |

`PROJECT.json` lists every component with its status, and every hazard at its line.

## 2. Modules

| Module | What it is |
|---|---|
| `JobLifecycle` | abstract: what a job table promises (a job waits, runs alone, ends once) |
| `DownloadQueue` | the worker, its tables, the handlers, the scan's automatic enqueue, crash and restart |
| `MCDownloadQueue` | its model values for TLC |
| `DownloadQueueProofs` | types, the single lane, cancels, discards and stranded videos, and `DownloadQueue` implements `JobLifecycle`, proved |
| `SummaryPipeline` | captions, summary queue, summarizer, index, and the ignore, download, reprocess and keep_reads switch that race with them |
| `SummaryPipelineProofs` | its types, the lane of its queue and its four safety promises, proved |
| `Throttle` | abstract: one YouTube request at a time and a gap after each |
| `YtTurn` | the runner's turn queue |
| `MCYtTurn`, `YtTurnProofs` | its model values; turn accounting, clicks first, and `YtTurn` implements `Throttle`, proved |
| `ChannelScan`, `MCChannelScan` | the scan of one channel: claim, two tabs, ledger, rechecks, backoff, the dead-channel rule; its model values |
| `ChannelMeta`, `MCChannelMeta` | the channel's own row: who reads it from YouTube, when, and who writes what came of it |
| `ChannelScanProofs` | the five safety promises of the scan, proved |
| `ChannelMetaProofs` | the two bounds on the calls for a channel's row, proved |
| `Watch`, `MCWatch` | the watched flag and the resume position between pages, network and server |
| `WatchProofs` | `NoStaleWrite`, proved |
| `Library`, `MCLibrary` | the sweep, deletes, restores and purges of downloaded videos, their files, and the player, grants and links |
| `LibraryProofs` | dead links, restored videos and the file behind a downloaded row, proved |
| `Retrieval` | operators: ladder, lanes, fusion, excerpts, coverage |
| `Ask`, `MCAsk` | one question, step by step, over `Retrieval`; the MCP server's search |
| `AskProofs` | the types of a question and its four promises, proved; what the operators of `Retrieval` return |

### 2.1 `DownloadQueue` and the code

An action is one SQL statement or transaction, one critical section of
`Worker.mu`, or one outside event; anything another goroutine can do may happen
between any two.

- **Tables.** `jobState`, `jobVideo`, `attempts`, `prio`, `backoff` are
  `download_jobs`; ids are allotted in order (`InsertJob`), "none" is an id not
  allotted yet, "gone" a row deleted with its video. `status`, `titled`, `had` are
  `videos` (status, has a title and a channel, has a `downloaded_at`); `ledger` is
  `channel_videos.state`. `cookie` and `ytPaused` are two settings.
- **The worker.** `pc` names the point between two atomic steps of
  `Worker.Run`/`process`/`outcome.go`: "claimed", "read", "check" (preflight),
  "meta…"/"media…" (a runner call: gates, running, returned), "save", "start",
  "complete", "retry", "fail", "park"/"parkWrite"/"discard" (a walled-off video),
  "markErr", "pauseCookie"/"pauseFlag"/"pauseBump", "requeue", "settle"/"settleVideo",
  "leave". `cur` is the local `job`, `reg` and `cancelReq` are the registration and
  the flag under `Worker.mu`, `snap` what the local copy of the video row says.
- **Guarded writes.** `Guarded` is the `UPDATE … WHERE state = 'running'` of
  `Finish`, `Fail` and `BumpAfter`, with its three ends: written, `ErrNotRunning`,
  any other error (logged, and the worker goes on).
- **Handlers.** Those that enqueue read a row, decide, and write in a later
  statement; `clicked` holds the requests in between. A channel delete reads the
  jobs (`doomed`), cancels them one at a time, then deletes. A cookie paste stores
  first and resumes the worker second (`paste`).
- **Cancel.** `CancelJob` has the three ends of `Worker.Cancel`: the flag, the
  store, nothing to cancel. The store write runs after the lock is released, so it
  may hit a job that has been claimed and registered meanwhile.
- **Scan.** `ScanAuto` is `enqueueAuto` and the ledger write that follows it, one
  write per step (the reads before the first write are part of it).
- **Failure.** `Crash` ends the process at any point and keeps the tables;
  `Shutdown` cancels the context, which the worker notices where the code looks at
  it; `Fault` is a failing statement, at the points where the code handles one;
  `Panic` is `safely`'s recover.
- **History.** `acked` holds the jobs whose cancel was answered with true. A death of
  the process forgets the ones only memory held: the code persists no cancel flag.

What is abstracted: "rejected" stands for both a stale and a blocked cookie; the
host-refused error is an "error"; whether a failure trips the kill-switch is
nondeterministic (the streak is a later module); the low-disk gate, an anonymous
(cookie-less) configuration, file staging, argument lists, transcript, poster,
probe and summary of a finished file are left out; `Kept` stands for the
channel's `keep_reads`; there is one channel; an enqueue transaction that fails
is a request never made. The bounds are `MaxJobs`, `MaxRequests`, `MaxCrashes`,
`MaxShutdowns`, `MaxFaults` and `MaxPanics`, guards of the actions they count.

### 2.2 `YtTurn` and the code

`busy`, `dispatching`, `interactive`, `background` are the fields of
`ytdlp.Runner`. Time is not counted: `owed` is "now is before `lastEnd + gap`", the
condition the code computes; `close` is the truth it has to respect (a process
exited less than a gap ago), and `GapElapses` ends both. `at` places each call:
"idle", "queued", "fast" (took a free turn), "given" (its channel is closed),
"turn", "run", "within" (between the two requests of a held turn), "again",
"rerun", "leave". `ran` is the local `ran` of a release, `over` a context that has
ended, `shut` a gate that refuses. `passed` is history: background turns used while
an interactive call waits. Image fetches and yt-dlp processes are the same call; a
cookie file that cannot be written is a refusal.

### 2.3 `SummaryPipeline` and the code

One video, because nothing in this pipeline relates two of them but the order of
the queue; the races are between the goroutines that write its row.

- **The row.** `video` is a record of the columns that decide something: `status`
  ("queued" stands for downloading, too), `sum` (`summary_status`), `text` and
  `keyed` (a summary, key points stored), `current` (`embed_rev` is the recipe's:
  `Indexed`), `source` and `blank` (of the transcript; blank is one
  `prepareTranscript` finds nothing in), `deep` and `owed` (`video_in_depth`,
  `in_depth_retry`), `index` (the kinds of analysis among its chunks). `Write` is an
  UPDATE: nothing happens without the row. `DeleteRow` is the cascade, and
  `stranded` remembers that it took chunks whose vectors stay.
- **The queue.** `jobState`, `tries`, `later` are `summary_jobs`, `later` the jobs
  whose `next_attempt_at` lies ahead. `Fail` and `Finish` are the unguarded updates
  by id.
- **The worker.** `pc` is the point in `Run`/`processOne`/`inDepthOne`: "boot",
  "missing", "backfill" (the three sweeps), "claimed" … "finish"/"fail"/"requeue"
  (a job), "retry…" (an in-depth retry). `saw` is the local `video` and
  `transcript.Source`, never refreshed where the code does not; `hand` is what
  `embedAndStore` read before its call, `goal` the caller it embeds for.
  A model or embedder call is the step that chooses how it ended; the write
  that follows is a step of its own, so everything can happen in between.
- **The others.** `cap` is the point in `captionfetch`'s `pass`, `dl` the part of
  `succeed` after `complete`, `ign` the part of an ignore after the ledger
  write, `redo` a reprocess that has passed its checks, `purge`/`kick`/`rerun` the
  keep-reads purge, its requests and its second pass.
- **The process.** `Crash` forgets everything but the tables; `Shutdown` cancels
  the context: calls fail, and the worker returns where `interrupted` is asked.

Left out: categories and their sweeps, failing SQL statements, panics, an
unreadable transcript, chapters supplied by yt-dlp, deletes and tombstones of
the video, `auto_summary` (taken as on), an approval of a video already in the
pipeline. Only the kinds of chunk are modelled, not their texts.

### 2.4 `ChannelScan` and the code

One channel, one scan loop. `added` and `sub` are the two rows, `ledger` is
`channel_videos.state`, `stamped` an `unavailable_at` inside its window, `vid` and
`jobs` the videos row and its live jobs. `pass` is the `*Subscription` that `ClaimDue`
returned: never read again, which is what most properties are about. `pc` is the
point in `scanChannel`/`scanOnce`: "uploads" and "streams" before each tab's call,
"blind" when the first call could not be understood, "loop" at an entry, "probe" at
an availability check, "row", "job", "record" at the writes of `enqueueAuto`, which
fail or are cut off one by one. `known` and `parked` are the ledger rows read before
the loop, `listed` what the listing returned. Instants are "now", "hour" (a
backoff) and "slot" (the next cycle). `NewState` is the switch of `scanOnce` in its
order; `FailPass` is the end of a failed pass by its kind. YouTube is `up`, `live`,
`walled`, `aged` (beyond the listing's cap) and `dating`: the field a listing dates an
upload by, its timestamp, its release (for a broadcast the start) or none. `Early` are
the uploads published, and the broadcasts begun, before the baseline by more than
`backCatalogueGrace`; `missed` are the old uploads an inherited baseline never listed.
Left out: other channels and the spacing between them, the fail monitor, the
dev-only anonymous hatch, posters and activity rows.

### 2.5 `ChannelMeta` and the code

`at` places seven actors: the weekly worker, a page visit, the resolve it starts,
the Refresh button, a pasted link, the star, and the preflight of a download, whose
video and channel row are two writes of which the second may fail and leave a channel
with videos and no row. `held` is what each had read of the
row when it went to wait for a turn; `Get` is the reading. `row.res` stands for
`resolved_at` and `resolve_ok`, `sub` for the two schedules as `scanQuietPredicate`
compares them. `RecordAttempt` is `recordAttempt`: a failure marks the row, or makes a
bare one, by what was held. Left out: the metadata itself and
the pictures, but for the time they take.

### 2.6 `Watch` and the code

A request is sent, served, and its answer adopted, in three steps that others
overtake; `net` holds what is under way. `SetWatched` and `SetResume` are the store's
functions with the version check; the page is `useResumeSync.ts` and the toggle and
conflict handler of `Player.tsx`, because the check is only as good as the version a
page echoes. Only a position write echoes it, and only the button notices that its
request was lost. A page `plays` or not: it pings only while it plays past any jump,
stops at the button, at the end and on a conflict that says "watched", and flushes
its position when it is hidden or left. `knows` and `turns` are history. The playhead
is whatever the person does, so any position may be sent.

### 2.7 `Library` and the code

A delete is two steps, row and file, of the actor that runs it (`work`): the sweep,
through the list `left` it read when it began, or a person. `Tombstone`, `Purge` and
`Remove` are the store's functions, `Revoke` what they do to a link, `Candidate` the
WHERE of `SweepCandidates`. Time is one bit a video: watched longer ago than
`retention_days` or not. `active` is the tracker. `FileArrives`/`DownloadCommits` are
the end of a download, whose file is moved into place before its row says so.
`dead`, `restored` and `torn` are history. `MaxEvents` bounds requests, faults and
crashes together.

### 2.8 `Retrieval` and `Ask` and the code

A chunk is its number in `Index`; what the question has to do with it is data
(`meaning`): the first rung that matches it and two distances in hundredths. The
weights are the code's, and a score is a whole number because 1/(60+rank) is
scaled by a common multiple (`Unit`). A list that the code sorts is a set in an order
(`InOrder`: each member's place is the number of those before it), and a loop that takes
the first few of a list under a condition is the set of members with few enough of them
`Sooner` in it (`TakePass`, `CoverageVideos`, `GroupHits`). `Ask` is `handleAnswer` with `askLanes` inlined:
`step` is the next thing it does, `pass` 2 the search without the filter, `keyword`,
`vectors`, `semantic` how the lanes ended, `frames` what was sent. `Fails` is a call
that fails, which costs one of `MaxFaults` unless the asker is gone (a cancelled
context fails every call for free). `Reads` is `videoLookup`: an error is not
remembered, a row once read is. "watched" stands for every constraint on a video.
Left out: prompts, snippets, chapters in excerpts, diagnostics, the MCP tool's
keyword-only mode, and the interactive search page but for its grouping.

## 3. Runs

| Run | Instance | Distinct states | Shows |
|---|---|---|---|
| `Cancels` | one approved and one autodownload video, cancels, deletes of a video and of the channel, one crash | 1.9 million | an answered cancel is never lost (`CancelHolds`) or misdirected (`OnlyAskedCancels`), at most one row runs (`AtMostOneRunning`), the worker leaves no cancelled video in flight (`CanceledVideoIsReleased`), jobs follow `JobLifecycle` (`JobsKeepTheirPromise`) |
| `Gates` | two approved videos, one also pasted, kill-switch and cookie, a video delete, two overlapping requests | 1.7 million | no video is stranded (`NothingStranded`) |
| `Faults` | a video pasted, approved or found by an autodownload scan, two jobs, cancels, two failed database calls, one panic | 2.0 million | the budget of attempts (`BudgetKept`), a discarded row is remembered (`DiscardLosesNothing`) |
| `Drains` | fair; one video, gates, cancels, one crash, one shutdown | 86 thousand | waiting jobs end once the gates stay open (`QueueDrains`), answered cancels are settled (`CancelSettles`) |
| `Turns` | fair; two clicks, two background calls, one a two-request download | 16 thousand | serial and spaced calls (`ThrottleKept`), the turn accounted for (`TurnAccounted`), clicks first (`PersonFirst`) and served (`PersonServed`) |
| `Reads` | fair; an inbox read, two attempts, one caption attempt, ignore, keep_reads off and on, one retry, one shutdown | 512 thousand | nothing stays indexed after a switch-off (`SwitchOffHolds`), queued analyses end (`SummarySettles`) |
| `Analyses` | a read, a download and a reprocess, two jobs, one crash, blank transcripts | 3.2 million | the queue forgets no downloaded video (`NothingForgotten`), a current index has the chapters of the row (`IndexHasChapters`), the in-depth text stays owed (`DeepOwed`) |
| `Scans` | fair; an old stream and a broadcast begun long before the baseline that ends later and can be walled off, dated by timestamp, by start or not at all, one probe a pass, two dead verdicts, one disturbance of any kind | 376 thousand | the back catalogue stays out (`OldStaysOut`), a new upload is not buried but in one known case (`NewIsNotBuried`), is offered (`UploadIsOffered`), and comes back from behind a wall (`ParkedComesBack`); requests are answered (`RequestIsAnswered`) and not by another pass (`OtherRequestSurvives`); no listing without a reason (`NoHammering`); only dead verdicts in a row unsubscribe (`DeadOnlyInARow`) |
| `ChannelRows` | fair; one channel, seven actors, three clicks, deletes, faults, outages or restarts | 736 thousand | the worker calls once per reason (`NoHammering`), visits do not multiply calls (`PageCallsBounded`), what is due is read (`MetadataIsRead`) |
| `Players` | fair; two pages, one press, one loss, two messages at once | 833 thousand | no accepted ping is older than the last decision (`NoStaleWrite`), a page that was overtaken and plays on catches up (`StalePageCatchesUp`) |
| `Sweeps` | fair sweep; two old videos, three requests, faults or crashes | 993 thousand | what the library shows has its file (`DownloadedHasFile`), a re-downloaded video has its time (`RestoredIsKept`), dead links stay dead (`DeadLinkStaysDead`), old files are reclaimed (`AgedIsReclaimed`) |
| `Questions` | four videos of two channels, six replies of the model, mixtures of five sorts of match, one failed call, one deletion, an asker who leaves | 2.1 million | what the model was shown is listed (`ShownIsListed`), breadth before depth (`BreadthKept`), a constraint is honoured or its loss told (`HonouredOrTold`), an empty MCP list says why (`NothingMeansNothing`) |

**Bounds.** Two videos and two jobs are enough for one job to overtake, shadow or
be mistaken for another, and for two jobs of one video; two attempts give a first
failure that requeues and a last one that fails. One crash, shutdown or panic can
strike at any step, and so can two failed calls; the hazards listed need one. `MaxRequests` 2 lets two
requests pass their checks before either writes.

In `Scans` one disturbance is enough for each hazard: a scan is long, and the disturbance
may fall between any two of its steps and be followed by any number of clean passes. Two
uploads give one of before and one of after, both on the tab a baseline may have missed,
and one probe to compete for. A request's number is what is left of the bound when it is
made, so two requests differ. The old stream and the broadcast are both `Early`, since
what is younger than the grace is never judged by its date; two datings give a listing
that dates both, the broadcast by its start, and one that dates only the broadcast. In
`ChannelRows` three events make a delete, a re-creation and a second writer; one resolve
of the page runs at a time, as in the code, and its calls are counted since the last
delete, restart or answer that could not be stored, up to one past the bound. In `Players`
two messages under way are the least that can overtake each other, and two pages the least
that can disagree. In `Sweeps` two videos make the sweep's list older than its second
entry; three events make a delete, a restore and a crash. In `Questions` the code's limits
are small (three sources of which two for breadth, three videos listed, six hits kept) so
that lists overflow with four videos and seven chunks; a comparison, an unknown name, a
name two channels answer to and a count are among the replies.

**What the instances leave out.** `Cancels` has neither gates nor pasted videos, because
the code breaks `CanceledVideoIsReleased` with the first and `CancelHolds` with the second
(section 6). `NothingStranded` is checked without crashes and cancels (the crash between
two writes and the cancelled pending job do strand a video), `AtMostOneRunning` without
failed calls and panics (a panic leaves its row running), `DiscardLosesNothing` without
channel deletes (which remove ledger and rows on purpose). `SwitchOffHolds` speaks of
reads nobody asked to download: the purge leaves an approved video alone, and one whose
download was cancelled keeps its index. `Analyses` has no ignore, because the code breaks
`OnlyReadsDropped` with one, and one download, because it breaks `DeepOwed` with two and a
crash; `IndexHasChapters` itself speaks of the first download that was asked for (section
6 on both). `MaxJobs` also stops inserts, so the last analysis of a run of events may be
missing; two jobs let one be queued while the other runs. `OldStaysOut` excepts a channel
deleted and added again under a running pass, what a person adds by hand, and what a
baseline made by an older release (or from two unreadable tabs) never listed and the date
does not tell apart, because there is none or it lies within the grace: those uploads are
offered, as the comment on `isBackCatalogue` accepts. `NewIsNotBuried` excepts a settled
broadcast begun long before the baseline and dated by its start. `ShownIsListed` and
`BreadthKept` except a comparison of two channels, the first also a full list after reads
that failed, `DownloadedHasFile` a delete that met the end of a download, `HonouredOrTold`
a channel directory that failed: section 6 says what happens there.

**Stopping.** Deadlock is checked where the system always has something to do. It is
not where the bounds let it end: `SummaryPipeline` (a queue with nothing left),
`ChannelScan`, `Watch`, `Library` (events used up), and `Ask` (a question ends).

**Fairness.** `Worker`: the loop waits for nothing but its gates, and each call
it makes is bounded by the download's watchdog, the metadata cap and
`maxCallRuntime`. `Boot`: the container is restarted. `CoolOffEnds`, `BackoffElapses`, `GapElapses`:
clocks. In `SummaryPipeline`: the worker loop, the restart, backoffs; a call may
fail every time. In `YtTurn`, goroutines
are scheduled and processes end. Nobody is obliged to
click, call, cancel or open a gate there, and only weak fairness is used.

`ChannelScan`: the loop, the clocks, a stream that ends, and the repair of cookie or
switch, without which no scan ever runs again. Strong
fairness of the two listings that answer: a channel whose every
listing fails is not promised anything. `ChannelMeta`: calls return, artwork is
fetched, the gates are repaired, scans move on; strong fairness of `Claim`, which the
scan's instants disable and enable again. `Watch`: what was not lost is served
and adopted or ignored; strong fairness of `Ping` of a page that plays, because the
bound on messages under way, not the page, keeps disabling it. `throttledPing` runs
from timeupdate and not under a jump, so nothing is assumed of a page that is paused
or was jumped into, and nobody has to play: `StalePageCatchesUp` promises nothing to
a page that stops. `Library`: only the sweep's ticker and its own
steps. `Ask` has safety only.

## 4. Proofs

| Theorem | Statement | Assumes |
|---|---|---|
| `DownloadQueueProofs!TypeCorrect` | `Spec => [](TypeOK /\ BudgetKept)` | the named assumption on the constants |
| `DownloadQueueProofs!SingleLane` | `Spec => []AtMostOneRunning` | also `MaxFaults = 0`, `MaxPanics = 0` |
| `DownloadQueueProofs!CancelsAreAsked` | `Spec => []OnlyAskedCancels` | the named assumption |
| `DownloadQueueProofs!CancelsHold` | `Spec => []CancelHolds` | also `MaxFaults = 0`, `MaxPanics = 0`, `Pasted = {}` |
| `DownloadQueueProofs!CanceledVideosReleased` | `Spec => CanceledVideoIsReleased` | also `MaxFaults = 0`, `MaxPanics = 0`, `MaxShutdowns = 0`, no gates |
| `DownloadQueueProofs!DiscardsLoseNothing` | `Spec => DiscardLosesNothing` | also no channel deletes |
| `DownloadQueueProofs!NothingIsStranded` | `Spec => []NothingStranded` | `Stays`: no faults, panics, crashes, cancels or channel deletes, pasted videos kept, shutdowns only without automatic enqueues |
| `DownloadQueueProofs!Refinement` | `Spec => JobsKeepTheirPromise` | as for `SingleLane` |
| `YtTurnProofs!TurnNeverLost` | `Spec => []TurnAccounted` | the lanes are disjoint |
| `YtTurnProofs!Serial` | `Spec => ThrottleKept` | the same |
| `YtTurnProofs!PeopleFirst` | `Spec => []PersonFirst` | the same |
| `SummaryPipelineProofs!TypeCorrect` | `Spec => []TypeInv /\ []TypeOK` | the named assumption on the bounds |
| `SummaryPipelineProofs!DownloadsAreHeardOf` | `Spec => []NothingForgotten` | the same |
| `SummaryPipelineProofs!SwitchOffIsCarriedOut` | `Spec => []SwitchOffHolds` | the same |
| `SummaryPipelineProofs!CurrentIndexHasChapters` | `Spec => []IndexHasChapters` | the same |
| `SummaryPipelineProofs!InDepthStaysOwed` | `Spec => []DeepOwed` | also `AtMostOnce`: no download, or one and no ignore |
| `SummaryPipelineProofs!OneAnalysisAtATime` | `Spec => []OneAtATime`: at most one running row | the named assumption |
| `SummaryPipelineProofs!EndedAnalysesStay` | `Spec => EndedStays`: a done analysis is not reopened, a failed one only by a person | the same |
| `WatchProofs!WatchStaysDecided` | `Spec => []NoStaleWrite` | positions and the duration are natural numbers |
| `LibraryProofs!RevokedForGood` | `Spec => []DeadLinkStaysDead` | the bound is a natural number |
| `LibraryProofs!RestoredForItsTime` | `Spec => []RestoredIsKept` | the same |
| `LibraryProofs!RowFirstIsSafe` | `Spec => []DownloadedHasFile` | the same |
| `ChannelScanProofs!ListedForAReason` | `Spec => NoHammering` | the named assumptions on the constants |
| `ChannelScanProofs!GivenUpForDead` | `Spec => DeadOnlyInARow` | the same |
| `ChannelScanProofs!LaterRequestIsKept` | `Spec => OtherRequestSurvives` | the same |
| `ChannelScanProofs!OldNeverOffered` | `Spec => []OldStaysOut` | the same |
| `ChannelScanProofs!BroadcastNotBuried` | `Spec => NewIsNotBuried` | the same |
| `ChannelMetaProofs!CalledForAReason` | `Spec => NoHammering` | the bound is a natural number |
| `ChannelMetaProofs!PageCallsAreBounded` | `Spec => []PageCallsBounded` | the same |
| `AskProofs!TypeCorrect` | `Spec => []TypeOK` | the named assumptions: finitely many videos, an index of them, and limits ordered as the code's are |
| `AskProofs!WhatIsShownIsListed` | `Spec => []ShownIsListed` | the same |
| `AskProofs!BreadthIsKept` | `Spec => []BreadthKept` | the same |
| `AskProofs!QuestionsAreHonoured` | `Spec => []HonouredOrTold` | the same |
| `AskProofs!AnEmptyListMeansNothing` | `Spec => []NothingMeansNothing` | the same |

`TypeOK` of the download queue is not inductive: the count of a job that is requeued
stays within 0..`MaxAttempts` only because a live job has an attempt left
(`BudgetKept`) and because `cur` is a job wherever the worker touches one.
`AtMostOneRunning` needs the lane: a row is running only if it is `cur` and the
worker is at a point between claim and terminal write (or the process is down or
booting, when the row is the dead process's), so that a claim finds none. With
failed writes or panics the worker returns to its loop over a running row and the
lane does not hold; hence the assumption. The refinement uses both invariants and
goes action by action: every step is a step of `JobLifecycle` or leaves its
variables alone.

A cancel that is answered is a promise about a job the worker may have in hand, and
about the copy of its video row the worker read long before. `InHand` says what can be
relied on whatever fails: a job row has its videos row, the job in hand is never back
in the queue before the worker has decided about it, a raised flag was answered and
only such a job is settled, what an empty copy and a copy without "had" still tell,
and that only a pasted video lacks a title. When nothing fails, a copy is empty only
if the row went, job and all, and each later write meets the job where the one before
left it (`Settled`); then the worker always looks at a raised flag before a terminal
write (`FlagIsRead`). That needs `Pasted = {}`, because the preflight of an untitled
video writes its outcome without looking at the flag, and no failed statement, because
a failed settlement leaves the row running. `CanceledVideosReleased` excludes gates
and shutdowns (`GatesOpen`): through both, a worker that was cancelled may leave by a
path that does not settle the video. A discard finds a ledger row (`Remembered`),
since the only step that removes one is the delete of a channel.

`NothingIsStranded` is the widest of them: every video that claims to be on its way
has a live job, or is between two writes of the worker, which has a copy of its row,
or of the scan (`Covered`). A job in hand disappears only with its row, purged; the
purge leaves the ledger settled, so that no scan brings the row back behind the
worker, and a person who does brings a job along (`PurgedInHand`). `Stays` leaves out
what does strand a video in the code: a crash or a failure between two writes, a
cancel of a waiting job or one that beats a requeue (section 6), a shutdown that cuts
an automatic enqueue in two, a channel or a pasted, unkept video deleted under the
worker.

For the runner, the invariant says who holds the turn when `busy`,
that `dispatching` excludes it, that waiting calls have one or the other, that a call
is in the lane its place says, and that `close` is covered by `owed` or by the holder.
`PersonFirst` becomes inductive with who can still be ahead (`First`): a click that waits
stands in its lane (`InLane`), so a dispatch goes to nobody else, and once one background
turn has passed it, no background call has a turn left from before it queued (`Ahead`).

For `Watch`, that a request carries the row's version says nothing by itself about
what its sender has seen. The missing fact is that the version counts decisions: it
is one more than their number on the row, on every page and in every message that
carries one (`VersionsCount`); it rests on what the page adopts and echoes as much as
on the server's bump. For `Library`, `LinkInv` says that a dead token is on no video and
that tokens are handed out once; `RowInv` that a video restored by the button is
either not downloaded, or downloaded with its watched mark reset or young, so that
no step but the clock makes it a candidate, and the clock ends its period; `WorkInv`
that a delete in progress has a video to delete. `FileInv` is the order of a delete:
whoever has still to unlink a file has first made the row something else, or a download
came between and the delete was overtaken; what a crash leaves behind is never about to
unlink.

For `ChannelScan`, a claimable row with no reason left (`earned` false) is the one the
running pass is about, with the request that pass has seen (`EarnInv`): so every way a
pass ends, or is interrupted, moves the row out of reach or meets a reason. `DeadInv`
bounds the row's counter by the verdicts in a row. `OldNeverOffered` speaks of the
old uploads `OldStaysOut` does not except, and needs what the loop knows: a first pass
has both tabs or does not reach its loop (`OldListing`); it has made 'seen' every old
one that has left its list, and calls the channel baselined only when the list is
empty (`OldLoop`); from then on what a listing can still return of them is in the
ledger or is caught by its date (`OldBase`). That an old upload is walled off changes
nothing in that: 'seen' is decided before the listing's badge is looked at, and
what the ledger has as 'seen' is never looked at again.

For `ChannelMeta`, while the worker is idle and has no reason, the row is not
never-read and the subscription not due (`Settled`): every end of a call goes through
`settle`. The page's calls are counted together with the visitor who read the row
before it was settled and has yet to decide (`CallsCounted`); the count alone is not
inductive. Without a row a failed call of a visitor from before the delete marks
nothing, and is counted; a call started with no row in hand (`Marking`) makes
one, however it fails, and a late visitor may still start one more: hence three.

For `SummaryPipeline`, the worker acts on rows read minutes ago, and each theorem
rests on what such a copy still says about the row. `Heard`: past the boot sweep, a
downloaded video without any job row has been analysed, and the worker holds no job
that could undo that. `ReadOnly`: until somebody asks for the download, the row, the
worker's copy and what it embeds for are those of an inbox read (`InboxRow`,
`InboxWork`); so every such embed looks at keep_reads again, and an index a
switched-off channel still has is met by a purge asked for or under way, or by a
worker about to look at the switch (`Purging`). `Known`, `ReadAgain`, `Indexed`: only
the worker writes key points, so between its read of the row and its writing of new
ones it knows of those there are, and while the first download lasts a copy that takes
the row for an inbox read is older than them; therefore what marks an index current
over key points has built it with chapters.

`Owed`, `Cleared`, `Coming`: a finished summary without in-depth text is owed one by a
retry, or a sweep, a job that waits, the job in hand up to its in-depth step, or a
transcript about to be queued will see to it; a retry is cleared only when that is so
or the text is there. `InHand` and `Lane` are the queue's counterpart of the download
queue's lane. Its updates by id are not guarded, so the lane is all that keeps an
ended analysis ended; it holds across crashes, because the boot resets before it
claims.

For `Ask` the first half of the proof is about lists. A place in an order is a number of
members, so that every place is taken is a fact about injections of finite sets
(`EveryPlaceIsTaken`), not an induction; from it, a list is its set in its order without
repetition, its first few are as many as they say, and those it leaves out have that
many before them (`FirstPlaces`). Hence what the loops of the code give: the
first pass over the hits quotes as many videos as there are up to the breadth, the
second never takes one back, and the best hit is in the first; a video that coverage
leaves out had a full list of better ones. The limits matter: the excerpts fit on the
list only because `AnswerMaxSources` is at most `CoverageMaxVideos`.

The second half carries those facts along a question. `Understood`: the filter is the
one the reply asks for. `Kept`: lanes and list obey it until the search is widened, and
then `relaxed` is set. `Told`: a note that is due goes out before a word is written.
`Marked` and `Reserved`: a call that failed for the MCP tool has left a mark on a lane,
and a list with such a mark is never called empty without a note. `Descended`: where no
rung failed, each rung up to the present one has what it matches in the lanes, or
the ladder ended with enough videos; of those, deletions account for no more than were
counted (`DeletesCounted`), which is why `NothingMeansNothing` has its exception.

TLC alone checks the rest: the ten liveness properties, which need fairness and are out of
the proof system's reach. Every safety property of a run is stated by a theorem. What
remains of the instance is in the assumptions above, and the deletions in
`NothingMeansNothing`: in `Questions` a library of seven chunks can fill the limit of
six, so the run checks its last part without deletions, and the theorem with them.

## 5. Mutants

Each property of a passing run has a variant of an operator ("Variant:" in the
modules) with a plausible bug: a write without its guard, a boot that skips its
recovery, an off-by-one in the budget, a release that forgets the gap. TLC refutes
the property under it.

## 6. Disagreements found

Some comments of the code say something the code does not do. The claims that
could be written down as formulas are definitions of the modules, commented "does
not hold" or with the claim they quote; no run lists them, since the runs are those
of the questions the code answers with yes. A run that adds the definition shows
its counterexample:

- `DownloadQueue!CancelHolds` with `Pasted` videos: a cancel answered with true during a
  preflight failure is lost;
- `DownloadQueue!PasteResumes`: a cookie pasted just before the pause it answers leaves
  the worker paused;
- `SummaryPipeline!DownloadedIsAnalysed`: a video read in the Inbox, downloaded, and caught
  by a kill before its summary is queued is missed by the boot sweep, whose criterion
  ("no job row", summary not done) its earlier read already fails;
- `SummaryPipeline!VectorsHaveChunks`: an indexed read that is approved and then walled off
  is discarded with its chunks, and its vectors stay. The rowids are reused, so a
  later embed may find its vector's place taken;
- `SummaryPipeline!OnlyReadsDropped`: the in-depth text of a video that was ignored and later
  added by URL is dropped after its first failure, although it was downloaded;
- `Library!PasteIsKept`: a deleted video that is pasted again keeps its old watched mark
  (`httpapi/downloads_handlers.go:183` does not restart the clock that the comment in
  `videos/store.go` says a restored file needs), so the next sweep takes it;
- `ChannelScan!BroadcastIsNotBuried`: the comments on `isBackCatalogue`
  (`scan/listing.go:196-201`) and on the order of the cases (`scan/pass.go:149-151`) say
  that a broadcast which settles into a VOD is not lost by its start date; one that the
  listing dates by its start alone (`ytdlp/channel.go:282`) and that began more than
  three days before the baseline is called 'seen' by the first pass that meets it settled;
- `ChannelScan!HalfDoneIsCaught`: a pass that fails between the row and the job of an
  automatic enqueue leaves a video that every later scan takes for handled
  (`scan/pass.go:203-208` says a later pass catches it);
- `ChannelMeta!SubscribedImpliesAdded` (`channels/store.go:9`,
  `httpapi/channels_handlers.go:896`): a paste whose `MarkAdded` met a delete subscribes a
  channel that is not added;
- `Ask!ComparedIsListed` (`httpapi/answer_handlers.go:425`): in a comparison the summary pass
  and the two others may quote a video that the coverage, full of better ranked
  ones, does not list (with `AnswerMaxSources` 2, `AnswerMaxSourcesPerVideo` 1 and
  `CoverageMaxVideos` 2, for example).

More were met and are not written down as properties:

- an MCP search whose keyword ladder stopped early, because it had found videos enough,
  says that nothing matches, without a reservation, when all of those are deleted
  before the list is made, although a looser rung was never tried
  (`httpapi/mcp_library.go:246`): the exception of `NothingMeansNothing`;
- a second "Scan now" during a pass that answers a first one is swallowed when both
  fall in one second: the marker is an instant (`channels/store.go:970-977`);
- a delete that meets the end of a download of the same video takes the new file;
- the list of a running sweep is not asked again: a video brought back meanwhile is
  deleted with the rest, and `PurgeKept` does the same with one re-downloaded
  (`videos/store_purge.go:197`);
- a channel named in a question is dropped without a word when the directory cannot
  be read (`httpapi/resolve_channel.go:65-78`), and the note of a relaxed filter says
  "nothing matching" when the narrow search merely failed;
- a share link can be minted for a tombstoned video; it serves the page without the file;
- a subscribe leaves the `auto_unsubscribes` record of an earlier automatic
  unsubscribe behind;
- a channel deleted and added again under a running pass is finished with the old
  row's baseline, and its back catalogue may be taken for new;
- an un-watch is not as sticky as `videos/store_watch.go:47-50` and
  `ui/src/views/player/useResumeSync.ts:32-34` say: a page elsewhere whose ping is refused
  adopts the new version and keeps its playhead (`ui/src/views/Player.tsx:997-1001`), and
  its next ping past 90 % marks the video watched again;
- the refetch after a summary event adopts the row's version without moving the
  playhead to its position, so the page's next ping overwrites another page's;
- a media probe cut short by a shutdown is stamped as probed, with nothing found;
- a video whose SponsorBlock claim keeps failing stays at the head of its queue;
- a cancel that beats the requeue of a pause leaves its video "downloading", and
  cancelling a waiting job leaves its video "queued" (`download/outcome.go:21-23`,
  `httpapi/pending_handlers.go:285-286`);
- a half-done automatic enqueue masks its video for every later scan
  (`scan/pass.go:189-193`);
- a panic or a failed requeue leaves two rows running (`jobs/state.go:10-11`);
- a shutdown between a finished download and its commit is charged as an attempt,
  and so is one that interrupts a summary (`summarize/outcome.go:98-105`): the next
  claim counts again;
- a failed discard leaves the row "downloading" (`download/outcome.go:409-411` speaks
  of a stale "error" row);
- an embedder outage during an inbox read does turn its summary into an error
  (`summarize/worker.go:259-261`, through `failJob`);
- a reprocess that lands during the summary call keeps the text of the old one
  (`videos/store_summary.go:131-134`), and one that lands during the embed leaves an
  index marked current that it meant to invalidate, until its own job runs;
- a video downloaded a second time may have a current index without chapters while its
  job runs, or for good if the job's key points fail: the first download was
  cancelled after its read had stored key points, so that an inbox embed that was still
  to come rebuilt the index and marked it (`summarize/worker.go:406`; `SummaryPipeline`
  with two downloads, two jobs and two attempts);
- a video can be left with a summary, no in-depth text and nothing that owes it: a
  shutdown cuts the in-depth call, and the boot sweep passes the row over because it
  is in error at that moment (`videos/store_indepth_backfill.go:11-15`: "nobody opens
  their page"), but a download asked for again and cancelled brings it back to the Inbox
  (two downloads and a shutdown or crash); likewise when a retry is dropped because the
  entry is ignored and the video is then downloaded all the same;
- "every video the model was shown stays listable" (`httpapi/answer_handlers.go:425`)
  means it qualifies: reads that fail while the excerpts are chosen and work when the
  list is made (`videoLookup` does not remember an error) may fill the list's twenty
  places with better ranked videos that were never quoted;
- an MCP search whose limit was filled by the chunks of one video answers that
  nothing matches when that video is deleted before the list is made, though others match;
- between `claimedByPipeline` and the store of the captions a download can finish,
  and its transcript is overwritten (`captionfetch/worker.go:244-248`);
  `settleWithout` does not look again at all;
- `PurgeKept` acts on a list made before it asks whether the switch is still off, so
  a read approved in between is purged with the rest.

## 7. Not modelled, and what is left

Not modelled: the SponsorBlock refresher and the media probe (one writer of a column
nothing decides on); the LLM client (its calls are steps that succeed or fail in
`SummaryPipeline` and `Ask`); the MCP tool's keyword-only search
(`httpapi/mcp_library.go:226-233`: one lane, whose failure is the answer); the texts themselves, that is chunking, prompts, the
map-reduce of a long transcript, the parsing of model output (no property here tells
texts apart); the activity feed (written best-effort, read by nobody that decides);
migrations (run before any goroutine starts); the API's authentication, tokens and
the MCP protocol (request and response over SQL); the user interface other than
the player; yt-dlp's argument lists, staging directories and self-update.

What could be added: the fail monitor's streak (callback after the unlock, reset in
between), which `DownloadQueue` has as a choice; `CallWithCap`, whose
verdict it has as "hung"; the arithmetic of the scan slots as operators against a
reference definition; several channels sharing one scan loop. Theorems still
worth proving: a refinement of an abstract analysis, which `OneAtATime` and `EndedStays`
are the two halves of; that `FuseWeighted` puts a chunk that two lanes found above one
that only one of them found, at no worse a place; and `CancelsHold` under faults for
the outcomes that do not rest on a failed write.
