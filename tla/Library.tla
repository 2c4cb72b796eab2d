------------------------------ MODULE Library ------------------------------
(***************************************************************************)
(* What happens to a downloaded video after its download: the hourly       *)
(* retention sweep (retention/sweeper.go), the manual delete, the          *)
(* re-download and the paste that bring a deleted video back, the media    *)
(* file beside the row, and the three ways to reach that file: the player  *)
(* (stream and "now playing"), a playback grant and a public share link.   *)
(*                                                                         *)
(* One channel, whose keep_reads decides between a tombstone and a purge.  *)
(* A delete is two steps, the row and then the file, whoever runs it; the  *)
(* sweep works through the list it read when it began.  Time is one bit a  *)
(* video: whether retention_days have passed since watched_at.             *)
(***************************************************************************)
EXTENDS Integers, Sequences, FiniteSets

CONSTANTS
    Videos,     \* the channel's videos
    MaxEvents   \* BOUND on requests of people, failed writes, unlinks and
                \* downloads, and crashes, together

ASSUME BoundsAssumption == MaxEvents \in Nat

VARIABLES
    row,       \* row[v]: the videos row
    file,      \* the videos whose media file is on disk, at its one path
    job,       \* job[v]: its download: "none", "pending", "moved"
    keeps,     \* the channel's keep_reads
    purging,   \* the tombstones a switch-off has listed and not purged yet
    work,      \* work[a]: the delete that actor a is in the middle of
    left,      \* the candidates of the running sweep not yet looked at
    active,    \* the videos streamed within the last five minutes
    pointer,   \* playback_state: the set of at most one video
    links,     \* links[v]: the token of its live share link, or NoToken
    minted,    \* tokens handed out so far
    grants,    \* the videos with a live playback grant
    direct,    \* direct_stream_enabled
    dead,      \* ghost: tokens whose link has ended
    restored,  \* ghost: how a deleted video came back, this retention period
    torn,      \* ghost: whose new file a delete took as it arrived
    events

rows == <<row, file, job>>
reach == <<pointer, links, minted, dead, grants>>
deletes == <<work, left>>
switches == <<keeps, purging, direct>>
vars == <<row, file, job, keeps, purging, work, left, active, pointer, links,
          minted, grants, direct, dead, restored, torn, events>>

Actors == {"sweep", "owner"}
Statuses == {"none", "queued", "downloaded", "tombstoned", "error"}
\* watched, and whether watched_at is past the cutoff.
WatchStates == {"no", "fresh", "aged"}
NoToken == 0
NoRow == [status |-> "none", path |-> FALSE, watched |-> "no", favorite |-> FALSE]
Idle == [video |-> "none", keeps |-> FALSE, path |-> FALSE, todo |-> <<>>,
         overtaken |-> FALSE]

Exists(v) == row[v].status # "none"
Downloaded(v) == row[v].status = "downloaded"

Event == events < MaxEvents /\ events' = events + 1
Ask == Event
Fault == Event
Free == UNCHANGED events

(***************************************************************************)
(* Removing a video.                                                       *)
(***************************************************************************)
Revoke(v) ==
    /\ links' = [links EXCEPT ![v] = NoToken]
    /\ dead' = dead \cup ({links[v]} \ {NoToken})

\* Variant: only the purge's cascade takes the share link.
TombstoneKeepsLink(v) ==
    /\ row' = IF Exists(v) THEN [row EXCEPT ![v].status = "tombstoned", ![v].path = FALSE]
                           ELSE row
    /\ dead' = dead \cup ({links[v]} \ {NoToken})
    /\ UNCHANGED <<links, job, pointer, grants, restored>>

\* The row stays and forgets where its file was; the link goes in the same
\* transaction.  Grants and the pointer stay.
Tombstone(v) ==
    /\ row' = IF Exists(v) THEN [row EXCEPT ![v].status = "tombstoned", ![v].path = FALSE]
                           ELSE row
    /\ Revoke(v)
    /\ UNCHANGED <<job, pointer, grants, restored>>

\* The row goes, and by the schema's cascades its jobs, link and grants.
Purge(v) ==
    /\ row' = [row EXCEPT ![v] = NoRow]
    /\ job' = [job EXCEPT ![v] = "none"]
    /\ pointer' = pointer \ {v} /\ grants' = grants \ {v}
    /\ restored' = [restored EXCEPT ![v] = "no"]
    /\ Revoke(v)

\* videos.Remove: by the keep_reads that was read with the row.
Remove(w) == IF w.keeps THEN Tombstone(w.video) ELSE Purge(w.video)

Unlink(w) ==
    /\ file' = IF w.path THEN file \ {w.video} ELSE file
    /\ torn' = IF w.path /\ (w.overtaken \/ job[w.video] = "moved") THEN torn \cup {w.video} ELSE torn

\* Variant: the file first, the row second.
FileFirst == <<"file", "row">>

\* Row first, file second.
RowFirst == <<"row", "file">>

Deleting(v) ==
    [video |-> v, keeps |-> keeps, path |-> row[v].path, todo |-> RowFirst,
     overtaken |-> FALSE]

\* What is left of a's delete after its present step.
Advance(a) ==
    LET w == work[a]
    IN  work' = [work EXCEPT ![a] = IF Len(w.todo) > 1
                                    THEN [w EXCEPT !.todo = Tail(w.todo)] ELSE Idle]

Busy(a, phase) == work[a].todo # <<>> /\ Head(work[a].todo) = phase

RemoveRow(a) ==
    /\ Busy(a, "row") /\ Remove(work[a]) /\ Advance(a) /\ Free
    /\ UNCHANGED <<file, switches, left, active, minted, torn>>

\* The write failed: the request answers 500, the sweep goes on to the next.
RemoveRowFails(a) ==
    /\ Busy(a, "row") /\ Fault
    /\ work' = [work EXCEPT ![a] = Idle]
    /\ UNCHANGED <<rows, switches, left, active, reach, restored, torn>>

\* The request also stops offering the video as "now playing".
RemoveFile(a) ==
    /\ Busy(a, "file") /\ Unlink(work[a]) /\ Advance(a) /\ Free
    /\ pointer' = IF a = "owner" THEN pointer \ {work[a].video} ELSE pointer
    /\ UNCHANGED <<row, job, switches, left, active, links, minted, dead, grants, restored>>

\* An orphan: logged, and the row stays deleted.
RemoveFileFails(a) ==
    /\ Busy(a, "file") /\ Fault /\ Advance(a)
    /\ pointer' = IF a = "owner" THEN pointer \ {work[a].video} ELSE pointer
    /\ UNCHANGED <<rows, switches, left, active, links, minted, dead, grants, restored, torn>>

(***************************************************************************)
(* The retention sweep.                                                    *)
(***************************************************************************)
Candidate(v) ==
    Downloaded(v) /\ row[v].watched = "aged" /\ ~row[v].favorite

Candidates == {v \in Videos : Candidate(v)}

Resting == left = {} /\ work["sweep"] = Idle

\* SweepCandidates, on boot and then hourly.  The list keeps the path and the
\* keep_reads read with it; nothing is looked at again but who is watching.
SweepBegins ==
    /\ Resting /\ Candidates # {}
    /\ left' = {Deleting(v) : v \in Candidates}
    /\ Free /\ UNCHANGED <<rows, switches, work, active, reach, restored, torn>>

IsActive(v) == v \in active

\* Variant: a video being played ends the pass.
PassOverEndsPass(c) == {}

\* A video being played is passed over, whatever its age.
PassOver(c) == left \ {c}

SweepNext ==
    /\ work["sweep"] = Idle
    /\ \E c \in left :
         IF IsActive(c.video)
         THEN left' = PassOver(c) /\ UNCHANGED work
         ELSE left' = left \ {c} /\ work' = [work EXCEPT !["sweep"] = c]
    /\ Free /\ UNCHANGED <<rows, switches, active, reach, restored, torn>>

(***************************************************************************)
(* The clocks.                                                             *)
(***************************************************************************)
\* retention_days pass.
Ages(v) ==
    /\ row[v].watched = "fresh" \/ restored[v] # "no"
    /\ row' = IF row[v].watched = "fresh" THEN [row EXCEPT ![v].watched = "aged"] ELSE row
    /\ restored' = [restored EXCEPT ![v] = "no"]
    /\ Free /\ UNCHANGED <<file, job, switches, deletes, active, reach, torn>>

\* Five minutes without a request for the file.
WindowEnds(v) ==
    /\ v \in active /\ active' = active \ {v}
    /\ Free /\ UNCHANGED <<rows, switches, deletes, reach, restored, torn>>

LinkExpires(v) ==
    /\ links[v] # NoToken /\ Revoke(v)
    /\ Free
    /\ UNCHANGED <<rows, switches, deletes, active, pointer, minted, grants, restored, torn>>

GrantExpires(v) ==
    /\ v \in grants /\ grants' = grants \ {v}
    /\ Free
    /\ UNCHANGED <<rows, switches, deletes, active, pointer, links, minted, dead, restored, torn>>

(***************************************************************************)
(* Coming back: the download worker's part (DownloadQueue has the rest).   *)
(* BOUND: one job a video at a time.                                       *)
(***************************************************************************)
\* The worker moves the file to its place, over an older one.
FileArrives(v) ==
    /\ job[v] = "pending" /\ job' = [job EXCEPT ![v] = "moved"]
    /\ file' = file \cup {v} /\ torn' = torn \ {v}
    /\ Free /\ UNCHANGED <<row, switches, deletes, active, reach, restored>>

\* SetDownloaded, whatever the row was: the watched columns are left alone.  A
\* delete whose unlink is still to come is now too late.
DownloadCommits(v) ==
    /\ job[v] = "moved" /\ job' = [job EXCEPT ![v] = "none"]
    /\ row' = [row EXCEPT ![v].status = "downloaded", ![v].path = TRUE]
    /\ work' = [a \in Actors |-> IF Busy(a, "file") /\ work[a].video = v
                                 THEN [work[a] EXCEPT !.overtaken = TRUE] ELSE work[a]]
    /\ Free /\ UNCHANGED <<file, switches, left, active, reach, restored, torn>>

DownloadFails(v) ==
    /\ job[v] = "pending" /\ job' = [job EXCEPT ![v] = "none"]
    /\ row' = [row EXCEPT ![v].status = "error"]
    /\ Fault /\ UNCHANGED <<file, switches, deletes, active, reach, restored, torn>>

Enqueue(v, r) ==
    /\ job[v] = "none" /\ job' = [job EXCEPT ![v] = "pending"]
    /\ row' = [row EXCEPT ![v] = [r EXCEPT !.status = "queued"]]
    /\ UNCHANGED <<file, switches, deletes, active, reach, torn>>

\* Variant: no life extension on a row that has a watched_at.
RestartRetentionClockOnce(r) == r

\* RestartRetentionClock: a watched row is as freshly watched as can be.
RestartRetentionClock(r) ==
    IF r.watched # "no" THEN [r EXCEPT !.watched = "fresh"] ELSE r

\* handleRedownloadVideo.
Redownload(v) ==
    /\ Ask /\ row[v].status \in {"error", "tombstoned"}
    /\ Enqueue(v, RestartRetentionClock(row[v]))
    /\ restored' = [restored EXCEPT ![v] = "again"]

\* enqueueDownloadByURL: a known row is enqueued as it is, a new one made.
Paste(v) ==
    /\ Ask /\ Enqueue(v, row[v])
    /\ restored' = IF row[v].status = "tombstoned" /\ restored[v] = "no"
                   THEN [restored EXCEPT ![v] = "paste"] ELSE restored

(***************************************************************************)
(* What people do with a video.                                            *)
(***************************************************************************)
\* handleDeleteVideo reads the row; being played is no obstacle.
Delete(v) ==
    /\ Ask /\ Exists(v) /\ work["owner"] = Idle
    /\ work' = [work EXCEPT !["owner"] = Deleting(v)]
    /\ UNCHANGED <<rows, switches, left, active, reach, restored, torn>>

SetFavorite(v) ==
    /\ Ask /\ Exists(v)
    /\ row' = [row EXCEPT ![v].favorite = ~@]
    /\ UNCHANGED <<file, job, switches, deletes, active, reach, restored, torn>>

\* SetWatched, either way: marking again keeps watched_at, and takes the video
\* off "now playing"; un-watching clears it.
SetWatched(v) ==
    /\ Ask /\ Exists(v)
    /\ \/ /\ row' = [row EXCEPT ![v].watched = IF @ = "no" THEN "fresh" ELSE @]
          /\ pointer' = pointer \ {v}
       \/ /\ row' = [row EXCEPT ![v].watched = "no"]
          /\ UNCHANGED pointer
    /\ UNCHANGED <<file, job, switches, deletes, active, links, minted, dead, grants,
                   restored, torn>>

\* handlePutPlaybackState, for a video that can be played.
OpenPlayer(v) ==
    /\ Ask /\ Downloaded(v) /\ pointer # {v} /\ pointer' = {v}
    /\ UNCHANGED <<rows, switches, deletes, active, links, minted, dead, grants,
                   restored, torn>>

\* handleStreamVideo: RecordAccess once the row is known to have a file.
Stream(v) == row[v].path

\* handleGrantStream: RecordAccess for every live grant, while the switch is on.
GrantStream(v) == direct /\ v \in grants

RecordAccess(v) ==
    /\ Stream(v) \/ GrantStream(v)
    /\ v \notin active /\ active' = active \cup {v}
    /\ Free /\ UNCHANGED <<rows, switches, deletes, reach, restored, torn>>

\* playbackgrant.Mint.
Mint(v) == grants' = grants \cup {v}

\* handleCreatePlaybackGrant.
MintGrant(v) ==
    /\ Ask /\ direct /\ row[v].path /\ Mint(v)
    /\ UNCHANGED <<rows, switches, deletes, active, pointer, links, minted, dead,
                   restored, torn>>

\* sharelink.Upsert: a live link keeps its token, so only its first time shows.
UpsertLink(v) ==
    /\ links[v] = NoToken
    /\ minted' = minted + 1 /\ links' = [links EXCEPT ![v] = minted']

\* handleCreateShare.
Share(v) ==
    /\ Ask /\ Exists(v) /\ UpsertLink(v)
    /\ UNCHANGED <<rows, switches, deletes, active, pointer, dead, grants, restored, torn>>

StopSharing(v) ==
    /\ Ask /\ Exists(v) /\ links[v] # NoToken /\ Revoke(v)
    /\ UNCHANGED <<rows, switches, deletes, active, pointer, minted, grants, restored, torn>>

SwitchDirect ==
    /\ Ask /\ direct' = ~direct
    /\ UNCHANGED <<rows, keeps, purging, deletes, active, reach, restored, torn>>

\* keep_reads; switching it off lists the tombstones for a purge.
SwitchKeepReads ==
    /\ Ask /\ keeps' = ~keeps
    /\ purging' = IF keeps THEN {v \in Videos : row[v].status = "tombstoned"} ELSE purging
    /\ UNCHANGED <<rows, direct, deletes, active, reach, restored, torn>>

\* PurgeKept: one listed video, as long as the switch is still off; what has
\* become of the video since it was listed is not asked.
PurgeKept(v) ==
    /\ v \in purging
    /\ IF keeps
       THEN purging' = {} /\ UNCHANGED <<row, job, pointer, links, dead, grants, restored>>
       ELSE purging' = purging \ {v} /\ Purge(v)
    /\ Free
    /\ UNCHANGED <<file, keeps, direct, deletes, active, minted, torn>>

\* The process dies and boots: the tracker and every delete in progress are
\* forgotten, an unfinished download starts over, the purge lists again.
Crash ==
    /\ Fault
    /\ work' = [a \in Actors |-> Idle] /\ left' = {} /\ active' = {}
    /\ job' = [v \in Videos |-> IF job[v] = "none" THEN "none" ELSE "pending"]
    /\ purging' = IF keeps THEN {} ELSE {v \in Videos : row[v].status = "tombstoned"}
    /\ UNCHANGED <<row, file, keeps, direct, reach, restored, torn>>

(***************************************************************************)
(* What can be reached.                                                    *)
(***************************************************************************)
\* playback.Get.
NowPlaying == {v \in pointer : Downloaded(v)}

\* sharelink.Resolve: the videos a token names.
Resolve(t) == {v \in Videos : links[v] = t /\ t # NoToken}

\* handleShareVideo: title, summary, chapters.
SharePage(t) == \E v \in Resolve(t) : Exists(v)

\* serveMediaFile: what the row says, if it is there.
ServeMediaFile(v) == row[v].path /\ v \in file

\* handleShareStream.
ShareStream(t) == \E v \in Resolve(t) : ServeMediaFile(v)

(***************************************************************************)
(* Properties.                                                             *)
(***************************************************************************)
TypeOK ==
    /\ row \in [Videos -> [status : Statuses, path : BOOLEAN,
                           watched : WatchStates, favorite : BOOLEAN]]
    /\ file \subseteq Videos /\ job \in [Videos -> {"none", "pending", "moved"}]
    /\ keeps \in BOOLEAN /\ purging \subseteq Videos /\ active \subseteq Videos
    /\ pointer \subseteq Videos /\ Cardinality(pointer) <= 1
    /\ links \in [Videos -> 0..MaxEvents] /\ minted \in 0..MaxEvents
    /\ grants \subseteq Videos /\ direct \in BOOLEAN /\ dead \subseteq 1..MaxEvents
    /\ restored \in [Videos -> {"no", "again", "paste"}] /\ torn \subseteq Videos
    /\ events \in 0..MaxEvents

\* What the library calls downloaded, and "now playing" offers to open, has
\* its file, through crashes and failed deletes (sweeper.go and
\* handleDeleteVideo: row first, file second), unless a delete met a download:
\* a download ended between its row and its unlink, or was ending then.
DownloadedHasFile ==
    \A v \in Videos : Downloaded(v) \/ v \in NowPlaying => v \in file \/ v \in torn

\* A video brought back with the re-download button has a full retention period
\* ahead of it: until that is over no query of a sweep names it, whatever is done
\* to it meanwhile (handleRedownloadVideo, RestartRetentionClock).  The list of a
\* sweep that is already running may still hold it.
RestoredIsKept == \A v \in Videos : restored[v] = "again" => ~Candidate(v)

\* The same promise for a deleted video that is pasted again: "a restored file
\* needs its full retention_days back, or the next sweep reclaims what was
\* just fetched" (videos/store.go).
PasteIsKept == \A v \in Videos : restored[v] = "paste" => ~Candidate(v)

\* A share link that was stopped, expired or died with its video never answers
\* again: not the page, not the stream, and not when the video comes back and
\* is shared anew (Tombstone's revocation, the purge's cascade, Upsert).
DeadLinkStaysDead == \A t \in dead : ~SharePage(t) /\ ~ShareStream(t)

\* A video past its time that nobody is playing is reclaimed: neither another
\* video that plays all day, nor failed deletes, nor a restart keep the sweep
\* from it (SweepOnce's three "continue").
AgedIsReclaimed ==
    \A v \in Videos : Candidate(v) /\ ~IsActive(v) ~> ~(Candidate(v) /\ ~IsActive(v))

\* A library of watched videos whose time has come.
Init ==
    /\ row = [v \in Videos |-> [status |-> "downloaded", path |-> TRUE,
                                watched |-> "aged", favorite |-> FALSE]]
    /\ file = Videos /\ job = [v \in Videos |-> "none"]
    /\ keeps = TRUE /\ purging = {} /\ direct = FALSE
    /\ work = [a \in Actors |-> Idle] /\ left = {} /\ active = {}
    /\ pointer = {} /\ links = [v \in Videos |-> NoToken] /\ minted = 0 /\ dead = {}
    /\ grants = {} /\ restored = [v \in Videos |-> "no"] /\ torn = {}
    /\ events = 0

DeleteStep(a) ==
    RemoveRow(a) \/ RemoveRowFails(a) \/ RemoveFile(a) \/ RemoveFileFails(a)

Next ==
    \/ \E a \in Actors : DeleteStep(a)
    \/ SweepBegins \/ SweepNext
    \/ \E v \in Videos :
          \/ Ages(v) \/ WindowEnds(v) \/ LinkExpires(v) \/ GrantExpires(v)
          \/ FileArrives(v) \/ DownloadCommits(v) \/ DownloadFails(v)
          \/ Redownload(v) \/ Paste(v) \/ Delete(v) \/ SetFavorite(v) \/ SetWatched(v)
          \/ OpenPlayer(v) \/ RecordAccess(v) \/ MintGrant(v)
          \/ Share(v) \/ StopSharing(v) \/ PurgeKept(v)
    \/ SwitchDirect \/ SwitchKeepReads \/ Crash

\* The sweep's ticker and its loop run; nothing is assumed of people.
Fairness ==
    /\ WF_vars(SweepBegins) /\ WF_vars(SweepNext)
    /\ WF_vars(DeleteStep("sweep"))

Spec == Init /\ [][Next]_vars /\ Fairness
=============================================================================
