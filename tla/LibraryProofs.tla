--------------------------- MODULE LibraryProofs ---------------------------
(***************************************************************************)
(* Three promises of Library for any set of videos and any number of       *)
(* requests, failures and crashes: a share link that has ended never       *)
(* answers again, a video brought back by the re-download button is no     *)
(* candidate of a sweep before its time, and what is called downloaded has *)
(* its file unless a delete met its download.                              *)
(***************************************************************************)
EXTENDS Library, TLAPS

Rows == [status : Statuses, path : BOOLEAN, watched : WatchStates, favorite : BOOLEAN]
Deletes == [video : Videos, keeps : BOOLEAN, path : BOOLEAN,
            todo : {<<"row", "file">>, <<"file">>}, overtaken : BOOLEAN]

\* A restored video is either unwatched or freshly watched.
RowInv ==
  /\ row \in [Videos -> Rows] /\ keeps \in BOOLEAN
  /\ restored \in [Videos -> {"no", "again", "paste"}]
  /\ \A v \in Videos : restored[v] = "again" => row[v].watched # "aged"

\* A delete under way is one of a video, and so are the listed ones.
WorkInv ==
  /\ work \in [Actors -> Deletes \cup {Idle}]
  /\ left \subseteq Deletes

\* Tokens are handed out once: a live one is not dead, and names one video.
LinkInv ==
  /\ links \in [Videos -> Nat] /\ minted \in Nat /\ dead \subseteq 1..minted
  /\ \A v \in Videos : links[v] <= minted /\ links[v] \notin dead
  /\ \A v, w \in Videos : links[v] = links[w] /\ links[v] # NoToken => v = w

LibInv == RowInv /\ WorkInv /\ LinkInv

-----------------------------------------------------------------------------
(* The statements the actions are made of.                                 *)

LEMMA RevokeLinks ==
  ASSUME LinkInv, NEW v \in Videos, Revoke(v), minted' = minted
  PROVE  LinkInv'
<1> USE DEF NoToken
<1>1. /\ links' \in [Videos -> Nat]
      /\ \A u \in Videos : links'[u] = IF u = v THEN 0 ELSE links[u]
  BY DEF LinkInv, Revoke
<1>2. dead' = dead \cup ({links[v]} \ {0}) BY DEF Revoke
<1>3. dead' \subseteq 1..minted' /\ minted' \in Nat
  <2>1. links[v] \in Nat /\ links[v] <= minted /\ minted \in Nat /\ dead \subseteq 1..minted
    BY DEF LinkInv
  <2>2. links[v] # 0 => links[v] \in 1..minted BY <2>1
  <2> QED BY <1>2, <2>1, <2>2
<1>4. ASSUME NEW u \in Videos PROVE links'[u] <= minted' /\ links'[u] \notin dead'
  <2>1. CASE u = v BY <1>1, <1>3, <2>1
  <2>2. CASE u # v BY <1>1, <1>2, <2>2 DEF LinkInv
  <2> QED BY <2>1, <2>2
<1>5. ASSUME NEW u \in Videos, NEW w \in Videos, links'[u] = links'[w], links'[u] # 0
      PROVE  u = w
  BY <1>1, <1>5 DEF LinkInv
<1> QED BY <1>1, <1>3, <1>4, <1>5 DEF LinkInv

LEMMA BusyWith ==
  ASSUME WorkInv, NEW a \in Actors, NEW phase, Busy(a, phase)
  PROVE  work[a] \in Deletes
<1>1. work[a] # Idle BY DEF Busy, Idle
<1> QED BY <1>1 DEF WorkInv

LEMMA DeletingIsDelete ==
  ASSUME RowInv, NEW v \in Videos
  PROVE  Deleting(v) \in Deletes
  BY DEF RowInv, Deleting, RowFirst, Deletes, Rows

LEMMA AdvanceWork ==
  ASSUME WorkInv, NEW a \in Actors, work[a] \in Deletes, Advance(a), left' = left
  PROVE  WorkInv'
<1> DEFINE w == work[a]
           n == IF Len(w.todo) > 1 THEN [w EXCEPT !.todo = Tail(w.todo)] ELSE Idle
<1>1. CASE w.todo = <<"file">>
  <2>1. n = Idle BY <1>1
  <2>2. work' = [work EXCEPT ![a] = Idle] BY <2>1 DEF Advance
  <2> QED BY <2>2 DEF WorkInv
<1>2. CASE w.todo = <<"row", "file">>
  <2>1. n = [w EXCEPT !.todo = <<"file">>] BY <1>2
  <2>2. n \in Deletes BY <2>1 DEF Deletes
  <2>3. work' = [work EXCEPT ![a] = n] BY DEF Advance
  <2> HIDE DEF n
  <2> QED BY <2>2, <2>3 DEF WorkInv
<1> QED BY <1>1, <1>2 DEF Deletes

LEMMA TombstoneRow ==
  ASSUME RowInv, NEW v \in Videos, Tombstone(v), keeps' = keeps
  PROVE  RowInv'
<1>1. \A u \in Videos : row'[u] \in Rows /\ row'[u].watched = row[u].watched
  BY DEF RowInv, Tombstone, Rows, Statuses
<1>2. row' \in [Videos -> Rows] BY <1>1 DEF RowInv, Tombstone
<1> QED BY <1>1, <1>2 DEF RowInv, Tombstone

LEMMA PurgeRow ==
  ASSUME RowInv, NEW v \in Videos, Purge(v), keeps' = keeps
  PROVE  RowInv'
<1>1. NoRow \in Rows BY DEF NoRow, Rows, Statuses, WatchStates
<1> QED BY <1>1 DEF RowInv, Purge

-----------------------------------------------------------------------------
(* The steps.                                                              *)

LEMMA LinksUnchanged ==
  ASSUME LinkInv, UNCHANGED <<links, minted, dead>>
  PROVE  LinkInv'
  BY DEF LinkInv

LEMMA RowsUnchanged ==
  ASSUME RowInv, UNCHANGED <<row, keeps, restored>>
  PROVE  RowInv'
  BY DEF RowInv

LEMMA WorkUnchanged ==
  ASSUME WorkInv, UNCHANGED <<work, left>>
  PROVE  WorkInv'
  BY DEF WorkInv

LEMMA StepDelete ==
  ASSUME LibInv, NEW a \in Actors, DeleteStep(a)
  PROVE  LibInv'
<1> USE DEF LibInv
<1>1. CASE RemoveRow(a)
  <2>1. work[a] \in Deletes BY <1>1, BusyWith DEF RemoveRow
  <2>2. work[a].video \in Videos BY <2>1 DEF Deletes
  <2>3. left' = left /\ keeps' = keeps /\ minted' = minted BY <1>1 DEF RemoveRow, switches
  <2>4. WorkInv' BY <1>1, <2>1, <2>3, AdvanceWork DEF RemoveRow
  <2>5. CASE Tombstone(work[a].video)
    BY <2>2, <2>3, <2>4, <2>5, TombstoneRow, RevokeLinks DEF Tombstone
  <2>6. CASE Purge(work[a].video)
    BY <2>2, <2>3, <2>4, <2>6, PurgeRow, RevokeLinks DEF Purge
  <2> QED BY <1>1, <2>5, <2>6 DEF RemoveRow, Remove
<1>2. CASE RemoveRowFails(a)
  <2>1. WorkInv' BY <1>2 DEF WorkInv, RemoveRowFails
  <2> QED BY <1>2, <2>1, LinksUnchanged, RowsUnchanged DEF RemoveRowFails, rows, switches, reach
<1>3. CASE RemoveFile(a) \/ RemoveFileFails(a)
  <2>1. work[a] \in Deletes BY <1>3, BusyWith DEF RemoveFile, RemoveFileFails
  <2>2. WorkInv' BY <1>3, <2>1, AdvanceWork DEF RemoveFile, RemoveFileFails
  <2> QED BY <1>3, <2>2, LinksUnchanged, RowsUnchanged
          DEF RemoveFile, RemoveFileFails, rows, switches
<1> QED BY <1>1, <1>2, <1>3 DEF DeleteStep

LEMMA StepSweep ==
  ASSUME LibInv, SweepBegins \/ SweepNext
  PROVE  LibInv'
<1> USE DEF LibInv
<1>1. CASE SweepBegins
  <2>1. WorkInv'
    BY <1>1, DeletingIsDelete DEF SweepBegins, WorkInv, Candidates
  <2> QED BY <1>1, <2>1, LinksUnchanged, RowsUnchanged DEF SweepBegins, rows, switches, reach
<1>2. CASE SweepNext
  <2>1. left' \subseteq left BY <1>2 DEF SweepNext, PassOver
  <2>2. UNCHANGED work \/ \E c \in left : work' = [work EXCEPT !["sweep"] = c]
    BY <1>2 DEF SweepNext
  <2>3. WorkInv' BY <2>1, <2>2 DEF WorkInv
  <2> QED BY <1>2, <2>3, LinksUnchanged, RowsUnchanged DEF SweepNext, rows, switches, reach
<1> QED BY <1>1, <1>2

LEMMA StepClocks ==
  ASSUME LibInv, NEW v \in Videos,
         Ages(v) \/ WindowEnds(v) \/ LinkExpires(v) \/ GrantExpires(v)
  PROVE  LibInv'
<1> USE DEF LibInv, switches, deletes, reach, rows
<1>1. CASE Ages(v)
  <2>1. row' \in [Videos -> Rows] BY <1>1 DEF Ages, RowInv, Rows, WatchStates
  <2>2. \A u \in Videos : u # v => row'[u] = row[u] BY <1>1 DEF Ages, RowInv
  <2>3. RowInv' BY <1>1, <2>1, <2>2 DEF Ages, RowInv
  <2> QED BY <1>1, <2>3, LinksUnchanged, WorkUnchanged DEF Ages
<1>2. CASE WindowEnds(v) \/ GrantExpires(v)
  BY <1>2, LinksUnchanged, RowsUnchanged, WorkUnchanged DEF WindowEnds, GrantExpires
<1>3. CASE LinkExpires(v)
  BY <1>3, RevokeLinks, RowsUnchanged, WorkUnchanged DEF LinkExpires
<1> QED BY <1>1, <1>2, <1>3

LEMMA StepDownload ==
  ASSUME LibInv, NEW v \in Videos,
         FileArrives(v) \/ DownloadCommits(v) \/ DownloadFails(v) \/ Redownload(v) \/ Paste(v)
  PROVE  LibInv'
<1> USE DEF LibInv, switches, deletes, reach, rows
<1>0. row \in [Videos -> Rows] /\ row[v] \in Rows BY DEF RowInv
<1>1. CASE FileArrives(v)
  BY <1>1, LinksUnchanged, RowsUnchanged, WorkUnchanged DEF FileArrives
<1>2. CASE DownloadCommits(v)
  <2>1. /\ row' \in [Videos -> Rows]
        /\ \A u \in Videos : row'[u].watched = row[u].watched
    BY <1>0, <1>2 DEF DownloadCommits, Rows, Statuses
  <2>2. RowInv' BY <1>2, <2>1 DEF DownloadCommits, RowInv
  <2>3. ASSUME NEW a \in Actors PROVE work'[a] \in Deletes \cup {Idle}
    <3>1. CASE Busy(a, "file") /\ work[a].video = v
      <4>1. work[a] \in Deletes BY <3>1, BusyWith
      <4>2. work'[a] = [work[a] EXCEPT !.overtaken = TRUE]
        BY <1>2, <3>1 DEF DownloadCommits
      <4> QED BY <4>1, <4>2 DEF Deletes
    <3>2. CASE ~(Busy(a, "file") /\ work[a].video = v)
      BY <1>2, <3>2 DEF DownloadCommits, WorkInv
    <3> QED BY <3>1, <3>2
  <2>4. work' \in [Actors -> Deletes \cup {Idle}] BY <1>2, <2>3 DEF DownloadCommits
  <2>5. WorkInv' BY <1>2, <2>4 DEF DownloadCommits, WorkInv
  <2> QED BY <1>2, <2>2, <2>5, LinksUnchanged DEF DownloadCommits
<1>3. CASE DownloadFails(v)
  <2>1. /\ row' \in [Videos -> Rows]
        /\ \A u \in Videos : row'[u].watched = row[u].watched
    BY <1>0, <1>3 DEF DownloadFails, Rows, Statuses
  <2> QED BY <1>3, <2>1, LinksUnchanged, WorkUnchanged DEF DownloadFails, RowInv
<1>4. CASE Redownload(v)
  <2> DEFINE r == RestartRetentionClock(row[v])
  <2>1. r \in Rows /\ r.watched # "aged"
    BY <1>0 DEF RestartRetentionClock, Rows, WatchStates
  <2>2. /\ row' = [row EXCEPT ![v] = [r EXCEPT !.status = "queued"]]
        /\ restored' = [restored EXCEPT ![v] = "again"]
        /\ UNCHANGED <<keeps, work, left, links, minted, dead>>
    BY <1>4 DEF Redownload, Enqueue
  <2>3. [r EXCEPT !.status = "queued"] \in Rows /\ [r EXCEPT !.status = "queued"].watched # "aged"
    BY <2>1 DEF Rows, Statuses
  <2>4. RowInv' BY <1>0, <2>2, <2>3 DEF RowInv
  <2> QED BY <2>2, <2>4, LinksUnchanged, WorkUnchanged
<1>5. CASE Paste(v)
  <2>1. /\ row' = [row EXCEPT ![v] = [row[v] EXCEPT !.status = "queued"]]
        /\ UNCHANGED <<keeps, work, left, links, minted, dead>>
    BY <1>5 DEF Paste, Enqueue
  <2>2. /\ row' \in [Videos -> Rows]
        /\ \A u \in Videos : row'[u].watched = row[u].watched
    BY <1>0, <2>1 DEF Rows, Statuses
  <2>3. RowInv' BY <1>5, <2>1, <2>2 DEF Paste, RowInv
  <2> QED BY <2>1, <2>3, LinksUnchanged, WorkUnchanged
<1> QED BY <1>1, <1>2, <1>3, <1>4, <1>5

LEMMA StepPeople ==
  ASSUME LibInv, NEW v \in Videos,
         \/ Delete(v) \/ SetFavorite(v) \/ SetWatched(v) \/ OpenPlayer(v) \/ RecordAccess(v)
         \/ MintGrant(v)
  PROVE  LibInv'
<1> USE DEF LibInv, switches, deletes, reach, rows
<1>0. row \in [Videos -> Rows] /\ row[v] \in Rows BY DEF RowInv
<1>1. CASE Delete(v)
  <2>1. WorkInv' BY <1>1, DeletingIsDelete DEF Delete, WorkInv
  <2> QED BY <1>1, <2>1, LinksUnchanged, RowsUnchanged DEF Delete
<1>2. CASE SetFavorite(v)
  <2>1. /\ row' \in [Videos -> Rows]
        /\ \A u \in Videos : row'[u].watched = row[u].watched
    BY <1>0, <1>2 DEF SetFavorite, Rows
  <2> QED BY <1>2, <2>1, LinksUnchanged, WorkUnchanged DEF SetFavorite, RowInv
<1>3. CASE SetWatched(v)
  <2>1. /\ row' \in [Videos -> Rows]
        /\ \A u \in Videos : row'[u].watched # "aged" \/ row'[u].watched = row[u].watched
    BY <1>0, <1>3 DEF SetWatched, Rows, WatchStates
  <2> QED BY <1>3, <2>1, LinksUnchanged, WorkUnchanged DEF SetWatched, RowInv
<1>4. CASE OpenPlayer(v) \/ RecordAccess(v) \/ MintGrant(v)
  BY <1>4, LinksUnchanged, RowsUnchanged, WorkUnchanged DEF OpenPlayer, RecordAccess, MintGrant, Mint
<1> QED BY <1>1, <1>2, <1>3, <1>4

LEMMA StepShare ==
  ASSUME LibInv, NEW v \in Videos, Share(v) \/ StopSharing(v) \/ PurgeKept(v)
  PROVE  LibInv'
<1> USE DEF LibInv, switches, deletes, reach, rows
<1>1. CASE Share(v)
  <2>1. minted' = minted + 1 /\ links' = [links EXCEPT ![v] = minted + 1] /\ dead' = dead
    BY <1>1 DEF Share, UpsertLink
  <2>2. LinkInv' BY <2>1 DEF LinkInv, NoToken
  <2> QED BY <1>1, <2>2, RowsUnchanged, WorkUnchanged DEF Share, UpsertLink
<1>2. CASE StopSharing(v)
  BY <1>2, RevokeLinks, RowsUnchanged, WorkUnchanged DEF StopSharing
<1>3. CASE PurgeKept(v)
  <2>1. keeps' = keeps /\ minted' = minted /\ UNCHANGED <<work, left>> BY <1>3 DEF PurgeKept
  <2>2. CASE Purge(v)
    BY <2>1, <2>2, PurgeRow, RevokeLinks, WorkUnchanged DEF Purge
  <2>3. CASE UNCHANGED <<row, restored, links, dead>>
    BY <2>1, <2>3, LinksUnchanged, RowsUnchanged, WorkUnchanged
  <2> QED BY <1>3, <2>2, <2>3 DEF PurgeKept
<1> QED BY <1>1, <1>2, <1>3

LEMMA StepRest ==
  ASSUME LibInv, SwitchDirect \/ SwitchKeepReads \/ Crash
  PROVE  LibInv'
<1> USE DEF LibInv, switches, deletes, reach, rows
<1>1. CASE SwitchDirect
  BY <1>1, LinksUnchanged, RowsUnchanged, WorkUnchanged DEF SwitchDirect
<1>2. CASE SwitchKeepReads
  <2>1. RowInv' BY <1>2 DEF SwitchKeepReads, RowInv
  <2> QED BY <1>2, <2>1, LinksUnchanged, WorkUnchanged DEF SwitchKeepReads
<1>3. CASE Crash
  <2>1. WorkInv' BY <1>3 DEF Crash, WorkInv
  <2> QED BY <1>3, <2>1, LinksUnchanged, RowsUnchanged DEF Crash
<1> QED BY <1>1, <1>2, <1>3

LEMMA LibInit == Init => LibInv
<1> SUFFICES ASSUME Init PROVE LibInv OBVIOUS
<1>1. RowInv BY DEF Init, RowInv, Rows, Statuses, WatchStates
<1>2. WorkInv BY DEF Init, WorkInv
<1>3. LinkInv BY DEF Init, LinkInv, NoToken
<1> QED BY <1>1, <1>2, <1>3 DEF LibInv

LEMMA LibAlways == Spec => []LibInv
<1>1. LibInv /\ [Next]_vars => LibInv'
  <2> SUFFICES ASSUME LibInv, [Next]_vars PROVE LibInv' OBVIOUS
  <2>1. CASE UNCHANGED vars
    BY <2>1, LinksUnchanged, RowsUnchanged, WorkUnchanged DEF vars, LibInv
  <2>2. CASE Next
    BY <2>2, StepDelete, StepSweep, StepClocks, StepDownload, StepPeople, StepShare, StepRest
       DEF Next
  <2> QED BY <2>1, <2>2
<1> QED BY <1>1, LibInit, PTL DEF Spec

\* A share link that was stopped, that expired or whose video was deleted never
\* answers again, whatever is shared, restored, swept or purged afterwards.
THEOREM RevokedForGood == Spec => []DeadLinkStaysDead
<1>1. LinkInv => DeadLinkStaysDead
  BY DEF LinkInv, DeadLinkStaysDead, SharePage, ShareStream, Resolve
<1> QED BY <1>1, LibAlways, PTL DEF LibInv

\* A video brought back with the re-download button is no candidate of a sweep
\* before its retention period is over, whatever people do with it meanwhile.
THEOREM RestoredForItsTime == Spec => []RestoredIsKept
<1>1. RowInv => RestoredIsKept
  BY DEF RowInv, RestoredIsKept, Candidate
<1> QED BY <1>1, LibAlways, PTL DEF LibInv

-----------------------------------------------------------------------------
(* The row and the file.                                                   *)

\* A video has at most one download.
JobInv == job \in [Videos -> {"none", "pending", "moved"}]

\* Behind every downloaded row, and every download that has moved its file, is
\* that file; a delete that has still to unlink it has made the row something
\* else, or knows that a download came between.
FileInv ==
  /\ \A v \in Videos : Downloaded(v) \/ job[v] = "moved" => v \in file \/ v \in torn
  /\ \A a \in Actors : Busy(a, "file") /\ ~work[a].overtaken => ~Downloaded(work[a].video)
  /\ \A c \in left : Head(c.todo) # "file"

\* Most steps neither touch a file nor make a video downloaded.
LEMMA FilesKept ==
  ASSUME WorkInv, FileInv, UNCHANGED <<file, torn, left>>,
         \A a \in Actors : work'[a] \in {work[a], Idle},
         \A v \in Videos : row'[v].status = "downloaded" => row[v].status = "downloaded",
         \A v \in Videos : job'[v] = "moved" => job[v] = "moved"
  PROVE  FileInv'
<1>1. ASSUME NEW v \in Videos, Downloaded(v)' \/ job'[v] = "moved"
      PROVE  (v \in file \/ v \in torn)'
  BY <1>1 DEF FileInv, Downloaded
<1>2. ASSUME NEW a \in Actors, Busy(a, "file")', ~work'[a].overtaken
      PROVE  ~Downloaded(work[a].video)' /\ work'[a] = work[a]
  <2>1. work'[a] # Idle BY <1>2 DEF Busy, Idle
  <2>2. work'[a] = work[a] BY <2>1
  <2>3. Busy(a, "file") BY <1>2, <2>2 DEF Busy
  <2>4. work[a].video \in Videos BY <2>3, BusyWith DEF Deletes
  <2> QED BY <1>2, <2>2, <2>3, <2>4 DEF FileInv, Downloaded
<1>3. \A c \in left' : Head(c.todo) # "file" BY DEF FileInv
<1> QED BY <1>1, <1>2, <1>3 DEF FileInv, Downloaded

LEMMA RemovedRow ==
  ASSUME LibInv, JobInv, NEW w \in Deletes, Remove(w)
  PROVE  /\ \A v \in Videos : row'[v].status = "downloaded" => row[v].status = "downloaded"
         /\ row'[w.video].status # "downloaded"
         /\ \A v \in Videos : job'[v] = "moved" => job[v] = "moved"
<1>1. w.video \in Videos BY DEF Deletes
<1>2. CASE Tombstone(w.video)
  BY <1>1, <1>2 DEF Tombstone, Exists, LibInv, RowInv, Rows
<1>3. CASE Purge(w.video)
  BY <1>1, <1>3 DEF Purge, NoRow, LibInv, RowInv, JobInv
<1> QED BY <1>2, <1>3 DEF Remove

LEMMA FilesOfDelete ==
  ASSUME LibInv, JobInv, FileInv, NEW a \in Actors, DeleteStep(a)
  PROVE  FileInv'
<1> USE DEF LibInv
<1>1. CASE RemoveRow(a)
  <2>1. work[a] \in Deletes BY <1>1, BusyWith DEF RemoveRow
  <2>2. /\ \A v \in Videos : row'[v].status = "downloaded" => row[v].status = "downloaded"
        /\ row'[work[a].video].status # "downloaded"
        /\ \A v \in Videos : job'[v] = "moved" => job[v] = "moved"
    BY <1>1, <2>1, RemovedRow DEF RemoveRow
  <2>3. UNCHANGED <<file, torn, left>> BY <1>1 DEF RemoveRow
  <2>4. /\ work[a].todo = <<"row", "file">>
        /\ work' = [work EXCEPT ![a] = [work[a] EXCEPT !.todo = <<"file">>]]
    <3>1. work[a].todo # <<"file">> BY <1>1 DEF RemoveRow, Busy
    <3>2. work[a].todo = <<"row", "file">> BY <2>1, <3>1 DEF Deletes
    <3>3. Len(work[a].todo) > 1 /\ Tail(work[a].todo) = <<"file">> BY <3>2
    <3> QED BY <1>1, <3>2, <3>3 DEF RemoveRow, Advance
  <2>5. ASSUME NEW b \in Actors, Busy(b, "file")', ~work'[b].overtaken
        PROVE  ~Downloaded(work[b].video)' /\ work'[b].video = work[b].video
    <3>1. CASE b = a
      <4>1. work'[b] = [work[a] EXCEPT !.todo = <<"file">>] BY <2>4, <3>1 DEF WorkInv
      <4>2. work'[b].video = work[a].video BY <2>1, <4>1 DEF Deletes
      <4> QED BY <2>2, <3>1, <4>2 DEF Downloaded
    <3>2. CASE b # a
      <4>1. work'[b] = work[b] BY <2>4, <3>2 DEF WorkInv
      <4>2. Busy(b, "file") BY <2>5, <4>1 DEF Busy
      <4>3. work[b].video \in Videos BY <4>2, BusyWith DEF Deletes
      <4> QED BY <2>2, <2>5, <4>1, <4>2, <4>3 DEF FileInv, Downloaded
    <3> QED BY <3>1, <3>2
  <2> QED BY <2>2, <2>3, <2>5 DEF FileInv, Downloaded
<1>2. CASE RemoveRowFails(a)
  <2>1. \A b \in Actors : work'[b] \in {work[b], Idle} BY <1>2 DEF RemoveRowFails, WorkInv
  <2> QED BY <1>2, <2>1, FilesKept DEF RemoveRowFails, rows
<1>3. CASE RemoveFile(a) \/ RemoveFileFails(a)
  <2>1. work[a] \in Deletes /\ Busy(a, "file")
    BY <1>3, BusyWith DEF RemoveFile, RemoveFileFails
  <2>2. work[a].todo = <<"file">>
    <3>1. work[a].todo # <<"row", "file">> BY <2>1 DEF Busy
    <3> QED BY <2>1, <3>1 DEF Deletes
  <2>3. work' = [work EXCEPT ![a] = Idle]
    <3>1. ~(Len(work[a].todo) > 1) BY <2>2
    <3> QED BY <1>3, <3>1 DEF RemoveFile, RemoveFileFails, Advance
  <2>4. \A b \in Actors : work'[b] \in {work[b], Idle} BY <2>3 DEF WorkInv
  <2>5. CASE RemoveFileFails(a)
    BY <2>4, <2>5, FilesKept DEF RemoveFileFails, rows
  <2>6. CASE RemoveFile(a)
    <3>1. UNCHANGED <<row, job, left>> /\ Unlink(work[a]) BY <2>6 DEF RemoveFile
    <3>2. ASSUME NEW v \in Videos, Downloaded(v) \/ job[v] = "moved"
          PROVE  v \in file' \/ v \in torn'
      <4>1. v \in file \/ v \in torn BY <3>2 DEF FileInv
      <4>2. CASE v # work[a].video BY <3>1, <4>1, <4>2 DEF Unlink
      <4>3. CASE v = work[a].video
        <5>1. work[a].overtaken \/ job[v] = "moved" BY <2>1, <3>2, <4>3 DEF FileInv
        <5> QED BY <3>1, <4>1, <4>3, <5>1 DEF Unlink
      <4> QED BY <4>2, <4>3
    <3>3. ASSUME NEW b \in Actors, Busy(b, "file")', ~work'[b].overtaken
          PROVE  ~Downloaded(work[b].video)' /\ work'[b] = work[b]
      <4>1. work'[b] = work[b] BY <2>4, <3>3 DEF Busy, Idle
      <4> QED BY <3>1, <3>3, <4>1 DEF FileInv, Downloaded, Busy
    <3> QED BY <3>1, <3>2, <3>3 DEF FileInv, Downloaded
  <2> QED BY <1>3, <2>5, <2>6
<1> QED BY <1>1, <1>2, <1>3 DEF DeleteStep

LEMMA FilesOfSweep ==
  ASSUME LibInv, FileInv, SweepBegins \/ SweepNext
  PROVE  FileInv'
<1> USE DEF LibInv, FileInv, Downloaded, Busy
<1>1. CASE SweepBegins
  <2>1. \A c \in left' : Head(c.todo) # "file"
    BY <1>1 DEF SweepBegins, Deleting, RowFirst
  <2> QED BY <1>1, <2>1 DEF SweepBegins, rows
<1>2. CASE SweepNext
  <2>1. left' \subseteq left /\ UNCHANGED <<row, job, file, torn>>
    BY <1>2 DEF SweepNext, PassOver, rows
  <2>2. UNCHANGED work \/ \E c \in left : work' = [work EXCEPT !["sweep"] = c]
    BY <1>2 DEF SweepNext
  <2>3. \A b \in Actors : work'[b] = work[b] \/ work'[b] \in left
    BY <2>2 DEF WorkInv
  <2> QED BY <2>1, <2>3
<1> QED BY <1>1, <1>2

LEMMA FilesOfDownload ==
  ASSUME LibInv, FileInv, NEW v \in Videos,
         FileArrives(v) \/ DownloadCommits(v) \/ DownloadFails(v) \/ Redownload(v) \/ Paste(v)
  PROVE  FileInv'
<1> USE DEF LibInv, switches, deletes, reach, rows
<1>0. row \in [Videos -> Rows] BY DEF RowInv
<1>1. CASE FileArrives(v)
  BY <1>1 DEF FileArrives, FileInv, Downloaded, Busy
<1>2. CASE DownloadCommits(v)
  <2>1. UNCHANGED <<file, torn, left>> /\ job[v] = "moved" BY <1>2 DEF DownloadCommits
  <2>2. ASSUME NEW u \in Videos, Downloaded(u)' \/ job'[u] = "moved"
        PROVE  (u \in file \/ u \in torn)'
    <3>1. CASE u = v BY <2>1, <3>1 DEF FileInv
    <3>2. CASE u # v
      <4>1. row'[u] = row[u] /\ (job'[u] = "moved" => job[u] = "moved")
        BY <1>0, <1>2, <3>2 DEF DownloadCommits
      <4> QED BY <2>1, <2>2, <4>1 DEF FileInv, Downloaded
    <3> QED BY <3>1, <3>2
  <2>3. ASSUME NEW a \in Actors, Busy(a, "file")', ~work'[a].overtaken
        PROVE  ~row'[work'[a].video].status = "downloaded"
    <3>1. ~(Busy(a, "file") /\ work[a].video = v)
      <4> SUFFICES ASSUME Busy(a, "file") /\ work[a].video = v PROVE FALSE OBVIOUS
      <4>1. work'[a] = [work[a] EXCEPT !.overtaken = TRUE] BY <1>2 DEF DownloadCommits
      <4>2. work[a] \in Deletes BY BusyWith
      <4> QED BY <2>3, <4>1, <4>2 DEF Deletes
    <3>2. work'[a] = work[a] BY <1>2, <3>1 DEF DownloadCommits
    <3>3. Busy(a, "file") BY <2>3, <3>2 DEF Busy
    <3>4. work[a].video \in Videos /\ work[a].video # v BY <3>1, <3>3, BusyWith DEF Deletes
    <3>5. row'[work[a].video] = row[work[a].video] BY <1>0, <1>2, <3>4 DEF DownloadCommits
    <3> QED BY <2>3, <3>2, <3>3, <3>5 DEF FileInv, Downloaded
  <2> QED BY <2>1, <2>2, <2>3 DEF FileInv, Downloaded
<1>3. CASE DownloadFails(v)
  <2>1. \A u \in Videos : row'[u].status = "downloaded" => row[u].status = "downloaded"
    BY <1>0, <1>3 DEF DownloadFails, Rows
  <2>2. \A u \in Videos : job'[u] = "moved" => job[u] = "moved" BY <1>3 DEF DownloadFails
  <2> QED BY <1>3, <2>1, <2>2, FilesKept DEF DownloadFails
<1>4. ASSUME NEW r \in Rows, Enqueue(v, r) PROVE FileInv'
  <2>1. \A u \in Videos : row'[u].status = "downloaded" => row[u].status = "downloaded"
    BY <1>0, <1>4 DEF Enqueue, Rows
  <2>2. \A u \in Videos : job'[u] = "moved" => job[u] = "moved" BY <1>4 DEF Enqueue
  <2> QED BY <1>4, <2>1, <2>2, FilesKept DEF Enqueue
<1>5. row[v] \in Rows /\ RestartRetentionClock(row[v]) \in Rows
  BY <1>0 DEF RestartRetentionClock, Rows, WatchStates
<1> QED BY <1>1, <1>2, <1>3, <1>4, <1>5 DEF Redownload, Paste

LEMMA FilesOfRest ==
  ASSUME LibInv, FileInv, NEW v \in Videos,
         \/ Ages(v) \/ WindowEnds(v) \/ LinkExpires(v) \/ GrantExpires(v)
         \/ SetFavorite(v) \/ SetWatched(v) \/ OpenPlayer(v) \/ RecordAccess(v)
         \/ MintGrant(v) \/ Share(v) \/ StopSharing(v)
  PROVE  FileInv'
<1> USE DEF LibInv, switches, deletes, reach, rows
<1>0. row \in [Videos -> Rows] BY DEF RowInv
<1>1. CASE Ages(v) \/ SetFavorite(v) \/ SetWatched(v)
  <2>1. \A u \in Videos : row'[u].status = row[u].status
    BY <1>0, <1>1 DEF Ages, SetFavorite, SetWatched, Rows
  <2> QED BY <1>1, <2>1, FilesKept DEF Ages, SetFavorite, SetWatched
<1>2. CASE WindowEnds(v) \/ LinkExpires(v) \/ GrantExpires(v) \/ OpenPlayer(v) \/ RecordAccess(v)
  BY <1>2, FilesKept DEF WindowEnds, LinkExpires, GrantExpires, OpenPlayer, RecordAccess
<1>3. CASE MintGrant(v) \/ Share(v) \/ StopSharing(v)
  BY <1>3, FilesKept DEF MintGrant, Share, StopSharing
<1> QED BY <1>1, <1>2, <1>3

LEMMA FilesOfOthers ==
  ASSUME LibInv, JobInv, FileInv,
         SwitchDirect \/ SwitchKeepReads \/ Crash \/ \E v \in Videos : PurgeKept(v) \/ Delete(v)
  PROVE  FileInv'
<1> USE DEF LibInv, switches, deletes, reach, rows
<1>1. CASE SwitchDirect \/ SwitchKeepReads
  BY <1>1, FilesKept DEF SwitchDirect, SwitchKeepReads
<1>2. CASE Crash
  BY <1>2 DEF Crash, FileInv, Downloaded, Busy, Idle
<1>3. ASSUME NEW v \in Videos, PurgeKept(v) PROVE FileInv'
  <2>1. /\ \A u \in Videos : row'[u].status = "downloaded" => row[u].status = "downloaded"
        /\ \A u \in Videos : job'[u] = "moved" => job[u] = "moved"
    BY <1>3 DEF PurgeKept, Purge, NoRow, RowInv, JobInv
  <2> QED BY <1>3, <2>1, FilesKept DEF PurgeKept
<1>4. ASSUME NEW v \in Videos, Delete(v) PROVE FileInv'
  <2>1. \A a \in Actors : work'[a] = work[a] \/ work'[a] = Deleting(v)
    BY <1>4 DEF Delete, WorkInv
  <2>2. Head(Deleting(v).todo) # "file" BY DEF Deleting, RowFirst
  <2>3. UNCHANGED <<row, file, job, torn, left>> BY <1>4 DEF Delete
  <2> QED BY <2>1, <2>2, <2>3 DEF FileInv, Downloaded, Busy
<1> QED BY <1>1, <1>2, <1>3, <1>4

LEMMA JobStep ==
  ASSUME JobInv, [Next]_vars
  PROVE  JobInv'
<1> USE DEF JobInv, rows
<1>1. CASE UNCHANGED vars BY <1>1 DEF vars
<1>2. ASSUME NEW a \in Actors, DeleteStep(a) PROVE JobInv'
  <2>1. CASE RemoveRow(a) BY <2>1 DEF RemoveRow, Remove, Tombstone, Purge
  <2>2. CASE RemoveRowFails(a) \/ RemoveFile(a) \/ RemoveFileFails(a)
    BY <2>2 DEF RemoveRowFails, RemoveFile, RemoveFileFails
  <2> QED BY <1>2, <2>1, <2>2 DEF DeleteStep
<1>3. CASE SweepBegins \/ SweepNext \/ SwitchDirect \/ SwitchKeepReads \/ Crash
  BY <1>3 DEF SweepBegins, SweepNext, SwitchDirect, SwitchKeepReads, Crash
<1>4. ASSUME NEW v \in Videos,
             FileArrives(v) \/ DownloadCommits(v) \/ DownloadFails(v) \/ Redownload(v)
             \/ Paste(v) \/ PurgeKept(v)
      PROVE  JobInv'
  BY <1>4 DEF FileArrives, DownloadCommits, DownloadFails, Redownload, Paste, Enqueue,
              PurgeKept, Purge
<1>5. ASSUME NEW v \in Videos,
             \/ Ages(v) \/ WindowEnds(v) \/ LinkExpires(v) \/ GrantExpires(v) \/ Delete(v)
             \/ SetFavorite(v) \/ SetWatched(v) \/ OpenPlayer(v) \/ RecordAccess(v)
             \/ MintGrant(v) \/ Share(v) \/ StopSharing(v)
      PROVE  JobInv'
  BY <1>5 DEF Ages, WindowEnds, LinkExpires, GrantExpires, Delete, SetFavorite, SetWatched,
              OpenPlayer, RecordAccess, MintGrant, Share, StopSharing
<1> QED BY <1>1, <1>2, <1>3, <1>4, <1>5 DEF Next

\* What the library calls downloaded, and what "now playing" offers, has its file,
\* through failed writes and unlinks and through crashes, unless a delete took a
\* file that a download had just brought.
THEOREM RowFirstIsSafe == Spec => []DownloadedHasFile
<1>1. Init => JobInv /\ FileInv
  BY DEF Init, JobInv, FileInv, Downloaded, Busy, Idle
<1>2. LibInv /\ JobInv /\ FileInv /\ [Next]_vars => FileInv'
  <2> SUFFICES ASSUME LibInv, JobInv, FileInv, [Next]_vars PROVE FileInv' OBVIOUS
  <2>1. CASE UNCHANGED vars BY <2>1, FilesKept DEF vars, LibInv
  <2>2. CASE Next
    BY <2>2, FilesOfDelete, FilesOfSweep, FilesOfDownload, FilesOfRest, FilesOfOthers
       DEF Next
  <2> QED BY <2>1, <2>2
<1>3. FileInv => DownloadedHasFile
  BY DEF FileInv, DownloadedHasFile, NowPlaying
<1>4. JobInv /\ [Next]_vars => JobInv' BY JobStep
<1> QED BY <1>1, <1>2, <1>3, <1>4, LibAlways, PTL DEF Spec

=============================================================================
