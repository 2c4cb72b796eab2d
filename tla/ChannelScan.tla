---------------------------- MODULE ChannelScan ----------------------------
(***************************************************************************)
(* How peeq watches one channel (package scan over the stores channels and *)
(* channelvideos): the scan loop claims a due subscription, lists the      *)
(* channel's two tabs, sorts every upload into the ledger and re-checks     *)
(* those it parked as unavailable, while handlers subscribe, unsubscribe,  *)
(* ask for a scan, skip one, add videos and delete the channel, and        *)
(* downloads end.                                                          *)
(*                                                                         *)
(* An action is one yt-dlp call with the writes its answer leads to, one   *)
(* listed upload, one write of enqueueAuto, one handler, or one outside    *)
(* event.  The three writes of enqueueAuto are apart because one of them   *)
(* can fail or be cut off.  Instants are "now", "hour" (a backoff) and     *)
(* "slot" (the next cycle).  Left out: the sixty seconds between channels, *)
(* other channels, titles, the dev-only anonymous hatch, FailMonitor, the  *)
(* thumbnail queue and the activity rows.  Of a date what is kept is which  *)
(* field of the listing has it, and whether it is before the baseline by    *)
(* more than backCatalogueGrace.                                            *)
(***************************************************************************)
EXTENDS Naturals, FiniteSets

CONSTANTS
  Uploads,      \* the videos the channel ever has
  OnStreams,    \* those listed on its /streams tab; the others are on /videos
  Existing,     \* those published before anybody followed it
  Short,        \* those below min_video_duration_seconds
  Airing,       \* streams that are published while they still run; they began
                \* before the channel was followed
  Early,        \* of both, those published or begun more than
                \* backCatalogueGrace before the channel was baselined
  Datings,      \* which date the listing has of each upload, in the cases
                \* considered: "timestamp", "release" (release_timestamp alone,
                \* the start of a broadcast) or "none"
  Wallable,     \* videos that can be members-only for a while
  MaxProbes,    \* maxUnavailableProbes: the probe budget of a pass
  DeadScanThreshold,
  MaxEvents     \* BOUND: disturbances of any kind: clicks, deletes, faults...

ASSUME ScanAssumption ==
  /\ OnStreams \subseteq Uploads /\ Existing \subseteq Uploads
  /\ Short \subseteq Uploads
  /\ Airing \subseteq OnStreams \ Existing /\ Wallable \subseteq Uploads
  /\ Early \subseteq Existing \cup Airing
  /\ Datings \subseteq [Uploads -> {"timestamp", "release", "none"}]
  /\ MaxProbes \in Nat \ {0} /\ DeadScanThreshold \in Nat \ {0}
  /\ MaxEvents \in Nat

VARIABLES
  added,     \* the channels row exists and has an added_at
  sub,       \* the subscriptions row, or NoSub
  gone,      \* auto_unsubscribes has a row
  ledger,    \* channel_videos.state, "none" without a row
  stamped,   \* parked rows whose unavailable_at is inside the recheck window
  vid,       \* the videos row: "half" is one enqueueAuto has not finished
  jobs,      \* active download jobs of the video
  \* the scan loop: its place, the row it claimed, what the tabs answered, the
  \* entries left, the ids listed or taken up, the ledger rows read before the
  \* loop, the probes spent, the entry at a call or a write
  pc, pass, heard, todo, listed, known, parked, probes, cur,
  \* YouTube: published, still running, walled off, out of the listing's
  \* reach, and the dates the listing has; the old uploads that an inherited
  \* baseline never listed
  up, live, walled, aged, dating, missed,
  healthy,   \* the cookie is valid
  paused,    \* the kill-switch
  left,      \* what the bounds have left
  \* history: dead verdicts since the channel was last seen alive, a reason to
  \* claim it, videos a job was ever made for, old videos added by
  \* hand, a delete under a running pass
  deadRun, earned, everQueued, pasted, crossed

subVars   == <<added, sub, gone>>
ledgVars  == <<ledger, stamped>>
vidVars   == <<vid, jobs, everQueued, pasted>>
passVars  == <<pass, heard, todo, listed, known, parked, probes, cur>>
worldVars == <<up, live, walled, aged, dating, missed>>
gateVars  == <<healthy, paused>>
histVars  == <<deadRun, earned, crossed>>
vars == <<subVars, ledgVars, vidVars, pc, passVars, worldVars, gateVars, left,
          histVars>>

NoSub  == [due |-> "never"]
NoPass == [asked |-> 0]
None   == "none"

\* A ledger entry's state; the reason and the instants of an entry are left out.
States == {None, "seen", "pending", "queued", "unavailable"}

Spend == left > 0 /\ left' = left - 1

Subscribed == sub # NoSub

\* A fresh subscriptions row: claimable at once, nothing known of it yet.
FreshSub == [auto |-> FALSE, base |-> FALSE, due |-> "now", asked |-> 0,
             dead |-> 0, noStreams |-> "unknown"]

-----------------------------------------------------------------------------
(* The predicates of listing.go and scan/recheck.go.                       *)

\* Gate.Open with the hatch shut.
GateOpen == healthy /\ ~paused

\* Variant: a missing /streams tab is never asked for again.
SkipStreamsForGood(p) == p.base /\ p.asked = 0 /\ p.noStreams # "unknown"

\* streamsTabKnownMissing: never on a first pass or a requested one.
SkipStreams(p) == p.base /\ p.asked = 0 /\ p.noStreams = "recent"

\* The date the listing has is that of a video published, or a broadcast begun,
\* before the channel was followed, by more than the grace; an upload with no
\* date never is.  The timestamp of a broadcast is that of its end: on the air it
\* has the release_timestamp alone.
IsBackCatalogue(v) ==
  /\ v \in Early
  /\ \/ dating[v] = "release"
     \/ dating[v] = "timestamp" /\ v \in Existing \cup live

IsUnfinishedStream(v) == v \in live

\* Long enough; the first half repeats an earlier case of the switch.
PassesFilters(v) == ~IsUnfinishedStream(v) /\ v \notin Short

\* What the listing can say of an upload's availability: flat listings often
\* carry no badge.
Badges(v) == {"silent", IF v \in walled THEN "gated" ELSE "open"}

\* Variant: the budget is off by one.
MayProbeOneLess(v) == probes + 1 < MaxProbes /\ v \notin stamped

\* recheckDue and the budget of probeAvailability.
MayProbe(v) == probes < MaxProbes /\ v \notin stamped

Tab(streams) == {v \in up \ aged : (v \in OnStreams) = streams}

-----------------------------------------------------------------------------
(* The channel's ledger entries for new uploads: the switch in scanOnce.   *)

\* Variant: the publish date is judged before the broadcast has ended.
NewStateDateFirst(v, badge) ==
  IF ~pass.base \/ IsBackCatalogue(v) THEN "seen"
  ELSE IF IsUnfinishedStream(v) THEN "skip"
  ELSE IF ~PassesFilters(v) THEN "seen"
  ELSE IF badge = "gated" THEN "unavailable"
  ELSE IF pass.auto THEN "queued" ELSE "pending"

\* The state a new upload is given, in the order of the cases; "skip" writes
\* nothing, so that a later pass meets the upload again.
NewState(v, badge) ==
  IF ~pass.base THEN "seen"
  ELSE IF IsUnfinishedStream(v) THEN "skip"
  ELSE IF IsBackCatalogue(v) \/ ~PassesFilters(v) THEN "seen"
  ELSE IF badge = "gated" THEN "unavailable"
  ELSE IF pass.auto THEN "queued" ELSE "pending"

-----------------------------------------------------------------------------
Init ==
  /\ added = TRUE /\ gone = FALSE
  \* either just subscribed, or baselined by a release that listed /videos only,
  \* or that took two unreadable tabs for an empty channel
  /\ \E old \in BOOLEAN, auto \in BOOLEAN :
       /\ sub = [FreshSub EXCEPT !.base = old, !.auto = auto]
       /\ missed \in IF old THEN {Existing \cap OnStreams, Existing} ELSE {{}}
       /\ ledger = [v \in Uploads |->
                      IF old /\ v \in Existing \ missed THEN "seen" ELSE None]
  /\ dating \in Datings
  /\ stamped = {}
  /\ vid = [v \in Uploads |-> None] /\ jobs = [v \in Uploads |-> 0]
  /\ pc = "idle" /\ pass = NoPass /\ heard = FALSE /\ todo = {}
  /\ listed = {} /\ known = {} /\ parked = {} /\ probes = 0 /\ cur = None
  /\ up = Existing /\ live = {} /\ walled = {} /\ aged = {}
  /\ healthy = TRUE /\ paused = FALSE
  /\ left = MaxEvents
  /\ deadRun = 0 /\ earned = TRUE /\ everQueued = {} /\ pasted = {}
  /\ crossed = FALSE

-----------------------------------------------------------------------------
(* The scan loop (scheduler.go, pass.go).                                  *)

\* ClaimDue's WHERE.
ClaimDue == Subscribed /\ sub.due = "now"

\* Run: the gates, then ClaimDue.  The row it read is never read again.
Claim ==
  /\ pc = "idle" /\ GateOpen /\ ClaimDue
  /\ pc' = "uploads" /\ pass' = sub
  /\ heard' = FALSE /\ probes' = 0
  /\ earned' = FALSE
  /\ UNCHANGED <<subVars, ledgVars, vidVars, todo, listed, known, parked, cur,
                 worldVars, gateVars, left, deadRun, crossed>>

EndPass == pc' = "idle" /\ pass' = NoPass /\ todo' = {} /\ cur' = None
           /\ heard' = FALSE /\ listed' = {} /\ known' = {} /\ parked' = {} /\ probes' = 0

\* Takes the marker away if the claim had seen a request and the row still
\* carries that one.
ClearScanRequest(s) ==
  [s EXCEPT !.asked = IF pass.asked # 0 /\ @ = pass.asked THEN 0 ELSE @]

\* Variant: a failed pass leaves its instant in the past.
NotBackedOff(s) == ClearScanRequest(s)

\* Backoff, then ClearScanRequest.
BackedOff(s) == [ClearScanRequest(s) EXCEPT !.due = "hour"]

\* RecordDeadScan counts only while access is healthy.
Counted == healthy /\ ~paused

\* Variant: a verdict that the channel exists keeps the count.
DeadCountKept(kind) ==
  IF kind = "deleted" /\ Counted THEN sub.dead + 1 ELSE sub.dead

\* What a verdict makes of the count of dead scans (staleUnsubscribe).
DeadCount(kind) ==
  CASE kind = "walled" -> 0
    [] kind = "deleted" /\ Counted -> sub.dead + 1
    [] OTHER -> sub.dead

\* AutoUnsubscribe: the row and the record of why, in one transaction.
AutoUnsubscribe == sub' = NoSub /\ gone' = TRUE

\* A pass that failed: "access" is a bot block or an expired cookie, "paused" the
\* kill-switch, thrown by the refusal of a host, "walled" a terminal verdict that
\* the channel exists, "deleted" that it does not, and "other" everything that
\* writes nothing of its own (staleUnsubscribe, scanChannel).
FailPass(kind) ==
  LET dead == DeadCount(kind)
      strike == kind = "deleted" /\ Counted /\ Subscribed
                /\ dead >= DeadScanThreshold
  IN /\ healthy' = (healthy /\ kind # "access")
     /\ paused' = (paused \/ kind = "paused")
     /\ IF strike THEN AutoUnsubscribe
        ELSE /\ sub' = IF Subscribed THEN BackedOff([sub EXCEPT !.dead = dead])
                       ELSE NoSub
             /\ UNCHANGED gone
     /\ deadRun' = CASE kind = "walled" -> 0
                     [] kind = "deleted" /\ Counted /\ Subscribed -> deadRun + 1
                     [] OTHER -> deadRun
     /\ EndPass
     /\ UNCHANGED <<added, earned, crossed>>

Kinds == {"access", "paused", "walled", "deleted", "other"}

CallFails ==
  /\ pc \in {"uploads", "streams"}
  /\ \E kind \in Kinds :
       /\ kind \notin {"walled", "deleted"} => left > 0
       /\ left' = IF kind \in {"walled", "deleted"} THEN left ELSE left - 1
       \* a failed /streams call is swallowed after the first pass, unless it
       \* is about the whole account
       /\ pc = "streams" /\ pass.base => kind \in {"access", "paused"}
       /\ FailPass(kind)
  /\ UNCHANGED <<ledgVars, vidVars, worldVars>>

\* GetMany: the rows the ledger has of these ids.
GetMany(ids) == {v \in ids : ledger[v] # None}

\* The loop starts from one batched read of the ledger.
StartLoop(entries) ==
  /\ pc' = "loop" /\ todo' = entries /\ listed' = entries
  /\ known' = GetMany(entries)
  /\ parked' = {v \in entries : ledger[v] = "unavailable"}

\* ChannelVideos answers, or says there is no such tab; skipStreams holds only
\* for a tab that answered.
ListUploads ==
  /\ pc = "uploads"
  /\ \E missing \in BOOLEAN :
       /\ missing => Tab(FALSE) = {}
       /\ heard' = ~missing
       /\ IF SkipStreams(pass) /\ ~missing
          THEN StartLoop(Tab(FALSE))
          ELSE pc' = "streams" /\ todo' = Tab(FALSE)
               /\ UNCHANGED <<listed, known, parked>>
  /\ UNCHANGED <<subVars, ledgVars, vidVars, pass, probes, cur, worldVars,
                 gateVars, left, histVars>>

\* yt-dlp cannot answer: both tabs are reported missing whatever they hold.
BlindUploads ==
  /\ pc = "uploads" /\ Spend
  /\ heard' = FALSE /\ todo' = {} /\ pc' = "blind"
  /\ UNCHANGED <<subVars, ledgVars, vidVars, pass, listed, known, parked, probes,
                 cur, worldVars, gateVars, histVars>>

\* An UPDATE, which finds no row of a channel nobody follows any more.
SetStreamsMissing(at) ==
  IF Subscribed THEN [sub EXCEPT !.noStreams = at] ELSE sub

\* noteStreamsTab.
Noted(tab) ==
  CASE tab = "missing" -> SetStreamsMissing("recent")
    [] tab = "answered" /\ pass.noStreams # "unknown" -> SetStreamsMissing("unknown")
    [] OTHER -> sub

\* Variant: two refused tabs pass for an empty channel.
TooLittleSeenFailedOnly(tab) == ~pass.base /\ tab = "failed"

\* What a first pass refuses to be completed on: a /streams call that failed,
\* or no tab that answered.
TooLittleSeen(tab) ==
  ~pass.base /\ (tab = "failed" \/ (tab = "missing" /\ ~heard))

\* ChannelStreams: an answer, a missing tab, or a failure that leaves the
\* uploads alone.  A first pass fails on the last, and when no tab answered.
ListStreams ==
  /\ pc \in {"streams", "blind"}
  /\ \E tab \in {"answered", "missing", "failed"} :
       /\ pc = "blind" => tab = "missing"
       /\ pc = "streams" /\ tab = "missing" => Tab(TRUE) = {}
       /\ tab = "failed" => left > 0
       /\ left' = IF tab = "failed" THEN left - 1 ELSE left
       /\ IF TooLittleSeen(tab)
          THEN FailPass("other")
          ELSE /\ StartLoop(todo \cup IF tab = "answered" THEN Tab(TRUE) ELSE {})
               /\ sub' = Noted(tab)
               /\ UNCHANGED <<added, gone, gateVars, histVars, pass, heard,
                              probes, cur>>
  /\ UNCHANGED <<ledgVars, vidVars, worldVars>>

-----------------------------------------------------------------------------
(* One entry of the listing (pass.go's loop).                              *)

Restamp(v) == ledger' = IF ledger[v] = None THEN ledger
                        ELSE [ledger EXCEPT ![v] = "unavailable"]

\* SetState, a no-op without a row; it clears unavailable_at.
SetState(v, s) ==
  /\ ledger' = IF ledger[v] = None THEN ledger ELSE [ledger EXCEPT ![v] = s]
  /\ stamped' = stamped \ {v}

\* revive: a video that once finished downloading is only settled; else the
\* channel's setting decides, as for a new upload.
Revive(v) ==
  IF vid[v] = "downloaded"
  THEN SetState(v, "queued") /\ pc' = "loop" /\ UNCHANGED cur
  ELSE IF pass.auto
  THEN pc' = "row" /\ cur' = v /\ UNCHANGED ledgVars
  ELSE SetState(v, "pending") /\ pc' = "loop" /\ UNCHANGED cur

\* Insert; unavailable_at is stamped with the state.
Insert(v, s) ==
  /\ ledger' = [ledger EXCEPT ![v] = s]
  /\ stamped' = IF s = "unavailable" THEN stamped \cup {v} ELSE stamped

\* A listed upload the ledger does not hold.  Insert is refused when the
\* channel is gone.
NewEntry(v) ==
  \/ /\ vid[v] # None
     /\ UNCHANGED <<subVars, ledgVars, gateVars, histVars, pc, pass, heard,
                    listed, known, parked, probes, cur>>
     /\ todo' = todo \ {v}
  \/ /\ vid[v] = None
     /\ \E badge \in Badges(v) :
          LET s == NewState(v, badge) IN
          CASE s = "queued" ->
                 /\ pc' = "row" /\ cur' = v /\ todo' = todo \ {v}
                 /\ UNCHANGED <<subVars, ledgVars, gateVars, histVars, pass,
                                heard, listed, known, parked, probes>>
            [] s # "queued" /\ s # "skip" /\ ~added ->
                 FailPass("other") /\ UNCHANGED ledgVars
            [] OTHER ->
                 /\ IF s = "skip" THEN UNCHANGED ledgVars ELSE Insert(v, s)
                 /\ todo' = todo \ {v}
                 /\ UNCHANGED <<subVars, gateVars, histVars, pc, pass, heard,
                                listed, known, parked, probes, cur>>

\* recheckUnavailable: a badge restamps, an ungated listing revives, silence
\* asks yt-dlp when the window and the budget allow it.
ParkedEntry(v) ==
  /\ todo' = todo \ {v}
  /\ \E badge \in Badges(v) :
       \/ /\ badge = "gated" /\ Restamp(v) /\ stamped' = stamped \cup {v}
          /\ UNCHANGED <<pc, cur, probes>>
       \/ badge = "open" /\ Revive(v) /\ UNCHANGED probes
       \/ /\ badge = "silent" /\ MayProbe(v)
          /\ pc' = "probe" /\ cur' = v /\ probes' = probes + 1
          /\ UNCHANGED ledgVars
       \/ /\ badge = "silent" /\ ~MayProbe(v)
          /\ UNCHANGED <<pc, cur, probes, ledgVars>>
  /\ UNCHANGED <<subVars, gateVars, histVars, pass, heard, listed, known, parked>>

\* Entries are taken in the order of the listing.
NextEntry == CHOOSE v \in todo : TRUE

Entry ==
  /\ pc = "loop" /\ todo # {}
  /\ LET v == NextEntry IN
       \/ v \notin known /\ NewEntry(v)
       \/ v \in parked /\ ParkedEntry(v)
       \/ /\ v \in known \ parked
          /\ todo' = todo \ {v}
          /\ UNCHANGED <<subVars, ledgVars, gateVars, histVars, pc, pass, heard,
                         listed, known, parked, probes, cur>>
  /\ UNCHANGED <<vidVars, worldVars, left>>

\* probeAvailability's call returns: reachable, still walled off, or no answer.
ProbeAnswers ==
  /\ pc = "probe"
  /\ \/ cur \notin walled /\ Revive(cur)
     \/ /\ cur \in walled /\ Restamp(cur) /\ stamped' = stamped \cup {cur}
        /\ pc' = "loop" /\ UNCHANGED cur
  /\ UNCHANGED <<subVars, vidVars, pass, heard, todo, listed, known, parked, probes,
                 worldVars, gateVars, left, histVars>>

ProbeFails ==
  /\ pc = "probe" /\ Spend
  /\ pc' = "loop"
  /\ UNCHANGED <<subVars, ledgVars, vidVars, passVars, worldVars, gateVars,
                 histVars>>

\* recheckParkedOffListing: rows the listing no longer returned, after it.
OffListing ==
  /\ pc = "loop" /\ todo = {} /\ pass.base
  /\ \E v \in Uploads :
       /\ ledger[v] = "unavailable" /\ v \notin listed
       /\ MayProbe(v)
       /\ pc' = "probe" /\ cur' = v /\ probes' = probes + 1
       /\ known' = known \cup {v} /\ listed' = listed \cup {v}
  /\ UNCHANGED <<subVars, ledgVars, vidVars, pass, heard, todo, parked,
                 worldVars, gateVars, left, histVars>>

-----------------------------------------------------------------------------
(* enqueueAuto (slots.go), then the ledger row, last.                      *)

\* Upsert and SetStatus, unless the channel is no longer an added one.
AutoRow ==
  /\ pc = "row"
  /\ IF added
     THEN vid' = [vid EXCEPT ![cur] = "half"] /\ pc' = "job"
     ELSE pc' = "record" /\ UNCHANGED vid
  /\ UNCHANGED <<subVars, ledgVars, jobs, everQueued, pasted, passVars,
                 worldVars, gateVars, left, histVars>>

\* Jobs.Enqueue inserts without asking for an active job; the row it refers to
\* is gone when the channel was deleted.
AutoJob ==
  /\ pc = "job"
  /\ IF vid[cur] = None
     THEN FailPass("other") /\ UNCHANGED vidVars
     ELSE /\ vid' = [vid EXCEPT ![cur] = "queued"]
          /\ jobs' = [jobs EXCEPT ![cur] = IF @ < 2 THEN @ + 1 ELSE @]
          /\ everQueued' = everQueued \cup {cur}
          /\ pc' = "record"
          /\ UNCHANGED <<subVars, gateVars, histVars, passVars, pasted>>
  /\ UNCHANGED <<ledgVars, worldVars, left>>

\* Ledger.Insert of a new upload, SetState of a revived one.
AutoRecord ==
  /\ pc = "record"
  /\ IF cur \notin known /\ ~added
     THEN FailPass("other") /\ UNCHANGED ledgVars
     ELSE /\ IF cur \in known THEN SetState(cur, "queued")
             ELSE Insert(cur, "queued")
          /\ pc' = "loop"
          /\ UNCHANGED <<subVars, gateVars, histVars, passVars>>
  /\ UNCHANGED <<vidVars, worldVars, left>>

\* One of those writes fails: the pass does, with what is already written.
WriteFails ==
  /\ pc \in {"row", "job", "record"} /\ Spend
  /\ FailPass("other")
  /\ UNCHANGED <<ledgVars, vidVars, worldVars>>

\* Variant: MarkScanned without the compare-and-set.
ScannedBlindly(s) ==
  [s EXCEPT !.base = @ \/ ~pass.base, !.due = "slot", !.asked = 0, !.dead = 0]

\* Variant: the marker is left to the failure path.
ScannedKeepingRequest(s) ==
  [s EXCEPT !.base = @ \/ ~pass.base, !.dead = 0,
            !.due = IF s.asked = pass.asked THEN "slot" ELSE @]

\* MarkScanned: the schedule and the marker move only if the row still carries
\* the request the claim saw.  Then ResetDeadScan.
Scanned(s) ==
  [s EXCEPT !.base = @ \/ ~pass.base, !.dead = 0,
            !.due = IF s.asked = pass.asked THEN "slot" ELSE @,
            !.asked = IF @ = pass.asked THEN 0 ELSE @]

\* The end of a pass, once no parked row off the listing may be probed.
Finish ==
  /\ pc = "loop" /\ todo = {}
  /\ pass.base => \A v \in Uploads :
       ~(ledger[v] = "unavailable" /\ v \notin listed /\ MayProbe(v))
  /\ sub' = IF Subscribed THEN Scanned(sub) ELSE NoSub
  /\ deadRun' = 0
  /\ EndPass
  /\ UNCHANGED <<added, gone, ledgVars, vidVars, worldVars, gateVars, left,
                 earned, crossed>>

-----------------------------------------------------------------------------
(* Handlers (httpapi/channels_handlers.go, schedule_skip_handlers.go).     *)

\* RequestScan keeps the first request's instant.
RequestScan(s) == [s EXCEPT !.due = "now", !.asked = IF @ = 0 THEN left ELSE @]

\* handleChannelScan: refused while a gate is shut.
ScanNow ==
  /\ Subscribed /\ GateOpen /\ Spend
  /\ sub' = RequestScan(sub)
  /\ earned' = TRUE
  /\ UNCHANGED <<added, gone, ledgVars, vidVars, pc, passVars, worldVars,
                 gateVars, deadRun, crossed>>

\* handleChannelSkipScan, without and with an instant to go back to.
SkipScan ==
  /\ Subscribed /\ Spend
  /\ \/ sub' = [sub EXCEPT !.due = "slot", !.asked = 0] /\ UNCHANGED earned
     \/ sub' = [sub EXCEPT !.due = "now"] /\ earned' = TRUE
  /\ UNCHANGED <<added, gone, ledgVars, vidVars, pc, passVars, worldVars,
                 gateVars, deadRun, crossed>>

\* handleChannelsSubscribe and the subscribe of handleChannelsPost (which adds
\* the channel first): the record of an automatic unsubscribe stays.
Subscribe ==
  /\ ~Subscribed
  /\ sub' = FreshSub /\ added' = TRUE
  /\ earned' = TRUE /\ deadRun' = 0
  /\ UNCHANGED <<gone, ledgVars, vidVars, pc, passVars, worldVars, gateVars,
                 left, crossed>>

\* handleChannelsResubscribe: the record first, then the subscription.
Resubscribe ==
  /\ added
  /\ gone' = FALSE
  /\ sub' = IF Subscribed THEN sub ELSE FreshSub
  /\ earned' = (earned \/ ~Subscribed)
  /\ deadRun' = IF Subscribed THEN deadRun ELSE 0
  /\ UNCHANGED <<added, ledgVars, vidVars, pc, passVars, worldVars, gateVars,
                 left, crossed>>

\* handleChannelsUnsubscribe.
Unsubscribe ==
  /\ Subscribed /\ Spend
  /\ sub' = NoSub
  /\ UNCHANGED <<added, gone, ledgVars, vidVars, pc, passVars, worldVars,
                 gateVars, histVars>>

\* UpdateConfig.
UpdateConfig(s, auto) == [s EXCEPT !.auto = auto]

\* handleChannelsPut's autodownload.
ToggleAuto ==
  /\ Subscribed /\ Spend
  /\ \E auto \in BOOLEAN : sub' = UpdateConfig(sub, auto)
  /\ UNCHANGED <<added, gone, ledgVars, vidVars, pc, passVars, worldVars,
                 gateVars, histVars>>

\* One transaction that takes the channel's videos, their jobs, the
\* subscription, the ledger and the record.
DeleteCascade ==
  /\ added' = FALSE /\ sub' = NoSub /\ gone' = FALSE
  /\ ledger' = [v \in Uploads |-> None] /\ stamped' = {}
  /\ vid' = [v \in Uploads |-> None] /\ jobs' = [v \in Uploads |-> 0]

\* handleChannelsDelete.
DeleteChannel ==
  /\ added /\ Spend /\ DeleteCascade
  /\ everQueued' = {} /\ pasted' = {} /\ missed' = {}
  /\ crossed' = (crossed \/ pc # "idle")
  /\ UNCHANGED <<pc, passVars, up, live, walled, aged, dating, gateVars, deadRun,
                 earned>>

\* Adding a video by hand (UpsertAndEnqueueDownload): a pending ledger row
\* moves along, a parked one stays.
Paste(v) ==
  /\ v \in up /\ vid[v] \in {None, "half"} /\ Spend
  /\ vid' = [vid EXCEPT ![v] = "queued"]
  /\ jobs' = [jobs EXCEPT ![v] = IF @ < 2 THEN @ + 1 ELSE @]
  /\ everQueued' = everQueued \cup {v} /\ pasted' = pasted \cup ({v} \cap Existing)
  /\ ledger' = IF ledger[v] = "pending"
               THEN [ledger EXCEPT ![v] = "queued"] ELSE ledger
  /\ UNCHANGED <<subVars, stamped, pc, passVars, worldVars, gateVars, histVars>>

\* A download ends: with the file, or walled off, when a video known to the
\* ledger that never finished is parked and its row discarded (Worker.park).
DownloadEnds(v) ==
  /\ jobs[v] > 0
  /\ jobs' = [jobs EXCEPT ![v] = @ - 1]
  /\ \/ /\ v \notin walled /\ vid' = [vid EXCEPT ![v] = "downloaded"]
        /\ UNCHANGED <<ledgVars, everQueued, pasted>>
     \/ /\ v \in walled
        /\ IF vid[v] = "queued" /\ ledger[v] # None
           THEN /\ ledger' = [ledger EXCEPT ![v] = "unavailable"]
                /\ stamped' = stamped \cup {v}
                /\ vid' = [vid EXCEPT ![v] = None]
           ELSE UNCHANGED <<ledgVars, vid>>
        /\ UNCHANGED <<everQueued, pasted>>
  /\ UNCHANGED <<subVars, pc, passVars, worldVars, gateVars, left, histVars>>

-----------------------------------------------------------------------------
(* Time, YouTube, the gates and the process.                               *)

DueComes ==
  /\ Subscribed /\ sub.due \in {"hour", "slot"}
  /\ sub' = [sub EXCEPT !.due = "now"] /\ earned' = TRUE
  /\ UNCHANGED <<added, gone, ledgVars, vidVars, pc, passVars, worldVars,
                 gateVars, left, deadRun, crossed>>

\* unavailableRecheckWindow and streamsTabRecheck run out.
WindowEnds(v) ==
  /\ v \in stamped /\ stamped' = stamped \ {v}
  /\ UNCHANGED <<subVars, ledger, vidVars, pc, passVars, worldVars, gateVars,
                 left, histVars>>

WeekEnds ==
  /\ Subscribed /\ sub.noStreams = "recent"
  /\ sub' = [sub EXCEPT !.noStreams = "old"]
  /\ UNCHANGED <<added, gone, ledgVars, vidVars, pc, passVars, worldVars,
                 gateVars, left, histVars>>

Publish(v) ==
  /\ v \notin up
  /\ up' = up \cup {v}
  /\ live' = IF v \in Airing THEN live \cup {v} ELSE live
  /\ walled' \in {walled, walled \cup ({v} \cap Wallable)}
  /\ UNCHANGED <<subVars, ledgVars, vidVars, pc, passVars, aged, dating, missed,
                 gateVars, left, histVars>>

StreamSettles(v) ==
  /\ v \in live /\ live' = live \ {v}
  /\ UNCHANGED <<subVars, ledgVars, vidVars, pc, passVars, up, walled, aged,
                 dating, missed, gateVars, left, histVars>>

\* Members-only for a while, and open again.
WallMoves(v) ==
  /\ \/ v \in walled /\ walled' = walled \ {v} /\ UNCHANGED left
     \/ v \in (Wallable \cap up) \ walled /\ Spend
        /\ walled' = walled \cup {v}
  /\ UNCHANGED <<subVars, ledgVars, vidVars, pc, passVars, up, live, aged,
                 dating, missed, gateVars, histVars>>

\* The listing is capped: an upload falls out of its reach.
AgesOut(v) ==
  /\ v \in up \ aged /\ ledger[v] = "unavailable" /\ Spend
  /\ aged' = aged \cup {v}
  /\ UNCHANGED <<subVars, ledgVars, vidVars, pc, passVars, up, live, walled,
                 dating, missed, gateVars, histVars>>

\* The cookie goes bad elsewhere, or the kill-switch is thrown; somebody
\* pastes a cookie, or clears it.
Outage ==
  /\ Spend
  /\ \/ healthy' = FALSE /\ UNCHANGED paused
     \/ paused' = TRUE /\ UNCHANGED healthy
  /\ UNCHANGED <<subVars, ledgVars, vidVars, pc, passVars, worldVars, histVars>>

Repair ==
  /\ ~GateOpen /\ healthy' = TRUE /\ paused' = FALSE
  /\ UNCHANGED <<subVars, ledgVars, vidVars, pc, passVars, worldVars, left,
                 histVars>>

\* The process stops, or is killed: a pass writes nothing more, and its request
\* stays for the next boot.
Stop ==
  /\ pc # "idle" /\ Spend
  /\ EndPass /\ earned' = TRUE
  /\ UNCHANGED <<subVars, ledgVars, vidVars, worldVars, gateVars, deadRun,
                 crossed>>

-----------------------------------------------------------------------------
Pass == \/ Claim \/ CallFails \/ ListUploads \/ BlindUploads \/ ListStreams
        \/ Entry \/ ProbeAnswers \/ ProbeFails \/ OffListing
        \/ AutoRow \/ AutoJob \/ AutoRecord \/ WriteFails \/ Finish

Handlers == \/ ScanNow \/ SkipScan \/ Subscribe \/ Resubscribe \/ Unsubscribe
            \/ ToggleAuto \/ DeleteChannel
            \/ \E v \in Uploads : Paste(v) \/ DownloadEnds(v)

World == \/ DueComes \/ WeekEnds \/ Outage \/ Repair \/ Stop
         \/ \E v \in Uploads : \/ Publish(v) \/ StreamSettles(v)
                               \/ WallMoves(v) \/ AgesOut(v) \/ WindowEnds(v)

Next == Pass \/ Handlers \/ World

\* The loop keeps running and a call it makes returns; a call that can succeed
\* does so in the end; clocks advance, broadcasts end, somebody repairs the
\* access.  Nothing is assumed of handlers or of the walls.
Fairness ==
  /\ WF_vars(Pass)
  /\ SF_vars(ListUploads) /\ SF_vars(ListStreams /\ todo' # {} /\ left' = left)
  /\ WF_vars(DueComes) /\ WF_vars(WeekEnds)
  /\ WF_vars(Repair)
  /\ \A v \in Uploads :
       /\ WF_vars(StreamSettles(v))
       /\ WF_vars(WindowEnds(v))

Spec == Init /\ [][Next]_vars /\ Fairness

-----------------------------------------------------------------------------
SubRows == [auto : BOOLEAN, base : BOOLEAN, due : {"now", "hour", "slot"},
            asked : 0..MaxEvents, dead : 0..(DeadScanThreshold - 1),
            noStreams : {"unknown", "recent", "old"}]

TypeOK ==
  /\ added \in BOOLEAN /\ gone \in BOOLEAN
  /\ sub \in SubRows \cup {NoSub}
  /\ ledger \in [Uploads -> States]
  /\ stamped \subseteq Uploads
  /\ vid \in [Uploads -> {None, "half", "queued", "downloaded"}]
  /\ jobs \in [Uploads -> 0..2]
  /\ pc \in {"idle", "uploads", "streams", "blind", "loop", "probe", "row",
             "job", "record"}
  /\ pass \in SubRows \cup {NoPass} /\ heard \in BOOLEAN
  /\ todo \subseteq Uploads /\ listed \subseteq Uploads
  /\ known \subseteq listed /\ parked \subseteq known
  /\ probes \in 0..MaxProbes /\ cur \in Uploads \cup {None}
  /\ up \subseteq Uploads /\ live \subseteq up /\ walled \subseteq Uploads
  /\ aged \subseteq up /\ dating \in Datings /\ missed \subseteq Existing
  /\ healthy \in BOOLEAN /\ paused \in BOOLEAN
  /\ left \in 0..MaxEvents
  /\ deadRun \in 0..DeadScanThreshold
  /\ earned \in BOOLEAN /\ everQueued \subseteq Uploads
  /\ pasted \subseteq Existing /\ crossed \in BOOLEAN

-----------------------------------------------------------------------------
\* What was on the channel before somebody followed it never reaches the inbox
\* or the download queue, unless somebody adds it by hand.  A complete first pass
\* is enough for it, whichever tab the upload is on and whether or not it has a
\* date, however that pass was cut short (listChannel's strictness on a first
\* pass).  A baseline inherited from a release that listed less leaves it to the
\* dates: what they do not tell apart, an undated upload or one within the grace,
\* is offered, as isBackCatalogue's comment accepts.  A channel deleted and added
\* again under a running pass is out: that pass goes on with the old row's
\* baseline.
OldStaysOut ==
  crossed \/ \A v \in Existing :
               \/ ledger[v] \in {None, "seen"}
               \/ v \in pasted
               \/ v \in missed /\ (v \notin Early \/ dating[v] = "none")

\* A new upload that is long enough gets the terminal state 'seen' from a first
\* pass only: a broadcast met while it still runs is not buried (the order of
\* scanOnce's cases).  One kind is buried by a later pass, after it has settled: a
\* broadcast begun so long before the baseline that its start is back catalogue,
\* when the listing dates it by that start alone (firstTimestamp's fallback).
NewIsNotBuried ==
  [][\A v \in Uploads \ (Existing \cup Short) :
       ledger[v] # "seen" /\ ledger'[v] = "seen" /\ pass.base
       => v \in Early \ live /\ dating[v] = "release"]_vars

\* The claim of the comments on isBackCatalogue (scan/listing.go:196-201) and on
\* the order of the cases (scan/pass.go:149-151): no broadcast that settles after
\* the channel was followed is lost as 'seen' to a later pass.  Does not hold: one
\* dated by its start alone, well before the baseline, is lost once it settles.
BroadcastIsNotBuried ==
  [][\A v \in Airing \ Short :
       ledger[v] # "seen" /\ ledger'[v] = "seen" => ~pass.base]_vars

PassEnds == pc # "idle" /\ pc' = "idle"

\* A pass answers the request its claim saw and no other: one made during an
\* automatic pass survives it, clean or failed, and after a clean one the
\* channel is claimable at once (MarkScanned, ClearScanRequest).
OtherRequestSurvives ==
  [][PassEnds /\ Subscribed /\ sub' # NoSub /\ sub.asked # pass.asked
     => /\ sub'.asked = sub.asked
        /\ sub'.due \in {sub.due, "hour"}]_vars

\* peeq unsubscribes by itself only after DeadScanThreshold verdicts "deleted"
\* of this subscription, all while access was healthy, with no sign of life of
\* the channel between them (staleUnsubscribe).
DeadOnlyInARow == [][~gone /\ gone' => deadRun' >= DeadScanThreshold]_vars

\* A channel is not listed twice for one reason: between two claims its instant
\* came, somebody asked, it was subscribed anew or the process restarted, no
\* matter how the pass between them ended (Backoff, MarkScanned).
NoHammering == [][pc = "idle" /\ pc' # "idle" => earned]_vars

\* A "Scan now" is answered, by whatever the pass finds, or the subscription is
\* gone (RequestScan, MarkScanned, ClearScanRequest).
RequestIsAnswered ==
  (Subscribed /\ sub.asked # 0) ~> (~Subscribed \/ sub.asked = 0)

\* A new upload reaches the ledger or the library as long as the channel stays
\* subscribed, broadcasts included, once they have ended.  The exception is a
\* video whose enqueueAuto was cut short: see HalfDoneIsCaught.
UploadIsOffered ==
  \A v \in Uploads : (v \in up /\ Subscribed)
                       ~> (~Subscribed \/ ledger[v] # None \/ vid[v] # None)

\* A parked video that is reachable again comes back, listed or not, badge or
\* not (recheckUnavailable, recheckParkedOffListing).
ParkedComesBack ==
  \A v \in Wallable : (ledger[v] = "unavailable" /\ v \notin walled)
     ~> (ledger[v] # "unavailable" \/ v \in walled \/ ~Subscribed)

\* The claim of the comment on enqueueAuto's order (scan/pass.go:203-208): a
\* pass that fails part-way leaves a video that a later pass catches, so no
\* clean pass ends with a listed video that was never enqueued.
HalfDoneIsCaught ==
  [][pc = "loop" /\ PassEnds /\ deadRun' = 0
     => \A v \in listed \ everQueued : vid[v] # "half"]_vars

=============================================================================
