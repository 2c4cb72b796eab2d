------------------------- MODULE ChannelScanProofs -------------------------
(***************************************************************************)
(* What ChannelScan promises for any channel, any budget of probes, any    *)
(* threshold of dead scans and any number of disturbances: what a channel  *)
(* held before it was followed stays out of the inbox, a broadcast met on  *)
(* the air is not buried, a request is not swallowed by a pass that never  *)
(* saw it, a channel is not listed twice for one reason, and it is given   *)
(* up only after enough dead verdicts in a row.                            *)
(***************************************************************************)
EXTENDS ChannelScan, TLAPS

SubRow == [auto : BOOLEAN, base : BOOLEAN, due : {"now", "hour", "slot"},
           asked : Nat, dead : Nat, noStreams : {"unknown", "recent", "old"}]

\* As much of the types as the proofs need.
DataTypes ==
  /\ ledger \in [Uploads -> States]
  /\ vid \in [Uploads -> {None, "half", "queued", "downloaded"}]
  /\ jobs \in [Uploads -> Nat] /\ dating \in Datings
  /\ left \in Nat /\ crossed \in BOOLEAN

RowTypes ==
  /\ sub \in SubRow \cup {NoSub} /\ pass \in SubRow \cup {NoPass}
  /\ pc # "idle" => pass \in SubRow
  /\ deadRun \in Nat /\ earned \in BOOLEAN

\* A subscription never shows more dead verdicts than the history counts.
DeadInv == sub \in SubRow => sub.dead <= deadRun

\* A claimable row has a reason, or is the one the running pass is about, with
\* the request that pass has seen.
EarnInv ==
  sub \in SubRow /\ sub.due = "now" /\ ~earned => pc # "idle" /\ sub.asked = pass.asked

RowsInv == RowTypes /\ DeadInv /\ EarnInv

ScanInv == DataTypes /\ RowsInv

-----------------------------------------------------------------------------
(* Rows of the subscriptions table.                                        *)

LEMMA NoSubIsNoRow == NoSub \notin SubRow
<1>1. NoSub.due = "never" BY DEF NoSub
<1> QED BY <1>1 DEF SubRow

LEMMA FreshRow == FreshSub \in SubRow /\ ~FreshSub.base /\ FreshSub.dead = 0
  BY DEF FreshSub, SubRow

LEMMA SubscribedRow ==
  ASSUME RowTypes PROVE Subscribed <=> sub \in SubRow
  BY NoSubIsNoRow DEF RowTypes, Subscribed

LEMMA Cleared ==
  ASSUME NEW s \in SubRow
  PROVE  /\ BackedOff(s) \in SubRow /\ BackedOff(s).due = "hour"
         /\ BackedOff(s).base = s.base /\ BackedOff(s).dead = s.dead
         /\ BackedOff(s).asked = IF pass.asked # 0 /\ s.asked = pass.asked THEN 0 ELSE s.asked
<1> DEFINE c == ClearScanRequest(s)
<1>1. /\ c \in SubRow /\ c.base = s.base /\ c.dead = s.dead
      /\ c.asked = IF pass.asked # 0 /\ s.asked = pass.asked THEN 0 ELSE s.asked
  BY DEF ClearScanRequest, SubRow
<1>2. BackedOff(s) = [c EXCEPT !.due = "hour"] BY DEF BackedOff
<1> HIDE DEF c
<1> QED BY <1>1, <1>2 DEF SubRow

\* What a failed pass leaves of the subscription, of the counts and of the loop.
LEMMA Failed ==
  ASSUME ScanInv, NEW kind, FailPass(kind)
  PROVE  /\ pc' = "idle" /\ pass' = NoPass /\ todo' = {}
         /\ UNCHANGED <<added, earned, crossed>> /\ deadRun' \in Nat
         /\ sub' \in SubRow \cup {NoSub}
         /\ ~gone /\ gone' => deadRun' >= DeadScanThreshold
         /\ sub' \in SubRow =>
              /\ sub \in SubRow /\ sub'.base = sub.base /\ sub'.due = "hour"
              /\ sub'.asked = IF pass.asked # 0 /\ sub.asked = pass.asked THEN 0 ELSE sub.asked
              /\ sub'.dead <= deadRun'
<1> DEFINE dead == DeadCount(kind)
           strike == kind = "deleted" /\ Counted /\ Subscribed /\ dead >= DeadScanThreshold
<1> USE DEF ScanInv, RowsInv
<1>1. /\ pc' = "idle" /\ pass' = NoPass /\ todo' = {}
      /\ UNCHANGED <<added, earned, crossed>>
  BY DEF FailPass, EndPass
<1>2. deadRun' = CASE kind = "walled" -> 0
                   [] kind = "deleted" /\ Counted /\ Subscribed -> deadRun + 1
                   [] OTHER -> deadRun
  BY DEF FailPass
<1>3. deadRun' \in Nat BY <1>2 DEF RowTypes
<1>4. Subscribed => dead \in Nat /\ dead <= deadRun'
  <2> SUFFICES ASSUME Subscribed PROVE dead \in Nat /\ dead <= deadRun' OBVIOUS
  <2>1. sub \in SubRow /\ sub.dead \in Nat /\ sub.dead <= deadRun /\ deadRun \in Nat
    BY SubscribedRow DEF DeadInv, SubRow, RowTypes
  <2>2. CASE kind = "walled" BY <1>2, <2>1, <2>2 DEF DeadCount
  <2>3. CASE kind = "deleted" /\ Counted BY <1>2, <2>1, <2>3 DEF DeadCount
  <2>4. CASE kind # "walled" /\ ~(kind = "deleted" /\ Counted)
    BY <1>2, <2>1, <2>4 DEF DeadCount
  <2> QED BY <2>2, <2>3, <2>4
<1>5. CASE strike
  <2>1. sub' = NoSub BY <1>5 DEF FailPass, AutoUnsubscribe
  <2>2. deadRun' >= DeadScanThreshold
    <3>1. dead \in Nat /\ dead <= deadRun' /\ dead >= DeadScanThreshold BY <1>4, <1>5
    <3> HIDE DEF dead
    <3> QED BY <1>3, <3>1, ScanAssumption
  <2> QED BY <1>1, <1>3, <2>1, <2>2, NoSubIsNoRow
<1>6. CASE ~strike
  <2>1. /\ sub' = IF Subscribed THEN BackedOff([sub EXCEPT !.dead = dead]) ELSE NoSub
        /\ gone' = gone
    BY <1>6 DEF FailPass
  <2>2. CASE Subscribed
    <3> DEFINE s == [sub EXCEPT !.dead = dead]
    <3>1. sub \in SubRow /\ dead \in Nat BY <1>4, <2>2, SubscribedRow
    <3> HIDE DEF dead
    <3>2. s \in SubRow /\ s.base = sub.base /\ s.dead = dead /\ s.asked = sub.asked
      BY <3>1 DEF SubRow
    <3>3. sub' = BackedOff(s) BY <2>1, <2>2
    <3> HIDE DEF s
    <3> QED BY <1>1, <1>3, <1>4, <2>1, <2>2, <3>1, <3>2, <3>3, Cleared
  <2>3. CASE ~Subscribed BY <1>1, <1>3, <2>1, <2>3, NoSubIsNoRow
  <2> QED BY <2>2, <2>3
<1> QED BY <1>5, <1>6

-----------------------------------------------------------------------------
(* The types of the data.                                                  *)

LEMMA FailedData ==
  ASSUME DataTypes, NEW kind, FailPass(kind), UNCHANGED <<ledger, vid, jobs, dating>>, left' \in Nat
  PROVE  DataTypes'
  BY DEF DataTypes, FailPass, EndPass

LEMMA Spending == ASSUME DataTypes, Spend PROVE left' \in Nat
  BY DEF DataTypes, Spend

LEMMA RevivedData ==
  ASSUME DataTypes, NEW v, Revive(v) PROVE ledger' \in [Uploads -> States]
  BY DEF DataTypes, Revive, SetState, ledgVars, States

LEMMA NewStates ==
  ASSUME NEW v, NEW badge PROVE NewState(v, badge) \in States \cup {"skip"}
  BY DEF NewState, States

LEMMA DataEntry ==
  ASSUME DataTypes, Entry
  PROVE  DataTypes'
<1> DEFINE v == NextEntry
<1>1. UNCHANGED <<vid, jobs, dating, left>> BY DEF Entry, vidVars, worldVars
<1>2. CASE NewEntry(v)
  <2>1. CASE UNCHANGED <<ledger, crossed>>
    BY <1>1, <2>1 DEF DataTypes
  <2>2. CASE FailPass("other") /\ UNCHANGED ledger
    BY <1>1, <2>2, FailedData DEF DataTypes
  <2>3. ASSUME NEW badge, NewState(v, badge) # "skip", Insert(v, NewState(v, badge)),
               UNCHANGED crossed
        PROVE  DataTypes'
    <3>1. NewState(v, badge) \in States BY <2>3, NewStates
    <3> QED BY <1>1, <2>3, <3>1 DEF DataTypes, Insert
  <2> QED BY <1>2, <2>1, <2>2, <2>3 DEF NewEntry, ledgVars, histVars
<1>3. CASE ParkedEntry(v)
  <2>1. crossed' = crossed BY <1>3 DEF ParkedEntry, histVars
  <2>2. ledger' \in [Uploads -> States]
    BY <1>3, RevivedData DEF ParkedEntry, Restamp, ledgVars, DataTypes, States
  <2> QED BY <1>1, <2>1, <2>2 DEF DataTypes
<1>4. CASE UNCHANGED <<ledger, crossed>>
  BY <1>1, <1>4 DEF DataTypes
<1> QED BY <1>2, <1>3, <1>4 DEF Entry, ledgVars, histVars

LEMMA DataPass ==
  ASSUME DataTypes, Pass
  PROVE  DataTypes'
<1> USE DEF ledgVars, vidVars, passVars, worldVars, gateVars, histVars
<1>1. CASE Claim \/ ListUploads \/ BlindUploads \/ ProbeFails \/ OffListing \/ Finish
  BY <1>1, Spending
     DEF Claim, ListUploads, BlindUploads, ProbeFails, OffListing, Finish, DataTypes
<1>2. CASE CallFails
  <2>1. left' \in Nat BY <1>2 DEF CallFails, DataTypes
  <2> QED BY <1>2, <2>1, FailedData DEF CallFails
<1>3. CASE ListStreams
  <2>1. left' \in Nat /\ UNCHANGED <<ledger, vid, jobs, dating>> BY <1>3 DEF ListStreams, DataTypes
  <2>2. FailPass("other") \/ crossed' = crossed BY <1>3 DEF ListStreams
  <2> QED BY <2>1, <2>2, FailedData DEF DataTypes
<1>4. CASE ProbeAnswers
  <2>1. ledger' \in [Uploads -> States]
    BY <1>4, RevivedData DEF ProbeAnswers, Restamp, DataTypes, States
  <2> QED BY <1>4, <2>1 DEF ProbeAnswers, DataTypes
<1>5. CASE AutoRow BY <1>5 DEF AutoRow, DataTypes
<1>6. CASE AutoJob
  <2>1. CASE vid[cur] = None BY <1>6, <2>1, FailedData DEF AutoJob, DataTypes
  <2>2. CASE vid[cur] # None BY <1>6, <2>2 DEF AutoJob, DataTypes
  <2> QED BY <2>1, <2>2
<1>7. CASE AutoRecord
  <2>1. CASE FailPass("other") /\ UNCHANGED ledger
    BY <1>7, <2>1, FailedData DEF AutoRecord, DataTypes
  <2>2. CASE SetState(cur, "queued") \/ Insert(cur, "queued")
    <3>1. ledger' \in [Uploads -> States] BY <2>2 DEF SetState, Insert, DataTypes, States
    <3>2. FailPass("other") \/ crossed' = crossed BY <1>7 DEF AutoRecord
    <3>3. crossed' = crossed BY <3>2 DEF FailPass
    <3> QED BY <1>7, <3>1, <3>3 DEF AutoRecord, DataTypes
  <2> QED BY <1>7, <2>1, <2>2 DEF AutoRecord
<1>8. CASE WriteFails BY <1>8, Spending, FailedData DEF WriteFails
<1> QED BY <1>1, <1>2, <1>3, <1>4, <1>5, <1>6, <1>7, <1>8, DataEntry DEF Pass

LEMMA DataHandlers ==
  ASSUME DataTypes, Handlers
  PROVE  DataTypes'
<1> USE DEF ledgVars, vidVars, passVars, worldVars, gateVars, histVars
<1>1. CASE ScanNow \/ SkipScan \/ Unsubscribe \/ ToggleAuto
  BY <1>1, Spending DEF ScanNow, SkipScan, Unsubscribe, ToggleAuto, DataTypes
<1>2. CASE Subscribe \/ Resubscribe
  BY <1>2 DEF Subscribe, Resubscribe, DataTypes
<1>3. CASE DeleteChannel
  <2>1. crossed' \in BOOLEAN BY <1>3 DEF DeleteChannel, DataTypes
  <2>2. left' \in Nat BY <1>3, Spending DEF DeleteChannel
  <2> QED BY <1>3, <2>1, <2>2 DEF DeleteChannel, DeleteCascade, DataTypes, States, None
<1>4. ASSUME NEW v \in Uploads, Paste(v) PROVE DataTypes'
  <2>1. left' \in Nat BY <1>4, Spending DEF Paste
  <2> QED BY <1>4, <2>1 DEF Paste, DataTypes, States
<1>5. ASSUME NEW v \in Uploads, DownloadEnds(v) PROVE DataTypes'
  BY <1>5 DEF DownloadEnds, DataTypes, States, None
<1> QED BY <1>1, <1>2, <1>3, <1>4, <1>5 DEF Handlers

LEMMA DataWorld ==
  ASSUME DataTypes, World
  PROVE  DataTypes'
<1> USE DEF ledgVars, vidVars, passVars, worldVars, gateVars, histVars
<1>1. CASE DueComes \/ WeekEnds \/ Repair BY <1>1 DEF DueComes, WeekEnds, Repair, DataTypes
<1>2. CASE Outage \/ Stop BY <1>2, Spending DEF Outage, Stop, DataTypes
<1>3. ASSUME NEW v \in Uploads, StreamSettles(v) \/ AgesOut(v) \/ WindowEnds(v)
      PROVE DataTypes'
  BY <1>3, Spending DEF StreamSettles, AgesOut, WindowEnds, DataTypes
<1>4. ASSUME NEW v \in Uploads, Publish(v) \/ WallMoves(v) PROVE DataTypes'
  BY <1>4, Spending DEF Publish, WallMoves, DataTypes
<1> QED BY <1>1, <1>2, <1>3, <1>4 DEF World

-----------------------------------------------------------------------------
(* The kinds of steps, by what they do to the subscription and the loop.   *)

SameLoop == pc' = pc \/ (pc # "idle" /\ pc' # "idle")

\* Nothing of the subscription moves.
Carries == UNCHANGED <<sub, gone, pass, deadRun, earned>> /\ SameLoop

\* Only what is known of the /streams tab moves.
NotesTab ==
  /\ Subscribed /\ \E at \in {"unknown", "recent", "old"} : sub' = [sub EXCEPT !.noStreams = at]
  /\ UNCHANGED <<gone, pass, deadRun, earned>> /\ SameLoop

Fails == \E kind \in Kinds : FailPass(kind)

\* A handler or the clock writes the row beside the loop.
Writes == ScanNow \/ SkipScan \/ Subscribe \/ Resubscribe \/ Unsubscribe \/ ToggleAuto
          \/ DeleteChannel \/ DueComes

LEMMA KindOfEntry ==
  ASSUME Entry PROVE Carries \/ Fails
<1> DEFINE v == NextEntry
<1>1. pc = "loop" BY DEF Entry
<1>2. CASE FailPass("other") BY <1>2 DEF Fails, Kinds
<1>3. CASE UNCHANGED <<subVars, histVars, pass>> /\ pc' \in {pc, "row", "probe", "loop"}
  BY <1>1, <1>3 DEF Carries, SameLoop, subVars, histVars
<1>4. NewEntry(v) => (FailPass("other") \/ (UNCHANGED <<subVars, histVars, pass>> /\ pc' \in {pc, "row"}))
  BY DEF NewEntry
<1>5. ParkedEntry(v) => UNCHANGED <<subVars, histVars, pass>> /\ pc' \in {pc, "row", "probe", "loop"}
  BY DEF ParkedEntry, Revive
<1> QED BY <1>2, <1>3, <1>4, <1>5 DEF Entry

LEMMA KindOfListStreams ==
  ASSUME ListStreams PROVE Carries \/ NotesTab \/ Fails
<1>1. pc # "idle" BY DEF ListStreams
<1>2. PICK tab \in {"answered", "missing", "failed"} :
        \/ FailPass("other")
        \/ /\ pc' = "loop" /\ sub' = Noted(tab)
           /\ UNCHANGED <<added, gone, histVars, pass>>
  BY DEF ListStreams, StartLoop
<1>3. CASE FailPass("other") BY <1>3 DEF Fails, Kinds
<1>4. CASE pc' = "loop" /\ sub' = Noted(tab) /\ UNCHANGED <<added, gone, histVars, pass>>
  <2>1. sub' = sub \/ (Subscribed /\ \E at \in {"unknown", "recent", "old"} : sub' = [sub EXCEPT !.noStreams = at])
    BY <1>4 DEF Noted, SetStreamsMissing
  <2> QED BY <1>1, <1>4, <2>1 DEF Carries, NotesTab, SameLoop, histVars
<1> QED BY <1>2, <1>3, <1>4

LEMMA KindOfPass ==
  ASSUME Pass PROVE Claim \/ Carries \/ NotesTab \/ Fails \/ Finish
<1> USE DEF subVars, passVars, gateVars, histVars
<1>1. CASE CallFails BY <1>1 DEF CallFails, Fails
<1>2. CASE ListUploads \/ BlindUploads
  BY <1>2 DEF ListUploads, BlindUploads, StartLoop, Carries, SameLoop
<1>3. CASE ProbeAnswers
  <2>1. pc = "probe" /\ pc' \in {"loop", "row"} BY <1>3 DEF ProbeAnswers, Revive
  <2> QED BY <1>3, <2>1 DEF ProbeAnswers, Carries, SameLoop
<1>4. CASE ProbeFails \/ OffListing
  BY <1>4 DEF ProbeFails, OffListing, Carries, SameLoop
<1>5. CASE AutoRow
  BY <1>5 DEF AutoRow, Carries, SameLoop
<1>6. CASE AutoJob \/ AutoRecord \/ WriteFails
  <2>1. CASE FailPass("other") BY <2>1 DEF Fails, Kinds
  <2>2. CASE ~FailPass("other")
    BY <1>6, <2>2 DEF AutoJob, AutoRecord, WriteFails, Carries, SameLoop
  <2> QED BY <2>1, <2>2
<1> QED BY <1>1, <1>2, <1>3, <1>4, <1>5, <1>6, KindOfEntry, KindOfListStreams DEF Pass

LEMMA KindOfStep ==
  ASSUME [Next]_vars
  PROVE  Claim \/ Carries \/ NotesTab \/ Fails \/ Finish \/ Stop \/ Writes
<1> USE DEF subVars, passVars, gateVars, histVars, Carries, SameLoop
<1>1. CASE UNCHANGED vars BY <1>1 DEF vars
<1>2. CASE Handlers
  BY <1>2 DEF Handlers, Writes, Paste, DownloadEnds
<1>3. CASE World
  <2>1. CASE WeekEnds BY <2>1 DEF WeekEnds, NotesTab
  <2>2. CASE Outage \/ Repair BY <2>2 DEF Outage, Repair
  <2>3. ASSUME NEW v \in Uploads,
               Publish(v) \/ StreamSettles(v) \/ WallMoves(v) \/ AgesOut(v) \/ WindowEnds(v)
        PROVE  Carries
    BY <2>3 DEF Publish, StreamSettles, WallMoves, AgesOut, WindowEnds
  <2> QED BY <1>3, <2>1, <2>2, <2>3 DEF World, Writes
<1> QED BY <1>1, <1>2, <1>3, KindOfPass DEF Next

-----------------------------------------------------------------------------
(* The subscription, its counts and its reasons.                           *)

LEMMA ScannedRow ==
  ASSUME NEW s \in SubRow
  PROVE  /\ Scanned(s) \in SubRow /\ Scanned(s).base = (s.base \/ ~pass.base)
         /\ Scanned(s).dead = 0
         /\ Scanned(s).due = IF s.asked = pass.asked THEN "slot" ELSE s.due
         /\ Scanned(s).asked = IF s.asked = pass.asked THEN 0 ELSE s.asked
  BY DEF Scanned, SubRow

LEMMA RowsCarried ==
  ASSUME RowsInv, Carries PROVE RowsInv'
  BY DEF RowsInv, Carries, SameLoop, RowTypes, DeadInv, EarnInv

LEMMA RowsNoted ==
  ASSUME RowsInv, NotesTab PROVE RowsInv'
<1>1. sub \in SubRow BY SubscribedRow DEF NotesTab, RowsInv
<1>2. /\ sub' \in SubRow /\ sub'.dead = sub.dead /\ sub'.due = sub.due
      /\ sub'.asked = sub.asked
  BY <1>1 DEF NotesTab, SubRow
<1> QED BY <1>1, <1>2 DEF RowsInv, NotesTab, SameLoop, RowTypes, DeadInv, EarnInv

\* A write beside the loop: a row that is claimable after it for no new reason
\* was so before it, with the same request.
LEMMA RowsWritten ==
  ASSUME RowsInv, UNCHANGED <<pc, pass>>, sub' \in SubRow \cup {NoSub},
         earned' \in BOOLEAN, deadRun' \in Nat,
         sub' \in SubRow => sub'.dead <= deadRun',
         sub' \in SubRow /\ sub'.due = "now" /\ ~earned'
           => sub \in SubRow /\ sub.due = "now" /\ ~earned /\ sub'.asked = sub.asked
  PROVE  RowsInv'
  BY DEF RowsInv, RowTypes, DeadInv, EarnInv

LEMMA RowsOfWrites ==
  ASSUME ScanInv, Writes PROVE RowsInv'
<1> USE DEF ScanInv, RowsInv, passVars, histVars
<1>0. Subscribed <=> sub \in SubRow BY SubscribedRow
<1>1. CASE ScanNow
  <2>1. sub \in SubRow /\ sub' = RequestScan(sub) BY <1>0, <1>1 DEF ScanNow
  <2>2. sub' \in SubRow /\ sub'.dead = sub.dead
    BY <2>1 DEF RequestScan, SubRow, DataTypes
  <2> QED BY <1>1, <2>1, <2>2, RowsWritten DEF ScanNow, RowTypes, DeadInv
<1>2. CASE SkipScan
  <2>1. sub \in SubRow BY <1>0, <1>2 DEF SkipScan
  <2>2. UNCHANGED <<pc, pass, deadRun>> BY <1>2 DEF SkipScan
  <2>3. CASE sub' = [sub EXCEPT !.due = "slot", !.asked = 0] /\ UNCHANGED earned
    <3>1. sub' \in SubRow /\ sub'.dead = sub.dead /\ sub'.due = "slot"
      BY <2>1, <2>3 DEF SubRow
    <3> QED BY <2>1, <2>2, <2>3, <3>1, RowsWritten DEF RowTypes, DeadInv
  <2>4. CASE sub' = [sub EXCEPT !.due = "now"] /\ earned' = TRUE
    <3>1. sub' \in SubRow /\ sub'.dead = sub.dead BY <2>1, <2>4 DEF SubRow
    <3> QED BY <2>1, <2>2, <2>4, <3>1, RowsWritten DEF RowTypes, DeadInv
  <2> QED BY <1>2, <2>3, <2>4 DEF SkipScan
<1>3. CASE Subscribe
  BY <1>3, FreshRow, RowsWritten DEF Subscribe
<1>4. CASE Resubscribe
  <2>1. CASE Subscribed
    <3>1. sub' = sub /\ deadRun' = deadRun BY <1>4, <2>1 DEF Resubscribe
    <3>2. earned' = (earned \/ ~Subscribed) BY <1>4 DEF Resubscribe
    <3>3. earned' \in BOOLEAN BY <3>2, Zenon
    <3>4. earned => earned' BY <3>2, Zenon
    <3> QED BY <1>4, <3>1, <3>3, <3>4, RowsWritten DEF Resubscribe, RowTypes, DeadInv
  <2>2. CASE ~Subscribed
    <3>1. sub' = FreshSub /\ deadRun' = 0 /\ UNCHANGED <<pc, pass>>
      BY <1>4, <2>2 DEF Resubscribe
    <3>2. earned' = (earned \/ ~Subscribed) BY <1>4 DEF Resubscribe
    <3>3. earned' \in BOOLEAN BY <3>2, Zenon
    <3>4. earned' BY <2>2, <3>2, Zenon
    <3> QED BY <3>1, <3>3, <3>4, FreshRow, RowsWritten
  <2> QED BY <2>1, <2>2
<1>5. CASE Unsubscribe
  BY <1>5, NoSubIsNoRow, RowsWritten DEF Unsubscribe, RowTypes
<1>6. CASE ToggleAuto
  <2>1. sub \in SubRow BY <1>0, <1>6 DEF ToggleAuto
  <2>2. /\ sub' \in SubRow /\ sub'.dead = sub.dead /\ sub'.due = sub.due
        /\ sub'.asked = sub.asked
    BY <1>6, <2>1 DEF ToggleAuto, UpdateConfig, SubRow
  <2> QED BY <1>6, <2>1, <2>2, RowsWritten DEF ToggleAuto, RowTypes, DeadInv
<1>7. CASE DeleteChannel
  BY <1>7, NoSubIsNoRow, RowsWritten DEF DeleteChannel, DeleteCascade, RowTypes
<1>8. CASE DueComes
  <2>1. sub \in SubRow BY <1>0, <1>8 DEF DueComes
  <2>2. sub' \in SubRow /\ sub'.dead = sub.dead
    BY <1>8, <2>1 DEF DueComes, SubRow
  <2> QED BY <1>8, <2>1, <2>2, RowsWritten DEF DueComes, RowTypes, DeadInv
<1> QED BY <1>1, <1>2, <1>3, <1>4, <1>5, <1>6, <1>7, <1>8 DEF Writes

LEMMA RowsOfPass ==
  ASSUME ScanInv, Claim \/ Fails \/ Finish \/ Stop PROVE RowsInv'
<1> USE DEF ScanInv, RowsInv
<1>0. Subscribed <=> sub \in SubRow BY SubscribedRow
<1>1. CASE Claim
  <2>1. /\ sub \in SubRow /\ sub' = sub /\ pass' = sub /\ pc' = "uploads"
        /\ earned' = FALSE /\ deadRun' = deadRun
    BY <1>0, <1>1 DEF Claim, ClaimDue, subVars
  <2> QED BY <2>1 DEF RowTypes, DeadInv, EarnInv
<1>2. ASSUME NEW kind, FailPass(kind) PROVE RowsInv'
  BY <1>2, Failed DEF RowTypes, DeadInv, EarnInv
<1>3. CASE Finish
  <2>1. /\ sub' = IF Subscribed THEN Scanned(sub) ELSE NoSub
        /\ pc' = "idle" /\ pass' = NoPass /\ deadRun' = 0 /\ earned' = earned /\ pc = "loop"
    BY <1>3 DEF Finish, EndPass
  <2>2. CASE Subscribed
    BY <1>0, <2>1, <2>2, ScannedRow DEF RowTypes, DeadInv, EarnInv
  <2>3. CASE ~Subscribed
    BY <2>1, <2>3, NoSubIsNoRow DEF RowTypes, DeadInv, EarnInv
  <2> QED BY <2>2, <2>3
<1>4. CASE Stop
  BY <1>4 DEF Stop, EndPass, subVars, RowTypes, DeadInv, EarnInv
<1> QED BY <1>1, <1>2, <1>3, <1>4 DEF Fails

LEMMA ScanInit == Init => ScanInv
<1> SUFFICES ASSUME Init PROVE ScanInv OBVIOUS
<1>1. PICK old \in BOOLEAN, auto \in BOOLEAN :
        /\ sub = [FreshSub EXCEPT !.base = old, !.auto = auto]
        /\ ledger = [v \in Uploads |-> IF old /\ v \in Existing \ missed THEN "seen" ELSE None]
  BY DEF Init
<1>2. sub \in SubRow /\ sub.dead = 0 BY <1>1 DEF FreshSub, SubRow
<1>3. RowsInv BY <1>2 DEF Init, RowsInv, RowTypes, DeadInv, EarnInv
<1>4. DataTypes BY <1>1, ScanAssumption DEF Init, DataTypes, States, None
<1> QED BY <1>3, <1>4 DEF ScanInv

LEMMA ScanStep ==
  ASSUME ScanInv, [Next]_vars PROVE ScanInv'
<1>1. DataTypes'
  <2>1. CASE UNCHANGED vars
    BY <2>1 DEF vars, ledgVars, vidVars, worldVars, histVars, ScanInv, DataTypes
  <2> QED BY <2>1, DataPass, DataHandlers, DataWorld DEF Next, ScanInv
<1>2. RowsInv'
  BY KindOfStep, RowsCarried, RowsNoted, RowsOfWrites, RowsOfPass DEF ScanInv
<1> QED BY <1>1, <1>2 DEF ScanInv

LEMMA ScanAlways == Spec => []ScanInv
<1>1. ScanInv /\ [Next]_vars => ScanInv' BY ScanStep
<1> QED BY <1>1, ScanInit, PTL DEF Spec

-----------------------------------------------------------------------------
(* What follows from it.                                                   *)

\* A channel is listed once for each reason there is to list it, whatever the
\* pass between two listings came to.
THEOREM ListedForAReason == Spec => NoHammering
<1>1. ScanInv /\ [Next]_vars => (pc = "idle" /\ pc' # "idle" => earned)
  <2> SUFFICES ASSUME ScanInv, [Next]_vars, pc = "idle", pc' # "idle" PROVE earned OBVIOUS
  <2>1. ~Carries /\ ~NotesTab BY DEF Carries, NotesTab, SameLoop
  <2>2. ~Fails BY DEF Fails, FailPass, EndPass
  <2>3. ~Finish /\ ~Stop /\ ~Writes
    BY DEF Finish, Stop, Writes, ScanNow, SkipScan, Subscribe, Resubscribe, Unsubscribe,
           ToggleAuto, DeleteChannel, DueComes
  <2>4. Claim BY <2>1, <2>2, <2>3, KindOfStep
  <2>5. sub \in SubRow /\ sub.due = "now"
    BY <2>4, SubscribedRow DEF Claim, ClaimDue, ScanInv, RowsInv
  <2> QED BY <2>5 DEF ScanInv, RowsInv, EarnInv
<1>2. ScanInv /\ [Next]_vars => [pc = "idle" /\ pc' # "idle" => earned]_vars BY <1>1
<1> QED BY <1>2, ScanAlways, PTL DEF Spec, NoHammering

\* peeq gives a channel up by itself only after enough dead verdicts in a row.
THEOREM GivenUpForDead == Spec => DeadOnlyInARow
<1>1. ScanInv /\ [Next]_vars => (~gone /\ gone' => deadRun' >= DeadScanThreshold)
  <2> SUFFICES ASSUME ScanInv, [Next]_vars, ~gone, gone' PROVE deadRun' >= DeadScanThreshold
    OBVIOUS
  <2>1. ~Carries /\ ~NotesTab BY DEF Carries, NotesTab
  <2>2. ~Claim /\ ~Finish /\ ~Stop BY DEF Claim, Finish, Stop, subVars
  <2>3. ~Writes
    BY DEF Writes, ScanNow, SkipScan, Subscribe, Resubscribe, Unsubscribe, ToggleAuto,
           DeleteChannel, DeleteCascade, DueComes
  <2>4. Fails BY <2>1, <2>2, <2>3, KindOfStep
  <2> QED BY <2>4, Failed DEF Fails
<1>2. ScanInv /\ [Next]_vars => [~gone /\ gone' => deadRun' >= DeadScanThreshold]_vars
  BY <1>1
<1> QED BY <1>2, ScanAlways, PTL DEF Spec, DeadOnlyInARow

\* The end of a pass takes away the request that its claim saw, and leaves one
\* made meanwhile as it is.
THEOREM LaterRequestIsKept == Spec => OtherRequestSurvives
<1> DEFINE Kept == PassEnds /\ Subscribed /\ sub' # NoSub /\ sub.asked # pass.asked
                   => sub'.asked = sub.asked /\ sub'.due \in {sub.due, "hour"}
<1>1. ScanInv /\ [Next]_vars => Kept
  <2> SUFFICES ASSUME ScanInv, [Next]_vars, PassEnds, Subscribed, sub' # NoSub,
                      sub.asked # pass.asked
               PROVE  sub'.asked = sub.asked /\ sub'.due \in {sub.due, "hour"}
    OBVIOUS
  <2>0. sub \in SubRow BY SubscribedRow DEF ScanInv, RowsInv
  <2>1. ~Carries /\ ~NotesTab BY DEF Carries, NotesTab, SameLoop, PassEnds
  <2>2. ~Claim /\ ~Writes
    BY DEF PassEnds, Claim, Writes, ScanNow, SkipScan, Subscribe, Resubscribe, Unsubscribe,
           ToggleAuto, DeleteChannel, DueComes
  <2>3. CASE Fails
    <3>1. sub' \in SubRow BY <2>3, Failed DEF Fails
    <3> QED BY <2>3, <3>1, Failed DEF Fails
  <2>4. CASE Finish
    <3>1. sub' = Scanned(sub) BY <2>4 DEF Finish
    <3> QED BY <2>0, <3>1, ScannedRow
  <2>5. CASE Stop BY <2>5 DEF Stop, subVars
  <2> QED BY <2>1, <2>2, <2>3, <2>4, <2>5, KindOfStep
<1>2. ScanInv /\ [Next]_vars => [Kept]_vars BY <1>1
<1> QED BY <1>2, ScanAlways, PTL DEF Spec, OtherRequestSurvives

-----------------------------------------------------------------------------
(* What was there before.                                                  *)

\* The old uploads that OldStaysOut is about: neither added by hand nor both
\* missed by an inherited baseline and beyond what their date tells.
Old == {v \in Existing \ pasted :
          ~(v \in missed /\ (v \notin Early \/ dating[v] = "none"))}

\* The date in the listing shows it for an old one.
Caught(v) == v \in Early /\ dating[v] # "none"

\* The row, or the running pass, takes the channel for one whose old uploads
\* are all known.
Baselined == (sub \in SubRow /\ sub.base) \/ (pc # "idle" /\ pass.base)

LoopPlaces == {"loop", "probe", "row", "job", "record"}

\* An old upload has no row, or is 'seen', and was never queued.
OldRows ==
  /\ Existing \subseteq up
  /\ \A v \in Old : ledger[v] \in {None, "seen"} /\ vid[v] = None /\ jobs[v] = 0

\* Once the channel counts as baselined, what a listing can still return of its
\* old uploads is in the ledger or is caught by its date.
OldBase == Baselined => \A v \in Old \ aged : Caught(v) \/ ledger[v] = "seen"

\* A first pass reaches its loop with both tabs, or not at all.
OldListing ==
  /\ pc = "streams" => \A v \in Old : v \in todo <=> v \notin aged \cup OnStreams
  /\ pc = "blind" => ~heard /\ todo = {}

\* In the loop: what has left the list of entries of a first pass is 'seen', and
\* what the pass knows of an old upload is still so.
OldLoop ==
  pc \in LoopPlaces =>
    /\ Old \cap todo \cap aged = {}
    /\ ~pass.base => \A v \in Old \ (todo \cup aged) : ledger[v] = "seen"
    /\ \A v \in Old \cap known : ledger[v] = "seen"
    /\ Old \cap parked = {}
    /\ \A v \in (Old \cap todo) \ known : ledger[v] = None
    /\ pc # "loop" => cur \notin Old

OldClean == OldRows /\ OldBase /\ OldListing /\ OldLoop

OldInv == crossed \/ OldClean

\* The uploads, their rows and the dates as the old ones see them.
SameForOld ==
  /\ up \subseteq up' /\ Old' \subseteq Old /\ dating' = dating
  /\ \A v \in Old' : /\ v \in aged' <=> v \in aged
                     /\ ledger'[v] = ledger[v] /\ vid'[v] = vid[v] /\ jobs'[v] = jobs[v]

NoNewBase == sub' \in SubRow /\ sub'.base => sub \in SubRow /\ sub.base

LEMMA OldIsExisting == Old \subseteq Existing /\ Old \subseteq Uploads
  BY ScanAssumption DEF Old

LEMMA OldUnmoved ==
  ASSUME UNCHANGED <<dating, missed>>, pasted \subseteq pasted' PROVE Old' \subseteq Old
  BY DEF Old

LEMMA OldKept ==
  ASSUME UNCHANGED <<dating, missed, pasted>> PROVE Old' = Old
  BY DEF Old

LEMMA OldRowsKept == ASSUME OldRows, SameForOld PROVE OldRows'
  BY DEF OldRows, SameForOld

\* A step beside the loop.
LEMMA OldBeside ==
  ASSUME OldClean, SameForOld, NoNewBase, UNCHANGED <<pc, passVars>>
  PROVE  OldClean'
<1>1. OldRows' BY OldRowsKept DEF OldClean
<1>2. OldBase'
  BY DEF OldClean, OldBase, Baselined, Caught, SameForOld, NoNewBase, passVars
<1>3. OldListing' BY DEF OldClean, OldListing, SameForOld, passVars
<1>4. OldLoop' BY DEF OldClean, OldLoop, SameForOld, passVars
<1> QED BY <1>1, <1>2, <1>3, <1>4 DEF OldClean

\* The end of a pass.
LEMMA OldEnds ==
  ASSUME OldClean, SameForOld, pc' = "idle",
         sub' \in SubRow /\ sub'.base =>
           \A v \in Old \ aged : Caught(v) \/ ledger[v] = "seen"
  PROVE  OldClean'
<1>1. OldRows' BY OldRowsKept DEF OldClean
<1>2. OldBase' BY DEF OldBase, Baselined, Caught, SameForOld
<1>3. OldListing' /\ OldLoop' BY DEF OldListing, OldLoop, LoopPlaces
<1> QED BY <1>1, <1>2, <1>3 DEF OldClean

LEMMA OldFails ==
  ASSUME ScanInv, OldClean, SameForOld, NEW kind, FailPass(kind)
  PROVE  OldClean'
<1>1. pc' = "idle" /\ NoNewBase BY Failed DEF NoNewBase
<1>2. sub' \in SubRow /\ sub'.base => Baselined BY <1>1 DEF NoNewBase, Baselined
<1> QED BY <1>1, <1>2, OldEnds DEF OldClean, OldBase

\* The loop starts, of a first pass with every old upload that is in reach.
LEMMA OldStarts ==
  ASSUME OldClean, SameForOld, NoNewBase, pc # "idle", pass' = pass,
         NEW entries, StartLoop(entries), Old \cap entries \cap aged = {},
         ~pass.base => Old \ aged \subseteq entries
  PROVE  OldClean'
<1>1. /\ pc' = "loop" /\ todo' = entries
      /\ known' = {v \in entries : ledger[v] # None}
      /\ parked' = {v \in entries : ledger[v] = "unavailable"}
  BY DEF StartLoop, GetMany
<1>2. OldRows' BY OldRowsKept DEF OldClean
<1>3. OldBase'
  BY <1>1 DEF OldClean, OldBase, Baselined, Caught, SameForOld, NoNewBase
<1>4. OldListing' BY <1>1 DEF OldListing
<1>5. OldLoop'
  BY <1>1 DEF OldClean, OldRows, OldLoop, SameForOld, None
<1> QED BY <1>2, <1>3, <1>4, <1>5 DEF OldClean

LEMMA OldCalls ==
  ASSUME ScanInv, OldClean, Claim \/ CallFails \/ ListUploads \/ BlindUploads
  PROVE  OldClean'
<1> USE DEF ledgVars, vidVars, worldVars, subVars
<1>0. SameForOld
  <2>1. Old' = Old
    BY OldKept DEF Claim, CallFails, ListUploads, BlindUploads
  <2> QED BY <2>1 DEF Claim, CallFails, ListUploads, BlindUploads, SameForOld
<1>5. OldRows' BY <1>0, OldRowsKept DEF OldClean
<1>1. CASE Claim
  <2>1. /\ sub \in SubRow /\ pass' = sub /\ sub' = sub /\ pc' = "uploads"
    BY <1>1, SubscribedRow DEF Claim, ClaimDue, ScanInv, RowsInv
  <2>2. OldBase' BY <1>0, <2>1 DEF OldClean, OldBase, Baselined, Caught, SameForOld
  <2> QED BY <1>5, <2>1, <2>2 DEF OldClean, OldListing, OldLoop, LoopPlaces
<1>2. CASE CallFails BY <1>0, <1>2, OldFails DEF CallFails
<1>3. CASE ListUploads
  <2>1. pc = "uploads" /\ pass' = pass /\ NoNewBase BY <1>3 DEF ListUploads, NoNewBase
  <2>2. CASE SkipStreams(pass) /\ StartLoop(Tab(FALSE))
    <3>1. pass.base BY <2>2 DEF SkipStreams
    <3>2. Old \cap Tab(FALSE) \cap aged = {} BY DEF Tab
    <3> QED BY <1>0, <2>1, <2>2, <3>1, <3>2, OldStarts
  <2>3. CASE pc' = "streams" /\ todo' = Tab(FALSE)
    <3>1. \A v \in Old : v \in todo' <=> v \notin aged \cup OnStreams
      BY <2>3, OldIsExisting, ScanAssumption DEF Tab, OldClean, OldRows
    <3>2. OldListing' BY <1>0, <2>3, <3>1 DEF OldListing, SameForOld
    <3>3. OldBase'
      BY <1>0, <2>1, <2>3 DEF OldClean, OldBase, Baselined, Caught, SameForOld, NoNewBase
    <3> QED BY <1>5, <2>3, <3>2, <3>3 DEF OldClean, OldLoop, LoopPlaces
  <2> QED BY <1>3, <2>2, <2>3 DEF ListUploads
<1>4. CASE BlindUploads
  <2>1. /\ pc = "uploads" /\ pass' = pass /\ NoNewBase /\ pc' = "blind" /\ ~heard' /\ todo' = {}
    BY <1>4 DEF BlindUploads, NoNewBase
  <2>3. OldBase'
    BY <1>0, <2>1 DEF OldClean, OldBase, Baselined, Caught, SameForOld, NoNewBase
  <2> QED BY <1>5, <2>1, <2>3 DEF OldClean, OldListing, OldLoop, LoopPlaces
<1> QED BY <1>1, <1>2, <1>3, <1>4

LEMMA OldListStreams ==
  ASSUME ScanInv, OldClean, ListStreams
  PROVE  OldClean'
<1>0. SameForOld
  <2> USE DEF ledgVars, vidVars, worldVars
  <2>1. Old' = Old BY OldKept DEF ListStreams
  <2> QED BY <2>1 DEF ListStreams, SameForOld
<1>1. PICK tab \in {"answered", "missing", "failed"} :
        /\ pc = "blind" => tab = "missing"
        /\ pc = "streams" /\ tab = "missing" => Tab(TRUE) = {}
        /\ IF TooLittleSeen(tab) THEN FailPass("other")
           ELSE /\ StartLoop(todo \cup IF tab = "answered" THEN Tab(TRUE) ELSE {})
                /\ sub' = Noted(tab)
                /\ pass' = pass
  BY DEF ListStreams
<1>2. CASE TooLittleSeen(tab) BY <1>0, <1>1, <1>2, OldFails
<1>3. CASE ~TooLittleSeen(tab)
  <2> DEFINE entries == todo \cup IF tab = "answered" THEN Tab(TRUE) ELSE {}
  <2>1. pc \in {"streams", "blind"} BY DEF ListStreams
  <2>2. ASSUME ~pass.base PROVE Old \ aged \subseteq entries
    <3>1. tab # "failed" /\ (tab = "missing" => heard) BY <1>3, <2>2 DEF TooLittleSeen
    <3>2. pc = "streams" BY <1>1, <2>1, <3>1 DEF OldClean, OldListing
    <3>3. \A v \in Old : v \notin aged \cup OnStreams => v \in todo
      BY <3>2 DEF OldClean, OldListing
    <3>4. \A v \in Old : v \in OnStreams \ aged => v \in Tab(TRUE)
      BY OldIsExisting DEF Tab, OldClean, OldRows
    <3>5. CASE tab = "answered" BY <3>3, <3>4, <3>5
    <3>6. CASE tab = "missing" BY <1>1, <3>2, <3>3, <3>4, <3>6
    <3> QED BY <3>1, <3>5, <3>6
  <2>5. Old \cap entries \cap aged = {}
    <3>1. Old \cap todo \cap aged = {} BY <2>1 DEF OldClean, OldListing
    <3>2. Tab(TRUE) \cap aged = {} BY DEF Tab
    <3> QED BY <3>1, <3>2
  <2>3. NoNewBase
    <3>1. sub \notin SubRow => sub' = sub
      BY <1>1, <1>3, SubscribedRow DEF Noted, SetStreamsMissing, ScanInv, RowsInv
    <3>2. sub \in SubRow => sub'.base = sub.base
      BY <1>1, <1>3 DEF Noted, SetStreamsMissing, SubRow
    <3> QED BY <3>1, <3>2 DEF NoNewBase
  <2> HIDE DEF entries
  <2>4. StartLoop(entries) /\ pass' = pass BY <1>1, <1>3 DEF entries
  <2> QED BY <1>0, <2>1, <2>2, <2>3, <2>4, <2>5, OldStarts
<1> QED BY <1>2, <1>3

\* A pass finds an old upload new only where it may call it seen, or leave it
\* for later because there is a baseline.
LEMMA OldIsSeen ==
  ASSUME ScanInv, OldClean, pc = "loop", NEW v \in Old, v \in todo, v \notin known, NEW badge
  PROVE  NewState(v, badge) = "seen" \/ (NewState(v, badge) = "skip" /\ pass.base)
<1>1. CASE ~pass.base BY <1>1 DEF NewState
<1>2. CASE pass.base
  <2>1. ledger[v] = None /\ v \notin aged BY DEF OldClean, OldLoop, LoopPlaces
  <2>2. Caught(v) BY <1>2, <2>1 DEF OldClean, OldBase, Baselined, None
  <2>3. dating[v] \in {"timestamp", "release", "none"}
    BY OldIsExisting, ScanAssumption DEF ScanInv, DataTypes
  <2>4. IsBackCatalogue(v) BY <2>2, <2>3, OldIsExisting DEF IsBackCatalogue, Caught
  <2> QED BY <1>2, <2>4 DEF NewState
<1> QED BY <1>1, <1>2

\* The loop takes v off its list: an old upload is 'seen' now, or left for later
\* by a pass with a baseline, and any other row moves freely.
LEMMA OldMoves ==
  ASSUME OldClean, pc = "loop", NEW v,
         UNCHANGED <<vid, jobs, up, aged, dating, missed, pasted, sub, pass, known, parked>>,
         todo' = todo \ {v}, pc' \in LoopPlaces,
         pc' # "loop" => cur' = v /\ v \notin Old,
         \A u \in Old : u # v => ledger'[u] = ledger[u],
         v \in Old =>
           /\ ledger'[v] \in {None, "seen"} /\ (ledger[v] = "seen" => ledger'[v] = "seen")
           /\ ledger'[v] = "seen" \/ pass.base
  PROVE  OldClean'
<1>0. Old' = Old BY OldKept
<1>1. OldRows' BY <1>0 DEF OldClean, OldRows
<1>2. \A u \in Old : ledger[u] = "seen" => ledger'[u] = "seen" OBVIOUS
<1>3. OldBase'
  <2>1. Baselined' => Baselined BY DEF Baselined, LoopPlaces
  <2> QED BY <1>0, <1>2, <2>1 DEF OldClean, OldBase, Caught
<1>4. OldListing' BY DEF OldListing, LoopPlaces
<1>5. OldLoop'
  <2>1. pc \in LoopPlaces BY DEF LoopPlaces
  <2>2. ~pass'.base => \A u \in Old' \ (todo' \cup aged') : ledger'[u] = "seen"
    BY <1>0, <1>2, <2>1 DEF OldClean, OldLoop
  <2>3. \A u \in Old' \cap known' : ledger'[u] = "seen"
    BY <1>0, <2>1 DEF OldClean, OldLoop
  <2>4. \A u \in (Old' \cap todo') \ known' : ledger'[u] = None
    BY <1>0, <2>1 DEF OldClean, OldLoop
  <2>5. /\ Old' \cap parked' = {} /\ Old' \cap todo' \cap aged' = {}
        /\ pc' # "loop" => cur' \notin Old'
    BY <1>0, <2>1 DEF OldClean, OldLoop
  <2> QED BY <2>2, <2>3, <2>4, <2>5 DEF OldLoop
<1> QED BY <1>1, <1>3, <1>4, <1>5 DEF OldClean

LEMMA OldEntry ==
  ASSUME ScanInv, OldClean, Entry
  PROVE  OldClean'
<1>0. PICK v : v = NextEntry OBVIOUS
<1>1. v \in todo BY <1>0 DEF Entry, NextEntry
<1>2. pc = "loop" BY DEF Entry
<1>3. UNCHANGED <<vid, jobs, up, aged, dating, missed, pasted>>
  BY DEF Entry, vidVars, worldVars
<1>4. CASE FailPass("other") /\ UNCHANGED ledger
  <2>1. SameForOld BY <1>3, <1>4, OldKept DEF SameForOld
  <2> QED BY <1>4, <2>1, OldFails
<1>6. pc \in LoopPlaces /\ "loop" \in LoopPlaces /\ "row" \in LoopPlaces /\ "probe" \in LoopPlaces
  BY <1>2 DEF LoopPlaces
<1>7. v \in Old => /\ v \notin parked /\ ledger[v] \in {None, "seen"} /\ vid[v] = None
                   /\ v \in known => ledger[v] = "seen"
  BY <1>6 DEF OldClean, OldLoop, OldRows
<1>11. v \in Old => v \in Uploads BY OldIsExisting
<1>8. CASE v \notin known /\ NewEntry(v)
  <2>1. CASE vid[v] # None /\ todo' = todo \ {v}
             /\ UNCHANGED <<sub, ledger, pc, pass, known, parked>>
    BY <1>2, <1>3, <1>6, <1>7, <2>1, OldMoves
  <2>2. ASSUME NEW badge, NewState(v, badge) = "queued", pc' = "row", cur' = v,
               todo' = todo \ {v}, UNCHANGED <<sub, ledger, pass, known, parked>>
        PROVE  OldClean'
    <3>1. v \notin Old BY <1>1, <1>2, <1>8, <2>2, OldIsSeen
    <3> QED BY <1>2, <1>3, <1>6, <2>2, <3>1, OldMoves
  <2>3. ASSUME NEW badge, NewState(v, badge) = "skip", UNCHANGED ledger,
               todo' = todo \ {v}, UNCHANGED <<sub, pc, pass, known, parked>>
        PROVE  OldClean'
    <3>1. v \in Old => pass.base BY <1>1, <1>2, <1>8, <2>3, OldIsSeen
    <3> QED BY <1>2, <1>3, <1>6, <1>7, <2>3, <3>1, OldMoves
  <2>4. ASSUME NEW badge, NewState(v, badge) # "skip", Insert(v, NewState(v, badge)),
               todo' = todo \ {v}, UNCHANGED <<sub, pc, pass, known, parked>>
        PROVE  OldClean'
    <3>1. ledger' = [ledger EXCEPT ![v] = NewState(v, badge)] BY <2>4 DEF Insert
    <3>2. v \in Old => ledger'[v] = "seen"
      <4>1. v \in Old => NewState(v, badge) = "seen" BY <1>1, <1>2, <1>8, <2>4, OldIsSeen
      <4> QED BY <1>11, <3>1, <4>1 DEF ScanInv, DataTypes
    <3>3. \A u \in Old : u # v => ledger'[u] = ledger[u]
      BY <3>1, OldIsExisting DEF ScanInv, DataTypes
    <3> QED BY <1>2, <1>3, <1>6, <2>4, <3>2, <3>3, OldMoves
  <2> QED BY <1>4, <1>8, <2>1, <2>2, <2>3, <2>4 DEF NewEntry, subVars, ledgVars
<1>9. CASE v \in parked /\ ParkedEntry(v)
  <2>1. v \notin Old BY <1>7, <1>9
  <2>2. /\ todo' = todo \ {v} /\ UNCHANGED <<sub, pass, known, parked>>
    BY <1>9 DEF ParkedEntry, subVars
  <2>3. pc' \in LoopPlaces /\ (pc' # "loop" => cur' = v)
    BY <1>2, <1>6, <1>9 DEF ParkedEntry, Revive
  <2>4. \A u \in Old : u # v => ledger'[u] = ledger[u]
    BY <1>9, OldIsExisting
       DEF ParkedEntry, Revive, Restamp, SetState, ledgVars, ScanInv, DataTypes
  <2> QED BY <1>2, <1>3, <2>1, <2>2, <2>3, <2>4, OldMoves
<1>10. CASE v \in known \ parked /\ todo' = todo \ {v}
            /\ UNCHANGED <<sub, ledger, pc, pass, known, parked>>
  BY <1>2, <1>3, <1>6, <1>7, <1>10, OldMoves
<1> QED BY <1>0, <1>8, <1>9, <1>10 DEF Entry, subVars, ledgVars

\* A step of the loop about a video that is not an old one.
LEMMA OldAbout ==
  ASSUME OldClean, pc \in LoopPlaces, pc' \in LoopPlaces, NEW u, u \notin Old,
         UNCHANGED <<sub, pass, up, aged, dating, missed, pasted, todo, parked>>,
         known' \in {known, known \cup {u}}, pc' # "loop" => cur' = u,
         \A v \in Old : ledger'[v] = ledger[v] /\ vid'[v] = vid[v] /\ jobs'[v] = jobs[v]
  PROVE  OldClean'
<1>0. Old' = Old BY OldKept
<1>1. OldRows' BY <1>0 DEF OldClean, OldRows
<1>2. OldBase' BY <1>0 DEF OldClean, OldBase, Baselined, Caught, LoopPlaces
<1>3. OldListing' BY DEF OldListing, LoopPlaces
<1>4. OldLoop' BY <1>0 DEF OldClean, OldLoop
<1> QED BY <1>1, <1>2, <1>3, <1>4 DEF OldClean

LEMMA OldLoopSteps ==
  ASSUME ScanInv, OldClean,
         \/ ProbeAnswers \/ ProbeFails \/ OffListing
         \/ AutoRow \/ AutoJob \/ AutoRecord \/ WriteFails \/ Finish
  PROVE  OldClean'
<1> USE DEF ledgVars, vidVars, worldVars, subVars, passVars
<1>0. /\ UNCHANGED <<up, aged, dating, missed, pasted>> /\ pc \in LoopPlaces
      /\ pc # "loop" => cur \notin Old
  BY DEF ProbeAnswers, ProbeFails, OffListing, AutoRow, AutoJob, AutoRecord, WriteFails, Finish,
         LoopPlaces, OldClean, OldLoop
<1>1. ASSUME NEW kind, FailPass(kind), UNCHANGED <<ledger, vid, jobs>> PROVE OldClean'
  <2>1. SameForOld BY <1>0, <1>1, OldKept DEF SameForOld
  <2> QED BY <1>1, <2>1, OldFails
<1>2. CASE ProbeAnswers
  <2>1. cur \notin Old /\ pc' \in LoopPlaces /\ cur' = cur
    BY <1>0, <1>2 DEF ProbeAnswers, Revive, LoopPlaces
  <2>2. \A u \in Old : ledger'[u] = ledger[u]
    BY <1>2, <2>1, OldIsExisting DEF ProbeAnswers, Revive, Restamp, SetState, ScanInv, DataTypes
  <2> QED BY <1>0, <1>2, <2>1, <2>2, OldAbout DEF ProbeAnswers
<1>3. CASE ProbeFails
  <2>1. cur \notin Old /\ pc' \in LoopPlaces BY <1>0, <1>3 DEF ProbeFails, LoopPlaces
  <2> QED BY <1>0, <1>3, <2>1, OldAbout DEF ProbeFails
<1>4. CASE OffListing
  <2>1. PICK u \in Uploads : /\ ledger[u] = "unavailable" /\ pc' = "probe" /\ cur' = u
                             /\ known' = known \cup {u}
    BY <1>4 DEF OffListing
  <2>2. u \notin Old BY <2>1 DEF OldClean, OldRows, None
  <2>3. pc' \in LoopPlaces BY <2>1 DEF LoopPlaces
  <2> QED BY <1>0, <1>4, <2>1, <2>2, <2>3, OldAbout DEF OffListing
<1>5. CASE AutoRow
  <2>1. cur \notin Old /\ pc' \in LoopPlaces BY <1>0, <1>5 DEF AutoRow, LoopPlaces
  <2>2. \A u \in Old : vid'[u] = vid[u]
    BY <1>5, <2>1, OldIsExisting DEF AutoRow, ScanInv, DataTypes
  <2> QED BY <1>0, <1>5, <2>1, <2>2, OldAbout DEF AutoRow
<1>6. CASE AutoJob
  <2>1. cur \notin Old BY <1>0, <1>6 DEF AutoJob
  <2>2. CASE vid[cur] = None BY <1>1, <1>6, <2>2 DEF AutoJob
  <2>3. CASE vid[cur] # None
    <3>1. \A u \in Old : vid'[u] = vid[u] /\ jobs'[u] = jobs[u]
      BY <1>6, <2>1, <2>3, OldIsExisting DEF AutoJob, ScanInv, DataTypes
    <3>2. pc' \in LoopPlaces BY <1>6, <2>3 DEF AutoJob, LoopPlaces
    <3> QED BY <1>0, <1>6, <2>1, <2>3, <3>1, <3>2, OldAbout DEF AutoJob
  <2> QED BY <2>2, <2>3
<1>7. CASE AutoRecord
  <2>1. cur \notin Old BY <1>0, <1>7 DEF AutoRecord
  <2>2. CASE cur \notin known /\ ~added BY <1>1, <1>7, <2>2 DEF AutoRecord
  <2>3. CASE ~(cur \notin known /\ ~added)
    <3>1. \A u \in Old : ledger'[u] = ledger[u]
      BY <1>7, <2>1, <2>3, OldIsExisting
         DEF AutoRecord, SetState, Insert, ScanInv, DataTypes
    <3>2. pc' \in LoopPlaces BY <1>7, <2>3 DEF AutoRecord, LoopPlaces
    <3> QED BY <1>0, <1>7, <2>1, <2>3, <3>1, <3>2, OldAbout DEF AutoRecord
  <2> QED BY <2>2, <2>3
<1>8. CASE WriteFails BY <1>1, <1>8 DEF WriteFails
<1>9. CASE Finish
  <2>1. /\ SameForOld /\ pc' = "idle" /\ pc = "loop" /\ todo = {}
        /\ sub' = IF Subscribed THEN Scanned(sub) ELSE NoSub
    BY <1>0, <1>9, OldKept DEF Finish, EndPass, SameForOld
  <2>2. ASSUME sub' \in SubRow, sub'.base
        PROVE  \A v \in Old \ aged : Caught(v) \/ ledger[v] = "seen"
    <3>1. sub \in SubRow /\ sub' = Scanned(sub)
      BY <2>1, <2>2, NoSubIsNoRow, SubscribedRow DEF ScanInv, RowsInv
    <3>2. sub.base \/ ~pass.base BY <2>2, <3>1, ScannedRow
    <3>3. CASE sub.base BY <2>2, <3>1, <3>3 DEF OldClean, OldBase, Baselined
    <3>4. CASE ~pass.base BY <1>0, <2>1, <2>2, <3>4 DEF OldClean, OldLoop
    <3> QED BY <3>2, <3>3, <3>4
  <2> QED BY <2>1, <2>2, OldEnds
<1> QED BY <1>2, <1>3, <1>4, <1>5, <1>6, <1>7, <1>8, <1>9

LEMMA OldWrites ==
  ASSUME ScanInv, OldClean, ~crossed', Writes \/ Stop \/ WeekEnds
  PROVE  OldClean'
<1> USE DEF ledgVars, vidVars, worldVars, subVars
<1>0. Subscribed <=> sub \in SubRow BY SubscribedRow DEF ScanInv, RowsInv
<1>1. CASE DeleteChannel
  <2>1. /\ pc' = "idle" /\ sub' = NoSub /\ up' = up
        /\ ledger' = [v \in Uploads |-> None] /\ vid' = [v \in Uploads |-> None]
        /\ jobs' = [v \in Uploads |-> 0]
    BY <1>1 DEF DeleteChannel, DeleteCascade
  <2>2. OldRows'
    <3>1. Old' \subseteq Uploads BY ScanAssumption DEF Old
    <3> QED BY <2>1, <3>1 DEF OldClean, OldRows
  <2>3. OldBase' BY <2>1, NoSubIsNoRow DEF OldBase, Baselined
  <2> QED BY <2>1, <2>2, <2>3 DEF OldClean, OldListing, OldLoop, LoopPlaces
<1>2. CASE Stop
  <2>1. SameForOld /\ pc' = "idle" /\ sub' = sub BY <1>2, OldKept DEF Stop, EndPass, SameForOld
  <2>2. sub' \in SubRow /\ sub'.base =>
          \A v \in Old \ aged : Caught(v) \/ ledger[v] = "seen"
    BY <2>1 DEF OldClean, OldBase, Baselined
  <2> QED BY <2>1, <2>2, OldEnds
<1>3. ASSUME UNCHANGED <<up, aged, dating, missed, pasted, ledger, vid, jobs, pc, passVars>>,
             NoNewBase
      PROVE  OldClean'
  <2>1. SameForOld BY <1>3, OldKept DEF SameForOld
  <2> QED BY <1>3, <2>1, OldBeside
<1>4. CASE Subscribe \/ Resubscribe \/ Unsubscribe
  <2>1. NoNewBase
    BY <1>0, <1>4, FreshRow, NoSubIsNoRow DEF Subscribe, Resubscribe, Unsubscribe, NoNewBase
  <2> QED BY <1>3, <1>4, <2>1 DEF Subscribe, Resubscribe, Unsubscribe
<1>5. CASE ScanNow \/ SkipScan \/ ToggleAuto \/ DueComes \/ WeekEnds
  <2>1. sub \in SubRow BY <1>0, <1>5 DEF ScanNow, SkipScan, ToggleAuto, DueComes, WeekEnds
  <2>2. sub'.base = sub.base
    BY <1>5, <2>1
       DEF ScanNow, SkipScan, ToggleAuto, DueComes, WeekEnds, RequestScan, UpdateConfig, SubRow
  <2>3. NoNewBase BY <2>1, <2>2 DEF NoNewBase
  <2> QED BY <1>3, <1>5, <2>3 DEF ScanNow, SkipScan, ToggleAuto, DueComes, WeekEnds
<1> QED BY <1>1, <1>2, <1>4, <1>5 DEF Writes

LEMMA OldRest ==
  ASSUME ScanInv, OldClean, NEW v \in Uploads,
         \/ Paste(v) \/ DownloadEnds(v) \/ Publish(v) \/ StreamSettles(v) \/ WallMoves(v)
         \/ AgesOut(v) \/ WindowEnds(v) \/ Outage \/ Repair
  PROVE  OldClean'
<1> USE DEF ledgVars, vidVars, worldVars, subVars
<1>1. /\ UNCHANGED <<sub, pc, passVars, dating, missed>> /\ up \subseteq up'
      /\ pasted \subseteq pasted'
  BY DEF Paste, DownloadEnds, Publish, StreamSettles, WallMoves, AgesOut, WindowEnds, Outage,
         Repair
<1>4. Old' \subseteq Old BY <1>1, OldUnmoved
<1>2. ASSUME NEW u \in Old'
      PROVE  /\ u \in aged' <=> u \in aged
             /\ ledger'[u] = ledger[u] /\ vid'[u] = vid[u] /\ jobs'[u] = jobs[u]
  <2>0. /\ u \in Uploads /\ u \in Existing /\ ledger[u] \in {None, "seen"} /\ jobs[u] = 0
    BY <1>4, OldIsExisting DEF OldClean, OldRows
  <2>1. CASE Paste(v)
    <3>1. u # v BY <2>0, <2>1 DEF Paste, Old
    <3> QED BY <2>0, <2>1, <3>1 DEF Paste, ScanInv, DataTypes
  <2>2. CASE DownloadEnds(v)
    <3>1. v # u BY <2>0, <2>2 DEF DownloadEnds
    <3> QED BY <2>0, <2>2, <3>1 DEF DownloadEnds, ScanInv, DataTypes
  <2>3. CASE AgesOut(v) BY <2>0, <2>3 DEF AgesOut, None
  <2>4. CASE Publish(v) \/ StreamSettles(v) \/ WallMoves(v) \/ WindowEnds(v) \/ Outage \/ Repair
    BY <2>4 DEF Publish, StreamSettles, WallMoves, WindowEnds, Outage, Repair
  <2> QED BY <2>1, <2>2, <2>3, <2>4
<1>3. SameForOld /\ NoNewBase BY <1>1, <1>2, <1>4 DEF SameForOld, NoNewBase
<1> QED BY <1>1, <1>3, OldBeside

\* A delete under a running pass is remembered.
LEMMA CrossedStays ==
  ASSUME [Next]_vars, crossed PROVE crossed'
<1> USE DEF histVars, subVars, gateVars, passVars
<1>1. CASE UNCHANGED vars BY <1>1 DEF vars
<1>2. ASSUME NEW kind, FailPass(kind) PROVE crossed' BY <1>2 DEF FailPass
<1>3. CASE Claim \/ CallFails \/ ListUploads \/ BlindUploads \/ ListStreams
  BY <1>2, <1>3 DEF Claim, CallFails, ListUploads, BlindUploads, ListStreams
<1>4. CASE Entry BY <1>2, <1>4 DEF Entry, NewEntry, ParkedEntry
<1>5. CASE ProbeAnswers \/ ProbeFails \/ OffListing \/ Finish
  BY <1>5 DEF ProbeAnswers, ProbeFails, OffListing, Finish
<1>6. CASE AutoRow \/ AutoJob \/ AutoRecord \/ WriteFails
  BY <1>2, <1>6 DEF AutoRow, AutoJob, AutoRecord, WriteFails
<1>7. CASE Handlers
  BY <1>7 DEF Handlers, ScanNow, SkipScan, Subscribe, Resubscribe, Unsubscribe, ToggleAuto,
              DeleteChannel, Paste, DownloadEnds
<1>8. CASE World
  BY <1>8 DEF World, DueComes, WeekEnds, Outage, Repair, Stop, Publish, StreamSettles,
              WallMoves, AgesOut, WindowEnds
<1> QED BY <1>1, <1>3, <1>4, <1>5, <1>6, <1>7, <1>8 DEF Next, Pass

LEMMA OldStep ==
  ASSUME ScanInv, OldInv, [Next]_vars
  PROVE  OldInv'
<1> SUFFICES ASSUME ~crossed' PROVE OldClean' BY DEF OldInv
<1>1. OldClean BY CrossedStays DEF OldInv
<1>6. ASSUME UNCHANGED <<pc, passVars, worldVars, ledgVars, vidVars, sub>> PROVE OldClean'
  <2>1. SameForOld /\ NoNewBase
    BY <1>6, OldKept DEF worldVars, ledgVars, vidVars, SameForOld, NoNewBase
  <2> QED BY <1>1, <1>6, <2>1, OldBeside
<1>2. CASE UNCHANGED vars BY <1>2, <1>6 DEF vars, subVars
<1>3. CASE Pass BY <1>1, <1>3, OldCalls, OldListStreams, OldEntry, OldLoopSteps DEF Pass
<1>4. CASE Handlers BY <1>1, <1>4, OldWrites, OldRest DEF Handlers, Writes
<1>5. CASE World
  <2>1. CASE Uploads = {} /\ (Outage \/ Repair) BY <1>6, <2>1 DEF Outage, Repair, subVars
  <2>2. CASE ~(Uploads = {} /\ (Outage \/ Repair))
    BY <1>1, <1>5, <2>2, OldWrites, OldRest DEF World, Writes
  <2> QED BY <2>1, <2>2
<1> QED BY <1>2, <1>3, <1>4, <1>5 DEF Next

\* What a channel held before it was followed reaches neither the inbox nor the
\* download queue, unless somebody adds it by hand, or an inherited baseline
\* missed it and its date does not tell it from a new one.
THEOREM OldNeverOffered == Spec => []OldStaysOut
<1>1. Init => OldInv
  <2> SUFFICES ASSUME Init PROVE OldClean BY DEF OldInv
  <2>1. PICK old \in BOOLEAN, auto \in BOOLEAN :
          /\ sub = [FreshSub EXCEPT !.base = old, !.auto = auto]
          /\ ledger = [v \in Uploads |-> IF old /\ v \in Existing \ missed THEN "seen" ELSE None]
    BY DEF Init
  <2>2. sub.base = old BY <2>1 DEF FreshSub
  <2>3. \A v \in Old : v \in missed => Caught(v) BY DEF Old, Caught
  <2>4. \A v \in Old : v \in Uploads /\ v \in Existing BY OldIsExisting
  <2>5. OldBase
    <3> SUFFICES ASSUME Baselined, NEW v \in Old PROVE Caught(v) \/ ledger[v] = "seen"
      BY DEF OldBase
    <3>1. old BY <2>2 DEF Init, Baselined
    <3> QED BY <2>1, <2>3, <2>4, <3>1
  <2>6. OldRows BY <2>1, <2>4 DEF Init, OldRows
  <2> QED BY <2>5, <2>6 DEF Init, OldClean, OldListing, OldLoop, LoopPlaces
<1>2. ScanInv /\ OldInv /\ [Next]_vars => OldInv' BY OldStep
<1>3. OldInv => OldStaysOut
  <2> SUFFICES ASSUME OldClean, NEW v \in Existing,
                      v \notin pasted, ~(v \in missed /\ (v \notin Early \/ dating[v] = "none"))
               PROVE  ledger[v] \in {None, "seen"}
    BY DEF OldInv, OldStaysOut
  <2>1. v \in Old BY DEF Old
  <2> QED BY <2>1 DEF OldClean, OldRows
<1> QED BY <1>1, <1>2, <1>3, ScanAlways, PTL DEF Spec

\* A new upload that is long enough is called seen by a first pass, or it is a
\* broadcast that has ended and that the listing dates by a start long before the
\* baseline: one met on the air is left for a later pass.
THEOREM BroadcastNotBuried == Spec => NewIsNotBuried
<1> DEFINE Kept == \A v \in Uploads \ (Existing \cup Short) :
                     ledger[v] # "seen" /\ ledger'[v] = "seen" /\ pass.base
                     => v \in Early \ live /\ dating[v] = "release"
<1>1. ScanInv /\ [Next]_vars => Kept
  <2> SUFFICES ASSUME ScanInv, [Next]_vars, NEW v \in Uploads \ (Existing \cup Short),
                      ledger[v] # "seen", ledger'[v] = "seen", pass.base
               PROVE  v \in Early \ live /\ dating[v] = "release"
    OBVIOUS
  <2> USE DEF ledgVars, ScanInv, DataTypes
  <2>1. ledger' # ledger OBVIOUS
  <2>2. CASE Entry
    <3>1. NewEntry(NextEntry)
      BY <2>1, <2>2 DEF Entry, ParkedEntry, Revive, Restamp, SetState
    <3>2. PICK badge : /\ NewState(NextEntry, badge) # "skip"
                       /\ Insert(NextEntry, NewState(NextEntry, badge))
      BY <2>1, <3>1 DEF NewEntry
    <3>3. v = NextEntry /\ NewState(v, badge) = "seen" BY <3>2 DEF Insert
    <3> QED BY <3>3 DEF NewState, IsBackCatalogue, IsUnfinishedStream, PassesFilters
  <2>3. CASE ProbeAnswers BY <2>3 DEF ProbeAnswers, Revive, Restamp, SetState
  <2>4. CASE AutoRecord BY <2>4 DEF AutoRecord, SetState, Insert
  <2>5. CASE DeleteChannel BY <2>5 DEF DeleteChannel, DeleteCascade, None
  <2>6. ASSUME NEW u \in Uploads, Paste(u) \/ DownloadEnds(u) PROVE FALSE
    BY <2>6 DEF Paste, DownloadEnds
  <2>7. ~UNCHANGED vars BY <2>1 DEF vars
  <2>8. CASE Pass
    BY <2>1, <2>2, <2>3, <2>4, <2>8
       DEF Pass, Claim, CallFails, ListUploads, BlindUploads, ListStreams, ProbeFails, OffListing,
           AutoRow, AutoJob, WriteFails, Finish
  <2>9. CASE Handlers
    BY <2>1, <2>5, <2>6, <2>9
       DEF Handlers, ScanNow, SkipScan, Subscribe, Resubscribe, Unsubscribe, ToggleAuto
  <2>10. CASE World
    BY <2>1, <2>10
       DEF World, DueComes, WeekEnds, Outage, Repair, Stop, Publish, StreamSettles, WallMoves,
           AgesOut, WindowEnds
  <2> QED BY <2>7, <2>8, <2>9, <2>10 DEF Next
<1>2. ScanInv /\ [Next]_vars => [Kept]_vars BY <1>1
<1> QED BY <1>2, ScanAlways, PTL DEF Spec, NewIsNotBuried

=============================================================================
