----------------------------- MODULE ChannelMeta -----------------------------
(***************************************************************************)
(* What peeq knows of one channel itself, and whether it was ever read     *)
(* from YouTube (packages channelmeta and channels, the channel handlers   *)
(* of httpapi).  Six actors write the row while the others wait for their  *)
(* turn at YouTube: the weekly worker, the resolve a page visit starts,    *)
(* the Refresh button, a pasted channel link, the star and the preflight   *)
(* of a download; a delete takes the row away.                             *)
(*                                                                         *)
(* An action is one database statement, or a call's answer with the write it *)
(* leads to.  "Settled" is the row's resolved_at, the one thing that keeps   *)
(* the never-read channels from being read for ever.  Left out: the metadata *)
(* itself, artwork but for the time it takes, and other channels.            *)
(***************************************************************************)
EXTENDS Naturals

CONSTANTS
  MaxEvents     \* BOUND: clicks, deletes, faults, outages and restarts

ASSUME MetaAssumption == MaxEvents \in Nat

VARIABLES
  row,        \* the channels row, or NoRow
  library,    \* what videos has of it: "none", "row" or "downloaded"
  sub,        \* the subscriptions row, or NoSub
  at,         \* the place of every actor
  held,       \* resolved_at and resolve_ok as each actor read them
  open,       \* the gates: a valid cookie and no kill-switch
  left,       \* what the bound has left
  \* history: a reason for the worker to claim the channel again, and the page's
  \* calls about the channel since its last delete, the last restart or the last
  \* answer that could not be stored, counted up to 4, one past the bound
  earned, pageCalls

vars == <<row, library, sub, at, held, open, left, earned, pageCalls>>

\* "visit" is a request for the page, "page" the resolve it may start,
\* "preflight" the download worker's look at a video added by URL.
Actors == {"worker", "visit", "page", "refresh", "paste", "star", "preflight"}

\* A row nobody has added or read, and no row.
BareRow == [added |-> FALSE, res |-> "never"]
NoRow == [BareRow EXCEPT !.res = "none"]
NoSub == [meta |-> "none", scan |-> "none"]

Spend == left > 0 /\ left' = left - 1

Subscribed == sub # NoSub

HasDownloads == library = "downloaded"

\* Get: what a reader learns of the row, cache-only rows included.
Get == row.res

\* The channels the list shows: added, or behind a downloaded video.
Listed == row.added \/ (row # NoRow /\ HasDownloads)

Go(a, place) == at' = [at EXCEPT ![a] = place]

-----------------------------------------------------------------------------
(* The store (channels/store.go, channels/metarefresh.go).                 *)

\* Upsert with a resolved_at: resolve_ok is left as it is.
Upsert(r) == IF r = NoRow THEN [BareRow EXCEPT !.res = "failed"]
             ELSE [r EXCEPT !.res = IF @ = "never" THEN "failed" ELSE @]

\* An UPDATE, which finds nothing to update when the channel was deleted.
MarkResolveAttempted(r) == IF r = NoRow THEN r ELSE [r EXCEPT !.res = "failed"]

MarkResolveAttemptedIfUnset(r) ==
  IF r.res = "never" THEN [r EXCEPT !.res = "failed"] ELSE r

\* SaveResolved inserts or updates.
SaveResolved(r) == [(IF r = NoRow THEN BareRow ELSE r) EXCEPT !.res = "ok"]

MarkAdded(r) == IF r = NoRow THEN r ELSE [r EXCEPT !.added = TRUE]

\* The first refresh is scheduled with the subscription, within a week.
FreshSub == [meta |-> "later", scan |-> "past"]

MarkMetaRefreshed(s, when) == IF s = NoSub THEN s ELSE [s EXCEPT !.meta = when]

\* Variant: near is near, on either side of the scan's instant.
ScanQuietBothWays == sub.scan \in {"none", "far"}

\* scanQuietPredicate: not just scanned, not to be scanned soon.  An instant
\* in the past, a failing channel's, does not count as soon.
ScanQuiet == sub.scan \in {"none", "far", "past"}

ClaimDueMetadata == Subscribed /\ sub.meta = "due" /\ ScanQuiet

ClaimUnresolved == Listed /\ row.res = "never" /\ ScanQuiet

-----------------------------------------------------------------------------
Init ==
  /\ row \in {NoRow, [BareRow EXCEPT !.added = TRUE]}
  /\ library = "none"
  /\ sub \in {NoSub} \cup {s \in {FreshSub} : row # NoRow}
  /\ at = [a \in Actors |-> "idle"] /\ held = [a \in Actors |-> "none"]
  /\ open = TRUE /\ left = MaxEvents
  /\ earned = TRUE /\ pageCalls = 0

-----------------------------------------------------------------------------
(* The worker (channelmeta/worker.go).                                     *)

Claim ==
  /\ at["worker"] = "idle" /\ open
  /\ ClaimDueMetadata \/ ClaimUnresolved
  /\ Go("worker", "call") /\ held' = [held EXCEPT !["worker"] = row.res]
  /\ earned' = FALSE
  /\ UNCHANGED <<row, library, sub, open, left, pageCalls>>

\* Variant: only a channel that was read is scheduled anew.
SettleWhenRead(r) ==
  /\ sub' = IF r.res = "ok" THEN MarkMetaRefreshed(sub, "later")
            ELSE sub
  /\ row' = MarkResolveAttemptedIfUnset(r)

\* settle, on every outcome but a failure under a shutdown: the rotation is
\* held off by the schedule, the backlog by resolved_at.
Settle(r) ==
  /\ sub' = MarkMetaRefreshed(sub, "later")
  /\ row' = MarkResolveAttemptedIfUnset(r)

-----------------------------------------------------------------------------
(* Refresher.Resolve, run by the worker, the page and the Refresh button.  *)

Resolvers == {"worker", "page", "refresh"}

\* Variant: a call without metadata leaves no mark.
RecordNothing(a) == row

\* recordAttempt: a failed call, a stall, a refused gate and the identity of
\* another channel all go through it.
RecordAttempt(a) ==
  IF held[a] = "none" THEN Upsert(row) ELSE MarkResolveAttempted(row)

\* The end of a resolver's call that leaves r of the row.
CallEnds(a, r) ==
  /\ Go(a, "idle") /\ held' = [held EXCEPT ![a] = "none"]
  /\ IF a = "worker" THEN Settle(r) ELSE row' = r /\ UNCHANGED sub

ResolveFails(a) ==
  /\ at[a] = "call" /\ Spend
  /\ CallEnds(a, RecordAttempt(a))
  /\ UNCHANGED <<library, open, earned, pageCalls>>

ResolveWorks(a) ==
  /\ at[a] = "call" /\ open
  /\ IF a = "worker"
     \* the worker fetches the artwork itself, before it settles
     THEN row' = SaveResolved(row) /\ Go(a, "art") /\ UNCHANGED <<sub, held>>
     ELSE CallEnds(a, SaveResolved(row))
  /\ UNCHANGED <<library, open, left, earned, pageCalls>>

\* An answer that cannot be stored, or a panic over it: nothing is recorded,
\* only the worker settles.
ResolveBreaks(a) ==
  /\ at[a] = "call" /\ Spend
  /\ CallEnds(a, row)
  /\ pageCalls' = 0
  /\ UNCHANGED <<library, open, earned>>

\* The artwork has come, or not, and the worker settles.
WorkerArt ==
  /\ at["worker"] = "art" /\ CallEnds("worker", row)
  /\ UNCHANGED <<library, open, left, earned, pageCalls>>

-----------------------------------------------------------------------------
(* Handlers (httpapi/channels_handlers.go).                                *)

\* handleChannelDetail reads the row, or the name its videos carry.
Visit ==
  /\ at["visit"] = "idle" /\ (row # NoRow \/ library # "none")
  /\ Go("visit", "seen") /\ held' = [held EXCEPT !["visit"] = Get]
  /\ UNCHANGED <<row, library, sub, open, left, earned, pageCalls>>

\* The gate of maybeResolveChannel: never read when the page read the row, and
\* no resolve of this channel queued or running.
MayStart == held["visit"] \in {"none", "never"} /\ at["page"] = "idle"

MaybeResolve ==
  /\ at["visit"] = "seen"
  /\ at' = [at EXCEPT !["visit"] = "idle", !["page"] = IF MayStart THEN "call" ELSE @]
  /\ held' = [held EXCEPT !["visit"] = "none",
                         !["page"] = IF MayStart THEN held["visit"] ELSE @]
  /\ pageCalls' = IF MayStart /\ pageCalls < 4 THEN pageCalls + 1 ELSE pageCalls
  /\ UNCHANGED <<row, library, sub, open, left, earned>>

\* handleChannelRefresh: 404 for an id that names nothing.
Refresh ==
  /\ at["refresh"] = "idle" /\ (row # NoRow \/ library # "none") /\ Spend
  /\ Go("refresh", "call") /\ held' = [held EXCEPT !["refresh"] = Get]
  /\ UNCHANGED <<row, library, sub, open, earned, pageCalls>>

\* handleChannelsPost: the link resolves, then three writes.
Paste ==
  /\ at["paste"] = "idle" /\ open /\ Spend
  /\ row' = SaveResolved(row)
  /\ Go("paste", "mark")
  /\ UNCHANGED <<library, sub, held, open, earned, pageCalls>>

PasteMarks ==
  /\ at["paste"] = "mark"
  /\ row' = MarkAdded(row)
  /\ \/ Go("paste", "subscribe")
     \/ Go("paste", "idle")
  /\ UNCHANGED <<library, sub, held, open, left, earned, pageCalls>>

\* Subscribe does nothing twice, and is refused without a row to refer to.
SubscribeRow ==
  /\ sub' = IF row = NoRow \/ Subscribed THEN sub ELSE FreshSub
  /\ earned' = (earned \/ ~Subscribed)

PasteSubscribes ==
  /\ at["paste"] = "subscribe"
  /\ SubscribeRow /\ Go("paste", "idle")
  /\ UNCHANGED <<row, library, held, open, left, pageCalls>>

\* handleChannelsSubscribe, the star: Get, MarkAdded when only a download made
\* the channel listed, Subscribe.
Star ==
  /\ at["star"] = "idle" /\ row # NoRow /\ Spend
  /\ row.added \/ HasDownloads
  /\ row' = MarkAdded(row) /\ Go("star", "subscribe")
  /\ UNCHANGED <<library, sub, held, open, earned, pageCalls>>

StarSubscribes ==
  /\ at["star"] = "subscribe"
  /\ SubscribeRow /\ Go("star", "idle")
  /\ UNCHANGED <<row, library, held, open, left, pageCalls>>

Unsubscribe ==
  /\ Subscribed /\ Spend /\ sub' = NoSub
  /\ UNCHANGED <<row, library, at, held, open, earned, pageCalls>>

\* handleChannelSkipMeta: a cycle later, or the instant it was skipped from.
SkipMeta ==
  /\ Subscribed /\ Spend
  /\ \E when \in {"later", "due"} :
       /\ sub' = MarkMetaRefreshed(sub, when)
       /\ earned' = (earned \/ when = "due")
  /\ UNCHANGED <<row, library, at, held, open, pageCalls>>

\* handleChannelsDelete and DeleteCascade, for a channel that is listed.
Delete ==
  /\ Listed /\ Spend
  /\ row' = NoRow /\ library' = "none" /\ sub' = NoSub
  /\ pageCalls' = 0
  /\ UNCHANGED <<at, held, open, earned>>

-----------------------------------------------------------------------------
(* Downloads, the scan, the clock, the gates and the process.              *)

\* The download worker's preflight stores the video, with its channel's id ...
\* (That of one more video tells a channel with a video and a row nothing new.)
Discover ==
  /\ library = "none" \/ row = NoRow
  /\ at["preflight"] = "idle" /\ Go("preflight", "mark")
  /\ library' = IF library = "none" THEN "row" ELSE library
  /\ UNCHANGED <<row, sub, held, open, left, earned, pageCalls>>

\* ... and then the channel's identity, without a resolved_at.
PreflightCaches ==
  /\ at["preflight"] = "mark" /\ Go("preflight", "idle")
  /\ row' = IF row = NoRow THEN BareRow ELSE row
  /\ earned' = (earned \/ row = NoRow)
  /\ UNCHANGED <<library, sub, held, open, left, pageCalls>>

\* That write fails: the download goes on, of a channel with a video and no row.
PreflightFails ==
  /\ at["preflight"] = "mark" /\ Spend /\ Go("preflight", "idle")
  /\ UNCHANGED <<row, library, sub, held, open, earned, pageCalls>>

Downloaded ==
  /\ at["preflight"] = "idle"
  /\ library = "row" /\ library' = "downloaded"
  /\ UNCHANGED <<row, sub, at, held, open, left, earned, pageCalls>>

\* The scan's instant nears, passes, and the scan runs, or goes on failing.
ScanMoves ==
  /\ Subscribed
  /\ \E step \in {<<"far", "soon">>, <<"soon", "past">>, <<"past", "just">>,
                  <<"past", "soon">>, <<"just", "far">>} :
       sub.scan = step[1] /\ sub' = [sub EXCEPT !.scan = step[2]]
  /\ UNCHANGED <<row, library, at, held, open, left, earned,
                 pageCalls>>

MetaDue ==
  /\ Subscribed /\ sub.meta = "later"
  /\ sub' = [sub EXCEPT !.meta = "due"] /\ earned' = TRUE
  /\ UNCHANGED <<row, library, at, held, open, left, pageCalls>>

Outage == /\ open /\ Spend /\ open' = FALSE
          /\ UNCHANGED <<row, library, sub, at, held, earned,
                         pageCalls>>

Repair == /\ ~open /\ open' = TRUE
          /\ UNCHANGED <<row, library, sub, at, held, left, earned,
                         pageCalls>>

\* The process stops, orderly or not: calls end and record nothing
\* (interruptedByShutdown), requests and flags are gone.
Stop ==
  /\ \E a \in Actors : at[a] # "idle"
  /\ Spend
  /\ at' = [a \in Actors |-> "idle"]
  /\ held' = [a \in Actors |-> "none"]
  /\ earned' = TRUE /\ pageCalls' = 0
  /\ UNCHANGED <<row, library, sub, open>>

-----------------------------------------------------------------------------
Resolve(a) == ResolveFails(a) \/ ResolveWorks(a) \/ ResolveBreaks(a)

Next ==
  \/ Claim \/ WorkerArt
  \/ \E a \in Resolvers : Resolve(a)
  \/ Visit \/ MaybeResolve \/ Refresh
  \/ Paste \/ PasteMarks \/ PasteSubscribes \/ Star \/ StarSubscribes
  \/ Unsubscribe \/ SkipMeta \/ Delete
  \/ Discover \/ PreflightCaches \/ PreflightFails \/ Downloaded \/ ScanMoves \/ MetaDue
  \/ Outage \/ Repair \/ Stop

\* Calls return, the clock advances and somebody repairs the access.  The
\* worker polls every five minutes: it meets a quiet hour if one keeps coming.
Fairness ==
  /\ SF_vars(Claim)
  /\ \A a \in Resolvers : WF_vars(Resolve(a))
  /\ WF_vars(WorkerArt) /\ WF_vars(Repair) /\ WF_vars(Subscribed /\ ScanMoves)

Spec == Init /\ [][Next]_vars /\ Fairness

-----------------------------------------------------------------------------
\* The worker calls YouTube about the channel once per reason: the week is over,
\* it was just discovered, added or subscribed, it was skipped to now, or the
\* process restarted.  A failed, broken or misdirected call is not a reason,
\* whatever became of the row under it (settle, recordAttempt).
NoHammering ==
  [][at["worker"] = "idle" /\ at'["worker"] = "call" => earned]_vars

\* However often its page is opened, a channel that cannot be read costs a call,
\* one more for a request that read the row before that call was settled, and one
\* more for a request that read it before the channel was deleted, whose failure
\* is recorded nowhere (resolved_at, resolveInFlight, recordAttempt).  Counted
\* since the last delete, restart or answer that could not be stored, with one
\* request for the page at a time; with or without a row.
PageCallsBounded == pageCalls <= 3

\* A refresh that is due takes place, and a listed channel that was never read
\* is, although neither may come near a scan of the channel, and whether or not
\* that scan is failing (scanQuietPredicate, ClaimDueMetadata, ClaimUnresolved).
MetadataIsRead ==
  /\ (Subscribed /\ sub.meta = "due") ~> (~Subscribed \/ sub.meta # "due")
  /\ (Listed /\ row.res = "never") ~> (~Listed \/ row.res # "never")

\* "Subscribed implies added" (channels/store.go:9, channels_handlers.go:896): it
\* does not hold, see the README.
SubscribedImpliesAdded == Subscribed => row.added

=============================================================================
