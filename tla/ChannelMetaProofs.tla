------------------------- MODULE ChannelMetaProofs -------------------------
(***************************************************************************)
(* Two promises of ChannelMeta for any number of clicks, deletes, failures *)
(* and restarts: the weekly worker calls YouTube about a channel once for  *)
(* each reason, and opening a channel's page costs at most three calls.    *)
(***************************************************************************)
EXTENDS ChannelMeta, TLAPS

Results == {"never", "failed", "ok"}
RealRow == [added : BOOLEAN, res : Results]
RealSub == [meta : {"later", "due"}, scan : {"past", "soon", "just", "far"}]

Types ==
  /\ row \in RealRow \cup {NoRow} /\ sub \in RealSub \cup {NoSub}
  /\ at \in [Actors -> {"idle", "call", "art", "seen", "mark", "subscribe"}]
  /\ held \in [Actors -> Results \cup {"none"}]
  /\ library \in {"none", "row", "downloaded"}
  /\ pageCalls \in Nat /\ earned \in BOOLEAN

\* Nothing is claimable for no reason while the worker is idle.
Settled ==
  at["worker"] = "idle" /\ ~earned => row.res # "never" /\ sub.meta # "due"

\* A visitor who read the row before it was settled, and may still start a call.
Late == at["visit"] = "seen" /\ held["visit"] \in {"none", "never"}
LateCall == IF Late THEN 1 ELSE 0

\* A call of the page that will leave a row, however it fails.
Marking == at["page"] = "call" /\ held["page"] = "none"

\* Without a row, one call can have failed unrecorded, that of a visitor from
\* before the delete, and one that will be recorded is under way.  A row that was
\* never read knows at most of those two; one that is settled has one late
\* visitor more.
CallsCounted ==
  /\ row.res = "none" =>
       /\ pageCalls <= IF Marking THEN 2 ELSE 1
       /\ at["visit"] = "seen" /\ held["visit"] = "never" => pageCalls = 0
  /\ row.res = "never" => pageCalls <= IF at["page"] = "call" THEN 2 ELSE 1
  /\ row.res \in {"failed", "ok"} => pageCalls + LateCall <= 3

MetaInv == Types /\ Settled /\ CallsCounted

-----------------------------------------------------------------------------
LEMMA RowFacts ==
  /\ NoRow.res = "none" /\ NoRow \notin RealRow
  /\ BareRow \in RealRow /\ BareRow.res = "never"
  /\ NoSub.meta = "none" /\ NoSub \notin RealSub
  /\ FreshSub \in RealSub /\ FreshSub.meta = "later"
<1>1. NoRow.res = "none" /\ BareRow \in RealRow /\ BareRow.res = "never"
  BY DEF NoRow, BareRow, RealRow, Results
<1>2. NoSub.meta = "none" BY DEF NoSub
<1>3. FreshSub \in RealSub /\ FreshSub.meta = "later" BY DEF FreshSub, RealSub
<1> QED BY <1>1, <1>2, <1>3 DEF RealRow, RealSub, Results

\* The writes of the row: each leaves a row that was settled settled.
LEMMA RowWrites ==
  ASSUME NEW r \in RealRow \cup {NoRow}
  PROVE  /\ Upsert(r) \in RealRow /\ Upsert(r).res \in {"failed", "ok"}
         /\ MarkResolveAttempted(r) \in RealRow \cup {NoRow}
         /\ MarkResolveAttempted(r) = NoRow <=> r = NoRow
         /\ MarkResolveAttempted(r).res \in {"none", "failed"}
         /\ MarkResolveAttemptedIfUnset(r) \in RealRow \cup {NoRow}
         /\ MarkResolveAttemptedIfUnset(r) = NoRow <=> r = NoRow
         /\ MarkResolveAttemptedIfUnset(r).res = IF r.res = "never" THEN "failed" ELSE r.res
         /\ SaveResolved(r) \in RealRow /\ SaveResolved(r).res = "ok"
         /\ MarkAdded(r) \in RealRow \cup {NoRow} /\ MarkAdded(r).res = r.res
         /\ MarkAdded(r) = NoRow <=> r = NoRow
<1>1. CASE r = NoRow
  <2>1. /\ Upsert(r) = [BareRow EXCEPT !.res = "failed"]
        /\ MarkResolveAttempted(r) = r /\ MarkResolveAttemptedIfUnset(r) = r
        /\ SaveResolved(r) = [BareRow EXCEPT !.res = "ok"] /\ MarkAdded(r) = r
    BY <1>1, RowFacts
       DEF Upsert, MarkResolveAttempted, MarkResolveAttemptedIfUnset, SaveResolved, MarkAdded
  <2>2. [BareRow EXCEPT !.res = "failed"] \in RealRow /\ [BareRow EXCEPT !.res = "ok"] \in RealRow
        /\ [BareRow EXCEPT !.res = "failed"].res = "failed"
        /\ [BareRow EXCEPT !.res = "ok"].res = "ok"
    BY RowFacts DEF RealRow, Results
  <2> QED BY <1>1, <2>1, <2>2, RowFacts
<1>2. CASE r \in RealRow
  <2>1. r # NoRow BY <1>2, RowFacts
  <2>2. ASSUME NEW x \in Results
        PROVE  [r EXCEPT !.res = x] \in RealRow /\ [r EXCEPT !.res = x].res = x
    BY <1>2 DEF RealRow
  <2>3. [r EXCEPT !.added = TRUE] \in RealRow /\ [r EXCEPT !.added = TRUE].res = r.res
    BY <1>2 DEF RealRow
  <2>4. Upsert(r) = [r EXCEPT !.res = IF r.res = "never" THEN "failed" ELSE r.res]
        /\ r.res \in Results
    BY <1>2, <2>1 DEF Upsert, RealRow
  <2>5. /\ MarkResolveAttempted(r) = [r EXCEPT !.res = "failed"]
        /\ SaveResolved(r) = [r EXCEPT !.res = "ok"]
        /\ MarkAdded(r) = [r EXCEPT !.added = TRUE]
    BY <2>1 DEF MarkResolveAttempted, SaveResolved, MarkAdded
  <2>6. MarkResolveAttemptedIfUnset(r) = IF r.res = "never" THEN [r EXCEPT !.res = "failed"] ELSE r
    BY DEF MarkResolveAttemptedIfUnset
  <2>7. "failed" \in Results /\ "ok" \in Results BY DEF Results
  <2>8. Upsert(r) \in RealRow /\ Upsert(r).res \in {"failed", "ok"}
    BY <2>2, <2>4, <2>7 DEF Results
  <2>9. RealRow \cap {NoRow} = {} BY RowFacts
  <2>10. MarkResolveAttempted(r) \in RealRow /\ MarkResolveAttempted(r).res = "failed"
    BY <2>2, <2>5, <2>7
  <2>11. SaveResolved(r) \in RealRow /\ SaveResolved(r).res = "ok" BY <2>2, <2>5, <2>7
  <2>12. /\ MarkResolveAttemptedIfUnset(r) \in RealRow
         /\ MarkResolveAttemptedIfUnset(r).res = IF r.res = "never" THEN "failed" ELSE r.res
    BY <1>2, <2>2, <2>6, <2>7
  <2>13. MarkAdded(r) \in RealRow /\ MarkAdded(r).res = r.res BY <2>3, <2>5
  <2> QED BY <2>1, <2>8, <2>9, <2>10, <2>11, <2>12, <2>13
<1> QED BY <1>1, <1>2

LEMMA Scheduled ==
  ASSUME NEW s \in RealSub \cup {NoSub}, NEW when \in {"later", "due"}
  PROVE  /\ MarkMetaRefreshed(s, when) \in RealSub \cup {NoSub}
         /\ when = "later" => MarkMetaRefreshed(s, when).meta # "due"
<1>1. CASE s = NoSub BY <1>1, RowFacts DEF MarkMetaRefreshed
<1>2. CASE s \in RealSub BY <1>2, RowFacts DEF MarkMetaRefreshed, RealSub
<1> QED BY <1>1, <1>2

-----------------------------------------------------------------------------
(* The calls of the worker, the page and the Refresh button.               *)

\* The count starts again.
LEMMA CountsOfNone == ASSUME pageCalls' = 0 PROVE CallsCounted'
<1>1. 0 <= IF at'["page"] = "call" THEN 2 ELSE 1
  <2>1. CASE at'["page"] = "call" BY <2>1
  <2>2. CASE at'["page"] # "call" BY <2>2
  <2> QED BY <2>1, <2>2
<1>2. LateCall' = 0 \/ LateCall' = 1
  <2>1. CASE Late' BY <2>1 DEF LateCall
  <2>2. CASE ~Late' BY <2>2 DEF LateCall
  <2> QED BY <2>1, <2>2
<1>3. 0 + LateCall' <= 3 BY <1>2
<1>4. 0 <= IF Marking' THEN 2 ELSE 1
  <2>1. CASE Marking' BY <2>1
  <2>2. CASE ~Marking' BY <2>2
  <2> QED BY <2>1, <2>2
<1> HIDE DEF LateCall, Marking
<1> QED BY <1>1, <1>3, <1>4 DEF CallsCounted

\* No row has been asked for by more than two calls before it is settled.
LEMMA CountsSoFar ==
  ASSUME MetaInv
  PROVE  /\ pageCalls \in Nat /\ LateCall \in {0, 1} /\ pageCalls + LateCall <= 3
         /\ row.res \in {"none", "never"} => pageCalls <= 2
<1>1. row.res \in {"none", "never", "failed", "ok"} /\ pageCalls \in Nat
  BY RowFacts DEF MetaInv, Types, RealRow, Results
<1>2. LateCall \in {0, 1} BY DEF LateCall
<1>3. /\ row.res \in {"none", "never"} => pageCalls <= 2
      /\ row.res \in {"failed", "ok"} => pageCalls + LateCall <= 3
  <2>1. ASSUME NEW b \in BOOLEAN, pageCalls <= IF b THEN 2 ELSE 1 PROVE pageCalls <= 2
    <3>1. CASE b BY <2>1, <3>1
    <3>2. CASE ~b BY <1>1, <2>1, <3>2
    <3> QED BY <3>1, <3>2
  <2>2. Marking \in BOOLEAN /\ (at["page"] = "call") \in BOOLEAN BY DEF Marking
  <2>3. /\ row.res = "none" => pageCalls <= IF Marking THEN 2 ELSE 1
        /\ row.res = "never" => pageCalls <= IF at["page"] = "call" THEN 2 ELSE 1
        /\ row.res \in {"failed", "ok"} => pageCalls + LateCall <= 3
    BY DEF MetaInv, CallsCounted
  <2> HIDE DEF LateCall, Marking
  <2> QED BY <1>1, <2>1, <2>2, <2>3
<1> HIDE DEF LateCall
<1> QED BY <1>1, <1>2, <1>3

\* A call that is over leaves the row settled, or is not the page's, or was made
\* for a visitor from before the delete.
LEMMA CountsOfCall ==
  ASSUME MetaInv, NEW r \in RealRow \cup {NoRow}, row' = r,
         at'["visit"] = at["visit"], held'["visit"] = held["visit"], pageCalls' = pageCalls,
         \/ r.res \in {"failed", "ok"}
         \/ r.res = row.res /\ at'["page"] = at["page"] /\ held'["page"] = held["page"]
         \/ r = NoRow /\ row = NoRow /\ ~Marking
  PROVE  CallsCounted'
<1>1. LateCall' = LateCall BY DEF LateCall, Late
<1>2. CASE r.res \in {"failed", "ok"} BY <1>1, <1>2, CountsSoFar DEF CallsCounted
<1>3. CASE r.res = row.res /\ at'["page"] = at["page"] /\ held'["page"] = held["page"]
  <2>1. Marking' = Marking BY <1>3 DEF Marking
  <2> QED BY <1>1, <1>3, <2>1 DEF MetaInv, CallsCounted
<1>4. CASE r = NoRow /\ row = NoRow /\ ~Marking
  <2>1. row'.res = "none" /\ row.res = "none" BY <1>4, RowFacts
  <2>2. /\ pageCalls <= 1
        /\ at["visit"] = "seen" /\ held["visit"] = "never" => pageCalls = 0
    BY <1>4, <2>1 DEF MetaInv, CallsCounted
  <2>3. pageCalls' <= IF Marking' THEN 2 ELSE 1
    <3>1. CASE Marking' BY <2>2, <3>1, CountsSoFar
    <3>2. CASE ~Marking' BY <2>2, <3>2
    <3> QED BY <3>1, <3>2
  <2> QED BY <2>1, <2>2, <2>3 DEF CallsCounted
<1> QED BY <1>2, <1>3, <1>4

LEMMA RecordedAttempt ==
  ASSUME MetaInv, NEW a \in Resolvers
  PROVE  /\ RecordAttempt(a) \in RealRow \cup {NoRow}
         /\ \/ RecordAttempt(a).res \in {"failed", "ok"}
            \/ RecordAttempt(a) = NoRow /\ row = NoRow /\ held[a] # "none"
<1>1. row \in RealRow \cup {NoRow} BY DEF MetaInv, Types
<1>2. CASE held[a] = "none"
  <2>1. RecordAttempt(a) = Upsert(row) BY <1>2 DEF RecordAttempt
  <2>2. Upsert(row) # NoRow BY <1>1, RowWrites, RowFacts
  <2> QED BY <1>1, <2>1, <2>2, RowWrites
<1>3. CASE held[a] # "none"
  <2>1. RecordAttempt(a) = MarkResolveAttempted(row) BY <1>3 DEF RecordAttempt
  <2>2. CASE row = NoRow BY <1>1, <1>3, <2>1, <2>2, RowWrites
  <2>3. CASE row # NoRow
    <3>1. MarkResolveAttempted(row) = [row EXCEPT !.res = "failed"]
      BY <2>3 DEF MarkResolveAttempted
    <3>2. row \in RealRow BY <1>1, <2>3
    <3>3. MarkResolveAttempted(row).res = "failed" BY <3>1, <3>2 DEF RealRow
    <3> QED BY <1>1, <2>1, <2>3, <3>3, RowWrites
  <2> QED BY <2>2, <2>3
<1> QED BY <1>2, <1>3

\* The end of a call that leaves r, before the worker's own settling.
LEMMA CallOver ==
  ASSUME MetaInv, NEW a \in Resolvers, NEW r \in RealRow \cup {NoRow}, CallEnds(a, r),
         UNCHANGED <<library, earned>>,
         \/ pageCalls' = 0
         \/ /\ pageCalls' = pageCalls
            /\ \/ r.res \in {"failed", "ok"}
               \/ r.res = row.res /\ a # "page"
               \/ r = NoRow /\ row = NoRow /\ held[a] # "none",
         r.res = "never" => row.res = "never"
  PROVE  MetaInv'
<1>0. a \in Actors /\ Resolvers \subseteq Actors BY DEF Resolvers, Actors
<1>1. /\ at' = [at EXCEPT ![a] = "idle"] /\ held' = [held EXCEPT ![a] = "none"]
  BY DEF CallEnds, Go
<1>2. /\ at'["visit"] = at["visit"] /\ held'["visit"] = held["visit"]
  BY <1>0, <1>1 DEF MetaInv, Types, Resolvers, Actors
<1>3. /\ at' \in [Actors -> {"idle", "call", "art", "seen", "mark", "subscribe"}]
      /\ held' \in [Actors -> Results \cup {"none"}]
  BY <1>0, <1>1 DEF MetaInv, Types
<1>4. PICK w \in {r, MarkResolveAttemptedIfUnset(r)} :
        /\ row' = w
        /\ IF a = "worker" THEN sub' = MarkMetaRefreshed(sub, "later") /\ w = MarkResolveAttemptedIfUnset(r)
           ELSE sub' = sub /\ w = r
  BY DEF CallEnds, Settle
<1>5. /\ w \in RealRow \cup {NoRow} /\ (w = NoRow <=> r = NoRow)
      /\ r.res \in {"none", "never", "failed", "ok"}
      /\ w.res = r.res \/ (r.res = "never" /\ w.res = "failed")
      /\ a = "worker" => w.res # "never"
  BY <1>4, RowWrites, RowFacts DEF RealRow, Results
<1>6. Types'
  <2>1. sub' \in RealSub \cup {NoSub} BY <1>4, Scheduled DEF MetaInv, Types
  <2>2. pageCalls' \in Nat BY DEF MetaInv, Types
  <2> QED BY <1>3, <1>4, <1>5, <2>1, <2>2 DEF MetaInv, Types
<1>8. Settled'
  <2>1. CASE a = "worker"
    <3>1. sub'.meta # "due" BY <1>4, <2>1, Scheduled DEF MetaInv, Types
    <3> QED BY <1>4, <1>5, <2>1, <3>1 DEF Settled
  <2>2. CASE a # "worker"
    <3>1. at'["worker"] = at["worker"] BY <1>0, <1>1, <2>2 DEF MetaInv, Types, Actors
    <3>2. row'.res = "never" => row.res = "never" BY <1>4, <2>2
    <3> QED BY <1>4, <2>2, <3>1, <3>2 DEF MetaInv, Settled
  <2> QED BY <2>1, <2>2
<1>9. CallsCounted'
  <2>1. CASE pageCalls' = 0 BY <2>1, CountsOfNone
  <2>2. CASE pageCalls' = pageCalls /\ r.res \in {"failed", "ok"}
    BY <1>2, <1>4, <1>5, <2>2, CountsOfCall
  <2>3. CASE pageCalls' = pageCalls /\ r.res = row.res /\ a # "page"
    <3>1. at'["page"] = at["page"] /\ held'["page"] = held["page"]
      BY <1>0, <1>1, <2>3 DEF MetaInv, Types, Actors
    <3> QED BY <1>2, <1>4, <1>5, <2>3, <3>1, CountsOfCall
  <2>4. CASE /\ pageCalls' = pageCalls /\ a = "page"
             /\ r = NoRow /\ row = NoRow /\ held[a] # "none"
    <3>1. ~Marking BY <2>4 DEF Marking
    <3>2. w = NoRow BY <1>5, <2>4
    <3> QED BY <1>2, <1>4, <2>4, <3>1, <3>2, CountsOfCall
  <2> QED BY <2>1, <2>2, <2>3, <2>4
<1> QED BY <1>6, <1>8, <1>9 DEF MetaInv

LEMMA StepCalls ==
  ASSUME MetaInv, Claim \/ WorkerArt \/ \E a \in Resolvers : Resolve(a)
  PROVE  MetaInv'
<1>0. row \in RealRow \cup {NoRow} /\ row.res \in {"none", "never", "failed", "ok"}
  BY RowFacts DEF MetaInv, Types, RealRow, Results
<1>1. CASE Claim
  <2>1. /\ at' = [at EXCEPT !["worker"] = "call"] /\ held' = [held EXCEPT !["worker"] = row.res]
        /\ earned' = FALSE /\ UNCHANGED <<row, library, sub, pageCalls>>
    BY <1>1 DEF Claim, Go
  <2>2. Types' BY <1>0, <2>1 DEF MetaInv, Types, Actors, Results
  <2>3. Settled' BY <2>1 DEF MetaInv, Types, Settled, Actors
  <2>4. CallsCounted'
    BY <2>1 DEF MetaInv, Types, CallsCounted, LateCall, Late, Marking, Actors
  <2> QED BY <2>1, <2>2, <2>3, <2>4 DEF MetaInv
<1>2. CASE WorkerArt
  <2>1. CallEnds("worker", row) /\ UNCHANGED <<library, earned, pageCalls>>
    BY <1>2 DEF WorkerArt
  <2>2. "worker" \in Resolvers BY DEF Resolvers
  <2> QED BY <1>0, <2>1, <2>2, CallOver
<1>3. ASSUME NEW a \in Resolvers, ResolveFails(a) PROVE MetaInv'
  <2>1. CallEnds(a, RecordAttempt(a)) /\ UNCHANGED <<library, earned, pageCalls>>
    BY <1>3 DEF ResolveFails
  <2> DEFINE r == RecordAttempt(a)
  <2>2. /\ r \in RealRow \cup {NoRow}
        /\ r.res \in {"failed", "ok"} \/ (r = NoRow /\ row = NoRow /\ held[a] # "none")
    BY RecordedAttempt
  <2>3. r.res = "never" => row.res = "never" BY <2>2
  <2> HIDE DEF r
  <2>4. CallEnds(a, r) BY <2>1 DEF r
  <2> QED BY <2>1, <2>2, <2>3, <2>4, CallOver
<1>4. ASSUME NEW a \in Resolvers, ResolveWorks(a) PROVE MetaInv'
  <2> DEFINE r == SaveResolved(row)
  <2>1. r \in RealRow /\ r.res = "ok" /\ r # NoRow BY <1>0, RowWrites, RowFacts
  <2>2. CASE a = "worker"
    <3>1. /\ row' = r /\ at' = [at EXCEPT !["worker"] = "art"]
          /\ UNCHANGED <<sub, held, library, earned, pageCalls>>
      BY <1>4, <2>2 DEF ResolveWorks, Go
    <3> HIDE DEF r
    <3>2. /\ at'["visit"] = at["visit"] /\ at'["worker"] = "art"
          /\ at' \in [Actors -> {"idle", "call", "art", "seen", "mark", "subscribe"}]
      BY <3>1 DEF MetaInv, Types, Actors
    <3>3. CallsCounted' BY <2>1, <3>1, <3>2, CountsOfCall
    <3>4. Settled' BY <3>2 DEF Settled
    <3>6. Types' BY <2>1, <3>1, <3>2 DEF MetaInv, Types
    <3> QED BY <3>3, <3>4, <3>6 DEF MetaInv
  <2>3. CASE a # "worker"
    <3>1. CallEnds(a, r) /\ UNCHANGED <<library, earned, pageCalls>>
      BY <1>4, <2>3 DEF ResolveWorks
    <3> HIDE DEF r
    <3> QED BY <2>1, <3>1, CallOver
  <2> QED BY <2>2, <2>3
<1>5. ASSUME NEW a \in Resolvers, ResolveBreaks(a) PROVE MetaInv'
  BY <1>0, <1>5, CallOver DEF ResolveBreaks
<1> QED BY <1>1, <1>2, <1>3, <1>4, <1>5 DEF Resolve

-----------------------------------------------------------------------------
(* The handlers, the downloads, the clock and the process.                 *)

\* A step that leaves the page's actors and the row's mark alone.
LEMMA CountsKept ==
  ASSUME MetaInv, row'.res = row.res, at'["visit"] = at["visit"], at'["page"] = at["page"],
         held'["visit"] = held["visit"], held'["page"] = held["page"], pageCalls' = pageCalls
  PROVE  CallsCounted'
BY DEF MetaInv, CallsCounted, LateCall, Late, Marking

LEMMA StepVisits ==
  ASSUME MetaInv, Visit \/ MaybeResolve
  PROVE  MetaInv'
<1>0. /\ row \in RealRow \cup {NoRow} /\ row.res \in {"none", "never", "failed", "ok"}
      /\ row # NoRow => row.res \in Results
  BY RowFacts DEF MetaInv, Types, RealRow, Results
<1>1. CASE Visit
  <2>1. /\ at' = [at EXCEPT !["visit"] = "seen"] /\ held' = [held EXCEPT !["visit"] = row.res]
        /\ UNCHANGED <<row, library, sub, earned, pageCalls>>
    BY <1>1 DEF Visit, Go, Get
  <2>2. Types' BY <1>0, <2>1 DEF MetaInv, Types, Actors, Results
  <2>3. /\ at'["worker"] = at["worker"] /\ held'["visit"] = row.res
        /\ at'["page"] = at["page"] /\ held'["page"] = held["page"]
    BY <2>1 DEF MetaInv, Types, Actors
  <2>4. Settled' BY <2>1, <2>3 DEF MetaInv, Settled
  <2>5. Marking' = Marking BY <2>3 DEF Marking
  <2>6. ASSUME row.res \in {"none", "never"} PROVE CallsCounted'
    BY <2>1, <2>3, <2>5, <2>6 DEF MetaInv, CallsCounted
  <2>7. ASSUME row.res \in {"failed", "ok"} PROVE CallsCounted'
    <3>1. LateCall' = 0 BY <2>3, <2>7 DEF LateCall, Late
    <3>2. pageCalls' + LateCall' <= 3
      <4> HIDE DEF LateCall
      <4>1. pageCalls <= 3 BY CountsSoFar
      <4> QED BY <2>1, <3>1, <4>1, CountsSoFar
    <3> QED BY <2>1, <2>7, <3>2 DEF CallsCounted
  <2>8. CallsCounted' BY <1>0, <2>6, <2>7
  <2> QED BY <2>2, <2>4, <2>8 DEF MetaInv
<1>2. CASE MaybeResolve
  <2>1. /\ at["visit"] = "seen" /\ UNCHANGED <<row, library, sub, earned>>
        /\ at' = [at EXCEPT !["visit"] = "idle", !["page"] = IF MayStart THEN "call" ELSE @]
        /\ held' = [held EXCEPT !["visit"] = "none",
                                !["page"] = IF MayStart THEN held["visit"] ELSE @]
        /\ pageCalls' = IF MayStart /\ pageCalls < 4 THEN pageCalls + 1 ELSE pageCalls
    BY <1>2 DEF MaybeResolve
  <2>2. Types' BY <2>1 DEF MetaInv, Types, Actors
  <2>3. /\ at'["worker"] = at["worker"] /\ at'["visit"] = "idle"
        /\ at'["page"] = IF MayStart THEN "call" ELSE at["page"]
        /\ held'["page"] = IF MayStart THEN held["visit"] ELSE held["page"]
    BY <2>1 DEF MetaInv, Types, Actors
  <2>4. Settled' BY <2>1, <2>3 DEF MetaInv, Settled
  <2>5. LateCall' = 0 BY <2>3 DEF LateCall, Late
  <2>6. pageCalls \in Nat BY DEF MetaInv, Types
  <2>7. ASSUME MayStart PROVE CallsCounted'
    <3>1. LateCall = 1 /\ at["page"] # "call" /\ ~Marking
      BY <2>1, <2>7 DEF LateCall, Late, MayStart, Marking
    <3>2. /\ row.res = "never" => pageCalls <= 1
          /\ row.res = "none" => pageCalls <= 1
          /\ row.res = "none" /\ held["visit"] = "never" => pageCalls = 0
          /\ row.res \in {"failed", "ok"} => pageCalls <= 2
      BY <2>1, <2>6, <3>1 DEF MetaInv, CallsCounted
    <3>3. pageCalls' <= pageCalls + 1 /\ pageCalls' \in Nat BY <2>1, <2>6
    <3>4. at'["page"] = "call" BY <2>3, <2>7
    <3>5. held["visit"] = "never" \/ Marking' BY <2>3, <2>7 DEF MayStart, Marking
    <3> HIDE DEF LateCall, Marking
    <3>6. row.res = "none" => pageCalls' <= IF Marking' THEN 2 ELSE 1
      <4>1. CASE Marking' BY <2>6, <3>2, <3>3, <4>1
      <4>2. CASE ~Marking' BY <2>6, <3>2, <3>3, <3>5, <4>2
      <4> QED BY <4>1, <4>2
    <3>7. row.res = "never" => pageCalls' <= 2 BY <2>6, <3>2, <3>3
    <3>8. row.res \in {"failed", "ok"} => pageCalls' <= 3
      BY <2>6, <3>2, <3>3
    <3>9. pageCalls' \in Nat BY <3>3
    <3>10. ASSUME NEW n \in Nat PROVE n + 0 = n OBVIOUS
    <3>11. pageCalls' + 0 = pageCalls' BY <3>9, <3>10
    <3> QED BY <2>1, <2>3, <2>5, <3>4, <3>6, <3>7, <3>8, <3>11 DEF CallsCounted
  <2>8. ASSUME ~MayStart PROVE CallsCounted'
    <3>1. /\ pageCalls' = pageCalls /\ at'["page"] = at["page"] /\ Marking' = Marking
      BY <2>1, <2>3, <2>8 DEF Marking
    <3> HIDE DEF LateCall
    <3>2. pageCalls + 0 <= 3 BY CountsSoFar
    <3> QED BY <2>1, <2>3, <2>5, <3>1, <3>2 DEF MetaInv, CallsCounted
  <2>9. CallsCounted' BY <2>7, <2>8
  <2> QED BY <2>2, <2>4, <2>9 DEF MetaInv
<1> QED BY <1>1, <1>2

\* A subscription that is not repeated is a reason to read the channel, and is
\* scheduled for later.
LEMMA Subscribing ==
  ASSUME Types, SubscribeRow
  PROVE  /\ sub' \in RealSub \cup {NoSub} /\ earned' \in BOOLEAN
         /\ ~earned' => ~earned
         /\ sub'.meta = "due" => sub.meta = "due"
<1>1. sub' = sub \/ sub' = FreshSub BY DEF SubscribeRow
<1>2. earned' = (earned \/ ~Subscribed) BY DEF SubscribeRow
<1>3. Subscribed \in BOOLEAN BY DEF Subscribed
<1>4. earned' \in BOOLEAN /\ (~earned' => ~earned) BY <1>2, <1>3 DEF Types
<1> QED BY <1>1, <1>4, RowFacts DEF Types

LEMMA StepRequests ==
  ASSUME MetaInv,
         \/ Refresh \/ Paste \/ PasteMarks \/ PasteSubscribes \/ Star \/ StarSubscribes
         \/ Unsubscribe \/ SkipMeta \/ Delete
  PROVE  MetaInv'
<1>0. /\ row \in RealRow \cup {NoRow} /\ row.res \in {"none", "never", "failed", "ok"}
      /\ Types
  BY RowFacts DEF MetaInv, Types, RealRow, Results
<1> DEFINE Places == {"idle", "call", "art", "seen", "mark", "subscribe"}
<1>1. ASSUME NEW a \in Actors, NEW p \in Places, Go(a, p)
      PROVE  /\ at' \in [Actors -> Places]
             /\ \A b \in Actors : b # a => at'[b] = at[b]
  BY <1>1 DEF Go, MetaInv, Types
<1>2. {"refresh", "paste", "star"} \cap {"worker", "visit", "page"} = {}
      /\ {"refresh", "paste", "star", "worker", "visit", "page"} \subseteq Actors
  BY DEF Actors
<1>3. CASE Refresh
  <2>1. /\ Go("refresh", "call") /\ held' = [held EXCEPT !["refresh"] = row.res]
        /\ UNCHANGED <<row, library, sub, earned, pageCalls>>
    BY <1>3 DEF Refresh, Get
  <2>2. /\ at' \in [Actors -> Places] /\ at'["worker"] = at["worker"]
        /\ at'["visit"] = at["visit"] /\ at'["page"] = at["page"]
    BY <1>1, <1>2, <2>1
  <2>3. /\ held' \in [Actors -> Results \cup {"none"}]
        /\ held'["visit"] = held["visit"] /\ held'["page"] = held["page"]
    BY <1>0, <2>1 DEF Types, Actors, Results
  <2>4. CallsCounted' BY <2>1, <2>2, <2>3, CountsKept
  <2> QED BY <2>1, <2>2, <2>3, <2>4 DEF MetaInv, Types, Settled
<1>4. CASE Paste
  <2>1. /\ row' = SaveResolved(row) /\ Go("paste", "mark")
        /\ UNCHANGED <<library, sub, held, earned, pageCalls>>
    BY <1>4 DEF Paste
  <2>2. /\ at' \in [Actors -> Places] /\ at'["worker"] = at["worker"]
        /\ at'["visit"] = at["visit"] /\ at'["page"] = at["page"]
    BY <1>1, <1>2, <2>1
  <2>3. row' \in RealRow /\ row'.res = "ok" /\ row' # NoRow
    BY <1>0, <2>1, RowWrites, RowFacts
  <2>4. CallsCounted' BY <2>1, <2>2, <2>3, CountsOfCall
  <2>5. Types' BY <2>1, <2>2, <2>3 DEF MetaInv, Types
  <2> QED BY <2>1, <2>2, <2>3, <2>4, <2>5 DEF MetaInv, Settled
<1>5. ASSUME PasteMarks \/ Star PROVE MetaInv'
  <2>1. /\ row' = MarkAdded(row) /\ UNCHANGED <<library, sub, held, earned, pageCalls>>
        /\ \E a \in {"paste", "star"}, p \in {"subscribe", "idle"} : Go(a, p)
    BY <1>5 DEF PasteMarks, Star
  <2>2. /\ at' \in [Actors -> Places] /\ at'["worker"] = at["worker"]
        /\ at'["visit"] = at["visit"] /\ at'["page"] = at["page"]
    BY <1>1, <1>2, <2>1
  <2>3. row' \in RealRow \cup {NoRow} /\ row'.res = row.res /\ (row' = NoRow <=> row = NoRow)
    BY <1>0, <2>1, RowWrites
  <2>4. CallsCounted' BY <2>1, <2>2, <2>3, CountsKept
  <2>5. Types' BY <2>1, <2>2, <2>3 DEF MetaInv, Types
  <2> QED BY <2>1, <2>2, <2>3, <2>4, <2>5 DEF MetaInv, Settled
<1>6. ASSUME PasteSubscribes \/ StarSubscribes PROVE MetaInv'
  <2>1. /\ SubscribeRow /\ UNCHANGED <<row, library, held, pageCalls>>
        /\ \E a \in {"paste", "star"} : Go(a, "idle")
    BY <1>6 DEF PasteSubscribes, StarSubscribes
  <2>2. /\ at' \in [Actors -> Places] /\ at'["worker"] = at["worker"]
        /\ at'["visit"] = at["visit"] /\ at'["page"] = at["page"]
    BY <1>1, <1>2, <2>1
  <2>3. /\ sub' \in RealSub \cup {NoSub} /\ earned' \in BOOLEAN
        /\ (~earned' => ~earned) /\ (sub'.meta = "due" => sub.meta = "due")
    BY <1>0, <2>1, Subscribing
  <2>4. CallsCounted' BY <2>1, <2>2, CountsKept
  <2>5. Settled' BY <2>1, <2>2, <2>3 DEF MetaInv, Settled
  <2> QED BY <2>1, <2>2, <2>3, <2>4, <2>5 DEF MetaInv, Types
<1>7. CASE Unsubscribe
  <2>1. sub' = NoSub /\ UNCHANGED <<row, library, at, held, earned, pageCalls>>
    BY <1>7 DEF Unsubscribe
  <2>2. CallsCounted' BY <2>1, CountsKept
  <2>3. Settled' BY <2>1, RowFacts DEF MetaInv, Settled
  <2> QED BY <2>1, <2>2, <2>3 DEF MetaInv, Types
<1>8. CASE SkipMeta
  <2>1. PICK when \in {"later", "due"} :
          sub' = MarkMetaRefreshed(sub, when) /\ earned' = (earned \/ when = "due")
    BY <1>8 DEF SkipMeta
  <2>2. UNCHANGED <<row, library, at, held, pageCalls>> BY <1>8 DEF SkipMeta
  <2>3. /\ sub' \in RealSub \cup {NoSub} /\ (when = "later" => sub'.meta # "due")
    BY <1>0, <2>1, Scheduled DEF Types
  <2>4. earned' \in BOOLEAN /\ (~earned' => ~earned /\ when = "later")
    BY <1>0, <2>1 DEF Types
  <2>5. CallsCounted' BY <2>2, CountsKept
  <2>6. Settled' BY <2>2, <2>3, <2>4 DEF MetaInv, Settled
  <2> QED BY <2>2, <2>3, <2>4, <2>5, <2>6 DEF MetaInv, Types
<1>9. CASE Delete
  <2>1. /\ row' = NoRow /\ library' = "none" /\ sub' = NoSub /\ pageCalls' = 0
        /\ UNCHANGED <<at, held, earned>>
    BY <1>9 DEF Delete
  <2>2. CallsCounted' BY <2>1, CountsOfNone
  <2>3. Settled' BY <2>1, RowFacts DEF Settled
  <2> QED BY <2>1, <2>2, <2>3 DEF MetaInv, Types
<1> QED BY <1>3, <1>4, <1>5, <1>6, <1>7, <1>8, <1>9

LEMMA StepWorld ==
  ASSUME MetaInv,
         \/ Discover \/ PreflightCaches \/ PreflightFails \/ Downloaded \/ ScanMoves \/ MetaDue
         \/ Outage \/ Repair \/ Stop \/ UNCHANGED vars
  PROVE  MetaInv'
<1>0. ASSUME NEW p \in {"idle", "mark"}, Go("preflight", p)
      PROVE  /\ at' \in [Actors -> {"idle", "call", "art", "seen", "mark", "subscribe"}]
             /\ at'["worker"] = at["worker"]
             /\ at'["visit"] = at["visit"] /\ at'["page"] = at["page"]
  BY <1>0 DEF Go, MetaInv, Types, Actors
<1>1. CASE Discover \/ PreflightFails
  <2>1. /\ Go("preflight", "mark") \/ Go("preflight", "idle")
        /\ UNCHANGED <<row, sub, held, earned, pageCalls>>
        /\ library' \in {"row", library}
    BY <1>1 DEF Discover, PreflightFails
  <2>2. CallsCounted' BY <1>0, <2>1, CountsKept
  <2> QED BY <1>0, <2>1, <2>2 DEF MetaInv, Types, Settled
<1>7. CASE PreflightCaches
  <2>1. /\ Go("preflight", "idle") /\ row' = IF row = NoRow THEN BareRow ELSE row
        /\ earned' = (earned \/ row = NoRow) /\ UNCHANGED <<library, sub, held, pageCalls>>
    BY <1>7 DEF PreflightCaches
  <2>2. CASE row = NoRow
    <3>1. row' = BareRow /\ earned' = TRUE /\ row'.res = "never" /\ row.res = "none"
      BY <2>1, <2>2, RowFacts
    <3>2. CallsCounted'
      <4>1. Marking => at["page"] = "call" BY DEF Marking
      <4>2. pageCalls <= IF Marking THEN 2 ELSE 1 BY <3>1 DEF MetaInv, CallsCounted
      <4>3. pageCalls <= IF at["page"] = "call" THEN 2 ELSE 1
        <5>1. CASE Marking BY <4>1, <4>2, <5>1
        <5>2. CASE ~Marking
          <6>1. pageCalls <= 1 BY <4>2, <5>2
          <6>2. CASE at["page"] = "call" BY <6>1, <6>2, CountsSoFar
          <6>3. CASE at["page"] # "call" BY <6>1, <6>3
          <6> QED BY <6>2, <6>3
        <5> QED BY <5>1, <5>2
      <4> QED BY <1>0, <2>1, <3>1, <4>3 DEF CallsCounted
    <3> QED BY <1>0, <2>1, <3>1, <3>2, RowFacts DEF MetaInv, Types, Settled
  <2>3. CASE row # NoRow
    <3>1. row' = row BY <2>1, <2>3
    <3>2. earned' = earned BY <2>1, <2>3 DEF MetaInv, Types
    <3>3. CallsCounted' BY <1>0, <2>1, <3>1, CountsKept
    <3> QED BY <1>0, <2>1, <3>1, <3>2, <3>3 DEF MetaInv, Types, Settled
  <2> QED BY <2>2, <2>3
<1>2. CASE Downloaded
  <2>1. /\ library = "row" /\ library' = "downloaded"
        /\ UNCHANGED <<row, sub, at, held, earned, pageCalls>>
    BY <1>2 DEF Downloaded
  <2>2. CallsCounted' BY <2>1, CountsKept
  <2> QED BY <2>1, <2>2 DEF MetaInv, Types, Settled
<1>3. CASE ScanMoves
  <2>1. PICK scan \in {"past", "soon", "just", "far"} : sub' = [sub EXCEPT !.scan = scan]
    BY <1>3 DEF ScanMoves
  <2>2. UNCHANGED <<row, library, at, held, earned, pageCalls>> /\ sub \in RealSub
    BY <1>3 DEF ScanMoves, Subscribed, MetaInv, Types
  <2>3. sub' \in RealSub /\ sub'.meta = sub.meta BY <2>1, <2>2 DEF RealSub
  <2>4. CallsCounted' BY <2>2, CountsKept
  <2> QED BY <2>2, <2>3, <2>4 DEF MetaInv, Types, Settled
<1>4. CASE MetaDue
  <2>1. /\ sub' = [sub EXCEPT !.meta = "due"] /\ earned' = TRUE /\ sub \in RealSub
        /\ UNCHANGED <<row, library, at, held, pageCalls>>
    BY <1>4 DEF MetaDue, Subscribed, MetaInv, Types
  <2>2. sub' \in RealSub BY <2>1 DEF RealSub
  <2>3. CallsCounted' BY <2>1, CountsKept
  <2> QED BY <2>1, <2>2, <2>3 DEF MetaInv, Types, Settled
<1>5. ASSUME Outage \/ Repair \/ UNCHANGED vars PROVE MetaInv'
  <2>1. UNCHANGED <<row, library, sub, at, held, earned, pageCalls>>
    BY <1>5 DEF Outage, Repair, vars
  <2>2. CallsCounted' BY <2>1, CountsKept
  <2> QED BY <2>1, <2>2 DEF MetaInv, Types, Settled
<1>6. CASE Stop
  <2>1. /\ at' = [a \in Actors |-> "idle"] /\ held' = [a \in Actors |-> "none"]
        /\ earned' = TRUE /\ pageCalls' = 0 /\ UNCHANGED <<row, library, sub>>
    BY <1>6 DEF Stop
  <2>2. CallsCounted' BY <2>1, CountsOfNone
  <2> QED BY <2>1, <2>2 DEF MetaInv, Types, Settled
<1> QED BY <1>1, <1>2, <1>3, <1>4, <1>5, <1>6, <1>7

-----------------------------------------------------------------------------
LEMMA Initially == Init => MetaInv
<1> SUFFICES ASSUME Init PROVE MetaInv OBVIOUS
<1>1. row \in {NoRow, [BareRow EXCEPT !.added = TRUE]} /\ sub \in {NoSub, FreshSub}
  BY DEF Init
<1>2. [BareRow EXCEPT !.added = TRUE] \in RealRow BY DEF BareRow, RealRow, Results
<1>3. CallsCounted
  <2>1. /\ pageCalls = 0 /\ LateCall = 0 /\ ~Marking /\ at["page"] # "call"
    BY DEF Init, LateCall, Late, Marking, Actors
  <2> HIDE DEF LateCall, Marking
  <2> QED BY <2>1 DEF CallsCounted
<1> QED BY <1>1, <1>2, <1>3, RowFacts DEF Init, MetaInv, Types, Settled

LEMMA Step == MetaInv /\ [Next]_vars => MetaInv'
<1> SUFFICES ASSUME MetaInv, [Next]_vars PROVE MetaInv' OBVIOUS
<1> QED BY StepCalls, StepVisits, StepRequests, StepWorld DEF Next

\* The rows, the marks and the counts stay in order: the inductive invariant of
\* the channel's row and of the five actors who write it.
THEOREM RowStaysSettled == Spec => []MetaInv
BY Initially, Step, PTL DEF Spec

\* The page's calls about one channel, with or without a row: never a fourth
\* (resolved_at, resolveInFlight, recordAttempt).
THEOREM PageCallsAreBounded == Spec => []PageCallsBounded
<1>1. MetaInv => PageCallsBounded
  <2> SUFFICES ASSUME MetaInv PROVE pageCalls <= 3 BY DEF PageCallsBounded
  <2> HIDE DEF LateCall
  <2> QED BY CountsSoFar
<1> QED BY <1>1, RowStaysSettled, PTL

\* The worker's call has a reason: the mark of a settled row and the schedule of
\* a settled subscription hold every other one back (settle, recordAttempt).
THEOREM CalledForAReason == Spec => NoHammering
<1>1. ASSUME MetaInv, [Next]_vars
      PROVE  [at["worker"] = "idle" /\ at'["worker"] = "call" => earned]_vars
  <2> SUFFICES ASSUME Next, at["worker"] = "idle", at'["worker"] = "call" PROVE earned
    BY <1>1
  <2>1. CASE Claim BY <1>1, <2>1 DEF Claim, ClaimDueMetadata, ClaimUnresolved, MetaInv, Settled
  <2>2. ASSUME ~Claim PROVE at'["worker"] # "call"
    <3>1. at \in [Actors -> {"idle", "call", "art", "seen", "mark", "subscribe"}]
      BY <1>1 DEF MetaInv, Types
    <3>2. \A a \in Resolvers : Resolve(a) => at'["worker"] # "call"
      BY <3>1 DEF Resolve, ResolveFails, ResolveWorks, ResolveBreaks, CallEnds, Go,
                  Resolvers, Actors
    <3>3. WorkerArt \/ Visit \/ MaybeResolve \/ Refresh => at'["worker"] # "call"
      BY <3>1 DEF WorkerArt, Visit, MaybeResolve, Refresh, CallEnds, Go, Actors
    <3>4. Paste \/ PasteMarks \/ PasteSubscribes \/ Star \/ StarSubscribes
            => at'["worker"] # "call"
      BY <3>1 DEF Paste, PasteMarks, PasteSubscribes, Star, StarSubscribes, Go, Actors
    <3>5. Unsubscribe \/ SkipMeta \/ Delete \/ Discover \/ PreflightCaches \/ PreflightFails \/ Downloaded \/ ScanMoves
          \/ MetaDue \/ Outage \/ Repair \/ Stop
            => at'["worker"] # "call"
      BY <3>1 DEF Unsubscribe, SkipMeta, Delete, Discover, PreflightCaches, PreflightFails, Downloaded,
                  ScanMoves, MetaDue, Go,
                  Outage, Repair, Stop, Actors
    <3>6. CASE \E a \in Resolvers : Resolve(a) BY <3>2, <3>6
    <3>7. CASE ~\E a \in Resolvers : Resolve(a) BY <2>2, <3>3, <3>4, <3>5, <3>7 DEF Next
    <3> QED BY <3>6, <3>7
  <2> QED BY <2>1, <2>2
<1>2. MetaInv /\ [Next]_vars => [at["worker"] = "idle" /\ at'["worker"] = "call" => earned]_vars
  BY <1>1
<1> QED BY <1>2, RowStaysSettled, PTL DEF Spec, NoHammering

=============================================================================
