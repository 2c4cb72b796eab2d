------------------------------- MODULE Watch -------------------------------
(***************************************************************************)
(* Who may write a video's watched flag and resume position when several   *)
(* players hold the same video: videos/store_watch.go (SetWatched and      *)
(* SetResume with its state_version check), the two handlers of            *)
(* httpapi/videos_handlers.go that call them, and the page that echoes the *)
(* version (ui/src/views/player/useResumeSync.ts and the toggle and the    *)
(* conflict handler of ui/src/views/Player.tsx).                           *)
(*                                                                         *)
(* One video.  A page is one browser tab.  A request is sent, served by    *)
(* the server and its answer adopted in three separate steps; requests and *)
(* answers overtake each other and may be lost.  The playhead is whatever  *)
(* the person does with it, so a page writes any position.                 *)
(***************************************************************************)
EXTENDS Integers, FiniteSets

CONSTANTS
    Pages,       \* the pages that may have the video open
    Positions,   \* playhead positions, in seconds
    Duration,    \* duration_seconds; 0 is unknown
    MaxPresses,  \* BOUND on presses of the watched button
    MaxLost,     \* BOUND on requests or answers the network loses
    MaxNet       \* BOUND on requests on their way at once

ASSUME PositionsAssumption == Positions \subseteq Nat /\ 0 \in Positions
ASSUME DurationAssumption == Duration \in Nat
ASSUME BoundsAssumption == MaxPresses \in Nat /\ MaxLost \in Nat /\ MaxNet \in Nat

VARIABLES
    row,     \* the videos row
    page,    \* page[c]: what the page shows and echoes
    net,     \* the requests on their way and the answers not yet adopted
    turns,   \* ghost: how often the watched state was decided
    presses, \* presses so far
    lost     \* losses so far

vars == <<row, page, net, turns, presses, lost>>

NoVersion == 0   \* stateVersionRef is null: nothing read yet

\* What an INSERT leaves: watched 0, position 0, state_version's DEFAULT 1.
NewRow == [watched |-> FALSE, position |-> 0, version |-> 1]

\* "plays": the playhead moves and no jump is waiting to be played on from, so
\* timeupdate writes it.  "knows" is a ghost: the turn at which the version was
\* read.
ClosedPage == [open |-> FALSE, watched |-> FALSE, plays |-> FALSE,
               version |-> NoVersion, knows |-> 0]

(***************************************************************************)
(* The store.                                                              *)
(***************************************************************************)
AutoWatched(p) == Duration > 0 /\ 10 * p >= 9 * Duration

\* Variant: pressing the button again is no news.
SetWatchedBumpsOnChange(r, b) ==
    [watched |-> b, position |-> 0,
     version |-> IF b = r.watched THEN r.version ELSE r.version + 1]

\* Either direction zeroes the position and bumps the version.
SetWatched(r, b) ==
    [watched |-> b, position |-> 0, version |-> r.version + 1]

Stale(r, expect) == expect # NoVersion /\ expect # r.version

\* Only a genuine unwatched -> watched transition bumps.
SetResume(r, p) ==
    [watched |-> r.watched \/ AutoWatched(p), position |-> p,
     version |-> IF AutoWatched(p) /\ ~r.watched THEN r.version + 1 ELSE r.version]

(***************************************************************************)
(* The server's side of a request m.  "state" is "sent" until it is        *)
(* served, then "done", "conflict" (409) or "failed" (the network).        *)
(***************************************************************************)
\* getVideo, called by an effect of the page or by handleStaleState.
Reads == {"get", "reread"}
Kinds == Reads \cup {"resume", "toggle"}

Waiting(c) == {m \in net : m.page = c}
Sent == {m \in net : m.state = "sent"}

Replace(m, n) == net' = (net \ {m}) \cup {n}

Answer(m, r, t) ==
    [m EXCEPT !.state = "done", !.version = r.version, !.knows = t,
              !.position = 0, !.watched = r.watched, !.flush = FALSE]

Unanswered(m, state) ==
    [m EXCEPT !.state = state, !.version = NoVersion, !.knows = 0, !.position = 0]

\* handleWatchedVideo.
ServeToggle(m) ==
    /\ m.kind = "toggle"
    /\ row' = SetWatched(row, m.watched)
    /\ turns' = turns + 1
    /\ Replace(m, Answer(m, row', turns'))

Accepted(m) == m.kind = "resume" /\ ~Stale(row, m.version)

\* handleResumeVideo, the version still current.
ServeResume(m) ==
    /\ Accepted(m)
    /\ row' = SetResume(row, m.position)
    /\ turns' = IF row'.watched # row.watched THEN turns + 1 ELSE turns
    /\ Replace(m, Answer(m, row', turns'))

\* handleResumeVideo, ErrStaleVersion: nothing is written.
ServeStale(m) ==
    /\ m.kind = "resume" /\ Stale(row, m.version)
    /\ Replace(m, Unanswered(m, "conflict"))
    /\ UNCHANGED <<row, turns>>

\* handleGetVideo.
ServeGet(m) ==
    /\ m.kind \in Reads
    /\ Replace(m, Answer(m, row, turns))
    /\ UNCHANGED <<row, turns>>

Serve(c, kind) ==
    \E m \in Sent \cap Waiting(c) :
        /\ m.kind = kind
        /\ \/ ServeToggle(m) \/ ServeResume(m) \/ ServeStale(m)
           \/ ServeGet(m)
        /\ UNCHANGED <<page, presses, lost>>

(***************************************************************************)
(* The page.                                                               *)
(***************************************************************************)
\* Only a position write echoes the version.
Request(c, kind, p, b) ==
    [page |-> c, kind |-> kind, state |-> "sent", position |-> p, watched |-> b,
     version |-> IF kind = "resume" THEN page[c].version ELSE NoVersion,
     knows |-> IF kind = "resume" THEN page[c].knows ELSE 0,
     toggled |-> FALSE, flush |-> FALSE]

Loaded(c) == page[c].open /\ page[c].version # NoVersion

\* One request of a kind at a time for each page (BOUND; the throttle of five
\* seconds keeps pings apart, and the page disables nothing else).
Free(c, kind) ==
    /\ \A m \in Waiting(c) : m.kind # kind
    /\ Cardinality(net) < MaxNet

\* The page is opened: nothing is known until getVideo answers.
Open(c) ==
    /\ ~page[c].open /\ Free(c, "get")
    /\ page' = [page EXCEPT ![c] = [ClosedPage EXCEPT !.open = TRUE]]
    /\ net' = net \cup {Request(c, "get", 0, FALSE)}
    /\ UNCHANGED <<row, turns, presses, lost>>

\* A summary event, or a conflict: the page reads the video again.
Refetch(c) ==
    /\ Loaded(c) /\ Free(c, "get")
    /\ net' = net \cup {Request(c, "get", 0, FALSE)}
    /\ UNCHANGED <<row, page, turns, presses, lost>>

\* The person plays on, which settles a jump, or pauses, jumps, or reaches the
\* end.
PlayOn(c) ==
    /\ Loaded(c) /\ ~page[c].plays
    /\ page' = [page EXCEPT ![c].plays = TRUE]
    /\ UNCHANGED <<row, net, turns, presses, lost>>

StopPlaying(c) ==
    /\ page[c].plays
    /\ page' = [page EXCEPT ![c].plays = FALSE]
    /\ UNCHANGED <<row, net, turns, presses, lost>>

\* throttledPing on a timeupdate; seeking fires one while paused, too, and the
\* end is written at once (writeNow).
Ping(c) ==
    /\ Loaded(c) /\ Free(c, "resume")
    /\ \E p \in Positions : net' = net \cup {Request(c, "resume", p, FALSE)}
    /\ UNCHANGED <<row, page, turns, presses, lost>>

Flush(c, p) == [Request(c, "resume", p, FALSE) EXCEPT !.flush = TRUE]

\* The tab goes to the background, or comes back, with the video still open.
Hide(c) ==
    /\ Loaded(c) /\ Free(c, "resume")
    /\ \E p \in Positions : net' = net \cup {Flush(c, p)}
    /\ UNCHANGED <<row, page, turns, presses, lost>>

\* Leaving the page flushes the position, if one was ever seen, and cancels
\* the reads of the page's effects.
Close(c) ==
    /\ page[c].open /\ Free(c, "resume")
    /\ LET left == {m \in net : ~(m.page = c /\ m.kind = "get")}
       IN \/ net' = left
          \/ /\ Loaded(c)
             /\ \E p \in Positions : net' = left \cup {Flush(c, p)}
    /\ page' = [page EXCEPT ![c] = ClosedPage]
    /\ UNCHANGED <<row, turns, presses, lost>>

\* The button: the page shows the new flag at once and pauses, and what is in
\* flight stops being able to speak for the flag (watchedEpochRef).
PressWatched(c) ==
    /\ Loaded(c) /\ Free(c, "toggle") /\ presses < MaxPresses /\ presses' = presses + 1
    /\ net' = {[m EXCEPT !.toggled = @ \/ (m.page = c /\ m.kind = "resume")] : m \in net}
                 \cup {Request(c, "toggle", 0, ~page[c].watched)}
    /\ LET p == page[c]
       IN page' = [page EXCEPT ![c] = [p EXCEPT !.watched = ~p.watched, !.plays = FALSE]]
    /\ UNCHANGED <<row, turns, lost>>

Drop(m) == net' = net \ {m}

\* An answer's version is adopted by a page that has the video open.
AdoptVersion(m) ==
    [page[m.page] EXCEPT !.version = m.version, !.knows = m.knows]

AdoptResume(m) ==
    /\ m.kind = "resume" /\ m.state = "done"
    /\ page' = [page EXCEPT ![m.page] =
                    [AdoptVersion(m) EXCEPT !.watched = @ \/ (m.watched /\ ~m.toggled)]]
    /\ Drop(m)

AdoptToggle(m) ==
    /\ m.kind = "toggle" /\ m.state = "done"
    /\ page' = [page EXCEPT ![m.page] = AdoptVersion(m)]
    /\ Drop(m)

\* The page shows the video it read, and one whose video came back watched
\* from handleStaleState stops.
Show(m, p) ==
    [p EXCEPT !.watched = m.watched,
              !.plays = @ /\ ~(m.kind = "reread" /\ m.watched)]

\* Variant: the refetch after a conflict shows the video and keeps the version.
AdoptVideoShownOnly(m) ==
    /\ m.kind \in Reads /\ m.state = "done"
    /\ LET p == page[m.page]
       IN page' = [page EXCEPT ![m.page] =
                       Show(m, IF p.version = NoVersion THEN AdoptVersion(m) ELSE p)]
    /\ Drop(m)

\* getVideo's answer, on opening, on a summary event or in handleStaleState.
AdoptVideo(m) ==
    /\ m.kind \in Reads /\ m.state = "done"
    /\ page' = [page EXCEPT ![m.page] = Show(m, AdoptVersion(m))]
    /\ Drop(m)

\* handleStaleState: a refused ping makes the page read the video again; a
\* refused flush is dropped.
Conflict(m) ==
    /\ m.state = "conflict"
    /\ net' = (net \ {m}) \cup
                 IF m.flush \/ \E n \in Waiting(m.page) : n.kind = "reread" THEN {}
                 ELSE {Request(m.page, "reread", 0, FALSE)}
    /\ UNCHANGED page

\* A button that failed is rolled back, and a page that played when it was
\* pressed may play again.
Failed(m) ==
    /\ m.state = "failed" /\ Drop(m)
    /\ \E b \in {page[m.page].plays, TRUE} :
          page' = [page EXCEPT ![m.page] = [@ EXCEPT !.watched = ~m.watched, !.plays = b]]

\* The page acts on an answer, if it still has the video open.
Receive(c, kind) ==
    /\ page[c].open
    /\ \E m \in Waiting(c) :
         /\ m.kind = kind
         /\ AdoptResume(m) \/ AdoptToggle(m) \/ AdoptVideo(m) \/ Conflict(m) \/ Failed(m)
    /\ UNCHANGED <<row, turns, presses, lost>>

\* An answer for a page that is gone.
Ignore(c, kind) ==
    /\ ~page[c].open
    /\ \E m \in Waiting(c) : m.kind = kind /\ m.state # "sent" /\ Drop(m)
    /\ UNCHANGED <<row, page, turns, presses, lost>>

\* A request that never arrived, or an answer that never came back: only the
\* button notices.
Lose ==
    /\ lost < MaxLost
    /\ \E m \in net :
         /\ m.state \in {"sent", "done"}
         /\ IF m.kind = "toggle" THEN Replace(m, Unanswered(m, "failed")) ELSE Drop(m)
    /\ lost' = lost + 1
    /\ UNCHANGED <<row, page, turns, presses>>

(***************************************************************************)
(* Properties.                                                             *)
(***************************************************************************)
\* A position is written only by a page that has seen the last decision about
\* the watched flag: whatever requests and answers overtake each other, no
\* ping or flush the server would still accept was built on an earlier one.  So
\* no decision, and no zeroed position, is overwritten by a page that has not
\* heard of it.  A page that has may overwrite it: one that plays on past the
\* threshold adopts an un-watch with its refused ping, and its next ping marks
\* the video watched again (SetResume's check, the bumps of SetWatched and
\* SetResume, and what the page echoes).
NoStaleWrite ==
    \A m \in Sent : Accepted(m) => m.knows = turns

\* A page that missed a decision and plays does not stay behind: its next ping
\* is refused, the refusal makes it read the video again, and it catches up,
\* unless it is left or stops playing first.  A page that is paused, or was
\* opened at a moment nobody has played on from, writes nothing and stays
\* behind until it plays; so does one whose refused write was only a flush
\* (useResumeSync's throttledPing and onConflict, Player's handleStaleState).
StalePageCatchesUp ==
    \A c \in Pages :
        Loaded(c) /\ page[c].knows # turns
            ~> ~page[c].open \/ ~page[c].plays \/ page[c].knows = turns

Init ==
    /\ row = NewRow
    /\ page = [c \in Pages |-> ClosedPage]
    /\ net = {}
    /\ turns = 0 /\ presses = 0 /\ lost = 0

Next ==
    \/ \E c \in Pages, kind \in Kinds :
          Serve(c, kind) \/ Receive(c, kind) \/ Ignore(c, kind)
    \/ \E c \in Pages :
          \/ Open(c) \/ Refetch(c) \/ Close(c) \/ PressWatched(c)
          \/ PlayOn(c) \/ StopPlaying(c) \/ Ping(c) \/ Hide(c)
    \/ Lose

\* The server answers, a page acts on what it gets, and a player that plays
\* writes its position every five seconds: strongly fair, because MaxNet lets
\* another page's requests take its turn.  Nobody has to play.
Fairness ==
    /\ \A c \in Pages, kind \in Kinds :
          WF_vars(Serve(c, kind)) /\ WF_vars(Receive(c, kind)) /\ WF_vars(Ignore(c, kind))
    /\ \A c \in Pages : SF_vars(page[c].plays /\ Ping(c))

Spec == Init /\ [][Next]_vars /\ Fairness
=============================================================================
