------------------------------- MODULE YtTurn -------------------------------
(***************************************************************************)
(* The turn every YouTube request of peeq takes (package ytdlp): downloads, *)
(* scans, caption fetches, metadata reads, resolves and image fetches, each *)
(* on a goroutine of its own, queue for Runner.acquire and run one by one   *)
(* with a gap after each exit. A click goes before background work.        *)
(*                                                                         *)
(* Every action is one critical section of Runner.mu, or what happens to a *)
(* call between two of them. Time is two conditions that become false when *)
(* enough of it has passed: owed, which the code computes from lastEnd and *)
(* gap, and close, the truth it has to respect.                            *)
(***************************************************************************)
EXTENDS Naturals, SequencesExt

CONSTANTS
  Interactive,  \* calls a person waits for
  Background,   \* all others
  Held          \* downloads, which make two requests under one turn

ASSUME CallsAssumption ==
  Interactive \cap Background = {} /\ Held \subseteq Interactive \cup Background

Calls == Interactive \cup Background

VARIABLES
  busy, dispatching, interactive, background,  \* the fields of Runner
  owed,   \* now is before lastEnd + gap
  close,  \* GROUND TRUTH: less than a gap since a process exited
  at,     \* where each call is
  ran,    \* the calls that started a process under the turn they hold
  over,   \* the calls whose context has ended
  shut,   \* the kill-switch or the cookie refuses calls
  passed  \* HISTORY: background turns used since an interactive call queued

queueVars == <<interactive, background>>
turnVars  == <<busy, dispatching, queueVars, owed>>
vars == <<turnVars, close, at, ran, over, shut, passed>>

\* "fast": took a free turn; "given": ready is closed; "turn": acquire has
\* returned; "run" and "rerun": a process is up; "within": the gap inside a
\* held turn; "leave": about to give the turn back.
Holding == {"fast", "given", "turn", "run", "within", "again", "rerun", "leave"}
Places  == Holding \cup {"idle", "queued"}

Init ==
  /\ busy = FALSE /\ dispatching = FALSE /\ owed = FALSE /\ close = FALSE
  /\ interactive = <<>> /\ background = <<>>
  /\ at = [c \in Calls |-> "idle"]
  /\ ran = {} /\ over = {} /\ shut = FALSE
  /\ passed = [c \in Interactive |-> 0]

Goes(c, from, to) == at[c] = from /\ at' = [at EXCEPT ![c] = to]

Waiting == interactive # <<>> \/ background # <<>>

\* Variant: a dispatch under way does not count.
FreeWhileDispatching == ~busy /\ ~Waiting /\ ~owed

Free == ~busy /\ ~dispatching /\ ~Waiting /\ ~owed

\* acquire on an idle runner, the first gates behind it: go at once.
AcquireFree(c) ==
  /\ ~shut /\ Free
  /\ Goes(c, "idle", "fast")
  /\ busy' = TRUE
  /\ UNCHANGED <<dispatching, queueVars, owed, close, ran, over, shut, passed>>

\* acquire otherwise: join a lane, and see to it that somebody dispatches.
AcquireQueued(c) ==
  /\ ~shut /\ ~Free
  /\ Goes(c, "idle", "queued")
  /\ IF c \in Interactive
     THEN interactive' = Append(interactive, c) /\ UNCHANGED background
     ELSE background' = Append(background, c) /\ UNCHANGED interactive
  /\ dispatching' = (dispatching \/ ~busy)
  /\ passed' = [i \in Interactive |-> IF i = c THEN 0 ELSE passed[i]]
  /\ UNCHANGED <<busy, owed, close, ran, over, shut>>

\* Sleep(ctx, 0) on the fast path honours a context that has ended.
FastProceeds(c) ==
  /\ Goes(c, "fast", IF c \in over THEN "leave" ELSE "turn")
  /\ UNCHANGED <<turnVars, close, ran, over, shut, passed>>

Serve(c) ==
  /\ busy' = TRUE /\ Goes(c, "queued", "given")

\* Variant: strictly by lane, background first.
DispatchBackgroundFirst ==
  /\ dispatching /\ ~owed /\ dispatching' = FALSE
  /\ \/ /\ background # <<>> /\ Serve(Head(background))
        /\ background' = Tail(background) /\ UNCHANGED interactive
     \/ /\ background = <<>> /\ interactive # <<>> /\ Serve(Head(interactive))
        /\ interactive' = Tail(interactive) /\ UNCHANGED background
     \/ ~Waiting /\ UNCHANGED <<busy, at, queueVars>>
  /\ UNCHANGED <<owed, close, ran, over, shut, passed>>

\* The goroutine of startDispatch once the gap has run out: the turn goes to
\* the first interactive caller, else to the first other one, else to nobody.
Dispatch ==
  /\ dispatching /\ ~owed /\ dispatching' = FALSE
  /\ \/ /\ interactive # <<>> /\ Serve(Head(interactive))
        /\ interactive' = Tail(interactive) /\ UNCHANGED background
     \/ /\ interactive = <<>> /\ background # <<>> /\ Serve(Head(background))
        /\ background' = Tail(background) /\ UNCHANGED interactive
     \/ ~Waiting /\ UNCHANGED <<busy, at, queueVars>>
  /\ UNCHANGED <<owed, close, ran, over, shut, passed>>

\* Variant: a caller that gives up has nothing to pass on.
GivesUpForGood(c) ==
  /\ c \in over /\ Goes(c, "given", "idle")
  /\ over' = over \ {c}
  /\ UNCHANGED <<turnVars, close, ran, shut, passed>>

\* The select of acquire when ready is closed, and when the context ends: the
\* two race, and a caller that gives up with the turn in hand passes it on.
Proceeds(c) ==
  /\ Goes(c, "given", "turn")
  /\ UNCHANGED <<turnVars, close, ran, over, shut, passed>>

GivesUpGiven(c) ==
  /\ c \in over /\ Goes(c, "given", "leave")
  /\ UNCHANGED <<turnVars, close, ran, over, shut, passed>>

\* removeWaiter
LeavesLane(c, lane) ==
  \E i \in 1..Len(lane) : lane[i] = c /\ lane' = RemoveAt(lane, i)

GivesUpQueued(c) ==
  /\ c \in over /\ Goes(c, "queued", "idle")
  /\ over' = over \ {c}
  /\ IF c \in Interactive
     THEN LeavesLane(c, interactive) /\ UNCHANGED background
     ELSE LeavesLane(c, background) /\ UNCHANGED interactive
  /\ UNCHANGED <<busy, dispatching, owed, close, ran, shut, passed>>

\* execCall from the turn to its process: a context that has ended or a gate
\* that has closed during the wait starts nothing.
Start(c, from, to) ==
  \/ /\ c \in over \/ shut
     /\ Goes(c, from, "leave") /\ UNCHANGED <<ran, passed>>
  \/ /\ c \notin over /\ ~shut
     /\ Goes(c, from, to)
     /\ ran' = ran \cup {c}
     /\ passed' = [i \in Interactive |->
          IF c \in Background /\ from = "turn" /\ at[i] = "queued" /\ passed[i] < 2
          THEN passed[i] + 1 ELSE passed[i]]

StartProcess(c) ==
  /\ Start(c, "turn", "run")
  /\ UNCHANGED <<turnVars, close, over, shut>>

\* Download's subtitle request, under the turn of the media request.
StartSubtitles(c) ==
  /\ Start(c, "again", "rerun")
  /\ UNCHANGED <<turnVars, close, over, shut>>

\* The process exits, by itself or killed by its context or the ceiling.
ProcessExits(c) ==
  /\ \/ Goes(c, "run", "leave") \/ Goes(c, "rerun", "leave")
     \/ c \in Held /\ c \notin over /\ Goes(c, "run", "within")
  /\ close' = TRUE
  /\ UNCHANGED <<turnVars, ran, over, shut, passed>>

\* gapWithin
WithinElapses(c) ==
  /\ \/ Goes(c, "within", "again") /\ close' = FALSE
     \/ c \in over /\ Goes(c, "within", "leave") /\ UNCHANGED close
  /\ UNCHANGED <<turnVars, ran, over, shut, passed>>

\* Variant: the gap is owed only when nobody waits.
ReleaseForgetful(c) ==
  /\ Goes(c, "leave", "idle")
  /\ owed' = (owed \/ (c \in ran /\ ~Waiting))
  /\ busy' = FALSE /\ dispatching' = (dispatching \/ Waiting)
  /\ ran' = ran \ {c} /\ over' = over \ {c}
  /\ UNCHANGED <<queueVars, close, shut, passed>>

\* handOff: a process that ran starts the next gap; whoever waits gets a
\* dispatch.
Release(c) ==
  /\ Goes(c, "leave", "idle")
  /\ owed' = (owed \/ c \in ran)
  /\ busy' = FALSE /\ dispatching' = (dispatching \/ Waiting)
  /\ ran' = ran \ {c} /\ over' = over \ {c}
  /\ UNCHANGED <<queueVars, close, shut, passed>>

GapElapses ==
  /\ owed /\ owed' = FALSE /\ close' = FALSE
  /\ UNCHANGED <<busy, dispatching, queueVars, at, ran, over, shut, passed>>

\* A cancel, a closed browser tab, a shutdown.
ContextEnds(c) ==
  /\ at[c] # "idle" /\ c \notin over
  /\ over' = over \cup {c}
  /\ UNCHANGED <<turnVars, close, at, ran, shut, passed>>

GatesMove ==
  /\ shut' = ~shut
  /\ UNCHANGED <<turnVars, close, at, ran, over, passed>>

Proceed(c) ==
  \/ FastProceeds(c) \/ Proceeds(c) \/ GivesUpGiven(c) \/ GivesUpQueued(c)
  \/ StartProcess(c) \/ StartSubtitles(c) \/ ProcessExits(c)
  \/ WithinElapses(c) \/ Release(c)

Next ==
  \/ Dispatch \/ GapElapses \/ GatesMove
  \/ \E c \in Calls :
       AcquireFree(c) \/ AcquireQueued(c) \/ Proceed(c) \/ ContextEnds(c)

Spec == Init /\ [][Next]_vars

\* Fairness: goroutines are scheduled, time passes, and every process ends
\* (maxCallRuntime, the download's watchdog). Nobody is obliged to call, and no
\* context to end.
Fairness ==
  /\ WF_vars(Dispatch) /\ WF_vars(GapElapses)
  /\ \A c \in Calls : WF_vars(Proceed(c))

FairSpec == Spec /\ Fairness

----------------------------------------------------------------------------
(* Properties *)

TypeOK ==
  /\ busy \in BOOLEAN /\ dispatching \in BOOLEAN /\ owed \in BOOLEAN
  /\ close \in BOOLEAN /\ shut \in BOOLEAN
  /\ interactive \in Seq(Interactive) /\ background \in Seq(Background)
  /\ at \in [Calls -> Places]
  /\ ran \subseteq Calls /\ over \subseteq Calls
  /\ passed \in [Interactive -> 0..2]

\* acquire: YouTube calls are strictly serial, and the next one starts no
\* earlier than a gap after the previous one exited, whoever queues, gives up,
\* is refused or holds the turn for two requests.
Running == {c \in Calls : at[c] \in {"run", "rerun"}}
Promise == INSTANCE Throttle WITH running <- Running
ThrottleKept == Promise!Spec

\* The turn is neither lost nor doubled: it is busy exactly when one call holds
\* it, and when calls wait, somebody holds it or is about to hand it out.
TurnAccounted ==
  /\ busy <=> \E c \in Calls : at[c] \in Holding
  /\ \A c, d \in Calls : at[c] \in Holding /\ at[d] \in Holding => c = d
  /\ Waiting => busy \/ dispatching
  /\ ~(busy /\ dispatching)

\* A person goes first: while an interactive call waits, at most one background
\* call uses the turn, the one that had it already.
PersonFirst == \A i \in Interactive : at[i] = "queued" => passed[i] < 2

\* A click is always served, however much background work there is.
PersonServed == \A i \in Interactive : (at[i] = "queued") ~> (at[i] # "queued")

=============================================================================
