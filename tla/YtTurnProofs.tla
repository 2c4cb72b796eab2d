---------------------------- MODULE YtTurnProofs ----------------------------
(***************************************************************************)
(* Theorems about YtTurn, for any number of calls.                         *)
(***************************************************************************)
EXTENDS YtTurn, TLAPS

\* The places of a call that holds the turn with no exit behind it, or with the
\* gap since it already waited out.
Clear == {"fast", "given", "turn", "run", "again", "rerun"}

\* What makes the serial turn and its spacing inductive. The gap since an exit
\* is remembered by whoever holds the turn (in ran) and, once the turn is
\* given back, by owed; nobody takes the turn while it is owed.
Typed ==
  /\ at \in [Calls -> Places]
  /\ interactive \in Seq(Interactive) /\ background \in Seq(Background)

Owned ==
  /\ \A c \in Calls : at[c] \in Holding => busy
  /\ busy => \E c \in Calls : at[c] \in Holding
  /\ \A c, d \in Calls : at[c] \in Holding /\ at[d] \in Holding => c = d
  /\ ~(busy /\ dispatching)

Spaced ==
  /\ busy => ~owed
  /\ close /\ ~owed => busy
  /\ \A c \in Calls :
       /\ at[c] \in Clear => ~close
       /\ at[c] \in {"run", "within", "again", "rerun"} => c \in ran
       /\ at[c] = "leave" /\ close => c \in ran

Served == Waiting => busy \/ dispatching

TurnInv == Typed /\ Owned /\ Spaced /\ Served

USE DEF Holding, Places, Clear, queueVars, turnVars

LEMMA TurnInit == Init => TurnInv
  BY DEF Init, TurnInv, Typed, Owned, Spaced, Served, Waiting

\* A lane a caller leaves still holds callers of its own kind.
LEMMA LaneTypes ==
  ASSUME NEW S, NEW lane \in Seq(S), NEW i \in 1..Len(lane)
  PROVE  RemoveAt(lane, i) \in Seq(S)
  BY DEF RemoveAt

\* One call moves from a place where it holds the turn to another one.
LEMMA TurnStep ==
  ASSUME TurnInv, [Next]_vars
  PROVE  TurnInv'
<1> USE DEF TurnInv, Typed, Owned, Spaced, Served, Waiting
<1>1. CASE Dispatch
  <2>1. ASSUME NEW c \in Calls, Serve(c), dispatching, ~owed, dispatching' = FALSE,
               UNCHANGED <<owed, close, ran>>
        PROVE  (Owned /\ Spaced /\ Served)' /\ at' \in [Calls -> Places]
    BY <2>1 DEF Serve, Goes
  <2>2. CASE interactive # <<>>
    <3>1. Head(interactive) \in Calls BY <2>2 DEF Calls
    <3>2. Tail(interactive) \in Seq(Interactive) BY <2>2
    <3> QED BY <1>1, <2>1, <2>2, <3>1, <3>2 DEF Dispatch
  <2>3. CASE interactive = <<>> /\ background # <<>>
    <3>1. Head(background) \in Calls BY <2>3 DEF Calls
    <3>2. Tail(background) \in Seq(Background) BY <2>3
    <3> QED BY <1>1, <2>1, <2>3, <3>1, <3>2 DEF Dispatch
  <2>4. CASE ~Waiting BY <1>1, <2>4 DEF Dispatch
  <2> QED BY <2>2, <2>3, <2>4
<1>2. CASE GapElapses BY <1>2 DEF GapElapses
<1>3. CASE GatesMove BY <1>3 DEF GatesMove
<1>4. ASSUME NEW c \in Calls, AcquireFree(c) PROVE TurnInv'
  BY <1>4 DEF AcquireFree, Free, Goes
<1>5. ASSUME NEW c \in Calls, AcquireQueued(c) PROVE TurnInv'
  <2>1. interactive' \in Seq(Interactive) /\ background' \in Seq(Background)
    <3>1. CASE c \in Interactive
      BY <1>5, <3>1 DEF AcquireQueued
    <3>2. CASE c \in Background /\ c \notin Interactive
      BY <1>5, <3>2 DEF AcquireQueued
    <3> QED BY <3>1, <3>2 DEF Calls
  <2>2. at' \in [Calls -> Places] BY <1>5 DEF AcquireQueued, Goes
  <2>3. (Owned /\ Spaced)' BY <1>5 DEF AcquireQueued, Goes
  <2>4. Served' BY <1>5 DEF AcquireQueued, Goes
  <2> QED BY <2>1, <2>2, <2>3, <2>4
<1>6. ASSUME NEW c \in Calls, FastProceeds(c) PROVE TurnInv'
  BY <1>6 DEF FastProceeds, Goes
<1>7. ASSUME NEW c \in Calls, Proceeds(c) PROVE TurnInv'
  BY <1>7 DEF Proceeds, Goes
<1>8. ASSUME NEW c \in Calls, GivesUpGiven(c) PROVE TurnInv'
  BY <1>8 DEF GivesUpGiven, Goes
<1>9. ASSUME NEW c \in Calls, GivesUpQueued(c) PROVE TurnInv'
  <2>1. interactive' \in Seq(Interactive) /\ background' \in Seq(Background)
    BY <1>9, LaneTypes DEF GivesUpQueued, LeavesLane
  <2>2. at' \in [Calls -> Places] BY <1>9 DEF GivesUpQueued, Goes
  <2>3. (Owned /\ Spaced)' BY <1>9 DEF GivesUpQueued, Goes
  <2>4. Waiting' => Waiting BY <1>9 DEF GivesUpQueued, LeavesLane
  <2>5. Served' BY <1>9, <2>4 DEF GivesUpQueued
  <2> QED BY <2>1, <2>2, <2>3, <2>5
<1>10. ASSUME NEW c \in Calls, StartProcess(c) PROVE TurnInv'
  BY <1>10 DEF StartProcess, Start, Goes
<1>11. ASSUME NEW c \in Calls, StartSubtitles(c) PROVE TurnInv'
  BY <1>11 DEF StartSubtitles, Start, Goes
<1>12. ASSUME NEW c \in Calls, ProcessExits(c) PROVE TurnInv'
  <2>1. CASE Goes(c, "run", "leave") \/ Goes(c, "rerun", "leave")
    BY <1>12, <2>1 DEF ProcessExits, Goes
  <2>2. CASE Goes(c, "run", "within")
    BY <1>12, <2>2 DEF ProcessExits, Goes
  <2> QED BY <1>12, <2>1, <2>2 DEF ProcessExits
<1>13. ASSUME NEW c \in Calls, WithinElapses(c) PROVE TurnInv'
  BY <1>13 DEF WithinElapses, Goes
<1>14. ASSUME NEW c \in Calls, Release(c) PROVE TurnInv'
  BY <1>14 DEF Release, Goes
<1>15. ASSUME NEW c \in Calls, ContextEnds(c) PROVE TurnInv'
  BY <1>15 DEF ContextEnds
<1>16. CASE UNCHANGED vars BY <1>16 DEF vars
<1> QED
  BY <1>1, <1>2, <1>3, <1>4, <1>5, <1>6, <1>7, <1>8, <1>9, <1>10, <1>11,
     <1>12, <1>13, <1>14, <1>15, <1>16 DEF Next, Proceed

\* The turn is neither lost nor doubled, whoever queues, gives up, is refused
\* or holds it for two requests.
THEOREM TurnNeverLost == Spec => []TurnAccounted
<1>1. TurnInv => TurnAccounted
  BY DEF TurnInv, Owned, Served, TurnAccounted
<1> QED BY <1>1, TurnInit, TurnStep, PTL DEF Spec

\* YouTube sees one request at a time and a gap after each: the queue
\* implements Throttle.
THEOREM Serial == Spec => ThrottleKept
<1> USE DEF TurnInv, Typed, Owned, Spaced, Promise!vars, Promise!Next
<1>1. Init => Promise!Init
  BY DEF Init, Promise!Init, Running
<1>2. TurnInv /\ [Next]_vars => [Promise!Next]_(Promise!vars)
  <2> SUFFICES ASSUME TurnInv, [Next]_vars PROVE [Promise!Next]_(Promise!vars) OBVIOUS
  <2>0. CASE UNCHANGED <<Running, close>> BY <2>0
  <2>1. CASE GapElapses
    BY <2>1 DEF GapElapses, Promise!Elapse, Running
  <2>2. ASSUME NEW c \in Calls, Start(c, "turn", "run") \/ Start(c, "again", "rerun"),
               UNCHANGED close
        PROVE  [Promise!Next]_(Promise!vars)
    <3>1. CASE \E to \in {"run", "rerun"}, from \in {"turn", "again"} : Goes(c, from, to)
      <4>1. Running = {} /\ ~close BY <3>1 DEF Goes, Running
      <4>2. Running' = {c} BY <3>1 DEF Goes, Running
      <4> QED BY <2>2, <4>1, <4>2 DEF Promise!Start
    <3>2. CASE \E from \in {"turn", "again"} : Goes(c, from, "leave")
      BY <2>2, <3>2 DEF Goes, Running
    <3> QED BY <2>2, <3>1, <3>2 DEF Start
  <2>3. ASSUME NEW c \in Calls, ProcessExits(c) PROVE [Promise!Next]_(Promise!vars)
    <3>1. Running = {c} BY <2>3 DEF ProcessExits, Goes, Running
    <3>2. Running' = {} BY <2>3 DEF ProcessExits, Goes, Running
    <3> QED BY <2>3, <3>1, <3>2 DEF ProcessExits, Promise!Exit
  <2>4. ASSUME NEW c \in Calls, WithinElapses(c) PROVE [Promise!Next]_(Promise!vars)
    <3>1. UNCHANGED Running BY <2>4 DEF WithinElapses, Goes, Running
    <3> QED BY <2>4, <3>1 DEF WithinElapses, Promise!Elapse
  <2>5. ASSUME NEW c \in Calls,
               \/ AcquireFree(c) \/ AcquireQueued(c) \/ FastProceeds(c) \/ Proceeds(c)
               \/ GivesUpGiven(c) \/ GivesUpQueued(c) \/ Release(c) \/ ContextEnds(c)
        PROVE  [Promise!Next]_(Promise!vars)
    BY <2>0, <2>5 DEF AcquireFree, AcquireQueued, FastProceeds, Proceeds, GivesUpGiven,
       GivesUpQueued, Release, ContextEnds, Goes, Running
  <2>6. CASE Dispatch BY <2>0, <2>6 DEF Dispatch, Serve, Goes, Running
  <2>7. CASE GatesMove \/ UNCHANGED vars BY <2>0, <2>7 DEF GatesMove, vars, Running
  <2> QED
    BY <2>1, <2>2, <2>3, <2>4, <2>5, <2>6, <2>7
       DEF Next, Proceed, StartProcess, StartSubtitles
<1> QED BY <1>1, <1>2, TurnInit, TurnStep, PTL DEF Spec, ThrottleKept, Promise!Spec

\* A person who waits stands in the interactive lane, so no dispatch goes to
\* anybody else.
InLane(i) == \E k \in 1..Len(interactive) : interactive[k] = i

\* The background call that may still use a turn that was taken before the
\* person queued.
Ahead == {c \in Background : at[c] \in {"fast", "given", "turn"}}

First ==
  \A i \in Interactive : at[i] = "queued" =>
    /\ InLane(i)
    /\ passed[i] = 0 \/ (passed[i] = 1 /\ Ahead = {})

\* Whoever leaves a lane leaves the others in it.
LEMMA LaneKeeps ==
  ASSUME NEW S, NEW lane \in Seq(S), NEW i \in 1..Len(lane), NEW k \in 1..Len(lane), k # i
  PROVE  \E m \in 1..Len(RemoveAt(lane, i)) : RemoveAt(lane, i)[m] = lane[k]
<1> DEFINE r == RemoveAt(lane, i)
<1>1. Len(r) = Len(lane) - 1
  <2>1. Len(SubSeq(lane, 1, i - 1)) = i - 1 BY SMT
  <2>2. Len(SubSeq(lane, i + 1, Len(lane))) = Len(lane) - i BY SMT
  <2>3. SubSeq(lane, 1, i - 1) \in Seq(S) /\ SubSeq(lane, i + 1, Len(lane)) \in Seq(S) BY SMT
  <2>4. \A a, b \in Seq(S) : Len(a \o b) = Len(a) + Len(b) BY SMT
  <2>5. Len(r) = (i - 1) + (Len(lane) - i) BY <2>1, <2>2, <2>3, <2>4, Zenon DEF RemoveAt
  <2> QED BY <2>5
<1>2. CASE k < i
  <2>1. r[k] = lane[k] BY <1>2 DEF RemoveAt
  <2> QED BY <1>1, <1>2, <2>1
<1>3. CASE k > i
  <2>1. r[k - 1] = lane[k] BY <1>3 DEF RemoveAt
  <2> QED BY <1>1, <1>3, <2>1
<1> QED BY <1>2, <1>3

\* A step that changes neither the lane, nor what has passed, nor brings a
\* background call ahead or a person into the queue.
LEMMA FirstKept ==
  ASSUME First, UNCHANGED <<interactive, passed>>, Ahead' \subseteq Ahead,
         \A i \in Interactive : at'[i] = "queued" => at[i] = "queued"
  PROVE  First'
  BY DEF First, InLane

LEMMA FirstStep ==
  ASSUME TurnInv, First, [Next]_vars
  PROVE  First'
<1> USE CallsAssumption DEF TurnInv, Typed
<1>1. CASE Dispatch
  <2>1. CASE interactive # <<>>
    <3>1. PICK c \in Interactive : c = Head(interactive) BY <2>1
    <3>2. Serve(c) /\ interactive' = Tail(interactive) /\ UNCHANGED passed
      BY <1>1, <2>1, <3>1 DEF Dispatch, Serve, Goes, Waiting
    <3>3. ASSUME NEW i \in Interactive, at'[i] = "queued"
          PROVE  InLane(i)' /\ (passed[i] = 0 \/ (passed[i] = 1 /\ Ahead' = {}))
      <4>1. i # c /\ at[i] = "queued" BY <3>2, <3>3 DEF Serve, Goes, Calls
      <4>2. PICK k \in 1..Len(interactive) : interactive[k] = i BY <4>1 DEF First, InLane
      <4>3. k # 1 BY <2>1, <3>1, <4>1, <4>2
      <4>4. k - 1 \in 1..Len(Tail(interactive)) /\ Tail(interactive)[k - 1] = i
        BY <2>1, <4>2, <4>3
      <4>5. Ahead' \subseteq Ahead BY <3>2 DEF Serve, Goes, Calls, Ahead
      <4> QED BY <3>2, <4>1, <4>4, <4>5 DEF First, InLane
    <3> QED BY <3>2, <3>3 DEF First
  <2>2. CASE interactive = <<>>
    <3>1. \A i \in Interactive : at[i] # "queued" BY <2>2 DEF First, InLane
    <3>2. \A i \in Interactive : at'[i] # "queued" BY <1>1, <3>1 DEF Dispatch, Serve, Goes, Calls
    <3> QED BY <3>2 DEF First
  <2> QED BY <2>1, <2>2
<1>2. CASE GapElapses BY <1>2, FirstKept DEF GapElapses, Ahead
<1>3. CASE GatesMove BY <1>3, FirstKept DEF GatesMove, Ahead
<1>4. ASSUME NEW c \in Calls, AcquireFree(c) PROVE First'
  <2>1. interactive = <<>> BY <1>4 DEF AcquireFree, Free, Waiting
  <2>2. \A i \in Interactive : at[i] # "queued" BY <2>1 DEF First, InLane
  <2>3. \A i \in Interactive : at'[i] # "queued" BY <1>4, <2>2 DEF AcquireFree, Goes
  <2> QED BY <2>3 DEF First
<1>5. ASSUME NEW c \in Calls, AcquireQueued(c) PROVE First'
  <2>1. Ahead' \subseteq Ahead BY <1>5 DEF AcquireQueued, Goes, Ahead
  <2>2. CASE c \in Interactive
    <3>1. interactive' = Append(interactive, c) BY <1>5, <2>2 DEF AcquireQueued
    <3>2. \A k \in 1..Len(interactive) : interactive'[k] = interactive[k] BY <2>2, <3>1
    <3>3. Len(interactive') = Len(interactive) + 1 /\ interactive'[Len(interactive) + 1] = c
      BY <2>2, <3>1
    <3>4. ASSUME NEW i \in Interactive, at'[i] = "queued"
          PROVE  InLane(i)' /\ (passed'[i] = 0 \/ (passed'[i] = 1 /\ Ahead' = {}))
      <4>1. CASE i = c BY <1>5, <3>3, <4>1 DEF AcquireQueued, InLane
      <4>2. CASE i # c
        <5>1. at[i] = "queued" /\ passed'[i] = passed[i]
          BY <1>5, <3>4, <4>2 DEF AcquireQueued, Goes, Calls
        <5> QED BY <2>1, <3>2, <3>3, <5>1 DEF First, InLane
      <4> QED BY <4>1, <4>2
    <3> QED BY <3>4 DEF First
  <2>3. CASE c \notin Interactive
    <3>1. interactive' = interactive /\ \A i \in Interactive : passed'[i] = passed[i]
      BY <1>5, <2>3 DEF AcquireQueued
    <3>2. \A i \in Interactive : at'[i] = at[i] BY <1>5, <2>3 DEF AcquireQueued, Goes, Calls
    <3> QED BY <2>1, <3>1, <3>2 DEF First, InLane
  <2> QED BY <2>2, <2>3
<1>6. ASSUME NEW c \in Calls, FastProceeds(c) \/ Proceeds(c) PROVE First'
  <2>1. Ahead' \subseteq Ahead BY <1>6 DEF FastProceeds, Proceeds, Goes, Ahead, Calls
  <2> QED BY <1>6, <2>1, FirstKept DEF FastProceeds, Proceeds, Goes, Calls
<1>7. ASSUME NEW c \in Calls, GivesUpGiven(c) PROVE First'
  BY <1>7, FirstKept DEF GivesUpGiven, Goes, Ahead, Calls
<1>8. ASSUME NEW c \in Calls, GivesUpQueued(c) PROVE First'
  <2>1. Ahead' \subseteq Ahead /\ UNCHANGED passed
    BY <1>8 DEF GivesUpQueued, Goes, Ahead, Calls
  <2>2. ASSUME NEW i \in Interactive, at'[i] = "queued" PROVE at[i] = "queued" /\ i # c
    BY <1>8, <2>2 DEF GivesUpQueued, Goes, Calls
  <2>3. ASSUME NEW i \in Interactive, at'[i] = "queued" PROVE InLane(i)'
    <3>1. PICK k \in 1..Len(interactive) : interactive[k] = i BY <2>2, <2>3 DEF First, InLane
    <3>2. CASE UNCHANGED interactive BY <3>1, <3>2 DEF InLane
    <3>3. CASE LeavesLane(c, interactive)
      <4>1. PICK n \in 1..Len(interactive) :
              interactive[n] = c /\ interactive' = RemoveAt(interactive, n)
        BY <3>3 DEF LeavesLane
      <4>2. k # n BY <2>2, <2>3, <3>1, <4>1
      <4> QED BY <3>1, <4>1, <4>2, LaneKeeps DEF InLane
    <3> QED BY <1>8, <3>2, <3>3 DEF GivesUpQueued
  <2> QED BY <2>1, <2>2, <2>3 DEF First
<1>9. ASSUME NEW c \in Calls, StartProcess(c) PROVE First'
  <2>1. UNCHANGED interactive BY <1>9 DEF StartProcess
  <2>2. \A i \in Interactive : at'[i] = "queued" => at[i] = "queued"
    BY <1>9 DEF StartProcess, Start, Goes, Calls
  <2>3. Ahead' \subseteq Ahead BY <1>9 DEF StartProcess, Start, Goes, Ahead, Calls
  <2>4. CASE UNCHANGED passed BY <2>1, <2>2, <2>3, <2>4, FirstKept
  <2>5. CASE c \in Background /\ Goes(c, "turn", "run")
    <3>1. c \in Ahead BY <2>5 DEF Goes, Ahead
    <3>2. Ahead' = {}
      <4>1. \A d \in Background : at[d] \in {"fast", "given", "turn"} => d = c
        BY <2>5 DEF Owned, Goes, Calls
      <4> QED BY <2>5, <4>1 DEF Ahead, Goes, Calls
    <3>3. \A i \in Interactive : at[i] = "queued" => passed[i] = 0 BY <3>1 DEF First
    <3>4. \A i \in Interactive : at[i] = "queued" => passed'[i] \in {0, 1}
      BY <1>9, <3>3 DEF StartProcess, Start
    <3> QED BY <2>1, <2>2, <3>2, <3>4 DEF First, InLane
  <2>6. CASE c \notin Background /\ Goes(c, "turn", "run")
    <3>1. \A i \in Interactive : passed'[i] = passed[i] \/ UNCHANGED passed
      BY <1>9, <2>6 DEF StartProcess, Start
    <3> QED BY <2>1, <2>2, <2>3, <3>1 DEF First, InLane
  <2> QED BY <1>9, <2>4, <2>5, <2>6 DEF StartProcess, Start
<1>10. ASSUME NEW c \in Calls, StartSubtitles(c) PROVE First'
  <2>1. UNCHANGED interactive BY <1>10 DEF StartSubtitles
  <2>2. \A i \in Interactive : at'[i] = "queued" => at[i] = "queued"
    BY <1>10 DEF StartSubtitles, Start, Goes, Calls
  <2>3. Ahead' \subseteq Ahead BY <1>10 DEF StartSubtitles, Start, Goes, Ahead, Calls
  <2>4. \A i \in Interactive : passed'[i] = passed[i] BY <1>10 DEF StartSubtitles, Start
  <2> QED BY <2>1, <2>2, <2>3, <2>4 DEF First, InLane
<1>11. ASSUME NEW c \in Calls, ProcessExits(c) PROVE First'
  BY <1>11, FirstKept DEF ProcessExits, Goes, Ahead, Calls
<1>12. ASSUME NEW c \in Calls, WithinElapses(c) \/ Release(c) PROVE First'
  BY <1>12, FirstKept DEF WithinElapses, Release, Goes, Ahead, Calls
<1>13. ASSUME NEW c \in Calls, ContextEnds(c) PROVE First'
  BY <1>13, FirstKept DEF ContextEnds, Ahead
<1>14. CASE UNCHANGED vars BY <1>14 DEF vars, First, InLane, Ahead
<1> QED
  BY <1>1, <1>2, <1>3, <1>4, <1>5, <1>6, <1>7, <1>8, <1>9, <1>10, <1>11, <1>12, <1>13,
     <1>14 DEF Next, Proceed

\* A person goes first, however many callers of either kind there are: while
\* an interactive call waits, at most one background call uses the turn.
THEOREM PeopleFirst == Spec => []PersonFirst
<1>1. Init => First BY DEF Init, First, Calls
<1>2. First => PersonFirst BY DEF First, PersonFirst
<1> QED BY <1>1, <1>2, TurnInit, TurnStep, FirstStep, PTL DEF Spec

=============================================================================
