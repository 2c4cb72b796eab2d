---------------------------- MODULE WatchProofs ----------------------------
(***************************************************************************)
(* NoStaleWrite for any number of pages, positions, presses and losses.    *)
(*                                                                         *)
(* It is not inductive: that a request carries the row's version says      *)
(* nothing by itself about what its sender has seen.  The missing fact is  *)
(* that the version counts the decisions: it is always one more than their *)
(* number, on the row, on every page and in every message that carries one.*)
(***************************************************************************)
EXTENDS Watch, TLAPS

Rows == [watched : BOOLEAN, position : Nat, version : Nat]
PageStates == [open : BOOLEAN, watched : BOOLEAN, plays : BOOLEAN,
               version : Nat, knows : Nat]
Messages == [page : Pages, kind : Kinds, state : {"sent", "done", "conflict", "failed"},
             position : Nat, watched : BOOLEAN, version : Nat, knows : Nat,
             toggled : BOOLEAN, flush : BOOLEAN]

TypeOK ==
    /\ row \in Rows
    /\ page \in [Pages -> PageStates]
    /\ net \subseteq Messages
    /\ turns \in Nat

\* What carries a version carries the number of decisions it stands for.
Counts(x) == x.version # NoVersion => x.version = x.knows + 1

\* A message that will be adopted, or checked, carries a version.
Carries(m) ==
    \/ m.kind = "resume" /\ m.state = "sent"
    \/ m.state = "done"

VersionsCount ==
    /\ row.version = turns + 1
    /\ \A c \in Pages : Counts(page[c])
    /\ \A m \in net : Counts(m) /\ (Carries(m) => m.version # NoVersion)

IInv == TypeOK /\ VersionsCount

\* The invariant implies the property: equal versions are equal counts.
LEMMA IInvImpliesNoStaleWrite == IInv => NoStaleWrite
BY DEF IInv, TypeOK, VersionsCount, Counts, Carries, NoStaleWrite, Sent, Accepted, Stale,
       Rows, Messages, NoVersion

\* A decision and a position write keep the row well-formed; the version moves
\* by one exactly when the watched flag is decided.
LEMMA DecisionsMoveTheVersion ==
    ASSUME NEW r \in Rows, NEW b \in BOOLEAN, NEW p \in Nat
    PROVE  /\ SetWatched(r, b) \in Rows
           /\ SetWatched(r, b).version = r.version + 1
           /\ SetResume(r, p) \in Rows
           /\ SetResume(r, p).version =
                IF SetResume(r, p).watched # r.watched THEN r.version + 1 ELSE r.version
<1>1. SetWatched(r, b) \in Rows /\ SetWatched(r, b).version = r.version + 1
  BY DEF SetWatched, Rows
<1>2. AutoWatched(p) \in BOOLEAN
  BY DurationAssumption DEF AutoWatched
<1>3. CASE AutoWatched(p)
  BY <1>1, <1>3 DEF SetResume, Rows
<1>4. CASE ~AutoWatched(p)
  BY <1>1, <1>4 DEF SetResume, Rows
<1> QED
  BY <1>2, <1>3, <1>4

LEMMA InitEstablishes == Init => IInv
BY DEF Init, IInv, TypeOK, VersionsCount, Counts, Carries, NewRow, ClosedPage, NoVersion,
       Rows, PageStates

\* A request a page builds is well-formed and carries what the page knows.
LEMMA RequestCarriesPage ==
    ASSUME IInv, NEW c \in Pages, NEW kind \in Kinds, NEW p \in Nat, NEW b \in BOOLEAN
    PROVE  /\ Request(c, kind, p, b) \in Messages
           /\ Counts(Request(c, kind, p, b))
           /\ Request(c, kind, p, b).kind = kind
           /\ Request(c, kind, p, b).state = "sent"
           /\ kind = "resume" => Request(c, kind, p, b).version = page[c].version
           /\ kind # "resume" => ~Carries(Request(c, kind, p, b))
<1>1. page[c] \in PageStates /\ Counts(page[c])
  BY DEF IInv, TypeOK, VersionsCount
<1>2. CASE kind = "resume"
  BY <1>1, <1>2 DEF Counts, Request, Messages, PageStates
<1>3. CASE kind # "resume"
  BY <1>3 DEF Counts, Carries, Request, Messages, NoVersion
<1> QED
  BY <1>2, <1>3

LEMMA FlushCarriesPage ==
    ASSUME IInv, NEW c \in Pages, NEW p \in Positions, Loaded(c)
    PROVE  Flush(c, p) \in Messages /\ Counts(Flush(c, p)) /\ Flush(c, p).version # NoVersion
<1> DEFINE n == Request(c, "resume", p, FALSE)
<1>1. n \in Messages /\ Counts(n) /\ n.version # NoVersion
  BY RequestCarriesPage, PositionsAssumption DEF Loaded, Kinds
<1> HIDE DEF n
<1>2. [n EXCEPT !.flush = TRUE] \in Messages /\ Counts([n EXCEPT !.flush = TRUE])
      /\ [n EXCEPT !.flush = TRUE].version = n.version
  BY <1>1 DEF Messages, Counts
<1> QED
  BY <1>1, <1>2 DEF Flush, n

\* An answer carries the row as the request left it.
LEMMA AnswerCarriesRow ==
    ASSUME NEW m \in Messages, NEW r \in Rows, NEW t \in Nat, r.version = t + 1
    PROVE  /\ Answer(m, r, t) \in Messages
           /\ Counts(Answer(m, r, t))
           /\ Answer(m, r, t).version # NoVersion
<1>1. m.page \in Pages /\ m.kind \in Kinds /\ m.toggled \in BOOLEAN /\ m.flush \in BOOLEAN
  BY DEF Messages
<1>2. r.watched \in BOOLEAN /\ r.version \in Nat
  BY DEF Rows
<1>3. Answer(m, r, t).version = r.version /\ Answer(m, r, t).knows = t
  BY DEF Answer, Messages
<1>4. Answer(m, r, t) \in Messages
  <2> DEFINE n == [m EXCEPT !.state = "done", !.version = r.version, !.knows = t,
                            !.position = 0, !.flush = FALSE]
  <2>1. n \in Messages
    BY <1>2 DEF Messages
  <2>2. [n EXCEPT !.watched = r.watched] \in Messages
    <3> HIDE DEF n
    <3> QED
      BY <1>2, <2>1 DEF Messages
  <2>3. Answer(m, r, t) = [n EXCEPT !.watched = r.watched]
    BY DEF Answer, Messages
  <2> QED
    BY <2>2, <2>3
<1> QED
  BY <1>2, <1>3, <1>4 DEF Counts, NoVersion

\* An answer that says no carries nothing.
LEMMA RefusalCarriesNothing ==
    ASSUME NEW m \in Messages, NEW s \in {"conflict", "failed"}
    PROVE  /\ Unanswered(m, s) \in Messages
           /\ Counts(Unanswered(m, s))
           /\ ~Carries(Unanswered(m, s))
BY DEF Unanswered, Messages, Counts, Carries, NoVersion

\* One message replaced by a well-formed one, the row and the pages as before.
LEMMA ReplacePreserves ==
    ASSUME IInv, NEW m \in net, NEW n \in Messages, Replace(m, n),
           Counts(n), Carries(n) => n.version # NoVersion,
           row' \in Rows, turns' \in Nat, row'.version = turns' + 1, page' = page
    PROVE  IInv'
BY DEF IInv, TypeOK, VersionsCount, Replace, Counts, Carries

\* The server's step.
LEMMA ServePreserves ==
    ASSUME IInv, NEW c \in Pages, NEW kind \in Kinds, Serve(c, kind)
    PROVE  IInv'
<1>1. PICK m \in net : ServeToggle(m) \/ ServeResume(m) \/ ServeStale(m) \/ ServeGet(m)
  BY DEF Serve, Sent, Waiting
<1>2. m \in Messages /\ page' = page
  BY DEF IInv, TypeOK, Serve
<1>3. row \in Rows /\ turns \in Nat /\ row.version = turns + 1
  BY DEF IInv, TypeOK, VersionsCount
<1>4. m.watched \in BOOLEAN /\ m.position \in Nat
  BY <1>2 DEF Messages
<1>5. CASE ServeToggle(m)
  <2>1. row' = SetWatched(row, m.watched) /\ turns' = turns + 1
    BY <1>5 DEF ServeToggle
  <2>2. row' \in Rows /\ turns' \in Nat /\ row'.version = turns' + 1
    BY <2>1, <1>3, <1>4, DecisionsMoveTheVersion
  <2>3. Replace(m, Answer(m, row', turns'))
    BY <1>5 DEF ServeToggle
  <2> QED
    BY <2>2, <2>3, <1>2, AnswerCarriesRow, ReplacePreserves
<1>6. CASE ServeResume(m)
  <2>1. row' = SetResume(row, m.position)
        /\ turns' = IF row'.watched # row.watched THEN turns + 1 ELSE turns
    BY <1>6 DEF ServeResume
  <2>2. row' \in Rows /\ turns' \in Nat /\ row'.version = turns' + 1
    BY <2>1, <1>3, <1>4, DecisionsMoveTheVersion
  <2>3. Replace(m, Answer(m, row', turns'))
    BY <1>6 DEF ServeResume
  <2> QED
    BY <2>2, <2>3, <1>2, AnswerCarriesRow, ReplacePreserves
<1>7. CASE ServeStale(m)
  <2>1. Replace(m, Unanswered(m, "conflict")) /\ row' = row /\ turns' = turns
    BY <1>7 DEF ServeStale
  <2> QED
    BY <2>1, <1>2, <1>3, RefusalCarriesNothing, ReplacePreserves
<1>8. CASE ServeGet(m)
  <2>1. Replace(m, Answer(m, row, turns)) /\ row' = row /\ turns' = turns
    BY <1>8 DEF ServeGet
  <2> QED
    BY <2>1, <1>2, <1>3, AnswerCarriesRow, ReplacePreserves
<1> QED
  BY <1>1, <1>5, <1>6, <1>7, <1>8

\* The pages' requests.
LEMMA SendPreserves ==
    ASSUME IInv, NEW c \in Pages,
           \/ Open(c) \/ Refetch(c) \/ Close(c) \/ PressWatched(c)
           \/ PlayOn(c) \/ StopPlaying(c) \/ Ping(c) \/ Hide(c)
    PROVE  IInv'
<1> USE DEF Kinds, Reads
<1>1. row' = row /\ turns' = turns
  BY DEF Open, Refetch, Close, PressWatched, PlayOn, StopPlaying, Ping, Hide
<1>2. Positions \subseteq Nat
  BY PositionsAssumption
<1>3. ClosedPage \in PageStates /\ Counts(ClosedPage)
  BY DEF ClosedPage, PageStates, Counts, NoVersion
<1>4. CASE Open(c)
  <2> DEFINE n == Request(c, "get", 0, FALSE)
  <2>1. n \in Messages /\ Counts(n) /\ ~Carries(n)
    BY RequestCarriesPage
  <2>2. net' = net \cup {n} /\ page' = [page EXCEPT ![c] = [ClosedPage EXCEPT !.open = TRUE]]
    BY <1>4 DEF Open
  <2>3. [ClosedPage EXCEPT !.open = TRUE] \in PageStates
        /\ Counts([ClosedPage EXCEPT !.open = TRUE])
    BY DEF ClosedPage, PageStates, Counts, NoVersion
  <2> QED
    BY <1>1, <2>1, <2>2, <2>3 DEF IInv, TypeOK, VersionsCount
<1>5. CASE Refetch(c)
  <2> DEFINE n == Request(c, "get", 0, FALSE)
  <2>1. n \in Messages /\ Counts(n) /\ ~Carries(n)
    BY RequestCarriesPage
  <2>2. net' = net \cup {n} /\ page' = page
    BY <1>5 DEF Refetch
  <2> QED
    BY <1>1, <2>1, <2>2 DEF IInv, TypeOK, VersionsCount
<1>6. CASE Ping(c)
  <2>1. PICK p \in Positions : net' = net \cup {Request(c, "resume", p, FALSE)}
    BY <1>6 DEF Ping
  <2> DEFINE n == Request(c, "resume", p, FALSE)
  <2>2. n \in Messages /\ Counts(n) /\ n.version # NoVersion
    BY <1>2, <1>6, RequestCarriesPage DEF Ping, Loaded
  <2>3. page' = page
    BY <1>6 DEF Ping
  <2> QED
    BY <1>1, <2>1, <2>2, <2>3 DEF IInv, TypeOK, VersionsCount
<1>7. CASE Close(c)
  <2> DEFINE left == {m \in net : ~(m.page = c /\ m.kind = "get")}
  <2>1. page' = [page EXCEPT ![c] = ClosedPage]
    BY <1>7 DEF Close
  <2>2. CASE net' = left
    BY <1>1, <1>3, <2>1, <2>2 DEF IInv, TypeOK, VersionsCount
  <2>3. ASSUME Loaded(c), NEW p \in Positions,
               net' = left \cup {Flush(c, p)}
        PROVE  IInv'
    <3>1. Flush(c, p) \in Messages /\ Counts(Flush(c, p)) /\ Flush(c, p).version # NoVersion
      BY <2>3, FlushCarriesPage
    <3> QED
      BY <1>1, <1>3, <2>1, <2>3, <3>1 DEF IInv, TypeOK, VersionsCount
  <2> QED
    BY <1>7, <2>2, <2>3 DEF Close
<1>8. CASE PressWatched(c)
  <2> DEFINE n == Request(c, "toggle", 0, ~page[c].watched)
             mark(m) == [m EXCEPT !.toggled = @ \/ (m.page = c /\ m.kind = "resume")]
             q == [page[c] EXCEPT !.watched = ~page[c].watched, !.plays = FALSE]
  <2>1. net' = {mark(m) : m \in net} \cup {n} /\ page' = [page EXCEPT ![c] = q]
    BY <1>8 DEF PressWatched
  <2>2. page[c] \in PageStates /\ Counts(page[c])
    BY DEF IInv, TypeOK, VersionsCount
  <2>3. (~page[c].watched) \in BOOLEAN
    BY Zenon
  <2>4. n \in Messages /\ Counts(n) /\ ~Carries(n)
    BY <2>3, RequestCarriesPage
  <2>5. ASSUME NEW m \in net
        PROVE  mark(m) \in Messages /\ Counts(mark(m))
               /\ (Carries(mark(m)) => mark(m).version # NoVersion)
    <3>1. m \in Messages /\ Counts(m) /\ (Carries(m) => m.version # NoVersion)
      BY DEF IInv, TypeOK, VersionsCount
    <3>2. ASSUME NEW b \in BOOLEAN
          PROVE  /\ [m EXCEPT !.toggled = b] \in Messages
                 /\ Counts([m EXCEPT !.toggled = b])
                 /\ Carries([m EXCEPT !.toggled = b])
                      => [m EXCEPT !.toggled = b].version # NoVersion
      BY <3>1 DEF Messages, Counts, Carries
    <3>3. (m.toggled \/ (m.page = c /\ m.kind = "resume")) \in BOOLEAN
      BY Zenon
    <3> QED
      BY <3>2, <3>3
  <2>6. q \in PageStates /\ Counts(q)
    <3>1. ASSUME NEW b \in BOOLEAN
          PROVE  /\ [page[c] EXCEPT !.watched = b, !.plays = FALSE] \in PageStates
                 /\ Counts([page[c] EXCEPT !.watched = b, !.plays = FALSE])
      BY <2>2 DEF PageStates, Counts
    <3> QED
      BY <2>3, <3>1
  <2> HIDE DEF mark, n, q
  <2>7. page' \in [Pages -> PageStates] /\ \A d \in Pages : Counts(page'[d])
    BY <2>1, <2>6 DEF IInv, TypeOK, VersionsCount
  <2>8. net' \subseteq Messages
        /\ \A m \in net' : Counts(m) /\ (Carries(m) => m.version # NoVersion)
    BY <2>1, <2>4, <2>5
  <2> QED
    BY <1>1, <2>7, <2>8 DEF IInv, TypeOK, VersionsCount
<1>9. CASE PlayOn(c) \/ StopPlaying(c)
  <2>1. PICK b \in BOOLEAN : page' = [page EXCEPT ![c].plays = b] /\ net' = net
    BY <1>9 DEF PlayOn, StopPlaying
  <2>2. [page[c] EXCEPT !.plays = b] \in PageStates /\ Counts([page[c] EXCEPT !.plays = b])
    BY DEF IInv, TypeOK, VersionsCount, PageStates, Counts
  <2>3. page' \in [Pages -> PageStates] /\ \A d \in Pages : Counts(page'[d])
    BY <2>1, <2>2 DEF IInv, TypeOK, VersionsCount
  <2> QED
    BY <1>1, <2>1, <2>3 DEF IInv, TypeOK, VersionsCount
<1>10. CASE Hide(c)
  <2>1. PICK p \in Positions : net' = net \cup {Flush(c, p)} /\ Loaded(c) /\ page' = page
    BY <1>10 DEF Hide
  <2>2. Flush(c, p) \in Messages /\ Counts(Flush(c, p)) /\ Flush(c, p).version # NoVersion
    BY <2>1, FlushCarriesPage
  <2> QED
    BY <1>1, <2>1, <2>2 DEF IInv, TypeOK, VersionsCount
<1> QED
  BY <1>4, <1>5, <1>6, <1>7, <1>8, <1>9, <1>10

\* The pages' reaction to an answer.
LEMMA ReceivePreserves ==
    ASSUME IInv, NEW c \in Pages, NEW kind \in Kinds, Receive(c, kind)
    PROVE  IInv'
<1>1. PICK m \in net : AdoptResume(m) \/ AdoptToggle(m) \/ AdoptVideo(m)
                        \/ Conflict(m) \/ Failed(m)
  BY DEF Receive, Waiting
<1>2. row' = row /\ turns' = turns /\ m \in Messages /\ m.page \in Pages
  BY DEF IInv, TypeOK, Receive, Messages
<1>3. page[m.page] \in PageStates /\ Counts(page[m.page])
  BY <1>2 DEF IInv, TypeOK, VersionsCount
\* A page that adopts an answer is a well-formed page at the answer's version.
<1>4. ASSUME NEW q \in PageStates, Counts(q), NEW b \in BOOLEAN, NEW d \in BOOLEAN,
             net' \subseteq net,
             page' = [page EXCEPT ![m.page] = [q EXCEPT !.watched = b, !.plays = d]]
      PROVE  IInv'
  <2> DEFINE s == [q EXCEPT !.watched = b, !.plays = d]
  <2>1. s \in PageStates /\ Counts(s)
    BY <1>4 DEF PageStates, Counts
  <2>2. page' = [page EXCEPT ![m.page] = s]
    BY <1>4
  <2> HIDE DEF s
  <2> QED
    BY <1>2, <1>4, <2>1, <2>2 DEF IInv, TypeOK, VersionsCount
<1>5. m.state = "done" => /\ AdoptVersion(m) \in PageStates
                          /\ Counts(AdoptVersion(m))
  BY <1>2, <1>3 DEF IInv, VersionsCount, AdoptVersion, Messages, PageStates, Counts
<1>6. /\ m.watched \in BOOLEAN /\ (~m.watched) \in BOOLEAN
      /\ page[m.page].plays \in BOOLEAN
      /\ (AdoptVersion(m).watched \/ (m.watched /\ ~m.toggled)) \in BOOLEAN
      /\ (AdoptVersion(m).plays /\ ~(m.kind = "reread" /\ m.watched)) \in BOOLEAN
  <2>1. m.watched \in BOOLEAN /\ page[m.page].plays \in BOOLEAN
    BY <1>2, <1>3 DEF Messages, PageStates
  <2> QED
    BY <2>1, Zenon
<1>7. CASE AdoptResume(m)
  <2> DEFINE b == AdoptVersion(m).watched \/ (m.watched /\ ~m.toggled)
  <2>1. AdoptVersion(m) \in PageStates /\ Counts(AdoptVersion(m)) /\ net' \subseteq net
        /\ page' = [page EXCEPT ![m.page] = [AdoptVersion(m) EXCEPT !.watched = b]]
    BY <1>5, <1>7 DEF AdoptResume, Drop
  <2>2. b \in BOOLEAN
    BY <1>6
  <2> HIDE DEF b
  <2>3. [AdoptVersion(m) EXCEPT !.watched = b] \in PageStates
        /\ Counts([AdoptVersion(m) EXCEPT !.watched = b])
    BY <2>1, <2>2 DEF PageStates, Counts
  <2> QED
    BY <1>2, <2>1, <2>3 DEF IInv, TypeOK, VersionsCount
<1>8. CASE AdoptToggle(m)
  BY <1>2, <1>5, <1>8 DEF AdoptToggle, Drop, IInv, TypeOK, VersionsCount
<1>9. CASE AdoptVideo(m)
  <2>1. net' \subseteq net /\ page' = [page EXCEPT ![m.page] = Show(m, AdoptVersion(m))]
    BY <1>9 DEF AdoptVideo, Drop
  <2> QED
    BY <1>4, <1>5, <1>6, <1>9, <2>1 DEF AdoptVideo, Show
<1>10. CASE Conflict(m)
  <2> DEFINE n == Request(m.page, "reread", 0, FALSE)
  <2>1. n \in Messages /\ Counts(n) /\ ~Carries(n)
    BY <1>2, RequestCarriesPage DEF Messages, Counts, Carries, Request, Kinds, Reads
  <2>2. net' \subseteq net \cup {n} /\ page' = page
    BY <1>10 DEF Conflict
  <2> QED
    BY <1>2, <2>1, <2>2 DEF IInv, TypeOK, VersionsCount
<1>11. CASE Failed(m)
  <2>1. PICK b \in {page[m.page].plays, TRUE} :
          page' = [page EXCEPT ![m.page] =
                      [page[m.page] EXCEPT !.watched = ~m.watched, !.plays = b]]
    BY <1>2, <1>11 DEF Failed, IInv, TypeOK
  <2>2. b \in BOOLEAN /\ net' \subseteq net
    BY <1>6, <1>11 DEF Failed, Drop
  <2> QED
    BY <1>3, <1>4, <1>6, <2>1, <2>2
<1> QED
  BY <1>1, <1>7, <1>8, <1>9, <1>10, <1>11

\* Every step.
LEMMA NextPreserves == IInv /\ [Next]_vars => IInv'
<1> SUFFICES ASSUME IInv, [Next]_vars
             PROVE  IInv'
  OBVIOUS
<1>1. ASSUME NEW c \in Pages, NEW kind \in Kinds, Ignore(c, kind)
      PROVE  IInv'
  BY <1>1 DEF Ignore, Drop, IInv, TypeOK, VersionsCount
<1>2. CASE Lose
  <2>1. PICK m \in net : Replace(m, Unanswered(m, "failed")) \/ Drop(m)
    BY <1>2 DEF Lose
  <2>2. m \in Messages /\ row' = row /\ turns' = turns /\ page' = page
    BY <1>2 DEF Lose, IInv, TypeOK
  <2>3. row \in Rows /\ turns \in Nat /\ row.version = turns + 1
    BY DEF IInv, TypeOK, VersionsCount
  <2>4. CASE Replace(m, Unanswered(m, "failed"))
    BY <2>2, <2>3, <2>4, RefusalCarriesNothing, ReplacePreserves
  <2>5. CASE Drop(m)
    BY <2>2, <2>5 DEF Drop, IInv, TypeOK, VersionsCount
  <2> QED
    BY <2>1, <2>4, <2>5
<1>3. CASE UNCHANGED vars
  BY <1>3 DEF vars, IInv, TypeOK, VersionsCount
<1> QED
  BY <1>1, <1>2, <1>3, ServePreserves, ReceivePreserves, SendPreserves DEF Next

\* A position is written only by a page that has seen the last decision about
\* the watched flag: no request the server would accept was built on an
\* earlier one (videos.SetResume's state_version check, issue #97).
THEOREM WatchStaysDecided == Spec => []NoStaleWrite
<1>1. Init => IInv
  BY InitEstablishes
<1>2. IInv /\ [Next]_vars => IInv'
  BY NextPreserves
<1>3. IInv => NoStaleWrite
  BY IInvImpliesNoStaleWrite
<1> QED
  BY <1>1, <1>2, <1>3, PTL DEF Spec
=============================================================================
