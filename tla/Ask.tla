-------------------------------- MODULE Ask --------------------------------
(***************************************************************************)
(* One question put to the library: the answer endpoint's stream           *)
(* (httpapi/answer_handlers.go), from reading the question to the last     *)
(* frame, and the MCP server's search tool (httpapi/mcp_library.go), which *)
(* runs the same lanes without a model.                                    *)
(*                                                                         *)
(* Every call may fail, the asker may leave, and a video may be deleted,   *)
(* between any two steps.                                                  *)
(***************************************************************************)
EXTENDS Retrieval

CONSTANTS
    Replies,      \* what a model, or an MCP client, may ask for
    Spelling,     \* Spelling[name][channel]: the first tier that matches
    Meanings,     \* what the question may have to do with the chunks
    Deployments,  \* which services may be wired: subsets of {"chat", "embedder"}
    MCPVideos,    \* videos an MCP search returns
    MaxTokens,    \* BOUND on the fragments of the model's answer
    MaxFaults,    \* BOUND on calls that fail
    MaxDeletes    \* BOUND on videos deleted meanwhile

ASSUME AskAssumption ==
    /\ MCPVideos \in Nat \ {0} /\ MaxTokens \in Nat \ {0}
    /\ MaxFaults \in Nat /\ MaxDeletes \in Nat
    /\ Meanings \subseteq [Chunks -> [rung : Nat, raw : Nat, topic : Nat]]
    /\ Replies \subseteq [topic : BOOLEAN, names : SUBSET DOMAIN Spelling,
                          watched : STRING, counting : BOOLEAN]
    /\ Deployments \subseteq SUBSET {"chat", "embedder"}

VARIABLES
    endpoint,    \* "answer" or "mcp"
    wired,       \* the services of this deployment
    meaning,     \* meaning[c]: [rung, raw, topic]
    there,       \* the videos with a row, and so with chunks
    step,        \* what the handler does next
    understood,  \* the reply, as far as it was kept
    scope,       \* the channels its names resolved to
    filter,      \* the filter the question asked for
    pass,        \* 1, or 2 when the filter found nothing
    rung,        \* how far down the ladder
    lanes,
    keyword,     \* ftsFailed: "ok" or "failed"
    vectors,     \* queryVectors: "none", "ok", "failed"
    semantic,    \* semRaw: "unrun", "ran", "failed"
    hits,        \* the fused list
    relaxed,     \* the filter was dropped
    chosen,      \* the excerpts, or the moments
    coverage,    \* the videos listed beside the answer
    frames,      \* what the asker was sent
    gone,        \* the asker has left
    unread,      \* ghost: the channel directory could not be read
    faults, deletes

search == <<pass, rung, lanes, keyword, vectors, semantic>>
request == <<understood, scope, filter>>
found == <<hits, relaxed, chosen, coverage>>
world == <<endpoint, wired, meaning, there, gone, deletes>>
vars == <<world, step, request, search, found, frames, unread, faults>>

NoReply == [topic |-> FALSE, names |-> {}, watched |-> "", counting |-> FALSE]
NoScope == [ids |-> {}, unresolved |-> FALSE, ambiguous |-> FALSE]

(***************************************************************************)
(* Helpers.                                                                *)
(***************************************************************************)
\* A call of a service or a store; one made for an asker who left may fail.
Works == UNCHANGED faults
Fails == IF gone THEN UNCHANGED faults
                 ELSE faults < MaxFaults /\ faults' = faults + 1

\* send: nothing reaches an asker who left.
Send(f) == frames' = IF gone THEN frames ELSE Append(frames, f)

Sent(f) == \E i \in DOMAIN frames : frames[i] = f

\* A frame whose failure ends the request.
SendOrLeave(f, next) == Send(f) /\ step' = IF gone THEN "closing" ELSE next

(***************************************************************************)
(* Reading the question.                                                   *)
(***************************************************************************)
\* parseUnderstanding: what cannot be verified is dropped.  "watched" stands for
\* every constraint on a video: watched, category, subcategory and dates.
Parse(reply) ==
    [reply EXCEPT !.watched = IF @ \in {"", "unwatched"} THEN @ ELSE ""]

\* understandQuery: a call that fails or times out, a reply that cannot be
\* parsed, or no model: the raw question.
Understand ==
    /\ endpoint = "answer" /\ step = "understand"
    /\ \/ Works /\ "chat" \in wired /\ \E r \in Replies : understood' = Parse(r)
       \/ Fails /\ "chat" \in wired /\ UNCHANGED understood
       \/ Works /\ "chat" \notin wired /\ UNCHANGED understood
    /\ step' = "resolve"
    /\ UNCHANGED <<world, scope, filter, search, found, frames, unread>>

\* A blank question: nothing runs.
Blank ==
    /\ endpoint = "answer" /\ step = "understand"
    /\ frames' = (IF gone THEN <<>> ELSE <<"sources", "done">>) /\ step' = "closed"
    /\ UNCHANGED <<world, request, search, found, unread, faults>>

\* matchChannels: everything that matches at the first tier to match anything.
NoTier == 6
MatchChannels(name) ==
    {c \in Channels : /\ Spelling[name][c] < NoTier
                      /\ \A d \in Channels : Spelling[name][c] <= Spelling[name][d]}

\* resolveChannelsIn.
ResolveChannels(names) ==
    [ids |-> UNION {MatchChannels(n) : n \in names},
     unresolved |-> \E n \in names : MatchChannels(n) = {},
     ambiguous |-> \E n \in names : Cardinality(MatchChannels(n)) > 1]

BuildFilter(u, ch) == [channels |-> ch.ids, unwatched |-> u.watched = "unwatched"]

\* resolveChannels; then the first frame.
Resolve ==
    /\ step = "resolve"
    /\ \/ Works /\ scope' = ResolveChannels(understood.names) /\ UNCHANGED unread
       \/ Fails /\ understood.names # {} /\ scope' = NoScope /\ unread' = TRUE
    /\ filter' = BuildFilter(understood, scope')
    /\ SendOrLeave("progress", "search")
    /\ UNCHANGED <<world, understood, search, found>>

\* mcpLibrary.ResolveChannel: resolved, to channels nothing was downloaded of.
NoVideos(s) == s.ids # {} /\ \A v \in there : ChannelOf[v] \notin s.ids

\* runSearch: a constraint that cannot be honoured is refused, not dropped, and
\* a channel followed but without a video is said to be so.
RunSearch ==
    /\ endpoint = "mcp" /\ step = "understand"
    /\ \E r \in {s \in Replies : Cardinality(s.names) <= 1} :
          /\ understood' = [r EXCEPT !.topic = FALSE, !.counting = FALSE]
          /\ \/ /\ Works /\ scope' = ResolveChannels(r.names)
                /\ filter' = BuildFilter(r, scope')
                /\ CASE Parse(r) # r \/ scope'.unresolved -> Send("refused") /\ step' = "closed"
                     [] OTHER ->
                          IF NoVideos(scope')
                          THEN Send("no videos yet") /\ step' = "closed"
                          ELSE step' = "search" /\ UNCHANGED frames
             \/ /\ Fails /\ Parse(r) = r /\ r.names # {}
                /\ Send("failed") /\ step' = "closed" /\ UNCHANGED <<scope, filter>>
    /\ UNCHANGED <<world, search, found, unread>>

(***************************************************************************)
(* The lanes.                                                              *)
(***************************************************************************)
Ladder == BuildFTSQueries(Question)
Under == IF pass = 1 THEN filter ELSE WholeLibrary
Raw == [c \in Chunks |-> meaning[c].raw]
Topic == [c \in Chunks |-> meaning[c].topic]

\* Once a question, whatever came of it.
MustEmbed == "embedder" \in wired /\ vectors = "none"

\* askLanes: the embedding leaves before the ladder begins.
Search ==
    /\ step = "search"
    /\ lanes' = <<>> /\ rung' = 1 /\ keyword' = "ok" /\ semantic' = "unrun"
    /\ step' = IF Ladder = <<>> THEN "embed" ELSE "ladder"
    /\ UNCHANGED <<world, request, pass, vectors, found, frames, unread, faults>>

\* The ladder ends when its lanes offer enough videos, or at its foot.
Answered(ls) ==
    Cardinality(UNION {VideosIn(ls[i].hits) : i \in DOMAIN ls}) >= KeywordVideoTarget

\* One rung.  One that fails ends the descent.
Rung ==
    /\ step = "ladder"
    /\ \/ /\ Works
          /\ lanes' = AddLane(lanes, KeywordLane(SearchFTS(there, meaning, Ladder[rung], Under),
                                                 Ladder[rung]))
          /\ IF rung = Len(Ladder) \/ Answered(lanes')
             THEN step' = "embed" /\ UNCHANGED rung
             ELSE rung' = rung + 1 /\ UNCHANGED step
          /\ UNCHANGED keyword
       \/ /\ Fails /\ keyword' = "failed" /\ step' = "embed" /\ UNCHANGED <<lanes, rung>>
    /\ UNCHANGED <<world, request, pass, vectors, semantic, found, frames, unread>>

\* The embedding's answer; the second pass has it already.
Embedded ==
    /\ step = "embed"
    /\ IF MustEmbed
       THEN \/ Works /\ vectors' = "ok"
            \/ Fails /\ vectors' = "failed"
       ELSE Works /\ UNCHANGED vectors
    /\ step' = IF vectors' = "ok" THEN "semantic" ELSE "fuse"
    /\ UNCHANGED <<world, request, pass, rung, lanes, keyword, semantic, found, frames, unread>>

SemanticLane(distance) == WithinSpread(RetrieveWithin(there, distance, Under), distance)

\* The two vector lanes side by side, of which either or both may fail.
Semantic ==
    /\ step = "semantic"
    /\ LET raw == RawLane(SemanticLane(Raw))
           topic == TopicLane(IF understood.topic THEN SemanticLane(Topic) ELSE <<>>)
       IN  \/ Works /\ semantic' = "ran" /\ lanes' = AddLane(AddLane(lanes, raw), topic)
           \/ Fails /\ semantic' = "failed" /\ lanes' \in {AddLane(lanes, topic), lanes}
           \/ Fails /\ understood.topic /\ semantic' = "ran" /\ lanes' = AddLane(lanes, raw)
    /\ step' = "fuse"
    /\ UNCHANGED <<world, request, pass, rung, keyword, vectors, found, frames, unread>>

\* What the second search found is from outside the filter.
Widened == pass = 2 /\ hits' # <<>>

\* A filter that found nothing is dropped, once.
Fuse ==
    /\ step = "fuse"
    /\ hits' = FuseWeighted(lanes) /\ relaxed' = Widened
    /\ IF endpoint = "answer" /\ pass = 1 /\ ~Empty(filter) /\ hits' = <<>>
       THEN pass' = 2 /\ step' = "search"
       ELSE UNCHANGED pass /\ step' = IF endpoint = "mcp" THEN "list" ELSE "choose"
    /\ UNCHANGED <<world, request, rung, lanes, keyword, vectors, semantic, chosen, coverage,
                   frames, unread, faults>>

(***************************************************************************)
(* The answer.                                                             *)
(***************************************************************************)
\* videoLookup: an error is not remembered, a video once read is.
Reads ==
    {s \in SUBSET {c \in ToSet(hits) : VideoOf(c) \in there} :
        \A i, j \in DOMAIN hits :
           /\ i < j /\ VideoOf(hits[i]) = VideoOf(hits[j]) /\ hits[i] \in s
           => hits[j] \in s}

\* Two channels the library has, named on purpose.
Compare == Cardinality(scope.ids) > 1 /\ ~scope.ambiguous

\* Variant: the excerpts' videos have to qualify like any other.
ListableOnMerit(relevant, excerpts) == relevant

\* Every video the model was shown stays listable.
Listable(relevant, excerpts) == relevant \cup {VideoOf(c) : c \in excerpts}

\* buildAnswerContext, relevantVideos and coverageVideos.
Choose ==
    /\ step = "choose"
    /\ \E s \in Reads : \E more \in SUBSET there :
          LET read == more \cup {VideoOf(c) : c \in s}
          IN  /\ IF read = there /\ s = {c \in ToSet(hits) : VideoOf(c) \in there}
                 THEN Works ELSE Fails
              /\ chosen' = ChooseExcerpts(hits, s, Compare)
              /\ coverage' = CoverageVideos(hits, Listable(RelevantVideos(lanes, Raw), chosen'),
                                            read)
    /\ step' = "count"
    /\ UNCHANGED <<world, request, search, hits, relaxed, frames, unread>>

\* inventoryCount: only for a count of a shelf, never of a subject.
Counts == understood.counting /\ ~understood.topic /\ ~Empty(filter)

\* The count, then the sources, which go out before anything is written.
Sources ==
    /\ step = "count"
    /\ Works \/ (Counts /\ Fails)
    /\ SendOrLeave("sources", "note")
    /\ UNCHANGED <<world, request, search, found, unread>>

\* Variant: only a search that was widened is worth a sentence.
NoteAboutWidening == relaxed /\ chosen # {}

\* deterministicNote: a constraint that was not honoured.
NoteDue == scope.unresolved \/ (relaxed /\ chosen # {})

\* What the reader must be told whatever the model writes.
Note ==
    /\ step = "note"
    /\ IF NoteDue THEN SendOrLeave("note", "answer")
                  ELSE step' = "answer" /\ UNCHANGED frames
    /\ UNCHANGED <<world, request, search, found, unread, faults>>

\* emptyAnswer: nothing retrieved, and no model asked.
Nothing ==
    /\ step = "answer" /\ chosen = {}
    /\ Send("nothing") /\ step' = "closing"
    /\ UNCHANGED <<world, request, search, found, unread, faults>>

\* Without a chat model the sources are the answer.
Unavailable ==
    /\ step = "answer" /\ chosen # {} /\ "chat" \notin wired
    /\ Send("error") /\ step' = "closing"
    /\ UNCHANGED <<world, request, search, found, unread, faults>>

\* CompleteStream, one fragment.
Token ==
    /\ step = "answer" /\ chosen # {} /\ "chat" \in wired
    /\ Cardinality({i \in DOMAIN frames : frames[i] = "token"}) < MaxTokens
    /\ ~gone /\ Send("token") /\ UNCHANGED step
    /\ UNCHANGED <<world, request, search, found, unread, faults>>

\* A clean stream that said nothing is a failure too.
StreamWhole(said) == said

\* The stream ends, by itself or by an error.
Written ==
    /\ step = "answer" /\ chosen # {} /\ "chat" \in wired
    /\ \/ Works /\ IF StreamWhole(Sent("token")) \/ gone THEN UNCHANGED frames ELSE Send("error")
       \/ Fails /\ Send("error")
    /\ step' = "closing"
    /\ UNCHANGED <<world, request, search, found, unread>>

\* The deferred frames: how the answer was made, and the end.
Close ==
    /\ step = "closing"
    /\ frames' = (IF gone THEN frames ELSE frames \o <<"trace", "done">>) /\ step' = "closed"
    /\ UNCHANGED <<world, request, search, found, unread, faults>>

(***************************************************************************)
(* The MCP tool.                                                           *)
(***************************************************************************)
\* Variant: the lanes fail soft here too.
LanesFailSoft == FALSE

\* An empty list after a failed rung, or after a deadline, is an error.
LanesFailed == keyword = "failed" \/ (semantic = "failed" /\ Ladder = <<>>) \/ gone

\* renderSearch's notes: which part of the search was missing.
Noted == semantic # "ran" \/ keyword = "failed"

\* mcpLibrary.Search after the fusion, and renderSearch.
List ==
    /\ step = "list" /\ step' = "closed"
    /\ \/ /\ Works /\ hits = <<>> /\ LanesFailed
          /\ Send("failed") /\ UNCHANGED chosen
       \/ /\ Works /\ ~(hits = <<>> /\ LanesFailed)
          /\ chosen' = GroupHits(hits, there, MCPVideos)
          /\ frames' = IF gone THEN frames
                       ELSE frames \o (IF Noted THEN <<"note">> ELSE <<>>)
                                   \o (IF chosen' = {} THEN <<"nothing">> ELSE <<"list">>)
       \/ /\ Fails /\ Send("failed") /\ UNCHANGED chosen
    /\ UNCHANGED <<world, request, search, hits, relaxed, coverage, unread>>

(***************************************************************************)
(* Meanwhile.                                                              *)
(***************************************************************************)
Leave ==
    /\ ~gone /\ step # "closed" /\ gone' = TRUE
    /\ UNCHANGED <<endpoint, wired, meaning, there, deletes, step, request, search, found,
                   frames, unread, faults>>

\* A video goes, with its chunks.
Delete(v) ==
    /\ deletes < MaxDeletes /\ step # "closed" /\ v \in there
    /\ there' = there \ {v} /\ deletes' = deletes + 1
    /\ UNCHANGED <<endpoint, wired, meaning, gone, step, request, search, found, frames, unread, faults>>

Init ==
    /\ endpoint \in {"answer", "mcp"} /\ wired \in Deployments /\ meaning \in Meanings
    /\ there = Videos /\ step = "understand"
    /\ understood = NoReply /\ scope = NoScope /\ filter = WholeLibrary
    /\ pass = 1 /\ rung = 1 /\ lanes = <<>> /\ keyword = "ok"
    /\ vectors = "none" /\ semantic = "unrun"
    /\ hits = <<>> /\ relaxed = FALSE /\ chosen = {} /\ coverage = {}
    /\ frames = <<>> /\ gone = FALSE /\ unread = FALSE
    /\ faults = 0 /\ deletes = 0

Next ==
    \/ Understand \/ Blank \/ Resolve \/ RunSearch
    \/ Search \/ Rung \/ Embedded \/ Semantic \/ Fuse
    \/ Choose \/ Sources \/ Note
    \/ Nothing \/ Unavailable \/ Token \/ Written \/ Close
    \/ List
    \/ Leave \/ (\E v \in Videos : Delete(v))

Spec == Init /\ [][Next]_vars

(***************************************************************************)
(* Properties.                                                             *)
(***************************************************************************)
TypeOK ==
    /\ endpoint \in {"answer", "mcp"} /\ wired \subseteq {"chat", "embedder"}
    /\ there \subseteq Videos /\ pass \in 1..2 /\ rung \in 1..4
    /\ filter \in [channels : SUBSET Channels, unwatched : BOOLEAN]
    /\ keyword \in {"ok", "failed"} /\ vectors \in {"none", "ok", "failed"}
    /\ semantic \in {"unrun", "ran", "failed"}
    /\ relaxed \in BOOLEAN /\ chosen \subseteq Chunks /\ coverage \subseteq Videos
    /\ gone \in BOOLEAN /\ unread \in BOOLEAN
    /\ faults \in 0..MaxFaults /\ deletes \in 0..MaxDeletes

Chose == endpoint = "answer" /\ step \in {"count", "note", "answer", "closing", "closed"}

\* coverageVideos stopped at its cap.
ListFull == Cardinality(coverage) = CoverageMaxVideos

\* A video the model was shown is listed, so that it is on the page whether the
\* model cites it or not: neither a distance between the two bounds nor a better
\* list of others takes it off (handleAnswer: "EVERY VIDEO THE MODEL WAS SHOWN
\* STAYS LISTABLE"). Except where reads failed before the excerpts were chosen
\* and worked after: videos never quoted may then fill the list.
ShownIsListed ==
    Chose /\ ~Compare => \/ \A c \in chosen : VideoOf(c) \in coverage
                         \/ ListFull /\ (faults > 0 \/ gone)

\* The same promise where two channels are compared: it does not hold, see the
\* README.
ComparedIsListed == Chose => \A c \in chosen : VideoOf(c) \in coverage

\* One video that says a lot does not crowd the others out: as many videos are
\* quoted as were found and could be read, up to the breadth the answer has
\* room for, and the best passage found is among the quotes (chooseExcerpts).
BreadthKept ==
    Chose /\ ~Compare /\ faults = 0 /\ ~gone /\ deletes = 0 /\ chosen # {} =>
        LET quoted == {VideoOf(c) : c \in chosen}
            offered == Cardinality(VideosIn(hits))
        IN  /\ Cardinality(quoted) >= IF offered < AnswerBreadthSources
                                      THEN offered ELSE AnswerBreadthSources
            /\ hits[1] \in chosen

\* A constraint the question stated, and the library could place, is honoured
\* by every source, or the reader is told that it was not, before any word of
\* the model's (deterministicNote), except where the channel directory failed.
HonouredOrTold ==
    Sent("token") \/ (step = "closed" /\ Sent("done")) =>
        \/ unread \/ endpoint = "mcp" \/ chosen = {} \/ Sent("note")
        \/ /\ ~ResolveChannels(understood.names).unresolved
           /\ \A c \in chosen :
                 Admits(BuildFilter(understood, ResolveChannels(understood.names)), VideoOf(c))

\* The MCP tool says that no video matches only when no word of the question
\* is in a video it could have returned, and says so without a reservation only
\* when every part of the search ran ("an empty list must mean 'nothing
\* matches'").  Deletions may still empty the list of a search that fell short,
\* or that filled its limit, or ended its ladder, with the videos that went.
NothingMeansNothing ==
    endpoint = "mcp" /\ Sent("nothing") =>
        /\ Sent("note") \/ faults = 0
        /\ deletes > 0 \/ keyword = "ok"
        /\ /\ keyword = "ok"
           /\ deletes = 0 \/ (deletes < KeywordVideoTarget /\ Len(Index) <= SearchCandidates)
           => \A c \in Chunks : VideoOf(c) \in there /\ Admits(filter, VideoOf(c)) =>
                 \A i \in DOMAIN Ladder : meaning[c].rung > Ladder[i]
=============================================================================
