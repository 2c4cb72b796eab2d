----------------------------- MODULE Retrieval -----------------------------
(***************************************************************************)
(* The pure half of searching the library: the keyword ladder              *)
(* (rag/query.go), the two kinds of lane (rag/store.go, semanticLane), the *)
(* weighted fusion of the lanes (rag/hybrid.go), and what is made of the   *)
(* fused list: the excerpts a model reads and the videos listed beside its *)
(* answer (httpapi/answer_context.go), or the moments grouped by video     *)
(* (httpapi/search_handlers.go).                                           *)
(*                                                                         *)
(* A chunk is its number in the index.  What a question has to do with it  *)
(* is given as data: the first rung of the ladder that matches it, and its *)
(* distance, in hundredths, from the question and from the topic.          *)
(***************************************************************************)
EXTENDS Integers, Sequences, FiniteSets, SequencesExt

CONSTANTS
    Videos, Channels,
    Index,      \* the chunks: records [video, kind, moment]
    ChannelOf,  \* the channel of a video
    Unwatched,  \* the videos not watched yet
    Question,   \* the question's words: [stop, content, long]
    \* The code's limits, each BOUNDed to a small number of its order.
    SearchCandidates, SemanticCandidates,
    AnswerMaxSources, AnswerMaxSourcesPerVideo, AnswerBreadthSources,
    CoverageMaxVideos, MaxMatchesPerVideo

ASSUME LimitsAssumption ==
    /\ AnswerMaxSources \in Nat /\ CoverageMaxVideos \in Nat /\ SearchCandidates \in Nat
    /\ AnswerBreadthSources \in 1..AnswerMaxSources
    /\ AnswerMaxSourcesPerVideo \in 1..AnswerMaxSources
    /\ AnswerMaxSources <= CoverageMaxVideos /\ CoverageMaxVideos <= SearchCandidates
    /\ MaxMatchesPerVideo \in Nat \ {0} /\ SemanticCandidates \in Nat \ {0}

ASSUME IndexAssumption ==
    /\ IsFiniteSet(Videos)
    /\ Index \in Seq([video : Videos, moment : Nat,
                      kind : {"transcript", "chapter", "in_depth", "summary"}])

Chunks == 1..Len(Index)
VideoOf(c) == Index[c].video

\* keywordVideoTarget: what the breadth pass of an answer can spend.
KeywordVideoTarget == AnswerBreadthSources

(***************************************************************************)
(* Helpers on lists of chunks.                                             *)
(***************************************************************************)
FirstN(s, n) == IF Len(s) > n THEN SubSeq(s, 1, n) ELSE s

\* The members of S in the order before, a relation that is total on S.
InOrder(S, before) ==
    [i \in 1..Cardinality(S) |->
        CHOOSE c \in S : Cardinality({d \in S : <<d, c>> \in before}) = i - 1]

Ascending(S) == InOrder(S, {p \in S \X S : p[1] < p[2]})

\* Those of a list that are in S, in its order.
Those(s, S) ==
    LET places == Ascending({i \in DOMAIN s : s[i] \in S})
    IN  [k \in DOMAIN places |-> s[places[k]]]

\* The members of S that a list has before c.
Sooner(s, S, c) ==
    {d \in S : \E i, j \in DOMAIN s : i < j /\ s[i] = d /\ s[j] = c}

VideosIn(s) == {VideoOf(s[i]) : i \in DOMAIN s}

(***************************************************************************)
(* The filter.                                                             *)
(***************************************************************************)
WholeLibrary == [channels |-> {}, unwatched |-> FALSE]
Empty(f) == f = WholeLibrary

\* predicates: the conditions on a videos row, ANDed.
Admits(f, v) ==
    /\ f.channels # {} => ChannelOf[v] \in f.channels
    /\ f.unwatched => v \in Unwatched

(***************************************************************************)
(* The lanes.                                                              *)
(***************************************************************************)
\* The rungs, from every word to any one word, and their weights in tenths.
StrictRung == 1
ContentRung == 2
PrefixRung == 3
AnyRung == 4
NoRung == 5
Weight == <<10, 9, 7, 4>>
WeightSemantic == 6
WeightSemanticTopic == 6

\* BuildFTSQueries: strictest first, a rung that would repeat another dropped.
BuildFTSQueries(q) ==
    LET Rung(n, present) == IF present THEN <<n>> ELSE <<>>
    IN  Rung(StrictRung, q.stop \/ q.content > 0)
        \o Rung(ContentRung, q.content > 0 /\ q.stop)
        \o Rung(PrefixRung, q.content > 0 /\ q.long)
        \o Rung(AnyRung, q.content > 1)

\* SearchFTSFiltered: the filter narrows before the limit applies.
SearchFTS(there, meaning, rung, f) ==
    FirstN(Ascending({c \in Chunks : /\ VideoOf(c) \in there /\ Admits(f, VideoOf(c))
                                     /\ meaning[c].rung <= rung}),
           SearchCandidates)

\* RetrieveWithinFiltered: the nearest among the admitted, then those that are
\* near at all.  A distance of Nowhere is past every bound.
Nowhere == 999
DefaultMaxDistance == 125
RetrieveWithin(there, distance, f) ==
    LET admitted == {c \in Chunks : VideoOf(c) \in there /\ Admits(f, VideoOf(c))}
        nearer == {p \in admitted \X admitted :
                      \/ distance[p[1]] < distance[p[2]]
                      \/ distance[p[1]] = distance[p[2]] /\ p[1] < p[2]}
    IN  Those(FirstN(InOrder(admitted, nearer), SemanticCandidates),
              {c \in admitted : distance[c] < DefaultMaxDistance})

\* WithinSpread: not much worse than the best of this lane.
SemanticSpread == 20
WithinSpread(hits, distance) ==
    Those(hits, {c \in Chunks : distance[c] <= distance[hits[1]] + SemanticSpread})

KeywordLane(hits, rung) == [hits |-> hits, weight |-> Weight[rung], of |-> "keyword"]
RawLane(hits) == [hits |-> hits, weight |-> WeightSemantic, of |-> "raw"]
TopicLane(hits) == [hits |-> hits, weight |-> WeightSemanticTopic, of |-> "topic"]

\* A lane without a hit is not a lane.
AddLane(lanes, lane) == IF lane.hits = <<>> THEN lanes ELSE Append(lanes, lane)

(***************************************************************************)
(* Fusion.                                                                 *)
(***************************************************************************)
\* A multiple of 60..65, so that scores of ranks 0..5 are whole numbers.
Unit == 495593280
RrfK == 60

\* There are six lanes at most: four rungs and two vectors.
Score(lanes, c) ==
    LET Share(i) == IF i \in DOMAIN lanes /\ \E r \in DOMAIN lanes[i].hits : lanes[i].hits[r] = c
                    THEN LET r == CHOOSE r \in DOMAIN lanes[i].hits : lanes[i].hits[r] = c
                         IN  lanes[i].weight * (Unit \div (RrfK + r - 1))
                    ELSE 0
    IN  Share(1) + Share(2) + Share(3) + Share(4) + Share(5) + Share(6)

\* FuseWeighted: best score first, ties by the chunk.
FuseWeighted(lanes) ==
    LET found == UNION {ToSet(lanes[i].hits) : i \in DOMAIN lanes}
        score == [c \in found |-> Score(lanes, c)]
        above == {p \in found \X found : \/ score[p[1]] > score[p[2]]
                                         \/ score[p[1]] = score[p[2]] /\ p[1] < p[2]}
    IN  FirstN(InOrder(found, above), SearchCandidates)

(***************************************************************************)
(* The excerpts of an answer.                                              *)
(***************************************************************************)
\* Summaries and in-depth sections speak of more than their moment.
IsAnalysis(c) == Index[c].kind \in {"summary", "in_depth"}

SameMoment(c, d) ==
    VideoOf(c) = VideoOf(d) /\ Index[c].moment = Index[d].moment
    /\ ~IsAnalysis(c) /\ ~IsAnalysis(d)

\* What may be an excerpt: its video could be read, its moment is not taken.
Candidates(hits, readable) ==
    LET found == ToSet(hits) \cap readable
    IN  {c \in found : \A d \in Sooner(hits, found, c) : ~SameMoment(d, c)}

OfVideo(S, v) == {c \in S : VideoOf(c) = v}

\* One pass over the candidates in the order of the hits: those whose video has
\* not got its share yet, as long as there are slots.
TakePass(hits, cands, taken, perVideo, slots) ==
    LET open == cands \ taken
        Had(c) == Cardinality(OfVideo(taken, VideoOf(c)))
                  + Cardinality(OfVideo(Sooner(hits, open, c), VideoOf(c)))
        within == {c \in open : Had(c) < perVideo}
    IN  taken \cup {c \in within :
                       Cardinality(taken) + Cardinality(Sooner(hits, within, c)) < slots}

\* Variant: the best passages, whatever videos they are of.
ChooseBestPassages(hits, readable, compare) ==
    TakePass(hits, Candidates(hits, readable), {}, AnswerMaxSourcesPerVideo, AnswerMaxSources)

\* chooseExcerpts: breadth, then depth; a comparison takes summaries first.
ChooseExcerpts(hits, readable, compare) ==
    LET cands == Candidates(hits, readable)
        summaries == IF compare
                     THEN TakePass(hits, {c \in cands : Index[c].kind = "summary"}, {}, 1,
                                   AnswerBreadthSources)
                     ELSE {}
        breadth == TakePass(hits, cands, summaries, 1, AnswerBreadthSources)
    IN  TakePass(hits, cands, breadth, AnswerMaxSourcesPerVideo, AnswerMaxSources)

(***************************************************************************)
(* The videos listed beside an answer.                                     *)
(***************************************************************************)
CoverageMaxDistance == 110

\* relevantVideos: found by a lane above the floor, the topic's aside; what
\* only the question's vector found has to be nearer than retrieval asks.
RelevantVideos(lanes, distance) ==
    UNION {{VideoOf(c) : c \in {d \in ToSet(lanes[i].hits) :
                                   lanes[i].of = "raw" => distance[d] <= CoverageMaxDistance}}
           : i \in {j \in DOMAIN lanes : lanes[j].of # "topic" /\ lanes[j].weight > Weight[AnyRung]}}

\* A chunk of w is found before the first one of v.
Leads(hits, w, v) ==
    \E i \in DOMAIN hits : VideoOf(hits[i]) = w /\ \A j \in 1..i : VideoOf(hits[j]) # v

\* coverageVideos: by the rank of each video's best chunk.
CoverageVideos(hits, relevant, readable) ==
    LET listable == VideosIn(hits) \cap relevant \cap readable
    IN  {v \in listable :
           Cardinality({w \in listable : Leads(hits, w, v)}) < CoverageMaxVideos}

(***************************************************************************)
(* Moments grouped by video, for the search page and the MCP tool.         *)
(***************************************************************************)
\* admits: another moment than those of the video already taken, and one summary.
Repeats(d, c) ==
    SameMoment(d, c) \/ (/\ VideoOf(d) = VideoOf(c)
                         /\ Index[d].kind = "summary" /\ Index[c].kind = "summary")

\* groupHits, for at most maxVideos videos: those found first, and the first
\* different moments of each.
GroupHits(hits, readable, maxVideos) ==
    LET found == {c \in ToSet(hits) : VideoOf(c) \in readable}
        leading == {c \in found : OfVideo(Sooner(hits, found, c), VideoOf(c)) = {}}
        shown == {VideoOf(c) : c \in {e \in leading :
                                        Cardinality(Sooner(hits, leading, e)) < maxVideos}}
        moments == {c \in found : \A d \in Sooner(hits, found, c) : ~Repeats(d, c)}
    IN  {c \in moments :
           /\ VideoOf(c) \in shown
           /\ Cardinality(OfVideo(Sooner(hits, moments, c), VideoOf(c))) < MaxMatchesPerVideo}
=============================================================================
