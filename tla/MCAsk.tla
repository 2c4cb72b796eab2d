-------------------------------- MODULE MCAsk ------------------------------
(* Ask on four videos of two channels, the first with four chunks, two of one moment. *)
EXTENDS Ask

CONSTANTS v1, v2, v3, v4, c1, c2

MCIndex == <<[video |-> v1, kind |-> "transcript", moment |-> 0],
             [video |-> v1, kind |-> "chapter", moment |-> 0],
             [video |-> v1, kind |-> "in_depth", moment |-> 0],
             [video |-> v1, kind |-> "summary", moment |-> 0],
             [video |-> v2, kind |-> "transcript", moment |-> 0],
             [video |-> v3, kind |-> "summary", moment |-> 0],
             [video |-> v4, kind |-> "transcript", moment |-> 0]>>
MCChannelOf == [v \in {v1, v2, v3, v4} |-> IF v = v1 THEN c1 ELSE c2]
MCQuestion == [stop |-> TRUE, content |-> 2, long |-> FALSE]

Asked(names, watched) ==
    [topic |-> TRUE, names |-> names, watched |-> watched, counting |-> FALSE]
MCReplies ==
    {Asked({}, ""), Asked({"one"}, ""), Asked({"one", "two"}, ""), Asked({"both"}, "unwatched"),
     Asked({"missing"}, "maybe"),
     [topic |-> FALSE, names |-> {}, watched |-> "unwatched", counting |-> TRUE]}
MCSpelling ==
    [one |-> [c \in Channels |-> IF c = c1 THEN 1 ELSE 4],
     two |-> [c \in Channels |-> IF c = c2 THEN 3 ELSE NoTier],
     both |-> [c \in Channels |-> 4],
     missing |-> [c \in Channels |-> NoTier]]

Evident == [rung |-> StrictRung, raw |-> 100, topic |-> Nowhere]
Sharing == [rung |-> AnyRung, raw |-> Nowhere, topic |-> Nowhere]
Adjacent == [rung |-> NoRung, raw |-> 115, topic |-> Nowhere]
Topical == [rung |-> NoRung, raw |-> Nowhere, topic |-> 100]
Unrelated == [rung |-> NoRung, raw |-> Nowhere, topic |-> Nowhere]
MCSignals == {Evident, Sharing, Adjacent, Topical, Unrelated}
MCMeanings ==
    {m \in [1..7 -> MCSignals] :
        /\ Cardinality({m[c] : c \in 1..4}) = 1 /\ m[7] = m[5]
        /\ m[6] = Evident \/ \A c \in 1..7 : m[c] = Unrelated}
MCDeployments == {{}, {"chat", "embedder"}}
=============================================================================
