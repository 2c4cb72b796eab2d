----------------------------- MODULE AskProofs -----------------------------
(***************************************************************************)
(* The promises of an answer and of the MCP tool, for any library, any     *)
(* question and any reply: ShownIsListed, BreadthKept, HonouredOrTold and  *)
(* NothingMeansNothing.                                                    *)
(*                                                                         *)
(* The first half is about the operators of Retrieval: what the orders     *)
(* list, what a lane and the fusion return, what the two passes over the   *)
(* hits take, what the cap of the list beside the answer leaves out.  The  *)
(* second half carries those facts from step to step: what was understood  *)
(* is the filter, the lanes keep to it, what was due was said before a     *)
(* word is written, a call that failed has left a mark, and the ladder has *)
(* gone to its foot or found enough.                                       *)
(***************************************************************************)
EXTENDS Ask, FiniteSetTheorems, TLAPS

(***************************************************************************)
(* Lists in an order.                                                      *)
(***************************************************************************)
\* A strict total order on S.
Orders(R, S) ==
  /\ \A c \in S : <<c, c>> \notin R
  /\ \A c, d \in S : c = d \/ <<c, d>> \in R \/ <<d, c>> \in R
  /\ \A c, d, e \in S : <<c, d>> \in R /\ <<d, e>> \in R => <<c, e>> \in R

Before(R, S, c) == {d \in S : <<d, c>> \in R}

\* A set that is mapped one to one into a finite one has no more members.
LEMMA NoMoreThan ==
  ASSUME NEW S, NEW T, IsFiniteSet(T), NEW f \in [S -> T],
         \A x, y \in S : f[x] = f[y] => x = y
  PROVE  IsFiniteSet(S) /\ Cardinality(S) <= Cardinality(T)
<1>1. f \in Injection(S, T)
  BY DEF Injection, IsInjective
<1> QED
  BY <1>1, FS_Injection

\* What comes earlier in an order has fewer before it.
LEMMA BeforeIsSmaller ==
  ASSUME NEW S, IsFiniteSet(S), NEW R, Orders(R, S), NEW c \in S, NEW d \in S,
         <<c, d>> \in R
  PROVE  /\ Cardinality(Before(R, S, c)) \in Nat
         /\ Cardinality(Before(R, S, c)) < Cardinality(Before(R, S, d))
<1>1. IsFiniteSet(Before(R, S, d)) /\ Before(R, S, c) \in SUBSET Before(R, S, d)
  BY FS_Subset DEF Before, Orders
<1>2. c \in Before(R, S, d) /\ c \notin Before(R, S, c)
  BY DEF Before, Orders
<1>3. /\ IsFiniteSet(Before(R, S, c))
      /\ Cardinality(Before(R, S, c)) <= Cardinality(Before(R, S, d))
      /\ Cardinality(Before(R, S, c)) # Cardinality(Before(R, S, d))
  BY <1>1, <1>2, FS_Subset
<1> QED
  BY <1>1, <1>3, FS_CardinalityType

\* Every place of the order is taken.
LEMMA EveryPlaceIsTaken ==
  ASSUME NEW S, IsFiniteSet(S), NEW R, Orders(R, S), NEW k \in 0..(Cardinality(S) - 1)
  PROVE  \E c \in S : Cardinality(Before(R, S, c)) = k
<1> DEFINE n == Cardinality(S)
           place == [c \in S |-> Cardinality(Before(R, S, c))]
           others == (0..(n - 1)) \ {k}
<1>1. n \in Nat
  BY FS_CardinalityType
<1>2. IsFiniteSet(others) /\ Cardinality(others) = n - 1
  <2>1. IsFiniteSet(0..(n - 1)) /\ Cardinality(0..(n - 1)) = n
    BY <1>1, FS_Interval
  <2>2. k \in 0..(n - 1)
    OBVIOUS
  <2> HIDE DEF n
  <2> QED
    BY <1>1, <2>1, <2>2, FS_RemoveElement
<1>3. ASSUME NEW c \in S PROVE place[c] \in 0..(n - 1)
  <2>1. Before(R, S, c) \in SUBSET (S \ {c})
    BY DEF Before, Orders
  <2>2. IsFiniteSet(S \ {c}) /\ Cardinality(S \ {c}) = n - 1
    BY FS_RemoveElement
  <2>3. IsFiniteSet(Before(R, S, c)) /\ Cardinality(Before(R, S, c)) <= n - 1
    BY <2>1, <2>2, FS_Subset
  <2> QED
    BY <1>1, <2>3, FS_CardinalityType
<1>4. SUFFICES ASSUME \A c \in S : place[c] # k PROVE FALSE
  OBVIOUS
<1>5. place \in [S -> others]
  BY <1>3, <1>4
<1>6. PICK c \in S, d \in S : c # d /\ place[c] = place[d]
  <2>1. ~(Cardinality(S) <= Cardinality(others))
    BY <1>1, <1>2
  <2> HIDE DEF place, others
  <2> QED
    BY <1>2, <1>5, <2>1, NoMoreThan
<1>7. <<c, d>> \in R \/ <<d, c>> \in R
  BY <1>6 DEF Orders
<1> QED
  BY <1>3, <1>6, <1>7, BeforeIsSmaller

\* InOrder(S, R) lists S, each member once.
LEMMA InOrderLists ==
  ASSUME NEW S, IsFiniteSet(S), NEW R, Orders(R, S)
  PROVE  /\ Cardinality(S) \in Nat
         /\ InOrder(S, R) \in [1..Cardinality(S) -> S]
         /\ \A i, j \in 1..Cardinality(S) : InOrder(S, R)[i] = InOrder(S, R)[j] => i = j
         /\ \A c \in S : \E i \in 1..Cardinality(S) : InOrder(S, R)[i] = c
         /\ \A i \in 1..Cardinality(S) : Cardinality(Before(R, S, InOrder(S, R)[i])) = i - 1
<1> DEFINE n == Cardinality(S)
           s == InOrder(S, R)
<1>1. n \in Nat
  BY FS_CardinalityType
<1>2. s = [i \in 1..n |-> CHOOSE c \in S : Cardinality(Before(R, S, c)) = i - 1]
  BY DEF InOrder, Before
<1>3. ASSUME NEW i \in 1..n PROVE s[i] \in S /\ Cardinality(Before(R, S, s[i])) = i - 1
  <2>1. \E c \in S : Cardinality(Before(R, S, c)) = i - 1
    BY <1>1, EveryPlaceIsTaken
  <2>2. s[i] = CHOOSE c \in S : Cardinality(Before(R, S, c)) = i - 1
    BY <1>2
  <2> QED
    BY <2>1, <2>2
<1>4. s \in [1..n -> S]
  BY <1>2, <1>3
<1>5. ASSUME NEW i \in 1..n, NEW j \in 1..n, s[i] = s[j] PROVE i = j
  BY <1>1, <1>3, <1>5
<1>6. ASSUME NEW c \in S PROVE \E i \in 1..n : s[i] = c
  <2>1. Before(R, S, c) \in SUBSET (S \ {c})
    BY DEF Before, Orders
  <2>2. IsFiniteSet(S \ {c}) /\ Cardinality(S \ {c}) = n - 1
    BY FS_RemoveElement
  <2>3. IsFiniteSet(Before(R, S, c)) /\ Cardinality(Before(R, S, c)) <= n - 1
    BY <2>1, <2>2, FS_Subset
  <2>4. Cardinality(Before(R, S, c)) + 1 \in 1..n
    BY <1>1, <2>3, FS_CardinalityType
  <2> DEFINE i == Cardinality(Before(R, S, c)) + 1
  <2>5. s[i] \in S /\ Cardinality(Before(R, S, s[i])) = Cardinality(Before(R, S, c))
    BY <1>3, <2>3, <2>4, FS_CardinalityType
  <2>6. s[i] = c \/ <<s[i], c>> \in R \/ <<c, s[i]>> \in R
    BY <2>5 DEF Orders
  <2> QED
    BY <2>4, <2>5, <2>6, BeforeIsSmaller
<1> QED
  BY <1>1, <1>3, <1>4, <1>5, <1>6

Distinct(s) == \A i, j \in DOMAIN s : s[i] = s[j] => i = j

\* A list of members of S is a list of members of T.
LEMMA SeqOfSubset ==
  ASSUME NEW T, NEW S \in SUBSET T, NEW s \in Seq(S)
  PROVE  s \in Seq(T)
OBVIOUS

\* The chunks are the places of the index, each of a video.
LEMMA ChunksAreFinite ==
  /\ Len(Index) \in Nat /\ Chunks \in SUBSET Nat
  /\ IsFiniteSet(Chunks) /\ Cardinality(Chunks) = Len(Index)
  /\ \A c \in Chunks : VideoOf(c) \in Videos
<1>1. Len(Index) \in Nat
  BY IndexAssumption
<1>2. IsFiniteSet(1..Len(Index)) /\ Cardinality(1..Len(Index)) = Len(Index)
  BY <1>1, FS_Interval
<1>3. \A c \in Chunks : VideoOf(c) \in Videos
  <2> DEFINE Chunk == [video : Videos, kind : {"transcript", "chapter", "in_depth", "summary"},
                       moment : Nat]
  <2>1. \A x \in Chunk : x.video \in Videos
    OBVIOUS
  <2>2. Index \in Seq(Chunk)
    BY IndexAssumption
  <2> HIDE DEF Chunk
  <2>3. \A c \in 1..Len(Index) : Index[c] \in Chunk
    BY <2>2
  <2> QED
    BY <2>1, <2>3 DEF Chunks, VideoOf
<1> QED
  BY <1>1, <1>2, <1>3 DEF Chunks

\* InOrder lists a set, each member once.
LEMMA OfAnOrder ==
  ASSUME NEW S, IsFiniteSet(S), NEW R, Orders(R, S)
  PROVE  /\ InOrder(S, R) \in Seq(S)
         /\ Len(InOrder(S, R)) = Cardinality(S)
         /\ Distinct(InOrder(S, R)) /\ ToSet(InOrder(S, R)) = S
<1>1. /\ Cardinality(S) \in Nat
      /\ InOrder(S, R) \in [1..Cardinality(S) -> S]
  BY InOrderLists
<1>2. InOrder(S, R) \in Seq(S) /\ Len(InOrder(S, R)) = Cardinality(S)
  BY <1>1
<1>3. /\ \A i, j \in 1..Cardinality(S) : InOrder(S, R)[i] = InOrder(S, R)[j] => i = j
      /\ \A c \in S : \E i \in 1..Cardinality(S) : InOrder(S, R)[i] = c
  BY InOrderLists
<1>4. DOMAIN InOrder(S, R) = 1..Cardinality(S)
  BY <1>1
<1>5. Distinct(InOrder(S, R))
  BY <1>3, <1>4 DEF Distinct
<1>6. ToSet(InOrder(S, R)) = S
  BY <1>1, <1>3, <1>4 DEF ToSet
<1> QED
  BY <1>2, <1>5, <1>6

\* FirstN cuts a list, and keeps it whole if it fits.
LEMMA Firsts ==
  ASSUME NEW S, NEW s \in Seq(S), NEW n \in Nat
  PROVE  /\ FirstN(s, n) \in Seq(S)
         /\ ToSet(FirstN(s, n)) \subseteq ToSet(s)
         /\ Len(s) <= n => FirstN(s, n) = s
         /\ n > 0 /\ s # <<>> => FirstN(s, n) # <<>>
         /\ Distinct(s) => Distinct(FirstN(s, n))
<1>1. CASE Len(s) > n
  <2>1. /\ FirstN(s, n) \in Seq(S) /\ Len(FirstN(s, n)) = n
        /\ \A i \in 1..n : FirstN(s, n)[i] = s[i]
    BY <1>1 DEF FirstN
  <2>2. DOMAIN FirstN(s, n) = 1..n /\ DOMAIN s = 1..Len(s)
    BY <2>1
  <2>3. ToSet(FirstN(s, n)) \subseteq ToSet(s)
    BY <1>1, <2>1, <2>2 DEF ToSet
  <2>4. Distinct(s) => Distinct(FirstN(s, n))
    BY <1>1, <2>1, <2>2 DEF Distinct
  <2>5. n > 0 => FirstN(s, n) # <<>>
    BY <2>1
  <2> QED
    BY <1>1, <2>1, <2>3, <2>4, <2>5
<1>2. CASE ~(Len(s) > n)
  BY <1>2 DEF FirstN
<1> QED
  BY <1>1, <1>2

\* Ascending lists a set of numbers, each once.
LEMMA AscendingLists ==
  ASSUME NEW S \in SUBSET Nat, IsFiniteSet(S)
  PROVE  Ascending(S) \in Seq(S) /\ ToSet(Ascending(S)) = S
         /\ Len(Ascending(S)) = Cardinality(S) /\ Distinct(Ascending(S))
<1> DEFINE R == {p \in S \X S : p[1] < p[2]}
<1>1. Orders(R, S)
  BY DEF Orders
<1> QED
  BY <1>1, OfAnOrder DEF Ascending

\* Those keeps of a list what is in a set.
LEMMA ThoseOfAList ==
  ASSUME NEW T, NEW s \in Seq(T), NEW S
  PROVE  Those(s, S) \in Seq(T) /\ ToSet(Those(s, S)) = ToSet(s) \cap S
<1> DEFINE P == {i \in DOMAIN s : s[i] \in S}
           places == Ascending(P)
<1>1. P \in SUBSET Nat /\ IsFiniteSet(P)
  <2>1. DOMAIN s = 1..Len(s) /\ Len(s) \in Nat
    OBVIOUS
  <2>2. IsFiniteSet(1..Len(s))
    BY <2>1, FS_Interval
  <2>3. P \in SUBSET (1..Len(s))
    BY <2>1
  <2> QED
    BY <2>1, <2>2, <2>3, FS_Subset
<1>2. places \in Seq(P) /\ ToSet(places) = P
  BY <1>1, AscendingLists
<1>3. Those(s, S) = [k \in DOMAIN places |-> s[places[k]]]
  BY DEF Those
<1>4. \A i \in P : s[i] \in T /\ s[i] \in S /\ i \in DOMAIN s
  OBVIOUS
<1> HIDE DEF P, places
<1>5. DOMAIN places = 1..Len(places) /\ Len(places) \in Nat /\ \A k \in DOMAIN places : places[k] \in P
  BY <1>2
<1>6. Those(s, S) \in [1..Len(places) -> T]
  BY <1>3, <1>4, <1>5
<1>7. Those(s, S) \in Seq(T) /\ DOMAIN Those(s, S) = DOMAIN places
  BY <1>5, <1>6
<1>8. ToSet(Those(s, S)) = {s[i] : i \in P}
  <2>1. \A k \in DOMAIN places : Those(s, S)[k] = s[places[k]]
    BY <1>3
  <2>2. P = {places[k] : k \in DOMAIN places}
    BY <1>2 DEF ToSet
  <2> QED
    BY <1>7, <2>1, <2>2 DEF ToSet
<1>9. {s[i] : i \in P} = ToSet(s) \cap S
  BY DEF ToSet, P
<1> QED
  BY <1>7, <1>8, <1>9

(***************************************************************************)
(* The lanes.                                                              *)
(***************************************************************************)
Admitted(rows, f) == {c \in Chunks : VideoOf(c) \in rows /\ Admits(f, VideoOf(c))}

\* SearchFTSFiltered returns admitted chunks that match the rung; some if there are
\* any, and all if the index fits the limit.
LEMMA KeywordHits ==
  ASSUME NEW rows, NEW f, NEW meant, NEW n
  PROVE  LET matching == {c \in Admitted(rows, f) : meant[c].rung <= n}
             s == SearchFTS(rows, meant, n, f)
         IN  /\ s \in Seq(Chunks)
             /\ ToSet(s) \subseteq matching
             /\ matching # {} => s # <<>>
             /\ Len(Index) <= SearchCandidates => ToSet(s) = matching
<1> DEFINE matching == {c \in Admitted(rows, f) : meant[c].rung <= n}
           all == Ascending(matching)
           s == SearchFTS(rows, meant, n, f)
<1>1. matching \in SUBSET Chunks
  BY DEF Admitted
<1>2. s = FirstN(all, SearchCandidates)
  BY DEF SearchFTS, Admitted
<1>3. matching \in SUBSET Nat /\ IsFiniteSet(matching) /\ Cardinality(matching) <= Len(Index)
  BY <1>1, ChunksAreFinite, FS_Subset
<1> HIDE DEF matching, s
<1>4. all \in Seq(matching) /\ ToSet(all) = matching /\ Len(all) = Cardinality(matching)
  BY <1>3, AscendingLists
<1>5. SearchCandidates \in Nat /\ SearchCandidates > 0
  BY LimitsAssumption
<1> HIDE DEF all
<1>6. /\ s \in Seq(matching) /\ ToSet(s) \subseteq matching
      /\ Len(all) <= SearchCandidates => s = all
      /\ all # <<>> => s # <<>>
  BY <1>2, <1>4, <1>5, Firsts
<1>7. s \in Seq(Chunks)
  BY <1>1, <1>6, SeqOfSubset
<1>8. matching # {} => s # <<>>
  BY <1>4, <1>6 DEF ToSet
<1>9. Len(Index) <= SearchCandidates => ToSet(s) = matching
  BY <1>3, <1>4, <1>5, <1>6, ChunksAreFinite, FS_CardinalityType
<1> QED
  BY <1>6, <1>7, <1>8, <1>9 DEF matching, s

\* A vector lane returns admitted chunks (RetrieveWithinFiltered, WithinSpread).
LEMMA SemanticHits ==
  ASSUME NEW rows, NEW f, NEW distance \in [Chunks -> Nat]
  PROVE  LET s == WithinSpread(RetrieveWithin(rows, distance, f), distance)
         IN  s \in Seq(Chunks) /\ ToSet(s) \subseteq Admitted(rows, f)
<1> DEFINE A == Admitted(rows, f)
           nearer == {p \in A \X A :
                      \/ distance[p[1]] < distance[p[2]]
                      \/ distance[p[1]] = distance[p[2]] /\ p[1] < p[2]}
           first == FirstN(InOrder(A, nearer), SemanticCandidates)
           near == {c \in A : distance[c] < DefaultMaxDistance}
           r == RetrieveWithin(rows, distance, f)
           close == {c \in Chunks : distance[c] <= distance[r[1]] + SemanticSpread}
           s == WithinSpread(r, distance)
<1>1. A \in SUBSET Chunks /\ A \in SUBSET Nat /\ IsFiniteSet(A)
  BY ChunksAreFinite, FS_Subset DEF Admitted
<1>2. Orders(nearer, A)
  BY <1>1 DEF Orders
<1>3. r = Those(first, near)
  BY DEF RetrieveWithin, Admitted
<1>4. s = Those(r, close)
  BY DEF WithinSpread
<1> HIDE DEF A, nearer, first, near, r, close, s
<1>5. InOrder(A, nearer) \in Seq(A)
  BY <1>1, <1>2, OfAnOrder
<1>6. first \in Seq(A)
  BY <1>5, Firsts, LimitsAssumption DEF first
<1>7. r \in Seq(A)
  BY <1>3, <1>6, ThoseOfAList
<1>8. s \in Seq(A)
  BY <1>4, <1>7, ThoseOfAList
<1>9. ToSet(s) \subseteq A
  BY <1>8 DEF ToSet
<1>10. s \in Seq(Chunks)
  BY <1>1, <1>8, SeqOfSubset
<1> QED
  BY <1>9, <1>10 DEF s, r, A

LaneType == [hits : Seq(Chunks), weight : Nat, of : {"keyword", "raw", "topic"}]

FoundBy(ls) == UNION {ToSet(ls[i].hits) : i \in DOMAIN ls}

\* The weighted sum of a chunk's reciprocal ranks is a number.
LEMMA ScoreType ==
  ASSUME NEW ls \in Seq(LaneType), NEW c
  PROVE  Score(ls, c) \in Int
<1> DEFINE In(i) == i \in DOMAIN ls /\ \E r \in DOMAIN ls[i].hits : ls[i].hits[r] = c
           Rank(i) == CHOOSE r \in DOMAIN ls[i].hits : ls[i].hits[r] = c
           Share(i) == IF In(i)
                       THEN ls[i].weight * (Unit \div (RrfK + Rank(i) - 1))
                       ELSE 0
<1>1. ASSUME NEW i, In(i)
      PROVE  ls[i].weight * (Unit \div (RrfK + Rank(i) - 1)) \in Int
  <2>1. ls[i] \in LaneType
    BY <1>1
  <2>2. ls[i].weight \in Nat /\ ls[i].hits \in Seq(Chunks)
    BY <2>1 DEF LaneType
  <2>3. Rank(i) \in DOMAIN ls[i].hits
    BY <1>1
  <2>4. Rank(i) \in Nat /\ Rank(i) >= 1
    BY <2>2, <2>3
  <2> HIDE DEF Rank
  <2>5. (Unit \div (RrfK + Rank(i) - 1)) \in Int
    BY <2>4 DEF Unit, RrfK
  <2> QED
    BY <2>2, <2>5
<1>2. \A i : Share(i) \in Int
  BY <1>1
<1>3. Score(ls, c) = Share(1) + Share(2) + Share(3) + Share(4) + Share(5) + Share(6)
  BY DEF Score
<1> HIDE DEF Share
<1> QED
  BY <1>2, <1>3

\* The fused list: what the lanes found, each chunk once, and all of it if it
\* fits.
LEMMA Fused ==
  ASSUME NEW ls \in Seq(LaneType)
  PROVE  LET s == FuseWeighted(ls)
         IN  /\ s \in Seq(Chunks) /\ Distinct(s)
             /\ ToSet(s) \subseteq FoundBy(ls)
             /\ FoundBy(ls) # {} => s # <<>>
             /\ Len(Index) <= SearchCandidates => ToSet(s) = FoundBy(ls)
<1> DEFINE F == FoundBy(ls)
           score == [c \in F |-> Score(ls, c)]
           above == {p \in F \X F : \/ score[p[1]] > score[p[2]]
                                    \/ score[p[1]] = score[p[2]] /\ p[1] < p[2]}
           all == InOrder(F, above)
           s == FuseWeighted(ls)
<1>1. F \in SUBSET Chunks
  <2>1. \A i \in DOMAIN ls : ls[i] \in LaneType
    OBVIOUS
  <2>2. \A i \in DOMAIN ls : ls[i].hits \in Seq(Chunks)
    BY <2>1 DEF LaneType
  <2> QED
    BY <2>2 DEF FoundBy, ToSet
<1>2. F \in SUBSET Nat /\ IsFiniteSet(F) /\ Cardinality(F) <= Len(Index)
  BY <1>1, ChunksAreFinite, FS_Subset
<1>3. score \in [F -> Int]
  BY ScoreType
<1>4. s = FirstN(all, SearchCandidates)
  BY DEF FuseWeighted, FoundBy
<1> HIDE DEF F, score, s
<1>5. Orders(above, F)
  BY <1>2, <1>3 DEF Orders
<1> HIDE DEF above
<1>6. all \in Seq(F) /\ ToSet(all) = F /\ Len(all) = Cardinality(F) /\ Distinct(all)
  BY <1>2, <1>5, OfAnOrder
<1>7. SearchCandidates \in Nat /\ SearchCandidates > 0
  BY LimitsAssumption
<1> HIDE DEF all
<1>8. /\ s \in Seq(F) /\ ToSet(s) \subseteq F /\ Distinct(s)
      /\ Len(all) <= SearchCandidates => s = all
      /\ all # <<>> => s # <<>>
  BY <1>4, <1>6, <1>7, Firsts
<1>9. s \in Seq(Chunks)
  BY <1>1, <1>8, SeqOfSubset
<1>10. F # {} => s # <<>>
  BY <1>6, <1>8 DEF ToSet
<1>11. Len(Index) <= SearchCandidates => ToSet(s) = F
  BY <1>2, <1>6, <1>7, <1>8, ChunksAreFinite, FS_CardinalityType
<1> QED
  BY <1>8, <1>9, <1>10, <1>11 DEF F, s

\* A member of S has fewer before it than S has members.
LEMMA PlaceBound ==
  ASSUME NEW S, IsFiniteSet(S), NEW R, Orders(R, S), NEW c \in S
  PROVE  /\ IsFiniteSet(Before(R, S, c)) /\ Cardinality(Before(R, S, c)) \in Nat
         /\ Cardinality(S) \in Nat
         /\ Cardinality(Before(R, S, c)) < Cardinality(S)
<1>1. Before(R, S, c) \in SUBSET (S \ {c})
  BY DEF Before, Orders
<1>2. /\ Cardinality(S) \in Nat
      /\ IsFiniteSet(S \ {c}) /\ Cardinality(S \ {c}) = Cardinality(S) - 1
  BY FS_RemoveElement, FS_CardinalityType
<1>3. /\ IsFiniteSet(Before(R, S, c))
      /\ Cardinality(Before(R, S, c)) <= Cardinality(S) - 1
  BY <1>1, <1>2, FS_Subset
<1> QED
  BY <1>2, <1>3, FS_CardinalityType

\* How many are before the place k.
Foremost(R, S, k) == {c \in S : Cardinality(Before(R, S, c)) < k}

\* The first k places of an order hold k members, or all there are.
LEMMA FirstPlaces ==
  ASSUME NEW S, IsFiniteSet(S), NEW R, Orders(R, S), NEW k \in Nat
  PROVE  /\ Cardinality(S) \in Nat /\ Cardinality(Foremost(R, S, k)) \in Nat
         /\ Cardinality(Foremost(R, S, k)) = IF k <= Cardinality(S) THEN k ELSE Cardinality(S)
<1> DEFINE Place(c) == Cardinality(Before(R, S, c))
           first == {c \in S : Place(c) < k}
<1> USE DEF Foremost
<1>1. IsFiniteSet(first) /\ Cardinality(first) \in Nat /\ Cardinality(S) \in Nat
  BY FS_Subset, FS_CardinalityType
<1>2. \A c \in S : Place(c) \in Nat /\ Place(c) < Cardinality(S)
  BY PlaceBound
<1>3. CASE k <= Cardinality(S)
  <2> DEFINE f == [c \in first |-> Place(c)]
             g == [i \in 0..(k - 1) |-> CHOOSE c \in S : Place(c) = i]
  <2>1. IsFiniteSet(0..(k - 1)) /\ Cardinality(0..(k - 1)) = k
    BY FS_Interval
  <2>2. f \in [first -> 0..(k - 1)]
    BY <1>2
  <2>3. ASSUME NEW c \in first, NEW d \in first, f[c] = f[d] PROVE c = d
    <3>1. Place(c) = Place(d) /\ c \in S /\ d \in S
      BY <2>3
    <3>2. c = d \/ <<c, d>> \in R \/ <<d, c>> \in R
      BY <3>1 DEF Orders
    <3> QED
      BY <3>1, <3>2, BeforeIsSmaller
  <2>4. Cardinality(first) <= k
    <3> HIDE DEF f, first
    <3> QED
      BY <1>1, <2>1, <2>2, <2>3, NoMoreThan
  <2>5. ASSUME NEW i \in 0..(k - 1) PROVE g[i] \in S /\ Place(g[i]) = i
    <3>1. i \in 0..(Cardinality(S) - 1)
      BY <1>1, <1>3
    <3>2. \E c \in S : Place(c) = i
      BY <3>1, EveryPlaceIsTaken
    <3> QED
      BY <3>2
  <2>6. g \in [0..(k - 1) -> first]
    BY <2>5
  <2>7. \A i, j \in 0..(k - 1) : g[i] = g[j] => i = j
    BY <2>5
  <2>8. k <= Cardinality(first)
    <3> HIDE DEF g, first
    <3> QED
      BY <1>1, <2>1, <2>6, <2>7, NoMoreThan
  <2> QED
    BY <1>1, <1>3, <2>4, <2>8
<1>4. CASE ~(k <= Cardinality(S))
  <2>1. first = S
    BY <1>1, <1>2, <1>4
  <2> QED
    BY <1>1, <1>4, <2>1
<1> QED
  BY <1>1, <1>3, <1>4

\* A finite order has a first member.
LEMMA FirstOfAll ==
  ASSUME NEW S, IsFiniteSet(S), NEW R, Orders(R, S), S # {}
  PROVE  \E m \in S : \A k \in S : <<k, m>> \notin R
<1>1. Cardinality(S) \in Nat /\ Cardinality(S) # 0
  BY FS_CardinalityType, FS_EmptySet
<1>2. 0 \in 0..(Cardinality(S) - 1)
  BY <1>1
<1>3. PICK m \in S : Cardinality(Before(R, S, m)) = 0
  BY <1>2, EveryPlaceIsTaken
<1>4. IsFiniteSet(Before(R, S, m))
  BY FS_Subset DEF Before
<1>5. Before(R, S, m) = {}
  BY <1>3, <1>4, FS_EmptySet
<1> QED
  BY <1>5 DEF Before

\* A finite set of numbers has a least one.
LEMMA LeastOf ==
  ASSUME NEW P \in SUBSET Nat, IsFiniteSet(P), P # {}
  PROVE  \E m \in P : \A k \in P : m <= k
<1> DEFINE R == {p \in P \X P : p[1] < p[2]}
<1>1. Orders(R, P)
  BY DEF Orders
<1>2. PICK m \in P : \A k \in P : <<k, m>> \notin R
  BY <1>1, FirstOfAll
<1>3. \A k \in P : ~(k < m)
  BY <1>2
<1> QED
  BY <1>3

(***************************************************************************)
(* A list of different chunks orders them.                                 *)
(***************************************************************************)
InList(s) ==
  {p \in ToSet(s) \X ToSet(s) : \E i, j \in DOMAIN s : i < j /\ s[i] = p[1] /\ s[j] = p[2]}

\* A list without repetitions orders what is in it.
LEMMA ListOrders ==
  ASSUME NEW s \in Seq(Chunks), Distinct(s), NEW S \in SUBSET ToSet(s)
  PROVE  /\ IsFiniteSet(S) /\ S \in SUBSET Chunks
         /\ Orders(InList(s), S)
         /\ \A c \in S : Sooner(s, S, c) = Before(InList(s), S, c)
<1>1. DOMAIN s \in SUBSET Nat /\ \A c \in S : \E i \in DOMAIN s : s[i] = c
  BY DEF ToSet
<1>2. S \in SUBSET Chunks
  BY DEF ToSet
<1>3. IsFiniteSet(S)
  BY <1>2, ChunksAreFinite, FS_Subset
<1>4. Orders(InList(s), S)
  <2>1. \A c \in S : <<c, c>> \notin InList(s)
    BY <1>1 DEF InList, Distinct
  <2>2. \A c, d \in S : c = d \/ <<c, d>> \in InList(s) \/ <<d, c>> \in InList(s)
    <3> SUFFICES ASSUME NEW c \in S, NEW d \in S, c # d
                 PROVE  <<c, d>> \in InList(s) \/ <<d, c>> \in InList(s)
      OBVIOUS
    <3>1. PICK i \in DOMAIN s, j \in DOMAIN s : s[i] = c /\ s[j] = d
      BY <1>1
    <3>2. i < j \/ j < i
      BY <1>1, <3>1
    <3> QED
      BY <3>1, <3>2 DEF InList
  <2>3. ASSUME NEW c \in S, NEW d \in S, NEW e \in S,
               <<c, d>> \in InList(s), <<d, e>> \in InList(s)
        PROVE  <<c, e>> \in InList(s)
    <3>1. PICK i \in DOMAIN s, j \in DOMAIN s : i < j /\ s[i] = c /\ s[j] = d
      BY <2>3 DEF InList
    <3>2. PICK k \in DOMAIN s, l \in DOMAIN s : k < l /\ s[k] = d /\ s[l] = e
      BY <2>3 DEF InList
    <3>3. j = k
      BY <3>1, <3>2 DEF Distinct
    <3>4. i < l
      BY <1>1, <3>1, <3>2, <3>3
    <3> QED
      BY <3>1, <3>2, <3>4 DEF InList
  <2> QED
    BY <2>1, <2>2, <2>3 DEF Orders
<1>5. \A c \in S : Sooner(s, S, c) = Before(InList(s), S, c)
  BY DEF Sooner, Before, InList
<1> QED
  BY <1>2, <1>3, <1>4, <1>5

(***************************************************************************)
(* The first chunk of a video.                                             *)
(***************************************************************************)
IsFirst(s, v, c) ==
  \E i \in DOMAIN s : /\ s[i] = c /\ VideoOf(c) = v
                      /\ \A j \in DOMAIN s : j < i => VideoOf(s[j]) # v

First(s, v) == CHOOSE c : IsFirst(s, v, c)

\* A video of the list has a first chunk in it.
LEMMA FirstOfVideo ==
  ASSUME NEW s \in Seq(Chunks), NEW v \in VideosIn(s)
  PROVE  IsFirst(s, v, First(s, v))
<1> DEFINE P == {i \in DOMAIN s : VideoOf(s[i]) = v}
<1>1. DOMAIN s = 1..Len(s) /\ Len(s) \in Nat
  OBVIOUS
<1>2. P \in SUBSET Nat /\ P # {} /\ P \in SUBSET (1..Len(s))
  BY <1>1 DEF VideosIn
<1>3. IsFiniteSet(P)
  <2>1. IsFiniteSet(1..Len(s))
    BY <1>1, FS_Interval
  <2> QED
    BY <1>2, <2>1, FS_Subset
<1>4. PICK m \in P : \A k \in P : m <= k
  <2> HIDE DEF P
  <2> QED
    BY <1>2, <1>3, LeastOf
<1>5. \A j \in DOMAIN s : j < m => VideoOf(s[j]) # v
  <2> SUFFICES ASSUME NEW j \in DOMAIN s, j < m, VideoOf(s[j]) = v PROVE FALSE
    OBVIOUS
  <2>1. j \in P
    OBVIOUS
  <2> QED
    BY <1>1, <1>2, <1>4, <2>1
<1>6. IsFirst(s, v, s[m])
  BY <1>5 DEF IsFirst
<1> QED
  BY <1>6 DEF First

\* It is in the list, alone in that, and ahead of every other of its video.
LEMMA FirstIsAhead ==
  ASSUME NEW s \in Seq(Chunks), Distinct(s), NEW v \in VideosIn(s)
  PROVE  /\ First(s, v) \in ToSet(s) /\ First(s, v) \in Chunks /\ VideoOf(First(s, v)) = v
         /\ \A c \in ToSet(s) : VideoOf(c) = v /\ c # First(s, v) =>
               <<First(s, v), c>> \in InList(s)
         /\ \A c : <<c, First(s, v)>> \in InList(s) => VideoOf(c) # v
<1> DEFINE f == First(s, v)
<1>1. PICK i \in DOMAIN s : /\ s[i] = f /\ VideoOf(f) = v
                            /\ \A j \in DOMAIN s : j < i => VideoOf(s[j]) # v
  BY FirstOfVideo DEF IsFirst
<1> HIDE DEF f
<1>2. DOMAIN s \in SUBSET Nat
  OBVIOUS
<1>3. f \in ToSet(s) /\ f \in Chunks
  BY <1>1 DEF ToSet
<1>4. ASSUME NEW c \in ToSet(s), VideoOf(c) = v, c # f PROVE <<f, c>> \in InList(s)
  <2>1. PICK j \in DOMAIN s : s[j] = c
    BY DEF ToSet
  <2>2. ~(j < i) /\ j # i
    BY <1>1, <1>4, <2>1
  <2>3. i < j
    BY <1>2, <2>2
  <2> QED
    BY <1>1, <1>3, <2>1, <2>3 DEF InList
<1>5. ASSUME NEW c, <<c, f>> \in InList(s) PROVE VideoOf(c) # v
  <2>1. PICK j, k \in DOMAIN s : j < k /\ s[j] = c /\ s[k] = f
    BY <1>5 DEF InList
  <2>2. k = i
    BY <1>1, <2>1 DEF Distinct
  <2> QED
    BY <1>1, <2>1, <2>2
<1> QED
  BY <1>1, <1>3, <1>4, <1>5 DEF f

(***************************************************************************)
(* The breadth pass of chooseExcerpts.                                     *)
(***************************************************************************)
Readable(list, rows) == {c \in ToSet(list) : VideoOf(c) \in rows}

\* The first chunk of every video that can be read.
Firstlings(list, rows) == {First(list, v) : v \in VideosIn(list) \cap rows}

Breadth(list, rows) ==
  TakePass(list, Candidates(list, Readable(list, rows)), {}, 1, AnswerBreadthSources)

\* The video of a hit is a video of the list.
LEMMA VideosOfHits ==
  ASSUME NEW list \in Seq(Chunks), NEW c \in ToSet(list)
  PROVE  VideoOf(c) \in VideosIn(list)
BY DEF ToSet, VideosIn

\* The first chunk of a readable video repeats no moment, so it may be quoted.
LEMMA FirstlingsAreCandidates ==
  ASSUME NEW list \in Seq(Chunks), Distinct(list), NEW rows,
         NEW v \in VideosIn(list) \cap rows
  PROVE  First(list, v) \in Candidates(list, Readable(list, rows))
<1> DEFINE R == Readable(list, rows)
           seen == ToSet(list) \cap R
           f == First(list, v)
<1>1. f \in ToSet(list) /\ VideoOf(f) = v /\ \A c : <<c, f>> \in InList(list) => VideoOf(c) # v
  BY FirstIsAhead
<1> HIDE DEF f
<1>2. f \in seen
  BY <1>1 DEF Readable
<1>3. \A d \in Sooner(list, seen, f) : ~SameMoment(d, f)
  <2>1. \A d \in Sooner(list, seen, f) : <<d, f>> \in InList(list)
    BY <1>2 DEF Sooner, InList, ToSet
  <2> QED
    BY <1>1, <2>1 DEF SameMoment
<1>4. f \in Candidates(list, R)
  BY <1>2, <1>3 DEF Candidates
<1> QED
  BY <1>4 DEF f

\* Where nothing is taken, nothing is taken of a video.
LEMMA NothingTaken ==
  ASSUME NEW v
  PROVE  Cardinality(OfVideo({}, v)) = 0
<1>1. OfVideo({}, v) = {}
  BY DEF OfVideo
<1> QED
  BY <1>1, FS_EmptySet

\* It takes the first chunks of videos, in order, to the breadth there is room for.
LEMMA BreadthIsFirstlings ==
  ASSUME NEW list \in Seq(Chunks), Distinct(list), NEW rows
  PROVE  Breadth(list, rows) =
           {c \in Firstlings(list, rows) :
              Cardinality(Sooner(list, Firstlings(list, rows), c)) < AnswerBreadthSources}
<1> DEFINE cands == Candidates(list, Readable(list, rows))
           Had(c) == Cardinality(OfVideo({}, VideoOf(c)))
                     + Cardinality(OfVideo(Sooner(list, cands, c), VideoOf(c)))
           within == {c \in cands : Had(c) < 1}
<1>1. /\ cands \in SUBSET ToSet(list) /\ IsFiniteSet(cands)
      /\ \A c \in cands : VideoOf(c) \in rows /\ Sooner(list, cands, c) = Before(InList(list), cands, c)
  <2>1. cands \in SUBSET ToSet(list) /\ \A c \in cands : VideoOf(c) \in rows
    BY DEF Candidates, Readable
  <2> HIDE DEF cands
  <2> QED
    BY <2>1, ListOrders
<1> HIDE DEF cands
<1>2. ASSUME NEW c \in cands
      PROVE  Had(c) < 1 <=> \A d \in cands : <<d, c>> \in InList(list) => VideoOf(d) # VideoOf(c)
  <2> DEFINE X == OfVideo(Sooner(list, cands, c), VideoOf(c))
  <2>1. X = {d \in cands : <<d, c>> \in InList(list) /\ VideoOf(d) = VideoOf(c)}
    BY <1>1 DEF OfVideo, Before
  <2>2. IsFiniteSet(X) /\ Cardinality(X) \in Nat
    BY <1>1, <2>1, FS_Subset, FS_CardinalityType
  <2>3. Had(c) = Cardinality(X)
    BY <2>2, NothingTaken
  <2>4. Had(c) < 1 <=> X = {}
    BY <2>2, <2>3, FS_EmptySet
  <2> QED
    BY <2>1, <2>4
<1>3. within = Firstlings(list, rows)
  <2>1. ASSUME NEW v \in VideosIn(list) \cap rows PROVE First(list, v) \in within
    <3>1. First(list, v) \in cands
      BY FirstlingsAreCandidates DEF cands
    <3>2. VideoOf(First(list, v)) = v
          /\ \A d : <<d, First(list, v)>> \in InList(list) => VideoOf(d) # v
      BY FirstIsAhead
    <3> QED
      BY <1>2, <3>1, <3>2
  <2>2. ASSUME NEW c \in within PROVE c \in Firstlings(list, rows)
    <3> DEFINE v == VideoOf(c)
    <3>1. c \in cands /\ c \in ToSet(list) /\ v \in VideosIn(list) \cap rows
      BY <1>1, VideosOfHits
    <3>2. First(list, v) \in cands
      BY <3>1, FirstlingsAreCandidates DEF cands
    <3>3. /\ VideoOf(First(list, v)) = v
          /\ c # First(list, v) => <<First(list, v), c>> \in InList(list)
      BY <3>1, FirstIsAhead
    <3>4. c = First(list, v)
      BY <1>2, <3>1, <3>2, <3>3
    <3> QED
      BY <3>1, <3>4 DEF Firstlings
  <2> QED
    BY <2>1, <2>2 DEF Firstlings
<1>4. cands \ {} = cands
  OBVIOUS
<1>5. Breadth(list, rows) =
        {c \in within : Cardinality({}) + Cardinality(Sooner(list, within, c)) < AnswerBreadthSources}
  BY <1>4 DEF Breadth, TakePass, cands
<1>6. Firstlings(list, rows) \in SUBSET ToSet(list)
  BY <1>1, <1>3
<1> HIDE DEF within
<1>7. ASSUME NEW c \in Firstlings(list, rows)
      PROVE  Cardinality(Sooner(list, Firstlings(list, rows), c)) \in Nat
  BY <1>6, ListOrders, PlaceBound
<1>8. \A n \in Nat : Cardinality({}) + n = n
  BY FS_EmptySet
<1> QED
  BY <1>3, <1>5, <1>7, <1>8

\* As many videos are quoted as can be read, up to the breadth there is room for.
LEMMA BreadthOfVideos ==
  ASSUME NEW list \in Seq(Chunks), Distinct(list), NEW rows, VideosIn(list) \subseteq rows,
         NEW excerpts \in SUBSET Chunks, Breadth(list, rows) \subseteq excerpts
  PROVE  /\ Cardinality({VideoOf(c) : c \in excerpts})
              >= IF Cardinality(VideosIn(list)) < AnswerBreadthSources
                 THEN Cardinality(VideosIn(list)) ELSE AnswerBreadthSources
         /\ list # <<>> => list[1] \in excerpts
<1> DEFINE V == VideosIn(list)
           F == Firstlings(list, rows)
           B == Breadth(list, rows)
           quoted == {VideoOf(c) : c \in excerpts}
           f == [v \in V |-> First(list, v)]
           g == [c \in B |-> VideoOf(c)]
<1>1. F = {First(list, v) : v \in V}
  BY DEF Firstlings
<1>2. \A v \in V : First(list, v) \in ToSet(list) /\ VideoOf(First(list, v)) = v
  BY FirstIsAhead
<1>3. F \in SUBSET ToSet(list)
  BY <1>1, <1>2
<1>4. /\ IsFiniteSet(F) /\ Orders(InList(list), F)
      /\ \A c \in F : Sooner(list, F, c) = Before(InList(list), F, c)
  BY <1>3, ListOrders
<1>5. AnswerBreadthSources \in Nat /\ AnswerBreadthSources > 0
  BY LimitsAssumption
<1>6. B = {c \in F : Cardinality(Sooner(list, F, c)) < AnswerBreadthSources}
  BY BreadthIsFirstlings
<1>7. f \in [V -> F] /\ \A v, w \in V : f[v] = f[w] => v = w
  BY <1>1, <1>2
<1>8. quoted \in SUBSET Videos
  BY ChunksAreFinite
<1>9. IsFiniteSet(quoted) /\ Cardinality(quoted) \in Nat
  BY <1>8, IndexAssumption, FS_Subset, FS_CardinalityType
<1> HIDE DEF V, F, B, f, quoted
<1>10. IsFiniteSet(V) /\ Cardinality(V) <= Cardinality(F) /\ Cardinality(V) \in Nat
  BY <1>4, <1>7, NoMoreThan, FS_CardinalityType
<1>11. B = Foremost(InList(list), F, AnswerBreadthSources)
  BY <1>4, <1>6 DEF Foremost
<1>12. /\ Cardinality(F) \in Nat /\ Cardinality(B) \in Nat
       /\ Cardinality(B) = IF AnswerBreadthSources <= Cardinality(F)
                           THEN AnswerBreadthSources ELSE Cardinality(F)
  BY <1>4, <1>5, <1>11, FirstPlaces
<1>13. B \in SUBSET F /\ B \in SUBSET excerpts
  <2>1. B \subseteq excerpts
    BY DEF B
  <2> QED
    BY <1>11, <2>1 DEF Foremost
<1>14. g \in [B -> quoted]
  BY <1>13 DEF quoted
<1>15. \A c, d \in B : g[c] = g[d] => c = d
  BY <1>1, <1>2, <1>13
<1>16. Cardinality(B) <= Cardinality(quoted)
  <2> HIDE DEF g
  <2> QED
    BY <1>9, <1>14, <1>15, NoMoreThan
<1>17. ASSUME list # <<>> PROVE list[1] \in excerpts
  <2> DEFINE h == list[1]
             v == VideoOf(h)
  <2>1. 1 \in DOMAIN list /\ DOMAIN list \in SUBSET (Nat \ {0})
    BY <1>17
  <2>2. h \in ToSet(list) /\ v \in V
    BY <2>1 DEF ToSet, VideosIn, V
  <2>3. \A c : <<c, h>> \notin InList(list)
    BY <2>1 DEF InList, Distinct
  <2>4. h = First(list, v)
    BY <2>2, <2>3, FirstIsAhead DEF V
  <2>5. h \in F
    BY <1>1, <2>2, <2>4
  <2> HIDE DEF h
  <2>6. Before(InList(list), F, h) = {}
    BY <2>3 DEF Before
  <2>7. h \in B
    BY <1>5, <1>11, <2>5, <2>6, FS_EmptySet DEF Foremost
  <2> QED
    BY <1>13, <2>7 DEF h
<1> QED
  BY <1>5, <1>9, <1>10, <1>12, <1>16, <1>17 DEF V, quoted

(***************************************************************************)
(* The depth pass: a quoted video is among the first.                      *)
(***************************************************************************)
\* An excerpt is a hit that could be read.
LEMMA Excerpts ==
  ASSUME NEW list, NEW readable, NEW compare
  PROVE  ChooseExcerpts(list, readable, compare) \subseteq ToSet(list) \cap readable
BY DEF ChooseExcerpts, TakePass, Candidates

\* Without a comparison, chooseExcerpts is the depth pass after the breadth pass.
LEMMA DepthPass ==
  ASSUME NEW list, NEW rows
  PROVE  ChooseExcerpts(list, Readable(list, rows), FALSE) =
           TakePass(list, Candidates(list, Readable(list, rows)), Breadth(list, rows),
                    AnswerMaxSourcesPerVideo, AnswerMaxSources)
BY DEF ChooseExcerpts, Breadth

\* A video that leads that of c has its first chunk before c.
LEMMA LeadsMeansSooner ==
  ASSUME NEW list \in Seq(Chunks), Distinct(list), NEW w \in VideosIn(list),
         NEW c \in ToSet(list), Leads(list, w, VideoOf(c))
  PROVE  <<First(list, w), c>> \in InList(list)
<1>1. PICK i \in DOMAIN list : VideoOf(list[i]) = w /\ \A j \in 1..i : VideoOf(list[j]) # VideoOf(c)
  BY DEF Leads
<1>2. PICK k \in DOMAIN list : list[k] = c
  BY DEF ToSet
<1>3. PICK m \in DOMAIN list : /\ list[m] = First(list, w)
                               /\ \A j \in DOMAIN list : j < m => VideoOf(list[j]) # w
  BY FirstOfVideo DEF IsFirst
<1>4. DOMAIN list \in SUBSET (Nat \ {0})
  OBVIOUS
<1>5. ~(i < m) /\ ~(k <= i)
  BY <1>1, <1>2, <1>3, <1>4
<1>6. m < k
  BY <1>4, <1>5
<1>7. First(list, w) \in ToSet(list)
  BY FirstIsAhead
<1> QED
  BY <1>2, <1>3, <1>6, <1>7 DEF InList

\* A quoted video is led by fewer videos than there are sources: every one of them
\* had a chunk taken, in one pass or the other, before it.
LEMMA FewLeadTheQuoted ==
  ASSUME NEW list \in Seq(Chunks), Distinct(list), NEW rows,
         NEW listable, listable \subseteq VideosIn(list) \cap rows,
         NEW c \in ChooseExcerpts(list, Readable(list, rows), FALSE)
  PROVE  LET leading == {w \in listable : Leads(list, w, VideoOf(c))}
         IN  IsFiniteSet(leading) /\ Cardinality(leading) < AnswerMaxSources
<1> DEFINE leading == {w \in listable : Leads(list, w, VideoOf(c))}
           F == Firstlings(list, rows)
           B == Breadth(list, rows)
           cands == Candidates(list, Readable(list, rows))
           open == cands \ B
           Had(d) == Cardinality(OfVideo(B, VideoOf(d)))
                     + Cardinality(OfVideo(Sooner(list, open, d), VideoOf(d)))
           within == {d \in open : Had(d) < AnswerMaxSourcesPerVideo}
           f == [w \in leading |-> First(list, w)]
<1>1. /\ AnswerBreadthSources \in Nat /\ AnswerMaxSources \in Nat
      /\ AnswerBreadthSources <= AnswerMaxSources
      /\ AnswerMaxSourcesPerVideo \in Nat /\ 0 < AnswerMaxSourcesPerVideo
  BY LimitsAssumption
<1>2. cands \in SUBSET ToSet(list)
  BY DEF Candidates
<1>3. B = {d \in F : Cardinality(Sooner(list, F, d)) < AnswerBreadthSources}
  BY BreadthIsFirstlings
<1>4. ASSUME NEW w \in leading
      PROVE  /\ w \in VideosIn(list) \cap rows
             /\ First(list, w) \in F /\ First(list, w) \in cands
             /\ VideoOf(First(list, w)) = w
             /\ <<First(list, w), c>> \in InList(list)
  <2>1. w \in VideosIn(list) \cap rows /\ Leads(list, w, VideoOf(c))
    OBVIOUS
  <2>2. c \in ToSet(list)
    BY Excerpts
  <2>3. First(list, w) \in F
    BY <2>1 DEF Firstlings
  <2>4. First(list, w) \in cands
    BY <2>1, FirstlingsAreCandidates
  <2> QED
    BY <2>1, <2>2, <2>3, <2>4, FirstIsAhead, LeadsMeansSooner
<1>5. \A v, w \in leading : f[v] = f[w] => v = w
  <2>1. \A w \in leading : f[w] = First(list, w) /\ VideoOf(First(list, w)) = w
    BY <1>4
  <2> QED
    BY <2>1
<1>6. ChooseExcerpts(list, Readable(list, rows), FALSE) =
        B \cup {d \in within :
                  Cardinality(B) + Cardinality(Sooner(list, within, d)) < AnswerMaxSources}
  BY DepthPass DEF TakePass
<1>7. F \in SUBSET ToSet(list)
  BY FirstIsAhead DEF Firstlings
<1> HIDE DEF leading, F, B, cands, f
<1>8. CASE c \in B
  <2>1. c \in F /\ Cardinality(Sooner(list, F, c)) < AnswerBreadthSources
    BY <1>3, <1>8
  <2>2. IsFiniteSet(F) /\ Orders(InList(list), F) /\ Sooner(list, F, c) = Before(InList(list), F, c)
    BY <1>7, <2>1, ListOrders
  <2>3. IsFiniteSet(Sooner(list, F, c)) /\ Cardinality(Sooner(list, F, c)) \in Nat
    BY <2>1, <2>2, PlaceBound
  <2>4. f \in [leading -> Sooner(list, F, c)]
    BY <1>4, <2>2 DEF f, Before
  <2>5. IsFiniteSet(leading) /\ Cardinality(leading) <= Cardinality(Sooner(list, F, c))
    BY <1>5, <2>3, <2>4, NoMoreThan
  <2> QED
    BY <1>1, <2>1, <2>3, <2>5, FS_CardinalityType DEF leading
<1>9. CASE c \notin B
  <2> DEFINE before == Sooner(list, within, c)
  <2>1. c \in within /\ Cardinality(B) + Cardinality(before) < AnswerMaxSources
    BY <1>6, <1>9
  <2>2. within \in SUBSET ToSet(list) /\ B \in SUBSET ToSet(list) /\ open \in SUBSET ToSet(list)
    BY <1>2, <1>3, <1>7
  <2>3. IsFiniteSet(B) /\ Cardinality(B) \in Nat
    BY <2>2, ListOrders, FS_CardinalityType
  <2>4. \A d \in open : Sooner(list, open, d) = Before(InList(list), open, d)
    BY <2>2, ListOrders
  <2>5. ASSUME NEW w \in leading, First(list, w) \notin B
        PROVE  First(list, w) \in within
    <3> DEFINE d == First(list, w)
    <3>1. d \in open /\ VideoOf(d) = w
      BY <1>4, <2>5
    <3>2. OfVideo(B, w) = {}
      <4>1. ASSUME NEW e \in B, VideoOf(e) = w PROVE FALSE
        <5>1. PICK v \in VideosIn(list) \cap rows : e = First(list, v)
          BY <1>3 DEF F, Firstlings
        <5>2. v = w
          BY <4>1, <5>1, FirstIsAhead
        <5> QED
          BY <2>5, <5>1, <5>2
      <4> QED
        BY <4>1 DEF OfVideo
    <3>3. OfVideo(Sooner(list, open, d), w) = {}
      <4>1. \A e : <<e, d>> \in InList(list) => VideoOf(e) # w
        BY <1>4, FirstIsAhead
      <4> QED
        BY <2>4, <3>1, <4>1 DEF OfVideo, Before
    <3>4. Had(d) = 0
      <4>1. /\ Cardinality(OfVideo(B, VideoOf(d))) = 0
            /\ Cardinality(OfVideo(Sooner(list, open, d), VideoOf(d))) = 0
        BY <3>1, <3>2, <3>3, FS_EmptySet
      <4> QED
        BY <4>1
    <3> QED
      BY <1>1, <3>1, <3>4
  <2> HIDE DEF within, open
  <2>6. /\ IsFiniteSet(within) /\ Orders(InList(list), within)
        /\ before = Before(InList(list), within, c)
    BY <2>1, <2>2, ListOrders
  <2>7. IsFiniteSet(before) /\ Cardinality(before) \in Nat
    BY <2>1, <2>6, PlaceBound
  <2>8. f \in [leading -> B \cup before]
    BY <1>4, <2>5, <2>6 DEF f, Before
  <2>9. IsFiniteSet(B \cup before) /\ Cardinality(B \cup before) <= Cardinality(B) + Cardinality(before)
    <3> HIDE DEF before
    <3>1. IsFiniteSet(B \cap before) /\ Cardinality(B \cap before) \in Nat
      BY <2>3, FS_Intersection, FS_CardinalityType
    <3>2. IsFiniteSet(B \cup before)
          /\ Cardinality(B \cup before)
               = Cardinality(B) + Cardinality(before) - Cardinality(B \cap before)
      BY <2>3, <2>7, FS_Union
    <3> QED
      BY <2>3, <2>7, <3>1, <3>2
  <2>10. IsFiniteSet(leading) /\ Cardinality(leading) <= Cardinality(B \cup before)
    <3> HIDE DEF before
    <3> QED
      BY <1>5, <2>8, <2>9, NoMoreThan
  <2>11. Cardinality(leading) \in Nat /\ Cardinality(B \cup before) \in Nat
    BY <2>9, <2>10, FS_CardinalityType
  <2> HIDE DEF before
  <2> QED
    BY <1>1, <2>1, <2>3, <2>7, <2>9, <2>10, <2>11 DEF leading
<1> QED
  BY <1>8, <1>9

(***************************************************************************)
(* The list beside the answer.                                             *)
(***************************************************************************)
\* A listable video that coverageVideos leaves out is left out for the cap alone.
LEMMA CoverageIsFull ==
  ASSUME NEW list \in Seq(Chunks), NEW relevant, NEW readable,
         NEW v \in VideosIn(list) \cap relevant \cap readable,
         v \notin CoverageVideos(list, relevant, readable)
  PROVE  /\ Cardinality(CoverageVideos(list, relevant, readable)) = CoverageMaxVideos
         /\ ~(Cardinality({w \in VideosIn(list) \cap relevant \cap readable : Leads(list, w, v)})
                < CoverageMaxVideos)
<1> DEFINE L == VideosIn(list) \cap relevant \cap readable
           R == {p \in L \X L : Leads(list, p[1], p[2])}
           C == CoverageVideos(list, relevant, readable)
<1>1. VideosIn(list) \in SUBSET Videos
  BY ChunksAreFinite DEF VideosIn
<1>2. IsFiniteSet(L)
  BY <1>1, IndexAssumption, FS_Subset
<1>3. CoverageMaxVideos \in Nat
  BY LimitsAssumption
<1>4. DOMAIN list \in SUBSET (Nat \ {0})
  OBVIOUS
<1>5. Orders(R, L)
  <2>1. ASSUME NEW w \in L PROVE ~Leads(list, w, w)
    BY <1>4 DEF Leads
  <2>2. ASSUME NEW w \in L, NEW x \in L, w # x PROVE Leads(list, w, x) \/ Leads(list, x, w)
    <3>1. PICK i \in DOMAIN list : /\ VideoOf(list[i]) = w
                                   /\ \A j \in DOMAIN list : j < i => VideoOf(list[j]) # w
      BY FirstOfVideo DEF IsFirst
    <3>2. PICK k \in DOMAIN list : /\ VideoOf(list[k]) = x
                                   /\ \A j \in DOMAIN list : j < k => VideoOf(list[j]) # x
      BY FirstOfVideo DEF IsFirst
    <3>3. i # k
      BY <2>2, <3>1, <3>2
    <3>4. ASSUME i < k PROVE Leads(list, w, x)
      <4>1. \A j \in 1..i : j \in DOMAIN list /\ j < k
        BY <1>4, <3>4
      <4> QED
        BY <3>1, <3>2, <4>1 DEF Leads
    <3>5. ASSUME k < i PROVE Leads(list, x, w)
      <4>1. \A j \in 1..k : j \in DOMAIN list /\ j < i
        BY <1>4, <3>5
      <4> QED
        BY <3>1, <3>2, <4>1 DEF Leads
    <3> QED
      BY <1>4, <3>3, <3>4, <3>5
  <2>3. ASSUME NEW w \in L, NEW x \in L, NEW y \in L, Leads(list, w, x), Leads(list, x, y)
        PROVE  Leads(list, w, y)
    <3>1. PICK i \in DOMAIN list : VideoOf(list[i]) = w /\ \A j \in 1..i : VideoOf(list[j]) # x
      BY <2>3 DEF Leads
    <3>2. PICK k \in DOMAIN list : VideoOf(list[k]) = x /\ \A j \in 1..k : VideoOf(list[j]) # y
      BY <2>3 DEF Leads
    <3>3. ~(k <= i)
      BY <1>4, <3>1, <3>2
    <3>4. \A j \in 1..i : j \in 1..k
      BY <1>4, <3>3
    <3> QED
      BY <3>1, <3>2, <3>4 DEF Leads
  <2> QED
    BY <2>1, <2>2, <2>3 DEF Orders
<1>6. ASSUME NEW x \in L
      PROVE  Before(R, L, x) = {w \in L : Leads(list, w, x)}
  BY DEF Before
<1>7. C = {x \in L : Cardinality({w \in L : Leads(list, w, x)}) < CoverageMaxVideos}
  BY DEF CoverageVideos
<1> HIDE DEF L, R, C
<1>8. C = Foremost(R, L, CoverageMaxVideos)
  BY <1>6, <1>7 DEF Foremost
<1>9. /\ Cardinality(L) \in Nat
      /\ Cardinality(C) = IF CoverageMaxVideos <= Cardinality(L)
                          THEN CoverageMaxVideos ELSE Cardinality(L)
  BY <1>2, <1>3, <1>5, <1>8, FirstPlaces
<1>10. v \in L /\ v \notin C
  BY DEF L, C
<1>11. /\ Cardinality(Before(R, L, v)) \in Nat
       /\ Cardinality(Before(R, L, v)) < Cardinality(L)
       /\ ~(Cardinality(Before(R, L, v)) < CoverageMaxVideos)
  BY <1>2, <1>5, <1>8, <1>10, PlaceBound DEF Foremost
<1>12. Cardinality(C) = CoverageMaxVideos
  BY <1>3, <1>9, <1>11
<1>13. ~(Cardinality({w \in L : Leads(list, w, v)}) < CoverageMaxVideos)
  BY <1>6, <1>10, <1>11
<1> QED
  BY <1>12, <1>13 DEF L, C

(***************************************************************************)
(* The moments of a search.                                                *)
(***************************************************************************)
\* groupHits shows something as soon as one hit can be read.
LEMMA SomethingIsShown ==
  ASSUME NEW list \in Seq(Chunks), Distinct(list), NEW readable, NEW max \in Nat \ {0},
         NEW c \in ToSet(list), VideoOf(c) \in readable
  PROVE  GroupHits(list, readable, max) # {}
<1> DEFINE P == {i \in DOMAIN list : VideoOf(list[i]) \in readable}
           seen == {d \in ToSet(list) : VideoOf(d) \in readable}
           leading == {d \in seen : OfVideo(Sooner(list, seen, d), VideoOf(d)) = {}}
           shown == {VideoOf(d) : d \in {e \in leading :
                                          Cardinality(Sooner(list, leading, e)) < max}}
           moments == {d \in seen : \A e \in Sooner(list, seen, d) : ~Repeats(e, d)}
<1>1. DOMAIN list = 1..Len(list) /\ Len(list) \in Nat
  OBVIOUS
<1>2. P \in SUBSET Nat /\ P # {} /\ P \in SUBSET (1..Len(list))
  BY <1>1 DEF ToSet
<1>3. IsFiniteSet(P)
  <2>1. IsFiniteSet(1..Len(list))
    BY <1>1, FS_Interval
  <2> QED
    BY <1>2, <2>1, FS_Subset
<1>4. PICK m \in P : \A k \in P : m <= k
  <2> HIDE DEF P
  <2> QED
    BY <1>2, <1>3, LeastOf
<1> DEFINE b == list[m]
<1>5. b \in seen
  BY <1>4 DEF ToSet
<1>6. ASSUME NEW S, S \subseteq seen PROVE Sooner(list, S, b) = {}
  <2> SUFFICES ASSUME NEW d \in S, NEW i \in DOMAIN list, NEW j \in DOMAIN list,
                      i < j, list[i] = d, list[j] = b
               PROVE  FALSE
    BY DEF Sooner
  <2>1. j = m
    BY <1>4 DEF Distinct
  <2>2. i \in P
    BY <1>6
  <2> QED
    BY <1>1, <1>2, <1>4, <2>1, <2>2
<1> HIDE DEF b
<1>7. b \in leading /\ b \in moments
  BY <1>5, <1>6 DEF OfVideo
<1>8. Cardinality({}) = 0 /\ max > 0 /\ MaxMatchesPerVideo \in Nat /\ MaxMatchesPerVideo > 0
  BY FS_EmptySet, LimitsAssumption
<1>9. Sooner(list, leading, b) = {} /\ Sooner(list, moments, b) = {}
  BY <1>6
<1>10. VideoOf(b) \in shown
  <2>1. Cardinality(Sooner(list, leading, b)) < max
    BY <1>8, <1>9
  <2> QED
    BY <1>7, <2>1
<1>11. Cardinality(OfVideo(Sooner(list, moments, b), VideoOf(b))) < MaxMatchesPerVideo
  BY <1>8, <1>9, NothingTaken
<1>12. b \in GroupHits(list, readable, max)
  BY <1>7, <1>10, <1>11 DEF GroupHits
<1> QED
  BY <1>12

\* groupHits shows only hits.
LEMMA ShownWasFound ==
  ASSUME NEW list \in Seq(Chunks), NEW readable, NEW max
  PROVE  GroupHits(list, readable, max) \subseteq ToSet(list)
BY DEF GroupHits

(***************************************************************************)
(* Types.                                                                  *)
(***************************************************************************)
MeaningType == [Chunks -> [rung : Nat, raw : Nat, topic : Nat]]
WatchedType == {r.watched : r \in Replies} \cup {""}
ReplyType ==
  [topic : BOOLEAN, names : SUBSET DOMAIN Spelling, watched : WatchedType, counting : BOOLEAN]
ScopeType == [ids : SUBSET Channels, unresolved : BOOLEAN, ambiguous : BOOLEAN]
FilterType == [channels : SUBSET Channels, unwatched : BOOLEAN]

FrameType == {"progress", "sources", "note", "token", "nothing", "error", "trace", "done",
              "list", "refused", "no videos yet", "failed"}

TypeInv ==
  /\ TypeOK
  /\ meaning \in MeaningType /\ understood \in ReplyType /\ scope \in ScopeType
  /\ lanes \in Seq(LaneType) /\ hits \in Seq(Chunks) /\ Distinct(hits)
  /\ chosen \subseteq ToSet(hits)
  /\ frames \in Seq(FrameType)
  /\ step = "ladder" => rung \in DOMAIN Ladder

\* One list after the other.
LEMMA Joined ==
  ASSUME NEW S, NEW s \in Seq(S), NEW t \in Seq(S)
  PROVE  s \o t \in Seq(S) /\ Len(s \o t) = Len(s) + Len(t)
OBVIOUS

Rungs == 1..4

\* BuildFTSQueries builds at most four rungs, each with a weight.
LEMMA LadderType ==
  /\ Ladder \in Seq(Rungs) /\ Len(Ladder) \in 0..4
  /\ \A k \in DOMAIN Ladder : Ladder[k] \in 1..4 /\ Weight[Ladder[k]] \in Nat
<1> DEFINE R(n, present) == IF present THEN <<n>> ELSE <<>>
           q == Question
           a == R(StrictRung, q.stop \/ q.content > 0)
           b == R(ContentRung, q.content > 0 /\ q.stop)
           c == R(PrefixRung, q.content > 0 /\ q.long)
           d == R(AnyRung, q.content > 1)
<1>1. ASSUME NEW n \in Rungs, NEW p PROVE R(n, p) \in Seq(Rungs) /\ Len(R(n, p)) \in 0..1
  <2>1. CASE p
    <3>1. R(n, p) = <<n>>
      BY <2>1
    <3>2. <<n>> \in Seq(Rungs) /\ Len(<<n>>) = 1
      OBVIOUS
    <3> QED
      BY <3>1, <3>2
  <2>2. CASE ~p
    <3>1. R(n, p) = <<>>
      BY <2>2
    <3>2. <<>> \in Seq(Rungs) /\ Len(<<>>) = 0
      OBVIOUS
    <3> QED
      BY <3>1, <3>2
  <2> QED
    BY <2>1, <2>2
<1>2. StrictRung \in Rungs /\ ContentRung \in Rungs /\ PrefixRung \in Rungs /\ AnyRung \in Rungs
  BY DEF StrictRung, ContentRung, PrefixRung, AnyRung, Rungs
<1> HIDE DEF R
<1>3. /\ a \in Seq(Rungs) /\ b \in Seq(Rungs) /\ c \in Seq(Rungs) /\ d \in Seq(Rungs)
      /\ Len(a) \in 0..1 /\ Len(b) \in 0..1 /\ Len(c) \in 0..1 /\ Len(d) \in 0..1
  BY <1>1, <1>2
<1> DEFINE ab == a \o b
           abc == ab \o c
<1>4. Ladder = abc \o d
  BY DEF Ladder, BuildFTSQueries, R
<1> HIDE DEF a, b, c, d
<1>5. ab \in Seq(Rungs) /\ Len(ab) \in 0..2
  <2>1. ab \in Seq(Rungs) /\ Len(ab) = Len(a) + Len(b)
    BY <1>3, Joined, Zenon
  <2>2. Len(a) \in 0..1 /\ Len(b) \in 0..1
    BY <1>3
  <2>3. \A m \in 0..1 : \A n \in 0..1 : m + n \in 0..2
    OBVIOUS
  <2> QED
    BY <2>1, <2>2, <2>3
<1> HIDE DEF ab
<1>6. abc \in Seq(Rungs) /\ Len(abc) \in 0..3
  <2>1. abc \in Seq(Rungs) /\ Len(abc) = Len(ab) + Len(c)
    BY <1>3, <1>5, Joined, Zenon
  <2>2. Len(ab) \in 0..2 /\ Len(c) \in 0..1
    BY <1>3, <1>5
  <2>3. \A m \in 0..2 : \A n \in 0..1 : m + n \in 0..3
    OBVIOUS
  <2> QED
    BY <2>1, <2>2, <2>3
<1> HIDE DEF abc
<1>7. Ladder \in Seq(Rungs) /\ Len(Ladder) \in 0..4
  <2>1. Ladder \in Seq(Rungs) /\ Len(Ladder) = Len(abc) + Len(d)
    BY <1>3, <1>4, <1>6, Joined, Zenon
  <2>2. Len(abc) \in 0..3 /\ Len(d) \in 0..1
    BY <1>3, <1>6
  <2>3. \A m \in 0..3 : \A n \in 0..1 : m + n \in 0..4
    OBVIOUS
  <2> QED
    BY <2>1, <2>2, <2>3
<1>8. \A k \in DOMAIN Ladder : Ladder[k] \in Rungs
  BY <1>7
<1>9. \A r \in Rungs : r \in 1..4 /\ Weight[r] \in Nat
  BY DEF Weight, Rungs
<1> QED
  BY <1>7, <1>8, <1>9

\* The type of what resolveChannelsIn returns.
LEMMA ResolvedType ==
  ASSUME NEW names
  PROVE  ResolveChannels(names) \in ScopeType
BY DEF ResolveChannels, ScopeType, MatchChannels

\* The type of the filter.
LEMMA FilterBuilt ==
  ASSUME NEW u, NEW ch \in ScopeType
  PROVE  BuildFilter(u, ch) \in FilterType
BY DEF BuildFilter, ScopeType, FilterType

\* A lane that is added adds its hits to what the lanes found.
LEMMA FoundByMore ==
  ASSUME NEW ls \in Seq(LaneType), NEW lane \in LaneType
  PROVE  /\ AddLane(ls, lane) \in Seq(LaneType)
         /\ FoundBy(AddLane(ls, lane)) = FoundBy(ls) \cup ToSet(lane.hits)
         /\ lane.hits # <<>> => AddLane(ls, lane) # <<>>
         /\ ls # <<>> => AddLane(ls, lane) # <<>>
<1>1. CASE lane.hits = <<>>
  <2>1. ToSet(lane.hits) = {}
    BY <1>1 DEF ToSet
  <2> QED
    BY <1>1, <2>1 DEF AddLane
<1>2. CASE lane.hits # <<>>
  <2>1. AddLane(ls, lane) = Append(ls, lane)
    BY <1>2 DEF AddLane
  <2>2. Append(ls, lane) \in Seq(LaneType) /\ Len(Append(ls, lane)) = Len(ls) + 1
    OBVIOUS
  <2>3. /\ DOMAIN Append(ls, lane) = DOMAIN ls \cup {Len(ls) + 1}
        /\ \A i \in DOMAIN ls : Append(ls, lane)[i] = ls[i]
        /\ Append(ls, lane)[Len(ls) + 1] = lane
    OBVIOUS
  <2>4. FoundBy(Append(ls, lane)) = FoundBy(ls) \cup ToSet(lane.hits)
    BY <2>3 DEF FoundBy
  <2>5. Append(ls, lane) # <<>>
    <3>1. Len(ls) \in Nat /\ Len(<<>>) = 0
      OBVIOUS
    <3> QED
      BY <2>2, <3>1
  <2> QED
    BY <2>1, <2>2, <2>4, <2>5
<1> QED
  BY <1>1, <1>2

\* Calls that fail are counted, up to the bound.
LEMMA FaultsCounted ==
  ASSUME faults \in 0..MaxFaults, Works \/ Fails
  PROVE  faults' \in 0..MaxFaults
BY AskAssumption DEF Works, Fails

\* A list and one more.
LEMMA Appended ==
  ASSUME NEW S, NEW s \in Seq(S), NEW x \in S
  PROVE  Append(s, x) \in Seq(S)
OBVIOUS

\* A frame is sent to the end of the stream.
LEMMA FrameSent ==
  ASSUME frames \in Seq(FrameType), NEW f \in FrameType, Send(f)
  PROVE  frames' \in Seq(FrameType)
BY Appended DEF Send

\* The types of the three kinds of lane.
LEMMA LaneTypes ==
  ASSUME NEW s \in Seq(Chunks)
  PROVE  /\ \A r \in DOMAIN Ladder : KeywordLane(s, Ladder[r]) \in LaneType
         /\ RawLane(s) \in LaneType /\ TopicLane(s) \in LaneType
BY LadderType DEF KeywordLane, RawLane, TopicLane, LaneType, WeightSemantic, WeightSemanticTopic

\* Both vector lanes keep to the filter.
LEMMA SemanticLaneHits ==
  ASSUME meaning \in MeaningType
  PROVE  /\ SemanticLane(Raw) \in Seq(Chunks)
         /\ ToSet(SemanticLane(Raw)) \subseteq Admitted(there, Under)
         /\ SemanticLane(Topic) \in Seq(Chunks)
         /\ ToSet(SemanticLane(Topic)) \subseteq Admitted(there, Under)
<1>1. Raw \in [Chunks -> Nat] /\ Topic \in [Chunks -> Nat]
  BY DEF MeaningType, Raw, Topic
<1> QED
  BY <1>1, SemanticHits DEF SemanticLane

\* What the two vector lanes may add to the lanes of the ladder.
LEMMA SemanticLanes ==
  ASSUME TypeInv, Semantic
  PROVE  /\ lanes' \in Seq(LaneType)
         /\ FoundBy(lanes) \subseteq FoundBy(lanes')
         /\ FoundBy(lanes') \subseteq FoundBy(lanes) \cup Admitted(there, Under)
<1> DEFINE raw == RawLane(SemanticLane(Raw))
           topic == TopicLane(IF understood.topic THEN SemanticLane(Topic) ELSE <<>>)
<1>1. lanes' \in {AddLane(AddLane(lanes, raw), topic), AddLane(lanes, topic),
                 AddLane(lanes, raw), lanes}
  BY DEF Semantic
<1>2. lanes \in Seq(LaneType)
  BY DEF TypeInv
<1>3. /\ raw \in LaneType /\ ToSet(raw.hits) \subseteq Admitted(there, Under)
      /\ topic \in LaneType /\ ToSet(topic.hits) \subseteq Admitted(there, Under)
  <2>1. <<>> \in Seq(Chunks) /\ ToSet(<<>>) = {}
    BY DEF ToSet
  <2>2. raw.hits = SemanticLane(Raw)
        /\ topic.hits = IF understood.topic THEN SemanticLane(Topic) ELSE <<>>
    BY DEF RawLane, TopicLane
  <2> QED
    BY <2>1, <2>2, LaneTypes, SemanticLaneHits DEF TypeInv
<1> HIDE DEF raw, topic
<1>4. /\ AddLane(lanes, raw) \in Seq(LaneType)
      /\ FoundBy(AddLane(lanes, raw)) = FoundBy(lanes) \cup ToSet(raw.hits)
  BY <1>2, <1>3, FoundByMore
<1>5. /\ AddLane(lanes, topic) \in Seq(LaneType)
      /\ FoundBy(AddLane(lanes, topic)) = FoundBy(lanes) \cup ToSet(topic.hits)
  BY <1>2, <1>3, FoundByMore
<1>6. /\ AddLane(AddLane(lanes, raw), topic) \in Seq(LaneType)
      /\ FoundBy(AddLane(AddLane(lanes, raw), topic))
           = FoundBy(AddLane(lanes, raw)) \cup ToSet(topic.hits)
  BY <1>3, <1>4, FoundByMore
<1>7. CASE lanes' = AddLane(AddLane(lanes, raw), topic)
  BY <1>3, <1>4, <1>6, <1>7
<1>8. CASE lanes' = AddLane(lanes, topic)
  BY <1>3, <1>5, <1>8
<1>9. CASE lanes' = AddLane(lanes, raw)
  BY <1>3, <1>4, <1>9
<1>10. CASE lanes' = lanes
  BY <1>2, <1>10
<1> QED
  BY <1>1, <1>7, <1>8, <1>9, <1>10

\* What one rung adds.
LEMMA RungLane ==
  ASSUME TypeInv, Rung
  PROVE  LET s == SearchFTS(there, meaning, Ladder[rung], Under)
             lane == KeywordLane(s, Ladder[rung])
         IN  /\ lane \in LaneType /\ lane.hits = s
             /\ ToSet(s) \subseteq Admitted(there, Under)
             /\ AddLane(lanes, lane) \in Seq(LaneType)
             /\ FoundBy(AddLane(lanes, lane)) = FoundBy(lanes) \cup ToSet(s)
<1> DEFINE s == SearchFTS(there, meaning, Ladder[rung], Under)
           lane == KeywordLane(s, Ladder[rung])
<1>1. s \in Seq(Chunks) /\ ToSet(s) \subseteq Admitted(there, Under)
  BY KeywordHits DEF Admitted
<1>2. rung \in DOMAIN Ladder /\ lanes \in Seq(LaneType)
  BY DEF TypeInv, Rung
<1> HIDE DEF s
<1>3. lane \in LaneType /\ lane.hits = s
  BY <1>1, <1>2, LaneTypes DEF KeywordLane
<1> HIDE DEF lane
<1>4. /\ AddLane(lanes, lane) \in Seq(LaneType)
      /\ FoundBy(AddLane(lanes, lane)) = FoundBy(lanes) \cup ToSet(lane.hits)
  BY <1>2, <1>3, FoundByMore
<1> QED
  BY <1>1, <1>3, <1>4 DEF lane, s

\* Frames one after another.
LEMMA FramesJoined ==
  ASSUME NEW s \in Seq(FrameType), NEW t \in Seq(FrameType)
  PROVE  s \o t \in Seq(FrameType)
OBVIOUS

\* The streams of one or two frames that the code sends at once.
LEMMA SomeFrames ==
  /\ <<>> \in Seq(FrameType) /\ <<"sources", "done">> \in Seq(FrameType)
  /\ <<"trace", "done">> \in Seq(FrameType) /\ <<"note">> \in Seq(FrameType)
  /\ <<"nothing">> \in Seq(FrameType) /\ <<"list">> \in Seq(FrameType)
<1>1. /\ "sources" \in FrameType /\ "done" \in FrameType /\ "trace" \in FrameType
      /\ "note" \in FrameType /\ "nothing" \in FrameType /\ "list" \in FrameType
  BY DEF FrameType
<1>2. ASSUME NEW S, NEW x \in S, NEW y \in S
      PROVE  <<>> \in Seq(S) /\ <<x>> \in Seq(S) /\ <<x, y>> \in Seq(S)
  OBVIOUS
<1> QED
  BY <1>1, <1>2, Zenon

\* The types hold at the start.
LEMMA TypeInit ==
  ASSUME Init
  PROVE  TypeInv
<1>1. TypeOK
  <2>1. wired \subseteq {"chat", "embedder"}
    BY AskAssumption DEF Init
  <2>2. faults \in 0..MaxFaults /\ deletes \in 0..MaxDeletes
    BY AskAssumption DEF Init
  <2>3. filter \in [channels : SUBSET Channels, unwatched : BOOLEAN]
    BY DEF Init, WholeLibrary
  <2>4. /\ endpoint \in {"answer", "mcp"} /\ there \subseteq Videos
        /\ pass \in 1..2 /\ rung \in 1..4
    BY DEF Init
  <2>5. /\ keyword \in {"ok", "failed"} /\ vectors \in {"none", "ok", "failed"}
        /\ semantic \in {"unrun", "ran", "failed"} /\ relaxed \in BOOLEAN
    BY DEF Init
  <2>6. chosen \subseteq Chunks /\ coverage \subseteq Videos /\ gone \in BOOLEAN /\ unread \in BOOLEAN
    BY DEF Init
  <2> QED
    BY <2>1, <2>2, <2>3, <2>4, <2>5, <2>6 DEF TypeOK
<1>2. meaning \in MeaningType
  BY AskAssumption DEF Init, MeaningType
<1>3. understood \in ReplyType /\ scope \in ScopeType
  <2>1. NoReply \in ReplyType
    BY DEF NoReply, ReplyType, WatchedType
  <2>2. NoScope \in ScopeType
    BY DEF NoScope, ScopeType
  <2> QED
    BY <2>1, <2>2 DEF Init
<1>4. lanes \in Seq(LaneType) /\ hits \in Seq(Chunks) /\ Distinct(hits)
  BY DEF Init, Distinct
<1>5. chosen \subseteq ToSet(hits) /\ frames \in Seq(FrameType)
  BY SomeFrames DEF Init
<1> QED
  BY <1>1, <1>2, <1>3, <1>4, <1>5 DEF TypeInv, Init

\* The types of what only Understand, Resolve and RunSearch write.
LEMMA RequestTypes ==
  ASSUME TypeInv, [Next]_vars
  PROVE  understood' \in ReplyType /\ scope' \in ScopeType /\ filter' \in FilterType
<1>1. filter \in FilterType /\ understood \in ReplyType /\ scope \in ScopeType
  BY DEF TypeInv, TypeOK, FilterType
<1>2. \A r \in Replies : r \in ReplyType
  BY AskAssumption DEF ReplyType, WatchedType
<1>3. ASSUME NEW r \in ReplyType
      PROVE  Parse(r) \in ReplyType /\ [r EXCEPT !.topic = FALSE, !.counting = FALSE] \in ReplyType
  <2>1. r.watched \in WatchedType /\ "" \in WatchedType
    BY DEF ReplyType, WatchedType
  <2>2. (IF r.watched \in {"", "unwatched"} THEN r.watched ELSE "") \in WatchedType
    BY <2>1
  <2>3. Parse(r) \in ReplyType
    BY <2>2 DEF ReplyType, Parse
  <2>4. [r EXCEPT !.topic = FALSE, !.counting = FALSE] \in ReplyType
    BY DEF ReplyType
  <2> QED
    BY <2>3, <2>4
<1>4. NoScope \in ScopeType
  BY DEF NoScope, ScopeType
<1>5. CASE Understand
  BY <1>1, <1>2, <1>3, <1>5 DEF Understand
<1>6. CASE Resolve
  BY <1>1, <1>4, <1>6, ResolvedType, FilterBuilt DEF Resolve
<1>7. CASE RunSearch
  <2> HIDE DEF ReplyType
  <2>1. PICK r \in Replies :
          /\ understood' = [r EXCEPT !.topic = FALSE, !.counting = FALSE]
          /\ \/ scope' = ResolveChannels(r.names) /\ filter' = BuildFilter(r, scope')
             \/ UNCHANGED <<scope, filter>>
    BY <1>7 DEF RunSearch
  <2> QED
    BY <1>1, <1>2, <1>3, <2>1, ResolvedType, FilterBuilt
<1>8. CASE UNCHANGED request
  BY <1>1, <1>8 DEF request
<1>9. UNCHANGED request \/ Understand \/ Resolve \/ RunSearch
  BY DEF Next, vars, Blank, Search, Rung, Embedded, Semantic, Fuse, Choose, Sources, Note,
       Nothing,
         Unavailable, Token, Written, Close, List, Leave, Delete
<1> QED
  BY <1>5, <1>6, <1>7, <1>8, <1>9

\* The videos of a list of chunks.
LEMMA VideosFound ==
  ASSUME NEW s \in Seq(Chunks)
  PROVE  VideosIn(s) \in SUBSET Videos
<1>1. \A i \in DOMAIN s : s[i] \in Chunks
  OBVIOUS
<1> QED
  BY <1>1, ChunksAreFinite DEF VideosIn

\* The types of what the lanes write.
LEMMA SearchTypes ==
  ASSUME TypeInv, [Next]_vars
  PROVE  /\ pass' \in 1..2 /\ rung' \in 1..4 /\ lanes' \in Seq(LaneType)
         /\ keyword' \in {"ok", "failed"} /\ vectors' \in {"none", "ok", "failed"}
         /\ semantic' \in {"unrun", "ran", "failed"}
         /\ step' = "ladder" => rung' \in DOMAIN Ladder
<1>1. /\ pass \in 1..2 /\ rung \in 1..4 /\ lanes \in Seq(LaneType)
      /\ keyword \in {"ok", "failed"} /\ vectors \in {"none", "ok", "failed"}
      /\ semantic \in {"unrun", "ran", "failed"}
      /\ step = "ladder" => rung \in DOMAIN Ladder
  BY DEF TypeInv, TypeOK
<1>2. Len(Ladder) \in 0..4 /\ DOMAIN Ladder = 1..Len(Ladder)
  BY LadderType
<1>3. CASE Search
  <2>1. Ladder # <<>> => 1 \in DOMAIN Ladder
    BY LadderType
  <2> QED
    BY <1>1, <1>3, <2>1 DEF Search
<1>4. CASE Rung
  <2>1. lanes' \in Seq(LaneType)
    BY <1>1, <1>4, RungLane DEF Rung
  <2>2. rung' = rung \/ (rung # Len(Ladder) /\ rung' = rung + 1)
    BY <1>4 DEF Rung
  <2>3. rung \in 1..Len(Ladder)
    BY <1>1, <1>2, <1>4 DEF Rung
  <2>4. \A n \in 0..4 : \A r \in 1..n : r # n => r + 1 \in 1..n
    OBVIOUS
  <2>5. \A n \in 0..4 : \A r \in 1..n : r \in 1..4
    OBVIOUS
  <2>6. rung' \in 1..Len(Ladder) /\ rung' \in 1..4
    BY <1>2, <2>2, <2>3, <2>4, <2>5
  <2> QED
    BY <1>1, <1>2, <1>4, <2>1, <2>6 DEF Rung
<1>5. CASE Embedded
  BY <1>1, <1>5 DEF Embedded
<1>6. CASE Semantic
  BY <1>1, <1>6, SemanticLanes DEF Semantic
<1>7. CASE Fuse
  BY <1>1, <1>7 DEF Fuse
<1>8. CASE UNCHANGED search /\ (step' = "ladder" => step = "ladder")
  BY <1>1, <1>8 DEF search
<1>9. \/ UNCHANGED search /\ (step' = "ladder" => step = "ladder")
      \/ Search \/ Rung \/ Embedded \/ Semantic \/ Fuse
  BY DEF Next, vars, Understand, Blank, Resolve, RunSearch, Choose, Sources, Note, Nothing,
         Unavailable, Token, Written, Close, List, Leave, Delete, SendOrLeave, world
<1> QED
  BY <1>3, <1>4, <1>5, <1>6, <1>7, <1>8, <1>9

\* The types of what is found.
LEMMA FoundTypes ==
  ASSUME TypeInv, [Next]_vars
  PROVE  /\ hits' \in Seq(Chunks) /\ Distinct(hits') /\ relaxed' \in BOOLEAN
         /\ (step = "fuse" => chosen = {}) => chosen' \subseteq ToSet(hits')
         /\ coverage' \subseteq Videos
<1>1. /\ hits \in Seq(Chunks) /\ Distinct(hits) /\ relaxed \in BOOLEAN
      /\ chosen \subseteq ToSet(hits) /\ coverage \subseteq Videos
  BY DEF TypeInv, TypeOK
<1>2. CASE Fuse
  <2>1. hits' = FuseWeighted(lanes) /\ relaxed' \in BOOLEAN /\ step = "fuse"
        /\ chosen' = chosen /\ coverage' = coverage
    BY <1>2 DEF Fuse, Widened
  <2>2. lanes \in Seq(LaneType)
    BY DEF TypeInv
  <2> QED
    BY <1>1, <2>1, <2>2, Fused
<1>3. CASE Choose
  <2>1. PICK s, read, rel :
          /\ chosen' = ChooseExcerpts(hits, s, Compare)
          /\ coverage' = CoverageVideos(hits, rel, read)
          /\ hits' = hits /\ relaxed' = relaxed
    BY <1>3 DEF Choose
  <2>2. VideosIn(hits) \in SUBSET Videos
    BY <1>1, VideosFound
  <2>3. coverage' \subseteq Videos
    BY <2>1, <2>2 DEF CoverageVideos
  <2> QED
    BY <1>1, <2>1, <2>3, Excerpts
<1>4. CASE List
  <2>1. /\ chosen' = GroupHits(hits, there, MCPVideos) \/ chosen' = chosen
        /\ hits' = hits /\ relaxed' = relaxed /\ coverage' = coverage
    BY <1>4 DEF List
  <2> QED
    BY <1>1, <2>1, ShownWasFound
<1>5. CASE UNCHANGED found
  BY <1>1, <1>5 DEF found
<1>6. UNCHANGED found \/ Fuse \/ Choose \/ List
  BY DEF Next, vars, Understand, Blank, Resolve, RunSearch, Search, Rung, Embedded, Semantic,
         Sources, Note, Nothing, Unavailable, Token, Written, Close, Leave, Delete
<1> QED
  BY <1>2, <1>3, <1>4, <1>5, <1>6

\* The types of the frames, of the world and of what is counted.
LEMMA WorldTypes ==
  ASSUME TypeInv, [Next]_vars
  PROVE  /\ endpoint' = endpoint /\ wired' = wired /\ meaning' = meaning
         /\ there' \subseteq there /\ gone' \in BOOLEAN /\ (gone => gone')
         /\ deletes' \in 0..MaxDeletes /\ unread' \in BOOLEAN
         /\ faults' \in 0..MaxFaults
<1>1. /\ there \subseteq Videos /\ gone \in BOOLEAN /\ deletes \in 0..MaxDeletes
      /\ unread \in BOOLEAN /\ faults \in 0..MaxFaults
  BY DEF TypeInv, TypeOK
<1>2. /\ endpoint' = endpoint /\ wired' = wired /\ meaning' = meaning
      /\ there' \subseteq there /\ gone' \in BOOLEAN /\ (gone => gone')
      /\ deletes' \in 0..MaxDeletes
  <2>1. CASE UNCHANGED world
    BY <1>1, <2>1 DEF world
  <2>2. CASE Leave
    BY <1>1, <2>2 DEF Leave
  <2>3. CASE \E v \in Videos : Delete(v)
    <3>1. MaxDeletes \in Nat
      BY AskAssumption
    <3> QED
      BY <1>1, <2>3, <3>1 DEF Delete
  <2>4. UNCHANGED world \/ Leave \/ \E v \in Videos : Delete(v)
    BY DEF Next, vars, Understand, Blank, Resolve, RunSearch, Search, Rung, Embedded, Semantic,
           Fuse, Choose, Sources, Note, Nothing, Unavailable, Token, Written, Close, List
  <2> QED
    BY <2>1, <2>2, <2>3, <2>4
<1>3. unread' \in BOOLEAN
  BY <1>1 DEF Next, vars, Understand, Blank, Resolve, RunSearch, Search, Rung, Embedded, Semantic,
         Fuse, Choose, Sources, Note, Nothing, Unavailable, Token, Written, Close, List, Leave,
         Delete
<1>4. faults' \in 0..MaxFaults
  <2>1. Works \/ Fails
    BY DEF Next, vars, Understand, Blank, Resolve, RunSearch, Search, Rung, Embedded, Semantic,
           Fuse, Choose, Sources, Note, Nothing, Unavailable, Token, Written, Close, List, Leave,
           Delete, Works
  <2> QED
    BY <1>1, <2>1, FaultsCounted
<1> QED
  BY <1>2, <1>3, <1>4

\* The stream is made of frames.
LEMMA FrameTypes ==
  ASSUME TypeInv, [Next]_vars
  PROVE  frames' \in Seq(FrameType)
<1>1. frames \in Seq(FrameType)
  BY DEF TypeInv
<1>2. /\ "progress" \in FrameType /\ "sources" \in FrameType /\ "note" \in FrameType
      /\ "token" \in FrameType /\ "nothing" \in FrameType /\ "error" \in FrameType
      /\ "refused" \in FrameType /\ "no videos yet" \in FrameType /\ "failed" \in FrameType
  BY DEF FrameType
<1>3. (\E f \in FrameType : Send(f)) \/ UNCHANGED frames => frames' \in Seq(FrameType)
  BY <1>1, FrameSent
<1>4. CASE Blank
  BY <1>4, SomeFrames DEF Blank
<1>5. CASE Close
  BY <1>1, <1>5, SomeFrames, FramesJoined DEF Close
<1>6. CASE List
  <2>1. \/ Send("failed")
        \/ UNCHANGED frames
        \/ \E a \in {<<"note">>, <<>>}, b \in {<<"nothing">>, <<"list">>} : frames' = frames \o a \o b
    BY <1>6 DEF List
  <2>2. ASSUME NEW a \in {<<"note">>, <<>>}, NEW b \in {<<"nothing">>, <<"list">>}
        PROVE  frames \o a \o b \in Seq(FrameType)
    <3>1. a \in Seq(FrameType) /\ b \in Seq(FrameType)
      BY SomeFrames
    <3>2. frames \o a \in Seq(FrameType)
      BY <1>1, <3>1, FramesJoined
    <3> QED
      BY <3>1, <3>2, FramesJoined
  <2> QED
    BY <1>2, <1>3, <2>1, <2>2
<1>7. CASE ~Blank /\ ~Close /\ ~List
  <2>1. (\E f \in FrameType : Send(f)) \/ UNCHANGED frames
    BY <1>2, <1>7 DEF Next, vars, Understand, Resolve, RunSearch, Search, Rung, Embedded,
         Semantic,
           Fuse, Choose, Sources, Note, Nothing, Unavailable, Token, Written, Leave, Delete,
           SendOrLeave
  <2> QED
    BY <1>3, <2>1
<1> QED
  BY <1>4, <1>5, <1>6, <1>7

(***************************************************************************)
(* Before the lanes are fused there is nothing to show.                    *)
(***************************************************************************)
Reading == {"understand", "resolve"}
Searching == {"search", "ladder", "embed", "semantic", "fuse"}
Settled == {"answer", "closing", "closed"}

EarlyInv ==
  /\ step \in Reading \cup Searching => hits = <<>> /\ relaxed = FALSE /\ chosen = {}
  /\ step \in Reading => pass = 1
  /\ step = "understand" => /\ understood = NoReply /\ scope = NoScope /\ filter = WholeLibrary
                           /\ frames = <<>> /\ lanes = <<>> /\ faults = 0 /\ unread = FALSE
  /\ endpoint = "mcp" => step \in {"understand", "list", "closed"} \cup Searching
  /\ endpoint = "answer" => step # "list"
  /\ endpoint = "mcp" => pass = 1 /\ understood.topic = FALSE
  /\ relaxed => pass = 2

\* Nothing is there to show at the start.
LEMMA EarlyInit ==
  ASSUME Init
  PROVE  EarlyInv
BY DEF Init, EarlyInv, Reading, Searching, NoReply

\* Every step keeps EarlyInv.
LEMMA EarlyStep ==
  ASSUME TypeInv, EarlyInv, [Next]_vars
  PROVE  EarlyInv'
<1> USE DEF EarlyInv, Reading, Searching
<1>1. endpoint \in {"answer", "mcp"} /\ pass \in 1..2 /\ understood \in ReplyType
  BY DEF TypeInv, TypeOK
<1>2. CASE Understand
  BY <1>2 DEF Understand, world, search, found
<1>3. CASE Blank
  BY <1>3 DEF Blank, world, search, found, request
<1>4. CASE Resolve
  BY <1>4 DEF Resolve, SendOrLeave, world, search, found
<1>5. CASE RunSearch
  <2>1. understood'.topic = FALSE
    <3>1. \A r \in Replies : r \in ReplyType
      BY AskAssumption DEF ReplyType, WatchedType
    <3>2. \A r \in ReplyType : [r EXCEPT !.topic = FALSE, !.counting = FALSE].topic = FALSE
      BY DEF ReplyType
    <3> HIDE DEF ReplyType
    <3> QED
      BY <1>5, <3>1, <3>2 DEF RunSearch
  <2>2. step' \in {"closed", "search"} /\ step = "understand" /\ endpoint = "mcp"
    BY <1>5 DEF RunSearch
  <2> QED
    BY <1>5, <2>1, <2>2 DEF RunSearch, world, search, found
<1>6. CASE Search
  BY <1>6 DEF Search, world, request, found
<1>7. CASE Rung
  BY <1>7 DEF Rung, world, request, found
<1>8. CASE Embedded
  BY <1>8 DEF Embedded, world, request, found
<1>9. CASE Semantic
  BY <1>9 DEF Semantic, world, request, found
<1>10. CASE Fuse
  BY <1>1, <1>10 DEF Fuse, Widened, world, request
<1>11. CASE Choose \/ Sources \/ Note
  BY <1>1, <1>11 DEF Choose, Sources, Note, SendOrLeave, world, request, search, found
<1>12. CASE Nothing \/ Unavailable \/ Token \/ Written \/ Close
  BY <1>1, <1>12 DEF Nothing, Unavailable, Token, Written, Close, world, request, search, found
<1>13. CASE List
  BY <1>1, <1>13 DEF List, world, request, search
<1>14. CASE Leave \/ \E v \in Videos : Delete(v)
  BY <1>1, <1>14 DEF Leave, Delete, request, search, found
<1>15. CASE UNCHANGED vars
  BY <1>15 DEF vars, world, request, search, found
<1> QED
  BY <1>2, <1>3, <1>4, <1>5, <1>6, <1>7, <1>8, <1>9, <1>10, <1>11, <1>12, <1>13, <1>14, <1>15
     DEF Next

\* Every step keeps the types.
LEMMA TypeStep ==
  ASSUME TypeInv, EarlyInv, [Next]_vars
  PROVE  TypeInv'
<1>1. step = "fuse" => chosen = {}
  BY DEF EarlyInv, Searching
<1>2. /\ hits' \in Seq(Chunks) /\ Distinct(hits') /\ relaxed' \in BOOLEAN
      /\ chosen' \subseteq ToSet(hits') /\ coverage' \subseteq Videos
  BY <1>1, FoundTypes
<1>3. chosen' \subseteq Chunks
  <2>1. ToSet(hits') \subseteq Chunks
    BY <1>2 DEF ToSet
  <2> QED
    BY <1>2, <2>1
<1>4. there \subseteq Videos /\ endpoint \in {"answer", "mcp"} /\ wired \subseteq {"chat", "embedder"}
      /\ meaning \in MeaningType
  BY DEF TypeInv, TypeOK
<1> QED
  BY <1>2, <1>3, <1>4, RequestTypes, SearchTypes, WorldTypes, FrameTypes
     DEF TypeInv, TypeOK, FilterType

(***************************************************************************)
(* Honoured or told.                                                       *)
(***************************************************************************)
\* The filter is what the reply said, unless the channels could not be read.
Understood ==
  endpoint = "answer" /\ unread = FALSE /\ step # "resolve" =>
     scope = ResolveChannels(understood.names) /\ filter = BuildFilter(understood, scope)

\* The lanes and the list keep to it.
Kept ==
  /\ step \in Searching \ {"search"} =>
        \A c \in FoundBy(lanes) : Admits(Under, VideoOf(c))
  /\ relaxed = FALSE => \A c \in ToSet(hits) : Admits(filter, VideoOf(c))

\* What is due has been said before anything is written.
Told ==
  endpoint = "answer" =>
     /\ step \in Settled /\ NoteDue /\ gone = FALSE => Sent("note")
     /\ Sent("token") => step \in Settled /\ (NoteDue => Sent("note"))
     /\ Sent("done") => step = "closed" /\ (NoteDue => Sent("note"))

HonestInv == TypeInv /\ EarlyInv /\ Understood /\ Kept /\ Told

\* A question without a constraint asks the whole library.
LEMMA WholeLibraryUnderstood ==
  /\ ResolveChannels({}) = NoScope /\ BuildFilter(NoReply, NoScope) = WholeLibrary
  /\ NoReply.names = {} /\ NoScope.unresolved = FALSE
  /\ \A v : Admits(WholeLibrary, v)
<1>1. UNION {MatchChannels(n) : n \in {}} = {}
  OBVIOUS
<1> QED
  BY <1>1 DEF ResolveChannels, NoScope, BuildFilter, NoReply, WholeLibrary, Admits

\* What a frame adds to what was sent.
LEMMA SentBySend ==
  ASSUME frames \in Seq(FrameType), NEW f \in FrameType, Send(f), NEW g
  PROVE  Sent(g)' <=> Sent(g) \/ (g = f /\ ~gone)
<1>1. CASE gone
  BY <1>1 DEF Send, Sent
<1>2. CASE ~gone
  <2>1. frames' = Append(frames, f)
    BY <1>2 DEF Send
  <2>2. /\ DOMAIN frames' = DOMAIN frames \cup {Len(frames) + 1}
        /\ \A i \in DOMAIN frames : frames'[i] = frames[i]
        /\ frames'[Len(frames) + 1] = f
    BY <2>1
  <2> QED
    BY <1>2, <2>2 DEF Sent
<1> QED
  BY <1>1, <1>2

\* What a list of frames adds to what was sent.
LEMMA SentByJoin ==
  ASSUME frames \in Seq(FrameType), NEW t \in Seq(FrameType), frames' = frames \o t, NEW g
  PROVE  Sent(g)' <=> Sent(g) \/ \E i \in DOMAIN t : t[i] = g
<1>1. /\ \A i \in DOMAIN frames : i \in DOMAIN frames' /\ frames'[i] = frames[i]
      /\ \A i \in DOMAIN t : Len(frames) + i \in DOMAIN frames' /\ frames'[Len(frames) + i] = t[i]
      /\ \A k \in DOMAIN frames' : k \in DOMAIN frames \/ k - Len(frames) \in DOMAIN t
  OBVIOUS
<1>2. \A k \in DOMAIN frames' : k - Len(frames) \in DOMAIN t => frames'[k] = t[k - Len(frames)]
  OBVIOUS
<1>3. Sent(g) => Sent(g)'
  BY <1>1 DEF Sent
<1>4. ASSUME NEW i \in DOMAIN t, t[i] = g PROVE Sent(g)'
  BY <1>1, <1>4 DEF Sent
<1>5. ASSUME NEW k \in DOMAIN frames', frames'[k] = g PROVE Sent(g) \/ \E i \in DOMAIN t : t[i] = g
  <2>1. CASE k \in DOMAIN frames
    BY <1>1, <1>5, <2>1 DEF Sent
  <2>2. CASE k - Len(frames) \in DOMAIN t
    BY <1>2, <1>5, <2>2
  <2> QED
    BY <1>1, <2>1, <2>2
<1>6. Sent(g)' <=> \E k \in DOMAIN frames' : frames'[k] = g
  BY DEF Sent
<1> QED
  BY <1>3, <1>4, <1>5, <1>6

\* HonestInv holds at the start.
LEMMA HonestInit ==
  ASSUME Init
  PROVE  HonestInv
<1>1. Understood
  BY WholeLibraryUnderstood DEF Init, Understood
<1>2. Kept
  BY WholeLibraryUnderstood DEF Init, Kept, Searching
<1>3. Told
  BY DEF Init, Told, Settled, Sent
<1> QED
  BY <1>1, <1>2, <1>3, TypeInit, EarlyInit DEF HonestInv

\* Every step keeps Understood.
LEMMA UnderstoodStep ==
  ASSUME HonestInv, [Next]_vars
  PROVE  Understood'
<1> USE DEF HonestInv, Understood
<1>1. CASE Understand
  BY <1>1 DEF Understand
<1>2. CASE Resolve
  BY <1>2 DEF Resolve, world
<1>3. CASE RunSearch
  BY <1>3 DEF RunSearch, world
<1>4. CASE UNCHANGED <<request, unread, endpoint>> /\ (step = "resolve" => step' = "resolve")
  BY <1>4 DEF request
<1>5. Understand \/ Resolve \/ RunSearch
      \/ (UNCHANGED <<request, unread, endpoint>> /\ (step = "resolve" => step' = "resolve"))
  BY DEF Next, vars, Blank, Search, Rung, Embedded, Semantic, Fuse, Choose, Sources, Note,
       Nothing,
         Unavailable, Token, Written, Close, List, Leave, Delete, world
<1> QED
  BY <1>1, <1>2, <1>3, <1>4, <1>5

\* Every step keeps Kept: the lanes search under the filter in force.
LEMMA KeptStep ==
  ASSUME HonestInv, [Next]_vars
  PROVE  Kept'
<1>1. TypeInv /\ EarlyInv /\ Kept
  BY DEF HonestInv
<1> DEFINE Lanes == step \in Searching \ {"search"} =>
                      \A c \in FoundBy(lanes) : Admits(Under, VideoOf(c))
           List_ == relaxed = FALSE => \A c \in ToSet(hits) : Admits(filter, VideoOf(c))
<1>2. Lanes'
  <2>1. CASE Search
    BY <2>1 DEF Search, FoundBy
  <2>2. CASE Rung
    <3>1. \A c \in Admitted(there, Under) : Admits(Under, VideoOf(c))
      BY DEF Admitted
    <3>2. \A c \in FoundBy(lanes') : c \in FoundBy(lanes) \/ c \in Admitted(there, Under)
      BY <1>1, <2>2, RungLane DEF Rung
    <3>3. Under' = Under
      BY <2>2 DEF Rung, request, Under
    <3>4. step = "ladder"
      BY <2>2 DEF Rung
    <3> QED
      BY <1>1, <3>1, <3>2, <3>3, <3>4 DEF Kept, Searching
  <2>3. CASE Semantic
    <3>1. \A c \in Admitted(there, Under) : Admits(Under, VideoOf(c))
      BY DEF Admitted
    <3>2. \A c \in FoundBy(lanes') : c \in FoundBy(lanes) \/ c \in Admitted(there, Under)
      BY <1>1, <2>3, SemanticLanes
    <3>3. Under' = Under
      BY <2>3 DEF Semantic, request, Under
    <3>4. step = "semantic"
      BY <2>3 DEF Semantic
    <3> QED
      BY <1>1, <3>1, <3>2, <3>3, <3>4 DEF Kept, Searching
  <2>4. CASE step' \notin Searching \ {"search"}
    BY <2>4
  <2>5. CASE UNCHANGED <<lanes, pass, filter>> /\ step \in Searching \ {"search"}
    BY <1>1, <2>5 DEF Kept, Under
  <2>6. \/ Search \/ Rung \/ Semantic \/ step' \notin Searching \ {"search"}
        \/ UNCHANGED <<lanes, pass, filter>> /\ step \in Searching \ {"search"}
    BY DEF Next, vars, Understand, Blank, Resolve, RunSearch, Embedded, Fuse, Choose, Sources,
         Note,
           Nothing, Unavailable, Token, Written, Close, List, Leave, Delete, SendOrLeave,
           world, request, search, Searching
  <2> QED
    BY <2>1, <2>2, <2>3, <2>4, <2>5, <2>6
<1>3. List_'
  <2>1. CASE Fuse
    <3>1. hits' = FuseWeighted(lanes) /\ filter' = filter /\ relaxed' = (pass = 2 /\ hits' # <<>>)
          /\ step = "fuse"
      BY <2>1 DEF Fuse, Widened, request
    <3>2. \A c \in ToSet(hits') : Admits(Under, VideoOf(c))
      BY <1>1, <3>1, Fused DEF TypeInv, Kept, Searching
    <3>3. CASE pass = 1
      BY <3>1, <3>2, <3>3 DEF Under
    <3>4. CASE hits' = <<>>
      BY <3>4 DEF ToSet
    <3>5. CASE pass = 2 /\ hits' # <<>>
      BY <3>1, <3>5
    <3>6. pass = 1 \/ pass = 2
      BY <1>1 DEF TypeInv, TypeOK
    <3> HIDE DEF List_
    <3> QED
      BY <3>3, <3>4, <3>5, <3>6
  <2>2. CASE hits' = <<>>
    BY <2>2 DEF ToSet
  <2>3. CASE UNCHANGED <<hits, relaxed, filter>>
    BY <1>1, <2>3 DEF Kept
  <2>4. Fuse \/ hits' = <<>> \/ UNCHANGED <<hits, relaxed, filter>>
    BY <1>1 DEF Next, vars, Understand, Blank, Resolve, RunSearch, Search, Rung, Embedded,
         Semantic,
           Choose, Sources, Note, Nothing, Unavailable, Token, Written, Close, List, Leave,
           Delete,
           found, request, EarlyInv, Reading
  <2> QED
    BY <2>1, <2>2, <2>3, <2>4
<1> QED
  BY <1>2, <1>3 DEF Kept

\* Every step keeps Told: the note goes out between the sources and the first word.
LEMMA ToldStep ==
  ASSUME HonestInv, [Next]_vars
  PROVE  Told'
<1> SUFFICES ASSUME endpoint' = "answer" PROVE Told'
  BY DEF Told
<1>1. /\ TypeInv /\ EarlyInv /\ Told /\ endpoint = "answer" /\ frames \in Seq(FrameType)
      /\ gone \in BOOLEAN /\ gone' \in BOOLEAN /\ (gone => gone')
  BY WorldTypes DEF HonestInv, TypeInv, TypeOK
<1>2. ~RunSearch /\ ~List
  BY <1>1 DEF RunSearch, List, EarlyInv
<1>3. /\ "progress" \in FrameType /\ "sources" \in FrameType /\ "note" \in FrameType
      /\ "token" \in FrameType /\ "nothing" \in FrameType /\ "error" \in FrameType
  BY DEF FrameType
<1> DEFINE Same == UNCHANGED <<scope, relaxed, chosen>>
<1>4. ASSUME Same PROVE NoteDue' <=> NoteDue
  BY <1>4 DEF NoteDue
\* Before the sources there is neither a token nor an end.
<1>5. step \notin Settled => ~Sent("token") /\ ~Sent("done")
  BY <1>1 DEF Told, Settled
<1>6. CASE Blank
  <2>1. NoteDue' = FALSE
    BY <1>1, <1>6 DEF Blank, NoteDue, EarlyInv, NoScope, request, found, Reading
  <2>2. ~Sent("token")' /\ step' = "closed"
    BY <1>6 DEF Blank, Sent
  <2> QED
    BY <2>1, <2>2 DEF Told, Settled
<1>7. CASE Resolve
  <2>1. /\ step = "resolve" /\ Send("progress")
        /\ step' = IF gone THEN "closing" ELSE "search"
        /\ gone' = gone
    BY <1>7 DEF Resolve, SendOrLeave, world
  <2>2. ~Sent("token")' /\ ~Sent("done")'
    BY <1>1, <1>3, <1>5, <2>1, SentBySend DEF Settled
  <2> QED
    BY <1>1, <2>1, <2>2 DEF Told, Settled
<1>8. CASE Sources
  <2>1. /\ step = "count" /\ Send("sources")
        /\ step' = IF gone THEN "closing" ELSE "note"
        /\ gone' = gone
    BY <1>8 DEF Sources, SendOrLeave, world
  <2>2. ~Sent("token")' /\ ~Sent("done")'
    BY <1>1, <1>3, <1>5, <2>1, SentBySend DEF Settled
  <2> QED
    BY <1>1, <2>1, <2>2 DEF Told, Settled
<1>9. CASE Note
  <2>1. /\ step = "note" /\ gone' = gone /\ Same
        /\ \/ NoteDue /\ Send("note") /\ step' = IF gone THEN "closing" ELSE "answer"
           \/ ~NoteDue /\ UNCHANGED frames /\ step' = "answer"
    BY <1>9 DEF Note, SendOrLeave, world, request, found
  <2>2. CASE NoteDue /\ Send("note") /\ step' = IF gone THEN "closing" ELSE "answer"
    <3>1. ~Sent("token")' /\ ~Sent("done")' /\ (~gone => Sent("note")')
      BY <1>1, <1>3, <1>5, <2>1, <2>2, SentBySend DEF Settled
    <3> QED
      BY <1>1, <2>1, <3>1 DEF Told
  <2>3. CASE ~NoteDue /\ UNCHANGED frames /\ step' = "answer"
    <3>1. ~Sent("token")' /\ ~Sent("done")'
      BY <1>5, <2>1, <2>3 DEF Settled, Sent
    <3> QED
      BY <1>4, <2>1, <2>3, <3>1 DEF Told
  <2> QED
    BY <2>1, <2>2, <2>3
<1>10. CASE Nothing \/ Unavailable \/ Token \/ Written
  <2>1. /\ step = "answer" /\ step' \in {"answer", "closing"} /\ gone' = gone /\ Same
    BY <1>10 DEF Nothing, Unavailable, Token, Written, world, request, found
  <2>2. \/ \E f \in {"nothing", "error", "token"} : Send(f) /\ (f = "token" => ~gone)
        \/ UNCHANGED frames
    BY <1>10 DEF Nothing, Unavailable, Token, Written
  <2>3. NoteDue /\ gone = FALSE => Sent("note")
    BY <1>1, <2>1 DEF Told, Settled
  <2>4. ~Sent("done")
    BY <1>1, <2>1 DEF Told
  <2>5. CASE \E f \in {"nothing", "error", "token"} : Send(f) /\ (f = "token" => ~gone)
    <3>1. PICK f \in {"nothing", "error", "token"} : Send(f) /\ (f = "token" => ~gone)
      BY <2>5
    <3>2. /\ Sent("note") => Sent("note")' 
          /\ ~Sent("done")'
          /\ Sent("token")' => Sent("token") \/ gone = FALSE
      BY <1>1, <1>3, <2>4, <3>1, SentBySend
    <3> QED
      BY <1>1, <1>4, <2>1, <2>3, <3>2 DEF Told, Settled
  <2>6. CASE UNCHANGED frames
    <3>1. \A g : Sent(g)' <=> Sent(g)
      BY <2>6 DEF Sent
    <3> QED
      BY <1>1, <1>4, <2>1, <2>3, <2>4, <3>1 DEF Told, Settled
  <2> QED
    BY <2>2, <2>5, <2>6
<1>11. CASE Close
  <2>1. /\ step = "closing" /\ step' = "closed" /\ gone' = gone /\ Same
        /\ frames' = IF gone THEN frames ELSE frames \o <<"trace", "done">>
    BY <1>11 DEF Close, world, request, found
  <2>2. CASE gone
    <3>1. \A g : Sent(g)' <=> Sent(g)
      BY <2>1, <2>2 DEF Sent
    <3> QED
      BY <1>1, <1>4, <2>1, <2>2, <3>1 DEF Told, Settled
  <2>3. CASE ~gone
    <3>1. \A g : Sent(g)' <=> Sent(g) \/ g \in {"trace", "done"}
      <4>1. \A g : Sent(g)' <=> Sent(g) \/ \E i \in DOMAIN <<"trace", "done">> : <<"trace", "done">>[i] = g
        BY <1>1, <2>1, <2>3, SomeFrames, SentByJoin
      <4>2. \A g : (\E i \in DOMAIN <<"trace", "done">> : <<"trace", "done">>[i] = g) <=> g \in {"trace", "done"}
        OBVIOUS
      <4> QED
        BY <4>1, <4>2
    <3>2. NoteDue => Sent("note")
      BY <1>1, <2>1, <2>3 DEF Told, Settled
    <3>3. (Sent("note") => Sent("note")') /\ (Sent("token")' => Sent("token"))
      BY <3>1
    <3> QED
      BY <1>1, <1>4, <2>1, <3>2, <3>3 DEF Told, Settled
  <2> QED
    BY <1>1, <2>2, <2>3
\* Steps on the way to the excerpts say nothing.
<1>12. CASE step \notin Settled /\ step' \notin Settled /\ UNCHANGED frames
  <2>1. ~Sent("token")' /\ ~Sent("done")'
    BY <1>5, <1>12 DEF Sent
  <2> QED
    BY <1>12, <2>1 DEF Told
<1>13. CASE UNCHANGED <<step, scope, relaxed, chosen, frames>>
  <2>1. \A g : Sent(g)' <=> Sent(g)
    BY <1>13 DEF Sent
  <2> QED
    BY <1>1, <1>4, <1>13, <2>1 DEF Told
<1>14. \/ Blank \/ Resolve \/ Sources \/ Note \/ Nothing \/ Unavailable \/ Token \/ Written \/ Close
       \/ step \notin Settled /\ step' \notin Settled /\ UNCHANGED frames
       \/ UNCHANGED <<step, scope, relaxed, chosen, frames>>
  BY <1>2 DEF Next, vars, Understand, Search, Rung, Embedded, Semantic, Fuse, Choose, Leave,
       Delete,
         world, request, found, Settled
<1> QED
  BY <1>6, <1>7, <1>8, <1>9, <1>10, <1>11, <1>12, <1>13, <1>14

\* Every step keeps HonestInv.
LEMMA HonestStep ==
  ASSUME HonestInv, [Next]_vars
  PROVE  HonestInv'
BY TypeStep, EarlyStep, UnderstoodStep, KeptStep, ToldStep DEF HonestInv

\* HonestInv implies HonouredOrTold.
LEMMA HonestShows ==
  ASSUME HonestInv
  PROVE  HonouredOrTold
<1> SUFFICES ASSUME Sent("token") \/ (step = "closed" /\ Sent("done")),
                    unread = FALSE, endpoint = "answer", chosen # {}, ~Sent("note")
             PROVE  /\ ~ResolveChannels(understood.names).unresolved
                    /\ \A c \in chosen :
                          Admits(BuildFilter(understood, ResolveChannels(understood.names)), VideoOf(c))
  BY DEF HonestInv, TypeInv, TypeOK, HonouredOrTold
<1>1. ~NoteDue /\ step # "resolve"
  BY DEF HonestInv, Told, Settled
<1>2. scope = ResolveChannels(understood.names) /\ filter = BuildFilter(understood, scope)
  BY <1>1 DEF HonestInv, Understood
<1>3. scope.unresolved = FALSE /\ relaxed = FALSE
  BY <1>1 DEF NoteDue, HonestInv, TypeInv, TypeOK, ScopeType
<1>4. \A c \in chosen : Admits(filter, VideoOf(c))
  BY <1>3 DEF HonestInv, TypeInv, Kept
<1> QED
  BY <1>2, <1>3, <1>4

DeletesCounted == IsFiniteSet(Videos \ there) /\ Cardinality(Videos \ there) = deletes

\* Nothing is deleted at the start.
LEMMA CountInit ==
  ASSUME Init
  PROVE  DeletesCounted
<1>1. Videos \ there = {} /\ deletes = 0
  BY DEF Init
<1> QED
  BY <1>1, FS_EmptySet DEF DeletesCounted

\* Every deletion is counted.
LEMMA CountStep ==
  ASSUME TypeInv, DeletesCounted, [Next]_vars
  PROVE  DeletesCounted'
<1>1. CASE \E v \in Videos : Delete(v)
  <2>1. PICK v \in Videos : v \in there /\ there' = there \ {v} /\ deletes' = deletes + 1
    BY <1>1 DEF Delete
  <2>2. Videos \ there' = (Videos \ there) \cup {v} /\ v \notin Videos \ there
    BY <2>1
  <2> DEFINE D == Videos \ there
  <2>3. IsFiniteSet(D) /\ Cardinality(D) = deletes
    BY DEF DeletesCounted
  <2> HIDE DEF D
  <2>4. IsFiniteSet(D \cup {v}) /\ Cardinality(D \cup {v}) = deletes + 1
    BY <2>2, <2>3, FS_AddElement DEF D
  <2> QED
    BY <2>1, <2>2, <2>4 DEF DeletesCounted, D
<1>2. CASE UNCHANGED <<there, deletes>>
  BY <1>2 DEF DeletesCounted
<1>3. (\E v \in Videos : Delete(v)) \/ UNCHANGED <<there, deletes>>
  BY DEF Next, vars, Understand, Blank, Resolve, RunSearch, Search, Rung, Embedded, Semantic,
       Fuse,
         Choose, Sources, Note, Nothing, Unavailable, Token, Written, Close, List, Leave, world
<1> QED
  BY <1>1, <1>2, <1>3

\* Without a deletion, every video is there.
LEMMA NothingDeleted ==
  ASSUME TypeInv, DeletesCounted, deletes = 0
  PROVE  there = Videos
<1>1. Videos \ there = {}
  BY FS_EmptySet DEF DeletesCounted
<1> QED
  BY <1>1 DEF TypeInv, TypeOK

\* With every read answered, what can be read is what is there.
LEMMA ReadsAnswered ==
  ASSUME TypeInv, Choose, faults' = 0, ~gone
  PROVE  /\ chosen' = ChooseExcerpts(hits, Readable(hits, there), Compare)
         /\ coverage' = CoverageVideos(hits, Listable(RelevantVideos(lanes, Raw), chosen'), there)
<1>1. PICK s \in Reads, more \in SUBSET there :
        LET read == more \cup {VideoOf(c) : c \in s}
        IN  /\ IF read = there /\ s = {c \in ToSet(hits) : VideoOf(c) \in there} THEN Works ELSE Fails
            /\ chosen' = ChooseExcerpts(hits, s, Compare)
            /\ coverage' = CoverageVideos(hits, Listable(RelevantVideos(lanes, Raw), chosen'), read)
  BY DEF Choose
<1>2. ~Fails
  BY DEF Fails, TypeInv, TypeOK
<1> QED
  BY <1>1, <1>2 DEF Readable

\* A step that neither chooses nor fuses, after the choice.
LEMMA ChoiceStands ==
  ASSUME TypeInv, EarlyInv, [Next]_vars, ~Choose, Chose'
  PROVE  \/ chosen' = {} /\ chosen = {}
         \/ Chose /\ UNCHANGED <<chosen, coverage, hits, scope>>
<1>1. CASE step \in Reading \cup Searching
  BY <1>1 DEF Next, vars, Chose, EarlyInv, Reading, Searching, Understand, Blank, Resolve,
       RunSearch,
         Search, Rung, Embedded, Semantic, Fuse, Sources, Note, Nothing, Unavailable, Token,
         Written, Close, List, Leave, Delete, SendOrLeave, found, world
<1>2. CASE step \notin Reading \cup Searching
  BY <1>2 DEF Next, vars, Chose, EarlyInv, Reading, Searching, Understand, Blank, Resolve,
       RunSearch,
         Search, Rung, Embedded, Semantic, Fuse, Sources, Note, Nothing, Unavailable, Token,
         Written, Close, List, Leave, Delete, SendOrLeave, found, world, request
<1> QED
  BY <1>1, <1>2

\* Neither faults, deletions nor a departure are undone.
LEMMA FaultsGrow ==
  ASSUME TypeInv, [Next]_vars
  PROVE  /\ faults' = 0 => faults = 0
         /\ deletes' = 0 => deletes = 0
         /\ gone => gone'
<1>1. faults \in Nat /\ deletes \in Nat
  BY DEF TypeInv, TypeOK
<1>2. Works \/ Fails
  BY DEF Next, vars, Understand, Blank, Resolve, RunSearch, Search, Rung, Embedded, Semantic,
         Fuse, Choose, Sources, Note, Nothing, Unavailable, Token, Written, Close, List, Leave,
         Delete, Works
<1>3. deletes' = deletes \/ deletes' = deletes + 1
  BY DEF Next, vars, Understand, Blank, Resolve, RunSearch, Search, Rung, Embedded, Semantic,
         Fuse, Choose, Sources, Note, Nothing, Unavailable, Token, Written, Close, List, Leave,
         Delete, world
<1> QED
  BY <1>1, <1>2, <1>3, WorldTypes DEF Works, Fails

(***************************************************************************)
(* What was shown is listed.                                               *)
(***************************************************************************)
\* Every step keeps ShownIsListed.
LEMMA ShownStep ==
  ASSUME TypeInv, EarlyInv, ShownIsListed, [Next]_vars
  PROVE  ShownIsListed'
<1>1. CASE Choose
  <2>1. PICK s, read :
          /\ chosen' = ChooseExcerpts(hits, s, Compare)
          /\ coverage' = CoverageVideos(hits, Listable(RelevantVideos(lanes, Raw), chosen'), read)
          /\ {VideoOf(c) : c \in s} \subseteq read
    BY <1>1 DEF Choose
  <2>2. /\ scope' = scope /\ gone' = gone /\ Compare' = Compare
    BY <1>1 DEF Choose, request, world, Compare
  <2>3. hits \in Seq(Chunks) /\ Distinct(hits)
    BY DEF TypeInv
  <2> SUFFICES ASSUME ~Compare, NEW c \in chosen', VideoOf(c) \notin coverage'
               PROVE  ListFull' /\ (faults' > 0 \/ gone')
    BY <2>2 DEF ShownIsListed
  <2> DEFINE rel == Listable(RelevantVideos(lanes, Raw), chosen')
             v == VideoOf(c)
    <2>4. c \in ToSet(hits) /\ c \in s
    BY <2>1, Excerpts
  <2>5. v \in VideosIn(hits) \cap rel \cap read
    BY <2>1, <2>3, <2>4, VideosOfHits DEF Listable
  <2> HIDE DEF rel
  <2>6. v \notin CoverageVideos(hits, rel, read) /\ coverage' = CoverageVideos(hits, rel, read)
    BY <2>1 DEF rel
  <2>7. Cardinality(CoverageVideos(hits, rel, read)) = CoverageMaxVideos
    BY <2>3, <2>5, <2>6, CoverageIsFull
  <2>8. ListFull'
    BY <2>6, <2>7 DEF ListFull
  <2>9. ASSUME ~(faults' > 0), ~gone' PROVE FALSE
    <3>1. faults' = 0 /\ ~gone
      BY <2>2, <2>9, WorldTypes
    <3>2. /\ chosen' = ChooseExcerpts(hits, Readable(hits, there), FALSE)
          /\ coverage' = CoverageVideos(hits, Listable(RelevantVideos(lanes, Raw), chosen'), there)
      BY <1>1, <3>1, ReadsAnswered DEF Compare
    <3> DEFINE here == VideosIn(hits) \cap rel \cap there
    <3>3. v \in here
      BY <2>5, <3>2, Excerpts DEF Readable
    <3>4. v \notin CoverageVideos(hits, rel, there)
      BY <3>2 DEF rel
    <3>5. ~(Cardinality({w \in here : Leads(hits, w, v)}) < CoverageMaxVideos)
      BY <2>3, <3>3, <3>4, CoverageIsFull
    <3>6. here \subseteq VideosIn(hits) \cap there
      OBVIOUS
    <3> HIDE DEF here
    <3>7. /\ IsFiniteSet({w \in here : Leads(hits, w, v)})
          /\ Cardinality({w \in here : Leads(hits, w, v)}) < AnswerMaxSources
      BY <2>3, <3>2, <3>6, FewLeadTheQuoted
    <3>8. Cardinality({w \in here : Leads(hits, w, v)}) \in Nat
      BY <3>7, FS_CardinalityType
    <3> QED
      BY <3>5, <3>7, <3>8, LimitsAssumption
  <2> QED
    BY <2>8, <2>9
<1>2. CASE ~Choose
  <2> SUFFICES ASSUME Chose', ~Compare' PROVE (\A c \in chosen' : VideoOf(c) \in coverage')
                                             \/ (ListFull' /\ (faults' > 0 \/ gone'))
    BY DEF ShownIsListed
  <2>1. CASE chosen' = {}
    BY <2>1
  <2>2. CASE Chose /\ UNCHANGED <<chosen, coverage, hits, scope>>
    <3>1. ~Compare /\ (ListFull' <=> ListFull)
      BY <2>2 DEF Compare, ListFull
    <3>2. faults > 0 \/ gone => faults' > 0 \/ gone'
      BY FaultsGrow, WorldTypes DEF TypeInv, TypeOK
    <3> QED
      BY <2>2, <3>1, <3>2 DEF ShownIsListed
  <2> QED
    BY <1>2, <2>1, <2>2, ChoiceStands
<1> QED
  BY <1>1, <1>2

(***************************************************************************)
(* Breadth.                                                                *)
(***************************************************************************)
\* Every step keeps BreadthKept.
LEMMA BreadthStep ==
  ASSUME TypeInv, EarlyInv, DeletesCounted, BreadthKept, [Next]_vars
  PROVE  BreadthKept'
<1> SUFFICES ASSUME Chose', ~Compare', faults' = 0, ~gone', deletes' = 0, chosen' # {}
             PROVE  BreadthKept'
  BY DEF BreadthKept
<1>1. CASE Choose
  <2>1. hits' = hits /\ ~Compare /\ ~gone /\ deletes = 0
    BY <1>1, FaultsGrow DEF Choose, request, Compare, world
  <2>2. chosen' = ChooseExcerpts(hits, Readable(hits, Videos), FALSE)
    BY <1>1, <2>1, ReadsAnswered, NothingDeleted DEF Compare
  <2>3. hits \in Seq(Chunks) /\ Distinct(hits)
    BY DEF TypeInv
  <2>4. VideosIn(hits) \subseteq Videos
    BY <2>3, VideosFound
  <2>5. chosen' \in SUBSET Chunks
    <3>1. ToSet(hits) \in SUBSET Chunks
      BY <2>3 DEF ToSet
    <3>2. chosen' \subseteq ToSet(hits)
      BY <2>2, Excerpts
    <3> QED
      BY <3>1, <3>2
  <2>6. Breadth(hits, Videos) \subseteq chosen'
    BY <2>2, DepthPass DEF TakePass
  <2>7. hits # <<>>
    <3>1. chosen' \subseteq ToSet(hits)
      BY <2>2, Excerpts
    <3>2. ToSet(<<>>) = {}
      BY DEF ToSet
    <3> QED
      BY <3>1, <3>2
  <2> QED
    BY <2>1, <2>3, <2>4, <2>5, <2>6, <2>7, BreadthOfVideos DEF BreadthKept
<1>2. CASE ~Choose
  <2>1. Chose /\ UNCHANGED <<chosen, coverage, hits, scope>>
    BY <1>2, ChoiceStands
  <2>2. ~Compare
    BY <2>1 DEF Compare
  <2> QED
    BY <2>1, <2>2, FaultsGrow DEF BreadthKept
<1> QED
  BY <1>1, <1>2

(***************************************************************************)
(* What an empty list of the MCP tool means.                               *)
(***************************************************************************)
\* A call that failed has left its mark, until the request has ended.
Missed ==
     /\ step \notin {"search", "ladder"}
     /\ step \in {"embed", "semantic"} => keyword = "failed"
     /\ step \in {"fuse", "list"} \/ Sent("nothing") => keyword = "failed" \/ semantic # "ran"

Marked ==
  endpoint = "mcp" =>
     /\ step \in {"ladder", "embed", "semantic"} => semantic # "ran"
     /\ faults > 0 => Missed

\* Nothing has been said before the end; and what was missing is said with it.
Reserved ==
  endpoint = "mcp" /\ Sent("nothing") =>
     step = "closed" /\ (Sent("note") \/ (semantic = "ran" /\ keyword = "ok"))

\* The chunks that a rung asks for.
Matching(k) == {c \in Admitted(there, filter) : meaning[c].rung <= Ladder[k]}
Fits == Len(Index) <= SearchCandidates

\* A rung that ran has its chunks in the lanes.
HasRung(k) == \A c \in Matching(k) : FoundBy(lanes) # {} /\ (Fits => c \in FoundBy(lanes))

InHits(k) == \A c \in Matching(k) : hits # <<>> /\ (Fits => c \in ToSet(hits))

VideosOf(S) == {VideoOf(c) : c \in S}

\* The ladder has gone to its foot, or has found enough videos.
Descended ==
  endpoint = "mcp" /\ keyword = "ok" =>
     /\ step = "ladder" => \A k \in 1..(rung - 1) : HasRung(k)
     /\ step \in {"embed", "semantic", "fuse"} =>
           \/ \A k \in DOMAIN Ladder : HasRung(k)
           \/ Cardinality(VideosOf(FoundBy(lanes))) >= KeywordVideoTarget
     /\ step = "list" =>
           \/ \A k \in DOMAIN Ladder : InHits(k)
           \/ hits # <<>> /\ (Fits => Cardinality(VideosOf(ToSet(hits))) >= KeywordVideoTarget)

ListInv == TypeInv /\ EarlyInv /\ DeletesCounted /\ Marked /\ Reserved /\ Descended

\* ListInv holds at the start.
LEMMA ListInit ==
  ASSUME Init
  PROVE  ListInv
<1>1. ~Sent("nothing") /\ faults = 0 /\ step = "understand"
  BY DEF Init, Sent
<1> QED
  BY <1>1, TypeInit, EarlyInit, CountInit DEF ListInv, Marked, Missed, Reserved, Descended

\* What a list of frames says.
Says(s, g) == \E i \in DOMAIN s : s[i] = g

\* What two lists of frames say, one after the other.
LEMMA SaidTogether ==
  ASSUME NEW s \in Seq(FrameType), NEW t \in Seq(FrameType), NEW g
  PROVE  Says(s \o t, g) <=> Says(s, g) \/ Says(t, g)
<1> DEFINE both == s \o t
<1>1. /\ \A i \in DOMAIN s : i \in DOMAIN both /\ both[i] = s[i]
      /\ \A i \in DOMAIN t : Len(s) + i \in DOMAIN both /\ both[Len(s) + i] = t[i]
      /\ \A k \in DOMAIN both : k \in DOMAIN s \/ k - Len(s) \in DOMAIN t
  OBVIOUS
<1>2. \A k \in DOMAIN both : k - Len(s) \in DOMAIN t => both[k] = t[k - Len(s)]
  OBVIOUS
<1> HIDE DEF both
<1>3. Says(both, g) <=> Says(s, g) \/ Says(t, g)
  BY <1>1, <1>2 DEF Says
<1> QED
  BY <1>3 DEF both

\* What a single frame says, and what none says.
LEMMA OneFrameSays ==
  ASSUME NEW g, NEW x
  PROVE  (Says(<<x>>, g) <=> g = x) /\ ~Says(<<>>, g)
BY DEF Says

\* What the steps of the MCP tool send.
LEMMA WhenNothingIsSaid ==
  ASSUME TypeInv, EarlyInv, Reserved, [Next]_vars, endpoint = "mcp", Sent("nothing")', ~Sent("nothing")
  PROVE  /\ List /\ step' = "closed" /\ Works /\ ~(hits = <<>> /\ LanesFailed)
         /\ chosen' = {} /\ chosen' = GroupHits(hits, there, MCPVideos)
         /\ Noted => Sent("note")'
<1>1. frames \in Seq(FrameType) /\ "failed" \in FrameType /\ "refused" \in FrameType
      /\ "no videos yet" \in FrameType
  BY DEF TypeInv, FrameType
<1>2. ~UNCHANGED frames
  BY DEF Sent
<1>3. \A f \in {"failed", "refused", "no videos yet"} : ~Send(f)
  <2>1. ASSUME NEW f \in {"failed", "refused", "no videos yet"}, Send(f) PROVE FALSE
    <3>1. f \in FrameType /\ f # "nothing"
      BY <1>1
    <3>2. Sent("nothing")' <=> Sent("nothing") \/ ("nothing" = f /\ ~gone)
      BY <1>1, <2>1, <3>1, SentBySend
    <3> QED
      BY <3>1, <3>2
  <2> QED
    BY <2>1
<1>4. List
  <2>1. ~RunSearch
    BY <1>2, <1>3 DEF RunSearch
  <2>2. step \in {"understand", "list", "closed"} \cup Searching
    BY DEF EarlyInv
  <2> QED
    BY <1>2, <2>1, <2>2 DEF Next, vars, Understand, Blank, Resolve, Search, Rung, Embedded,
         Semantic,
           Fuse, Choose, Sources, Note, Nothing, Unavailable, Token, Written, Close, Leave,
           Delete,
           Searching
<1> DEFINE a == IF Noted THEN <<"note">> ELSE <<>>
           b == IF chosen' = {} THEN <<"nothing">> ELSE <<"list">>
<1>5. /\ Works /\ ~(hits = <<>> /\ LanesFailed) /\ step' = "closed"
      /\ chosen' = GroupHits(hits, there, MCPVideos)
      /\ frames' = frames \o a \o b
  BY <1>2, <1>3, <1>4 DEF List
<1>6. a \in Seq(FrameType) /\ b \in Seq(FrameType)
  BY SomeFrames
<1>7. \A g : Sent(g)' <=> \/ Sent(g)
                          \/ Noted /\ g = "note"
                          \/ g = (IF chosen' = {} THEN "nothing" ELSE "list")
  <2> TAKE g
  <2>1. Says(a, g) <=> (Noted /\ g = "note")
    BY OneFrameSays
  <2>2. Says(b, g) <=> g = (IF chosen' = {} THEN "nothing" ELSE "list")
    BY OneFrameSays
  <2>3. Sent(g)' <=> Says(frames \o a \o b, g)
    <3>1. Sent(g)' <=> Says(frames', g)
      BY DEF Sent, Says
    <3> HIDE DEF a, b
    <3> QED
      BY <1>5, <3>1
  <2>4. Sent(g) <=> Says(frames, g)
    BY DEF Sent, Says
  <2> HIDE DEF a, b
  <2>5. frames \o a \in Seq(FrameType)
    BY <1>1, <1>6, FramesJoined
  <2>7. Says(frames \o a, g) <=> Says(frames, g) \/ Says(a, g)
    BY <1>1, <1>6, SaidTogether, Zenon
  <2>6. Says(frames \o a \o b, g) <=> Says(frames \o a, g) \/ Says(b, g)
    BY <1>6, <2>5, SaidTogether
  <2> QED
    BY <2>1, <2>2, <2>3, <2>4, <2>6, <2>7, Zenon
<1>8. chosen' = {} /\ (Noted => Sent("note")')
  BY <1>7
<1> QED
  BY <1>4, <1>5, <1>8

\* Every step keeps Marked and Reserved: a call of the MCP tool that failed leaves
\* its mark in keyword or semantic, and the note follows the mark.
LEMMA MarkedStep ==
  ASSUME ListInv, [Next]_vars
  PROVE  Marked' /\ Reserved'
<1> SUFFICES ASSUME endpoint' = "mcp" PROVE Marked' /\ Reserved'
  BY DEF Marked, Reserved
<1>1. /\ TypeInv /\ EarlyInv /\ Marked /\ Reserved /\ endpoint = "mcp"
      /\ step \in {"understand", "list", "closed"} \cup Searching
      /\ faults \in Nat /\ keyword \in {"ok", "failed"}
  BY WorldTypes DEF ListInv, EarlyInv, TypeInv, TypeOK
<1>2. step' \in {"ladder", "embed", "semantic"} => semantic' # "ran"
  BY <1>1 DEF Marked, Next, vars, world, search, Understand, Blank, Resolve, RunSearch,
         Search, Rung, Embedded, Semantic, Fuse, Choose, Sources, Note, Nothing, Unavailable,
         Token,
         Written, Close, List, Leave, Delete, Searching
<1>3. CASE Sent("nothing")' /\ ~Sent("nothing")
  <2>1. /\ List /\ step' = "closed" /\ faults' = faults /\ (Noted => Sent("note")')
    BY <1>1, <1>3, WhenNothingIsSaid DEF Works
  <2>2. step = "list" /\ keyword' = keyword /\ semantic' = semantic
    BY <2>1 DEF List, search
  <2> QED
    BY <1>1, <1>2, <2>1, <2>2 DEF Marked, Missed, Reserved, Noted
<1>4. CASE Sent("nothing")
  <2>1. step = "closed"
    BY <1>1, <1>4 DEF Reserved
  <2>2. UNCHANGED vars
    BY <1>1, <2>1 DEF Next, Understand, Blank, Resolve, RunSearch, Search, Rung, Embedded,
         Semantic,
           Fuse, Choose, Sources, Note, Nothing, Unavailable, Token, Written, Close, List,
           Leave, Delete
  <2> QED
    BY <1>1, <2>2 DEF vars, world, search, Marked, Missed, Reserved, Sent
<1>5. CASE ~Sent("nothing")' /\ ~Sent("nothing")
  <2>1. Reserved'
    BY <1>5 DEF Reserved
  <2> SUFFICES ASSUME faults' > 0
               PROVE  /\ step' \notin {"search", "ladder"}
                      /\ step' \in {"embed", "semantic"} => keyword' = "failed"
                      /\ step' \in {"fuse", "list"} => keyword' = "failed" \/ semantic' # "ran"
    BY <1>2, <1>5, <2>1 DEF Marked, Missed
  <2>2. CASE faults = 0
    <3>1. faults' # faults
      BY <2>2
    <3>2. RunSearch \/ Rung \/ Embedded \/ Semantic \/ List
      BY <1>1, <3>1 DEF Next, vars, Works, Understand, Blank, Resolve, Search, Fuse, Choose,
           Sources, Note, Nothing,
             Unavailable, Token, Written, Close, Leave, Delete, EarlyInv, Searching
    <3>3. CASE RunSearch
      BY <3>1, <3>3 DEF RunSearch, Works
    <3>4. CASE Rung
      BY <3>1, <3>4 DEF Rung, Works
    <3>5. CASE Embedded
      BY <1>1, <3>1, <3>5 DEF Embedded, Works, Marked
    <3>6. CASE Semantic
      <4>1. understood.topic = FALSE
        BY <1>1 DEF EarlyInv
      <4> QED
        BY <3>1, <3>6, <4>1 DEF Semantic, Works
    <3>7. CASE List
      BY <3>7 DEF List
    <3> QED
      BY <3>2, <3>3, <3>4, <3>5, <3>6, <3>7
  <2>3. CASE faults > 0
    <3>1. /\ step \notin {"search", "ladder"}
          /\ step \in {"embed", "semantic"} => keyword = "failed"
          /\ step \in {"fuse", "list"} => keyword = "failed" \/ semantic # "ran"
      BY <1>1, <2>3 DEF Marked, Missed
    <3>2. step \in {"embed", "semantic", "fuse", "list", "closed"}
      BY <1>1, <2>3, <3>1 DEF EarlyInv, Searching
    <3>3. CASE step \in {"embed", "semantic"}
      <4>1. keyword' = keyword /\ step' \in {"embed", "semantic", "fuse"}
        BY <1>1, <3>3 DEF Next, vars, world, search, Understand, Blank, Resolve, RunSearch,
               Search, Rung, Embedded, Semantic, Fuse, Choose, Sources, Note, Nothing,
               Unavailable, Token,
               Written, Close, List, Leave, Delete
      <4> QED
        BY <3>1, <3>3, <4>1
    <3>4. CASE step \in {"fuse", "list"}
      <4>1. keyword' = keyword /\ semantic' = semantic /\ step' \in {"fuse", "list", "closed"}
        BY <1>1, <3>4 DEF Next, vars, world, search, Understand, Blank, Resolve, RunSearch,
               Search, Rung, Embedded, Semantic, Fuse, Choose, Sources, Note, Nothing,
               Unavailable, Token,
               Written, Close, List, Leave, Delete
      <4> QED
        BY <3>1, <3>4, <4>1
    <3>5. CASE step = "closed"
      <4>1. step' = "closed"
        BY <1>1, <3>5 DEF Next, vars, world, search, Understand, Blank, Resolve, RunSearch,
               Search, Rung, Embedded, Semantic, Fuse, Choose, Sources, Note, Nothing,
               Unavailable, Token,
               Written, Close, List, Leave, Delete
      <4> QED
        BY <4>1
    <3> QED
      BY <3>2, <3>3, <3>4, <3>5
  <2> QED
    BY <1>1, <2>2, <2>3
<1> QED
  BY <1>3, <1>4, <1>5

\* The videos of some chunks, and of fewer.
LEMMA VideosOfChunks ==
  ASSUME NEW S \in SUBSET Chunks, NEW T \in SUBSET S
  PROVE  /\ VideosOf(S) \in SUBSET Videos /\ IsFiniteSet(VideosOf(S))
         /\ VideosOf(T) \in SUBSET VideosOf(S)
         /\ Cardinality(VideosOf(S)) \in Nat /\ Cardinality(VideosOf(T)) \in Nat
         /\ Cardinality(VideosOf(T)) <= Cardinality(VideosOf(S))
<1>1. VideosOf(S) \in SUBSET Videos /\ VideosOf(T) \in SUBSET VideosOf(S)
  BY ChunksAreFinite DEF VideosOf
<1> HIDE DEF VideosOf
<1>2. IsFiniteSet(VideosOf(S))
  BY <1>1, IndexAssumption, FS_Subset
<1>3. IsFiniteSet(VideosOf(T)) /\ Cardinality(VideosOf(T)) <= Cardinality(VideosOf(S))
  BY <1>1, <1>2, FS_Subset
<1> QED
  BY <1>1, <1>2, <1>3, FS_CardinalityType

\* What the lanes found, and its videos.
LEMMA FoundAreChunks ==
  ASSUME NEW ls \in Seq(LaneType)
  PROVE  /\ FoundBy(ls) \in SUBSET Chunks
         /\ UNION {VideosIn(ls[i].hits) : i \in DOMAIN ls} = VideosOf(FoundBy(ls))
<1>1. \A i \in DOMAIN ls : ls[i] \in LaneType
  OBVIOUS
<1>2. \A i \in DOMAIN ls : ls[i].hits \in Seq(Chunks)
  BY <1>1 DEF LaneType
<1>3. FoundBy(ls) \in SUBSET Chunks
  BY <1>2 DEF FoundBy, ToSet
<1>4. ASSUME NEW v
      PROVE  v \in UNION {VideosIn(ls[i].hits) : i \in DOMAIN ls} <=> v \in VideosOf(FoundBy(ls))
  <2>1. v \in VideosOf(FoundBy(ls))
          <=> \E i \in DOMAIN ls : \E j \in DOMAIN ls[i].hits : v = VideoOf(ls[i].hits[j])
    BY DEF VideosOf, FoundBy, ToSet
  <2>2. v \in UNION {VideosIn(ls[i].hits) : i \in DOMAIN ls}
          <=> \E i \in DOMAIN ls : \E j \in DOMAIN ls[i].hits : v = VideoOf(ls[i].hits[j])
    BY DEF VideosIn
  <2> QED
    BY <2>1, <2>2
<1> QED
  BY <1>3, <1>4

\* Deletions only shrink what a rung asks for.
LEMMA MatchingShrinks ==
  ASSUME meaning' = meaning, filter' = filter, there' \in SUBSET there, NEW k
  PROVE  Matching(k)' \subseteq Matching(k)
BY DEF Matching, Admitted

\* The rung that runs has its chunks in the lanes, and those before it keep theirs.
LEMMA RungHas ==
  ASSUME TypeInv, EarlyInv, [Next]_vars, Rung, keyword' = "ok", endpoint = "mcp",
         \A k \in 1..(rung - 1) : HasRung(k)
  PROVE  /\ \A k \in 1..rung : HasRung(k)'
         /\ lanes' \in Seq(LaneType) /\ rung \in DOMAIN Ladder
         /\ \/ step' = "embed" /\ rung' = rung /\ (rung = Len(Ladder) \/ Answered(lanes'))
            \/ step' = "ladder" /\ rung' = rung + 1
<1> DEFINE s == SearchFTS(there, meaning, Ladder[rung], Under)
<1>1. /\ lanes' = AddLane(lanes, KeywordLane(s, Ladder[rung]))
      /\ \/ step' = "embed" /\ rung' = rung /\ (rung = Len(Ladder) \/ Answered(lanes'))
         \/ step' = "ladder" /\ rung' = rung + 1
      /\ meaning' = meaning /\ filter' = filter /\ there' = there /\ step = "ladder"
  BY DEF Rung, world, request
<1>2. /\ lanes' \in Seq(LaneType) /\ FoundBy(lanes') = FoundBy(lanes) \cup ToSet(s)
  BY <1>1, RungLane
<1>3. Under = filter
  BY DEF EarlyInv, Under
<1>4. s \in Seq(Chunks) /\ (Matching(rung) # {} => s # <<>>) /\ (Fits => ToSet(s) = Matching(rung))
  BY <1>3, KeywordHits DEF Matching, Fits
<1> HIDE DEF s
<1>5. Matching(rung) # {} => ToSet(s) # {}
  <2>1. s # <<>> => 1 \in DOMAIN s
    BY <1>4
  <2> QED
    BY <1>4, <2>1 DEF ToSet
<1>6. \A k : Matching(k)' \subseteq Matching(k)
  BY <1>1, MatchingShrinks
<1>7. ASSUME NEW k, k = rung PROVE HasRung(k)'
  <2>1. \A c \in Matching(k) : FoundBy(lanes') # {} /\ (Fits => c \in FoundBy(lanes'))
    BY <1>2, <1>4, <1>5, <1>7
  <2> QED
    BY <1>6, <2>1 DEF HasRung
<1>8. ASSUME NEW k \in 1..(rung - 1) PROVE HasRung(k)'
  BY <1>2, <1>6, <1>8 DEF HasRung
<1>9. rung \in DOMAIN Ladder /\ rung \in 1..4
  BY <1>1 DEF TypeInv, TypeOK
<1>10. ASSUME NEW k \in 1..rung PROVE HasRung(k)'
  <2>1. k = rung \/ k \in 1..(rung - 1)
    BY <1>9
  <2> QED
    BY <1>7, <1>8, <2>1
<1> QED
  BY <1>1, <1>2, <1>9, <1>10

\* Every step keeps Descended: what the rungs found reaches the fused list.
LEMMA DescendedStep ==
  ASSUME ListInv, [Next]_vars
  PROVE  Descended'
<1> SUFFICES ASSUME endpoint' = "mcp", keyword' = "ok" PROVE Descended'
  BY DEF Descended
<1>1. /\ TypeInv /\ EarlyInv /\ Descended /\ endpoint = "mcp" /\ meaning' = meaning
      /\ there' \in SUBSET there /\ lanes \in Seq(LaneType)
  BY WorldTypes DEF ListInv, TypeInv
<1>2. KeywordVideoTarget \in Nat /\ KeywordVideoTarget > 0
  BY LimitsAssumption DEF KeywordVideoTarget
<1>3. CASE step' \notin {"ladder", "embed", "semantic", "fuse", "list"}
  BY <1>3 DEF Descended
<1>4. CASE Search
  <2>1. rung' = 1 /\ step' = IF Ladder = <<>> THEN "embed" ELSE "ladder"
    BY <1>4 DEF Search
  <2>2. CASE Ladder = <<>>
    BY <2>1, <2>2 DEF Descended
  <2>3. CASE Ladder # <<>>
    BY <2>1, <2>3 DEF Descended
  <2> QED
    BY <2>2, <2>3
<1>5. CASE Rung
  <2>1. step = "ladder" /\ keyword = "ok"
    BY <1>5 DEF Rung
  <2>2. \A k \in 1..(rung - 1) : HasRung(k)
    BY <1>1, <2>1 DEF Descended
  <2>3. /\ \A k \in 1..rung : HasRung(k)'
        /\ lanes' \in Seq(LaneType) /\ rung \in DOMAIN Ladder
        /\ \/ step' = "embed" /\ rung' = rung /\ (rung = Len(Ladder) \/ Answered(lanes'))
           \/ step' = "ladder" /\ rung' = rung + 1
    BY <1>1, <1>5, <2>2, RungHas
  <2>4. rung \in Nat /\ DOMAIN Ladder = 1..Len(Ladder) /\ Len(Ladder) \in Nat
    BY <2>3, LadderType
  <2>5. CASE step' = "ladder" /\ rung' = rung + 1
    <3>1. rung' - 1 = rung
      BY <2>4, <2>5
    <3>2. \A k \in 1..(rung' - 1) : HasRung(k)'
      BY <2>3, <3>1
    <3> QED
      BY <2>5, <3>2 DEF Descended
  <2>6. CASE step' = "embed" /\ rung = Len(Ladder)
    <3>1. \A k \in DOMAIN Ladder : HasRung(k)'
      BY <2>3, <2>4, <2>6
    <3> QED
      BY <2>6, <3>1 DEF Descended
  <2>7. CASE step' = "embed" /\ Answered(lanes')
    <3>1. Cardinality(VideosOf(FoundBy(lanes'))) >= KeywordVideoTarget
      BY <2>3, <2>7, FoundAreChunks DEF Answered
    <3> QED
      BY <2>7, <3>1 DEF Descended
  <2> QED
    BY <2>3, <2>5, <2>6, <2>7
<1>6. ASSUME FoundBy(lanes) \subseteq FoundBy(lanes'), lanes' \in Seq(LaneType),
             filter' = filter, keyword' = keyword,
             step \in {"embed", "semantic", "fuse"}, step' \in {"embed", "semantic", "fuse"}
      PROVE  Descended'
  <2>1. CASE \A k \in DOMAIN Ladder : HasRung(k)
    <3>1. ASSUME NEW k \in DOMAIN Ladder PROVE HasRung(k)'
      <4>1. Matching(k)' \subseteq Matching(k)
        BY <1>1, <1>6, MatchingShrinks
      <4> QED
        BY <1>6, <2>1, <4>1 DEF HasRung
    <3> QED
      BY <1>6, <3>1 DEF Descended
  <2>2. CASE Cardinality(VideosOf(FoundBy(lanes))) >= KeywordVideoTarget
    <3>1. FoundBy(lanes') \in SUBSET Chunks
      BY <1>6, FoundAreChunks
    <3>2. /\ Cardinality(VideosOf(FoundBy(lanes))) \in Nat
          /\ Cardinality(VideosOf(FoundBy(lanes'))) \in Nat
          /\ Cardinality(VideosOf(FoundBy(lanes))) <= Cardinality(VideosOf(FoundBy(lanes')))
      BY <1>6, <3>1, VideosOfChunks
    <3>3. Cardinality(VideosOf(FoundBy(lanes'))) >= KeywordVideoTarget
      BY <1>2, <2>2, <3>2
    <3> QED
      BY <1>6, <3>3 DEF Descended
  <2> QED
    BY <1>1, <1>6, <2>1, <2>2 DEF Descended
<1>7. CASE Embedded
  <2>1. /\ lanes' = lanes /\ filter' = filter /\ keyword' = keyword
        /\ step = "embed" /\ step' \in {"embed", "semantic", "fuse"}
    BY <1>7 DEF Embedded, request
  <2> QED
    BY <1>1, <1>6, <2>1
<1>8. CASE Semantic
  <2>1. /\ filter' = filter /\ keyword' = keyword /\ step = "semantic" /\ step' = "fuse"
    BY <1>8 DEF Semantic, request
  <2>2. lanes' \in Seq(LaneType) /\ FoundBy(lanes) \subseteq FoundBy(lanes')
    BY <1>1, <1>8, SemanticLanes
  <2> QED
    BY <1>6, <2>1, <2>2
<1>9. CASE Fuse
  <2>1. /\ hits' = FuseWeighted(lanes) /\ step = "fuse" /\ step' = "list"
        /\ filter' = filter /\ keyword = "ok"
    BY <1>1, <1>9 DEF Fuse, request
  <2>2. /\ FoundBy(lanes) # {} => hits' # <<>>
        /\ Fits => ToSet(hits') = FoundBy(lanes)
    BY <1>1, <2>1, Fused DEF Fits
  <2>3. CASE \A k \in DOMAIN Ladder : HasRung(k)
    <3>1. ASSUME NEW k \in DOMAIN Ladder PROVE InHits(k)'
      <4>1. Matching(k)' \subseteq Matching(k)
        BY <1>1, <2>1, MatchingShrinks
      <4> QED
        BY <2>2, <2>3, <4>1 DEF HasRung, InHits
    <3> QED
      BY <2>1, <3>1 DEF Descended
  <2>4. CASE Cardinality(VideosOf(FoundBy(lanes))) >= KeywordVideoTarget
    <3>1. FoundBy(lanes) # {}
      <4>1. VideosOf({}) = {} /\ Cardinality({}) = 0
        BY FS_EmptySet DEF VideosOf
      <4> QED
        BY <1>2, <2>4, <4>1
    <3>2. hits' # <<>> /\ (Fits => Cardinality(VideosOf(ToSet(hits'))) >= KeywordVideoTarget)
      BY <2>2, <2>4, <3>1
    <3> QED
      BY <2>1, <3>2 DEF Descended
  <2> QED
    BY <1>1, <2>1, <2>3, <2>4 DEF Descended
\* Someone leaves, or a video is deleted.
<1>10. CASE UNCHANGED <<step, rung, lanes, hits, keyword, filter>>
  <2>1. ASSUME NEW k
        PROVE  (HasRung(k) => HasRung(k)') /\ (InHits(k) => InHits(k)')
    <3>1. Matching(k)' \subseteq Matching(k)
      BY <1>1, <1>10, MatchingShrinks
    <3> QED
      BY <1>10, <3>1 DEF HasRung, InHits
  <2>2. (\A k \in 1..(rung - 1) : HasRung(k)) => \A k \in 1..(rung' - 1) : HasRung(k)'
    BY <1>10, <2>1
  <2>3. /\ (\A k \in DOMAIN Ladder : HasRung(k)) => \A k \in DOMAIN Ladder : HasRung(k)'
        /\ (\A k \in DOMAIN Ladder : InHits(k)) => \A k \in DOMAIN Ladder : InHits(k)'
    BY <2>1
  <2> QED
    BY <1>1, <1>10, <2>2, <2>3 DEF Descended
<1>11. \/ step' \notin {"ladder", "embed", "semantic", "fuse", "list"}
       \/ Search \/ Rung \/ Embedded \/ Semantic \/ Fuse
       \/ UNCHANGED <<step, rung, lanes, hits, keyword, filter>>
  BY <1>1 DEF Next, vars, world, search, found, request, Understand, Blank, Resolve, RunSearch,
       Choose,
         Sources, Note, Nothing, Unavailable, Token, Written, Close, List, Leave, Delete,
         SendOrLeave
<1> QED
  BY <1>3, <1>4, <1>5, <1>7, <1>8, <1>9, <1>10, <1>11

\* Every step keeps NothingMeansNothing.
LEMMA NothingStep ==
  ASSUME ListInv, NothingMeansNothing, [Next]_vars
  PROVE  NothingMeansNothing'
<1> SUFFICES ASSUME endpoint' = "mcp", Sent("nothing")' PROVE NothingMeansNothing'
  BY DEF NothingMeansNothing
<1>1. /\ TypeInv /\ EarlyInv /\ DeletesCounted /\ Marked /\ Reserved /\ Descended
      /\ endpoint = "mcp" /\ faults \in Nat /\ deletes \in Nat /\ keyword \in {"ok", "failed"}
  BY WorldTypes DEF ListInv, TypeInv, TypeOK
<1>2. CASE Sent("nothing")
  <2>1. step = "closed"
    BY <1>1, <1>2 DEF Reserved
  <2>2. UNCHANGED vars
    BY <1>1, <2>1 DEF Next, Understand, Blank, Resolve, RunSearch, Search, Rung, Embedded,
         Semantic,
           Fuse, Choose, Sources, Note, Nothing, Unavailable, Token, Written, Close, List,
           Leave, Delete
  <2> QED
    BY <1>2, <2>2 DEF vars, world, search, request, NothingMeansNothing, Sent
<1>3. CASE ~Sent("nothing")
  <2>1. /\ List /\ Works /\ ~(hits = <<>> /\ LanesFailed)
        /\ GroupHits(hits, there, MCPVideos) = {}
        /\ Noted => Sent("note")'
    BY <1>1, <1>3, WhenNothingIsSaid
  <2>2. /\ step = "list" /\ faults' = faults /\ deletes' = deletes /\ there' = there
        /\ meaning' = meaning /\ filter' = filter /\ keyword' = keyword
    BY <2>1 DEF List, Works, world, search, request
  <2>3. hits \in Seq(Chunks) /\ Distinct(hits) /\ ToSet(hits) \in SUBSET Chunks
    BY <1>1 DEF TypeInv, ToSet
\* No hit can be read any more.
  <2>4. \A c \in ToSet(hits) : VideoOf(c) \in Videos \ there
    <3>1. MCPVideos \in Nat \ {0}
      BY AskAssumption
    <3> QED
      BY <2>1, <2>3, <3>1, SomethingIsShown, ChunksAreFinite
  <2>5. hits # <<>> => deletes > 0
    <3> SUFFICES ASSUME hits # <<>>, ~(deletes > 0) PROVE FALSE
      OBVIOUS
    <3>1. there = Videos
      BY <1>1, NothingDeleted
    <3>2. hits[1] \in ToSet(hits)
      BY <2>3 DEF ToSet
    <3> QED
      BY <2>4, <3>1, <3>2
  <2>6. Sent("note")' \/ faults' = 0
    <3> SUFFICES ASSUME ~Sent("note")' PROVE faults = 0
      BY <2>2
    <3>1. semantic = "ran" /\ keyword = "ok"
      BY <1>1, <2>1 DEF Noted
    <3> QED
      BY <1>1, <2>2, <3>1 DEF Marked, Missed
  <2>7. deletes' > 0 \/ keyword' = "ok"
    BY <1>1, <2>1, <2>2, <2>5 DEF LanesFailed
  <2>8. ASSUME keyword = "ok",
               deletes = 0 \/ (deletes < KeywordVideoTarget /\ Fits),
               NEW i \in DOMAIN Ladder, NEW c \in Matching(i)
        PROVE  FALSE
    <3>1. c \in Chunks /\ VideoOf(c) \in there
      BY DEF Matching, Admitted
    <3>2. CASE hits = <<>>
      BY <1>1, <2>2, <2>8, <3>2 DEF Descended, InHits
    <3>3. CASE hits # <<>>
      <4>1. deletes < KeywordVideoTarget /\ Fits
        BY <2>5, <2>8, <3>3
      <4>2. c \notin ToSet(hits)
        BY <2>4, <3>1
      <4>3. Cardinality(VideosOf(ToSet(hits))) >= KeywordVideoTarget
        BY <1>1, <2>2, <2>8, <4>1, <4>2 DEF Descended, InHits
      <4>4. VideosOf(ToSet(hits)) \in SUBSET (Videos \ there)
        BY <2>4 DEF VideosOf
      <4> DEFINE V == VideosOf(ToSet(hits))
                 D == Videos \ there
      <4>5. IsFiniteSet(D) /\ Cardinality(D) = deletes
        BY <1>1 DEF DeletesCounted
      <4>6. KeywordVideoTarget \in Nat
        BY LimitsAssumption DEF KeywordVideoTarget
      <4> HIDE DEF V, D
      <4>7. IsFiniteSet(V) /\ Cardinality(V) <= deletes
        BY <4>4, <4>5, FS_Subset DEF V, D
      <4>8. Cardinality(V) \in Nat
        BY <4>7, FS_CardinalityType
      <4> QED
        BY <1>1, <4>1, <4>3, <4>6, <4>7, <4>8 DEF V
    <3> QED
      BY <3>2, <3>3
  <2>9. ASSUME keyword' = "ok",
               deletes' = 0 \/ (deletes' < KeywordVideoTarget /\ Len(Index) <= SearchCandidates),
               NEW c \in Chunks, VideoOf(c) \in there', Admits(filter', VideoOf(c)),
               NEW i \in DOMAIN Ladder
        PROVE  meaning'[c].rung > Ladder[i]
    <3>1. c \in Admitted(there, filter)
      BY <2>2, <2>9 DEF Admitted
    <3>2. c \notin Matching(i)
      BY <2>2, <2>8, <2>9 DEF Fits
    <3>3. meaning[c].rung \in Nat /\ Ladder[i] \in 1..4
      BY <1>1, LadderType DEF TypeInv, MeaningType
    <3> QED
      BY <2>2, <3>1, <3>2, <3>3 DEF Matching
  <2> QED
    BY <2>6, <2>7, <2>9 DEF NothingMeansNothing
<1> QED
  BY <1>2, <1>3

(***************************************************************************)
(* The theorems.                                                           *)
(***************************************************************************)
\* All of the invariants together.
AskInv == HonestInv /\ ListInv /\ ShownIsListed /\ BreadthKept /\ NothingMeansNothing

\* Every part of the invariant holds at the start.
LEMMA AskInit ==
  ASSUME Init
  PROVE  AskInv
<1>1. ~Chose
  BY DEF Init, Chose
<1>2. ~Sent("nothing")
  BY DEF Init, Sent
<1> QED
  BY <1>1, <1>2, HonestInit, ListInit
     DEF AskInv, ShownIsListed, BreadthKept, NothingMeansNothing

\* Every step keeps the invariant, each part from the others.
LEMMA AskStep ==
  ASSUME AskInv, [Next]_vars
  PROVE  AskInv'
<1>1. TypeInv /\ EarlyInv /\ DeletesCounted
  BY DEF AskInv, ListInv
<1>2. ListInv'
  BY <1>1, TypeStep, EarlyStep, CountStep, MarkedStep, DescendedStep DEF AskInv, ListInv
<1>3. ShownIsListed' /\ BreadthKept'
  BY <1>1, ShownStep, BreadthStep DEF AskInv
<1>4. NothingMeansNothing'
  BY NothingStep DEF AskInv
<1> QED
  BY <1>2, <1>3, <1>4, HonestStep DEF AskInv

\* The invariant holds in every state.
LEMMA AskHolds == Spec => []AskInv
<1>1. Init => AskInv
  BY AskInit
<1>2. AskInv /\ [Next]_vars => AskInv'
  BY AskStep
<1> QED
  BY <1>1, <1>2, PTL DEF Spec

\* The variables keep their types.
THEOREM TypeCorrect == Spec => []TypeOK
<1>1. AskInv => TypeOK
  BY DEF AskInv, ListInv, TypeInv
<1> QED
  BY <1>1, AskHolds, PTL

\* Every video the model was shown is on the list beside the answer, except where
\* reads failed and worked again (handleAnswer, coverageVideos).
THEOREM WhatIsShownIsListed == Spec => []ShownIsListed
<1>1. AskInv => ShownIsListed
  BY DEF AskInv
<1> QED
  BY <1>1, AskHolds, PTL

\* As many videos are quoted as were found and could be read, up to the breadth
\* there is room for, and the best passage is among the quotes (chooseExcerpts).
THEOREM BreadthIsKept == Spec => []BreadthKept
<1>1. AskInv => BreadthKept
  BY DEF AskInv
<1> QED
  BY <1>1, AskHolds, PTL

\* A constraint that the question stated is honoured by every source, or the reader
\* is told before any word of the model's (deterministicNote).
THEOREM QuestionsAreHonoured == Spec => []HonouredOrTold
<1>1. AskInv => HonouredOrTold
  BY HonestShows DEF AskInv
<1> QED
  BY <1>1, AskHolds, PTL

\* When the MCP tool says that no video matches, none it could have returned does
\* (mcpLibrary.Search).
THEOREM AnEmptyListMeansNothing == Spec => []NothingMeansNothing
<1>1. AskInv => NothingMeansNothing
  BY DEF AskInv
<1> QED
  BY <1>1, AskHolds, PTL
=============================================================================
