------------------------------ MODULE Retrieval ------------------------------
(***************************************************************************)
(* How a question becomes evidence: it is searched in several wordings at  *)
(* once, the hits are fused, reranked by a model and put before the        *)
(* evidence gate.  Scores are hundredths.  Nothing is shared with others   *)
(* between the awaits of a retrieval, so it is two steps: the searches,    *)
(* which end together (gather), and the reranking with what follows.       *)
(*                                                                         *)
(* A passage is a (document, page, text): several points of the vector     *)
(* store may hold one, so one search may find it twice.  The wordings are  *)
(* the question, its variants by rule and what the model makes of it, as   *)
(* many as there is room for; an answer of the tool manager's cache is one *)
(* of the results a retrieval may have.                                    *)
(***************************************************************************)
EXTENDS Naturals, Sequences, FiniteSets, FiniteSetsExt

CONSTANTS
  Passages,         \* the passages the vector store can find
  SearchScores,     \* the scores it can give
  MaxQueries,       \* retrieval_max_queries
  Recall,           \* retrieval_recall_per_query
  Limits,           \* what a caller may want of the fused list; no more than is reranked
  Failed,           \* the search raised
  Unscored,         \* the reranker says nothing of a passage
  NaN,              \* json.loads takes NaN for a number
  Verdicts,         \* what else the reranker may give for relevance or coverage
  FullAnswer, FullRelevance, FullCoverage, MinimumHits,  \* for a full answer
  PartialRelevance, PartialVector,                       \* for any
  TopK              \* retrieval_final_top_k

ASSUME RetrievalAssumption ==
  /\ SearchScores \subseteq 1..100 /\ Verdicts \subseteq Nat
  /\ MaxQueries \in Nat \ {0} /\ Recall \in Nat \ {0} /\ Limits \subseteq Nat /\ TopK \in Nat \ {0}
  /\ {FullAnswer, FullRelevance, FullCoverage, MinimumHits,
      PartialRelevance, PartialVector} \subseteq Nat
  /\ NaN \notin Nat

VARIABLE search  \* the retrieval that is going on

Levels == {"full", "partial", "insufficient"}

(* "kept" is the fused list, its order is in the keys of its members.       *)
(* History: the best score each passage was found with, whether the list    *)
(* was cut, whether every search failed, whether the reranker had no word.  *)
NoSearch == [pc |-> "none"]
Asked == [pc |-> "asked"]
Candidate == [passage : Passages, best : Nat, count : Nat, fused : Nat, first : Nat]
Searches ==
  {NoSearch, Asked}
    \cup [pc : {"recalled"}, kept : SUBSET Candidate, found : [Passages -> Nat],
          cut : BOOLEAN, down : BOOLEAN]
    \cup [pc : {"decided"}, level : Levels, cited : SUBSET Passages,
          found : [Passages -> Nat], cut : BOOLEAN, down : BOOLEAN, fellBack : BOOLEAN]

(* The lists of hits a search can return, best first.                       *)
Hits == [passage : Passages, score : SearchScores]
Lists == {s \in UNION {[1..n -> Hits] : n \in 0..Recall} :
            \A i, j \in DOMAIN s : i < j => s[i].score >= s[j].score}

-----------------------------------------------------------------------------
(* fuse_hits() *)

(* Where passage p was found: a query and the rank there.                   *)
Places(results, p) ==
  {x \in (DOMAIN results) \X (1..Recall) :
     /\ results[x[1]] # Failed
     /\ x[2] \in DOMAIN results[x[1]] /\ results[x[1]][x[2]].passage = p}

ScoreAt(results, x) == results[x[1]][x[2]].score

(* Mutant of Best: the last hit replaces the ones before it.                *)
LastScore(results, P) ==
  ScoreAt(results, CHOOSE x \in P : \A y \in P : y[1] < x[1] \/ (y[1] = x[1] /\ y[2] <= x[2]))
Best(results, P) == Max({ScoreAt(results, x) : x \in P})

(* hit.score + 1.0 / (rank + 10), in units of 1/100000.                     *)
Weight(results, x) == 1000 * ScoreAt(results, x) + 100000 \div (x[2] + 10)
TotalWeight(results, P) == MapThenSumSet(LAMBDA x : Weight(results, x), P)

(* "first" is greater the earlier the passage was first met.                *)
FusedOf(results, p) ==
  LET P == Places(results, p)
  IN [passage |-> p,
      best |-> Best(results, P),
      count |-> Cardinality(P),
      fused |-> TotalWeight(results, P),
      first |-> Max({(MaxQueries - x[1] + 1) * (Recall + 1) - x[2] : x \in P})]

Fused(results) == {FusedOf(results, p) : p \in {q \in Passages : Places(results, q) # {}}}

(* The order of sorted(..., reverse=True), by several keys.                 *)
Higher(u, v) == \E k \in DOMAIN u : u[k] > v[k] /\ \A j \in 1..k - 1 : u[j] = v[j]

FusionKey(c) == <<c.count, c.best, c.fused, c.first>>
Cut(C, n) == {c \in C : Cardinality({d \in C : Higher(FusionKey(d), FusionKey(c))}) < n}

(* _build_queries and the searches: a rewriting that fails leaves the       *)
(* question itself, a search that fails leaves the others.                  *)
Search ==
  /\ search.pc = "asked"
  /\ \E n \in 1..MaxQueries, limit \in Limits : \E results \in [1..n -> Lists \cup {Failed}] :
       LET C == Fused(results)
       IN search' = [pc |-> "recalled", kept |-> Cut(C, limit),
                     found |-> [p \in Passages |->
                                 Max({0} \cup {ScoreAt(results, x) : x \in Places(results, p)})],
                     cut |-> Cardinality(C) > limit,
                     down |-> \A q \in 1..n : results[q] = Failed]

-----------------------------------------------------------------------------
(* rerank() *)

(* max(0.0, min(1.0, value)): Python's min keeps 1.0 when the other is NaN. *)
Clamp(x) == IF x = NaN \/ x > 100 THEN 100 ELSE x

FallbackRelevance(c) == c.best
FallbackCoverage(c) == IF c.count >= 2 THEN 100 ELSE 50 * c.count

Opinions == [relevance : Verdicts \cup {NaN}, coverage : Verdicts \cup {NaN}]

Relevance(c, opinion) ==
  IF opinion = Unscored THEN FallbackRelevance(c) ELSE Clamp(opinion.relevance)
Coverage(c, opinion) ==
  IF opinion = Unscored THEN FallbackCoverage(c) ELSE Clamp(opinion.coverage)

(* The candidates in their new order: that of the scores, or still that of  *)
(* the fusion if the model failed or scored nothing.                        *)
Ranked(kept, reply, fellBack) ==
  {[passage |-> c.passage, best |-> c.best, count |-> c.count,
    relevance |-> Relevance(c, reply[c]), coverage |-> Coverage(c, reply[c]),
    key |-> IF fellBack THEN FusionKey(c)
            ELSE <<Relevance(c, reply[c]), Coverage(c, reply[c]), c.fused>> \o FusionKey(c)] : c \in kept}

-----------------------------------------------------------------------------
(* evaluate() of the evidence gate *)

Usable(R) == {c \in R : c.relevance >= PartialRelevance /\ c.best >= PartialVector}
Tops(U) == {c \in U : \A d \in U : ~Higher(d.key, c.key)}
IsFull(c) ==
  /\ c.best >= FullAnswer /\ c.relevance >= FullRelevance
  /\ c.coverage >= FullCoverage /\ c.count >= MinimumHits

Level(U) == IF U = {} THEN "insufficient"
            ELSE IF \A c \in Tops(U) : IsFull(c) THEN "full" ELSE "partial"

Citations(U) ==
  {c.passage : c \in {d \in U : Cardinality({e \in U : Higher(e.key, d.key)}) < TopK}}

Decide(reply, fellBack) ==
  LET U == Usable(Ranked(search.kept, reply, fellBack))
  IN search' = [pc |-> "decided", level |-> Level(U), cited |-> Citations(U),
                found |-> search.found, cut |-> search.cut, down |-> search.down,
                fellBack |-> fellBack]

(* The reply may leave candidates out, and score what is not there.         *)
Rerank ==
  /\ search.pc = "recalled" /\ search.kept # {}
  /\ \E reply \in [search.kept -> Opinions \cup {Unscored}] : Decide(reply, FALSE)

FallBack ==
  /\ search.pc = "recalled"
  /\ Decide([c \in search.kept |-> Unscored], TRUE)

RetrievalStep == Search \/ Rerank \/ FallBack

-----------------------------------------------------------------------------
(* Properties *)

(* What the model says of the passages can refuse an answer or order its    *)
(* sources, but it cannot make evidence: every citation was found by a      *)
(* search that answered, near enough to the question, and a full answer     *)
(* rests on one found nearer still.                                         *)
CitedWasFound ==
  /\ \A p \in search.cited : search.found[p] >= PartialVector
  /\ search.level = "full" => \E p \in search.cited : search.found[p] >= FullAnswer

(* Without the model the gate answers exactly the questions for which a     *)
(* search found a passage good enough, whichever searches failed, how often *)
(* and in which wording it was found; only a list that was cut loses one.   *)
FoundIsAnswered ==
  (search.fellBack /\ ~search.cut) =>
    (search.level # "insufficient"
       <=> \E p \in Passages : /\ search.found[p] > 0
                                /\ search.found[p] >= PartialVector
                                /\ search.found[p] >= PartialRelevance)

EvidenceIsWhatWasFound == search.pc = "decided" => CitedWasFound /\ FoundIsAnswered
=============================================================================
