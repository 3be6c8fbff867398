----------------------------- MODULE Retrieval -----------------------------
(***************************************************************************)
(* The retrievers of 04-rag/ragkit/retrieval.py and the vector store they  *)
(* search (vectorstore.py), as operators on an index, a sequence of chunks *)
(* in the order they were added.                                           *)
(*                                                                         *)
(* A text is told from another by its words and by how close it is to a    *)
(* question.  BM25's weights (idf, saturation, length) are left out: a     *)
(* score is any function of the text that is positive where the text       *)
(* shares a word with the question, since terms it lacks add nothing and   *)
(* idf is positive.  Scores are compared and never added, except the       *)
(* reciprocal ranks of the fusion, which are kept exact.                   *)
(***************************************************************************)
EXTENDS Integers, SequencesExt

CONSTANTS
  Texts,      \* texts of chunks
  Questions,  \* queries
  Sources,    \* documents by path, each of one tenant
  Words,      \* Words[t]: the tokens of a text or of a question
  Cosine,     \* Cosine[q][t]: similarity of the two embeddings, in hundredths
  Reciprocal, \* Reciprocal[rank]: 1 / (60 + rank), over a common denominator
  MaxScore    \* bound: of the scores of BM25 and of a reranker

ASSUME RetrievalAssumption ==
  /\ DOMAIN Words = Texts \union Questions
  /\ IsFiniteSet(UNION {Words[t] : t \in DOMAIN Words})
  /\ Cosine \in [Questions -> [Texts -> -100 .. 100]]
  /\ Reciprocal \in Seq(Nat \ {0})
  /\ \A r, s \in DOMAIN Reciprocal : Reciprocal[r] * (60 + r) = Reciprocal[s] * (60 + s)
  /\ MaxScore \in Nat

\* A metadata filter: the sources it lets through.
Filtered(index, where) == {i \in DOMAIN index : index[i].source \in where}
Take(seq, k) == SubSeq(seq, 1, Min({k, Len(seq)}))

SumOf(numbers) == FoldLeft(LAMBDA m, n : m + n, 0, numbers)

\* list.sort on the negated score: stable, best first.  The n-th has n - 1 others
\* before it.
Preceding(p, scored) == {r \in scored : r[1] > p[1] \/ (r[1] = p[1] /\ r[2] < p[2])}
Ranked(indices, score) ==
  LET scored == {<<score[i], i>> : i \in indices}
  IN  [n \in 1 .. Cardinality(indices) |->
         (CHOOSE p \in scored : Cardinality(Preceding(p, scored)) = n - 1)[2]]

\* BM25Retriever.retrieve: only chunks that score above zero are returned.
Matching(q) == {t \in Texts : Words[t] \cap Words[q] # {}}
Scores(q) == {s \in [Texts -> 0 .. MaxScore] : \A t \in Texts : s[t] > 0 <=> t \in Matching(q)}
\* Mutant: the filter is left to the dense side.
BM25_unfiltered(index, score, k, where) ==
  LET hits == {i \in DOMAIN index : score[index[i].text] > 0}
      ranking == Ranked(hits, [i \in hits |-> score[index[i].text]])
  IN  [n \in DOMAIN Take(ranking, k) |-> index[ranking[n]]]
BM25(index, score, k, where) ==
  LET hits == {i \in Filtered(index, where) : score[index[i].text] > 0}
      ranking == Ranked(hits, [i \in hits |-> score[index[i].text]])
  IN  [n \in DOMAIN Take(ranking, k) |-> index[ranking[n]]]

\* The candidates nearest to a question: as close as each other, they come in any
\* order (argpartition is not stable).
Nearest(store, q, k, candidates) ==
  LET score == [i \in candidates |-> Cosine[q][store[i].text]]
      best == Take(Ranked(candidates, score), k)
      orders == {p \in [DOMAIN best -> candidates] :
                   /\ IsInjective(p)
                   /\ \A n \in DOMAIN best : score[p[n]] = score[best[n]]}
  IN  {[n \in DOMAIN best |-> store[p[n]]] : p \in orders}

\* InMemoryVectorStore.search: the filter comes before the ranking.
Searches(store, q, k, where) == Nearest(store, q, k, Filtered(store, where))

\* vector_for: the vector of the first stored chunk of that id; its text stands
\* for the vector, and an empty set for None.
VectorFor(store, id) ==
  LET at == {i \in DOMAIN store : store[i].id = id}
  IN  IF at = {} THEN {} ELSE {store[Min(at)].text}

\* reciprocal_rank_fusion: each ranking votes for its chunks by their ranks.
Fuse(rankings) ==
  LET all == FlattenSeq(rankings)
      ids == {all[i].id : i \in DOMAIN all}
      First(id) == Min({i \in DOMAIN all : all[i].id = id})
      Votes(ranking, id) ==
        SumOf([r \in DOMAIN ranking |-> IF ranking[r].id = id THEN Reciprocal[r] ELSE 0])
      Total(id) == SumOf([n \in DOMAIN rankings |-> Votes(rankings[n], id)])
      firsts == {First(id) : id \in ids}
      ordered == Ranked(firsts, [i \in firsts |-> Total(all[i].id)])
  IN  [n \in DOMAIN ordered |-> all[ordered[n]]]

\* HybridRetriever.retrieve: both sides are asked for fetch_k.
Hybrid(dense, sparse, k) == Take(Fuse(<<dense, sparse>>), k)

\* LLMReranker.rerank and CrossEncoderReranker.rerank: any score, 0 for a reply
\* without a number.
Rerank(candidates, score, k) ==
  LET order == Take(Ranked(DOMAIN candidates, [i \in DOMAIN candidates |-> score[candidates[i].text]]), k)
  IN  [n \in DOMAIN order |-> candidates[order[n]]]

-----------------------------------------------------------------------------
\* The rest is not used by the pipeline: callers put it around a retriever, or
\* in the place of the store.

\* IVFIndex.search: only the lists nearest to the query are looked at.  Which
\* text is in which list, and which lists are probed, is whatever the clustering
\* makes it.
IVF(store, q, k, where, list, probes) ==
  Nearest(store, q, k, {i \in Filtered(store, where) : list[store[i].text] \in probes})

\* ChromaVectorStore over the same additions: the collection ignores an id it has,
\* _by_id keeps the last chunk of it, and the filter comes after the nearest are
\* cut off (five times as many when there is one).  A batch that repeats an id,
\* which Chroma refuses, is taken as several additions.
Chroma(added, q, k, where) ==
  LET last == {i \in DOMAIN added : \A j \in i + 1 .. Len(added) : added[j].id # added[i].id}
      near == Take(Ranked(last, [i \in last |-> Cosine[q][added[i].text]]),
                   IF where = Sources THEN k ELSE 5 * k)
      passing == Filtered(added, where)
      hits == Take(FlattenSeq([n \in DOMAIN near |->
                                 IF near[n] \in passing THEN <<near[n]>> ELSE <<>>]), k)
  IN  [n \in DOMAIN hits |-> added[hits[n]]]

\* recall_at_k of an approximate result: <<found, exact>>.
ANNRecall(approximate, exact) ==
  LET ids == {exact[n].id : n \in DOMAIN exact}
  IN  IF exact = <<>> THEN <<1, 1>>
      ELSE <<Cardinality({n \in DOMAIN approximate : approximate[n].id \in ids}), Cardinality(ids)>>

\* maximal_marginal_relevance, with lambda in hundredths and closeness between
\* texts a parameter: the most relevant first, then the best trade-off each
\* time, the first of equals (a strict comparison) in the order given.  There is
\* always a first one.
TradeOff(q, candidates, close, lambda, chosen, i) ==
  LET redundancy == Max({close[candidates[i].text][candidates[chosen[j]].text] : j \in DOMAIN chosen})
  IN  lambda * Cosine[q][candidates[i].text] - (100 - lambda) * redundancy
FirstBest(indices, score) == Min({i \in indices : score[i] = Max({score[j] : j \in indices})})
ChooseOne(q, candidates, close, lambda, chosen) ==
  LET left == DOMAIN candidates \ ToSet(chosen)
  IN  FirstBest(left, [i \in left |-> TradeOff(q, candidates, close, lambda, chosen, i)])
MMR(q, candidates, close, k, lambda) ==
  LET relevance == [i \in DOMAIN candidates |-> Cosine[q][candidates[i].text]]
      size == Max({1, Min({k, Len(candidates)})})
      picks[n \in 1 .. size] ==
        IF n = 1 THEN <<FirstBest(DOMAIN candidates, relevance)>>
        ELSE Append(picks[n - 1], ChooseOne(q, candidates, close, lambda, picks[n - 1]))
  IN  IF candidates = <<>> THEN <<>> ELSE [n \in 1 .. size |-> candidates[picks[size][n]]]

\* ParentChildRetriever.retrieve over the children found with k * 3: the parent
\* of the first k children that have different ones.  Alike, they keep their order.
Parents(children, parent, k) ==
  LET firsts == {i \in DOMAIN children :
                   \A j \in 1 .. i - 1 : parent[children[j]] # parent[children[i]]}
      order == Take(Ranked(firsts, [i \in firsts |-> 0]), k)
  IN  [n \in DOMAIN order |-> parent[children[order[n]]]]
=============================================================================
