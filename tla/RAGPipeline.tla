---------------------------- MODULE RAGPipeline ----------------------------
(***************************************************************************)
(* RAGPipeline (04-rag/ragkit/pipeline.py) with its vector store, its BM25 *)
(* index and its caching embedder: documents are ingested in batches, the  *)
(* embedder may fail, chunks are deleted from the store, questions are     *)
(* answered from what the two indexes return.                              *)
(*                                                                         *)
(* The pipeline is called from one thread.  The embedding of a text is the *)
(* text itself (the embedder is deterministic), and a document's content   *)
(* stands for its hash.                                                    *)
(***************************************************************************)
EXTENDS Retrieval

CONSTANTS
  Contents,      \* contents of documents
  NoContent,     \* no document ingested under that source
  Pieces,        \* Pieces[c]: the texts the chunker makes of a content
  Tokens,        \* Tokens[t]: max(1, len(text) // 4)
  Configs,       \* settings: use_hybrid, and whether a reranker is set
  TopK, FetchK,  \* top_k, fetch_k
  MaxContext,    \* max_context_tokens
  MinChunk,      \* min_chunk_tokens
  MinScore,      \* min_score, in hundredths
  Gain,          \* Gain[rank]: 1 / log2(rank + 1), in thousandths
  MaxBatch,      \* bound: documents of one ingest
  MaxChunks      \* bound: chunks ever added

ASSUME RAGAssumption ==
  /\ NoContent \notin Contents
  /\ Pieces \in [Contents -> Seq(Texts)]
  /\ Tokens \in [Texts -> Nat \ {0}]
  /\ Configs \subseteq [hybrid : BOOLEAN, reranker : BOOLEAN]
  /\ {TopK, FetchK, MaxContext, MinChunk, MaxBatch, MaxChunks} \subseteq Nat
  /\ FetchK <= Len(Reciprocal) /\ TopK <= Len(Gain)
  /\ Gain \in Seq(Nat \ {0})
  /\ \A r, s \in DOMAIN Gain : r < s => Gain[r] >= Gain[s]
  /\ MinScore \in -100 .. 100

VARIABLES
  config,     \* the pipeline's settings
  docHashes,  \* _doc_hashes
  store,      \* store.chunks, with the vector of each
  chunks,     \* self.chunks
  bm25,       \* bm25.chunks
  cache,      \* the texts in the embedder's cache
  answer,     \* the last answer, with what it was made of
  failed      \* history: the sources whose last hash was recorded by an ingest that failed

ragvars == <<config, docHashes, store, chunks, bm25, cache, answer, failed>>

Document == Sources \X Contents
NoAnswer == [outcome |-> "none"]

RAGInit ==
  /\ config \in Configs
  /\ docHashes = [s \in Sources |-> NoContent]
  /\ store = <<>> /\ chunks = <<>> /\ bm25 = <<>>
  /\ cache = {} /\ answer = NoAnswer /\ failed = {}

\* A chunk's id is a hash of its document's content, its ordinal and its text:
\* the same content under two sources gives the same ids.
Split(document) ==
  [n \in DOMAIN Pieces[document[2]] |->
     [id |-> <<document[2], n>>, source |-> document[1], text |-> Pieces[document[2]][n]]]

\* new_docs, by position, is computed before the loop that records the hashes.
IsNew(document) == docHashes[document[1]] # document[2]
NewDocs(documents) == {n \in DOMAIN documents : IsNew(documents[n])}
SourcesOf(documents) == {documents[n][1] : n \in NewDocs(documents)}
Fresh(documents) ==
  FlattenSeq([n \in DOMAIN documents |->
                IF IsNew(documents[n]) THEN Split(documents[n]) ELSE <<>>])
\* The last new document of a source is the one remembered.
RecordHashes(documents) ==
  [s \in Sources |->
     IF s \in SourcesOf(documents)
     THEN documents[Max({n \in NewDocs(documents) : documents[n][1] = s})][2]
     ELSE docHashes[s]]
TextsOf(index) == {index[n].text : n \in DOMAIN index}

\* Mutant: the BM25 index is built from the new chunks only.
Ingested_indexing_fresh(documents, fresh) ==
  /\ UNCHANGED config
  /\ docHashes' = RecordHashes(documents)
  /\ store' = store \o fresh
  /\ chunks' = chunks \o fresh
  /\ bm25' = IF fresh = <<>> THEN bm25 ELSE fresh
  /\ cache' = cache \union TextsOf(fresh)
  /\ failed' = failed \ SourcesOf(documents)
  /\ answer' = NoAnswer

Ingested(documents, fresh) ==
  /\ UNCHANGED config
  /\ docHashes' = RecordHashes(documents)
  /\ store' = store \o fresh
  /\ chunks' = chunks \o fresh
  /\ bm25' = IF fresh = <<>> THEN bm25 ELSE chunks \o fresh
  /\ cache' = cache \union TextsOf(fresh)
  /\ failed' = failed \ SourcesOf(documents)
  /\ answer' = NoAnswer

\* The embedder is asked only for texts its cache lacks; when that raises, the
\* hashes are already recorded and nothing is indexed.
EmbeddingFailed(documents, fresh) ==
  /\ TextsOf(fresh) \ cache # {}
  /\ docHashes' = RecordHashes(documents)
  /\ failed' = failed \union SourcesOf(documents)
  /\ answer' = NoAnswer
  /\ UNCHANGED <<config, store, chunks, bm25, cache>>

Ingest(documents) ==
  LET fresh == Fresh(documents)
  IN  /\ NewDocs(documents) # {}
      /\ Len(chunks) + Len(fresh) <= MaxChunks
      /\ Ingested(documents, fresh) \/ EmbeddingFailed(documents, fresh)

\* store.delete with a filter on the source; the pipeline has no delete of its
\* own, and neither self.chunks nor the BM25 index hears of it.
Delete(source) ==
  /\ store' = FlattenSeq([n \in DOMAIN store |->
                            IF store[n].source = source THEN <<>> ELSE <<store[n]>>])
  /\ store' # store
  /\ answer' = NoAnswer
  /\ UNCHANGED <<config, docHashes, chunks, bm25, cache, failed>>

-----------------------------------------------------------------------------
\* What the retriever set in config returns: the store's search, or its fusion with BM25.
FirstFound(q, where, k) ==
  IF config.hybrid
  THEN {Hybrid(dense, BM25(bm25, score, FetchK, where), k) :
          dense \in Searches(store, q, FetchK, where), score \in Scores(q)}
  ELSE Searches(store, q, k, where)
Retrieved(q, where) ==
  IF config.reranker
  THEN {Rerank(r, score, TopK) : r \in FirstFound(q, where, FetchK), score \in [Texts -> 0 .. MaxScore]}
  ELSE {Take(r, TopK) : r \in FirstFound(q, where, TopK)}

\* The best true cosine; chunks whose vector is gone from the store count for
\* nothing, and neither does a negative similarity.
Relevance(q, retrieved) ==
  Max({0} \union UNION {{Cosine[q][t] : t \in VectorFor(store, retrieved[n].id)} : n \in DOMAIN retrieved})

\* fit_to_budget: a chunk that does not fit is skipped while room for
\* min_chunk_tokens is left, and ends the scan otherwise.
FitToBudget(ranked) ==
  LET Keep(acc, c) ==
        CASE acc.done -> acc
          [] ~acc.done /\ acc.used + Tokens[c.text] <= MaxContext ->
               [acc EXCEPT !.out = Append(@, c), !.used = @ + Tokens[c.text]]
          [] OTHER -> [acc EXCEPT !.done = MaxContext - acc.used < MinChunk]
  IN  FoldLeft(Keep, [out |-> <<>>, used |-> 0, done |-> FALSE], ranked).out

\* Mutant: min_score is not asked for.
Refuses_only_nothing(q, retrieved) == retrieved = <<>>
Refuses(q, retrieved) == retrieved = <<>> \/ Relevance(q, retrieved) < MinScore

\* A refusal keeps the chunks it was given; an answer, those that fit.
Reply(q, where, retrieved) ==
  LET refused == Refuses(q, retrieved)
  IN  [outcome |-> IF refused THEN "refused" ELSE "answered", question |-> q, where |-> where,
       retrieved |-> retrieved,
       sources |-> IF refused THEN retrieved ELSE FitToBudget(retrieved)]

\* The embedder (of a question not yet cached), the reranker or the provider
\* may raise; once the question is embedded it stays in the cache.
Raised(q, where) ==
  /\ answer' = [outcome |-> "raised", question |-> q, where |-> where,
                retrieved |-> <<>>, sources |-> <<>>]
  /\ cache' \in {cache, cache \union {q}}

Answer(q, where) ==
  /\ \/ /\ \E retrieved \in Retrieved(q, where) : answer' = Reply(q, where, retrieved)
        /\ cache' = cache \union {q}
     \/ Raised(q, where)
  /\ UNCHANGED <<config, docHashes, store, chunks, bm25, failed>>

Batches == UNION {[1 .. n -> Document] : n \in 1 .. MaxBatch}
Filters == {Sources} \union {{s} : s \in Sources}

RAGNext ==
  \/ \E documents \in Batches : Ingest(documents)
  \/ \E s \in Sources : Delete(s)
  \/ \E q \in Questions, where \in Filters : Answer(q, where)

RAGSpec == RAGInit /\ [][RAGNext]_ragvars

-----------------------------------------------------------------------------
\* evaluation.py: the retrieval metrics of the chunks of an answer against
\* markers, substrings a relevant chunk contains.
IsRelevant(c, markers) == Words[c.text] \cap markers # {}
Relevant(found, markers) == {n \in DOMAIN found : IsRelevant(found[n], markers)}
HitRate(found, markers) == IF markers = {} \/ Relevant(found, markers) # {} THEN 1 ELSE 0
\* The other metrics are fractions: <<numerator, denominator>>.
PrecisionAtK(found, markers) ==
  IF found = <<>> THEN <<0, 1>> ELSE <<Cardinality(Relevant(found, markers)), Len(found)>>
\* Mutant: chunks are counted instead of the markers they contain.
RecallAtK_of_chunks(found, markers) ==
  IF markers = {} THEN <<1, 1>> ELSE <<Cardinality(Relevant(found, markers)), Cardinality(markers)>>
RecallAtK(found, markers) ==
  IF markers = {} THEN <<1, 1>>
  ELSE <<Cardinality({m \in markers : \E n \in DOMAIN found : m \in Words[found[n].text]}),
         Cardinality(markers)>>
ReciprocalRank(found, markers) ==
  IF Relevant(found, markers) = {} THEN <<0, 1>> ELSE <<1, Min(Relevant(found, markers))>>
NDCG(found, markers) ==
  IF markers = {} \/ found = <<>> THEN <<0, 1>>
  ELSE <<SumFunctionOnSet(Gain, Relevant(found, markers)),
         SumFunctionOnSet(Gain, 1 .. Min({Cardinality(markers), Len(found)}))>>

\* The generation metrics take the words of each sentence of an answer: those a
\* source holds at least half of, the share of the question's words, and F1.
Faithfulness(claims, found) ==
  LET context == UNION {Words[found[n].text] : n \in DOMAIN found}
      supported == {i \in DOMAIN claims : 2 * Cardinality(claims[i] \cap context) >= Cardinality(claims[i])}
  IN  CASE claims = <<>> -> <<1, 1>>
        [] claims # <<>> /\ found = <<>> -> <<0, 1>>
        [] OTHER -> <<Cardinality(supported), Len(claims)>>
AnswerRelevance(claims, q) ==
  IF Words[q] = {} THEN <<1, 1>>
  ELSE <<Cardinality(Words[q] \cap UNION ToSet(claims)), Cardinality(Words[q])>>
Correctness(claims, expected) ==
  LET said == UNION ToSet(claims)
  IN  CASE expected = {} -> <<1, 1>>
        [] expected # {} /\ said = {} -> <<0, 1>>
        [] OTHER -> <<2 * Cardinality(said \cap expected), Cardinality(said) + Cardinality(expected)>>

\* evaluate, for one example.
Evaluate(found, q, markers, claims, expected) ==
  [hit_rate |-> HitRate(found, markers), precision |-> PrecisionAtK(found, markers),
   recall |-> RecallAtK(found, markers), mrr |-> ReciprocalRank(found, markers),
   ndcg |-> NDCG(found, markers), faithfulness |-> Faithfulness(claims, found),
   relevance |-> AnswerRelevance(claims, q), correctness |-> Correctness(claims, expected)]

-----------------------------------------------------------------------------
\* "Skips documents whose content hash is unchanged" (pipeline.py:156): what an
\* ingest would skip is in the index, whole, unless the embedding of its batch
\* failed after the hash was recorded.
SkippedIsIndexed ==
  \A s \in Sources :
    docHashes[s] # NoContent /\ s \notin failed =>
      ToSet(Split(<<s, docHashes[s]>>)) \subseteq ToSet(bm25)

\* tenant_filter (vectorstore.py:76): a filtered question is answered from no
\* chunk the filter excludes, whichever retriever found it and although the
\* fusion identifies chunks by ids that two tenants may share.
OnlyAllowedSources ==
  answer # NoAnswer =>
    \A n \in DOMAIN answer.retrieved : answer.retrieved[n].source \in answer.where

\* What callers put around a retriever brings nothing in: MMR chooses min(k, n) of
\* the candidates and, when only relevance counts, in its order; and parents are
\* not repeated.
OnlyWhatWasFound(q, found, where) ==
  LET close == [t \in Texts |-> [u \in Texts |-> IF t = u THEN 100 ELSE 0]]
      parents == Parents(found, [c \in ToSet(found) |-> c.source], TopK)
  IN  /\ \A lambda \in {0, 50, 100} :
           LET diverse == MMR(q, found, close, TopK, lambda)
           IN  /\ Len(diverse) = Min({TopK, Len(found)})
               /\ ToSet(diverse) \subseteq ToSet(found)
               /\ lambda = 100 => \A i, j \in DOMAIN diverse :
                    i < j => Cosine[q][diverse[i].text] >= Cosine[q][diverse[j].text]
      /\ IsInjective(parents) /\ ToSet(parents) \subseteq where

\* An IVF index keeps the filter, and misses only chunks of lists not probed.
MissesUnprobed(index, q, where) ==
  \A list \in [Texts -> 1 .. 2], probes \in {{1}, {1, 2}} :
    \A near \in IVF(index, q, TopK, where, list, probes) :
      /\ ToSet(near) \subseteq {index[i] : i \in Filtered(index, where)}
      /\ \E exact \in Searches(index, q, TopK, where) :
           ANNRecall(near, exact)[1] < ANNRecall(near, exact)[2] =>
             \E n \in DOMAIN exact : list[exact[n].text] \notin probes

\* Chroma, as long as it fetches everything, keeps the filter and misses only the
\* chunks whose id was last taken by another.
MissesReplaced(added, q, where) ==
  LET all == Chroma(added, q, Len(added), where)
  IN  \A i \in DOMAIN added :
        added[i] \in ToSet(all) <=>
          /\ added[i].source \in where
          /\ \E j \in DOMAIN added :
               /\ added[j] = added[i]
               /\ \A l \in j + 1 .. Len(added) : added[l].id # added[j].id

\* The filter holds, whatever stands around the retriever or in the store's place.
TenantIsolation ==
  answer # NoAnswer =>
    /\ OnlyAllowedSources
    /\ OnlyWhatWasFound(answer.question, answer.retrieved, answer.where)
    /\ answer.outcome = "answered" => MissesUnprobed(store, answer.question, answer.where)
    /\ MissesReplaced(chunks, answer.question, answer.where)

\* An answer given instead of a refusal rests on a stored chunk that passes
\* min_score; its sources are numbered once each (a hybrid index may hold a
\* chunk twice), keep the ranking, fit the budget, and include the best ranked
\* chunk that fits at all, when there is room for min_chunk_tokens.
Grounded(q, found, sent, index, hybrid) ==
  LET fits == {n \in DOMAIN found : Tokens[found[n].text] <= MaxContext}
  IN  /\ MinScore > 0 => \E n \in DOMAIN found : \E t \in VectorFor(index, found[n].id) :
                           Cosine[q][t] >= MinScore
      /\ Len(found) <= TopK
      /\ hybrid => \A i, j \in DOMAIN sent : sent[i].id = sent[j].id => i = j
      /\ \E place \in [DOMAIN sent -> DOMAIN found] :
           /\ \A i, j \in DOMAIN sent : i < j => place[i] < place[j]
           /\ \A i \in DOMAIN sent : sent[i] = found[place[i]]
      /\ SumOf([n \in DOMAIN sent |-> Tokens[sent[n].text]]) <= MaxContext
      /\ MaxContext >= MinChunk /\ fits # {} => sent # <<>> /\ sent[1] = found[Min(fits)]
GroundedAnswer ==
  answer # NoAnswer /\ answer.outcome = "answered" =>
    Grounded(answer.question, answer.retrieved, answer.sources, store, config.hybrid)

\* The scorecard's metrics tell one story of the same chunks.  The retrieval
\* metrics are zero together, and ndcg, whose ideal counts markers and not
\* chunks, passes 1 only when more chunks than markers are relevant.  An answer
\* that quotes its sources is faithful and one without a word of theirs is not,
\* more sources never make it less so, and no metric but ndcg passes 1.
OneStory(found, q) ==
  LET words == UNION {Words[t] : t \in Texts}
      context == UNION {Words[found[n].text] : n \in DOMAIN found}
      quoted == [n \in DOMAIN found |-> Words[found[n].text]]
  IN  /\ \A markers \in SUBSET words :
           LET result == Evaluate(found, q, markers, <<markers>>, markers)
           IN  /\ markers # {} =>
                    \A metric \in {"precision", "recall", "mrr", "ndcg"} :
                      result.hit_rate = 0 <=> result[metric][1] = 0
               /\ \A metric \in {"precision", "recall", "mrr", "faithfulness", "relevance", "correctness"} :
                    result[metric][1] <= result[metric][2]
               /\ result.ndcg[1] > result.ndcg[2] =>
                    Cardinality(Relevant(found, markers)) > Cardinality(markers)
               /\ result.correctness[1] = result.correctness[2]
               /\ markers # {} /\ markers \cap context = {} => result.faithfulness[1] = 0
      /\ Faithfulness(quoted, found)[1] = Faithfulness(quoted, found)[2]
      /\ found # <<>> => \A one, other \in SUBSET words :
           Faithfulness(<<one, other>>, Front(found))[1] * 2 <=
             Faithfulness(<<one, other>>, found)[1] * Faithfulness(<<one, other>>, Front(found))[2]
MetricsAgree == answer # NoAnswer => OneStory(answer.sources, answer.question)
=============================================================================
