----------------------------- MODULE DocSearch ------------------------------
(***************************************************************************)
(* internal/executor/docsearch: the config of a DOCUMENT_SEARCH tool and   *)
(* the query it becomes.  ToolCalls runs it.                               *)
(*                                                                         *)
(* A config has the fields of docSearchConfig under both their names; a    *)
(* number that is absent is 0.  Similarities are tenths.  The corpus is a  *)
(* set of chunks [base, score] of different similarity to the query, so    *)
(* their order is the one of their scores.                                 *)
(***************************************************************************)
EXTENDS Integers, FiniteSets

Given(snake, camel, zero) == IF snake = zero THEN camel ELSE snake

KnowledgeBase(c) == Given(c.knowledge_base_id, c.kbId, "")

\* The server's own embedding service is the last resort.
EmbeddingURL(c) == Given(Given(c.embedding_url, c.embeddingUrl, ""), "default", "")

\* topK is <<>> or <<n>>: limit is read only when topK is absent.
TopK(c) ==
    LET camel == IF c.topK = <<>> THEN c.limit ELSE c.topK[1]
        k == Given(c.top_k, camel, 0)
    IN  IF k <= 0 THEN 5 ELSE k

MinScore(c) ==
    LET t == Given(c.similarity_threshold, c.similarityThreshold, 0)
    IN  IF t <= 0 THEN 7 ELSE t

\* Execute's tests before anything is sent.
Searchable(c, input) ==
    KnowledgeBase(c) /= "" /\ "query" \in DOMAIN input /\ input["query"] /= ""

\* The rows of searchChunks' query: WHERE, ORDER BY score DESC, LIMIT.
Better(found, d) == {e \in found : e.score > d.score}

Matches(c, corpus) ==
    LET eligible == {d \in corpus : d.base = KnowledgeBase(c) /\ d.score >= MinScore(c)}
    IN  {d \in eligible : Cardinality(Better(eligible, d)) < TopK(c)}
=============================================================================
