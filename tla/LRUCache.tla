------------------------------ MODULE LRUCache ------------------------------
(***************************************************************************)
(* The response cache (03-llm-integration/llmkit/cache.py, LRUCache): an   *)
(* OrderedDict, here the sequence of its entries, least recently used      *)
(* first.  An entry keeps the time left until it expires instead of        *)
(* expires_at; the hit, miss and eviction counters are only reported.      *)
(***************************************************************************)
EXTENDS Integers, SequencesExt

CONSTANTS MaxSize, TTL

CacheAssumption == MaxSize \in Nat \ {0} /\ TTL \in Nat

Entry(key, response) == [key |-> key, response |-> response, ttl |-> TTL]

Has(data, key) == \E i \in DOMAIN data : data[i].key = key
PositionOf(data, key) == CHOOSE i \in DOMAIN data : data[i].key = key
EntryOf(data, key) == data[PositionOf(data, key)]

Without(data, key) ==
  IF Has(data, key) THEN RemoveAt(data, PositionOf(data, key)) ELSE data

\* A get of this key hits: it is there and has not expired.
Live(data, key) == \E i \in DOMAIN data : data[i].key = key /\ data[i].ttl > 0

AfterGet_renewing(data, key) ==
  IF Live(data, key)
  THEN Append(Without(data, key), Entry(key, EntryOf(data, key).response))
  ELSE Without(data, key)

\* get: a hit becomes the most recently used, an expired entry is deleted.
AfterGet(data, key) ==
  IF Live(data, key)
  THEN Append(Without(data, key), EntryOf(data, key))
  ELSE Without(data, key)

\* while len(_data) > max_size: popitem(last=False)
Evict(data) ==
  SubSeq(data, IF Len(data) > MaxSize THEN Len(data) - MaxSize + 1 ELSE 1, Len(data))

AfterSet(data, key, response) ==
  Evict(Append(Without(data, key), Entry(key, response)))

\* Time passes for every entry.
Aged(data) ==
  [i \in DOMAIN data |->
     [data[i] EXCEPT !.ttl = IF @ > 0 THEN @ - 1 ELSE 0]]
=============================================================================
