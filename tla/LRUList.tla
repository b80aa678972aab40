-------------------------------- MODULE LRUList --------------------------------
(* A least-recently-used cache as a sequence of keys, the next to be evicted     *)
(* first.  A key may be in it twice: insert_cache does not look for it.          *)
EXTENDS Naturals, Sequences

CONSTANTS Keys,    \* hashes of URLs
          NoKey,   \* the -1 that insert_cache returns when nothing is evicted
          MAX_LRU  \* capacity (150); insert_cache needs two pages to evict one

ASSUME LRUAssumption == /\ NoKey \notin Keys
                        /\ MAX_LRU \in Nat /\ MAX_LRU >= 2

Holds(cache, k) == \E i \in DOMAIN cache : cache[i] = k

Full(cache) == Len(cache) = MAX_LRU

(* The page nearest the tail that holds k; it moves to the tail when hit.        *)
LastPage(cache, k) ==
  CHOOSE i \in DOMAIN cache :
    cache[i] = k /\ \A j \in DOMAIN cache : cache[j] = k => j <= i

Touched(cache, k) ==
  LET i == LastPage(cache, k)
  IN  SubSeq(cache, 1, i - 1) \o SubSeq(cache, i + 1, Len(cache)) \o <<k>>

Inserted(cache, k) == Append(IF Full(cache) THEN Tail(cache) ELSE cache, k)

Evicted(cache) == IF Full(cache) THEN Head(cache) ELSE NoKey
=============================================================================
