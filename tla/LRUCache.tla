-------------------------------- MODULE LRUCache --------------------------------
(* What Basic_LRU promises: hit_cache tells whether a key is cached and makes it *)
(* the most recent, insert_cache makes room by evicting the least recent key.    *)
EXTENDS LRUList

VARIABLES cache,    \* the keys, least recently used first
          lastCall  \* the last call, its key and what it returned

vars == <<cache, lastCall>>

Init == cache = <<>> /\ lastCall = <<>>

Hit(k) == /\ lastCall' = <<"hit_cache", k, Holds(cache, k)>>
          /\ cache' = IF Holds(cache, k) THEN Touched(cache, k) ELSE cache

Insert(k) == /\ lastCall' = <<"insert_cache", k, Evicted(cache)>>
             /\ cache' = Inserted(cache, k)

Next == \E k \in Keys : Hit(k) \/ Insert(k)

Spec == Init /\ [][Next]_vars
=============================================================================
