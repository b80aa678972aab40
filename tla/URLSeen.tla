-------------------------------- MODULE URLSeen --------------------------------
(* One URLSeen: the LRU cache of hashes and the B-tree file that takes what the  *)
(* cache evicts, with the worker threads that call check and add on it the way   *)
(* thread_work does: a link whose hash check() does not know is added and then   *)
(* pushed into a frontier.  The main thread has added the seeds before.          *)
(*                                                                               *)
(* The cache mutex and the B-tree's read-write lock are never nested, so each of *)
(* the sections they protect is one step; between two sections of a call other   *)
(* threads run.  The cache and the file are a sequence and a set here: Basic_LRU *)
(* has a module of its own.                                                      *)
(*                                                                               *)
(* Keys are hashes.  Seeds are hashed by the URLSeen's own hash function, links  *)
(* by a global one, and their tables may differ: which URL has which hash is     *)
(* left open here, a link may have any hash.                                     *)
(*                                                                               *)
(* A definition named ...Fault is its original with one plausible bug, to see    *)
(* that the properties notice it.                                                *)
EXTENDS LRUList, FiniteSets

CONSTANTS Workers,   \* the worker threads
          Seeds,     \* the hashes hashurl gives the URLs of the seed file
          MaxLines,  \* bound: lines of the seed file
          MaxChecks  \* bound: links looked up in one run

ASSUME URLSeenAssumption == /\ Seeds \subseteq Keys
                            /\ MaxLines \in Nat /\ MaxChecks \in Nat

VARIABLES cache,     \* LRUCacher
          file,      \* the keys in the B-tree file
          pc,        \* where each worker is
          key,       \* the hash its call is about
          out,       \* what its insert_cache returned
          checks,    \* links looked up so far
          marked,    \* hashes for which an add has returned
          markedAt,  \* marked as it was when the worker's check began
          pushes     \* how many URLs with each hash were pushed into a frontier

vars == <<cache, file, pc, key, out, checks, marked, markedAt, pushes>>

Points == {"idle", "checkFile", "promote", "demote", "add", "spill", "enqueue"}
-----------------------------------------------------------------------------
(* Before it starts the workers, crawler() pushes each line of the seed file and *)
(* adds it, without a check: the last MAX_LRU lines end in the cache, the        *)
(* earlier ones in the file.                                                     *)
Init == /\ \E n \in 0 .. MaxLines : \E lines \in [1 .. n -> Seeds] :
             LET spilled == IF n > MAX_LRU THEN n - MAX_LRU ELSE 0
             IN  /\ cache = SubSeq(lines, spilled + 1, n)
                 /\ file = {lines[i] : i \in 1 .. spilled}
                 /\ marked = {lines[i] : i \in 1 .. n}
                 /\ pushes = [k \in Keys |-> Cardinality({i \in 1 .. n : lines[i] = k})]
        /\ pc = [w \in Workers |-> "idle"]
        /\ key = [w \in Workers |-> NoKey]
        /\ out = [w \in Workers |-> NoKey]
        /\ checks = 0
        /\ markedAt = [w \in Workers |-> {}]

Goto(w, from, to) == pc[w] = from /\ pc' = [pc EXCEPT ![w] = to]

(* check_cache: a hit answers true and freshens the page.                        *)
CheckCache(w) ==
  /\ checks < MaxChecks
  /\ checks' = checks + 1
  /\ \E k \in Keys :
       /\ key' = [key EXCEPT ![w] = k]
       /\ \/ /\ Holds(cache, k)
             /\ cache' = Touched(cache, k)
             /\ Goto(w, "idle", "idle")
          \/ /\ ~Holds(cache, k)
             /\ cache' = cache
             /\ Goto(w, "idle", "checkFile")
  /\ markedAt' = [markedAt EXCEPT ![w] = marked]
  /\ UNCHANGED <<file, out, marked, pushes>>

(* check_file; an empty file needs no look.  A hash in neither place is new, and *)
(* the worker goes on to add it.                                                 *)
CheckFileFault(w) ==  \* the file is never looked at
  /\ Goto(w, "checkFile", "add")
  /\ UNCHANGED <<cache, file, key, out, checks, marked, markedAt, pushes>>

CheckFileAnyFault(w) ==  \* any key in the file will do
  /\ Goto(w, "checkFile", IF file # {} THEN "promote" ELSE "add")
  /\ UNCHANGED <<cache, file, key, out, checks, marked, markedAt, pushes>>

CheckFile(w) ==
  /\ Goto(w, "checkFile", IF key[w] \in file THEN "promote" ELSE "add")
  /\ UNCHANGED <<cache, file, key, out, checks, marked, markedAt, pushes>>

(* insert_cache under the cache lock; the key it evicts is on nobody's list      *)
(* until the worker has gone on to the file.                                     *)
InsertCache(w) ==
  /\ cache' = Inserted(cache, key[w])
  /\ out' = [out EXCEPT ![w] = Evicted(cache)]

InsertFileFault(w) == w \in Workers /\ file' = file  \* the evicted key is dropped

InsertFile(w) == file' = file \cup {out[w]}

(* A hash found in the file comes back into the cache, check's answer is true.   *)
Promote(w) ==
  /\ Goto(w, "promote", "demote")
  /\ InsertCache(w)
  /\ UNCHANGED <<file, key, checks, marked, markedAt, pushes>>

Demote(w) ==
  /\ Goto(w, "demote", "idle")
  /\ InsertFile(w)
  /\ UNCHANGED <<cache, key, out, checks, marked, markedAt, pushes>>

(* add: a cache that was not yet full is all there is to it.                     *)
AddFault(w) ==  \* writes what insert_cache returned whether it evicted or not
  /\ Goto(w, "add", "spill")
  /\ InsertCache(w)
  /\ UNCHANGED <<file, key, checks, marked, markedAt, pushes>>

Add(w) ==
  /\ Goto(w, "add", IF Full(cache) THEN "spill" ELSE "enqueue")
  /\ InsertCache(w)
  /\ marked' = IF Full(cache) THEN marked ELSE marked \cup {key[w]}
  /\ UNCHANGED <<file, key, checks, markedAt, pushes>>

Spill(w) ==
  /\ Goto(w, "spill", "enqueue")
  /\ InsertFile(w)
  /\ marked' = marked \cup {key[w]}
  /\ UNCHANGED <<cache, key, out, checks, markedAt, pushes>>

(* thread_work then hands the URL to a frontier.                                 *)
Enqueue(w) ==
  /\ Goto(w, "enqueue", "idle")
  /\ pushes' = [pushes EXCEPT ![key[w]] = @ + 1]
  /\ UNCHANGED <<cache, file, key, out, checks, marked, markedAt>>

Proceed(w) == \/ CheckFile(w) \/ Promote(w) \/ Demote(w)
              \/ Add(w) \/ Spill(w) \/ Enqueue(w)

Next == \E w \in Workers : CheckCache(w) \/ Proceed(w)

Spec == Init /\ [][Next]_vars

(* A worker inside a call goes on; nothing makes it look up another link.        *)
FairSpec == Spec /\ \A w \in Workers : WF_vars(Proceed(w))
-----------------------------------------------------------------------------
Cached == {cache[i] : i \in DOMAIN cache}

TypeOK == /\ cache \in Seq(Keys) /\ Len(cache) <= MAX_LRU
          /\ file \subseteq Keys \cup {NoKey}
          /\ pc \in [Workers -> Points]
          /\ key \in [Workers -> Keys \cup {NoKey}]
          /\ out \in [Workers -> Keys \cup {NoKey}]
          /\ checks \in Nat
          /\ marked \subseteq Keys
          /\ markedAt \in [Workers -> SUBSET Keys]
          /\ pushes \in [Keys -> Nat]

(* Keys evicted from the cache that their worker has not yet put in the file.    *)
InFlight == {out[w] : w \in {v \in Workers : pc[v] \in {"demote", "spill"}}}

(* Hashes being added: they have gone into the cache, the push has not come.     *)
BeingAdded == {key[w] : w \in {v \in Workers : pc[v] \in {"spill", "enqueue"}}}

Kept == Cached \cup file \cup InFlight

(* A key is not lost between the cache and the file, whatever other calls do     *)
(* there: once insert_cache has taken it, it is in one of the two or in the      *)
(* hands of a worker on its way to the file.                                     *)
MarkedIsKept == marked \cup BeingAdded \subseteq Kept

(* The -1 of insert_cache is never written to the file as if it were a key: the  *)
(* calls that insert what they evicted only run when the cache is full, which    *)
(* check does not test.                                                          *)
EvictedIsAKey == /\ NoKey \notin file \cup InFlight
                 /\ (file # {} \/ \E w \in Workers : pc[w] \in {"promote", "demote", "spill"})
                      => Full(cache)

(* check never answers true for a hash nobody has added or is adding: no link is *)
(* skipped unless one of its hash was pushed, or is about to be.                 *)
NothingSkipped == Kept \subseteq BeingAdded \cup {k \in Keys : pushes[k] > 0}

(* The inductive invariant behind these: a worker inside a call has a key, and   *)
(* one that found its key in the file still finds it there.                      *)
CallsOK == \A w \in Workers : /\ pc[w] # "idle" => key[w] \in Keys
                              /\ pc[w] = "promote" => key[w] \in file

IInv == TypeOK /\ CallsOK /\ MarkedIsKept /\ EvictedIsAKey /\ NothingSkipped

(* Every key on its way reaches the file.                                        *)
EvictedReachesFile ==
  \A k \in Keys : [](k \in marked => <>(k \in Cached \cup file))

(* check goes on from cache to file without a lock over both, so it may answer   *)
(* that a link is new although an add of its hash has returned: but only while   *)
(* another worker carries the hash from the cache to the file.  With one worker  *)
(* a marked hash is always found.                                                *)
MissedOnlyInFlight ==
  [][\A w \in Workers :
       /\ pc[w] = "checkFile" /\ pc'[w] = "add"
       /\ key[w] \in markedAt[w]
       => key[w] \in InFlight]_vars
=============================================================================
