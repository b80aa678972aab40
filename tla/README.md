# Verification of the web crawler

The crawler fetches pages, extracts their links and pushes the links it has not
seen into queues that its worker threads read. This directory models its parts in
TLA+, checks them with TLC on small instances, and proves the most important
properties with TLAPS for every size.

## Inventory

Paths are those of the repository. N is `MAX_THREAD` (global.cpp), 1 as shipped;
the code is written for any N, and the models keep N open.

| Part | State | Operations | Talks to |
|---|---|---|---|
| Worker loop, `crawler.h` (`thread_work`, `crawler`) | per worker: a page buffer, an extractor, a filter, a writer | start-up from the seed file; loop: available, readURL, fetch, writeLocal, then per link filter, check, add, addURL | all parts below |
| `URLFrontier`, one per worker | `url_queue`, the spill file with `cur` and `end`, mutexes `qlock`, `flock` | `addURL` (any worker), `readURL`, `available` (its worker) | disk |
| `URLSeen`, one per worker, used by all | LRU cache, B-tree file with cached root and counts, a mutex and a read-write lock | `check`, `add` | `Basic_LRU`, `BTTableClass` |
| `Basic_LRU` | doubly linked list, head, tail, count | `hit_cache`, `insert_cache` | none |
| `BTTableClass` (util/btree-f) | nodes in a file, root, counts, current node | `Insert`, `Retrieve`, `makeSure`, `set...` | disk |
| `ContentSeen` | tree in memory, counter, B-tree file, two read-write locks | `check`, `add` (their calls in the worker loop are commented out) | the tree, B-tree |
| tree in memory (util/btree-m) | nodes that point to each other, an iterator with its path | `set`, `get`, `clearself` | none |
| `HttpModule` | socket, IP, condition variable; per fetch a flag on the stack | `fetch`, `threadtofetch` in a detached thread, `alrm_handler` | DNS, rio, `RIS` |
| `TinyDNSResolver` | one-entry cache, negative answers included | `resolve` | UDP |
| `LinkExtractor`, `URLFilter` | position in the page; compiled expressions | `getLink`, `fixURL`, `URLanalyser`; `filter` | none |
| `Writer`, `RIS`, `rio` | file name; page buffer; none | `writeLocal`; `getPtr`, `clearself`; read and write loops, chunked decoder | disk, sockets |
| `RabinHashFunction64` | tables of the polynomial | `hash` | none |
| `rwlock_fcfs` | a queue of packs, reader counts, status | gain, timed gain, release, destroy (not linked into the crawler) | pthreads |

What makes these parts hard:

* **Frontier.** Sizes and counters are read without locks, critical sections nest
  two mutexes, `readURL` pops after a refill without testing again, and one failed
  read of the file would disable it for good. Correct means: no URL is lost or
  delivered twice, no pop from an empty queue, no stuck file, everything is
  delivered in the end.
* **URLSeen.** `check` and `add` are several critical sections each, and a key that
  leaves the cache is nowhere until it is in the file. Correct means: a hash once
  added is kept, is found except while it is carried, and nothing else is found.
* **Worker loop.** Workers find the same links at the same time, mark them with two
  calls, and push to each other's frontiers; one of them looks in a cache and then in a
  file between which another is moving the hash it looks for. Correct means: no link is
  lost on its way, none is pushed without bound, and the crawl comes to rest.
* **ContentSeen and its tree.** The tree is emptied into a file while others look in
  both, and it rotates by the names of its nodes, because names and balance factors
  share a field. Correct means: what was added is found, however the tree turned.
* **LinkExtractor.** A link is resolved against the page it is on.
* **rio.** Chunks arrive in pieces of any size, their ends are searched for, and their
  sizes are read into four characters. Correct means: what was sent is put together,
  and nothing is written past the end of the buffer.
* **Basic_LRU.** Pointer surgery on a list that is also the eviction order.
* **HttpModule.** A detached helper writes through pointers into the stack and the
  buffers of a caller that stops waiting after 60 seconds.
* **B-tree.** Splits, and a comparison by the sign of a wrapping difference.
* **rwlock_fcfs.** Timed waits that race with the grant of the lock, and a status that
  has to stand for who is in. Correct means: the counts are right, nobody overtakes,
  every waiter gets in, nobody uses a destroyed lock.

## Modules

* `FrontierPool` is the abstract specification of a frontier: added, pending and
  taken URLs.
* `URLFrontier` is one frontier with its workers, one action per critical section
  and per unlocked read. `pc[t]` is where a worker is in `addURL`, `available` or
  `readURL`; `qlock` and `flock` are the holders of the mutexes; `file`, `cur` and
  `end` are the spill file and its two counters; `fileInOk` is the state of the
  input stream. URLs are numbered in the order of their pushes. An unlocked read of
  the deque that overlaps a critical section is a data race, and `RacyRead` then
  allows either answer. `available` may fall off its end: then too.
* `URLFrontierProofs` holds the theorems about it.
* `LRUList` has the operators on a cache seen as a sequence of keys, `LRUCache` is
  the abstract specification built from them, and `BasicLRU` the list of
  `CACHE_PAGE`s with head, tail and count. `BasicLRU` implements `LRUCache` under
  the mapping `cache <- KeysInOrder`. `MCBasicLRU` adds the symmetry of addresses,
  `BasicLRUProofs` has the theorems.
* `URLSeen` is one `URLSeen` with its workers, one action per critical section. It
  uses the operators of `LRUList` for the cache and a set for the B-tree file, and
  includes the seeds (`Init`) and the push that follows an add (`Enqueue`).
  `URLSeenProofs` has the theorems.
* `KeyTable` is the abstract specification of a table of keys. `BTree` is the B-tree
  file with its writer and the readers `URLSeen` opens, one action per node read or
  written. `pc` is the call under way, `at` the node it reads next, `path` the calls of
  `PushDown` on the stack, `moved` the item and branch on their way up, `header` the
  copies of root and count that readers are given. `BTree` implements `KeyTable`: a
  key counts as inserted when its place is found, the way up is stuttering. `MCBTree`
  has near and far keys. `BTreeProofs` has the lemmas about one node (`SearchNode`,
  `AddItem`, the halves of `Split`), then the theorems that hold for all keys, then
  those that hold for near keys.
* `HttpModule` is the `HttpModule` of one worker with its `TinyDNSResolver` and the
  page buffer. `fpc` is where the worker is in `fetch`, `hpc[h]` where the helper of
  fetch `h` is in `threadtofetch`; `frame` is `thread_para`, at the same place in the
  stack for every fetch; `ris` holds whose bytes are in the two buffers; `mine[h]` is
  what a helper waits for from the network. A helper that is alive after its fetch
  works on the next fetch's frame and socket, as its pointers do. If it needs the
  frame while no fetch runs, it is `wild` and the model says no more about it.
  Bodies that end early, that are too long or that the decoder of chunks never
  finishes are the outcomes of `Head` and `Body`.  `MCHttpModule` instantiates it; `HttpModuleProofs` holds the
  theorems.

* `LinkExtractor` has `URLanalyser` and `fixURL` as operators on links: absolute ones,
  those that start at the root of the host, and those with dots in front. `AfterDots`
  and `DecodeAmp` are its two loops, recursive functions over the link.
* `ThreadWork` is `crawler` and the worker loop: `nextLine` is the line of the seed file
  to be pushed next, `pc[w]` where a worker is, `page` and `rest` the page it is at and the
  links still to come, `holder` the one at hand. A frontier is the bag of its URLs (what
  `URLFrontier` implements). A `URLSeen` is its `cache` and its `file`, and `check` and
  `add` have the steps they have in `URLSeen`: a look in the cache, a look in the file, an
  insertion that evicts, and the evicted hash (`out`) put in the file, with other workers
  in between. `Hash` is `hash_site`, with any function for `Digest`, so that URLs may
  share a hash. `SeedHashes` has the hashes a seed may get: it is hashed by other objects
  than links are. `Meaning` says what a link stands for to who wrote it, independently of
  `fixURL`, and `Understood` for which links the code goes by it. `MCThreadWork` has a
  small web, `ThreadWorkProofs` the theorems.
* `AVLTree` has the tree in memory as operators on a table of nodes; following a null
  pointer is an error of the evaluation. `ContentSeen` uses it, one action per
  critical section, as the lines of the worker loop do that are commented out.
  `SeenSet` is its abstract specification, a set that is looked up and added to, in
  which hashes that are the `Same` cut to an int may be taken for each other.
  `ContentSeen` implements it with tree and file together as the set; moving one into
  the other is stuttering. `MCContentSeen` has ten hashes for an int of eight
  values (`IntHalf` 4, for 2^31), `ContentSeenProofs` the theorems.
* `Rio` has `rio_writen` and the decoder of chunks, one action per call of the
  system: `taken` is how much of the stream was read, `tmp` holds the characters of a
  size, `chunksize` and `nleft` are what is known of the chunk, `c` and `rn` are the
  search for a line end. `usrbuf` is what has been put in the buffer, which has
  `MAX_BUFFER + 1` bytes; a read that would go past them leads to `overrun`, where the
  model ends. `Behind` are the digits that may be in memory behind `tmp`. `astray`
  remembers that a size was misread or that interruptions ended a search. `MCRio` has
  the responses. The theorem is in `ThreadWorkProofs`.
* `RWLockFcfs` is the lock: `queue` holds its packs, `status`, `num_readers` and
  `num_pending_readers` are its fields, `pc[t]` is where a thread is. What a call does
  while it holds the lock's mutex is one action. `late` is a thread whose time is up
  and which does not have the mutex again yet: no signal reaches it, though its pack
  still counts it. `lostGrant` remembers that the lock was given to such a thread,
  after which its fields are off for good, and `gone` that freed memory was used.
  `MCRWLockFcfs` instantiates it; `RWLockFcfsProofs` has the theorems.

A definition whose name ends in `Fault` is a variant of the one after it with one
plausible bug. No specification uses it: it serves to see that a property
notices the bug.

## Runs

| Run | What it asks | Bounds and why they are enough |
|---|---|---|
| `frontier` | all safety properties, the refinement of the pool, and that every URL is delivered | 3 workers (an owner and two adders that race with each other), a queue of 5, spills of 4, refills of 2, 8 adds: a spill holds two refills, a second spill comes between a refill and its pop |
| `lru_pointers` | the list is well formed and implements the cache | 3 pages: head, middle and tail differ; 4 keys, so that eviction forgets |
| `seen_shared` | nothing lost, nothing invented, nothing missed unless it is being carried, evicted keys arrive | 2 workers, a cache of 2, 3 keys, 3 seed lines, 5 lookups: seeds that spill before the start, promotions that evict, double promotions |
| `crawl` | no link is lost, pushes of a hash are bounded, the crawl ends | 3 workers, so that two can race for the frontier of a third; caches of 2, so that hashes go to the file, come back, and are missed on their way; 2 equal seed lines, each under one of two hashes and at any worker; 3 pages that exist and some that do not, links of all kinds, a port that splits a URL into two hashes, URLs that share one |
| `content_seen` | tree and file are one set; the tree stays bounded | 2 workers, a tree emptied at 2, every choice of 3 of 10 hashes, two of which have the low words of others; 4 lookups: the tree is emptied in between and searched before, during and after |
| `rio` | what is decoded is what was sent, within the buffer; decoding returns | up to two chunks of up to three bytes and the last one, a buffer that some of them overrun; data with line ends and digits at each place, sizes of one to five digits for the four the code looks at, one digit or none behind them, extensions; pieces of every size, any number of interruptions |
| `rwlock` | the inductive invariant; until a grant is lost, the counts stand for the threads, nobody overtakes, every waiter gets in, destroy waits for readers | 3 threads, so that one holds, one waits and one races; at most 3 packs to wait behind |
| `rwlock_exclusion` | shows that a writer is let in beside a reader | the same |
| `http_fetch` | every fetch returns, every helper ends, nothing unexpected; pages are whole, own and from their host; no socket left | 2 fetches, the second beside a helper of the first; 2 hosts, so that the cache entry changes; the theorems cover longer runs |
| `btree_near` | the B-tree file is a table: what is inserted is found, nothing else is; splits keep it balanced and filled; calls return | nodes of at most 3 keys (`MinKeys` 1, so that a split is lopsided, as with 5 and 1260), 10 keys: three levels, a split of an inner root, all orders of insertion; words of -10 to 9, differences up to the limit |
| `btree_far` | shows that a stored hash may not be found | 5 keys over the whole range of a word |
| `http_lost_wakeup` | shows that the helper's signal may be lost | 2 fetches |

`MaxAdds`, `MaxChecks`, `MaxLines`, `MaxFetches` and `MaxHashes` bound the length of a
run or the number of different values in it only. No call of `addURL` starts after
`MaxAdds` pushes (calls under way still finish), no `check` after `MaxChecks` (in
`ContentSeen`: `MaxAdds`), and nobody starts to wait behind `MaxPacks` packs. Deadlock
is checked in `frontier`, where the owner can always ask `available` again, and in
`btree_near` and `lru_pointers`. The other runs stop where their bound is reached or
where the system does: the crawl when nothing is left, `rio` when the response is
decoded, the lock when it is gone.

**Fairness.** Weak fairness of the steps of a worker that is inside a call (threads
are scheduled, mutexes are granted in the end because each is released by a step
that is always enabled) and of the owner's `available`, which the worker loop calls
for ever. No fairness makes a worker add or look up anything. The lock steps need
no strong fairness in `frontier` because adders stop after `MaxAdds`. In
`HttpModule` the worker is fair, and so are `Signal` and the arrival of a SIGALRM
that was sent; nothing else a helper does is, so it may hang in any call. `Timeout`
is strongly fair: its deadline is absolute, so spurious wake-ups, each of which
disables it for a moment, cannot put it off for ever. In `ThreadWork` each worker goes
on with its loop, which rests on `EveryFetchReturns`. In `RWLockFcfs` a thread that was
woken goes on and one that is in releases the lock in the end; no thread has to ask
for it and no wait has to time out. In `Rio` the network delivers a byte that was
sent in the end.

**What the code does otherwise than its comments say** (the runs that expect a
violation). In `HttpModule.h` lines 36 to 41 promise a wait that is woken up, 30
seconds and `pthread_cancel`: the helper signals without the mutex, so the wake-up may
be lost and the page is only taken at the deadline, the code waits 60 seconds, and it
sends SIGALRM. `SearchNode` takes the sign of a difference for the order of two
hashes: for hashes at least 2^63 apart a build without optimisation, which is what
`CMakeCache.txt` asks for, lets the difference wrap, so that the nodes are not sorted
and a stored hash is missed. An optimising build compares them as they are: then
(`Wraps` FALSE) all keys count as near. And a reader that enters a free
`rwlock_fcfs` leaves its status unlocked, so that a writer enters beside it
(`rwlock.c`, line 472) although `release` relies on the status to tell them apart
(lines 373 to 376).

**Observations** that no run is spent on:

* The frontier is not a FIFO queue as `URLFrontier.h` says (lines 7 to 9): a spill
  takes the oldest URLs, and the file is read only when the queue is empty.
* With several workers the queue of a frontier may exceed `MAX_URL` without bound,
  because an unlocked `size()` that overlaps a push may answer anything; with one
  worker it does not (`OneWorkerBound`).
* `add` is said to mark a URL as downloaded (`crawler.h`, line 202); with more than one
  worker it may still be reported as new, while another worker carries it from the
  cache to the file; `MissedOnlyInFlight` says that this is the only case, for near keys.
  So a URL may be pushed more than once, by one worker too (`PushesAreBounded`).
* `hash_site` hashes the whole of both arrays and not the port: `URLanalyser` cuts
  ":port" off the host and leaves it behind the null character, so one URL has two
  hashes. `crawl` includes this.
* An `&amp;` that begins within four characters of another is not decoded, and "../"
  above the root of a host ends the loop over the page's links. In absolute links and
  those without dots no `&amp;` is decoded at all. `Understood` names these cases.
* `LinkExtractor.h` (line 29) says that `fixURL` puts relative links into the structure
  correctly. One that begins with a name is resolved like one that begins with a slash
  (`LinkExtractor.cpp`, line 171): `x` on the page `a/b/c` becomes `/x`. For such links
  below the root, `LinksAreScheduled` is about what `fixURL` makes of them, not about what
  they mean.
* `hash_site` shifts by 32 and adds; two URLs that share a hash are one to the crawler.
* `HttpModule.cpp` (line 243) says that only 512k of a body are read. The decoder of
  chunks does not look at what is left of the buffer (`rio.cpp`, line 86) and writes past
  its end: the state `overrun`, which `rio` reaches.
* `rio.cpp` (line 62) names sizes that fill their array of four characters as a case it
  handles. The byte behind the array decides what happens then, and `sscanf`, which finds
  no terminator, may count digits there with the size; of five digits the fifth is lost.
  This is where `astray` begins.
* A response that ends early has the decoder search for ever; it is then ended at the
  deadline of its fetch (`HttpModule`). An interrupted search that holds the line feed of
  the search before it may take it for the end of a line (`astray` too).
* With hashes whose low word is 3 or -3, or 1 or -1 where low words go round, the
  rotation of the tree in memory follows a null pointer or loses nodes: `content_seen`
  is about the other hashes (`SafeLowWords`). The tree is not balanced, so that its
  depth may exceed the 32 levels that its paths have room for.
* A grant of `rwlock_fcfs` to a thread that has timed out is lost, a thread that
  gives up may use a pack that was freed (`rwlock.c`, line 558), and packs that
  everybody has left stay in the queue until they are at its head. A wait that ends
  without a signal, which POSIX allows and the code does not test, breaks the lock.

## Theorems

All are for any set of workers and any sizes that meet the assumptions of the
modules (`FrontierAssumption`: a spill leaves a URL in the queue and is a multiple
of a refill; `LRUAssumption`: at least two pages; `RWLockAssumption`: finitely many threads;
`BTreeAssumption`: keys are words, and a full node can be split into two with
`MinKeys` keys each; `ThreadWorkAssumption`: pages are finite and consist of links;
`ContentSeenAssumption`, `AVLAssumption`: finitely many workers, hashes are integers, and
an int may have any even number of values).

* `URLFrontierProofs`: the inductive invariant `IInv` adds to the properties who
  holds which lock at each point, that only the owner reads, and that a refill past
  its test finds records (`RefillHasRecords`: only the owner advances `cur`, and it
  is the one refilling). From it follow `TypeOK`, `CriticalSections`,
  `RefilledPopSafe` (the argument: a spill leaves at least one URL since
  `NUM_URL2FILE < MAX_URL`, and nobody else pops), `SpillWhole`,
  `SpillFileReadable`, `EachURLOnce` and the refinement of `FrontierPool`.
  `OneWorkerBound` adds that with a single worker there is room for the URL it is
  about to push (`RoomOK`).
* `URLSeenProofs`: `IInv` adds `CallsOK`, that a worker inside a call has a key and
  that a key found in the file stays there. The argument for `MarkedIsKept` is that
  each step that takes a key from cache or file puts it in the hands of a worker or
  back, for `EvictedIsAKey` that the file is only ever written when the cache is
  full, and a full cache never shrinks. For `MissedOnlyInFlight` (`MissedOK`)
  it is that a hash added before a check began is in the file or on its way there
  once the check has not found it in the cache, and stays so until the check looks
  there: nothing leaves the file, and what is on its way lands in it.
* `HttpModuleProofs`: `IInv` says which helpers can be alive (`HelpersOK`: only that
  of the current fetch unless the fetch is `late`), what the socket is about
  (`SocketOK`), that the buffers hold bytes of the current URL and are filled before
  the flag says so (`BuffersOK`, `FlagOK`), and that the address in use and in the
  cache is that of the host except between the two halves of an update
  (`AddressOK`). From it follow `TypeOK`, `OwnPage`, `FromItsHost`, `SocketClosed` and
  `NothingUnexpected`, for any hosts and any number of fetches. It is needed because
  `OwnPage` speaks of the end of a fetch and depends on what each of its steps, and
  the clearing after the fetch before, left in the buffers.
* `BTreeProofs`: the invariant `Built` says that nodes have levels. All branches of a
  node are one level below it, a waiting call of `PushDown` is one level below the
  call it returns to, and so is the node a split has just added. `Balanced` alone is
  not inductive, because a split changes one node of a path at a time while the
  calls above it wait with the place they found. The levels are what those calls and
  the file agree on. `EnoughInRoot` is added because the old root stops being an
  exception to `EnoughKeys` only when a new root goes above it. From it follow
  `TypeOK`, `EnoughKeys` and `Balanced`, for far keys too.
* `BTreeProofs`, for near keys: `Searchable` adds that every node has a range. Its keys are
  sorted and inside it, the ranges of one level are apart, no key of a higher node is
  inside the range of a lower one, and a branch leads to a node whose range is the
  gap between two keys. The exception is the hole, the branch where the last waiting
  call of `PushDown` is to add an item: while the item is on its way up, it parts the
  range there between the node that was split and the new one. So the range of a
  search narrows with each node it reads, and when it comes to `NilPtr` no node can
  hold the key. From this follow that `BTree` implements `KeyTable` and
  `StoredIsFound`, both from `Near`: no difference of two keys overflows, or the
  build compares without one. `btree_far` shows that `Near` is needed.
  `HeaderRight` needs `ItemsCounted`: the number of places that hold a key is what
  the header counts, less the item on its way up. Places that differ hold different
  keys (the ranges are apart), so that places and contents are counted alike.

* `RWLockFcfsProofs`: `IInv` adds to `CountsAreHolders` that a thread waits in one pack
  only (`PacksApart`) and in one of its kind (`PacksOfOneRole`): who lets in a pack of
  readers adds its count to the readers on their way in, and that is right only if
  nobody else's pack counts them and all of them wake as readers. All of it holds
  until a grant is lost, and a lost grant stays lost. The proof is about a queue and
  where the threads are (`Tidy`), lemma by lemma for each operation on the queue.
  From it follow `CountsAreHolders`, for any order of releases, grants, wake-ups and
  time-outs before that grant; that a grant is lost only to a thread in the queue which
  is past its time-out (`GrantsAreLostToLate`, part of `CountersRight`), since the pack at the head counts its
  threads and is not empty; and `NobodyOvertakes`: a reader that goes in at once has found all packs
  empty, and then nobody waits. `DestroyInv` adds that the destroyer, once it waits,
  is in the last pack, because nobody may ask for the lock any more; when its turn
  comes only writers are left, and `DestroyOutwaitsReaders` follows.

* `BasicLRUProofs`: `ListInv` says that there is a sequence of different pages, as
  long as `curr_num`, which are the pages on the heap, whose pointers link each to its
  neighbours, and whose ends are head and tail. `ListWellFormed` speaks of two walks
  along pointers; that they meet the pages of the sequence in order (`ForwardWalk`,
  `BackWalk`) is an induction, done with a first place where a walk would stray. Each
  case of `adjust_cache` and `insert_cache` is first reduced to what it does to the two
  pointers of each page (`AdjustRelinks`, `FullAdds`, `LastAdds`), then to a new
  sequence (`MovedIsList`, `FullIsList`, `LastIsList`). The same sequence gives the keys
  of the abstract cache, so that each call is a step of `LRUCache`: `find_cache` finds
  the last page with the key, whatever the number of pages that hold it.
* `ContentSeenProofs`: `TreeBounded` is inductive once the nodes are known to be a
  sequence (`Counts`). A worker past the test of the counter is in `Adding`, so that its
  place is taken; an insertion adds one node at most, whatever it rotates.
* `ContentSeenProofs`, for hashes with `SafeLowWords`: that `ContentSeen` implements
  `SeenSet` takes the shape of the tree. `IsTree` describes it by functions of its
  handles: `pos` is the place where the iterator meets a node, `lo` and `hi` are the
  first and last place of the subtree at it (`Placed`). `InOrder` says that a name
  compares with those above it the way that led to it, and no more: where low words go
  round, nodes that are not above each other need not be in order. A new leaf moves the
  places behind it up by one (`LeafHung`, `LeafInOrder`). With safe low words nothing
  turns but the node the leaf is hung from (`OnlyTheLastTurns`), only to the leaf's
  side, and only where the order is that of the low words; its rotation and the link
  from above leave all places as they were (`TurnedGreater`, `TurnedLess`). From the
  shape it follows that a search for a name in the tree does not end above it
  (`NameIsFound`), and that the iterator, whose path always leads from the root
  (`Trail`), goes from each place to the next and is empty after the last
  (`AdvanceGoesOn`), so that `clearself` hands every name to the file. `SetInv` adds
  `Moved`: a worker between its two looks, whose hash was stored when its check began,
  finds it in the file, since it was not in the tree, and the only step that takes
  names out of the tree puts them there.
* `ThreadWorkProofs`, from `Hashing`: a hash modulo the number of workers selects a
  worker, and what is hashed and what a seed may be hashed to are keys. Nothing is assumed
  about collisions. For `PushesAreBounded` copies are counted. Until a hash is in the
  file, each push of it beyond those of the seeds has a copy in the cache or with a
  worker that carries it there (`PushesAreHeld`). So who misses it in the cache finds no
  copy there, the earlier pushes are paid for by workers that carry one, and it is none of
  them (`PushesHaveRoom`). Once the hash is in the file, nobody new comes to push it. `NoLinkIsLost` needs more than its words, since a worker at the end
  of a page no longer knows its links: the invariant says at each link that the links
  before it have been dealt with, and that a hash in a cache, in a file or carried is
  pushed or in the hands of a worker. The two loops of `fixURL` are shown to keep file
  names file names and to give a link its `Meaning` where that is `Understood`
  (`FixesAsMeant`): that "../" taken `StepsUp` times leaves the directory with so many
  slashes fewer, and that escapes more than four apart are all decoded.
* `ThreadWorkProofs`, for the decoder: `RioInv` says where `rio` is in the stream at each
  point of it: in which chunk, how much of its size line has been read, how many of its
  data are still to come, how much of its end the search has met. What is decoded is
  what was sent up to that place, and fits the buffer. The difficulty is the search for
  a line end, which ignores what `read` returned: interrupted, it still stops where the
  line ends unless the interruptions themselves complete a line end for it. `BodyDecoded`
  follows, from `RioAssumption`: sizes that are those of the data, and a last chunk that
  is empty. Its exemption `astray` begins with a size that fills `tmp` and has a digit
  behind it, in memory or in the line, or with an interruption that ends a search.

What a recursive function computes is proved, where it is, by looking at the least
argument at which a claim about it would fail.

Only model-checked are the liveness properties, since the provers have no rules for
fairness and `ENABLED`: `EveryURLDelivered`,
`EvictedReachesFile`, `EveryFetchReturns`, `EveryHelperEnds`, `EveryCallReturns`,
`EveryWaiterGetsIn`, `CrawlEnds` and `DecodeReturns`. All invariants, action properties
and refinements of the runs that pass are proved.

## Not modelled, and limits

* `RabinHashFunction64` (its arithmetic on 64-bit words), `Thread_print` and `clean`.
* The regular expressions of `LinkExtractor` and `URLFilter`: a page is the sequence of
  its links, the filter any predicate. Lower case, the lengths of the arrays and what
  is cut off at them are left out.
* What `Writer` writes. Two pages whose file names differ only in "/" and "_" are
  stored in the same file.
* `remove`, `subst`, `build` and the other searches of the tree in memory: no caller.
* Errors of the disk. `write2file` pops what it writes without a test.
* Which URL has which hash. Seeds are hashed by the `URLSeen`'s own
  `RabinHashFunction64`, links by a global one, and both build their tables in
  uninitialised memory; in `URLSeen` a link may have any hash.
* The B-tree is a set in `URLSeen` and in `ThreadWork`, which `BTree` implements for near
  keys only.
* After a chunk was written past the buffer, or memory behind an array was taken for a
  size, the models say no more of what the program does. Sizes that exceed an int are
  left out.
* In `HttpModule`, a fetch beside a helper that outlived an earlier fetch may return a
  page that is not its own or take the branch for the unexpected: the properties exempt
  it, and the stretch after a helper was ended between the two writes of the address.
* In `HttpModule`: SIGPIPE, which would end the process, the locks inside libraries
  that a helper ended by SIGALRM may leave locked, and a signal sent to a thread
  that has just ended. The model is of the build with `DEBUG`, which `global.h`
  defines.
* While adders keep the queue nonempty the spill file is not read at all; the
  liveness property is about what happens once they pause.

## What is left

* Liveness by proof, once a prover for it is at hand.
* The tree in memory with the hashes that `SafeLowWords` leaves out: its operators would
  need an outcome for a null pointer that is followed.
* `remove` and the other searches of that tree, when the code gets a caller for them.
