------------------------------- MODULE ThreadWork -------------------------------
(* The worker loop of crawler.h with the components around it: each worker takes *)
(* URLs from its own frontier, fetches and stores the page, and hands each link  *)
(* on it that the filter lets through and no worker has marked to the frontier   *)
(* and the URLSeen that its hash selects.                                        *)
(*                                                                               *)
(* The components stand here with what their own modules show of them: a         *)
(* frontier is a pool of URLs (FrontierPool), fetch returns a page or fails      *)
(* (HttpModule), a URLSeen is its cache and its file with the steps that URLSeen *)
(* has, and the B-tree in the file is a set, as BTree shows for keys that lie    *)
(* near each other.                                                              *)
EXTENDS LinkExtractor, LRUList, FiniteSets, Bags

CONSTANTS Workers,         \* there is a frontier and a URLSeen for each
          Web,             \* the links of each page there is, by its address
          Seeds,           \* the URLs of the seed file, line by line
          SeedHashes(_),   \* the hashes that the URLSeens may give a seed
          Filtered(_),     \* the filter: TRUE for a URL that no expression matches
          Digest(_, _, _), \* hash_site of the host, what is behind it, and the file
          Mod(_)           \* the worker that a hash selects

Address(pl) == [host |-> pl.host, port |-> pl.port, file |-> pl.file]

(* All of the two arrays, and no port.  URLs may share a hash.                   *)
Hash(pl) == Digest(pl.host, pl.tail, pl.file)

ASSUME ThreadWorkAssumption ==
  /\ IsFiniteSet(Workers)
  /\ \A a \in DOMAIN Web : /\ Len(Web[a]) \in Nat
                           /\ \A i \in 1 .. Len(Web[a]) : IsLink(Web[a][i])
  /\ Len(Seeds) \in Nat
  /\ \A i \in 1 .. Len(Seeds) : Seeds[i].file \in Files

VARIABLES nextLine,  \* the line of the seed file that is next
          cache,     \* the LRU cache of each URLSeen
          file,      \* the hashes in its B-tree file
          out,       \* what each worker has evicted and not yet put in a file
          frontier,  \* the page_links in each frontier
          pushed,    \* how often a URL with each hash was pushed, seeds included
          pc, page,  \* where each worker is, and the page it is at
          rest,      \* the links of the page that are still to come
          holder     \* the link it is at

vars == <<nextLine, cache, file, out, frontier, pushed, pc, page, rest, holder>>
seen == <<cache, file, out>>

One(x) == SetToBag({x})

Resolved(pl) ==
  LET links == Web[Address(pl)] IN [i \in 1 .. Len(links) |-> FixURL(pl, links[i])]

Nothing == PageLink("", NoPort, <<>>, NoPort)

Init ==
  /\ nextLine = 1
  /\ cache = [w \in Workers |-> <<>>]
  /\ file = [w \in Workers |-> {}]
  /\ out = [w \in Workers |-> NoKey]
  /\ frontier = [w \in Workers |-> EmptyBag]
  /\ pushed = EmptyBag
  /\ pc = [w \in Workers |-> "loop"]
  /\ page = [w \in Workers |-> Nothing]
  /\ rest = [w \in Workers |-> <<>>]
  /\ holder = [w \in Workers |-> Nothing]

(* Before the workers start, crawler() pushes and adds each line of the seed     *)
(* file, without a check: into the frontier and the URLSeen that a hash of the   *)
(* line selects, and under the hash that this URLSeen gives it.                  *)
PushSeed ==
  /\ nextLine <= Len(Seeds)
  /\ nextLine' = nextLine + 1
  /\ \E m \in Workers, hash \in SeedHashes(Seeds[nextLine]) :
       /\ frontier' = [frontier EXCEPT ![m] = @ (+) One(Seeds[nextLine])]
       /\ pushed' = pushed (+) One(hash)
       /\ cache' = [cache EXCEPT ![m] = Inserted(@, hash)]
       /\ file' = [file EXCEPT ![m] = IF Full(cache[m]) THEN @ \cup {Evicted(cache[m])} ELSE @]
  /\ UNCHANGED <<out, pc, page, rest, holder>>

Goto(w, from, to) == pc[w] = from /\ pc' = [pc EXCEPT ![w] = to]

-----------------------------------------------------------------------------
(* The URL stays in the frontier.                                                *)
ReadURLFault(w) ==
  /\ Goto(w, "loop", "fetch")
  /\ \E pl \in BagToSet(frontier[w]) : page' = [page EXCEPT ![w] = pl]
  /\ UNCHANGED <<nextLine, seen, frontier, pushed, rest, holder>>

(* available and readURL.                                                        *)
ReadURL(w) ==
  /\ Goto(w, "loop", "fetch")
  /\ \E pl \in BagToSet(frontier[w]) :
       /\ page' = [page EXCEPT ![w] = pl]
       /\ frontier' = [frontier EXCEPT ![w] = @ (-) One(pl)]
  /\ UNCHANGED <<nextLine, seen, pushed, rest, holder>>

(* fetch, or writeLocal after it, fails: the URL is not tried again.             *)
Fail(w) ==
  /\ Goto(w, "fetch", "loop")
  /\ page' = [page EXCEPT ![w] = Nothing]
  /\ UNCHANGED <<nextLine, seen, frontier, pushed, rest, holder>>

(* Page and header are stored, and the link extractor is put on the page: rest   *)
(* has what fixURL makes of each link.                                           *)
Store(w) ==
  /\ Goto(w, "fetch", "links")
  /\ Address(page[w]) \in DOMAIN Web
  /\ rest' = [rest EXCEPT ![w] = Resolved(page[w])]
  /\ UNCHANGED <<nextLine, seen, frontier, pushed, page, holder>>

(* getLink: the next link; one that cannot be resolved ends the loop like the    *)
(* end of the page.                                                              *)
NextLink(w) == IF rest[w] = <<>> THEN Unresolved ELSE Head(rest[w])

GetLink(w) ==
  /\ NextLink(w) # Unresolved
  /\ IF Filtered(NextLink(w)) THEN Goto(w, "links", "links") /\ UNCHANGED holder
     ELSE Goto(w, "links", "check") /\ holder' = [holder EXCEPT ![w] = NextLink(w)]
  /\ rest' = [rest EXCEPT ![w] = Tail(@)]
  /\ UNCHANGED <<nextLine, seen, frontier, pushed, page>>

EndOfLinks(w) ==
  /\ NextLink(w) = Unresolved
  /\ Goto(w, "links", "loop")
  /\ rest' = [rest EXCEPT ![w] = <<>>]
  /\ page' = [page EXCEPT ![w] = Nothing]
  /\ UNCHANGED <<nextLine, seen, frontier, pushed, holder>>

-----------------------------------------------------------------------------
(* The link a worker is at, and the worker whose URLSeen and frontier take it.   *)
Key(w)  == Hash(holder[w])
Home(w) == Mod(Key(w))

(* check and add of URLSeen: its cache is locked, then its file, and other       *)
(* workers run in between.  A link that is in the cache is let go.               *)
Known(w) ==
  /\ Goto(w, "check", "links")
  /\ Holds(cache[Home(w)], Key(w))
  /\ cache' = [cache EXCEPT ![Home(w)] = Touched(@, Key(w))]
  /\ holder' = [holder EXCEPT ![w] = Nothing]
  /\ UNCHANGED <<nextLine, file, out, frontier, pushed, page, rest>>

NotCached(w) ==
  /\ Goto(w, "check", "checkFile")
  /\ ~Holds(cache[Home(w)], Key(w))
  /\ UNCHANGED <<nextLine, seen, frontier, pushed, page, rest, holder>>

CheckFileFault(w) ==  \* the file is never looked at
  /\ Goto(w, "checkFile", "add")
  /\ UNCHANGED <<nextLine, seen, frontier, pushed, page, rest, holder>>

CheckFileAnyFault(w) ==  \* any hash in the file will do
  /\ Goto(w, "checkFile", IF file[Home(w)] # {} THEN "promote" ELSE "add")
  /\ UNCHANGED <<nextLine, seen, frontier, pushed, page, rest, holder>>

CheckFile(w) ==
  /\ Goto(w, "checkFile", IF Key(w) \in file[Home(w)] THEN "promote" ELSE "add")
  /\ UNCHANGED <<nextLine, seen, frontier, pushed, page, rest, holder>>

InsertCache(w) ==
  /\ cache' = [cache EXCEPT ![Home(w)] = Inserted(@, Key(w))]
  /\ out' = [out EXCEPT ![w] = Evicted(cache[Home(w)])]

InsertFileFault(w) ==  \* the evicted hash is dropped
  /\ file' = file
  /\ out' = [out EXCEPT ![w] = NoKey]

InsertFile(w) ==
  /\ file' = [file EXCEPT ![Home(w)] = @ \cup {out[w]}]
  /\ out' = [out EXCEPT ![w] = NoKey]

(* Found in the file: it comes back into the cache, and is let go.               *)
Promote(w) ==
  /\ Goto(w, "promote", "demote")
  /\ InsertCache(w)
  /\ UNCHANGED <<nextLine, file, frontier, pushed, page, rest, holder>>

Demote(w) ==
  /\ Goto(w, "demote", "links")
  /\ InsertFile(w)
  /\ holder' = [holder EXCEPT ![w] = Nothing]
  /\ UNCHANGED <<nextLine, cache, frontier, pushed, page, rest>>

(* Found in neither: it is new, and added.                                       *)
Add(w) ==
  /\ Goto(w, "add", IF Full(cache[Home(w)]) THEN "spill" ELSE "push")
  /\ InsertCache(w)
  /\ UNCHANGED <<nextLine, file, frontier, pushed, page, rest, holder>>

Spill(w) ==
  /\ Goto(w, "spill", "push")
  /\ InsertFile(w)
  /\ UNCHANGED <<nextLine, cache, frontier, pushed, page, rest, holder>>

AddURL(w) ==
  /\ Goto(w, "push", "links")
  /\ frontier' = [frontier EXCEPT ![Home(w)] = @ (+) One(holder[w])]
  /\ pushed' = pushed (+) One(Key(w))
  /\ holder' = [holder EXCEPT ![w] = Nothing]
  /\ UNCHANGED <<nextLine, seen, page, rest>>

Step(w) == /\ nextLine > Len(Seeds)
           /\ \/ ReadURL(w) \/ Fail(w) \/ Store(w)
              \/ GetLink(w) \/ EndOfLinks(w)
              \/ Known(w) \/ NotCached(w) \/ CheckFile(w) \/ Promote(w) \/ Demote(w)
              \/ Add(w) \/ Spill(w) \/ AddURL(w)

Next == PushSeed \/ \E w \in Workers : Step(w)

(* The threads run; HttpModule has that a fetch returns.                         *)
Spec == /\ Init /\ [][Next]_vars
        /\ WF_vars(PushSeed) /\ \A w \in Workers : WF_vars(Step(w))
-----------------------------------------------------------------------------
(* What a link means to who wrote it: one without a slash in front starts in the *)
(* directory of the page, dots are steps in the tree of directories, and an      *)
(* escape is what it stands for.                                                 *)
Dirs(f) == {i \in 1 .. Len(f) : f[i] = "/"}

Unescaped(f) == [i \in 1 .. Len(f) |-> IF f[i] = "&amp;" THEN "&" ELSE f[i]]

StepsUp(link) == Cardinality({i \in 1 .. Len(link.dots) : link.dots[i] = "../"})

(* The directory a relative link starts in, of those above the file.             *)
StartIn(f, link) ==
  LET keep == Cardinality(Dirs(f)) - (IF link.kind = "dotted" THEN StepsUp(link) ELSE 0)
  IN  IF link.kind = "rooted" \/ keep <= 0 THEN <<>>
      ELSE SubSeq(f, 1, CHOOSE i \in Dirs(f) : Cardinality({j \in Dirs(f) : j <= i}) = keep)

Meaning(pl, link) ==
  IF link.kind # "absolute"
  THEN PageLink(pl.host, NoPort, Unescaped(StartIn(pl.file, link) \o link.file), pl.port)
  ELSE IF link.javascript THEN Unresolved
  ELSE [URLanalyser(link) EXCEPT !.file = Unescaped(@)]

(* Where the code goes by that meaning: all links but the relative ones without  *)
(* dots on a page below the root, those with "..." or with more "../" than there *)
(* are directories, and those with an escape, unless they begin with dots and    *)
(* have more than four symbols between two.                                      *)
Escapes(f) == {i \in 1 .. Len(f) : f[i] = "&amp;"}

Understood(pl, link) ==
  CASE link.kind = "absolute" -> link.javascript \/ Escapes(link.file) = {}
    [] link.kind = "rooted" -> Escapes(link.file) = {}
    [] link.kind = "plain" -> Dirs(pl.file) = {} /\ Escapes(link.file) = {}
    [] link.kind = "dotted" ->
         /\ \A i \in 1 .. Len(link.dots) : link.dots[i] # "bad"
         /\ StepsUp(link) <= Cardinality(Dirs(pl.file))
         /\ LET f == StartIn(pl.file, link) \o link.file
            IN  \A i, j \in Escapes(f) : i < j => i + 4 < j

(* The URL a link stands for, or what the code makes of it where that is not so. *)
Target(pl, link) == IF Understood(pl, link) THEN Meaning(pl, link) ELSE FixURL(pl, link)

(* The links of a page up to the first that leads nowhere, less the filtered.    *)
LinksOf(pl) ==
  LET links == Web[Address(pl)]
      ts    == [i \in 1 .. Len(links) |-> Target(pl, links[i])]
  IN  {ts[i] : i \in {j \in 1 .. Len(links) : \A k \in 1 .. j : ts[k] # Unresolved}}
        \ {ts[i] : i \in {j \in 1 .. Len(links) : ts[j] # Unresolved /\ Filtered(ts[j])}}

InHands == {Key(w) : w \in {v \in Workers : pc[v] \in {"add", "spill", "push"}}}

(* No link is lost between workers: when the loop over a page is over, the hash  *)
(* of each link on it, up to one that cannot be resolved, has been pushed or is  *)
(* about to be by another worker, whichever workers marked it, evicted it from a *)
(* cache, filtered it or raced for it.  The links are those the page means where *)
(* the code follows the meaning (Understood); elsewhere they are what fixURL     *)
(* makes of them.  That a hash is pushed says that one URL with this hash is:    *)
(* two URLs that share it are one to the crawler.                                *)
LinksAreScheduled ==
  [][\A w \in Workers : pc[w] = "links" /\ pc'[w] = "loop" =>
       \A pl \in LinksOf(page[w]) : Hash(pl) \in BagToSet(pushed) \cup InHands]_vars

(* Between check and add other workers can find the same link, and check misses  *)
(* a hash that another worker carries from the cache to the file, so that even   *)
(* one worker may push URLs with one hash more than once.  But all workers       *)
(* together push them at most as often as there are workers, beside the lines of *)
(* the seed file that may have the hash: whenever it is missed in the cache,     *)
(* each copy that was there is in the hands of a worker of its own.              *)
PushesAreBounded ==
  \A h \in BagToSet(pushed) :
    pushed[h] <= Cardinality(Workers)
                   + Cardinality({i \in 1 .. Len(Seeds) : h \in SeedHashes(Seeds[i])})

(* On a finite web the crawl comes to rest although pages link to each other in  *)
(* circles: nothing is left in any frontier, and every worker waits.             *)
CrawlEnds == <>[](/\ nextLine > Len(Seeds)
                  /\ \A w \in Workers : pc[w] = "loop" /\ frontier[w] = EmptyBag)
=============================================================================
