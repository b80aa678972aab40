----------------------------- MODULE LinkExtractor -----------------------------
(* How LinkExtractor makes a page_link of the text of a hyperlink, given the     *)
(* page it was found on.  A file name is a sequence of characters, of which the  *)
(* slash and the escape "&amp;", one of five, are told apart.                    *)
(*                                                                               *)
(* In _host_addr the port of an absolute URL is cut off by a null character, and *)
(* stays in the array behind it: that is the tail here.                          *)
EXTENDS Integers, Sequences

CONSTANT Symbols   \* what a file name consists of

ASSUME SymbolsAssumption == {"/", "&", "&amp;"} \subseteq Symbols /\ "unresolved" \notin Symbols

Files == Seq(Symbols)

(* A link of a page: its kind is told by how it begins, a dotted one by its dots. *)
IsLink(link) ==
  /\ link.kind \in {"absolute", "rooted", "plain", "dotted"}
  /\ \/ link.kind = "absolute" /\ link.javascript
     \/ link.file \in Files
  /\ link.kind = "dotted" => link.dots \in Seq({"./", "../", "bad"}) /\ link.dots # <<>>

PageLink(host, tail, file, port) == [host |-> host, tail |-> tail, file |-> file, port |-> port]

NoPort == 0        \* an absolute URL without ":port"
Unresolved == [host |-> "unresolved"]
NoFile     == <<"unresolved">>

(* URLanalyser, of an absolute URL.                                              *)
URLanalyser(url) ==
  IF url.javascript THEN Unresolved
  ELSE IF url.port = NoPort THEN PageLink(url.host, NoPort, url.file, 80)
  ELSE PageLink(url.host, url.port, url.file, url.port)

LastSlash(f) == LET at == {i \in 1 .. Len(f) : f[i] = "/"}
                IN  IF at = {} THEN 0 ELSE CHOOSE i \in at : \A j \in at : j <= i

Directory(f) == SubSeq(f, 1, LastSlash(f))

(* "../" stays in the directory.                                                 *)
AfterDotsFault(file, dots) ==
  LET f[i \in 0 .. Len(dots)] ==
        IF i = 0 THEN file
        ELSE IF f[i - 1] = NoFile \/ dots[i] = "bad" THEN NoFile
        ELSE IF dots[i] = "./" THEN Directory(f[i - 1])
        ELSE IF LastSlash(f[i - 1]) = 0 THEN NoFile
        ELSE Directory(SubSeq(f[i - 1], 1, LastSlash(f[i - 1])))
  IN  f[Len(dots)]

(* The loop of fixURL over the "./" and "../" in front of a link.                *)
AfterDots(file, dots) ==
  LET f[i \in 0 .. Len(dots)] ==
        IF i = 0 THEN file
        ELSE IF f[i - 1] = NoFile \/ dots[i] = "bad" THEN NoFile
        ELSE IF dots[i] = "./" THEN Directory(f[i - 1])
        ELSE IF LastSlash(f[i - 1]) = 0 THEN NoFile
        ELSE Directory(SubSeq(f[i - 1], 1, LastSlash(f[i - 1]) - 1))
  IN  f[Len(dots)]

(* "&amp;" becomes "&", and the search goes on five characters further although  *)
(* only one is left of it: an escape that begins within the four is not seen.    *)
DecodeAmp(file) ==
  LET d[i \in 0 .. Len(file)] ==
        IF i = 0 THEN [out |-> <<>>, skip |-> 0]
        ELSE LET r == d[i - 1]
             IN  IF file[i] # "&amp;"
                 THEN [out |-> Append(r.out, file[i]), skip |-> IF r.skip = 0 THEN 0 ELSE r.skip - 1]
                 ELSE IF r.skip > 0 THEN [out |-> Append(r.out, "&amp;"), skip |-> 0]
                 ELSE [out |-> Append(r.out, "&"), skip |-> 4]
  IN  d[Len(file)].out

(* fixURL, of a link on page.  A relative link without dots is taken to start at *)
(* the root of the host, like one that begins with a slash.                      *)
FixURL(page, link) ==
  CASE link.kind = "absolute" -> URLanalyser(link)
    [] link.kind \in {"rooted", "plain"} -> PageLink(page.host, NoPort, link.file, page.port)
    [] link.kind = "dotted" ->
         LET base == AfterDots(page.file, link.dots)
         IN  IF base = NoFile THEN Unresolved
             ELSE PageLink(page.host, NoPort, DecodeAmp(base \o link.file), page.port)
=============================================================================
