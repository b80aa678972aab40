------------------------------ MODULE FrontierPool ------------------------------
(* What a URL frontier promises to the crawler, with its queue, its spill file   *)
(* and its locks left out: every URL handed to addURL becomes pending, and each  *)
(* readURL that returns true takes one pending URL, which is never handed out    *)
(* again.  URLs are numbered in the order they are added; the pool promises no   *)
(* order of delivery.                                                            *)
EXTENDS Naturals

VARIABLES added,   \* the number of URLs handed to addURL
          pending, \* handed to addURL, not yet returned by readURL
          taken    \* returned by readURL

vars == <<added, pending, taken>>

Init == /\ added = 0
        /\ pending = {}
        /\ taken = {}

Add == /\ added' = added + 1
       /\ pending' = pending \cup {added + 1}
       /\ UNCHANGED taken

Take == \E u \in pending :
          /\ pending' = pending \ {u}
          /\ taken' = taken \cup {u}
          /\ UNCHANGED added

Next == Add \/ Take

Spec == Init /\ [][Next]_vars
=============================================================================
