-------------------------------- MODULE SeenSet --------------------------------
(* What the checks of ContentSeen promise to workers that look a hash up and add *)
(* it if it is not known.  Hashes that are the Same cannot always be told apart. *)
CONSTANTS Workers, Keys, Same(_, _)

VARIABLES seen,    \* the hashes added
          doing,   \* what each worker does: idle, checking, adding
          key,     \* the hash it does it with
          since    \* the hashes that were there when its check began

vars == <<seen, doing, key, since>>

Init == /\ seen = {}
        /\ doing = [w \in Workers |-> "idle"]
        /\ key \in [Workers -> Keys]
        /\ since = [w \in Workers |-> {}]

Goto(w, from, to) == doing[w] = from /\ doing' = [doing EXCEPT ![w] = to]

Like(k) == \E s \in seen : Same(k, s)

Check(w) == /\ Goto(w, "idle", "checking")
            /\ \E k \in Keys : key' = [key EXCEPT ![w] = k]
            /\ since' = [since EXCEPT ![w] = seen]
            /\ seen' = seen

(* Only a hash that is there, or one like it, is known; a hash that was there    *)
(* from the beginning of the check on is never unknown.                          *)
Known(w) == /\ Goto(w, "checking", "idle")
            /\ Like(key[w])
            /\ UNCHANGED <<seen, key, since>>

Unknown(w) == /\ Goto(w, "checking", "adding")
              /\ key[w] \notin since[w]
              /\ UNCHANGED <<seen, key, since>>

(* One like a hash that is there may be taken for that one.                      *)
Add(w) == /\ Goto(w, "adding", "idle")
          /\ \/ seen' = seen \cup {key[w]}
             \/ Like(key[w]) /\ seen' = seen
          /\ UNCHANGED <<key, since>>

Next == \E w \in Workers : Check(w) \/ Known(w) \/ Unknown(w) \/ Add(w)
Spec == Init /\ [][Next]_vars
=============================================================================
