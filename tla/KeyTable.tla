-------------------------------- MODULE KeyTable --------------------------------
(* What a table of keys promises (table.h): a call of Insert adds a key and      *)
(* returns whether it was new, a call of Retrieve returns whether the key is in. *)
CONSTANT Key

VARIABLES table,   \* the keys stored
          call,    \* the call under way, NoCall if there is none
          answer   \* what the last call returned

vars == <<table, call, answer>>

Calls == [op : {"Insert", "Retrieve"}, key : Key]
NoCall == <<>>

Init == table = {} /\ call = NoCall /\ answer = FALSE

Call == call = NoCall /\ call' \in Calls /\ UNCHANGED <<table, answer>>

Insert == /\ call # NoCall /\ call.op = "Insert"
          /\ table' = table \cup {call.key}
          /\ answer' = (call.key \notin table)
          /\ call' = NoCall

Retrieve == /\ call # NoCall /\ call.op = "Retrieve"
            /\ answer' = (call.key \in table)
            /\ call' = NoCall
            /\ UNCHANGED table

Next == Call \/ Insert \/ Retrieve
Spec == Init /\ [][Next]_vars
=============================================================================
