----------------------------- MODULE DurableDb -----------------------------
(***************************************************************************)
(* What the GC pass promises of a database: it changes only by the writes  *)
(* of the node and the deletions of the pruner, whatever fails.  The one   *)
(* liberty it takes is that keys deleted earlier may come back.            *)
(***************************************************************************)
CONSTANTS Keys, Meta

VARIABLES
  db,       \* the keys of the database
  written   \* all keys the node ever wrote

Init == db \subseteq Keys /\ Meta \in db /\ written = db

Write(k) ==
  /\ k \notin db
  /\ db' = db \cup {k} /\ written' = written \cup {k}

Delete(k) ==
  /\ k \in db \ {Meta}
  /\ db' = db \ {k} /\ UNCHANGED written

Reappear ==
  /\ db' \in {db \cup back : back \in SUBSET (written \ db)}
  /\ UNCHANGED written

Next == Reappear \/ \E k \in Keys : Write(k) \/ Delete(k)

Spec == Init /\ [][Next]_<<db, written>>
============================================================================
