---------------------------- MODULE MCThreadView ----------------------------
(* Small instances of ThreadView for TLC. *)
EXTENDS ThreadView

CONSTANTS t1, t2, a, b, c, mine

\* Everything another user wrote is in t1, but for c.
Threads == [p \in Post \ Own |-> IF p = c THEN t2 ELSE t1]

\* a is the latest by the clocks of the authors, although b may answer it.
Ranked == [p \in Post |-> CASE p = a -> 3 [] p = b -> 2 [] p = c -> 4 [] OTHER -> 1]

\* b answers a or nobody.
Answers == {[p \in Post |-> IF p = b THEN B ELSE {}] : B \in SUBSET ({a} \cap Post)}
=============================================================================
