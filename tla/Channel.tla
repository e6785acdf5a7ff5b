------------------------------ MODULE Channel ------------------------------
(****************************************************************************)
(* What the reader of a D-Bus connection relies on: signals are handled one *)
(* at a time, in the order in which they arrived, and none is lost.         *)
(****************************************************************************)
EXTENDS Sequences

CONSTANT Messages

VARIABLE queue    \* signals that arrived and are not handled yet

Init == queue = <<>>

(* Signals arrive. *)
Arrive == \E m \in Messages : queue' = Append(queue, m)

(* The oldest one is handled. *)
Take == queue # <<>> /\ queue' = Tail(queue)

Next == Arrive \/ Take
Spec == Init /\ [][Next]_queue
=============================================================================
