----------------------------- MODULE Attachments -----------------------------
(****************************************************************************)
(* What the device API promises the script: a declaration is attached to    *)
(* at most one device node at a time, of the kind it asks for, and stays on *)
(* it until it is detached; on_state is called with "add" for each attach,  *)
(* and with "remove" for each detach the script did not ask for itself.     *)
(****************************************************************************)
CONSTANTS Decls, Nodes,
          Fits,       \* the pairs <<decl, node>> of one kind
          NoDecl, NoNode

VARIABLES on,         \* declaration -> node it is attached to, or NoNode
          running,    \* the script's function that runs, None when none does
          waiting     \* the one that waits for its open_device() to finish

avars == <<on, running, waiting>>

Call(c, d) == [cb |-> c, dev |-> d]
None == Call("none", NoDecl)
Other == {None} \cup {Call(c, NoDecl) : c \in {"main", "tick", "watch", "event"}}

Init ==
  /\ on = [d \in Decls |-> NoNode]
  /\ running = Call("main", NoDecl) /\ waiting = None

(* The script opened the device, or it was plugged in. *)
Attach(d, n) ==
  /\ on[d] = NoNode /\ <<d, n>> \in Fits
  /\ on' = [on EXCEPT ![d] = n]
  /\ running' = Call("add", d) /\ UNCHANGED waiting

(* It went away by itself: no function of the script is interrupted by it. *)
Lose(d) ==
  /\ on[d] # NoNode /\ running = None
  /\ on' = [on EXCEPT ![d] = NoNode]
  /\ running' = Call("remove", d) /\ UNCHANGED waiting

(* The script closes it, and is not told. *)
Close(d) ==
  /\ on[d] # NoNode /\ running # None
  /\ on' = [on EXCEPT ![d] = NoNode]
  /\ UNCHANGED <<running, waiting>>

(* The script is called for something else, returns, or goes on. *)
Turn ==
  /\ running' \in {running, waiting} \/ running' \in Other
  /\ waiting' \in {None, running, waiting}
  /\ UNCHANGED on

Next ==
  \/ Turn
  \/ \E d \in Decls : Lose(d) \/ Close(d) \/ \E n \in Nodes : Attach(d, n)

Spec == Init /\ [][Next]_avars
=============================================================================
