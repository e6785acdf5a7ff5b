------------------------------ MODULE Watchlist ------------------------------
(****************************************************************************)
(* aelkey.daemon: sets of device declarations the script has watched, and   *)
(* the part of DispatcherUdev that tells its watchlist callback when such a *)
(* device comes or goes.  The devices are not opened.                       *)
(*                                                                          *)
(* A udev message is handled by a loop over the whole watch_map.  The       *)
(* callback runs in the middle of it and may watch, unwatch and change the  *)
(* callback; more hardware may come and go, and its messages queue up.      *)
(****************************************************************************)
EXTENDS Integers, Sequences, FiniteSets

CONSTANTS
  Refs,        \* names of watched sets, as numbers: watch_map is ordered
  Decls,       \* declarations the script passes to watch
  Order,       \* position of each declaration in its table
  DeclType,    \* "evdev", "hidraw", "libusb" or "gatt"
  Nodes,       \* device nodes
  NodeType,    \* "evdev" or "hidraw"
  Hw,          \* pieces of hardware
  Accepts,     \* the pairs <<decl, hw>> a backend's match() accepts
  MaxQueue,    \* bound on undelivered udev messages (bound of the instance)
  NoNode, NoHw

Watchable == {"evdev", "hidraw", "libusb"}
Entries   == Refs \X Decls

ASSUME WatchAssumption ==
  /\ Refs \subseteq Nat \ {0}
  /\ Order \in [Decls -> Nat]
  /\ \A d, e \in Decls : Order[d] = Order[e] => d = e
  /\ DeclType \in [Decls -> Watchable \cup {"gatt"}]
  /\ NodeType \in [Nodes -> {"evdev", "hidraw"}]
  /\ Accepts \subseteq Decls \X Hw
  /\ NoNode \notin Nodes /\ NoHw \notin Hw /\ MaxQueue \in Nat

VARIABLES
  plugged,    \* node -> hardware behind it
  udevq,      \* messages waiting in the udev monitor socket
  watch_map,  \* ref -> declarations of its entry, empty when it has none
  devnode,    \* ref -> declaration -> InputDecl::devnode of that copy
  callback,   \* AelkeyState::on_watchlist is the name of a function
  handling,   \* the message being handled, NoEvent outside
  todo,       \* entries the handler's loop has still to visit
  at,         \* the ref it is at, 0 before the first
  inLua,      \* a script is running
  heard       \* history: entry -> what the callback was last told of it

vars == <<plugged, udevq, watch_map, devnode, callback, handling, todo, at, inLua, heard>>

Event(a, k, n) == [action |-> a, subsystem |-> k, node |-> n]
NoEvent == Event("none", "none", NoNode)
Events  == [action : {"add", "remove"}, subsystem : {"evdev", "hidraw"},
            node : Nodes \cup {NoNode}]

TypeOK ==
  /\ plugged \in [Nodes -> Hw \cup {NoHw}]
  /\ udevq \in Seq(Events)
  /\ watch_map \in [Refs -> SUBSET {d \in Decls : DeclType[d] \in Watchable}]
  /\ devnode \in [Refs -> [Decls -> Nodes \cup {NoNode}]]
  /\ callback \in BOOLEAN /\ inLua \in BOOLEAN
  /\ handling \in Events \cup {NoEvent}
  /\ todo \subseteq {w \in Entries : w[2] \in watch_map[w[1]]}
  /\ at \in Refs \cup {0}
  /\ heard \in [Entries -> {"none", "add", "remove"}]

(* Nothing is plugged that a declaration is for; the main chunk runs. *)
Init ==
  /\ plugged = [n \in Nodes |-> NoHw] /\ udevq = <<>>
  /\ watch_map = [r \in Refs |-> {}]
  /\ devnode = [r \in Refs |-> [d \in Decls |-> NoNode]]
  /\ callback = FALSE
  /\ handling = NoEvent /\ todo = {} /\ at = 0
  /\ inLua = TRUE
  /\ heard = [w \in Entries |-> "none"]

-----------------------------------------------------------------------------
(****************************************************************************)
(* The kernel.  An input device has a parent without a node of its own,     *)
(* which comes before it and goes after it.                                 *)
(****************************************************************************)
Plug(n, h) ==
  LET k == NodeType[n] IN
  /\ plugged[n] = NoHw /\ \A m \in Nodes : plugged[m] # h
  /\ \A d \in Decls : <<d, h>> \in Accepts => DeclType[d] = k
  /\ plugged' = [plugged EXCEPT ![n] = h]
  /\ udevq' = udevq \o (IF k = "evdev" THEN <<Event("add", k, NoNode)>> ELSE <<>>)
                    \o <<Event("add", k, n)>>
  /\ Len(udevq') <= MaxQueue
  /\ UNCHANGED <<watch_map, devnode, callback, handling, todo, at, inLua, heard>>

Unplug(n) ==
  LET k == NodeType[n] IN
  /\ plugged[n] # NoHw
  /\ plugged' = [plugged EXCEPT ![n] = NoHw]
  /\ udevq' = udevq \o <<Event("remove", k, n)>>
                    \o (IF k = "evdev" THEN <<Event("remove", k, NoNode)>> ELSE <<>>)
  /\ Len(udevq') <= MaxQueue
  /\ UNCHANGED <<watch_map, devnode, callback, handling, todo, at, inLua, heard>>

-----------------------------------------------------------------------------
(****************************************************************************)
(* The script's calls.                                                      *)
(****************************************************************************)
(* A callback leaves alone the set whose entry it is told of: the handler's *)
(* loop holds iterators into it, which watch and unwatch would invalidate.  *)
MayChange(r) == inLua /\ r # at

Forgotten(r) == [w \in Entries |-> IF w[1] = r THEN "none" ELSE heard[w]]
Others(r)    == {w \in todo : w[1] # r}

(* watch(ref, decls): replaces what the ref had, unless none of the new     *)
(* declarations is of a watchable type; the copies know of no node.  A loop *)
(* that has not come to the ref will visit the new entries. *)
watch(r, S) ==
  LET valid == {d \in S : DeclType[d] \in Watchable} IN
  /\ MayChange(r)
  /\ IF valid = {}
     THEN UNCHANGED <<watch_map, devnode, todo, heard>>
     ELSE /\ watch_map' = [watch_map EXCEPT ![r] = valid]
          /\ devnode' = [devnode EXCEPT ![r] = [d \in Decls |-> NoNode]]
          /\ todo' = Others(r) \cup (IF handling # NoEvent /\ r > at THEN {r} \X valid ELSE {})
          /\ heard' = Forgotten(r)
  /\ UNCHANGED <<plugged, udevq, callback, handling, at, inLua>>

unwatch(r) ==
  /\ MayChange(r)
  /\ watch_map' = [watch_map EXCEPT ![r] = {}]
  /\ devnode' = [devnode EXCEPT ![r] = [d \in Decls |-> NoNode]]
  /\ todo' = Others(r)
  /\ heard' = Forgotten(r)
  /\ UNCHANGED <<plugged, udevq, callback, handling, at, inLua>>

(* set_callback(name), or set_callback(nil) *)
set_callback(b) ==
  /\ inLua
  /\ callback' = b
  /\ heard' = [w \in Entries |-> "none"]
  /\ UNCHANGED <<plugged, udevq, watch_map, devnode, handling, todo, at, inLua>>

Return ==
  /\ inLua
  /\ inLua' = FALSE
  /\ UNCHANGED <<plugged, udevq, watch_map, devnode, callback, handling, todo, at, heard>>

(* A callback of another dispatcher. *)
OtherCallback ==
  /\ ~inLua /\ handling = NoEvent
  /\ inLua' = TRUE
  /\ UNCHANGED <<plugged, udevq, watch_map, devnode, callback, handling, todo, at, heard>>

-----------------------------------------------------------------------------
(****************************************************************************)
(* DispatcherUdev: one message per event, and its loop over the entries.    *)
(****************************************************************************)
(* Mutant: the socket is drained, the last message is handled. *)
ReceiveLast ==
  /\ ~inLua /\ handling = NoEvent
  /\ udevq # <<>>
  /\ udevq' = <<>>
  /\ handling' = udevq[Len(udevq)]
  /\ todo' = {w \in Entries : w[2] \in watch_map[w[1]]}
  /\ UNCHANGED <<plugged, watch_map, devnode, callback, at, inLua, heard>>

(* handle_event takes one message. *)
Receive ==
  /\ ~inLua /\ handling = NoEvent
  /\ udevq # <<>>
  /\ udevq' = Tail(udevq)
  /\ handling' = Head(udevq)
  /\ todo' = {w \in Entries : w[2] \in watch_map[w[1]]}
  /\ UNCHANGED <<plugged, watch_map, devnode, callback, at, inLua, heard>>

IsNext(w) ==
  /\ w \in todo
  /\ \A v \in todo : w[1] < v[1] \/ (w[1] = v[1] /\ Order[w[2]] <= Order[v[2]])

(* The loop reaches entry w of a message with the given action. *)
Visit(w, a) ==
  /\ ~inLua /\ handling.action = a /\ IsNext(w)
  /\ todo' = todo \ {w} /\ at' = w[1]

(* notify_state_change, with the watchlist callback of the moment. *)
Notify(w) ==
  /\ inLua' = callback
  /\ heard' = IF callback THEN [heard EXCEPT ![w] = handling.action] ELSE heard

Silent == UNCHANGED <<devnode, inLua, heard>>

(* The nodes match() may return now.  For libusb it returns the id, which   *)
(* is no path of any message. *)
MatchNodes(d) ==
  {n \in Nodes : NodeType[n] = DeclType[d] /\ <<d, plugged[n]>> \in Accepts}

(* handle_udev_add of entry w: match() looks again at what is plugged now.  *)
VisitAdd(w) ==
  LET r == w[1]
      d == w[2]
  IN
  /\ Visit(w, "add")
  /\ \/ \E n \in MatchNodes(d) :
          /\ n = handling.node
          /\ devnode' = [devnode EXCEPT ![r][d] = n]
          /\ Notify(w)
     \/ /\ MatchNodes(d) # {handling.node}
        /\ Silent
  /\ UNCHANGED <<plugged, udevq, watch_map, callback, handling>>

(* Mutant: the entry keeps its node. *)
VisitRemoveKeeps(w) ==
  LET r == w[1]
      d == w[2]
  IN
  /\ Visit(w, "remove")
  /\ IF DeclType[d] = handling.subsystem /\ devnode[r][d] = handling.node
     THEN Notify(w) /\ UNCHANGED devnode
     ELSE Silent
  /\ UNCHANGED <<plugged, udevq, watch_map, callback, handling>>

(* handle_udev_remove of entry w: an entry without a node, and a message of *)
(* a device without one, have equal (empty) names. *)
VisitRemove(w) ==
  LET r == w[1]
      d == w[2]
  IN
  /\ Visit(w, "remove")
  /\ IF DeclType[d] = handling.subsystem /\ devnode[r][d] = handling.node
     THEN /\ Notify(w)
          /\ devnode' = [devnode EXCEPT ![r][d] = NoNode]
     ELSE Silent
  /\ UNCHANGED <<plugged, udevq, watch_map, callback, handling>>

(* The loop over the watchlist is over; module DeviceLifecycle has what the *)
(* message means for the script's own devices. *)
HandleDone ==
  /\ ~inLua /\ handling # NoEvent /\ todo = {}
  /\ handling' = NoEvent /\ at' = 0
  /\ UNCHANGED <<plugged, udevq, watch_map, devnode, callback, todo, inLua, heard>>

Kernel == \E n \in Nodes : Unplug(n) \/ \E h \in Hw : Plug(n, h)
Lua == \/ \E r \in Refs : unwatch(r) \/ \E S \in SUBSET Decls : watch(r, S)
       \/ \E b \in BOOLEAN : set_callback(b)
       \/ Return \/ OtherCallback
Loop == Receive \/ HandleDone \/ \E w \in Entries : VisitAdd(w) \/ VisitRemove(w)
Next == Kernel \/ Lua \/ Loop

Spec == Init /\ [][Next]_vars

(* Callbacks return, and the loop comes back to the monitor's socket as     *)
(* long as a message waits there (other callbacks come in between: SF).     *)
FairSpec == Spec /\ WF_vars(Return) /\ SF_vars(Receive) /\ WF_vars(Loop)

-----------------------------------------------------------------------------
Watched(w) == w[2] \in watch_map[w[1]]
There(w)   == MatchNodes(w[2]) # {}
Pending    == {handling} \cup {udevq[i] : i \in 1..Len(udevq)}

(* A node an entry remembers is one its device is on, or its removal is on  *)
(* the way: re-plugging, on whichever node and however many messages are    *)
(* queued, never leaves an entry waiting for a removal that is past.        *)
RemovalIsComing ==
  \A w \in Entries :
    LET n == devnode[w[1]][w[2]] IN
    n # NoNode =>
      \/ n \in MatchNodes(w[2])
      \/ Event("remove", NodeType[n], n) \in Pending

(* The step tells of an entry what it told of it last: that it left, or     *)
(* that it came, to the very node it is on. *)
Repeats ==
  \E w \in todo \ todo' :
    /\ handling' = handling
    /\ ~inLua /\ inLua' /\ heard[w] = handling.action
    /\ handling.action = "add" => devnode[w[1]][w[2]] = handling.node

(* Of a watched device the callback hears arrivals on a node and removals   *)
(* in turn, however plugging, messages and the script's calls interleave;   *)
(* only the message of an input device without a node of its own may tell   *)
(* that a device left that is gone already.  (A device's arrival on another *)
(* node may be told before its removal from the old one: match() takes the  *)
(* message of a device that was on that node before it for its own.) *)
NoticesAlternate == [][Repeats => handling.node = NoNode]_vars

(* The arrival of a watched device is told, if it stays and the script      *)
(* keeps watching.                                                          *)
ArrivalIsHeard ==
  \A w \in Entries :
    (Watched(w) /\ callback /\ \E n \in MatchNodes(w[2]) : Event("add", NodeType[n], n) \in
        {udevq[i] : i \in 1..Len(udevq)})
      ~> (heard[w] = "add" \/ ~There(w) \/ ~Watched(w) \/ ~callback)
=============================================================================
