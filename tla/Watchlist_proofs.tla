-------------------------- MODULE Watchlist_proofs --------------------------
(****************************************************************************)
(* Proofs about Watchlist, for any watched sets, declarations, hardware and *)
(* length of the queue of udev messages.                                    *)
(*                                                                          *)
(* RemovalIsComing is not inductive: a removal that is being handled counts *)
(* for an entry only while the loop has not come to it (RemovalAhead), and  *)
(* comes to it only if the entry is in the watchlist and of the message's   *)
(* subsystem (NodesFit).                                                    *)
(****************************************************************************)
EXTENDS Watchlist, SequenceTheorems, TLAPS

Removal(n) == Event("remove", NodeType[n], n)
Queued == {udevq[i] : i \in 1..Len(udevq)}

NodesFit ==
  \A r \in Refs, d \in Decls :
    devnode[r][d] # NoNode => d \in watch_map[r] /\ NodeType[devnode[r][d]] = DeclType[d]

RemovalAhead ==
  \A r \in Refs, d \in Decls :
    devnode[r][d] # NoNode =>
      \/ devnode[r][d] \in MatchNodes(d)
      \/ Removal(devnode[r][d]) \in Queued
      \/ handling = Removal(devnode[r][d]) /\ <<r, d>> \in todo

IInv == TypeOK /\ NodesFit /\ RemovalAhead

(* Messages. *)
LEMMA EventTypes ==
  /\ \A n \in Nodes, a \in {"add", "remove"} :
       Event(a, NodeType[n], n) \in Events /\ Event(a, NodeType[n], NoNode) \in Events
  /\ \A e \in Events : e.node \in Nodes \cup {NoNode} /\ e.action # "none"
  /\ \A n \in Nodes :
       Removal(n).action = "remove" /\ Removal(n).subsystem = NodeType[n] /\ Removal(n).node = n
  /\ NoEvent.action = "none"
  BY WatchAssumption DEF Event, Events, Removal, NoEvent

LEMMA InitInv == Init => IInv
<1> SUFFICES ASSUME Init PROVE IInv
  OBVIOUS
<1>1. udevq \in Seq(Events)
  BY DEF Init
<1>2. TypeOK
  BY <1>1 DEF Init, TypeOK
<1>3. NodesFit /\ RemovalAhead
  BY DEF Init, NodesFit, RemovalAhead
<1> QED BY <1>2, <1>3 DEF IInv

-----------------------------------------------------------------------------
(* The kernel.  Messages are added at the end of the queue. *)
LEMMA QueueGrows ==
  ASSUME udevq \in Seq(Events), NEW s \in Seq(Events), NEW t \in Seq(Events), udevq' = udevq \o s \o t
  PROVE  /\ udevq' \in Seq(Events)
         /\ Queued \subseteq Queued'
         /\ \A i \in 1..Len(s) : s[i] \in Queued'
<1>1. udevq \o s \in Seq(Events) /\ udevq' \in Seq(Events)
  BY ConcatProperties
<1>2. Len(udevq \o s) = Len(udevq) + Len(s) /\ Len(udevq') = Len(udevq) + Len(s) + Len(t)
  BY <1>1, ConcatProperties, LenProperties
<1>3. \A i \in 1..Len(udevq) : i \in 1..Len(udevq') /\ udevq'[i] = udevq[i]
  BY <1>1, <1>2, ConcatProperties, LenProperties
<1>4. \A i \in 1..Len(s) : Len(udevq) + i \in 1..Len(udevq') /\ udevq'[Len(udevq) + i] = s[i]
  BY <1>1, <1>2, ConcatProperties, LenProperties
<1> QED BY <1>1, <1>3, <1>4 DEF Queued

LEMMA PlugKeeps == ASSUME IInv, NEW n \in Nodes, NEW h \in Hw, Plug(n, h) PROVE IInv'
<1> USE DEF IInv
<1> DEFINE k == NodeType[n]
           s == IF k = "evdev" THEN <<Event("add", k, NoNode)>> ELSE <<>>
           t == <<Event("add", k, n)>>
<1>1. s \in Seq(Events) /\ t \in Seq(Events) /\ udevq' = udevq \o s \o t
  BY EventTypes DEF Plug
<1>2. udevq' \in Seq(Events) /\ Queued \subseteq Queued'
  <2> HIDE DEF s, t
  <2> QED BY <1>1, QueueGrows DEF TypeOK
<1>3. UNCHANGED <<watch_map, devnode, callback, handling, todo, at, inLua, heard>>
      /\ plugged[n] = NoHw /\ plugged' = [plugged EXCEPT ![n] = h]
  BY DEF Plug
<1>4. TypeOK'
  BY <1>2, <1>3 DEF TypeOK
<1>5. NodesFit'
  BY <1>3 DEF NodesFit
<1>6. \A d \in Decls : MatchNodes(d) \subseteq MatchNodes(d)'
  BY <1>3, WatchAssumption DEF MatchNodes, TypeOK
<1>7. RemovalAhead'
  BY <1>2, <1>3, <1>6 DEF RemovalAhead
<1> QED BY <1>4, <1>5, <1>7

LEMMA UnplugKeeps == ASSUME IInv, NEW n \in Nodes, Unplug(n) PROVE IInv'
<1> USE DEF IInv
<1> DEFINE k == NodeType[n]
           s == <<Event("remove", k, n)>>
           t == IF k = "evdev" THEN <<Event("remove", k, NoNode)>> ELSE <<>>
<1>1. s \in Seq(Events) /\ t \in Seq(Events) /\ udevq' = udevq \o s \o t /\ Len(s) = 1 /\ s[1] = Removal(n)
  BY EventTypes DEF Unplug, Removal
<1>2. udevq' \in Seq(Events) /\ Queued \subseteq Queued' /\ Removal(n) \in Queued'
  <2> HIDE DEF s, t
  <2>1. udevq' \in Seq(Events) /\ Queued \subseteq Queued' /\ s[1] \in Queued'
    <3>1. udevq' \in Seq(Events) /\ Queued \subseteq Queued' /\ \A i \in 1..Len(s) : s[i] \in Queued'
      BY <1>1, QueueGrows DEF TypeOK
    <3>2. 1 \in 1..Len(s)
      BY <1>1
    <3> QED BY <3>1, <3>2
  <2> QED BY <1>1, <2>1
<1>3. UNCHANGED <<watch_map, devnode, callback, handling, todo, at, inLua, heard>>
      /\ plugged' = [plugged EXCEPT ![n] = NoHw]
  BY DEF Unplug
<1>4. TypeOK'
  BY <1>2, <1>3 DEF TypeOK
<1>5. NodesFit'
  BY <1>3 DEF NodesFit
<1>6. \A d \in Decls : MatchNodes(d) \subseteq MatchNodes(d)' \cup {n}
  BY <1>3 DEF MatchNodes, TypeOK
<1>7. RemovalAhead'
  <2> SUFFICES ASSUME NEW r \in Refs, NEW d \in Decls, devnode[r][d] # NoNode
               PROVE  \/ devnode[r][d] \in MatchNodes(d)'
                      \/ Removal(devnode[r][d]) \in Queued'
                      \/ handling = Removal(devnode[r][d]) /\ <<r, d>> \in todo
    BY <1>3 DEF RemovalAhead, Removal
  <2>1. CASE devnode[r][d] = n
    BY <1>2, <2>1
  <2>2. CASE devnode[r][d] # n
    BY <1>2, <1>6, <2>2 DEF RemovalAhead
  <2> QED BY <2>1, <2>2
<1> QED BY <1>4, <1>5, <1>7

-----------------------------------------------------------------------------
(* The script. *)
LEMMA watchKeeps ==
  ASSUME IInv, NEW r \in Refs, NEW S \in SUBSET Decls, watch(r, S) PROVE IInv'
<1> USE DEF IInv
<1> DEFINE valid == {d \in S : DeclType[d] \in Watchable}
<1>1. UNCHANGED <<plugged, udevq, callback, handling, at, inLua>>
  BY DEF watch
<1>2. Queued' = Queued /\ \A d \in Decls : MatchNodes(d)' = MatchNodes(d)
  BY <1>1 DEF Queued, MatchNodes
<1>3. CASE valid = {}
  <2>1. UNCHANGED <<watch_map, devnode, todo, heard>>
    BY <1>3 DEF watch
  <2>2. TypeOK' /\ NodesFit'
    BY <1>1, <2>1 DEF TypeOK, NodesFit
  <2>3. RemovalAhead'
    BY <1>1, <1>2, <2>1 DEF RemovalAhead
  <2> QED BY <2>2, <2>3
<1>4. CASE valid # {}
  <2>1. /\ watch_map' = [watch_map EXCEPT ![r] = valid]
        /\ devnode' = [devnode EXCEPT ![r] = [d \in Decls |-> NoNode]]
        /\ todo' = Others(r) \cup (IF handling # NoEvent /\ r > at THEN {r} \X valid ELSE {})
        /\ heard' = Forgotten(r)
    BY <1>4 DEF watch
  <2>2. todo' \subseteq {w \in Entries : w[2] \in watch_map'[w[1]]}
    BY <2>1 DEF Others, TypeOK, Entries
  <2>3. heard' \in [Entries -> {"none", "add", "remove"}]
    BY <2>1 DEF Forgotten, TypeOK
  <2>4. TypeOK'
    BY <1>1, <2>1, <2>2, <2>3 DEF TypeOK
  <2>5. \A q \in Refs, d \in Decls : devnode'[q][d] # NoNode =>
          q # r /\ devnode'[q][d] = devnode[q][d] /\ watch_map'[q] = watch_map[q]
    BY <2>1 DEF TypeOK
  <2>6. \A q \in Refs, d \in Decls : q # r /\ <<q, d>> \in todo => <<q, d>> \in todo'
    BY <2>1 DEF Others
  <2>7. NodesFit'
    BY <2>5 DEF NodesFit
  <2>8. RemovalAhead'
    BY <1>1, <1>2, <2>5, <2>6 DEF RemovalAhead, Removal
  <2> QED BY <2>4, <2>7, <2>8
<1> QED BY <1>3, <1>4

LEMMA unwatchKeeps == ASSUME IInv, NEW r \in Refs, unwatch(r) PROVE IInv'
<1> USE DEF IInv
<1>1. UNCHANGED <<plugged, udevq, callback, handling, at, inLua>>
      /\ watch_map' = [watch_map EXCEPT ![r] = {}]
      /\ devnode' = [devnode EXCEPT ![r] = [d \in Decls |-> NoNode]]
      /\ todo' = Others(r) /\ heard' = Forgotten(r)
  BY DEF unwatch
<1>2. Queued' = Queued /\ \A d \in Decls : MatchNodes(d)' = MatchNodes(d)
  BY <1>1 DEF Queued, MatchNodes
<1>3. todo' \subseteq {w \in Entries : w[2] \in watch_map'[w[1]]}
  BY <1>1 DEF Others, TypeOK, Entries
<1>4. heard' \in [Entries -> {"none", "add", "remove"}]
  BY <1>1 DEF Forgotten, TypeOK
<1>5. TypeOK'
  BY <1>1, <1>3, <1>4 DEF TypeOK
<1>6. \A q \in Refs, d \in Decls : devnode'[q][d] # NoNode =>
        q # r /\ devnode'[q][d] = devnode[q][d] /\ watch_map'[q] = watch_map[q]
  BY <1>1 DEF TypeOK
<1>7. \A q \in Refs, d \in Decls : q # r /\ <<q, d>> \in todo => <<q, d>> \in todo'
  BY <1>1 DEF Others
<1>8. NodesFit'
  BY <1>6 DEF NodesFit
<1>9. RemovalAhead'
  BY <1>1, <1>2, <1>6, <1>7 DEF RemovalAhead, Removal
<1> QED BY <1>5, <1>8, <1>9

(* Steps that touch neither the watchlist nor what the kernel has said. *)
LEMMA OthersKeep ==
  ASSUME IInv, UNCHANGED <<plugged, udevq, watch_map, devnode, handling, todo, at>>,
         callback' \in BOOLEAN, inLua' \in BOOLEAN, heard' \in [Entries -> {"none", "add", "remove"}]
  PROVE  IInv'
<1>1. Queued' = Queued /\ \A d \in Decls : MatchNodes(d)' = MatchNodes(d)
  BY DEF Queued, MatchNodes
<1>2. TypeOK' /\ NodesFit'
  BY DEF IInv, TypeOK, NodesFit
<1>3. RemovalAhead'
  BY <1>1 DEF IInv, RemovalAhead
<1> QED BY <1>2, <1>3 DEF IInv

-----------------------------------------------------------------------------
(* The monitor.  The message taken is handled for every entry. *)
LEMMA ReceiveKeeps == ASSUME IInv, Receive PROVE IInv'
<1> USE DEF IInv
<1>1. /\ udevq # <<>> /\ udevq' = Tail(udevq) /\ handling' = Head(udevq)
      /\ todo' = {w \in Entries : w[2] \in watch_map[w[1]]}
      /\ UNCHANGED <<plugged, watch_map, devnode, callback, at, inLua, heard>>
      /\ handling = NoEvent
  BY DEF Receive
<1>2. udevq' \in Seq(Events) /\ handling' \in Events /\ Queued \subseteq Queued' \cup {handling'}
  <2>1. udevq \in Seq(Events)
    BY DEF TypeOK
  <2>2. /\ Head(udevq) \in Events /\ Tail(udevq) \in Seq(Events) /\ Head(udevq) = udevq[1]
        /\ Len(Tail(udevq)) = Len(udevq) - 1 /\ Len(udevq) \in Nat
        /\ \A i \in 1..Len(Tail(udevq)) : Tail(udevq)[i] = udevq[i + 1]
    BY <1>1, <2>1, HeadTailProperties, LenProperties
  <2>3. \A i \in 1..Len(udevq) : i = 1 \/ (i - 1 \in 1..Len(udevq') /\ udevq'[i - 1] = udevq[i])
    BY <1>1, <2>2
  <2> QED BY <1>1, <2>2, <2>3 DEF Queued
<1>3. \A d \in Decls : MatchNodes(d)' = MatchNodes(d)
  BY <1>1 DEF MatchNodes
<1>4. TypeOK' /\ NodesFit'
  BY <1>1, <1>2 DEF TypeOK, NodesFit
<1>5. \A n \in Nodes : Removal(n) # NoEvent
  BY EventTypes
<1>6. \A r \in Refs, d \in Decls : devnode[r][d] # NoNode => <<r, d>> \in todo'
  BY <1>1 DEF NodesFit, Entries
<1>7. RemovalAhead'
  BY <1>1, <1>2, <1>3, <1>5, <1>6 DEF RemovalAhead, TypeOK
<1> QED BY <1>4, <1>7

LEMMA AddVisitKeeps == ASSUME IInv, NEW w \in Entries, VisitAdd(w) PROVE IInv'
<1> USE DEF IInv
<1> DEFINE e == w[1]
           f == w[2]
<1>1. /\ e \in Refs /\ f \in Decls /\ w = <<e, f>>
  BY DEF Entries
<1>2. /\ w \in todo /\ todo' = todo \ {w} /\ at' = e /\ handling.action = "add"
      /\ UNCHANGED <<plugged, udevq, watch_map, callback, handling>>
  BY DEF VisitAdd, Visit, IsNext
<1>3. Queued' = Queued /\ \A d \in Decls : MatchNodes(d)' = MatchNodes(d)
  BY <1>2 DEF Queued, MatchNodes
<1>4. \A n \in Nodes : handling # Removal(n)
  BY <1>2, EventTypes
<1>5. CASE \E n \in MatchNodes(f) : /\ n = handling.node
                                   /\ devnode' = [devnode EXCEPT ![e][f] = n]
                                   /\ Notify(w)
  <2>1. PICK n \in MatchNodes(f) : /\ n = handling.node
                                   /\ devnode' = [devnode EXCEPT ![e][f] = n]
                                   /\ Notify(w)
    BY <1>5
  <2>2. n \in Nodes /\ NodeType[n] = DeclType[f]
    BY DEF MatchNodes
  <2>3. handling \in Events
    BY <1>2, EventTypes DEF TypeOK
  <2>4. inLua' \in BOOLEAN /\ heard' \in [Entries -> {"none", "add", "remove"}]
    BY <1>2, <2>1 DEF Notify, TypeOK
  <2>5. TypeOK'
    BY <1>1, <1>2, <2>1, <2>2, <2>4 DEF TypeOK
  <2>6. \A r \in Refs, d \in Decls :
          devnode'[r][d] = IF r = e /\ d = f THEN n ELSE devnode[r][d]
    BY <1>1, <2>1 DEF TypeOK
  <2>7. NodesFit'
    BY <1>1, <1>2, <2>2, <2>6 DEF NodesFit, TypeOK
  <2>8. RemovalAhead'
    BY <1>2, <1>3, <1>4, <2>6 DEF RemovalAhead, TypeOK
  <2> QED BY <2>5, <2>7, <2>8
<1>6. CASE Silent
  <2>1. TypeOK' /\ NodesFit'
    BY <1>1, <1>2, <1>6 DEF TypeOK, NodesFit, Silent
  <2>2. RemovalAhead'
    BY <1>2, <1>3, <1>4, <1>6 DEF RemovalAhead, TypeOK, Silent
  <2> QED BY <2>1, <2>2
<1> QED BY <1>5, <1>6 DEF VisitAdd

LEMMA RemoveVisitKeeps == ASSUME IInv, NEW w \in Entries, VisitRemove(w) PROVE IInv'
<1> USE DEF IInv
<1> DEFINE e == w[1]
           f == w[2]
<1>1. /\ e \in Refs /\ f \in Decls /\ w = <<e, f>>
  BY DEF Entries
<1>2. /\ w \in todo /\ todo' = todo \ {w} /\ at' = e /\ handling.action = "remove"
      /\ UNCHANGED <<plugged, udevq, watch_map, callback, handling>>
  BY DEF VisitRemove, Visit, IsNext
<1>3. Queued' = Queued /\ \A d \in Decls : MatchNodes(d)' = MatchNodes(d)
  BY <1>2 DEF Queued, MatchNodes
<1>4. CASE DeclType[f] = handling.subsystem /\ devnode[e][f] = handling.node
  <2>1. Notify(w) /\ devnode' = [devnode EXCEPT ![e][f] = NoNode]
    BY <1>4 DEF VisitRemove
  <2>2. inLua' \in BOOLEAN /\ heard' \in [Entries -> {"none", "add", "remove"}]
    BY <1>2, <2>1 DEF Notify, TypeOK
  <2>3. TypeOK'
    BY <1>1, <1>2, <2>1, <2>2 DEF TypeOK
  <2>4. \A r \in Refs, d \in Decls :
          devnode'[r][d] = IF r = e /\ d = f THEN NoNode ELSE devnode[r][d]
    BY <1>1, <2>1 DEF TypeOK
  <2>5. NodesFit'
    BY <1>2, <2>4 DEF NodesFit
  <2>6. RemovalAhead'
    <3> SUFFICES ASSUME NEW r \in Refs, NEW d \in Decls, devnode'[r][d] # NoNode
                 PROVE  \/ devnode'[r][d] \in MatchNodes(d)'
                        \/ Removal(devnode'[r][d]) \in Queued'
                        \/ handling' = Removal(devnode'[r][d]) /\ <<r, d>> \in todo'
      BY DEF RemovalAhead, Removal
    <3>1. devnode'[r][d] = devnode[r][d] /\ ~(r = e /\ d = f)
      BY <2>4
    <3> QED BY <1>1, <1>2, <1>3, <3>1 DEF RemovalAhead
  <2> QED BY <2>3, <2>5, <2>6
<1>5. CASE ~(DeclType[f] = handling.subsystem /\ devnode[e][f] = handling.node)
  <2>1. UNCHANGED <<devnode, inLua, heard>>
    BY <1>5 DEF VisitRemove, Silent
  <2>2. TypeOK' /\ NodesFit'
    BY <1>1, <1>2, <2>1 DEF TypeOK, NodesFit
  <2>3. devnode[e][f] # NoNode => handling # Removal(devnode[e][f])
    BY <1>1, <1>5, EventTypes DEF NodesFit, TypeOK
  <2>4. RemovalAhead'
    <3> SUFFICES ASSUME NEW r \in Refs, NEW d \in Decls, devnode[r][d] # NoNode
                 PROVE  \/ devnode[r][d] \in MatchNodes(d)'
                        \/ Removal(devnode[r][d]) \in Queued'
                        \/ handling = Removal(devnode[r][d]) /\ <<r, d>> \in todo'
      BY <1>2, <2>1 DEF RemovalAhead, Removal
    <3> QED BY <1>1, <1>2, <1>3, <2>3 DEF RemovalAhead
  <2> QED BY <2>2, <2>4
<1> QED BY <1>4, <1>5

LEMMA HandleDoneKeeps == ASSUME IInv, HandleDone PROVE IInv'
<1> USE DEF IInv
<1>1. /\ todo = {} /\ handling' = NoEvent /\ at' = 0
      /\ UNCHANGED <<plugged, udevq, watch_map, devnode, callback, todo, inLua, heard>>
  BY DEF HandleDone
<1>2. Queued' = Queued /\ \A d \in Decls : MatchNodes(d)' = MatchNodes(d)
  BY <1>1 DEF Queued, MatchNodes
<1>3. TypeOK' /\ NodesFit'
  BY <1>1 DEF TypeOK, NodesFit
<1>4. RemovalAhead'
  BY <1>1, <1>2 DEF RemovalAhead
<1> QED BY <1>3, <1>4

-----------------------------------------------------------------------------
LEMMA NextKeeps == IInv /\ [Next]_vars => IInv'
<1> SUFFICES ASSUME IInv, [Next]_vars PROVE IInv'
  OBVIOUS
<1>1. ASSUME NEW n \in Nodes, Unplug(n) PROVE IInv'
  BY <1>1, UnplugKeeps
<1>2. ASSUME NEW n \in Nodes, NEW h \in Hw, Plug(n, h) PROVE IInv'
  BY <1>2, PlugKeeps
<1>3. ASSUME NEW r \in Refs, unwatch(r) PROVE IInv'
  BY <1>3, unwatchKeeps
<1>4. ASSUME NEW r \in Refs, NEW S \in SUBSET Decls, watch(r, S) PROVE IInv'
  BY <1>4, watchKeeps
<1>5. ASSUME NEW b \in BOOLEAN, set_callback(b) PROVE IInv'
  <2>1. heard' \in [Entries -> {"none", "add", "remove"}] /\ callback' \in BOOLEAN
    BY <1>5 DEF set_callback
  <2> QED BY <1>5, <2>1, OthersKeep DEF set_callback, IInv, TypeOK
<1>6. ASSUME Return \/ OtherCallback PROVE IInv'
  BY <1>6, OthersKeep DEF Return, OtherCallback, IInv, TypeOK
<1>7. ASSUME Receive PROVE IInv'
  BY <1>7, ReceiveKeeps
<1>8. ASSUME HandleDone PROVE IInv'
  BY <1>8, HandleDoneKeeps
<1>9. ASSUME NEW w \in Entries, VisitAdd(w) PROVE IInv'
  BY <1>9, AddVisitKeeps
<1>10. ASSUME NEW w \in Entries, VisitRemove(w) PROVE IInv'
  BY <1>10, RemoveVisitKeeps
<1>11. CASE UNCHANGED vars
  BY <1>11, OthersKeep DEF vars, IInv, TypeOK
<1> QED BY <1>1, <1>2, <1>3, <1>4, <1>5, <1>6, <1>7, <1>8, <1>9, <1>10, <1>11
        DEF Next, Kernel, Lua, Loop

LEMMA InvConsequences == IInv => TypeOK /\ RemovalIsComing
<1> SUFFICES ASSUME IInv, NEW w \in Entries, devnode[w[1]][w[2]] # NoNode
             PROVE  \/ devnode[w[1]][w[2]] \in MatchNodes(w[2])
                    \/ Removal(devnode[w[1]][w[2]]) \in Pending
  BY DEF IInv, RemovalIsComing, Removal
<1>1. w[1] \in Refs /\ w[2] \in Decls
  BY DEF Entries
<1> QED BY <1>1 DEF IInv, RemovalAhead, Pending, Queued

(* Watchlist.TypeOK. *)
THEOREM WatchType == Spec => []TypeOK
<1>1. Spec => []IInv
  BY InitInv, NextKeeps, PTL DEF Spec
<1> QED BY <1>1, InvConsequences, PTL

(* A node an entry of the watchlist remembers is one its device is on, or   *)
(* its removal is waiting or being handled: handle_udev_remove never misses *)
(* the message that makes it forget the node.                               *)
THEOREM WatchRemovalIsComing == Spec => []RemovalIsComing
<1>1. Spec => []IInv
  BY InitInv, NextKeeps, PTL DEF Spec
<1> QED BY <1>1, InvConsequences, PTL

-----------------------------------------------------------------------------
(****************************************************************************)
(* Arrivals and removals in turn.  The messages of a node alternate, the    *)
(* one that is handled first and what is plugged last (TurnsTaken,          *)
(* LastIsRemoval); before the next arrival on a node, its removal comes to  *)
(* every entry that remembers the node (RemovalFirst, ArrivalIsNew); and    *)
(* what was heard last fits the node (HeardFits).                           *)
(****************************************************************************)
Arrival(n) == Event("add", NodeType[n], n)

Msg(i) == IF i = 0 THEN handling ELSE udevq[i]
Msgs   == 0..Len(udevq)

MsgFits(e) ==
  \/ e = NoEvent
  \/ e.node = NoNode /\ e.subsystem = "evdev"
  \/ e.node \in Nodes /\ e.subsystem = NodeType[e.node]

MsgsFit == \A i \in Msgs : MsgFits(Msg(i))

TurnsTaken ==
  \A n \in Nodes, j, k \in Msgs :
    j < k /\ Msg(j) = Arrival(n) /\ Msg(k) = Arrival(n) =>
      \E i \in Msgs : j < i /\ i < k /\ Msg(i) = Removal(n)

LastIsRemoval ==
  \A n \in Nodes, j \in Msgs :
    plugged[n] = NoHw /\ Msg(j) = Arrival(n) => \E i \in Msgs : j < i /\ Msg(i) = Removal(n)

RemovalFirst ==
  \A r \in Refs, d \in Decls, k \in Msgs :
    devnode[r][d] # NoNode /\ k # 0 /\ Msg(k) = Arrival(devnode[r][d]) =>
      \/ \E i \in Msgs : i # 0 /\ i < k /\ Msg(i) = Removal(devnode[r][d])
      \/ handling = Removal(devnode[r][d]) /\ <<r, d>> \in todo

ArrivalIsNew ==
  \A n \in Nodes, r \in Refs, d \in Decls :
    handling = Arrival(n) /\ <<r, d>> \in todo => devnode[r][d] # n

HeardFits ==
  \A r \in Refs, d \in Decls :
    /\ heard[<<r, d>>] # "none" => callback
    /\ heard[<<r, d>>] = "remove" => devnode[r][d] = NoNode

MsgInv == MsgsFit /\ TurnsTaken /\ LastIsRemoval
AltInv == MsgInv /\ RemovalFirst /\ ArrivalIsNew /\ HeardFits

LEMMA MsgFacts ==
  /\ \A n, m \in Nodes : /\ Arrival(n) = Arrival(m) => n = m
                         /\ Removal(n) = Removal(m) => n = m
                         /\ Arrival(n) # Removal(m)
  /\ \A n \in Nodes : /\ MsgFits(Arrival(n)) /\ MsgFits(Removal(n))
                      /\ Arrival(n) # NoEvent /\ Removal(n) # NoEvent
                      /\ Arrival(n).action = "add" /\ Arrival(n).node = n
  /\ \A n \in Nodes, a \in {"add", "remove"} :
       /\ MsgFits(Event(a, "evdev", NoNode))
       /\ Arrival(n) # Event(a, "evdev", NoNode) /\ Removal(n) # Event(a, "evdev", NoNode)
BY WatchAssumption DEF Arrival, Removal, Event, NoEvent, MsgFits

(* A message of a node with the action is its arrival, or its removal.      *)
LEMMA MsgIs ==
  ASSUME NEW e \in Events, MsgFits(e), e.node \in Nodes
  PROVE  /\ e.action = "add" => e = Arrival(e.node)
         /\ e.action = "remove" => e = Removal(e.node)
<1>1. e # NoEvent
  BY EventTypes
<1>2. e.subsystem = NodeType[e.node]
  BY <1>1, WatchAssumption DEF MsgFits
<1>3. e = [action |-> e.action, subsystem |-> e.subsystem, node |-> e.node]
  BY DEF Events
<1> QED BY <1>2, <1>3 DEF Arrival, Removal, Event

LEMMA MsgInit == Init => AltInv
<1> SUFFICES ASSUME Init PROVE AltInv
  OBVIOUS
<1>1. Msgs = {0} /\ Msg(0) = NoEvent
  BY DEF Init, Msgs, Msg
<1>2. MsgInv /\ RemovalFirst
  BY <1>1, MsgFacts DEF MsgInv, MsgsFit, MsgFits, TurnsTaken, LastIsRemoval, RemovalFirst
<1>3. ArrivalIsNew /\ HeardFits
  BY DEF Init, ArrivalIsNew, HeardFits, Entries
<1> QED BY <1>2, <1>3 DEF AltInv

(* A step without a message. *)
LEMMA SameMessages ==
  ASSUME UNCHANGED <<plugged, udevq, handling>>
  PROVE  /\ MsgInv => MsgInv'
         /\ Msgs' = Msgs /\ \A i : Msg(i)' = Msg(i)
BY DEF MsgInv, MsgsFit, TurnsTaken, LastIsRemoval, Msgs, Msg

(* Messages are added behind the others. *)
LEMMA MessagesGrow ==
  ASSUME udevq \in Seq(Events), NEW s \in Seq(Events), NEW t \in Seq(Events),
         udevq' = udevq \o s \o t, handling' = handling
  PROVE  /\ Msgs \subseteq Msgs' /\ \A i \in Msgs : Msg(i)' = Msg(i)
         /\ \A i \in Msgs' \ Msgs, j \in Msgs : j < i /\ i # 0
         /\ \A i \in Msgs' \ Msgs :
              \/ \E a \in 1..Len(s) : i = Len(udevq) + a /\ Msg(i)' = s[a]
              \/ \E a \in 1..Len(t) : i = Len(udevq) + Len(s) + a /\ Msg(i)' = t[a]
         /\ \A a \in 1..Len(s) : \E i \in Msgs' \ Msgs : i = Len(udevq) + a /\ Msg(i)' = s[a]
<1> DEFINE L == Len(udevq)
<1>1. udevq \o s \in Seq(Events) /\ udevq' \in Seq(Events)
  BY ConcatProperties
<1>2. L \in Nat /\ Len(s) \in Nat /\ Len(t) \in Nat
      /\ Len(udevq \o s) = L + Len(s) /\ Len(udevq') = L + Len(s) + Len(t)
  BY <1>1, ConcatProperties, LenProperties
<1>3. /\ \A i \in 1..L : udevq'[i] = udevq[i]
      /\ \A a \in 1..Len(s) : udevq'[L + a] = s[a]
      /\ \A a \in 1..Len(t) : udevq'[L + Len(s) + a] = t[a]
  <2>1. /\ \A i \in 1..L : (udevq \o s)[i] = udevq[i]
        /\ \A a \in 1..Len(s) : (udevq \o s)[L + a] = s[a]
    BY <1>2, ConcatProperties
  <2>2. /\ \A i \in 1..(L + Len(s)) : udevq'[i] = (udevq \o s)[i]
        /\ \A a \in 1..Len(t) : udevq'[L + Len(s) + a] = t[a]
    BY <1>1, <1>2, ConcatProperties
  <2>3. \A i \in 1..L : i \in 1..(L + Len(s))
    BY <1>2
  <2>4. \A a \in 1..Len(s) : L + a \in 1..(L + Len(s))
    BY <1>2
  <2> QED BY <2>1, <2>2, <2>3, <2>4
<1>4. Msgs = 0..L /\ Msgs' = 0..(L + Len(s) + Len(t))
  BY <1>2 DEF Msgs
<1> HIDE DEF L
<1>6. Msgs \subseteq Msgs' /\ \A i \in Msgs' \ Msgs, j \in Msgs : j < i /\ i # 0
  BY <1>2, <1>4
<1>7. ASSUME NEW i \in Msgs PROVE Msg(i)' = Msg(i)
  <2>1. i = 0 \/ i \in 1..L
    BY <1>2, <1>4
  <2> QED BY <2>1, <1>3 DEF Msg
<1>8. ASSUME NEW i \in Msgs' \ Msgs
      PROVE  \/ \E a \in 1..Len(s) : i = L + a /\ Msg(i)' = s[a]
             \/ \E a \in 1..Len(t) : i = L + Len(s) + a /\ Msg(i)' = t[a]
  <2>0. Msg(i)' = udevq'[i] /\ i \in Nat
    BY <1>2, <1>4, <1>6 DEF Msg
  <2>1. CASE i <= L + Len(s)
    <3>1. i - L \in 1..Len(s) /\ i = L + (i - L)
      BY <2>1, <1>2, <1>4
    <3>2. PICK a \in 1..Len(s) : i = L + a
      BY <3>1
    <3>3. udevq'[i] = s[a]
      BY <3>2, <1>3
    <3> QED BY <2>0, <3>2, <3>3
  <2>2. CASE ~(i <= L + Len(s))
    <3>1. i - L - Len(s) \in 1..Len(t) /\ i = L + Len(s) + (i - L - Len(s))
      BY <2>2, <1>2, <1>4
    <3>2. PICK a \in 1..Len(t) : i = L + Len(s) + a
      BY <3>1
    <3>3. udevq'[i] = t[a]
      BY <3>2, <1>3
    <3> QED BY <2>0, <3>2, <3>3
  <2> QED BY <2>1, <2>2
<1>9. ASSUME NEW a \in 1..Len(s)
      PROVE  \E i \in Msgs' \ Msgs : i = L + a /\ Msg(i)' = s[a]
  <2>1. L + a \in Msgs' \ Msgs /\ L + a # 0
    BY <1>2, <1>4
  <2>2. PICK i \in Msgs' \ Msgs : i = L + a
    BY <2>1
  <2>3. udevq'[i] = s[a] /\ i # 0
    BY <2>1, <2>2, <1>3
  <2> QED BY <2>2, <2>3 DEF Msg
<1> QED BY <1>6, <1>7, <1>8, <1>9 DEF L

(* The kernel: what is new is behind what was there. *)
Grown ==
  /\ Msgs \subseteq Msgs' /\ \A i \in Msgs : Msg(i)' = Msg(i)
  /\ \A i \in Msgs' \ Msgs, j \in Msgs : j < i /\ i # 0

LEMMA GrownFits ==
  ASSUME MsgsFit, Grown, \A i \in Msgs' \ Msgs : MsgFits(Msg(i)')
  PROVE  MsgsFit'
BY DEF MsgsFit, Grown, MsgFits

LEMMA PlugAlternates ==
  ASSUME IInv, AltInv, NEW n \in Nodes, NEW h \in Hw, Plug(n, h) PROVE AltInv'
<1> DEFINE k0 == NodeType[n]
           s == IF k0 = "evdev" THEN <<Event("add", k0, NoNode)>> ELSE <<>>
           t == <<Arrival(n)>>
           P == Len(udevq) + Len(s) + 1
<1>0. TypeOK /\ RemovalAhead /\ MsgsFit /\ TurnsTaken /\ LastIsRemoval
  BY DEF IInv, AltInv, MsgInv
<1>1. UNCHANGED <<watch_map, devnode, callback, handling, todo, at, inLua, heard>>
      /\ plugged[n] = NoHw /\ plugged' = [plugged EXCEPT ![n] = h]
  BY DEF Plug
<1>2. /\ s \in Seq(Events) /\ t \in Seq(Events) /\ udevq' = udevq \o s \o t
      /\ \A a \in 1..Len(s) : s[a] = Event("add", "evdev", NoNode)
      /\ \A a \in 1..Len(t) : a = 1 /\ t[a] = Arrival(n)
  BY EventTypes DEF Plug, Arrival
<1> HIDE DEF s, t
<1>3. /\ Grown
      /\ \A i \in Msgs' \ Msgs :
           Msg(i)' = Event("add", "evdev", NoNode) \/ (i = P /\ Msg(i)' = Arrival(n))
  <2>1. udevq \in Seq(Events)
    BY <1>0 DEF TypeOK
  <2>2. /\ Msgs \subseteq Msgs' /\ \A i \in Msgs : Msg(i)' = Msg(i)
        /\ \A i \in Msgs' \ Msgs, j \in Msgs : j < i /\ i # 0
        /\ \A i \in Msgs' \ Msgs :
             \/ \E a \in 1..Len(s) : i = Len(udevq) + a /\ Msg(i)' = s[a]
             \/ \E a \in 1..Len(t) : i = Len(udevq) + Len(s) + a /\ Msg(i)' = t[a]
    BY <1>1, <1>2, <2>1, MessagesGrow
  <2> QED BY <1>2, <2>2 DEF Grown
<1> HIDE DEF P
(* No other node's arrival is new, and none is new twice. *)
<1>4. ASSUME NEW m \in Nodes, NEW i \in Msgs' \ Msgs, Msg(i)' = Arrival(m)
      PROVE  m = n /\ i = P
  BY <1>3, <1>4, MsgFacts
<1>5. MsgsFit'
  BY <1>0, <1>3, MsgFacts, GrownFits
<1>6. TurnsTaken'
  <2> SUFFICES ASSUME NEW m \in Nodes, NEW j \in Msgs', NEW k \in Msgs',
                      j < k, Msg(j)' = Arrival(m), Msg(k)' = Arrival(m)
               PROVE  \E i \in Msgs' : j < i /\ i < k /\ Msg(i)' = Removal(m)
    BY DEF TurnsTaken, Arrival, Removal
  <2>0. j \in Nat /\ k \in Nat
    BY DEF Msgs
  <2>1. CASE k \in Msgs
    <3>1. j \in Msgs
      BY <1>3, <2>0, <2>1 DEF Grown
    <3>2. PICK i \in Msgs : j < i /\ i < k /\ Msg(i) = Removal(m)
      BY <1>0, <1>3, <2>1, <3>1 DEF Grown, TurnsTaken
    <3> QED BY <1>3, <3>2 DEF Grown
  <2>2. CASE k \notin Msgs
    <3>1. m = n /\ k = P
      BY <1>4, <2>2
    <3>2. j \in Msgs
      BY <1>4, <2>0, <3>1
    <3>3. PICK i \in Msgs : j < i /\ Msg(i) = Removal(n)
      BY <1>0, <1>1, <1>3, <3>1, <3>2 DEF Grown, LastIsRemoval
    <3> QED BY <1>3, <2>2, <3>1, <3>3 DEF Grown
  <2> QED BY <2>1, <2>2
<1>7. LastIsRemoval'
  <2> SUFFICES ASSUME NEW m \in Nodes, NEW j \in Msgs', plugged'[m] = NoHw, Msg(j)' = Arrival(m)
               PROVE  \E i \in Msgs' : j < i /\ Msg(i)' = Removal(m)
    BY DEF LastIsRemoval, Arrival, Removal
  <2>1. m # n /\ plugged[m] = NoHw
    BY <1>0, <1>1, WatchAssumption DEF TypeOK
  <2>2. j \in Msgs
    BY <1>4, <2>1
  <2>3. PICK i \in Msgs : j < i /\ Msg(i) = Removal(m)
    BY <1>0, <1>3, <2>1, <2>2 DEF Grown, LastIsRemoval
  <2> QED BY <1>3, <2>3 DEF Grown
<1>8. RemovalFirst'
  <2> SUFFICES ASSUME NEW r \in Refs, NEW d \in Decls, NEW k \in Msgs', devnode[r][d] # NoNode,
                      k # 0, Msg(k)' = Arrival(devnode[r][d])
               PROVE  \/ \E i \in Msgs' : i # 0 /\ i < k /\ Msg(i)' = Removal(devnode[r][d])
                      \/ handling = Removal(devnode[r][d]) /\ <<r, d>> \in todo
    BY <1>1 DEF RemovalFirst, Arrival, Removal
  <2>0. devnode[r][d] \in Nodes
    BY <1>0 DEF TypeOK
  <2>1. CASE k \in Msgs
    BY <1>3, <2>1 DEF Grown, AltInv, RemovalFirst
  <2>2. CASE k \notin Msgs
    <3>1. devnode[r][d] = n
      BY <1>4, <2>0, <2>2
    <3>2. n \notin MatchNodes(d)
      BY <1>1, WatchAssumption DEF MatchNodes
    <3>3. Removal(n) \in Queued \/ (handling = Removal(n) /\ <<r, d>> \in todo)
      BY <1>0, <3>1, <3>2 DEF RemovalAhead
    <3>4. ASSUME Removal(n) \in Queued
          PROVE  \E i \in Msgs' : i # 0 /\ i < k /\ Msg(i)' = Removal(n)
      <4>1. PICK i \in 1..Len(udevq) : udevq[i] = Removal(n)
        BY <3>4 DEF Queued
      <4>2. i \in Msgs /\ i # 0 /\ Msg(i) = Removal(n)
        BY <4>1 DEF Msgs, Msg
      <4> QED BY <1>3, <2>2, <4>2 DEF Grown
    <3> QED BY <3>1, <3>3, <3>4
  <2> QED BY <2>1, <2>2
<1>9. ArrivalIsNew' /\ HeardFits'
  BY <1>1 DEF AltInv, ArrivalIsNew, HeardFits, Arrival
<1> QED BY <1>5, <1>6, <1>7, <1>8, <1>9 DEF AltInv, MsgInv

LEMMA UnplugAlternates ==
  ASSUME IInv, AltInv, NEW n \in Nodes, Unplug(n) PROVE AltInv'
<1> DEFINE k0 == NodeType[n]
           s == <<Removal(n)>>
           t == IF k0 = "evdev" THEN <<Event("remove", k0, NoNode)>> ELSE <<>>
<1>0. TypeOK /\ MsgsFit /\ TurnsTaken /\ LastIsRemoval
  BY DEF IInv, AltInv, MsgInv
<1>1. UNCHANGED <<watch_map, devnode, callback, handling, todo, at, inLua, heard>>
      /\ plugged' = [plugged EXCEPT ![n] = NoHw]
  BY DEF Unplug
<1>2. /\ s \in Seq(Events) /\ t \in Seq(Events) /\ udevq' = udevq \o s \o t
      /\ 1 \in 1..Len(s) /\ \A a \in 1..Len(s) : s[a] = Removal(n)
      /\ \A a \in 1..Len(t) : t[a] = Event("remove", "evdev", NoNode)
  BY EventTypes DEF Unplug, Removal
<1> HIDE DEF s, t
<1>3. /\ Grown
      /\ \A i \in Msgs' \ Msgs : Msg(i)' = Event("remove", "evdev", NoNode) \/ Msg(i)' = Removal(n)
      /\ \E i \in Msgs' \ Msgs : Msg(i)' = Removal(n)
  <2>1. udevq \in Seq(Events)
    BY <1>0 DEF TypeOK
  <2>2. /\ Msgs \subseteq Msgs' /\ \A i \in Msgs : Msg(i)' = Msg(i)
        /\ \A i \in Msgs' \ Msgs, j \in Msgs : j < i /\ i # 0
        /\ \A i \in Msgs' \ Msgs :
             \/ \E a \in 1..Len(s) : i = Len(udevq) + a /\ Msg(i)' = s[a]
             \/ \E a \in 1..Len(t) : i = Len(udevq) + Len(s) + a /\ Msg(i)' = t[a]
        /\ \A a \in 1..Len(s) : \E i \in Msgs' \ Msgs : i = Len(udevq) + a /\ Msg(i)' = s[a]
    BY <1>1, <1>2, <2>1, MessagesGrow
  <2>3. \E i \in Msgs' \ Msgs : Msg(i)' = s[1]
    BY <1>2, <2>2
  <2> QED BY <1>2, <2>2, <2>3 DEF Grown
(* No arrival is new. *)
<1>4. ASSUME NEW m \in Nodes, NEW i \in Msgs', Msg(i)' = Arrival(m)
      PROVE  i \in Msgs /\ Msg(i) = Arrival(m)
  BY <1>3, <1>4, MsgFacts DEF Grown
<1>5. MsgsFit'
  BY <1>0, <1>3, MsgFacts, GrownFits
<1>6. TurnsTaken'
  <2> SUFFICES ASSUME NEW m \in Nodes, NEW j \in Msgs', NEW k \in Msgs',
                      j < k, Msg(j)' = Arrival(m), Msg(k)' = Arrival(m)
               PROVE  \E i \in Msgs' : j < i /\ i < k /\ Msg(i)' = Removal(m)
    BY DEF TurnsTaken, Arrival, Removal
  <2>1. PICK i \in Msgs : j < i /\ i < k /\ Msg(i) = Removal(m)
    BY <1>0, <1>4 DEF TurnsTaken
  <2> QED BY <1>3, <2>1 DEF Grown
<1>7. LastIsRemoval'
  <2> SUFFICES ASSUME NEW m \in Nodes, NEW j \in Msgs', plugged'[m] = NoHw, Msg(j)' = Arrival(m)
               PROVE  \E i \in Msgs' : j < i /\ Msg(i)' = Removal(m)
    BY DEF LastIsRemoval, Arrival, Removal
  <2>1. j \in Msgs /\ Msg(j) = Arrival(m)
    BY <1>4
  <2>2. CASE m = n
    BY <1>3, <2>1, <2>2 DEF Grown
  <2>3. CASE m # n
    <3>1. plugged[m] = NoHw
      BY <1>0, <1>1, <2>3 DEF TypeOK
    <3>2. PICK i \in Msgs : j < i /\ Msg(i) = Removal(m)
      BY <1>0, <2>1, <3>1 DEF LastIsRemoval
    <3> QED BY <1>3, <3>2 DEF Grown
  <2> QED BY <2>2, <2>3
<1>8. RemovalFirst'
  <2> SUFFICES ASSUME NEW r \in Refs, NEW d \in Decls, NEW k \in Msgs', devnode[r][d] # NoNode,
                      k # 0, Msg(k)' = Arrival(devnode[r][d])
               PROVE  \/ \E i \in Msgs' : i # 0 /\ i < k /\ Msg(i)' = Removal(devnode[r][d])
                      \/ handling = Removal(devnode[r][d]) /\ <<r, d>> \in todo
    BY <1>1 DEF RemovalFirst, Arrival, Removal
  <2>1. k \in Msgs /\ Msg(k) = Arrival(devnode[r][d])
    BY <1>0, <1>4 DEF TypeOK
  <2> QED BY <1>3, <2>1 DEF Grown, AltInv, RemovalFirst
<1>9. ArrivalIsNew' /\ HeardFits'
  BY <1>1 DEF AltInv, ArrivalIsNew, HeardFits, Arrival
<1> QED BY <1>5, <1>6, <1>7, <1>8, <1>9 DEF AltInv, MsgInv

(* The script. *)
LEMMA ScriptAlternates ==
  ASSUME IInv, AltInv, UNCHANGED <<plugged, udevq, handling>>,
         NEW r \in Refs,
         \A q \in Refs, d \in Decls :
           /\ devnode'[q][d] # NoNode => q # r /\ devnode'[q][d] = devnode[q][d]
           /\ q # r => (<<q, d>> \in todo' <=> <<q, d>> \in todo)
                       /\ devnode'[q][d] = devnode[q][d],
         HeardFits'
  PROVE  AltInv'
<1>1. MsgInv' /\ Msgs' = Msgs /\ \A i : Msg(i)' = Msg(i)
  BY SameMessages DEF AltInv
<1>2. RemovalFirst'
  BY <1>1 DEF AltInv, RemovalFirst, Arrival, Removal
<1>3. ArrivalIsNew'
  <2> SUFFICES ASSUME NEW n \in Nodes, NEW q \in Refs, NEW d \in Decls,
                      handling = Arrival(n), <<q, d>> \in todo', devnode'[q][d] = n
               PROVE  FALSE
    BY DEF ArrivalIsNew, Arrival
  <2>1. n # NoNode
    BY WatchAssumption
  <2> QED BY <2>1 DEF AltInv, ArrivalIsNew
<1> QED BY <1>1, <1>2, <1>3 DEF AltInv

LEMMA watchAlternates ==
  ASSUME IInv, AltInv, NEW r \in Refs,
         unwatch(r) \/ \E S \in SUBSET Decls : watch(r, S)
  PROVE  AltInv'
<1>0. TypeOK
  BY DEF IInv
<1>1. UNCHANGED <<plugged, udevq, callback, handling, at, inLua>>
  BY DEF unwatch, watch
<1>2. \/ UNCHANGED <<watch_map, devnode, todo, heard>>
      \/ /\ devnode' = [devnode EXCEPT ![r] = [d \in Decls |-> NoNode]]
         /\ Others(r) \subseteq todo' /\ \A w \in todo' : w \in Others(r) \/ w[1] = r
         /\ heard' = Forgotten(r)
  BY DEF unwatch, watch
<1>3. CASE UNCHANGED <<watch_map, devnode, todo, heard>>
  <2>1. MsgInv' /\ Msgs' = Msgs /\ \A i : Msg(i)' = Msg(i)
    BY <1>1, SameMessages DEF AltInv
  <2>2. RemovalFirst' /\ ArrivalIsNew' /\ HeardFits'
    BY <1>1, <1>3, <2>1 DEF AltInv, RemovalFirst, ArrivalIsNew, HeardFits, Arrival, Removal
  <2> QED BY <2>1, <2>2 DEF AltInv
<1>4. CASE /\ devnode' = [devnode EXCEPT ![r] = [d \in Decls |-> NoNode]]
           /\ Others(r) \subseteq todo' /\ \A w \in todo' : w \in Others(r) \/ w[1] = r
           /\ heard' = Forgotten(r)
  <2>1. ASSUME NEW q \in Refs, NEW d \in Decls
        PROVE  /\ devnode'[q][d] = IF q = r THEN NoNode ELSE devnode[q][d]
               /\ q # r => (<<q, d>> \in todo' <=> <<q, d>> \in todo)
    BY <1>0, <1>4 DEF TypeOK, Others
  <2>2. HeardFits'
    <3>1. \A q \in Refs, d \in Decls :
            heard'[<<q, d>>] = IF q = r THEN "none" ELSE heard[<<q, d>>]
      BY <1>4 DEF Forgotten, Entries
    <3>2. ASSUME NEW q \in Refs, NEW d \in Decls
          PROVE  /\ heard'[<<q, d>>] # "none" => callback'
                 /\ heard'[<<q, d>>] = "remove" => devnode'[q][d] = NoNode
      <4>1. devnode'[q][d] = IF q = r THEN NoNode ELSE devnode[q][d]
        BY <2>1
      <4>2. heard'[<<q, d>>] = IF q = r THEN "none" ELSE heard[<<q, d>>]
        BY <3>1
      <4>3. heard[<<q, d>>] # "none" => callback
        BY DEF AltInv, HeardFits
      <4>4. heard[<<q, d>>] = "remove" => devnode[q][d] = NoNode
        BY DEF AltInv, HeardFits
      <4>5. heard'[<<q, d>>] # "none" => callback'
        BY <1>1, <4>2, <4>3
      <4> QED BY <4>1, <4>2, <4>4, <4>5
    <3> QED BY <3>2 DEF HeardFits
  <2> QED BY <1>1, <2>1, <2>2, ScriptAlternates
<1> QED BY <1>2, <1>3, <1>4

LEMMA OthersAlternate ==
  ASSUME AltInv, UNCHANGED <<plugged, udevq, devnode, handling, todo>>, HeardFits'
  PROVE  AltInv'
<1>1. MsgInv' /\ Msgs' = Msgs /\ \A i : Msg(i)' = Msg(i)
  BY SameMessages DEF AltInv
<1>2. RemovalFirst' /\ ArrivalIsNew'
  BY <1>1 DEF AltInv, RemovalFirst, ArrivalIsNew, Arrival, Removal
<1> QED BY <1>1, <1>2 DEF AltInv
(* The monitor.  The first message waiting becomes the one that is handled. *)
LEMMA MessagesMove ==
  ASSUME TypeOK, Receive
  PROVE  /\ \A i \in Msgs' : \E j \in Msgs : j = i + 1 /\ Msg(j) = Msg(i)'
         /\ \A j \in Msgs : j # 0 => \E i \in Msgs' : j = i + 1 /\ Msg(i)' = Msg(j)
<1>1. udevq \in Seq(Events) /\ udevq # <<>>
      /\ udevq' = Tail(udevq) /\ handling' = Head(udevq)
  BY DEF TypeOK, Receive
<1>2. /\ Head(udevq) = udevq[1] /\ Len(udevq) \in Nat \ {0}
      /\ Len(udevq') = Len(udevq) - 1
      /\ \A i \in 1..Len(udevq') : udevq'[i] = udevq[i + 1]
  BY <1>1, HeadTailProperties, LenProperties, EmptySeq
<1>3. Msgs = 0..Len(udevq) /\ Msgs' = 0..(Len(udevq) - 1)
  BY <1>2 DEF Msgs
<1>4. ASSUME NEW i \in Msgs', NEW j, j = i + 1 PROVE j \in Msgs /\ Msg(j) = Msg(i)'
  <2>1. j \in Msgs /\ j # 0 /\ i \in Nat
    BY <1>2, <1>3, <1>4
  <2>2. CASE i = 0
    BY <1>1, <1>2, <1>4, <2>1, <2>2 DEF Msg
  <2>3. CASE i # 0
    <3>1. i \in 1..Len(udevq')
      BY <1>2, <1>3, <2>3
    <3> QED BY <1>2, <1>4, <2>1, <2>3, <3>1 DEF Msg
  <2> QED BY <2>1, <2>2, <2>3
<1>5. \A i \in Msgs' : \E j \in Msgs : j = i + 1 /\ Msg(j) = Msg(i)'
  BY <1>4
<1>6. ASSUME NEW j \in Msgs, j # 0 PROVE \E i \in Msgs' : j = i + 1 /\ Msg(i)' = Msg(j)
  <2>1. j - 1 \in Msgs' /\ j = (j - 1) + 1
    BY <1>2, <1>3, <1>6
  <2>2. PICK i \in Msgs' : j = i + 1
    BY <2>1
  <2> QED BY <1>4, <2>2
<1> QED BY <1>5, <1>6

LEMMA ReceiveAlternates == ASSUME IInv, AltInv, Receive PROVE AltInv'
<1>0. TypeOK /\ NodesFit /\ MsgsFit /\ TurnsTaken /\ LastIsRemoval /\ RemovalFirst
  BY DEF IInv, AltInv, MsgInv
<1>1. /\ todo' = {w \in Entries : w[2] \in watch_map[w[1]]} /\ handling = NoEvent
      /\ UNCHANGED <<plugged, watch_map, devnode, callback, at, inLua, heard>>
  BY DEF Receive
<1>2. /\ \A i \in Msgs' : \E j \in Msgs : j = i + 1 /\ Msg(j) = Msg(i)'
      /\ \A j \in Msgs : j # 0 => \E i \in Msgs' : j = i + 1 /\ Msg(i)' = Msg(j)
  BY <1>0, MessagesMove
<1>3. Msgs \subseteq Nat /\ Msgs' \subseteq Nat /\ 0 \in Msgs' /\ Msg(0)' = handling'
  <2>1. udevq' \in Seq(Events)
    BY <1>0, ReceiveKeeps DEF IInv, TypeOK
  <2> QED BY <2>1, LenProperties DEF Msgs, Msg
<1>4. MsgsFit'
  BY <1>0, <1>2 DEF MsgsFit, MsgFits
<1>5. TurnsTaken'
  <2> SUFFICES ASSUME NEW n \in Nodes, NEW j \in Msgs', NEW k \in Msgs',
                      j < k, Msg(j)' = Arrival(n), Msg(k)' = Arrival(n)
               PROVE  \E i \in Msgs' : j < i /\ i < k /\ Msg(i)' = Removal(n)
    BY DEF TurnsTaken, Arrival, Removal
  <2>1. PICK a \in Msgs : a = j + 1 /\ Msg(a) = Arrival(n)
    BY <1>2
  <2>2. PICK b \in Msgs : b = k + 1 /\ Msg(b) = Arrival(n)
    BY <1>2
  <2>3. a < b
    BY <1>3, <2>1, <2>2
  <2>4. PICK c \in Msgs : a < c /\ c < b /\ Msg(c) = Removal(n)
    BY <1>0, <2>1, <2>2, <2>3 DEF TurnsTaken
  <2>5. PICK i \in Msgs' : c = i + 1 /\ Msg(i)' = Msg(c)
    BY <1>2, <1>3, <2>1, <2>4
  <2>6. j < i /\ i < k
    BY <1>3, <2>1, <2>2, <2>4, <2>5
  <2> QED BY <2>4, <2>5, <2>6
<1>6. LastIsRemoval'
  <2> SUFFICES ASSUME NEW n \in Nodes, NEW j \in Msgs', plugged[n] = NoHw, Msg(j)' = Arrival(n)
               PROVE  \E i \in Msgs' : j < i /\ Msg(i)' = Removal(n)
    BY <1>1 DEF LastIsRemoval, Arrival, Removal
  <2>1. PICK a \in Msgs : a = j + 1 /\ Msg(a) = Arrival(n)
    BY <1>2
  <2>2. PICK c \in Msgs : a < c /\ Msg(c) = Removal(n)
    BY <1>0, <2>1 DEF LastIsRemoval
  <2>3. PICK i \in Msgs' : c = i + 1 /\ Msg(i)' = Msg(c)
    BY <1>2, <1>3, <2>1, <2>2
  <2>4. j < i
    BY <1>3, <2>1, <2>2, <2>3
  <2> QED BY <2>2, <2>3, <2>4
<1>7. RemovalFirst'
  <2> SUFFICES ASSUME NEW r \in Refs, NEW d \in Decls, NEW k \in Msgs', devnode[r][d] # NoNode,
                      k # 0, Msg(k)' = Arrival(devnode[r][d])
               PROVE  \/ \E i \in Msgs' : i # 0 /\ i < k /\ Msg(i)' = Removal(devnode[r][d])
                      \/ handling' = Removal(devnode[r][d]) /\ <<r, d>> \in todo'
    BY <1>1 DEF RemovalFirst, Arrival, Removal
  <2>0. devnode[r][d] \in Nodes /\ handling # Removal(devnode[r][d])
    BY <1>0, <1>1, MsgFacts DEF TypeOK
  <2>1. PICK b \in Msgs : b = k + 1 /\ Msg(b) = Arrival(devnode[r][d])
    BY <1>2
  <2>2. b # 0
    BY <1>3, <2>1
  <2>3. PICK c \in Msgs : c # 0 /\ c < b /\ Msg(c) = Removal(devnode[r][d])
    BY <1>0, <2>0, <2>1, <2>2 DEF RemovalFirst
  <2>4. PICK i \in Msgs' : c = i + 1 /\ Msg(i)' = Msg(c)
    BY <1>2, <2>3
  <2>5. i < k
    BY <1>3, <2>1, <2>3, <2>4
  <2>6. <<r, d>> \in todo'
    BY <1>0, <1>1 DEF NodesFit, Entries
  <2>7. i = 0 => handling' = Removal(devnode[r][d])
    BY <1>3, <2>3, <2>4
  <2> QED BY <2>3, <2>4, <2>5, <2>6, <2>7
<1>8. ArrivalIsNew'
  <2> SUFFICES ASSUME NEW n \in Nodes, NEW r \in Refs, NEW d \in Decls,
                      handling' = Arrival(n), devnode[r][d] = n
               PROVE  FALSE
    BY <1>1 DEF ArrivalIsNew, Arrival
  <2>1. PICK b \in Msgs : b = 0 + 1 /\ Msg(b) = Msg(0)'
    BY <1>2, <1>3
  <2>2. b = 1 /\ Msg(b) = Arrival(n) /\ n # NoNode /\ handling # Removal(n)
    BY <1>1, <1>3, <2>1, MsgFacts, WatchAssumption
  <2>3. devnode[r][d] # NoNode /\ b # 0 /\ Msg(b) = Arrival(devnode[r][d])
    BY <2>2
  <2>4. ~(handling = Removal(devnode[r][d]) /\ <<r, d>> \in todo)
    BY <2>2
  <2>5. PICK c \in Msgs : c # 0 /\ c < b /\ Msg(c) = Removal(devnode[r][d])
    BY <1>0, <2>3, <2>4 DEF RemovalFirst
  <2> QED BY <1>3, <2>2, <2>5
<1>9. HeardFits'
  BY <1>1 DEF AltInv, HeardFits
<1> QED BY <1>4, <1>5, <1>6, <1>7, <1>8, <1>9 DEF AltInv, MsgInv

LEMMA HandleDoneAlternates == ASSUME IInv, AltInv, HandleDone PROVE AltInv'
<1>0. MsgsFit /\ TurnsTaken /\ LastIsRemoval /\ RemovalFirst
  BY DEF AltInv, MsgInv
<1>1. /\ todo = {} /\ handling' = NoEvent
      /\ UNCHANGED <<plugged, udevq, devnode, callback, todo, heard>>
  BY DEF HandleDone
<1>2. /\ Msgs' = Msgs /\ Msgs \subseteq Nat /\ Msg(0)' = NoEvent
      /\ \A i \in Msgs : i # 0 => Msg(i)' = Msg(i)
  BY <1>1 DEF Msgs, Msg
<1>3. ASSUME NEW n \in Nodes, NEW i \in Msgs, Msg(i)' = Arrival(n) PROVE i # 0 /\ Msg(i) = Arrival(n)
  BY <1>2, <1>3, MsgFacts
<1>4. MsgsFit'
  BY <1>0, <1>2 DEF MsgsFit, MsgFits
<1>5. TurnsTaken'
  <2> SUFFICES ASSUME NEW n \in Nodes, NEW j \in Msgs, NEW k \in Msgs,
                      j < k, Msg(j)' = Arrival(n), Msg(k)' = Arrival(n)
               PROVE  \E i \in Msgs : j < i /\ i < k /\ Msg(i)' = Removal(n)
    BY <1>2 DEF TurnsTaken, Arrival, Removal
  <2>1. PICK i \in Msgs : j < i /\ i < k /\ Msg(i) = Removal(n)
    BY <1>0, <1>3 DEF TurnsTaken
  <2> QED BY <1>2, <2>1
<1>6. LastIsRemoval'
  <2> SUFFICES ASSUME NEW n \in Nodes, NEW j \in Msgs, plugged[n] = NoHw, Msg(j)' = Arrival(n)
               PROVE  \E i \in Msgs : j < i /\ Msg(i)' = Removal(n)
    BY <1>1, <1>2 DEF LastIsRemoval, Arrival, Removal
  <2>1. PICK i \in Msgs : j < i /\ Msg(i) = Removal(n)
    BY <1>0, <1>3 DEF LastIsRemoval
  <2> QED BY <1>2, <2>1
<1>7. RemovalFirst'
  BY <1>0, <1>1, <1>2 DEF RemovalFirst, Arrival, Removal
<1>8. ArrivalIsNew' /\ HeardFits'
  BY <1>1 DEF AltInv, ArrivalIsNew, HeardFits
<1> QED BY <1>4, <1>5, <1>6, <1>7, <1>8 DEF AltInv, MsgInv

(* What a visit tells fits the node it leaves the entry with. *)
LEMMA TellingFits ==
  ASSUME TypeOK, HeardFits, NEW w \in Entries, Notify(w), callback' = callback,
         NEW n, devnode' = [devnode EXCEPT ![w[1]][w[2]] = n],
         handling.action = "remove" => n = NoNode
  PROVE  HeardFits'
<1>1. w[1] \in Refs /\ w[2] \in Decls /\ w = <<w[1], w[2]>>
  BY DEF Entries
<1>2. ASSUME NEW r \in Refs, NEW d \in Decls
      PROVE  devnode'[r][d] = IF <<r, d>> = w THEN n ELSE devnode[r][d]
  BY <1>1 DEF TypeOK
<1>3. ASSUME NEW r \in Refs, NEW d \in Decls
      PROVE  heard'[<<r, d>>] = IF callback /\ <<r, d>> = w THEN handling.action ELSE heard[<<r, d>>]
  <2>1. <<r, d>> \in Entries
    BY DEF Entries
  <2> QED BY <2>1 DEF Notify, TypeOK
<1>4. ASSUME NEW r \in Refs, NEW d \in Decls
      PROVE  heard'[<<r, d>>] # "none" => callback'
  <2>1. CASE callback
    BY <2>1
  <2>2. CASE ~callback
    <3>1. heard'[<<r, d>>] = heard[<<r, d>>]
      BY <1>3, <2>2
    <3> QED BY <3>1, <2>2 DEF HeardFits
  <2> QED BY <2>1, <2>2
<1>5. ASSUME NEW r \in Refs, NEW d \in Decls, heard'[<<r, d>>] = "remove"
      PROVE  devnode'[r][d] = NoNode
  <2>1. CASE <<r, d>> = w /\ callback
    BY <1>2, <1>3, <1>5, <2>1
  <2>2. CASE ~callback
    <3>1. heard[<<r, d>>] = "remove"
      BY <1>3, <1>5, <2>2
    <3>2. "remove" # "none"
      OBVIOUS
    <3> QED BY <2>2, <3>1, <3>2 DEF HeardFits
  <2>3. CASE <<r, d>> # w
    BY <1>2, <1>3, <1>5, <2>3 DEF HeardFits
  <2> QED BY <2>1, <2>2, <2>3
<1> QED BY <1>4, <1>5 DEF HeardFits

LEMMA AddVisitAlternates == ASSUME IInv, AltInv, NEW w \in Entries, VisitAdd(w) PROVE AltInv'
<1>0. TypeOK /\ MsgsFit /\ TurnsTaken /\ RemovalFirst /\ ArrivalIsNew /\ HeardFits
  BY DEF IInv, AltInv, MsgInv
<1>1. /\ w[1] \in Refs /\ w[2] \in Decls /\ w = <<w[1], w[2]>>
  BY DEF Entries
<1>2. /\ w \in todo /\ todo' = todo \ {w} /\ handling.action = "add"
      /\ UNCHANGED <<plugged, udevq, watch_map, callback, handling>>
  BY DEF VisitAdd, Visit, IsNext
<1>3. MsgInv' /\ Msgs' = Msgs /\ \A i : Msg(i)' = Msg(i)
  BY <1>2, SameMessages DEF AltInv
<1>4. \A n \in Nodes : handling # Removal(n)
  BY <1>2, EventTypes
<1>5. CASE \E n \in MatchNodes(w[2]) : /\ n = handling.node
                                      /\ devnode' = [devnode EXCEPT ![w[1]][w[2]] = n]
                                      /\ Notify(w)
  <2>1. PICK n \in MatchNodes(w[2]) : /\ n = handling.node
                                      /\ devnode' = [devnode EXCEPT ![w[1]][w[2]] = n]
                                      /\ Notify(w)
    BY <1>5
  <2>2. n \in Nodes /\ handling \in Events /\ 0 \in Msgs /\ Msg(0) = handling
    BY <1>0, <1>2, EventTypes, LenProperties DEF MatchNodes, TypeOK, Msgs, Msg
  <2>3. handling = Arrival(n)
    BY <1>0, <1>2, <2>1, <2>2, MsgIs DEF MsgsFit
  <2>4. \A r \in Refs, d \in Decls :
          devnode'[r][d] = IF <<r, d>> = w THEN n ELSE devnode[r][d]
    BY <1>0, <1>1, <2>1 DEF TypeOK
  <2>5. RemovalFirst'
    <3> SUFFICES ASSUME NEW r \in Refs, NEW d \in Decls, NEW k \in Msgs, devnode'[r][d] # NoNode,
                        k # 0, Msg(k) = Arrival(devnode'[r][d])
                 PROVE  \E i \in Msgs : i # 0 /\ i < k /\ Msg(i) = Removal(devnode'[r][d])
      BY <1>3 DEF RemovalFirst, Arrival, Removal
    <3>1. CASE <<r, d>> = w
      <4>1. devnode'[r][d] = n /\ 0 < k
        BY <2>4, <3>1 DEF Msgs
      <4>2. PICK i \in Msgs : 0 < i /\ i < k /\ Msg(i) = Removal(n)
        BY <1>0, <2>2, <2>3, <4>1 DEF TurnsTaken
      <4> QED BY <4>1, <4>2
    <3>2. CASE <<r, d>> # w
      <4>1. devnode'[r][d] = devnode[r][d] /\ devnode[r][d] \in Nodes
        BY <1>0, <2>4, <3>2 DEF TypeOK
      <4> QED BY <1>0, <1>4, <4>1 DEF RemovalFirst
    <3> QED BY <3>1, <3>2
  <2>6. ArrivalIsNew'
    BY <1>0, <1>2, <2>4 DEF ArrivalIsNew, Arrival
  <2>7. HeardFits'
    BY <1>0, <1>2, <2>1, TellingFits
  <2> QED BY <1>3, <2>5, <2>6, <2>7 DEF AltInv
<1>6. CASE Silent
  <2>1. UNCHANGED <<devnode, heard>>
    BY <1>6 DEF Silent
  <2>2. RemovalFirst'
    <3>1. \A r \in Refs, d \in Decls : devnode[r][d] # NoNode => handling # Removal(devnode[r][d])
      BY <1>0, <1>4 DEF TypeOK
    <3> QED BY <1>0, <1>2, <1>3, <2>1, <3>1 DEF RemovalFirst, Arrival, Removal
  <2>3. ArrivalIsNew' /\ HeardFits'
    BY <1>0, <1>2, <2>1 DEF ArrivalIsNew, HeardFits, Arrival
  <2> QED BY <1>3, <2>2, <2>3 DEF AltInv
<1> QED BY <1>5, <1>6 DEF VisitAdd

LEMMA RemoveVisitAlternates == ASSUME IInv, AltInv, NEW w \in Entries, VisitRemove(w) PROVE AltInv'
<1>0. TypeOK /\ NodesFit /\ RemovalFirst /\ HeardFits
  BY DEF IInv, AltInv
<1>1. /\ w[1] \in Refs /\ w[2] \in Decls /\ w = <<w[1], w[2]>>
  BY DEF Entries
<1>2. /\ w \in todo /\ todo' = todo \ {w} /\ handling.action = "remove"
      /\ UNCHANGED <<plugged, udevq, watch_map, callback, handling>>
  BY DEF VisitRemove, Visit, IsNext
<1>3. MsgInv' /\ Msgs' = Msgs /\ \A i : Msg(i)' = Msg(i)
  BY <1>2, SameMessages DEF AltInv
<1>4. ArrivalIsNew'
  BY <1>2, MsgFacts DEF ArrivalIsNew, Arrival
<1>5. CASE DeclType[w[2]] = handling.subsystem /\ devnode[w[1]][w[2]] = handling.node
  <2>1. Notify(w) /\ devnode' = [devnode EXCEPT ![w[1]][w[2]] = NoNode]
    BY <1>5 DEF VisitRemove
  <2>2. \A r \in Refs, d \in Decls :
          devnode'[r][d] = IF <<r, d>> = w THEN NoNode ELSE devnode[r][d]
    BY <1>0, <1>1, <2>1 DEF TypeOK
  <2>3. RemovalFirst'
    <3> SUFFICES ASSUME NEW r \in Refs, NEW d \in Decls, NEW k \in Msgs, devnode'[r][d] # NoNode,
                        k # 0, Msg(k) = Arrival(devnode'[r][d])
                 PROVE  \/ \E i \in Msgs : i # 0 /\ i < k /\ Msg(i) = Removal(devnode'[r][d])
                        \/ handling = Removal(devnode'[r][d]) /\ <<r, d>> \in todo'
      BY <1>2, <1>3 DEF RemovalFirst, Arrival, Removal
    <3>1. <<r, d>> # w /\ devnode'[r][d] = devnode[r][d]
      BY <2>2
    <3> QED BY <1>0, <1>2, <3>1 DEF RemovalFirst
  <2>4. HeardFits'
    BY <1>0, <1>2, <2>1, TellingFits
  <2> QED BY <1>3, <1>4, <2>3, <2>4 DEF AltInv
<1>6. CASE ~(DeclType[w[2]] = handling.subsystem /\ devnode[w[1]][w[2]] = handling.node)
  <2>1. UNCHANGED <<devnode, heard>>
    BY <1>6 DEF VisitRemove, Silent
  <2>2. devnode[w[1]][w[2]] # NoNode => handling # Removal(devnode[w[1]][w[2]])
    BY <1>0, <1>1, <1>6, EventTypes DEF NodesFit, TypeOK
  <2>3. RemovalFirst'
    <3> SUFFICES ASSUME NEW r \in Refs, NEW d \in Decls, NEW k \in Msgs, devnode[r][d] # NoNode,
                        k # 0, Msg(k) = Arrival(devnode[r][d])
                 PROVE  \/ \E i \in Msgs : i # 0 /\ i < k /\ Msg(i) = Removal(devnode[r][d])
                        \/ handling = Removal(devnode[r][d]) /\ <<r, d>> \in todo'
      BY <1>2, <1>3, <2>1 DEF RemovalFirst, Arrival, Removal
    <3>1. <<r, d>> = w => handling # Removal(devnode[r][d])
      BY <1>1, <2>2
    <3> QED BY <1>0, <1>2, <3>1 DEF RemovalFirst
  <2>4. HeardFits'
    BY <1>0, <1>2, <2>1 DEF HeardFits
  <2> QED BY <1>3, <1>4, <2>3, <2>4 DEF AltInv
<1> QED BY <1>5, <1>6

-----------------------------------------------------------------------------
LEMMA NextAlternates == IInv /\ AltInv /\ [Next]_vars => AltInv'
<1> SUFFICES ASSUME IInv, AltInv, [Next]_vars PROVE AltInv'
  OBVIOUS
<1>1. ASSUME NEW n \in Nodes, Unplug(n) PROVE AltInv'
  BY <1>1, UnplugAlternates
<1>2. ASSUME NEW n \in Nodes, NEW h \in Hw, Plug(n, h) PROVE AltInv'
  BY <1>2, PlugAlternates
<1>3. ASSUME NEW r \in Refs, unwatch(r) \/ \E S \in SUBSET Decls : watch(r, S) PROVE AltInv'
  BY <1>3, watchAlternates
<1>4. ASSUME NEW b \in BOOLEAN, set_callback(b) PROVE AltInv'
  <2>1. HeardFits'
    BY <1>4 DEF set_callback, HeardFits, Entries
  <2> QED BY <1>4, <2>1, OthersAlternate DEF set_callback
<1>5. ASSUME Return \/ OtherCallback \/ UNCHANGED vars PROVE AltInv'
  <2>1. UNCHANGED <<plugged, udevq, devnode, callback, handling, todo, heard>>
    BY <1>5 DEF Return, OtherCallback, vars
  <2>2. HeardFits'
    BY <2>1 DEF AltInv, HeardFits
  <2> QED BY <2>1, <2>2, OthersAlternate
<1>6. ASSUME Receive PROVE AltInv'
  BY <1>6, ReceiveAlternates
<1>7. ASSUME HandleDone PROVE AltInv'
  BY <1>7, HandleDoneAlternates
<1>8. ASSUME NEW w \in Entries, VisitAdd(w) PROVE AltInv'
  BY <1>8, AddVisitAlternates
<1>9. ASSUME NEW w \in Entries, VisitRemove(w) PROVE AltInv'
  BY <1>9, RemoveVisitAlternates
<1> QED BY <1>1, <1>2, <1>3, <1>4, <1>5, <1>6, <1>7, <1>8, <1>9 DEF Next, Kernel, Lua, Loop

(* Only a visit takes an entry from the loop and starts the callback. *)
LEMMA TellsInVisit ==
  ASSUME [Next]_vars, NEW w \in todo \ todo', handling' = handling, ~inLua, inLua'
  PROVE  \E v \in Entries : VisitAdd(v) \/ VisitRemove(v)
<1>1. /\ \A n \in Nodes : ~Unplug(n) /\ \A h \in Hw : ~Plug(n, h)
      /\ \A r \in Refs : ~unwatch(r) /\ \A S \in SUBSET Decls : ~watch(r, S)
      /\ \A b \in BOOLEAN : ~set_callback(b)
      /\ ~Return
  BY DEF Unplug, Plug, unwatch, watch, set_callback, Return, MayChange
<1>2. ~OtherCallback /\ ~Receive /\ ~HandleDone /\ ~UNCHANGED vars
  BY DEF OtherCallback, Receive, HandleDone, vars
<1> QED BY <1>1, <1>2 DEF Next, Kernel, Lua, Loop

LEMMA RarelyRepeats == IInv /\ AltInv /\ [Next]_vars => [Repeats => handling.node = NoNode]_vars
<1> SUFFICES ASSUME IInv, AltInv, [Next]_vars, NEW w \in todo \ todo',
                    handling' = handling, ~inLua, inLua', heard[w] = handling.action,
                    handling.action = "add" => devnode[w[1]][w[2]] = handling.node
             PROVE  handling.node = NoNode
  BY DEF Repeats
<1>0. TypeOK /\ MsgsFit /\ ArrivalIsNew /\ HeardFits
  BY DEF IInv, AltInv, MsgInv
<1>1. w \in Entries /\ w[1] \in Refs /\ w[2] \in Decls /\ w = <<w[1], w[2]>>
  BY <1>0 DEF TypeOK, Entries
<1>2. PICK v \in Entries : VisitAdd(v) \/ VisitRemove(v)
  BY TellsInVisit
<1>3. v = w
  BY <1>2 DEF VisitAdd, VisitRemove, Visit
<1>4. handling \in Events /\ MsgFits(handling)
  <2>1. handling # NoEvent
    BY <1>2, EventTypes DEF VisitAdd, VisitRemove, Visit
  <2>2. 0 \in Msgs /\ Msg(0) = handling
    BY <1>0, LenProperties DEF TypeOK, Msgs, Msg
  <2> QED BY <1>0, <2>1, <2>2 DEF TypeOK, MsgsFit
<1>5. CASE VisitAdd(w)
  <2>1. PICK n \in MatchNodes(w[2]) : n = handling.node
    BY <1>5 DEF VisitAdd, Silent
  <2>2. n \in Nodes /\ handling.action = "add" /\ devnode[w[1]][w[2]] = n
    BY <1>5, <2>1 DEF MatchNodes, VisitAdd, Visit
  <2>3. handling = Arrival(n)
    BY <1>4, <2>1, <2>2, MsgIs
  <2> QED BY <1>0, <1>1, <2>2, <2>3 DEF ArrivalIsNew
<1>6. CASE VisitRemove(w)
  <2>1. /\ handling.action = "remove"
        /\ DeclType[w[2]] = handling.subsystem /\ devnode[w[1]][w[2]] = handling.node
    BY <1>6 DEF VisitRemove, Visit, Silent
  <2> QED BY <1>0, <1>1, <2>1 DEF HeardFits
<1> QED BY <1>2, <1>3, <1>5, <1>6

(* Of a watched device the callback never hears twice in a row that it came *)
(* to a node, or that it left: handle_udev_add and handle_udev_remove       *)
(* answer each other on every node, except for a message without a node. *)
THEOREM WatchNoticesAlternate == Spec => NoticesAlternate
<1>1. Spec => []IInv
  BY InitInv, NextKeeps, PTL DEF Spec
<1>2. Init => AltInv
  BY MsgInit
<1>3. IInv /\ AltInv /\ [Next]_vars => AltInv'
  BY NextAlternates
<1>4. IInv /\ AltInv /\ [Next]_vars => [Repeats => handling.node = NoNode]_vars
  BY RarelyRepeats
<1> QED BY <1>1, <1>2, <1>3, <1>4, PTL DEF Spec, NoticesAlternate

-----------------------------------------------------------------------------
(****************************************************************************)
(* What is safety in ArrivalIsHeard.                                        *)
(****************************************************************************)
(* What the loop has to visit lies at or behind the set it is at, so that   *)
(* no call of the script takes an entry it has passed for one ahead. *)
LoopGoesOn ==
  /\ \A w \in todo : at <= w[1]
  /\ handling = NoEvent => at = 0

LEMMA VisitGoesOn ==
  ASSUME TypeOK, LoopGoesOn, NEW w \in Entries, NEW a \in {"add", "remove"}, Visit(w, a),
         handling' = handling
  PROVE  LoopGoesOn'
<1>1. todo \subseteq Entries /\ \A v \in Entries : v[1] \in Nat
  BY WatchAssumption DEF TypeOK, Entries
<1>2. \A v \in todo : w[1] <= v[1]
  BY <1>1 DEF Visit, IsNext
<1>3. handling # NoEvent
  BY EventTypes DEF Visit
<1> QED BY <1>2, <1>3 DEF LoopGoesOn, Visit

LEMMA NextGoesOn == ASSUME TypeOK, LoopGoesOn, [Next]_vars PROVE LoopGoesOn'
<1>0. todo \subseteq Entries /\ \A w \in Entries : w[1] \in Nat \ {0}
  BY WatchAssumption DEF TypeOK, Entries
<1>1. ASSUME UNCHANGED <<handling, at>>, todo' \subseteq todo PROVE LoopGoesOn'
  BY <1>1 DEF LoopGoesOn
<1>2. ASSUME NEW n \in Nodes, Unplug(n) \/ \E h \in Hw : Plug(n, h) PROVE LoopGoesOn'
  BY <1>1, <1>2 DEF Unplug, Plug
<1>3. ASSUME NEW r \in Refs, unwatch(r) PROVE LoopGoesOn'
  BY <1>1, <1>3 DEF unwatch, Others
<1>4. ASSUME NEW r \in Refs, NEW S \in SUBSET Decls, watch(r, S) PROVE LoopGoesOn'
  <2>1. UNCHANGED <<handling, at>>
    BY <1>4 DEF watch
  <2>2. at \in Nat /\ r \in Nat
    BY WatchAssumption DEF TypeOK
  <2>3. \A w \in todo' : w \in todo \/ (r > at /\ w[1] = r)
    BY <1>4 DEF watch, Others
  <2> QED BY <2>1, <2>2, <2>3 DEF LoopGoesOn
<1>5. ASSUME NEW b \in BOOLEAN, set_callback(b) PROVE LoopGoesOn'
  BY <1>1, <1>5 DEF set_callback
<1>6. ASSUME Return \/ OtherCallback \/ UNCHANGED vars PROVE LoopGoesOn'
  BY <1>1, <1>6 DEF Return, OtherCallback, vars
<1>7. ASSUME Receive PROVE LoopGoesOn'
  <2>1. /\ at = 0 /\ at' = at
        /\ todo' = {w \in Entries : w[2] \in watch_map[w[1]]}
    BY <1>7 DEF Receive, LoopGoesOn
  <2> QED BY <1>0, <2>1 DEF LoopGoesOn
<1>8. ASSUME HandleDone PROVE LoopGoesOn'
  BY <1>8 DEF HandleDone, LoopGoesOn
<1>9. ASSUME NEW w \in Entries, VisitAdd(w) PROVE LoopGoesOn'
  BY <1>9, VisitGoesOn DEF VisitAdd
<1>10. ASSUME NEW w \in Entries, VisitRemove(w) PROVE LoopGoesOn'
  BY <1>10, VisitGoesOn DEF VisitRemove
<1> QED BY <1>2, <1>3, <1>4, <1>5, <1>6, <1>7, <1>8, <1>9, <1>10 DEF Next, Kernel, Lua, Loop

(* The arrival of w's device on n waits in the monitor's socket, or the     *)
(* loop that handles it has w ahead. *)
Coming(w, n) == Arrival(n) \in Queued \/ (handling = Arrival(n) /\ w \in todo)

Expected(w, n) == Watched(w) /\ callback /\ MatchNodes(w[2]) = {n} /\ Coming(w, n)

(* It is told in this step. *)
Told(w, n) ==
  VisitAdd(w) /\ inLua' /\ heard'[w] = "add" /\ devnode'[w[1]][w[2]] = n

(* The reasons not to tell it any more. *)
CalledOff(w, n) == ~Watched(w)' \/ ~callback' \/ MatchNodes(w[2])' # {n}

ArrivalIsKept ==
  [][\A w \in Entries, n \in Nodes :
       Expected(w, n) => Expected(w, n)' \/ Told(w, n) \/ CalledOff(w, n)]_vars

(* A message is taken from the front of the queue for all entries at once.  *)
LEMMA QueueTaken ==
  ASSUME TypeOK, Receive PROVE Queued \subseteq Queued' \cup {handling'}
<1>1. udevq # <<>> /\ udevq' = Tail(udevq) /\ handling' = Head(udevq) /\ udevq \in Seq(Events)
  BY DEF Receive, TypeOK
<1>2. /\ Head(udevq) = udevq[1]
      /\ Len(udevq') = Len(udevq) - 1 /\ Len(udevq) \in Nat
      /\ \A i \in 1..Len(udevq') : udevq'[i] = udevq[i + 1]
  BY <1>1, HeadTailProperties, LenProperties
<1>3. \A i \in 1..Len(udevq) : i = 1 \/ (i - 1 \in 1..Len(udevq') /\ udevq'[i - 1] = udevq[i])
  BY <1>2
<1> QED BY <1>1, <1>2, <1>3 DEF Queued

(* ... and put at its end. *)
LEMMA QueueKept ==
  ASSUME TypeOK, NEW n \in Nodes, Unplug(n) \/ \E h \in Hw : Plug(n, h)
  PROVE  Queued \subseteq Queued'
<1> DEFINE k == NodeType[n]
<1>1. CASE Unplug(n)
  <2> DEFINE s == <<Event("remove", k, n)>>
             t == IF k = "evdev" THEN <<Event("remove", k, NoNode)>> ELSE <<>>
  <2>1. s \in Seq(Events) /\ t \in Seq(Events) /\ udevq' = udevq \o s \o t
    BY <1>1, EventTypes DEF Unplug
  <2> HIDE DEF s, t
  <2> QED BY <2>1, QueueGrows DEF TypeOK
<1>2. CASE \E h \in Hw : Plug(n, h)
  <2> DEFINE s == IF k = "evdev" THEN <<Event("add", k, NoNode)>> ELSE <<>>
             t == <<Event("add", k, n)>>
  <2>1. s \in Seq(Events) /\ t \in Seq(Events) /\ udevq' = udevq \o s \o t
    BY <1>2, EventTypes DEF Plug
  <2> HIDE DEF s, t
  <2> QED BY <2>1, QueueGrows DEF TypeOK
<1> QED BY <1>1, <1>2

(* The call that replaces the watched set of w finds the loop before it. *)
LEMMA watchKeepsComing ==
  ASSUME TypeOK, LoopGoesOn, NEW r \in Refs, NEW S \in SUBSET Decls, watch(r, S),
         NEW w \in Entries, NEW n \in Nodes, Coming(w, n), Watched(w)'
  PROVE  Coming(w, n)'
<1>1. handling' = handling /\ Queued' = Queued /\ Arrival(n)' = Arrival(n)
  BY DEF watch, Queued, Arrival
<1>2. SUFFICES ASSUME handling = Arrival(n), w \in todo PROVE w \in todo'
  BY <1>1 DEF Coming
<1>3. handling # NoEvent
  BY <1>2, MsgFacts
<1>4. CASE w[1] # r
  BY <1>2, <1>4 DEF watch, Others
<1>5. CASE w[1] = r
  <2> DEFINE valid == {d \in S : DeclType[d] \in Watchable}
  <2>1. CASE valid = {}
    BY <1>2, <2>1 DEF watch
  <2>2. CASE valid # {}
    <3>1. w = <<w[1], w[2]>> /\ w[2] \in valid
      BY <1>5, <2>2 DEF watch, Watched, Entries, TypeOK
    <3>2. at <= r /\ r # at /\ at \in Nat /\ r \in Nat
      BY <1>2, <1>5, WatchAssumption DEF LoopGoesOn, watch, MayChange, TypeOK
    <3>3. w \in {r} \X valid /\ r > at
      BY <1>5, <3>1, <3>2
    <3> QED BY <1>3, <2>2, <3>3 DEF watch
  <2> QED BY <2>1, <2>2
<1> QED BY <1>4, <1>5

LEMMA VisitTells ==
  ASSUME TypeOK, NEW w \in Entries, NEW n \in Nodes, VisitAdd(w), handling = Arrival(n),
         MatchNodes(w[2]) = {n}, callback
  PROVE  Told(w, n)
<1>1. handling.node = n /\ handling.action = "add"
  BY MsgFacts
<1>2. /\ devnode' = [devnode EXCEPT ![w[1]][w[2]] = n]
      /\ Notify(w)
  BY <1>1 DEF VisitAdd
<1>3. inLua' /\ heard'[w] = "add"
  BY <1>1, <1>2 DEF Notify, TypeOK
<1>4. devnode'[w[1]][w[2]] = n
  BY <1>2 DEF TypeOK, Entries
<1> QED BY <1>3, <1>4 DEF Told

(* The arrival of a watched device is not lost: neither plugging, messages, *)
(* the visits of other entries nor the script's watch, unwatch and          *)
(* set_callback, called from wherever in the loop, make the entry miss it;  *)
(* it is told with the node the device is on, unless the device has left,   *)
(* a second one like it has come, or the script no longer wants to hear.    *)
(* So ArrivalIsHeard needs only that the loop comes round.                  *)
THEOREM WatchArrivalIsKept == Spec => ArrivalIsKept
<1>1. Spec => []TypeOK
  BY WatchType
<1>2. Init => LoopGoesOn
  BY DEF Init, LoopGoesOn
<1>3. TypeOK /\ LoopGoesOn /\ [Next]_vars => LoopGoesOn'
  BY NextGoesOn
<1>4. ASSUME TypeOK, LoopGoesOn, [Next]_vars, NEW w \in Entries, NEW n \in Nodes, Expected(w, n)
      PROVE  Expected(w, n)' \/ Told(w, n) \/ CalledOff(w, n)
  <2> SUFFICES ASSUME ~CalledOff(w, n) PROVE Coming(w, n)' \/ Told(w, n)
    BY DEF Expected, CalledOff
  <2> USE <1>4
  <2>0. Watched(w)' /\ callback' /\ Coming(w, n) /\ Arrival(n)' = Arrival(n)
    BY DEF CalledOff, Expected, Arrival
  <2>1. ASSUME NEW m \in Nodes, Unplug(m) \/ \E h \in Hw : Plug(m, h) PROVE Coming(w, n)'
    <3>1. Queued \subseteq Queued'
      BY <2>1, QueueKept
    <3>2. UNCHANGED <<handling, todo>>
      BY <2>1 DEF Unplug, Plug
    <3> QED BY <2>0, <3>1, <3>2 DEF Coming
  <2>2. ASSUME NEW r \in Refs, unwatch(r) PROVE Coming(w, n)'
    <3>1. w[1] # r
      BY <2>0, <2>2 DEF unwatch, Watched, TypeOK, Entries
    <3>2. UNCHANGED <<handling, udevq>> /\ (w \in todo => w \in todo')
      BY <2>2, <3>1 DEF unwatch, Others
    <3> QED BY <2>0, <3>2 DEF Coming, Queued
  <2>3. ASSUME NEW r \in Refs, NEW S \in SUBSET Decls, watch(r, S) PROVE Coming(w, n)'
    BY <2>0, <2>3, watchKeepsComing
  <2>4. ASSUME \/ \E b \in BOOLEAN : set_callback(b)
               \/ Return \/ OtherCallback \/ UNCHANGED vars
        PROVE  Coming(w, n)'
    <3>1. UNCHANGED <<handling, udevq, todo>>
      BY <2>4 DEF set_callback, Return, OtherCallback, vars
    <3> QED BY <2>0, <3>1 DEF Coming, Queued
  <2>5. ASSUME Receive PROVE Coming(w, n)'
    <3>1. handling # Arrival(n)
      BY <2>5, MsgFacts DEF Receive
    <3>2. Arrival(n) \in Queued' \/ handling' = Arrival(n)
      BY <2>0, <2>5, <3>1, QueueTaken DEF Coming
    <3>3. w \in todo'
      BY <2>5 DEF Receive, Expected, Watched
    <3> QED BY <2>0, <3>2, <3>3 DEF Coming
  <2>6. ASSUME HandleDone PROVE Coming(w, n)'
    BY <2>0, <2>6 DEF HandleDone, Coming, Queued
  <2>7. ASSUME NEW v \in Entries, VisitAdd(v) PROVE Coming(w, n)' \/ Told(w, n)
    <3>1. UNCHANGED <<handling, udevq>> /\ todo' = todo \ {v}
      BY <2>7 DEF VisitAdd, Visit
    <3>2. CASE v = w /\ handling = Arrival(n)
      BY <2>7, <3>2, VisitTells DEF Expected
    <3>3. CASE ~(v = w /\ handling = Arrival(n))
      BY <2>0, <3>1, <3>3 DEF Coming, Queued
    <3> QED BY <3>2, <3>3
  <2>8. ASSUME NEW v \in Entries, VisitRemove(v) PROVE Coming(w, n)'
    <3>1. UNCHANGED <<handling, udevq>> /\ handling.action = "remove"
      BY <2>8 DEF VisitRemove, Visit
    <3>2. handling # Arrival(n)
      BY <3>1, MsgFacts
    <3> QED BY <2>0, <3>1, <3>2 DEF Coming, Queued
  <2> QED BY <2>1, <2>2, <2>3, <2>4, <2>5, <2>6, <2>7, <2>8 DEF Next, Kernel, Lua, Loop
<1>5. TypeOK /\ LoopGoesOn /\ [Next]_vars =>
        [\A w \in Entries, n \in Nodes :
           Expected(w, n) => Expected(w, n)' \/ Told(w, n) \/ CalledOff(w, n)]_vars
  BY <1>4
<1> QED BY <1>1, <1>2, <1>3, <1>5, PTL DEF Spec, ArrivalIsKept
=============================================================================
