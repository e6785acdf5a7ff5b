---------------------------- MODULE Gatt_proofs ----------------------------
(****************************************************************************)
(* Proofs about Gatt: its invariants, and that it implements Channel.       *)
(*                                                                          *)
(* AttachedIsNotified needs to know of an attach underway what has been     *)
(* done already: as long as the link was not lost (cutoff) since the match, *)
(* every characteristic the declaration covers is subscribed to, or still   *)
(* on the list (OpeningOK), and that the list was complete when it was made *)
(* rests on the path being one that match() returns (PathOK).               *)
(****************************************************************************)
EXTENDS Gatt, SequenceTheorems, TLAPS

(* A path that declaration d was matched with. *)
Matched(d, p) ==
  /\ p \in Paths /\ <<d, p[1]>> \in Accepts
  /\ p[3] # 0 => p \in Chars /\ Service[d] = p[2] /\ Characteristic[d] = p[3]

PathOK == opening # NotOpening => Matched(opening.decl, opening.path)

OpeningOK ==
  opening # NotOpening /\ opening.decl \notin cutoff =>
    /\ opening.path[1] \in connected
    /\ opening.stage = "subscribe" =>
         Covered(opening.decl, opening.path) \subseteq (notifying \cap rules) \cup opening.todo

AttachedOK ==
  \A d \in Decls :
    input_map[d] # NoPath /\ d \notin cutoff =>
      /\ input_map[d][1] \in connected
      /\ Covered(d, input_map[d]) \subseteq notifying \cap rules

IInv == TypeOK /\ PathOK /\ OpeningOK /\ AttachedOK /\ ReadIsHandled

(* Two requests, and what they do to the signals that are underway. *)
LEMMA Block ==
  ASSUME TypeOK, block
  PROVE  /\ incoming' \in Seq(Messages) /\ socket' \in Seq(Messages)
         /\ elsewhere' \in BOOLEAN
         /\ (incoming \o socket)' = incoming \o socket
         /\ pumping \/ elsewhere'
<1>1. incoming \o socket \in Seq(Messages)
  BY ConcatProperties DEF TypeOK
<1>2. (incoming \o socket) \o <<>> = incoming \o socket
  BY <1>1, ConcatEmptySeq
<1>3. elsewhere' \in BOOLEAN /\ (pumping \/ elsewhere')
  BY DEF block, TypeOK
<1> QED BY <1>1, <1>2, <1>3, EmptySeq DEF block

LEMMA BlockNotifying ==
  ASSUME TypeOK, NEW c \in Chars, blockNotifying(c)
  PROVE  /\ incoming' \in Seq(Messages) /\ socket' \in Seq(Messages)
         /\ elsewhere' \in BOOLEAN
         /\ \/ (incoming \o socket)' = incoming \o socket
            \/ \E m \in Messages : (incoming \o socket)' = Append(incoming \o socket, m)
         /\ pumping \/ elsewhere'
<1> DEFINE m == [path |-> c, value |-> FALSE]
<1>1. m \in Messages
  BY DEF Messages
<1>2. CASE c \notin rules'
  BY <1>2, Block DEF blockNotifying
<1>3. CASE c \in rules'
  <2>1. incoming \o socket \in Seq(Messages)
    BY ConcatProperties DEF TypeOK
  <2>2. Append(incoming \o socket, m) \in Seq(Messages)
    BY <1>1, <2>1, AppendProperties
  <2>3. Append(incoming \o socket, m) \o <<>> = Append(incoming \o socket, m)
    BY <2>2, ConcatEmptySeq
  <2>4. (incoming \o socket) \o <<m>> = Append(incoming \o socket, m)
    BY <1>1, <2>1, AppendIsConcat
  <2>5. <<>> \in Seq(Messages) /\ <<m>> \in Seq(Messages)
    BY <1>1
  <2>6. elsewhere' \in BOOLEAN /\ (pumping \/ elsewhere')
    BY <1>3 DEF blockNotifying, TypeOK
  <2>7. \/ incoming' = Append(incoming \o socket, m) /\ socket' = <<>>
        \/ incoming' = incoming \o socket /\ socket' = <<m>>
    BY <1>3 DEF blockNotifying
  <2> QED BY <1>1, <2>1, <2>2, <2>3, <2>4, <2>5, <2>6, <2>7
<1> QED BY <1>2, <1>3

(* What match() returns is such a path, and what it lists are characteristics. *)
LEMMA Resolve ==
  ASSUME NEW d \in Decls
  PROVE  /\ \A p \in resolve_gatt_paths(d) : Matched(d, p)
         /\ get_matching_characteristics(d) \subseteq Chars
<1>1. \A c \in Chars : /\ c[1] \in Devs /\ c[2] \in Handles /\ c[3] \in Handles /\ 0 \in Handles
                       /\ c = <<c[1], c[2], c[3]>> /\ c[2] # 0 /\ c[3] # 0
  <2> SUFFICES ASSUME NEW c \in Chars
               PROVE  /\ c[1] \in Devs /\ c[2] \in Handles /\ c[3] \in Handles /\ 0 \in Handles
                      /\ c = <<c[1], c[2], c[3]>> /\ c[2] # 0 /\ c[3] # 0
    OBVIOUS
  <2>1. c \in Devs \X (Nat \ {0}) \X (Nat \ {0})
    BY GattAssumption
  <2>2. c[2] \in Handles /\ c[3] \in Handles /\ 0 \in Handles
    BY DEF Handles
  <2> QED BY <2>1, <2>2
<1>2. \A v \in get_matching_devices(d) : Matched(d, <<v, 0, 0>>)
  BY <1>1 DEF get_matching_devices, Matched, Paths, Handles
<1>3. \A q \in get_matching_services(d) : Matched(d, q)
  <2> SUFFICES ASSUME NEW q \in get_matching_services(d)
               PROVE  Matched(d, q)
    OBVIOUS
  <2>1. PICK c \in Chars : q = <<c[1], c[2], 0>> /\ c[1] \in get_matching_devices(d)
    BY DEF get_matching_services
  <2>2. q \in Paths
    BY <2>1, <1>1 DEF Paths
  <2>3. q[1] = c[1] /\ q[3] = 0
    BY <2>1
  <2> QED BY <2>1, <2>2, <2>3 DEF get_matching_devices, Matched
<1>4. ASSUME Service[d] # 0, Characteristic[d] # 0, NEW c \in get_matching_characteristics(d)
      PROVE  Matched(d, c)
  <2>1. c \in Chars /\ Characteristic[d] = c[3] /\ <<c[1], c[2], 0>> \in get_matching_services(d)
    BY <1>4 DEF get_matching_characteristics
  <2>2. PICK e \in Chars : <<c[1], c[2], 0>> = <<e[1], e[2], 0>> /\ Service[d] \in {0, e[2]}
                           /\ e[1] \in get_matching_devices(d)
    BY <2>1 DEF get_matching_services
  <2>3. e[1] = c[1] /\ e[2] = c[2]
    BY <2>2
  <2>4. c \in Paths
    BY <2>1, <1>1 DEF Paths
  <2>5. <<d, c[1]>> \in Accepts /\ Service[d] = c[2]
    BY <1>4, <2>2, <2>3 DEF get_matching_devices
  <2> QED BY <2>1, <2>4, <2>5 DEF Matched
<1>5. \A p \in resolve_gatt_paths(d) : Matched(d, p)
  BY <1>2, <1>3, <1>4 DEF resolve_gatt_paths
<1> QED BY <1>5 DEF get_matching_characteristics

(* The list that attach makes is complete while the device is connected.    *)
LEMMA ListIsComplete ==
  ASSUME NEW d \in Decls, NEW p, Matched(d, p), p[1] \in connected
  PROVE  Covered(d, p) \subseteq
           IF classify_gatt_path(p) = "characteristic" THEN {p} ELSE get_matching_characteristics(d)
<1> SUFFICES ASSUME NEW c \in Covered(d, p)
             PROVE  c \in IF p[3] # 0 THEN {p} ELSE get_matching_characteristics(d)
  BY DEF classify_gatt_path
<1>1. /\ c \in Chars /\ c[1] = p[1]
      /\ Service[d] \in {0, c[2]} /\ Characteristic[d] \in {0, c[3]}
  BY GattAssumption DEF Covered
<1>2. c \in Devs \X (Nat \ {0}) \X (Nat \ {0})
  BY <1>1, GattAssumption
<1>3. CASE p[3] # 0
  <2>1. p \in Chars /\ Service[d] = p[2] /\ Characteristic[d] = p[3]
    BY <1>3 DEF Matched
  <2>2. p \in Devs \X (Nat \ {0}) \X (Nat \ {0})
    BY <2>1, GattAssumption
  <2>3. c[2] = p[2] /\ c[3] = p[3]
    BY <1>1, <2>1, <2>2
  <2>4. c = <<c[1], c[2], c[3]>> /\ p = <<p[1], p[2], p[3]>>
    BY <1>2, <2>2
  <2> QED BY <1>1, <1>3, <2>3, <2>4
<1>4. CASE p[3] = 0
  <2>1. c[1] \in get_matching_devices(d) \cap connected
    BY <1>1, <1>2 DEF Matched, get_matching_devices
  <2>2. <<c[1], c[2], 0>> \in get_matching_services(d)
    BY <1>1, <2>1 DEF get_matching_services
  <2> QED BY <1>1, <1>4, <2>2 DEF get_matching_characteristics
<1> QED BY <1>3, <1>4

LEMMA InitInv == Init => IInv
  BY EmptySeq DEF Init, IInv, TypeOK, PathOK, OpeningOK, AttachedOK, ReadIsHandled, NotOpening

(* Steps that leave the devices and the attach alone. *)
LEMMA DevicesKept ==
  ASSUME IInv, UNCHANGED <<bluez, input_map, opening, cutoff>>
  PROVE  PathOK' /\ OpeningOK' /\ AttachedOK'
  BY DEF IInv, PathOK, OpeningOK, AttachedOK, Matched, Covered, bluez

LEMMA StepInv == IInv /\ [Next]_vars => IInv'
<1> SUFFICES ASSUME IInv, [Next]_vars PROVE IInv'
  OBVIOUS
<1> USE DEF IInv
<1>1. ASSUME NEW v \in Devs, Connect(v) PROVE IInv'
  <2>1. TypeOK' /\ ReadIsHandled'
    BY <1>1 DEF Connect, TypeOK, ReadIsHandled
  <2>2. PathOK' /\ OpeningOK' /\ AttachedOK'
    BY <1>1 DEF Connect, PathOK, OpeningOK, AttachedOK, Matched, Covered
  <2> QED BY <2>1, <2>2
<1>2. ASSUME NEW v \in Devs, Disconnect(v) PROVE IInv'
  <2>1. TypeOK' /\ ReadIsHandled'
    BY <1>2 DEF Disconnect, TypeOK, ReadIsHandled, OnDevice, On, NotOpening
  <2>2. PathOK'
    BY <1>2 DEF Disconnect, PathOK, Matched
  <2>3. OpeningOK'
    <3> SUFFICES ASSUME opening # NotOpening, opening.decl \notin cutoff'
                 PROVE  /\ opening.path[1] \in connected'
                        /\ opening.stage = "subscribe" =>
                             Covered(opening.decl, opening.path)
                               \subseteq (notifying' \cap rules) \cup opening.todo
      BY <1>2 DEF Disconnect, OpeningOK, Covered
    <3>1. opening.path[1] # v
      BY <1>2 DEF Disconnect, OnDevice, On, PathOK, Matched
    <3> QED BY <1>2, <3>1 DEF Disconnect, OpeningOK, Covered
  <2>4. AttachedOK'
    <3> SUFFICES ASSUME NEW d \in Decls, input_map[d] # NoPath, d \notin cutoff'
                 PROVE  /\ input_map[d][1] \in connected'
                        /\ Covered(d, input_map[d]) \subseteq notifying' \cap rules
      BY <1>2 DEF Disconnect, AttachedOK, Covered
    <3>1. input_map[d][1] # v
      BY <1>2 DEF Disconnect, OnDevice, On, TypeOK
    <3> QED BY <1>2, <3>1 DEF Disconnect, AttachedOK, Covered
  <2> QED BY <2>1, <2>2, <2>3, <2>4
<1>3. ASSUME NEW c \in Notifies, NewValue(c) PROVE IInv'
  <2>1. c \in Chars /\ [path |-> c, value |-> TRUE] \in Messages
    BY GattAssumption DEF Messages
  <2>2. socket' \in Seq(Messages)
    BY <1>3, <2>1, AppendProperties DEF NewValue, TypeOK
  <2>3. TypeOK' /\ ReadIsHandled'
    BY <1>3, <2>2 DEF NewValue, TypeOK, ReadIsHandled, bluez
  <2> QED BY <1>3, <2>3, DevicesKept DEF NewValue
<1>4. ASSUME NEW d \in Decls, OpenMatch(d) PROVE IInv'
  <2>1. PICK p \in resolve_gatt_paths(d) :
          /\ opening' = Opening(d, p, "attach", {})
          /\ cutoff' = IF p[1] \in connected THEN cutoff \ {d} ELSE cutoff \cup {d}
    BY <1>4 DEF OpenMatch
  <2>2. Matched(d, p)
    BY Resolve
  <2>3. /\ incoming' \in Seq(Messages) /\ socket' \in Seq(Messages) /\ elsewhere' \in BOOLEAN
        /\ pumping \/ elsewhere'
    BY <1>4, Block DEF OpenMatch
  <2>4. UNCHANGED <<connected, notifying, rules, input_map, pumping, script>>
    BY <1>4 DEF OpenMatch, bluez
  <2>5. TypeOK' /\ ReadIsHandled'
    BY <2>1, <2>2, <2>3, <2>4 DEF TypeOK, ReadIsHandled, Opening, Matched
  <2>6. PathOK' /\ OpeningOK'
    BY <2>1, <2>2, <2>4 DEF PathOK, OpeningOK, Opening, Matched
  <2>7. AttachedOK'
    BY <1>4, <2>1, <2>4 DEF OpenMatch, AttachedOK, Covered
  <2> QED BY <2>5, <2>6, <2>7
<1>5. CASE AttachResolve
  <2> DEFINE d == opening.decl
             p == opening.path
             t == IF classify_gatt_path(p) = "characteristic" THEN {p}
                  ELSE get_matching_characteristics(d)
  <2>1. /\ opening.stage = "attach" /\ opening # NotOpening
        /\ opening' = Opening(d, p, "subscribe", t)
        /\ UNCHANGED <<connected, notifying, rules, input_map, pumping, script, cutoff>>
    BY <1>5 DEF AttachResolve, NotOpening, bluez
  <2>2. d \in Decls /\ Matched(d, p)
    BY <2>1 DEF PathOK, TypeOK
  <2>3. /\ incoming' \in Seq(Messages) /\ socket' \in Seq(Messages) /\ elsewhere' \in BOOLEAN
        /\ pumping \/ elsewhere'
    BY <1>5, Block DEF AttachResolve
  <2>4. t \subseteq Chars
    BY <2>2, Resolve DEF Matched, classify_gatt_path
  <2>5. TypeOK' /\ ReadIsHandled'
    BY <2>1, <2>2, <2>3, <2>4 DEF TypeOK, ReadIsHandled, Opening, Matched
  <2>6. PathOK'
    BY <2>1, <2>2 DEF PathOK, Opening, Matched
  <2>7. p[1] \in connected => Covered(d, p) \subseteq t
    BY <2>2, ListIsComplete
  <2>8. OpeningOK'
    BY <2>1, <2>7 DEF OpeningOK, Opening, Covered
  <2>9. AttachedOK'
    BY <2>1 DEF AttachedOK, Covered
  <2> QED BY <2>5, <2>6, <2>8, <2>9
<1>6. ASSUME NEW c \in Chars, AttachSubscribe(c) PROVE IInv'
  <2> DEFINE can == c[1] \in connected /\ c \in Notifies
  <2>1. /\ opening.stage = "subscribe" /\ c \in opening.todo /\ opening # NotOpening
        /\ opening' = [opening EXCEPT !.todo = @ \ {c}]
        /\ notifying' = IF can THEN notifying \cup {c} ELSE notifying
        /\ rules \subseteq rules' /\ rules' \subseteq rules \cup {c} /\ (can => c \in rules')
        /\ UNCHANGED <<connected, input_map, pumping, script, cutoff>>
    BY <1>6 DEF AttachSubscribe, characteristic_supports_notify, NotOpening
  <2>2. blockNotifying(c) \/ block
    BY <1>6 DEF AttachSubscribe, characteristic_supports_notify
  <2>3. /\ incoming' \in Seq(Messages) /\ socket' \in Seq(Messages) /\ elsewhere' \in BOOLEAN
        /\ pumping \/ elsewhere'
    BY <2>2, Block, BlockNotifying
  <2>4. opening' = Opening(opening.decl, opening.path, "subscribe", opening.todo \ {c})
    BY <2>1 DEF TypeOK, Opening
  <2>a. /\ opening.decl \in Decls /\ opening.path \in Paths /\ opening.stage = "subscribe"
        /\ opening.todo \ {c} \in SUBSET Chars
    BY <2>1 DEF TypeOK
  <2>b. opening' \in [decl : Decls, path : Paths, stage : {"attach", "subscribe"},
                      todo : SUBSET Chars] \cup {NotOpening}
    BY <2>4, <2>a DEF Opening
  <2>c. notifying' \subseteq Notifies /\ rules' \subseteq Chars
    BY <2>1 DEF TypeOK
  <2>5. TypeOK' /\ ReadIsHandled'
    <3>1. TypeOK'
      BY <2>1, <2>3, <2>b, <2>c DEF TypeOK
    <3>2. ReadIsHandled'
      BY <2>1, <2>3 DEF ReadIsHandled
    <3> QED BY <3>1, <3>2
  <2>6. PathOK'
    BY <2>1, <2>4 DEF PathOK, Opening, Matched
  <2>7. OpeningOK'
    <3> SUFFICES ASSUME opening.decl \notin cutoff
                 PROVE  /\ opening.path[1] \in connected
                        /\ Covered(opening.decl, opening.path)
                             \subseteq (notifying' \cap rules') \cup (opening.todo \ {c})
      BY <2>1, <2>4 DEF OpeningOK, Opening, Covered
    <3>1. /\ opening.path[1] \in connected
          /\ Covered(opening.decl, opening.path) \subseteq (notifying \cap rules) \cup opening.todo
      BY <2>1 DEF OpeningOK
    <3>2. c \in Covered(opening.decl, opening.path) => can
      BY <3>1 DEF Covered
    <3> QED BY <2>1, <3>1, <3>2
  <2>8. AttachedOK'
    BY <2>1 DEF AttachedOK, Covered
  <2> QED BY <2>5, <2>6, <2>7, <2>8
<1>7. CASE AttachDone
  <2>1. /\ opening.stage = "subscribe" /\ opening.todo = {} /\ opening # NotOpening
        /\ input_map' = [input_map EXCEPT ![opening.decl] = opening.path]
        /\ opening' = NotOpening
        /\ UNCHANGED <<connected, notifying, rules, socket, incoming, pumping, script,
                       elsewhere, cutoff>>
    BY <1>7 DEF AttachDone, NotOpening, bluez
  <2>2. TypeOK' /\ ReadIsHandled'
    BY <2>1 DEF TypeOK, ReadIsHandled
  <2>3. PathOK' /\ OpeningOK'
    BY <2>1 DEF PathOK, OpeningOK
  <2>4. AttachedOK'
    <3> SUFFICES ASSUME NEW d \in Decls, input_map'[d] # NoPath, d \notin cutoff
                 PROVE  /\ input_map'[d][1] \in connected
                        /\ Covered(d, input_map'[d]) \subseteq notifying \cap rules
      BY <2>1 DEF AttachedOK, Covered
    <3>1. CASE d = opening.decl
      BY <2>1, <3>1 DEF OpeningOK, TypeOK
    <3>2. CASE d # opening.decl
      BY <2>1, <3>2 DEF AttachedOK, TypeOK
    <3> QED BY <3>1, <3>2
  <2> QED BY <2>2, <2>3, <2>4
<1>8. ASSUME NEW d \in Decls, Close(d) PROVE IInv'
  <2> DEFINE p == input_map[d]
  <2>1. /\ p # NoPath /\ opening = NotOpening
        /\ input_map' = [input_map EXCEPT ![d] = NoPath]
        /\ notifying' = notifying \ {p}
        /\ cutoff' = cutoff \cup {e \in Decls : input_map[e] # NoPath
                                               /\ p \in Covered(e, input_map[e])}
        /\ UNCHANGED <<connected, opening, pumping, script, rules>>
    BY <1>8 DEF Close, InLua
  <2>2. (p \in Chars /\ blockNotifying(p)) \/ block
    BY <1>8, GattAssumption DEF Close, TypeOK
  <2>3. /\ incoming' \in Seq(Messages) /\ socket' \in Seq(Messages) /\ elsewhere' \in BOOLEAN
        /\ pumping \/ elsewhere'
    BY <2>2, Block, BlockNotifying
  <2>4. TypeOK' /\ ReadIsHandled'
    BY <2>1, <2>3 DEF TypeOK, ReadIsHandled
  <2>5. PathOK' /\ OpeningOK'
    BY <2>1 DEF PathOK, OpeningOK
  <2>6. AttachedOK'
    BY <2>1 DEF AttachedOK, TypeOK, Covered
  <2> QED BY <2>4, <2>5, <2>6
<1>9. ASSUME block, UNCHANGED <<bluez, input_map, opening, pumping, script, cutoff>> PROVE IInv'
  <2>1. TypeOK' /\ ReadIsHandled'
    BY <1>9, Block DEF TypeOK, ReadIsHandled, bluez
  <2> QED BY <1>9, <2>1, DevicesKept
<1>10. CASE Return \/ OtherCallback
  <2>1. TypeOK' /\ ReadIsHandled'
    BY <1>10 DEF Return, OtherCallback, TypeOK, ReadIsHandled, bluez
  <2> QED BY <1>10, <2>1, DevicesKept DEF Return, OtherCallback
<1>11. CASE pump_messages
  <2>1. TypeOK' /\ ReadIsHandled'
    BY <1>11, ConcatProperties, EmptySeq DEF pump_messages, TypeOK, ReadIsHandled, bluez
  <2> QED BY <1>11, <2>1, DevicesKept DEF pump_messages
<1>12. CASE process_one_message
  <2>1. Tail(incoming) \in Seq(Messages)
    BY <1>12, HeadTailProperties DEF process_one_message, TypeOK
  <2>2. TypeOK' /\ ReadIsHandled'
    BY <1>12, <2>1 DEF process_one_message, TypeOK, ReadIsHandled, bluez
  <2> QED BY <1>12, <2>2, DevicesKept DEF process_one_message
<1>13. CASE PumpDone
  <2>1. TypeOK' /\ ReadIsHandled'
    BY <1>13 DEF PumpDone, TypeOK, ReadIsHandled, bluez
  <2> QED BY <1>13, <2>1, DevicesKept DEF PumpDone
<1>14. CASE UNCHANGED vars
  <2>1. TypeOK' /\ ReadIsHandled'
    BY <1>14 DEF vars, TypeOK, ReadIsHandled, bluez
  <2> QED BY <1>14, <2>1, DevicesKept DEF vars
<1>15. CASE World
  BY <1>1, <1>2, <1>3, <1>15 DEF World
<1>16. CASE Attach
  BY <1>5, <1>6, <1>7, <1>16 DEF Attach
<1>17. CASE Lua
  BY <1>4, <1>8, <1>9, <1>10, <1>17 DEF Lua, OpenNothing, Access
<1>18. CASE Loop
  BY <1>9, <1>10, <1>11, <1>12, <1>13, <1>18 DEF Loop, UdevAdd
<1> QED BY <1>14, <1>15, <1>16, <1>17, <1>18 DEF Next

LEMMA InvConsequences == IInv => TypeOK /\ ReadIsHandled /\ AttachedIsNotified
  BY DEF IInv, AttachedOK, AttachedIsNotified

(* The variables of the GATT backend keep their types. *)
THEOREM GattType == Spec => []TypeOK
  BY InitInv, StepInv, InvConsequences, PTL DEF Spec

(* A signal that waits unseen was read by a request outside the pump. *)
THEOREM GattReadIsHandled == Spec => []ReadIsHandled
  BY InitInv, StepInv, InvConsequences, PTL DEF Spec

(* An attached declaration whose link was not lost hears of all it covers.  *)
THEOREM GattAttachedIsNotified == Spec => []AttachedIsNotified
  BY InitInv, StepInv, InvConsequences, PTL DEF Spec

(* Every step adds a signal at the end, handles the first, or neither.      *)
LEMMA StepRefines == TypeOK /\ [Next]_vars => [Bus!Next]_(incoming \o socket)
<1> DEFINE queue == incoming \o socket
<1> SUFFICES ASSUME TypeOK, [Next]_vars PROVE Bus!Next \/ queue' = queue
  OBVIOUS
<1> USE DEF Bus!Next, Bus!Arrive, Bus!Take
<1>1. queue \in Seq(Messages)
  BY ConcatProperties DEF TypeOK
<1>2. ASSUME NEW c \in Notifies, NewValue(c) PROVE Bus!Next
  <2> DEFINE m == [path |-> c, value |-> TRUE]
  <2>1. m \in Messages
    BY GattAssumption DEF Messages
  <2>2. queue' = incoming \o Append(socket, m)
    BY <1>2 DEF NewValue
  <2>3. Append(socket, m) = socket \o <<m>> /\ Append(queue, m) = queue \o <<m>>
    BY <1>1, <2>1, AppendIsConcat DEF TypeOK
  <2>4. <<m>> \in Seq(Messages)
    BY <2>1
  <2>5. queue' = Append(queue, m)
    BY <2>2, <2>3, <2>4, ConcatAssociative DEF TypeOK
  <2> QED BY <2>1, <2>5
<1>3. CASE block
  BY <1>3, Block
<1>4. ASSUME NEW c \in Chars, blockNotifying(c) PROVE Bus!Next \/ queue' = queue
  BY <1>4, BlockNotifying
<1>5. CASE pump_messages
  BY <1>1, <1>5, ConcatEmptySeq DEF pump_messages
<1>6. CASE process_one_message
  <2>1. incoming # <<>> /\ queue' = Tail(incoming) \o socket
    BY <1>6 DEF process_one_message
  <2>2. /\ incoming \in Seq(Messages) /\ socket \in Seq(Messages)
        /\ Tail(incoming) \in Seq(Messages)
    BY <2>1, HeadTailProperties DEF TypeOK
  <2>3. queue # <<>> /\ Tail(queue) = Tail(incoming) \o socket
    BY <2>1, <2>2
  <2> QED BY <2>1, <2>3
<1>7. CASE World
  <2>1. ASSUME NEW v \in Devs, Connect(v) \/ Disconnect(v) PROVE queue' = queue
    BY <2>1 DEF Connect, Disconnect
  <2> QED BY <1>2, <1>7, <2>1 DEF World
<1>8. CASE Attach
  BY <1>3, <1>4, <1>8 DEF Attach, AttachResolve, AttachSubscribe, AttachDone
<1>9. CASE Lua
  <2>1. ASSUME NEW d \in Decls, Close(d) PROVE Bus!Next \/ queue' = queue
    <3>1. block \/ \E c \in Chars : blockNotifying(c)
      BY <2>1, GattAssumption DEF Close, TypeOK
    <3> QED BY <1>3, <1>4, <3>1
  <2> QED BY <1>3, <1>9, <2>1 DEF Lua, OpenMatch, OpenNothing, Access, Return
<1>10. CASE Loop
  BY <1>3, <1>5, <1>6, <1>10 DEF Loop, OtherCallback, UdevAdd, PumpDone
<1>11. CASE UNCHANGED vars
  BY <1>11 DEF vars
<1> QED BY <1>7, <1>8, <1>9, <1>10, <1>11 DEF Next

(* The backend handles the signals of the bus in order and loses none,      *)
(* whatever requests run in between. *)
THEOREM GattImplementsChannel == Spec => ImplementsChannel
<1>1. Init => Bus!Init
  BY DEF Init, Bus!Init
<1> QED BY <1>1, GattType, StepRefines, PTL DEF Spec, ImplementsChannel, Bus!Spec
=============================================================================
