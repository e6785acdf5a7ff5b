-------------------------------- MODULE Gatt --------------------------------
(****************************************************************************)
(* DeviceBackendGATT and DispatcherGATT: Bluetooth LE devices through       *)
(* BlueZ, over a D-Bus connection whose socket is in the epoll set.         *)
(*                                                                          *)
(* Every request blocks until its reply is there.  The signals that come in *)
(* meanwhile are read into the connection's own queue, where epoll does not *)
(* see them; only pump_messages, called when the socket is readable, takes  *)
(* them out of it.  Attaching a device is a series of such requests, and    *)
(* the device may come and go between any two of them.                      *)
(*                                                                          *)
(* The path of an object is a triple <<device, service, characteristic>>,   *)
(* with 0 for what it has no part of.                                       *)
(****************************************************************************)
EXTENDS Integers, Sequences, FiniteSets

CONSTANTS
  Devs,            \* Bluetooth devices BlueZ knows
  Chars,           \* paths of the characteristics they have
  Notifies,        \* those with the flag "notify"
  Decls,           \* declarations of type "gatt"
  Order,           \* input_map is ordered by id
  Accepts,         \* pairs <<decl, dev>>: uniq, or name, matches
  Service,         \* InputDecl::service, 0 for none
  Characteristic,  \* InputDecl::characteristic, 0 for none
  OnEvent,         \* "function", "missing" (names no function) or "none"
  MaxQueue,        \* bound on signals underway (bound of the instance)
  NoPath

Handles == {c[2] : c \in Chars} \cup {c[3] : c \in Chars} \cup {0}
Paths   == Devs \X Handles \X Handles

ASSUME GattAssumption ==
  /\ Chars \subseteq Devs \X (Nat \ {0}) \X (Nat \ {0})
  /\ Notifies \subseteq Chars
  /\ Order \in [Decls -> Nat]
  /\ \A d, e \in Decls : Order[d] = Order[e] => d = e
  /\ Accepts \subseteq Decls \X Devs
  /\ Service \in [Decls -> Nat] /\ Characteristic \in [Decls -> Nat]
  /\ OnEvent \in [Decls -> {"function", "missing", "none"}]
  /\ NoPath \notin Paths /\ MaxQueue \in Nat

VARIABLES
  connected,  \* devices whose services BlueZ lists
  notifying,  \* characteristics with a StartNotify of this client
  rules,      \* characteristics with a match rule on the bus
  socket,     \* signals epoll can see
  incoming,   \* signals in the queue of conn_
  input_map,  \* declaration -> devnode it is attached with
  opening,    \* attach underway: its declaration, path and what is left to do
  pumping,    \* inside pump_messages
  script,     \* "idle", "lua", or "event": in the on_event of a signal
  elsewhere,  \* history: a request was made outside the pump since the last one
  cutoff      \* history: declarations whose link was lost or taken away

bluez == <<connected, notifying, rules>>
vars  == <<bluez, socket, incoming, input_map, opening, pumping, script, elsewhere, cutoff>>

(* PropertiesChanged of a characteristic: a new Value, or another property. *)
Messages == [path : Chars, value : BOOLEAN]

Opening(d, p, s, t) == [decl |-> d, path |-> p, stage |-> s, todo |-> t]
NotOpening == [stage |-> "none"]

TypeOK ==
  /\ connected \subseteq Devs
  /\ notifying \subseteq Notifies /\ rules \subseteq Chars
  /\ socket \in Seq(Messages) /\ incoming \in Seq(Messages)
  /\ input_map \in [Decls -> Paths \cup {NoPath}]
  /\ opening \in [decl : Decls, path : Paths, stage : {"attach", "subscribe"},
                  todo : SUBSET Chars] \cup {NotOpening}
  /\ pumping \in BOOLEAN /\ script \in {"idle", "lua", "event"}
  /\ elsewhere \in BOOLEAN /\ cutoff \subseteq Decls

(* The main chunk runs. *)
Init ==
  /\ connected \in SUBSET Devs
  /\ notifying = {} /\ rules = {}
  /\ socket = <<>> /\ incoming = <<>>
  /\ input_map = [d \in Decls |-> NoPath]
  /\ opening = NotOpening
  /\ pumping = FALSE /\ script = "lua"
  /\ elsewhere = FALSE /\ cutoff = {}

-----------------------------------------------------------------------------
(****************************************************************************)
(* Paths.                                                                   *)
(****************************************************************************)
classify_gatt_path(p) ==
  IF p[3] # 0 THEN "characteristic" ELSE IF p[2] # 0 THEN "service" ELSE "device"

derive_device_path_from_char_path(p) == <<p[1], 0, 0>>

(* What gatt_paths_ holds of an attached declaration. *)
gatt_path(d) ==
  LET p == input_map[d] IN
  IF classify_gatt_path(p) = "characteristic" THEN derive_device_path_from_char_path(p) ELSE p

get_matching_devices(d) == {v \in Devs : <<d, v>> \in Accepts}

get_matching_services(d) ==
  {<<c[1], c[2], 0>> : c \in {c \in Chars :
     /\ c[1] \in get_matching_devices(d) \cap connected
     /\ Service[d] \in {0, c[2]}}}

get_matching_characteristics(d) ==
  {c \in Chars : /\ <<c[1], c[2], 0>> \in get_matching_services(d)
                 /\ Characteristic[d] \in {0, c[3]}}

(* Whether the flags of an object that is there name "notify". *)
characteristic_supports_notify(c) == c[1] \in connected /\ c \in Notifies

(* The paths match() may return: the first of an array in no given order.   *)
resolve_gatt_paths(d) ==
  IF Service[d] = 0 THEN {<<v, 0, 0>> : v \in get_matching_devices(d)}
  ELSE IF Characteristic[d] = 0 THEN get_matching_services(d)
  ELSE get_matching_characteristics(d)

(* The object gatt.read and gatt.write address: under a service's path the  *)
(* two overrides name none, and there has to be both or neither. *)
resolve_char_path(d, s, c) ==
  LET p == gatt_path(d) IN
  IF s = 0 /\ c = 0 THEN p
  ELSE IF s = 0 \/ c = 0 THEN NoPath
  ELSE IF p[2] = 0 THEN <<p[1], s, c>> ELSE p \o <<s, c>>

-----------------------------------------------------------------------------
(****************************************************************************)
(* BlueZ and the bus.                                                       *)
(****************************************************************************)
(* Declarations that are attached to, or being attached to, path p.         *)
On(p) == {d \in Decls : input_map[d] = p}
         \cup (IF opening # NotOpening /\ opening.path = p THEN {opening.decl} ELSE {})

OnDevice(v) == UNION {On(p) : p \in {q \in Paths : q[1] = v}}

Connect(v) ==
  /\ v \notin connected
  /\ connected' = connected \cup {v}
  /\ UNCHANGED <<notifying, rules, socket, incoming, input_map, opening, pumping, script,
                 elsewhere, cutoff>>

(* The objects go, and with them the notify sessions.  Nobody tells aelkey. *)
Disconnect(v) ==
  /\ v \in connected
  /\ connected' = connected \ {v}
  /\ notifying' = {c \in notifying : c[1] # v}
  /\ cutoff' = cutoff \cup OnDevice(v)
  /\ UNCHANGED <<rules, socket, incoming, input_map, opening, pumping, script, elsewhere>>

(* A device sends a notification. *)
NewValue(c) ==
  /\ c \in notifying \cap rules
  /\ Len(socket) + Len(incoming) < MaxQueue
  /\ socket' = Append(socket, [path |-> c, value |-> TRUE])
  /\ UNCHANGED <<bluez, incoming, input_map, opening, pumping, script, elsewhere, cutoff>>

-----------------------------------------------------------------------------
(****************************************************************************)
(* Requests: dbus_connection_send_with_reply_and_block.                     *)
(****************************************************************************)
(* Mutant: signals that are not the reply are dropped. *)
blockDropping ==
  /\ incoming' = incoming
  /\ socket' = <<>>
  /\ elsewhere' = (elsewhere \/ ~pumping)

(* What came before the reply is read. *)
block ==
  /\ incoming' = incoming \o socket
  /\ socket' = <<>>
  /\ elsewhere' = (elsewhere \/ ~pumping)

(* The same, for a request that changes the characteristic's Notifying: the *)
(* signal of that comes before or after the reply. *)
blockNotifying(c) ==
  LET m == [path |-> c, value |-> FALSE] IN
  IF c \in rules'
  THEN /\ Len(socket) + Len(incoming) < MaxQueue
       /\ \/ incoming' = Append(incoming \o socket, m) /\ socket' = <<>>
          \/ incoming' = incoming \o socket /\ socket' = <<m>>
       /\ elsewhere' = (elsewhere \/ ~pumping)
  ELSE block

-----------------------------------------------------------------------------
(****************************************************************************)
(* The script's calls.                                                      *)
(****************************************************************************)
InLua == script # "idle" /\ opening = NotOpening

(* What of device p[1] declaration d is to be notified of. *)
Covered(d, p) ==
  {c \in Notifies : /\ c[1] = p[1]
                    /\ Service[d] \in {0, c[2]} /\ Characteristic[d] \in {0, c[3]}}

(* open_device: match() finds a path. *)
OpenMatch(d) ==
  /\ InLua /\ input_map[d] = NoPath
  /\ block
  /\ \E p \in resolve_gatt_paths(d) :
       /\ opening' = Opening(d, p, "attach", {})
       /\ cutoff' = IF p[1] \in connected THEN cutoff \ {d} ELSE cutoff \cup {d}
  /\ UNCHANGED <<bluez, input_map, pumping, script>>

(* attach: the characteristics to subscribe to; a path of one is taken as   *)
(* it is, for another the objects are asked for again. *)
AttachResolve ==
  LET d == opening.decl
      p == opening.path
  IN
  /\ opening.stage = "attach"
  /\ opening' = Opening(d, p, "subscribe",
       IF classify_gatt_path(p) = "characteristic" THEN {p} ELSE get_matching_characteristics(d))
  /\ block
  /\ UNCHANGED <<bluez, input_map, pumping, script, cutoff>>

(* Mutant: no match rule when the characteristic was found by its device.   *)
AttachSubscribeNoRule(c) ==
  LET given == classify_gatt_path(opening.path) = "characteristic"
      can   == characteristic_supports_notify(c)
  IN
  /\ opening.stage = "subscribe" /\ c \in opening.todo
  /\ opening' = [opening EXCEPT !.todo = @ \ {c}]
  /\ rules' = IF given THEN rules \cup {c} ELSE rules
  /\ notifying' = IF can THEN notifying \cup {c} ELSE notifying
  /\ IF can /\ c \notin notifying THEN blockNotifying(c) ELSE block
  /\ UNCHANGED <<connected, input_map, pumping, script, cutoff>>

(* attach: one of them.  Its flags are looked at only when it was not given *)
(* by its own path; that StartNotify then fails for one that has no "notify" *)
(* or is gone is not noticed. *)
AttachSubscribe(c) ==
  LET given == classify_gatt_path(opening.path) = "characteristic"
      can   == characteristic_supports_notify(c)
  IN
  /\ opening.stage = "subscribe" /\ c \in opening.todo
  /\ opening' = [opening EXCEPT !.todo = @ \ {c}]
  /\ rules' = IF given \/ can THEN rules \cup {c} ELSE rules
  /\ notifying' = IF can THEN notifying \cup {c} ELSE notifying
  /\ IF can /\ c \notin notifying THEN blockNotifying(c) ELSE block
  /\ UNCHANGED <<connected, input_map, pumping, script, cutoff>>

(* attach returns, and DeviceManager registers the device. *)
AttachDone ==
  /\ opening.stage = "subscribe" /\ opening.todo = {}
  /\ input_map' = [input_map EXCEPT ![opening.decl] = opening.path]
  /\ opening' = NotOpening
  /\ UNCHANGED <<bluez, socket, incoming, pumping, script, elsewhere, cutoff>>

(* close_device: StopNotify goes to the devnode, and means something only   *)
(* when that is a characteristic.  Match rules stay. *)
Close(d) ==
  LET p == input_map[d] IN
  /\ InLua /\ p # NoPath
  /\ input_map' = [input_map EXCEPT ![d] = NoPath]
  /\ notifying' = notifying \ {p}
  /\ cutoff' = cutoff \cup {e \in Decls : input_map[e] # NoPath /\ p \in Covered(e, input_map[e])}
  /\ rules' = rules
  /\ IF p \in notifying THEN blockNotifying(p) ELSE block
  /\ UNCHANGED <<connected, opening, pumping, script>>

(* gatt.read, gatt.write of an object there is a path for. *)
Access(d, s, c) ==
  /\ InLua /\ input_map[d] # NoPath
  /\ resolve_char_path(d, s, c) # NoPath
  /\ block
  /\ UNCHANGED <<bluez, input_map, opening, pumping, script, cutoff>>

(* open_device that finds nothing, or finds it attached already. *)
OpenNothing(d) ==
  /\ InLua
  /\ resolve_gatt_paths(d) = {} \/ input_map[d] # NoPath
  /\ block
  /\ UNCHANGED <<bluez, input_map, opening, pumping, script, cutoff>>

Return ==
  /\ InLua /\ script' = "idle"
  /\ UNCHANGED <<bluez, socket, incoming, input_map, opening, pumping, elsewhere, cutoff>>

-----------------------------------------------------------------------------
(****************************************************************************)
(* The loop.                                                                *)
(****************************************************************************)
InLoop == script = "idle" /\ ~pumping

(* A callback of another dispatcher. *)
OtherCallback ==
  /\ InLoop /\ script' = "lua"
  /\ UNCHANGED <<bluez, socket, incoming, input_map, opening, pumping, elsewhere, cutoff>>

(* A udev "add" of any device: DispatcherUdev asks match() of every         *)
(* declaration. *)
UdevAdd ==
  /\ InLoop /\ block
  /\ UNCHANGED <<bluez, input_map, opening, pumping, script, cutoff>>

(* handle_event: the socket is readable. *)
pump_messages ==
  /\ InLoop /\ socket # <<>>
  /\ incoming' = incoming \o socket /\ socket' = <<>>
  /\ pumping' = TRUE /\ elsewhere' = FALSE
  /\ UNCHANGED <<bluez, input_map, opening, script, cutoff>>

(* The declaration whose on_event is called, of whichever path the signal   *)
(* is: the first one, where one that names no function is passed over. *)
Candidates == {d \in Decls : input_map[d] # NoPath /\ OnEvent[d] # "missing"}
Listener(d) ==
  /\ d \in Candidates /\ OnEvent[d] = "function"
  /\ \A e \in Candidates : Order[d] <= Order[e]

process_one_message ==
  /\ pumping /\ script = "idle" /\ incoming # <<>>
  /\ incoming' = Tail(incoming)
  /\ script' = IF \E d \in Decls : Listener(d) THEN "event" ELSE "idle"
  /\ UNCHANGED <<bluez, socket, input_map, opening, pumping, elsewhere, cutoff>>

(* Mutant: one message is processed per call. *)
PumpOne ==
  /\ pumping /\ script = "idle"
  /\ pumping' = FALSE
  /\ UNCHANGED <<bluez, socket, incoming, input_map, opening, script, elsewhere, cutoff>>

PumpDone ==
  /\ pumping /\ script = "idle" /\ incoming = <<>>
  /\ pumping' = FALSE
  /\ UNCHANGED <<bluez, socket, incoming, input_map, opening, script, elsewhere, cutoff>>

World == \/ \E v \in Devs : Connect(v) \/ Disconnect(v)
         \/ \E c \in Notifies : NewValue(c)
Attach == AttachResolve \/ AttachDone \/ \E c \in Chars : AttachSubscribe(c)
Lua == \/ \E d \in Decls : OpenMatch(d) \/ OpenNothing(d) \/ Close(d)
       \/ \E d \in Decls, s \in Handles, c \in Handles : Access(d, s, c)
       \/ Return
Loop == OtherCallback \/ UdevAdd \/ pump_messages \/ process_one_message \/ PumpDone
Next == World \/ Attach \/ Lua \/ Loop

Spec == Init /\ [][Next]_vars

-----------------------------------------------------------------------------
(* Signals are handled in the order in which they arrived and none is lost, *)
(* whether they were read by the pump or by a blocking request in between.  *)
Bus == INSTANCE Channel WITH queue <- incoming \o socket
ImplementsChannel == Bus!Spec

(* A signal that was read and is not handled, while epoll sees nothing of   *)
(* it, is one that a request outside the pump has read: a request in the    *)
(* on_event of a signal leaves nothing behind. *)
ReadIsHandled == incoming # <<>> => pumping \/ elsewhere

(* An attached declaration hears of all its characteristics, unless its     *)
(* link was lost since the match, or the close of another declaration       *)
(* stopped one of them. *)
AttachedIsNotified ==
  \A d \in Decls :
    input_map[d] # NoPath /\ d \notin cutoff =>
      Covered(d, input_map[d]) \subseteq notifying \cap rules
=============================================================================
