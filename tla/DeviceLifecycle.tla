--------------------------- MODULE DeviceLifecycle ---------------------------
(****************************************************************************)
(* The life of an input device in aelkey: plugging and unplugging, the udev *)
(* monitor, DeviceManager attach/detach, the evdev and hidraw dispatchers   *)
(* with their epoll payloads, and the batches of the epoll loop.            *)
(*                                                                          *)
(* The program is one thread, but its steps interleave with the kernel      *)
(* (hot-plug, input, reuse of descriptor numbers) and with the script, whose *)
(* callbacks may call back into open_device and close_device in the middle  *)
(* of a handler.  While a callback runs, script # Idle and only API calls   *)
(* and the kernel take steps; Return gives control back to the handler.     *)
(****************************************************************************)
EXTENDS Integers, Sequences, FiniteSets

CONSTANTS
  Decls,       \* the ids of the `inputs` table
  Order,       \* position of each declaration in state.input_decls
  DeclType,    \* "evdev" or "hidraw", for each declaration
  Nodes,       \* device nodes: /dev/input/eventN, /dev/hidrawN
  NodeType,    \* the backend whose subsystem a node belongs to
  Hw,          \* pieces of hardware that can be plugged
  HwType,      \* the kind of node a piece of hardware gets
  Accepts,     \* the pairs <<decl, hw>> a backend's match() accepts
  MaxFd,       \* descriptors are 1..MaxFd (bound of the instance)
  MaxQueue,    \* bound on undelivered udev messages (bound of the instance)
  HasOutputs,  \* whether the script declares uinput outputs
  SelfClose,   \* whether an on_event callback may close its own device
  NoDecl, NoNode, NoHw

Backends == {"evdev", "hidraw"}
Fds      == 1..MaxFd
NoFd     == -1
MonRef   == <<"udev", 0>>                  \* the udev monitor's payload
DevRefs  == Backends \X Fds
Refs     == DevRefs \cup {MonRef}          \* <<dispatcher, fd>>, one EpollPayload

ASSUME DeclAssumption ==
  /\ Order \in [Decls -> Nat]
  /\ \A d, e \in Decls : Order[d] = Order[e] => d = e
  /\ DeclType \in [Decls -> Backends]
ASSUME NodeAssumption ==
  /\ NodeType \in [Nodes -> Backends]
  /\ HwType \in [Hw -> Backends]
  /\ Accepts \subseteq Decls \X Hw
ASSUME BoundAssumption ==
  /\ MaxFd \in Nat /\ MaxQueue \in Nat
  /\ HasOutputs \in BOOLEAN /\ SelfClose \in BOOLEAN
ASSUME NullAssumption ==
  /\ NoDecl \notin Decls
  /\ NoNode \notin Nodes
  /\ NoHw \notin Hw

(****************************************************************************)
(* State.  `stale` is a history variable: the payloads whose device was     *)
(* released after the last epoll_wait.  Everything else is the kernel's or  *)
(* the program's own state.                                                 *)
(****************************************************************************)
VARIABLES
  plugged,    \* node -> hardware behind it
  udevq,      \* messages waiting in the udev monitor socket
  openNode,   \* fd -> node it was opened on, NoNode when the fd is free
  gone,       \* fds whose hardware was unplugged after open
  readable,   \* fds with input waiting
  interest,   \* the epoll interest list, as refs
  pollfds,    \* DispatcherBase::pollfds_: "none", "live" or "dead"
  devices,    \* DispatcherEvdev/DispatcherHidraw::devices_
  input_map,  \* AelkeyState::input_map: id -> fd, NoFd when not in the map
  frames,     \* ids with an entry in AelkeyState::frames
  devnode,    \* InputDecl::devnode of the entries of input_decls
  parsed,     \* whether the declarations were parsed (outputs are then created)
  batch,      \* what epoll_wait returned and the loop has not reached yet
  stale,      \* history: refs released since the last epoll_wait
  script,     \* the Lua code that is running, or Idle
  resume,     \* the Lua code that waits for an open-all to finish, or Idle
  reading,    \* fd the evdev read loop is on, NoFd outside of it
  handling,   \* the udev message being handled, NoEvent outside
  todo,       \* declarations attach_inputs_from_decls has still to visit
  started     \* whether loop_start was called

kernelVars == <<plugged, udevq>>
fileVars   == <<openNode, gone, readable>>
regVars    == <<interest, pollfds, devices, input_map, frames>>
declVars   == <<devnode, parsed>>
loopVars   == <<batch, stale>>
ctlVars    == <<script, resume, reading, handling, todo, started>>
vars == <<kernelVars, fileVars, regVars, declVars, loopVars, ctlVars>>

Script(c, d) == [cb |-> c, dev |-> d]
Idle    == Script("none", NoDecl)
Callbacks == {"none", "main", "tick", "watch", "event", "add", "remove"}
Event(a, k, n) == [action |-> a, subsystem |-> k, node |-> n]
NoEvent == Event("none", "none", NoNode)
Events  == [action : {"add", "remove"}, subsystem : Backends, node : Nodes \cup {NoNode}]

TypeOK ==
  /\ plugged \in [Nodes -> Hw \cup {NoHw}]
  /\ udevq \in Seq(Events)
  /\ openNode \in [Fds -> Nodes \cup {NoNode}]
  /\ gone \subseteq Fds /\ readable \subseteq Fds
  /\ interest \subseteq Refs
  /\ pollfds \in [Refs -> {"none", "live", "dead"}]
  /\ devices \in [DevRefs -> Decls \cup {NoDecl}]
  /\ input_map \in [Decls -> Fds \cup {NoFd}]
  /\ frames \subseteq Decls
  /\ devnode \in [Decls -> Nodes \cup {NoNode}]
  /\ parsed \in BOOLEAN /\ started \in BOOLEAN
  /\ batch \in [Refs -> SUBSET {"IN", "HUP"}]
  /\ stale \subseteq DevRefs
  /\ script \in [cb : Callbacks, dev : Decls \cup {NoDecl}]
  /\ resume \in [cb : Callbacks, dev : Decls \cup {NoDecl}]
  /\ reading \in Fds \cup {NoFd}
  /\ handling \in Events \cup {NoEvent}
  /\ todo \subseteq Decls

(* Some hardware is there before the program is.  The monitor is created    *)
(* with its dispatcher, before the script's main chunk calls anything.      *)
Init ==
  /\ plugged \in [Nodes -> Hw \cup {NoHw}]
  /\ \A n \in Nodes : plugged[n] # NoHw =>
       /\ NodeType[n] = HwType[plugged[n]]
       /\ \A m \in Nodes \ {n} : plugged[m] # plugged[n]
  /\ udevq = <<>>
  /\ openNode = [f \in Fds |-> NoNode]
  /\ gone = {} /\ readable = {}
  /\ interest = {MonRef}
  /\ pollfds = [r \in Refs |-> IF r = MonRef THEN "live" ELSE "none"]
  /\ devices = [r \in DevRefs |-> NoDecl]
  /\ input_map = [d \in Decls |-> NoFd]
  /\ frames = {}
  /\ devnode = [d \in Decls |-> NoNode]
  /\ parsed = FALSE /\ started = FALSE
  /\ batch = [r \in Refs |-> {}]
  /\ stale = {}
  /\ script = Script("main", NoDecl) /\ resume = Idle
  /\ reading = NoFd
  /\ handling = NoEvent
  /\ todo = {}

-----------------------------------------------------------------------------
(****************************************************************************)
(* Helpers.                                                                 *)
(****************************************************************************)
Attached(d) == input_map[d] # NoFd
Ref(d)      == <<DeclType[d], input_map[d]>>

(* The first of a set of declarations, in the order of input_decls. *)
IsFirst(d, S) == d \in S /\ \A e \in S : Order[d] <= Order[e]

(* Nodes match() may return for d: it takes the first one that enumeration *)
(* yields, and enumeration order is the kernel's. *)
MatchNodes(d) ==
  {n \in Nodes : NodeType[n] = DeclType[d] /\ <<d, plugged[n]>> \in Accepts}

Matches(m) ==
  /\ m \in [Decls -> Nodes \cup {NoNode}]
  /\ \A d \in Decls : IF MatchNodes(d) = {} THEN m[d] = NoNode ELSE m[d] \in MatchNodes(d)

(* POSIX: open() returns the lowest free descriptor. *)
LowestFree(f) ==
  /\ f \in Fds /\ openNode[f] = NoNode
  /\ \A g \in Fds : openNode[g] = NoNode => f <= g

(* Mutant: the entry is assigned, so that a dead payload comes to life. *)
RegisterAssigns(r) ==
  /\ pollfds' = [pollfds EXCEPT ![r] = "live"]
  /\ interest' = interest \cup {r}

(* Mutant: a descriptor that has an entry is not given to epoll again. *)
RegisterOnce(r) ==
  /\ pollfds' = [pollfds EXCEPT ![r] = IF @ = "none" THEN "live" ELSE @]
  /\ interest' = IF pollfds[r] = "none" THEN interest \cup {r} ELSE interest

(* DispatcherBase::register_fd: emplace leaves an existing payload, dead or *)
(* not, as it is, and epoll gets the address of whatever entry is there. *)
register_fd(r) ==
  /\ pollfds' = [pollfds EXCEPT ![r] = IF @ = "none" THEN "live" ELSE @]
  /\ interest' = interest \cup {r}

(* DispatcherBase::unregister_fd, for each of a set of refs. *)
unregister_fd(C) ==
  /\ pollfds' = [r \in Refs |-> IF r \in C /\ pollfds[r] = "live" THEN "dead" ELSE pollfds[r]]
  /\ interest' = interest \ C

(* A dispatcher opens node n for d and gets descriptor f; only evdev has    *)
(* frame buffers. *)
open_device(d, n, f) ==
  LET r == <<DeclType[d], f>> IN
  /\ openNode' = [openNode EXCEPT ![f] = n]
  /\ gone' = gone \ {f}
  /\ readable' = readable \ {f}
  /\ register_fd(r)
  /\ devices' = [devices EXCEPT ![r] = d]
  /\ frames' = IF DeclType[d] = "evdev" THEN frames \cup {d} ELSE frames

(* DeviceManager::attach when the backend's open succeeds. *)
Attach(d, n) ==
  /\ ~Attached(d)
  /\ \E f \in Fds :
       /\ LowestFree(f)
       /\ open_device(d, n, f)
       /\ input_map' = [input_map EXCEPT ![d] = f]

(* The payloads a backend's detach releases: evdev goes by the fd of the *)
(* input_map entry, hidraw searches devices_ for the id. *)
Released(d) ==
  IF DeclType[d] = "evdev"
  THEN {Ref(d)}
  ELSE {r \in DevRefs : r[1] = "hidraw" /\ devices[r] = d}

(* Mutant: every backend closes the descriptor. *)
ClosesAll(C) == {f \in Fds : \E k \in Backends : <<k, f>> \in C}

(* The descriptors that are closed with the payloads C: evdev's are, hidraw *)
(* leaves it to on_unregister, which only flush_deferred calls, and the     *)
(* loop never calls that. *)
Closed(C) == {f \in Fds : <<"evdev", f>> \in C}

(* DeviceManager::detach of an attached device, all but the frame buffer. *)
Detach(d) ==
  LET C == Released(d)
      closed == Closed(C)
  IN
  /\ Attached(d)
  /\ unregister_fd(C)
  /\ devices' = [r \in DevRefs |-> IF r \in C THEN NoDecl ELSE devices[r]]
  /\ openNode' = [f \in Fds |-> IF f \in closed THEN NoNode ELSE openNode[f]]
  /\ gone' = gone \ closed
  /\ readable' = readable \ closed
  /\ input_map' = [input_map EXCEPT ![d] = NoFd]
  /\ stale' = stale \cup C

(* Everything attach and detach may change, left as it is. *)
NoDeviceChange == UNCHANGED <<fileVars, regVars>>

(* A handler may run: the loop is in its for loop or about to wait. *)
LoopRuns ==
  /\ started
  /\ script = Idle /\ resume = Idle
  /\ reading = NoFd /\ handling = NoEvent /\ todo = {}

-----------------------------------------------------------------------------
(****************************************************************************)
(* The kernel: hot-plug, input, and udev messages about device-less parents.*)
(****************************************************************************)
Plug(n, h) ==
  /\ plugged[n] = NoHw /\ NodeType[n] = HwType[h]
  /\ \A m \in Nodes : plugged[m] # h
  /\ Len(udevq) < MaxQueue
  /\ plugged' = [plugged EXCEPT ![n] = h]
  /\ udevq' = Append(udevq, Event("add", NodeType[n], n))
  /\ UNCHANGED <<fileVars, regVars, declVars, loopVars, ctlVars>>

Unplug(n) ==
  /\ plugged[n] # NoHw
  /\ Len(udevq) < MaxQueue
  /\ plugged' = [plugged EXCEPT ![n] = NoHw]
  /\ gone' = gone \cup {f \in Fds : openNode[f] = n}
  /\ udevq' = Append(udevq, Event("remove", NodeType[n], n))
  /\ UNCHANGED <<openNode, readable, regVars, declVars, loopVars, ctlVars>>

(* The parent of an event node (inputN) has no node of its own. *)
ParentEvent(a) ==
  /\ Len(udevq) < MaxQueue
  /\ udevq' = Append(udevq, Event(a, "evdev", NoNode))
  /\ UNCHANGED <<plugged, fileVars, regVars, declVars, loopVars, ctlVars>>

Input(n) ==
  /\ plugged[n] # NoHw
  /\ readable' = readable \cup {f \in Fds : openNode[f] = n /\ f \notin gone}
  /\ readable' # readable
  /\ UNCHANGED <<kernelVars, openNode, gone, regVars, declVars, loopVars, ctlVars>>

-----------------------------------------------------------------------------
(****************************************************************************)
(* The script: what Lua code may call while it runs.                        *)
(****************************************************************************)
(* open_device(id).  It fails when the device is attached already, when     *)
(* nothing matches, or when open() does. *)
ApiOpen(d) ==
  /\ script # Idle
  /\ parsed' = TRUE
  /\ \/ \E n \in MatchNodes(d) :
          /\ Attach(d, n)
          /\ devnode' = [devnode EXCEPT ![d] = n]
          /\ script' = Script("add", d)
     \/ NoDeviceChange /\ UNCHANGED <<devnode, script>>
  /\ UNCHANGED <<kernelVars, loopVars, resume, reading, handling, todo, started>>

(* Mutant: only when everything is open is there nothing to do. *)
SkipsWhenFull == \A d \in Decls : Attached(d)

(* open_device() without an argument: a call on behalf of c that finds     *)
(* anything open returns at once, otherwise declarations are parsed again. *)
OpenAllSkips == (\E d \in Decls : Attached(d)) \/ (parsed /\ HasOutputs)

OpenAll(c) ==
  /\ ~OpenAllSkips
  /\ devnode' = [d \in Decls |-> NoNode]
  /\ parsed' = TRUE
  /\ todo' = Decls
  /\ script' = Idle
  /\ resume' = c

(* Not from within an open-all: the vector would be cleared under its loop. *)
ApiOpenAll ==
  /\ script # Idle /\ todo = {}
  /\ OpenAll(script)
  /\ UNCHANGED <<kernelVars, fileVars, regVars, loopVars, reading, handling, started>>

(* close_device(id). *)
ApiClose(d) ==
  /\ script # Idle
  /\ SelfClose \/ reading = NoFd \/ input_map[d] # reading
  /\ Detach(d)
  /\ frames' = frames \ {d}
  /\ UNCHANGED <<kernelVars, declVars, batch, ctlVars>>

(* What runs when a callback or an open-all is over. *)
Caller ==
  IF resume # Idle THEN resume
  ELSE IF started THEN Idle ELSE Script("main", NoDecl)

(* The callback returns.  A callback a script's own open_device made is not *)
(* kept apart from that script: neither has anything left to do. *)
Return ==
  /\ script # Idle /\ script.cb # "main"
  /\ IF todo = {} THEN script' = Caller /\ resume' = Idle
                  ELSE script' = Idle /\ UNCHANGED resume
  /\ UNCHANGED <<kernelVars, fileVars, regVars, declVars, loopVars, reading, handling, todo, started>>

(* One turn of the loop in attach_inputs_from_decls. *)
AttachNext ==
  \E d \in Decls :
    /\ script = Idle /\ IsFirst(d, todo)
    /\ todo' = todo \ {d}
    /\ \/ /\ \E n \in MatchNodes(d) : Attach(d, n) /\ devnode' = [devnode EXCEPT ![d] = n]
          /\ script' = Script("add", d)
          /\ UNCHANGED resume
       \/ /\ NoDeviceChange /\ UNCHANGED devnode
          /\ IF todo' = {} THEN script' = Caller /\ resume' = Idle
                           ELSE UNCHANGED <<script, resume>>
    /\ UNCHANGED <<kernelVars, parsed, loopVars, reading, handling, started>>

(* start(): the main chunk ends in loop_start, which opens everything. *)
StartLoop ==
  /\ script = Script("main", NoDecl) /\ ~started
  /\ started' = TRUE
  /\ \/ OpenAll(Idle)
     \/ OpenAllSkips /\ script' = Idle /\ UNCHANGED <<declVars, resume, todo>>
  /\ UNCHANGED <<kernelVars, fileVars, regVars, loopVars, reading, handling>>

-----------------------------------------------------------------------------
(****************************************************************************)
(* The epoll loop and the dispatchers' handle_event.                        *)
(****************************************************************************)
(* What epoll_wait reports of a descriptor; "HUP" stands for HUP or ERR. *)
Mask(r) ==
  IF r = MonRef
  THEN IF udevq = <<>> THEN {} ELSE {"IN"}
  ELSE {e \in {"IN", "HUP"} : IF e = "IN" THEN r[2] \in readable ELSE r[2] \in gone}

(* Level-triggered: every registered descriptor that is ready is reported. *)
EpollWait ==
  /\ LoopRuns
  /\ \A r \in Refs : batch[r] = {}
  /\ batch' = [r \in Refs |-> IF r \in interest THEN Mask(r) ELSE {}]
  /\ stale' = {}
  /\ \E r \in Refs : batch'[r] # {}
  /\ UNCHANGED <<kernelVars, fileVars, regVars, declVars, ctlVars>>

(* The loop comes to event r of the batch. *)
Next1(r) == LoopRuns /\ batch[r] # {} /\ batch' = [batch EXCEPT ![r] = {}]

(* if (payload->dead) continue *)
SkipDead(r) ==
  /\ Next1(r) /\ pollfds[r] = "dead"
  /\ UNCHANGED <<kernelVars, fileVars, regVars, declVars, stale, ctlVars>>

(* DispatcherEvdev::handle_event on HUP or ERR.  frames.erase() is given the *)
(* id by a reference into the erased map entry, so it may miss the frame.   *)
EvdevHangup(f) ==
  LET r == <<"evdev", f>>
      d == devices[r]
  IN
  /\ Next1(r) /\ pollfds[r] = "live"
  /\ d # NoDecl /\ Attached(d) /\ "HUP" \in batch[r]
  /\ Detach(d)
  /\ frames' = frames \ {d} \/ UNCHANGED frames
  /\ script' = Script("remove", d)
  /\ UNCHANGED <<kernelVars, declVars, resume, reading, handling, todo, started>>

(* DispatcherEvdev::handle_event on input: the read loop is entered. *)
EvdevInput(f) ==
  LET r == <<"evdev", f>>
      d == devices[r]
  IN
  /\ Next1(r) /\ pollfds[r] = "live"
  /\ d # NoDecl /\ Attached(d) /\ "HUP" \notin batch[r]
  /\ reading' = IF d \in frames THEN input_map[d] ELSE NoFd
  /\ UNCHANGED <<kernelVars, fileVars, regVars, declVars, stale, script, resume, handling, todo, started>>

(* One turn of dispatch_evdev_logic's loop: a frame is read and handed to   *)
(* on_event, or there is nothing more to read. *)
EvdevRead ==
  /\ reading # NoFd /\ script = Idle /\ todo = {}
  /\ IF reading \in readable
     THEN /\ readable' = readable \ {reading}
          /\ script' = Script("event", NoDecl)
          /\ UNCHANGED reading
     ELSE reading' = NoFd /\ UNCHANGED <<readable, script>>
  /\ UNCHANGED <<kernelVars, openNode, gone, regVars, declVars, loopVars, resume, handling, todo, started>>

(* DispatcherHidraw::handle_event: one read, one on_event call. *)
HidrawInput(f) ==
  LET r == <<"hidraw", f>> IN
  /\ Next1(r) /\ pollfds[r] = "live"
  /\ devices[r] # NoDecl /\ "IN" \in batch[r]
  /\ \E more \in BOOLEAN :             \* reports are queued, a read takes one
       readable' = IF more THEN readable ELSE readable \ {f}
  /\ script' = Script("event", NoDecl)
  /\ UNCHANGED <<kernelVars, openNode, gone, regVars, declVars, stale, resume, reading, handling, todo, started>>

(* A live payload whose handler returns without doing anything: no device   *)
(* under that descriptor, or a hidraw event other than input. *)
HandlerReturns(r) ==
  /\ Next1(r) /\ r \in DevRefs /\ pollfds[r] = "live"
  /\ \/ devices[r] = NoDecl
     \/ r[1] = "evdev" /\ ~Attached(devices[r])
     \/ r[1] = "hidraw" /\ "IN" \notin batch[r]
  /\ UNCHANGED <<kernelVars, fileVars, regVars, declVars, stale, ctlVars>>

(* Mutant: the socket is drained, the first message is handled. *)
UdevDrain ==
  /\ Next1(MonRef)
  /\ udevq # <<>>
  /\ udevq' = <<>>
  /\ handling' = Head(udevq)
  /\ script' \in {Idle, Script("watch", NoDecl)}
  /\ UNCHANGED <<plugged, fileVars, regVars, declVars, stale, resume, reading, todo, started>>

(* DispatcherUdev::handle_event takes one message; entries of the watchlist *)
(* it concerns have the script called before anything else. *)
UdevReceive ==
  /\ Next1(MonRef)
  /\ udevq # <<>>
  /\ udevq' = Tail(udevq)
  /\ handling' = Head(udevq)
  /\ script' \in {Idle, Script("watch", NoDecl)}
  /\ UNCHANGED <<plugged, fileVars, regVars, declVars, stale, resume, reading, todo, started>>

(* handle_udev_add: the first declaration that matches this very node. *)
UdevAdd ==
  LET n == handling.node
      S(m) == {d \in Decls : DeclType[d] = handling.subsystem /\ m[d] = n}
  IN
  /\ handling.action = "add" /\ script = Idle /\ todo = {}
  /\ \E m \in [Decls -> Nodes \cup {NoNode}] :
       /\ Matches(m)
       /\ \/ \E d \in Decls :
               /\ n # NoNode /\ IsFirst(d, S(m))
               /\ Attach(d, n)
               /\ devnode' = [devnode EXCEPT ![d] = n]
               /\ script' = Script("add", d)
          \/ NoDeviceChange /\ UNCHANGED <<devnode, script>>
  /\ handling' = NoEvent
  /\ UNCHANGED <<kernelVars, parsed, loopVars, resume, reading, todo, started>>

(* Mutant: the removal is notified whether or not the device was attached. *)
UdevRemoveUnchecked ==
  LET S == {d \in Decls : DeclType[d] = handling.subsystem /\ devnode[d] = handling.node} IN
  /\ handling.action = "remove" /\ script = Idle /\ todo = {}
  /\ \E d \in Decls :
       /\ IsFirst(d, S)
       /\ \/ Detach(d) /\ frames' = frames \ {d}
          \/ ~Attached(d) /\ NoDeviceChange /\ UNCHANGED stale
       /\ script' = Script("remove", d)
  /\ handling' = NoEvent
  /\ UNCHANGED <<kernelVars, declVars, batch, resume, reading, todo, started>>

(* handle_udev_remove: the first declaration whose devnode is this node. *)
UdevRemove ==
  LET S == {d \in Decls : DeclType[d] = handling.subsystem /\ devnode[d] = handling.node} IN
  /\ handling.action = "remove" /\ script = Idle /\ todo = {}
  /\ \/ \E d \in Decls :
          /\ IsFirst(d, S)
          /\ Detach(d)
          /\ frames' = frames \ {d}
          /\ script' = Script("remove", d)
     \/ /\ \A d \in Decls : IsFirst(d, S) => ~Attached(d)
        /\ NoDeviceChange /\ UNCHANGED <<stale, script>>
  /\ handling' = NoEvent
  /\ UNCHANGED <<kernelVars, declVars, batch, resume, reading, todo, started>>

(* A timer fires between two events of a batch: its callback is the script. *)
Tick ==
  /\ LoopRuns
  /\ script' = Script("tick", NoDecl)
  /\ UNCHANGED <<kernelVars, fileVars, regVars, declVars, loopVars, resume, reading, handling, todo, started>>

-----------------------------------------------------------------------------
Kernel ==
  \/ \E n \in Nodes, h \in Hw : Plug(n, h)
  \/ \E n \in Nodes : Unplug(n) \/ Input(n)
  \/ \E a \in {"add", "remove"} : ParentEvent(a)
Lua ==
  \/ \E d \in Decls : ApiOpen(d) \/ ApiClose(d)
  \/ ApiOpenAll \/ Return \/ AttachNext \/ StartLoop
Loop ==
  \/ EpollWait \/ UdevReceive \/ UdevAdd \/ UdevRemove \/ EvdevRead \/ Tick
  \/ \E r \in Refs : SkipDead(r) \/ HandlerReturns(r)
  \/ \E f \in Fds : EvdevHangup(f) \/ EvdevInput(f) \/ HidrawInput(f)
Next == Kernel \/ Lua \/ Loop

Spec == Init /\ [][Next]_vars

-----------------------------------------------------------------------------
(****************************************************************************)
(* Properties.                                                              *)
(****************************************************************************)
(* The registries agree: what input_map says of a declaration, its          *)
(* dispatcher says of the descriptor and the other way round, no two        *)
(* declarations share a descriptor, and an attached device is open,         *)
(* registered with epoll through an existing payload, and has its frame     *)
(* buffer if it is an evdev one (dispatch_evdev_logic returns without it).  *)
RegistryAgreement ==
  /\ \A d \in Decls : Attached(d) =>
       /\ devices[Ref(d)] = d
       /\ Ref(d) \in interest /\ pollfds[Ref(d)] # "none"
       /\ DeclType[d] = "evdev" => d \in frames
  /\ \A r \in DevRefs : devices[r] # NoDecl =>
       Attached(devices[r]) /\ Ref(devices[r]) = r
  /\ \A d, e \in Decls :
       Attached(d) /\ input_map[d] = input_map[e] => d = e

(* The devnode recorded in input_decls, which is all that a udev "remove"   *)
(* is compared with, is the node the attached descriptor was opened on: a   *)
(* re-parse by open_device() or a hot-plug on another node never leaves an  *)
(* attached device under a node it is not on.                               *)
DevnodeAgrees ==
  \A d \in Decls : Attached(d) =>
    /\ devnode[d] # NoNode
    /\ openNode[input_map[d]] = devnode[d]

(* An event epoll reported for a device that was released later in the same *)
(* batch never reaches a handler, even when the descriptor number, and so   *)
(* the payload, was given to another device meanwhile: the loop finds the   *)
(* payload dead.                                                            *)
NoStaleDelivery ==
  \A r \in stale : batch[r] # {} => pollfds[r] = "dead"

(* The node a declaration's descriptor is open on, and the nodes of its type. *)
NodeBehind == [d \in Decls |-> IF Attached(d) THEN openNode[input_map[d]] ELSE NoNode]
SameType   == {p \in Decls \X Nodes : NodeType[p[2]] = DeclType[p[1]]}

(* The program keeps the promises of Attachments: no reuse of a descriptor, *)
(* re-parse or open-all moves an attached device to another node, and       *)
(* on_state hears "add" in the step that attaches a device and "remove" in  *)
(* the step that detaches it, once, whichever of the hang-up, the udev      *)
(* message and the script comes first.                                      *)
Api == INSTANCE Attachments
         WITH on <- NodeBehind, running <- script, waiting <- resume, Fits <- SameType
ImplementsAttachments == Api!Spec

(* An attached hidraw device is heard: its payload is live, so the loop     *)
(* hands its events to the dispatcher.  It holds because the descriptor of  *)
(* a released hidraw device is never closed, hence never reused.            *)
HidrawIsHeard ==
  \A d \in Decls : Attached(d) /\ DeclType[d] = "hidraw" => pollfds[Ref(d)] = "live"

(* A device whose hardware is gone is about to be noticed: as long as it is *)
(* attached, a udev "remove" for its node is queued or being handled.       *)
GoneIsNoticed ==
  \A d \in Decls : Attached(d) /\ input_map[d] \in gone =>
    \E e \in {handling} \cup {udevq[i] : i \in 1..Len(udevq)} :
      e.action = "remove" /\ e.subsystem = DeclType[d] /\ e.node = devnode[d]

(* docs/aelkey-reference.md: on_event receives the event frames of a device *)
(* that is attached; an evdev device behind a dead payload has none.        *)
AttachedIsHeard ==
  \A d \in Decls : Attached(d) => pollfds[Ref(d)] = "live"
=============================================================================
