------------------------------ MODULE EventLoop ------------------------------
(****************************************************************************)
(* loop_start and loop_stop of aelkey: how the blocking epoll loop starts,  *)
(* is stopped by the script or by a signal, tears everything down and gives *)
(* the thread back to the script, which may start it again.                 *)
(*                                                                          *)
(* Devices are opaque here: attached or not, registered with epoll or not.  *)
(* Module DeviceLifecycle has what happens to one of them.                  *)
(****************************************************************************)
EXTENDS Naturals, FiniteSets

CONSTANTS
  Devices,      \* ids of the input declarations
  HasOutputs    \* whether the script declares uinput outputs

ASSUME LoopAssumption == HasOutputs \in BOOLEAN

VARIABLES
  pc,                \* where the thread is, see PCs
  loop_should_stop,  \* AelkeyState::loop_should_stop
  sigint,            \* a signal was caught (AelkeyState::sigint # 0)
  handlers,          \* the signal handlers are installed
  epfd,              \* AelkeyState::epfd is a valid descriptor
  input_map,         \* devices attached
  uinput_devices,    \* whether output devices exist
  registered,        \* attached devices epoll watches
  ready,             \* devices with input waiting
  batch,             \* events of the current batch not handled yet
  ids                \* what the cleanup has still to detach

vars == <<pc, loop_should_stop, sigint, handlers, epfd, input_map,
          uinput_devices, registered, ready, batch, ids>>

(* "script" is Lua code outside of start(); "check" the while condition;    *)
(* "call" between it and the blocking in epoll_wait; "wait" blocked there;  *)
(* "handle" the for loop; then the cleanup.  "killed" ends the process by   *)
(* the signal raised again, "exit" by the end of the script. *)
PCs == {"script", "check", "call", "wait", "handle", "detach", "destroy",
        "teardown", "raise", "killed", "exit"}

TypeOK ==
  /\ pc \in PCs
  /\ loop_should_stop \in BOOLEAN /\ sigint \in BOOLEAN
  /\ handlers \in BOOLEAN /\ epfd \in BOOLEAN
  /\ uinput_devices \in BOOLEAN
  /\ input_map \subseteq Devices /\ registered \subseteq Devices
  /\ ready \subseteq Devices
  /\ batch \subseteq Devices /\ ids \subseteq Devices

(* AelkeyState::on_init created the epoll descriptor with the singleton. *)
Init ==
  /\ pc = "script"
  /\ loop_should_stop = FALSE /\ sigint = FALSE /\ handlers = FALSE
  /\ epfd = TRUE
  /\ input_map = {} /\ uinput_devices = FALSE
  /\ registered = {} /\ ready = {} /\ batch = {} /\ ids = {}

-----------------------------------------------------------------------------
(****************************************************************************)
(* What the script may call, in its main chunk and in callbacks.            *)
(****************************************************************************)
InLua == pc \in {"script", "handle"}

(* open_device(id): register_fd's epoll_ctl fails without a valid epfd, and *)
(* attach does not learn of it. *)
OpenDevice(d) ==
  /\ InLua /\ d \notin input_map
  /\ input_map' = input_map \cup {d}
  /\ registered' = IF epfd THEN registered \cup {d} ELSE registered
  /\ UNCHANGED <<pc, loop_should_stop, sigint, handlers, epfd, uinput_devices, ready, batch, ids>>

(* close_device(id): the payloads of a released device are dead, the loop   *)
(* passes over its events. *)
CloseDevice(d) ==
  /\ InLua /\ d \in input_map
  /\ input_map' = input_map \ {d}
  /\ registered' = registered \ {d}
  /\ ready' = ready \ {d} /\ batch' = batch \ {d}
  /\ UNCHANGED <<pc, loop_should_stop, sigint, handlers, epfd, uinput_devices, ids>>

(* stop() *)
LoopStop ==
  /\ InLua
  /\ loop_should_stop' = TRUE
  /\ UNCHANGED <<pc, sigint, handlers, epfd, input_map, uinput_devices, registered, ready, batch, ids>>

(* start(): handlers, then open_device() for every device that is there. *)
LoopStart ==
  /\ pc = "script"
  /\ handlers' = TRUE
  /\ IF input_map = {} /\ ~uinput_devices
     THEN /\ uinput_devices' = HasOutputs
          /\ \E S \in SUBSET Devices :
               /\ input_map' = S
               /\ registered' = IF epfd THEN S ELSE {}
     ELSE UNCHANGED <<input_map, uinput_devices, registered>>
  /\ pc' = "check"
  /\ UNCHANGED <<loop_should_stop, sigint, epfd, ready, batch, ids>>

(* The script runs off its end. *)
Exit ==
  /\ pc = "script"
  /\ pc' = "exit"
  /\ UNCHANGED <<loop_should_stop, sigint, handlers, epfd, input_map, uinput_devices, registered, ready, batch, ids>>

-----------------------------------------------------------------------------
(****************************************************************************)
(* The environment: input, and signals, which come between any two steps.   *)
(****************************************************************************)
(* Input stands for whatever wakes the loop: hot-plug and timers do as well. *)
Input(d) ==
  /\ d \in input_map \ ready
  /\ pc \notin {"killed", "exit"}
  /\ ready' = ready \cup {d}
  /\ UNCHANGED <<pc, loop_should_stop, sigint, handlers, epfd, input_map, uinput_devices, registered, batch, ids>>

(* handle_signal.  A blocked epoll_wait returns EINTR, with no events. *)
Signal ==
  /\ handlers /\ pc \notin {"killed", "exit"}
  /\ loop_should_stop' = TRUE /\ sigint' = TRUE
  /\ pc' = IF pc = "wait" THEN "handle" ELSE pc
  /\ UNCHANGED <<handlers, epfd, input_map, uinput_devices, registered, ready, batch, ids>>

-----------------------------------------------------------------------------
(****************************************************************************)
(* The loop.                                                                *)
(****************************************************************************)
(* while (!state.loop_should_stop) *)
Check ==
  /\ pc = "check"
  /\ pc' = IF loop_should_stop THEN "detach" ELSE "call"
  /\ ids' = IF loop_should_stop THEN input_map ELSE ids
  /\ UNCHANGED <<loop_should_stop, sigint, handlers, epfd, input_map, uinput_devices, registered, ready, batch>>

(* epoll_wait is entered; with an invalid epfd it returns at once. *)
EnterWait ==
  /\ pc = "call"
  /\ pc' = IF epfd THEN "wait" ELSE "handle"
  /\ UNCHANGED <<loop_should_stop, sigint, handlers, epfd, input_map, uinput_devices, registered, ready, batch, ids>>

(* epoll_wait returns the events that are there. *)
WakeUp ==
  /\ pc = "wait" /\ ready \cap registered # {}
  /\ batch' = ready \cap registered
  /\ pc' = "handle"
  /\ UNCHANGED <<loop_should_stop, sigint, handlers, epfd, input_map, uinput_devices, registered, ready, ids>>

(* handle_event of one device; its callbacks are the script's calls above. *)
Handle(d) ==
  /\ pc = "handle" /\ d \in batch
  /\ batch' = batch \ {d}
  /\ ready' = ready \ {d}
  /\ UNCHANGED <<pc, loop_should_stop, sigint, handlers, epfd, input_map, uinput_devices, registered, ids>>

(* Mutant: the loop condition is not looked at. *)
BatchDoneAgain ==
  /\ pc = "handle" /\ batch = {}
  /\ pc' = "call"
  /\ UNCHANGED <<loop_should_stop, sigint, handlers, epfd, input_map, uinput_devices, registered, ready, batch, ids>>

BatchDone ==
  /\ pc = "handle" /\ batch = {}
  /\ pc' = "check"
  /\ UNCHANGED <<loop_should_stop, sigint, handlers, epfd, input_map, uinput_devices, registered, ready, batch, ids>>

(* One turn of the loop over the ids the cleanup collected. *)
DetachNext(d) ==
  /\ pc = "detach" /\ d \in ids
  /\ ids' = ids \ {d}
  /\ input_map' = input_map \ {d}
  /\ registered' = registered \ {d} /\ ready' = ready \ {d}
  /\ UNCHANGED <<pc, loop_should_stop, sigint, handlers, epfd, uinput_devices, batch>>

(* Mutant: a signal cuts the cleanup short. *)
DetachDoneEarly ==
  /\ pc = "detach" /\ ids = {}
  /\ pc' = IF sigint THEN "raise" ELSE "destroy"
  /\ UNCHANGED <<loop_should_stop, sigint, handlers, epfd, input_map, uinput_devices, registered, ready, batch, ids>>

DetachDone ==
  /\ pc = "detach" /\ ids = {}
  /\ pc' = "destroy"
  /\ UNCHANGED <<loop_should_stop, sigint, handlers, epfd, input_map, uinput_devices, registered, ready, batch, ids>>

DestroyOutputs ==
  /\ pc = "destroy"
  /\ uinput_devices' = FALSE
  /\ pc' = "teardown"
  /\ UNCHANGED <<loop_should_stop, sigint, handlers, epfd, input_map, registered, ready, batch, ids>>

CloseEpoll ==
  /\ pc = "teardown"
  /\ epfd' = FALSE
  /\ registered' = {}
  /\ pc' = "raise"
  /\ UNCHANGED <<loop_should_stop, sigint, handlers, input_map, uinput_devices, ready, batch, ids>>

(* Mutant: start leaves loop_should_stop ready for the next start. *)
LoopReturnResets ==
  /\ pc = "raise"
  /\ IF sigint THEN pc' = "killed" /\ handlers' = FALSE
               ELSE pc' = "script" /\ UNCHANGED handlers
  /\ loop_should_stop' = FALSE
  /\ UNCHANGED <<sigint, epfd, input_map, uinput_devices, registered, ready, batch, ids>>

(* A caught signal is raised again with its default action; otherwise start *)
(* returns to the script, the handlers still installed. *)
LoopReturn ==
  /\ pc = "raise"
  /\ IF sigint THEN pc' = "killed" /\ handlers' = FALSE
               ELSE pc' = "script" /\ UNCHANGED handlers
 
  /\ UNCHANGED <<loop_should_stop, sigint, epfd, input_map, uinput_devices, registered, ready, batch, ids>>

-----------------------------------------------------------------------------
Lua == \/ \E d \in Devices : OpenDevice(d) \/ CloseDevice(d)
       \/ LoopStop \/ LoopStart \/ Exit
Loop == \/ Check \/ EnterWait \/ WakeUp \/ BatchDone
        \/ \E d \in Devices : Handle(d) \/ DetachNext(d)
        \/ DetachDone \/ DestroyOutputs \/ CloseEpoll \/ LoopReturn
Next == Lua \/ Loop \/ Signal \/ \E d \in Devices : Input(d)

Spec == Init /\ [][Next]_vars

(* The thread keeps running, and every callback returns to the loop. *)
FairSpec == Spec /\ WF_vars(Loop)

-----------------------------------------------------------------------------
(* The loop never comes back to epoll_wait once the descriptor is closed,   *)
(* where every call would fail at once and the loop would spin: nothing     *)
(* sets loop_should_stop to FALSE again after the cleanup.                  *)
NeverWaitsClosed == pc \in {"call", "wait", "handle"} => epfd

(* However the loop ends, when start returns or the process dies of the     *)
(* raised signal every device is detached and every virtual output is gone: *)
(* a signal that arrives in the middle of the cleanup does not cut it short. *)
CleanShutdown ==
  pc \in {"raise", "killed"} => input_map = {} /\ ~uinput_devices /\ ~epfd

(* stop() called from a callback ends the loop: start returns, or the       *)
(* process is killed by a signal that came as well.                         *)
StopEndsLoop == (pc = "handle" /\ loop_should_stop) ~> pc \in {"script", "killed"}

(* aelkey_loop.cc: SIGTERM is the "termination request (kill, systemd       *)
(* stop)": once it is caught while the loop runs, the process terminates.   *)
SignalTerminates == (sigint /\ pc \notin {"script", "exit"}) ~> pc = "killed"
=============================================================================
