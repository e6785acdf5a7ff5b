----------------------------- MODULE UsbTransfers -----------------------------
(****************************************************************************)
(* Asynchronous transfers of libusb devices: aelkey.usb.submit_transfer,    *)
(* the completion callback dispatch_libusb, the attach and detach of the    *)
(* device underneath, and the way libusb's descriptors reach the epoll set. *)
(*                                                                          *)
(* A transfer's user_data points to the device's entry in input_map and its *)
(* dev_handle to the open device; both are gone when the device is detached. *)
(* Each attach has a number here, so that a pointer into an earlier one is  *)
(* told from the current one.  libusb closes a handle by dropping what is   *)
(* in flight on it: those transfers get no callback.                        *)
(*                                                                          *)
(* The blocking transfers (bulk, control, interrupt) run libusb's event     *)
(* handling until their own is done, and with it the callbacks of others.   *)
(****************************************************************************)
EXTENDS Integers, FiniteSets

CONSTANTS
  Devices,     \* ids of libusb declarations
  NoDevice,
  Transfers,   \* transfers the script submits (bound of the instance)
  NoTransfer,
  MaxAttach,   \* attaches, over all devices (bound of the instance)
  Careful      \* the script keeps to what is said at MayUse and MayClose

Fds  == 1..Cardinality(Devices)
NoFd == -1

(* "completed" stands for OVERFLOW and TIMED_OUT too, "error" for STALL. *)
Outcomes == {"completed", "cancelled", "error", "no_device"}
States   == {"none",     \* not allocated yet
             "flying",   \* submitted: libusb owns it
             "called",   \* its callback runs, or the code after it
             "kept",     \* allocated, never to be submitted or freed again
             "dropped",  \* was in flight when its handle was closed
             "freed"}    \* destroy_transfer

ASSUME UsbAssumption ==
  /\ Devices # {} /\ IsFiniteSet(Devices) /\ NoTransfer \notin Transfers /\ NoDevice \notin Devices
  /\ MaxAttach \in Nat /\ Careful \in BOOLEAN

VARIABLES
  plugged,     \* devices that are there
  lost,        \* attached devices that were unplugged since they were opened
  attached,    \* device -> number of its attach, 0 when not in input_map
  attaches,    \* number of the last attach
  fd,          \* device -> usbfs descriptor of its handle
  hungup,      \* devices whose descriptor libusb gave up after a disconnect
  pollfds,     \* DispatcherLibUSB's payloads: "none", "live" or "dead"
  interest,    \* descriptors in the epoll set
  xfer,        \* transfer -> what the program did with it
  outcome,     \* transfer -> how it ended, "pending" while it has not
  handling,    \* libusb_handle_events is on the stack
  blocked,     \* the device a blocking transfer waits for, NoDevice for none
  answered,    \* that transfer has ended
  calling,     \* the transfer dispatch_libusb was called for
  status,      \* its status field, which a new submission leaves alone
  inLua,       \* a script is running
  touched      \* history: memory was used after it was freed

vars == <<plugged, lost, attached, attaches, fd, hungup, pollfds, interest, xfer, outcome,
          handling, blocked, answered, calling, status, inLua, touched>>
devVars == <<lost, attached, attaches, fd, hungup, pollfds, interest, answered>>

Transfer(s, d, a) == [st |-> s, dev |-> d, attach |-> a]

TypeOK ==
  /\ plugged \subseteq Devices /\ lost \subseteq Devices /\ hungup \subseteq Devices
  /\ attaches \in 0..MaxAttach
  /\ attached \in [Devices -> 0..attaches]
  /\ fd \in [Devices -> Fds \cup {NoFd}]
  /\ pollfds \in [Fds -> {"none", "live", "dead"}]
  /\ interest \subseteq Fds
  /\ xfer \in [Transfers -> [st : States, dev : Devices, attach : 0..attaches]]
  /\ outcome \in [Transfers -> Outcomes \cup {"pending"}]
  /\ blocked \in Devices \cup {NoDevice} /\ answered \in BOOLEAN
  /\ handling \in BOOLEAN /\ inLua \in BOOLEAN /\ touched \in BOOLEAN
  /\ calling \in Transfers \cup {NoTransfer}
  /\ status \in Outcomes

Init ==
  /\ plugged \in SUBSET Devices /\ lost = {}
  /\ attached = [d \in Devices |-> 0] /\ attaches = 0
  /\ fd = [d \in Devices |-> NoFd] /\ hungup = {}
  /\ pollfds = [f \in Fds |-> "none"] /\ interest = {}
  /\ xfer = [t \in Transfers |-> Transfer("none", CHOOSE d \in Devices : TRUE, 0)]
  /\ outcome = [t \in Transfers |-> "pending"]
  /\ blocked = NoDevice /\ answered = FALSE
  /\ handling = FALSE /\ calling = NoTransfer /\ status = "completed"
  /\ inLua = TRUE
  /\ touched = FALSE

-----------------------------------------------------------------------------
LowestFree(f) ==
  LET free == {g \in Fds : \A d \in Devices : fd[d] # g}
  IN  f \in free /\ \A g \in free : f <= g

Flying(d) == {t \in Transfers : xfer[t].st = "flying" /\ xfer[t].dev = d}
Ended     == {t \in Transfers : xfer[t].st = "flying" /\ outcome[t] # "pending"}

(* The handle and the declaration a transfer points to are the current ones. *)
Current(t) == attached[xfer[t].dev] # 0 /\ xfer[t].attach = attached[xfer[t].dev]

Mark(t, s) == [xfer EXCEPT ![t].st = s]

(* A careful script uses the table submit_transfer returned only while the  *)
(* transfer is in flight, so not in the callback that tells of its end ...  *)
MayUse(t) == xfer[t].st # "none" /\ (Careful => xfer[t].st = "flying")

(* ... and does not close a device in one of its transfers' callbacks. *)
MayClose(d) == Careful => \A t \in Transfers : xfer[t].dev = d => calling # t

(* on_add_fd: a payload that is there, dead or not, is taken for a          *)
(* registration. *)
on_add_fd(f) ==
  IF pollfds[f] = "none"
  THEN pollfds' = [pollfds EXCEPT ![f] = "live"] /\ interest' = interest \cup {f}
  ELSE UNCHANGED <<pollfds, interest>>

on_remove_fd(f) ==
  /\ pollfds' = [pollfds EXCEPT ![f] = IF @ = "live" THEN "dead" ELSE @]
  /\ interest' = interest \ {f}

(* What libusb_close does to the transfers of the handle, given what else   *)
(* the step makes of them. *)
Dropped(d, x) ==
  [t \in Transfers |-> IF t \in Flying(d) THEN [x[t] EXCEPT !.st = "dropped"] ELSE x[t]]

(* Mutant: what is in flight stays in libusb's hands. *)
DetachOnly(d, x) ==
  /\ attached' = [attached EXCEPT ![d] = 0]
  /\ fd' = [fd EXCEPT ![d] = NoFd]
  /\ lost' = lost \ {d} /\ hungup' = hungup \ {d}
  /\ IF d \in hungup THEN UNCHANGED <<pollfds, interest>> ELSE on_remove_fd(fd[d])
  /\ xfer' = x
  /\ answered' = (answered \/ d = blocked)
  /\ UNCHANGED attaches

(* DeviceManager::detach with the libusb backend's.  A blocking transfer on *)
(* the handle notices that it was closed, and ends. *)
Detach(d, x) ==
  /\ attached' = [attached EXCEPT ![d] = 0]
  /\ fd' = [fd EXCEPT ![d] = NoFd]
  /\ lost' = lost \ {d} /\ hungup' = hungup \ {d}
  /\ IF d \in hungup THEN UNCHANGED <<pollfds, interest>> ELSE on_remove_fd(fd[d])
  /\ xfer' = Dropped(d, x)
  /\ answered' = (answered \/ d = blocked)
  /\ UNCHANGED attaches

-----------------------------------------------------------------------------
(****************************************************************************)
(* The script's calls.                                                      *)
(****************************************************************************)
(* open_device(d): found by vendor and product, opened, claimed. *)
OpenDevice(d) ==
  /\ inLua /\ attached[d] = 0 /\ d \in plugged
  /\ attaches < MaxAttach
  /\ attaches' = attaches + 1
  /\ attached' = [attached EXCEPT ![d] = attaches + 1]
  /\ \E f \in Fds : LowestFree(f) /\ fd' = [fd EXCEPT ![d] = f] /\ on_add_fd(f)
  /\ UNCHANGED <<plugged, lost, hungup, answered, xfer, outcome, handling, blocked, calling,
                 status, inLua, touched>>

CloseDevice(d) ==
  /\ inLua /\ attached[d] # 0 /\ MayClose(d)
  /\ Detach(d, xfer)
  /\ UNCHANGED <<plugged, outcome, handling, blocked, calling, status, inLua, touched>>

(* submit_transfer: one that libusb refuses is destroyed before the script  *)
(* has seen it. *)
Submit(d, t) ==
  /\ inLua /\ attached[d] # 0 /\ xfer[t].st = "none"
  /\ d \notin lost
  /\ xfer' = [xfer EXCEPT ![t] = Transfer("flying", d, attached[d])]
  /\ UNCHANGED <<plugged, devVars, outcome, handling, blocked, calling, status, inLua, touched>>

(* t.cancel() of the table submit_transfer returned; the kernel ends the    *)
(* transfer unless it has ended already. *)
Cancel(t) ==
  /\ inLua /\ MayUse(t)
  /\ IF xfer[t].st = "flying" /\ xfer[t].dev \notin lost /\ outcome[t] = "pending"
     THEN outcome' = [outcome EXCEPT ![t] = "cancelled"] ELSE UNCHANGED outcome
  /\ touched' = (touched \/ xfer[t].st \notin {"flying", "called"} \/ ~Current(t))
  /\ UNCHANGED <<plugged, devVars, xfer, handling, blocked, calling, status, inLua>>

(* t.resubmit(); libusb refuses it while the transfer is in flight. *)
Resubmit(t) ==
  /\ inLua /\ MayUse(t)
  /\ IF xfer[t].st = "called" /\ Current(t) /\ xfer[t].dev \notin lost
     THEN xfer' = Mark(t, "flying") /\ outcome' = [outcome EXCEPT ![t] = "pending"]
     ELSE UNCHANGED <<xfer, outcome>>
  /\ touched' = (touched \/ xfer[t].st \notin {"flying", "called"} \/ ~Current(t))
  /\ UNCHANGED <<plugged, devVars, handling, blocked, calling, status, inLua>>

(* bulk_transfer, control_transfer or interrupt_transfer on d.  In libusb's *)
(* event handling, and for a device that is gone, they return at once.      *)
BlockingTransfer(d) ==
  /\ inLua /\ attached[d] # 0
  /\ ~handling /\ d \notin lost
  /\ inLua' = FALSE /\ handling' = TRUE
  /\ blocked' = d /\ answered' = FALSE
  /\ UNCHANGED <<plugged, lost, attached, attaches, fd, hungup, pollfds, interest, xfer, outcome,
                 calling, status, touched>>

Return ==
  /\ inLua
  /\ inLua' = FALSE
  /\ UNCHANGED <<plugged, devVars, xfer, outcome, handling, blocked, calling, status, touched>>

(* Another dispatcher's callback. *)
OtherCallback ==
  /\ ~inLua /\ ~handling
  /\ inLua' = TRUE
  /\ UNCHANGED <<plugged, devVars, xfer, outcome, handling, blocked, calling, status, touched>>

-----------------------------------------------------------------------------
(****************************************************************************)
(* The bus.                                                                 *)
(****************************************************************************)
(* A device that comes back is another one to libusb than the open handle's. *)
Plug(d) ==
  /\ d \notin plugged
  /\ plugged' = plugged \cup {d}
  /\ UNCHANGED <<devVars, xfer, outcome, handling, blocked, calling, status, inLua, touched>>

Unplug(d) ==
  /\ d \in plugged
  /\ plugged' = plugged \ {d}
  /\ lost' = IF attached[d] # 0 THEN lost \cup {d} ELSE lost
  /\ UNCHANGED <<attached, attaches, fd, hungup, pollfds, interest, answered, xfer, outcome,
                 handling, blocked, calling, status, inLua, touched>>

Complete(t) ==
  /\ xfer[t].st = "flying" /\ outcome[t] = "pending" /\ xfer[t].dev \notin lost
  /\ \E o \in {"completed", "error"} : outcome' = [outcome EXCEPT ![t] = o]
  /\ UNCHANGED <<plugged, devVars, xfer, handling, blocked, calling, status, inLua, touched>>

(* The device answers a blocking transfer, or its timeout ends it. *)
Answer ==
  /\ blocked # NoDevice /\ ~answered /\ blocked \notin lost
  /\ answered' = TRUE
  /\ UNCHANGED <<plugged, lost, attached, attaches, fd, hungup, pollfds, interest, xfer, outcome,
                 handling, blocked, calling, status, inLua, touched>>

-----------------------------------------------------------------------------
(****************************************************************************)
(* DispatcherLibUSB::handle_event: libusb_handle_events, with its callbacks. *)
(****************************************************************************)
Ready(d) == fd[d] # NoFd /\ (d \in lost \ hungup \/ Ended \cap Flying(d) # {})

(* epoll reports a descriptor it was given; libusb then looks at all of its *)
(* own, those epoll does not watch included. *)
HandleEvent ==
  /\ ~inLua /\ ~handling
  /\ \E d \in Devices : Ready(d) /\ fd[d] \in interest /\ pollfds[fd[d]] = "live"
  /\ handling' = TRUE
  /\ UNCHANGED <<plugged, devVars, xfer, outcome, blocked, calling, status, inLua, touched>>

(* libusb finds a device gone: it takes its descriptor out and ends what is *)
(* in flight. *)
Disconnect(d) ==
  /\ handling /\ calling = NoTransfer /\ ~inLua
  /\ d \in lost \ hungup
  /\ hungup' = hungup \cup {d}
  /\ on_remove_fd(fd[d])
  /\ outcome' = [t \in Transfers |->
       IF t \in Flying(d) /\ outcome[t] = "pending" THEN "no_device" ELSE outcome[t]]
  /\ answered' = (answered \/ d = blocked)
  /\ UNCHANGED <<plugged, lost, attached, attaches, fd, xfer, handling, blocked, calling, status,
                 inLua, touched>>

(* dispatch_libusb is called and calls on_event. *)
Callback(t) ==
  /\ handling /\ calling = NoTransfer /\ ~inLua
  /\ t \in Ended
  /\ calling' = t /\ status' = outcome[t]
  /\ xfer' = Mark(t, "called")
  /\ inLua' = TRUE
  /\ touched' = (touched \/ ~Current(t))
  /\ UNCHANGED <<plugged, devVars, outcome, handling, blocked>>

(* dispatch_libusb after the callback, for each status.  libusb refuses to  *)
(* submit what is in flight already, or when the device is gone.            *)
AfterCompleted(t) ==
  /\ status = "completed"
  /\ IF xfer[t].st = "called" /\ Current(t) /\ xfer[t].dev \notin lost
     THEN xfer' = Mark(t, "flying") /\ outcome' = [outcome EXCEPT ![t] = "pending"]
     ELSE xfer' = Mark(t, "freed") /\ UNCHANGED outcome
  /\ touched' = (touched \/ ~Current(t) \/ xfer[t].st = "flying")
  /\ UNCHANGED <<devVars, inLua>>

(* Mutant: treated like any other error. *)
AfterNoDeviceFrees(t) ==
  /\ status = "no_device"
  /\ xfer' = Mark(t, "freed")
  /\ touched' = (touched \/ ~Current(t))
  /\ UNCHANGED <<devVars, outcome, inLua>>

(* The device is detached and on_state hears of it; when it is detached     *)
(* already, the empty result of detach is dereferenced.  The transfer is    *)
(* not destroyed. *)
AfterNoDevice(t) ==
  LET d == xfer[t].dev IN
  /\ status = "no_device"
  /\ IF Current(t)
     THEN Detach(d, Mark(t, "kept")) /\ inLua' = TRUE /\ UNCHANGED touched
     ELSE touched' = TRUE /\ UNCHANGED <<devVars, xfer, inLua>>
  /\ UNCHANGED outcome

(* Mutant: the transfer is left alone. *)
AfterErrorKeeps(t) ==
  /\ status \in {"cancelled", "error"}
  /\ xfer' = Mark(t, "kept")
  /\ UNCHANGED <<devVars, outcome, inLua, touched>>

(* The descriptor libusb has of an open device can always be read, so the   *)
(* device is taken to be there, and the transfer destroyed. *)
AfterError(t) ==
  /\ status \in {"cancelled", "error"}
  /\ IF Current(t)
     THEN xfer' = Mark(t, "freed") /\ touched' = (touched \/ xfer[t].st = "flying")
     ELSE touched' = TRUE /\ UNCHANGED xfer
  /\ UNCHANGED <<devVars, outcome, inLua>>

AfterCallback(t) ==
  /\ calling = t /\ ~inLua
  /\ AfterCompleted(t) \/ AfterNoDevice(t) \/ AfterError(t)
  /\ calling' = NoTransfer
  /\ UNCHANGED <<plugged, handling, blocked, status>>

(* All transfers of a device found gone are finished in the same call; what *)
(* else became ready after libusb looked waits for the next event. *)
HandleDone ==
  /\ handling /\ blocked = NoDevice /\ calling = NoTransfer /\ ~inLua
  /\ \A t \in Ended : xfer[t].dev \notin hungup
  /\ handling' = FALSE
  /\ UNCHANGED <<plugged, devVars, xfer, outcome, blocked, calling, status, inLua, touched>>

(* A blocking transfer that has ended goes back to the script. *)
BlockingDone ==
  /\ handling /\ blocked # NoDevice /\ answered /\ calling = NoTransfer /\ ~inLua
  /\ \A t \in Ended : xfer[t].dev \notin hungup
  /\ handling' = FALSE /\ inLua' = TRUE /\ blocked' = NoDevice /\ answered' = FALSE
  /\ UNCHANGED <<plugged, lost, attached, attaches, fd, hungup, pollfds, interest, xfer, outcome,
                 calling, status, touched>>

-----------------------------------------------------------------------------
Lua == \/ \E d \in Devices : OpenDevice(d) \/ CloseDevice(d) \/ BlockingTransfer(d)
       \/ \E d \in Devices, t \in Transfers : Submit(d, t)
       \/ \E t \in Transfers : Cancel(t) \/ Resubmit(t)
       \/ Return \/ OtherCallback
Bus == \/ \E d \in Devices : Plug(d) \/ Unplug(d)
       \/ \E t \in Transfers : Complete(t)
       \/ Answer
Loop == \/ HandleEvent \/ HandleDone \/ BlockingDone
        \/ \E d \in Devices : Disconnect(d)
        \/ \E t \in Transfers : Callback(t) \/ AfterCallback(t)
Next == Lua \/ Bus \/ Loop

Spec == Init /\ [][Next]_vars

(* Callbacks return, devices answer blocking transfers, the loop calls      *)
(* handle_event for what epoll reports, with other callbacks in between     *)
(* (hence SF), and a call handles each descriptor that was ready when it    *)
(* began. *)
FairSpec ==
  /\ Spec
  /\ WF_vars(Return) /\ SF_vars(HandleEvent) /\ WF_vars(HandleDone)
  /\ WF_vars(Answer) /\ WF_vars(BlockingDone)
  /\ \A d \in Devices : SF_vars(Disconnect(d))
  /\ \A t \in Transfers : SF_vars(Callback(t)) /\ WF_vars(AfterCallback(t))

-----------------------------------------------------------------------------
(* Whatever libusb may still call dispatch_libusb for points to the current *)
(* entry in input_map and the open handle: no detach, by the script or by   *)
(* the callback of another transfer of the device, leaves a transfer in     *)
(* flight behind.                                                           *)
FlyingIsCurrent == \A t \in Transfers : xfer[t].st = "flying" => Current(t)

(* A script that uses a transfer only while it is in flight, and closes no  *)
(* device in a callback of its own transfers, never makes the program use   *)
(* memory that was freed or detach a device twice, not even when several    *)
(* transfers of a device end together with it.                              *)
NoUseAfterFree == ~touched

(* While a device is attached each of its transfers is in flight, in its    *)
(* callback, or destroyed: only the end of the attach leaves transfers that *)
(* are neither (which are never freed).                                     *)
LeaksOnlyWithDevice ==
  \A t \in Transfers : xfer[t].st \in {"kept", "dropped"} => ~Current(t)

Watched(d) == fd[d] # NoFd /\ fd[d] \in interest /\ pollfds[fd[d]] = "live"

(* A device that is unplugged while a transfer is pending on it and epoll   *)
(* watches its descriptor is detached, by the transfer's callback or the    *)
(* script.                                                                  *)
UnplugIsNoticed ==
  \A d \in Devices :
    (d \in lost /\ Watched(d) /\ \E t \in Flying(d) : outcome[t] = "pending") ~> d \notin lost
=============================================================================
