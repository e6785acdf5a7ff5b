------------------------ MODULE UsbTransfers_proofs ------------------------
(****************************************************************************)
(* Proofs about UsbTransfers, for any devices, transfers and attaches.      *)
(*                                                                          *)
(* That what libusb may call back for points to the current attach, and     *)
(* that only the end of an attach leaves transfers that are never freed,    *)
(* holds whatever the script does.  That no freed memory is used needs the  *)
(* careful script, and what it buys: the transfer whose callback runs stays *)
(* as it was when it was called, and its device attached (CallingIsSafe).   *)
(* Last, what is safety in UnplugIsNoticed: a lost device is not forgotten. *)
(****************************************************************************)
EXTENDS UsbTransfers, FiniteSetTheorems, TLAPS

CallingIsSafe == calling # NoTransfer => xfer[calling].st = "called" /\ Current(calling)

IInv ==
  /\ TypeOK /\ FlyingIsCurrent /\ LeaksOnlyWithDevice
  /\ Careful => CallingIsSafe /\ NoUseAfterFree

XferType(a) == [Transfers -> [st : States, dev : Devices, attach : 0..a]]

(* Everything but the transfers and their devices has its type.             *)
OtherTypes ==
  /\ plugged \subseteq Devices /\ outcome \in [Transfers -> Outcomes \cup {"pending"}]
  /\ blocked \in Devices \cup {NoDevice}
  /\ handling \in BOOLEAN /\ inLua \in BOOLEAN /\ touched \in BOOLEAN
  /\ calling \in Transfers \cup {NoTransfer}
  /\ status \in Outcomes

DeviceTypes ==
  /\ lost \subseteq Devices /\ hungup \subseteq Devices
  /\ attaches \in 0..MaxAttach
  /\ attached \in [Devices -> 0..attaches]
  /\ fd \in [Devices -> Fds \cup {NoFd}]
  /\ pollfds \in [Fds -> {"none", "live", "dead"}]
  /\ interest \subseteq Fds
  /\ answered \in BOOLEAN

LEMMA Types ==
  /\ TypeOK <=> OtherTypes /\ DeviceTypes /\ xfer \in XferType(attaches)
  /\ TypeOK' <=> OtherTypes' /\ DeviceTypes' /\ xfer' \in XferType(attaches)'
  BY DEF TypeOK, OtherTypes, DeviceTypes, XferType

LEMMA InitInv == Init => IInv
<1> SUFFICES ASSUME Init PROVE IInv
  OBVIOUS
<1>1. (CHOOSE d \in Devices : TRUE) \in Devices
  BY UsbAssumption
<1>2. \A t \in Transfers : xfer[t].st = "none"
  BY DEF Init, Transfer
<1>3. xfer \in XferType(0) /\ attaches = 0
  BY <1>1 DEF Init, Transfer, XferType, States
<1>4. OtherTypes
  BY DEF Init, OtherTypes, Outcomes
<1>5. DeviceTypes
  <2>1. attaches = 0 /\ attaches \in 0..MaxAttach
    BY UsbAssumption DEF Init
  <2>2. attached \in [Devices -> 0..attaches]
    BY <2>1 DEF Init
  <2> QED BY <2>1, <2>2 DEF Init, DeviceTypes
<1>6. FlyingIsCurrent /\ LeaksOnlyWithDevice
  BY <1>2 DEF FlyingIsCurrent, LeaksOnlyWithDevice
<1>7. CallingIsSafe /\ NoUseAfterFree
  BY DEF Init, CallingIsSafe, NoUseAfterFree
<1> QED BY <1>3, <1>4, <1>5, <1>6, <1>7, Types DEF IInv

-----------------------------------------------------------------------------
(* Descriptors that are taken in and out. *)
LEMMA PollTypes ==
  ASSUME DeviceTypes, NEW f, on_remove_fd(f) \/ (f \in Fds /\ on_add_fd(f))
  PROVE  pollfds' \in [Fds -> {"none", "live", "dead"}] /\ interest' \subseteq Fds
  BY DEF DeviceTypes, on_remove_fd, on_add_fd

(* A detach ends what is in flight on the device, and makes all that was    *)
(* submitted to it a thing of the past. *)
LEMMA DetachKeeps ==
  ASSUME IInv, NEW d \in Devices, attached[d] # 0,
         NEW x \in XferType(attaches), Detach(d, x),
         \A t \in Transfers : \/ x[t] = xfer[t]
                              \/ xfer[t].dev = d /\ x[t].dev = d /\ x[t].st \in {"kept", "freed"}
  PROVE  /\ DeviceTypes' /\ xfer' \in XferType(attaches)' /\ FlyingIsCurrent' /\ LeaksOnlyWithDevice'
         /\ \A t \in Transfers : xfer[t].dev # d => xfer'[t] = xfer[t] /\ (Current(t)' <=> Current(t))
<1> USE DEF IInv
<1>1. /\ DeviceTypes /\ xfer \in XferType(attaches)
      /\ attached' = [attached EXCEPT ![d] = 0] /\ attaches' = attaches
  BY Types DEF Detach
<1>2. pollfds' \in [Fds -> {"none", "live", "dead"}] /\ interest' \subseteq Fds
  <2>1. CASE d \in hungup
    BY <1>1, <2>1 DEF Detach, DeviceTypes
  <2>2. CASE d \notin hungup
    BY <1>1, <2>2, PollTypes DEF Detach
  <2> QED BY <2>1, <2>2
<1>3. DeviceTypes'
  BY <1>1, <1>2 DEF Detach, DeviceTypes
<1>4. \A t \in Transfers : xfer'[t] = IF t \in Flying(d) THEN [x[t] EXCEPT !.st = "dropped"] ELSE x[t]
  BY DEF Detach, Dropped
<1>5. xfer' \in XferType(attaches)'
  BY <1>1 DEF Detach, Dropped, XferType, States
<1>6. ASSUME NEW t \in Transfers
      PROVE  /\ xfer'[t].dev = xfer[t].dev
             /\ xfer[t].dev # d => xfer'[t] = xfer[t]
             /\ xfer[t].dev = d => xfer'[t].st # "flying"
  <2>1. /\ xfer[t] \in [st : States, dev : Devices, attach : 0..attaches]
        /\ x[t] \in [st : States, dev : Devices, attach : 0..attaches]
    BY <1>1 DEF XferType
  <2>2. \/ x[t] = xfer[t]
        \/ xfer[t].dev = d /\ x[t].dev = d /\ x[t].st \in {"kept", "freed"}
    OBVIOUS
  <2>3. CASE t \in Flying(d)
    <3>1. xfer'[t] = [x[t] EXCEPT !.st = "dropped"] /\ xfer[t].dev = d
      BY <1>4, <2>3 DEF Flying
    <3>2. xfer'[t].st = "dropped" /\ xfer'[t].dev = x[t].dev
      BY <2>1, <3>1
    <3> QED BY <2>2, <3>1, <3>2
  <2>4. CASE t \notin Flying(d)
    <3>1. xfer'[t] = x[t] /\ ~(xfer[t].st = "flying" /\ xfer[t].dev = d)
      BY <1>4, <2>4 DEF Flying
    <3> QED BY <2>2, <3>1
  <2> QED BY <2>3, <2>4
<1>7. ASSUME NEW t \in Transfers
      PROVE  /\ xfer[t].dev # d => (Current(t)' <=> Current(t))
             /\ xfer[t].dev = d => ~Current(t)'
  BY <1>1, <1>6 DEF Current, DeviceTypes, XferType
<1>8. FlyingIsCurrent'
  BY <1>6, <1>7 DEF FlyingIsCurrent
<1>9. LeaksOnlyWithDevice'
  BY <1>6, <1>7 DEF LeaksOnlyWithDevice
<1> QED BY <1>3, <1>5, <1>6, <1>7, <1>8, <1>9

-----------------------------------------------------------------------------
(* The script's calls.                                                      *)
LEMMA OpenKeeps == ASSUME IInv, NEW d \in Devices, OpenDevice(d) PROVE IInv'
<1> USE DEF IInv
<1>1. DeviceTypes /\ OtherTypes /\ xfer \in XferType(attaches)
  BY Types
<1>2. PICK f \in Fds : fd' = [fd EXCEPT ![d] = f] /\ on_add_fd(f)
  BY DEF OpenDevice
<1>3. /\ attaches' = attaches + 1 /\ attaches' \in 0..MaxAttach /\ attaches \in Nat
      /\ attached' = [attached EXCEPT ![d] = attaches + 1] /\ attached[d] = 0
      /\ UNCHANGED <<plugged, lost, hungup, answered, xfer, outcome, handling, blocked, calling,
                     status, inLua, touched>>
  BY <1>1, UsbAssumption DEF OpenDevice, DeviceTypes
<1>4. attached' \in [Devices -> 0..attaches']
  BY <1>1, <1>3 DEF DeviceTypes
<1>5. DeviceTypes'
  BY <1>1, <1>2, <1>3, <1>4, PollTypes DEF DeviceTypes
<1>6. xfer' \in XferType(attaches)'
  BY <1>1, <1>3 DEF XferType
<1>7. \A t \in Transfers : Current(t)' <=> Current(t)
  BY <1>1, <1>3 DEF Current, XferType, DeviceTypes
<1>8. FlyingIsCurrent' /\ LeaksOnlyWithDevice'
  BY <1>3, <1>7 DEF FlyingIsCurrent, LeaksOnlyWithDevice
<1>9. Careful => CallingIsSafe' /\ NoUseAfterFree'
  BY <1>1, <1>3, <1>7 DEF CallingIsSafe, NoUseAfterFree, OtherTypes
<1> QED BY <1>1, <1>3, <1>5, <1>6, <1>8, <1>9, Types DEF OtherTypes

LEMMA CloseKeeps == ASSUME IInv, NEW d \in Devices, CloseDevice(d) PROVE IInv'
<1> USE DEF IInv
<1>1. DeviceTypes /\ OtherTypes /\ xfer \in XferType(attaches)
  BY Types
<1>2. /\ DeviceTypes' /\ xfer' \in XferType(attaches)' /\ FlyingIsCurrent' /\ LeaksOnlyWithDevice'
      /\ \A t \in Transfers : xfer[t].dev # d => xfer'[t] = xfer[t] /\ (Current(t)' <=> Current(t))
  BY <1>1, DetachKeeps DEF CloseDevice
<1>3. Careful => CallingIsSafe' /\ NoUseAfterFree'
  BY <1>1, <1>2 DEF CloseDevice, MayClose, CallingIsSafe, NoUseAfterFree, OtherTypes
<1>4. OtherTypes'
  BY <1>1 DEF CloseDevice, OtherTypes
<1> QED BY <1>2, <1>3, <1>4, Types

(* A step that changes one transfer at most, and no device. *)
LEMMA XferStep ==
  ASSUME IInv, OtherTypes', UNCHANGED <<lost, attached, attaches, fd, hungup, pollfds, interest>>,
         answered' \in BOOLEAN, NEW t \in Transfers, NEW r \in [st : States, dev : Devices, attach : 0..attaches],
         xfer' = xfer \/ xfer' = [xfer EXCEPT ![t] = r],
         r.st \in {"none", "called", "freed", "flying"},
         r.st = "flying" => attached[r.dev] # 0 /\ r.attach = attached[r.dev]
  PROVE  /\ TypeOK' /\ FlyingIsCurrent' /\ LeaksOnlyWithDevice'
         /\ \A u \in Transfers : u # t => xfer'[u] = xfer[u] /\ (Current(u)' <=> Current(u))
<1> USE DEF IInv
<1>1. DeviceTypes /\ xfer \in XferType(attaches)
  BY Types
<1>2. DeviceTypes' /\ xfer' \in XferType(attaches)'
  BY <1>1 DEF DeviceTypes, XferType
<1>3. /\ xfer'[t] \in {xfer[t], r}
      /\ \A u \in Transfers : u # t => xfer'[u] = xfer[u] /\ (Current(u)' <=> Current(u))
  BY <1>1 DEF XferType, Current
<1>4. FlyingIsCurrent'
  BY <1>3 DEF FlyingIsCurrent, Current
<1>5. LeaksOnlyWithDevice'
  BY <1>3 DEF LeaksOnlyWithDevice, Current
<1> QED BY <1>2, <1>3, <1>4, <1>5, Types

LEMMA SubmitKeeps ==
  ASSUME IInv, NEW d \in Devices, NEW t \in Transfers, Submit(d, t) PROVE IInv'
<1> USE DEF IInv
<1> DEFINE r == Transfer("flying", d, attached[d])
<1>1. DeviceTypes /\ OtherTypes /\ xfer \in XferType(attaches)
  BY Types
<1>2. r \in [st : States, dev : Devices, attach : 0..attaches] /\ r.st = "flying" /\ r.dev = d
      /\ r.attach = attached[d] /\ attached[d] # 0
  BY <1>1 DEF Transfer, States, DeviceTypes, Submit
<1>3. OtherTypes' /\ answered' \in BOOLEAN /\ xfer' = [xfer EXCEPT ![t] = r]
      /\ UNCHANGED <<lost, attached, attaches, fd, hungup, pollfds, interest>>
  BY <1>1 DEF Submit, OtherTypes, DeviceTypes, devVars
<1> HIDE DEF r
<1>4. /\ TypeOK' /\ FlyingIsCurrent' /\ LeaksOnlyWithDevice'
      /\ \A u \in Transfers : u # t => xfer'[u] = xfer[u] /\ (Current(u)' <=> Current(u))
  BY <1>2, <1>3, XferStep
<1>5. Careful => CallingIsSafe' /\ NoUseAfterFree'
  BY <1>1, <1>4 DEF Submit, CallingIsSafe, NoUseAfterFree, OtherTypes
<1> QED BY <1>4, <1>5

(* A step that leaves transfers, attaches and freed memory alone.           *)
LEMMA OtherStep ==
  ASSUME IInv, OtherTypes', DeviceTypes', UNCHANGED <<attached, attaches, xfer, calling, touched>>
  PROVE  IInv'
<1>1. xfer' \in XferType(attaches)'
  BY Types DEF IInv
<1>2. \A t \in Transfers : Current(t)' <=> Current(t)
  BY DEF Current
<1>3. FlyingIsCurrent' /\ LeaksOnlyWithDevice'
  BY <1>2 DEF IInv, FlyingIsCurrent, LeaksOnlyWithDevice
<1>4. Careful => CallingIsSafe' /\ NoUseAfterFree'
  BY <1>2 DEF IInv, CallingIsSafe, NoUseAfterFree, TypeOK
<1> QED BY <1>1, <1>3, <1>4, Types DEF IInv

LEMMA CancelKeeps == ASSUME IInv, NEW t \in Transfers, Cancel(t) PROVE IInv'
<1> USE DEF IInv
<1>1. DeviceTypes /\ OtherTypes
  BY Types
<1>2. OtherTypes' /\ UNCHANGED <<devVars, xfer, calling>>
  BY <1>1 DEF Cancel, OtherTypes, Outcomes
<1>3. DeviceTypes' /\ UNCHANGED <<attached, attaches>>
  BY <1>1, <1>2 DEF devVars, DeviceTypes
<1>4. xfer' \in XferType(attaches)'
  BY <1>2, <1>3, Types
<1>5. \A u \in Transfers : Current(u)' <=> Current(u)
  BY <1>2, <1>3 DEF Current
<1>6. FlyingIsCurrent' /\ LeaksOnlyWithDevice'
  BY <1>2, <1>5 DEF FlyingIsCurrent, LeaksOnlyWithDevice
<1>7. ASSUME Careful PROVE CallingIsSafe' /\ NoUseAfterFree'
  <2>1. touched' = FALSE
    BY <1>7 DEF Cancel, MayUse, FlyingIsCurrent, NoUseAfterFree
  <2> QED BY <1>1, <1>2, <1>5, <1>7, <2>1 DEF CallingIsSafe, NoUseAfterFree, OtherTypes
<1> QED BY <1>2, <1>3, <1>4, <1>6, <1>7, Types

LEMMA ResubmitKeeps == ASSUME IInv, NEW t \in Transfers, Resubmit(t) PROVE IInv'
<1> USE DEF IInv
<1> DEFINE r == [xfer[t] EXCEPT !.st = "flying"]
<1>1. DeviceTypes /\ OtherTypes /\ xfer \in XferType(attaches)
  BY Types
<1>2. OtherTypes' /\ UNCHANGED <<devVars, calling>>
  BY <1>1 DEF Resubmit, OtherTypes
<1>3. UNCHANGED <<lost, attached, attaches, fd, hungup, pollfds, interest>> /\ answered' \in BOOLEAN
  BY <1>1, <1>2 DEF devVars, DeviceTypes
<1>4. ASSUME xfer' = Mark(t, "flying"), Current(t)
      PROVE  TypeOK' /\ FlyingIsCurrent' /\ LeaksOnlyWithDevice'
  <2>1. /\ r \in [st : States, dev : Devices, attach : 0..attaches] /\ r.st = "flying"
        /\ r.dev = xfer[t].dev /\ r.attach = xfer[t].attach
    BY <1>1 DEF XferType, States
  <2>2. xfer' = [xfer EXCEPT ![t] = r]
    BY <1>4 DEF Mark
  <2>3. attached[r.dev] # 0 /\ r.attach = attached[r.dev]
    BY <1>4, <2>1 DEF Current
  <2> HIDE DEF r
  <2>4. /\ TypeOK' /\ FlyingIsCurrent' /\ LeaksOnlyWithDevice'
        /\ \A u \in Transfers : u # t => xfer'[u] = xfer[u] /\ (Current(u)' <=> Current(u))
    BY <1>2, <1>3, <2>1, <2>2, <2>3, XferStep
  <2> QED BY <2>4
<1>5. ASSUME xfer' = xfer
      PROVE  TypeOK' /\ FlyingIsCurrent' /\ LeaksOnlyWithDevice'
  <2>1. DeviceTypes' /\ xfer' \in XferType(attaches)'
    BY <1>1, <1>3, <1>5 DEF DeviceTypes
  <2>2. FlyingIsCurrent' /\ LeaksOnlyWithDevice'
    BY <1>3, <1>5 DEF FlyingIsCurrent, LeaksOnlyWithDevice, Current
  <2> QED BY <1>2, <2>1, <2>2, Types
<1>6. TypeOK' /\ FlyingIsCurrent' /\ LeaksOnlyWithDevice'
  BY <1>4, <1>5 DEF Resubmit
<1>7. ASSUME Careful PROVE CallingIsSafe' /\ NoUseAfterFree'
  <2>1. xfer[t].st = "flying" /\ Current(t)
    BY <1>7 DEF Resubmit, MayUse, FlyingIsCurrent
  <2>2. xfer' = xfer /\ touched' = FALSE
    BY <1>7, <2>1 DEF Resubmit, NoUseAfterFree
  <2> QED BY <1>1, <1>2, <1>3, <1>7, <2>2 DEF CallingIsSafe, NoUseAfterFree, OtherTypes, Current
<1> QED BY <1>6, <1>7

-----------------------------------------------------------------------------
(* libusb's callbacks.                                                      *)
LEMMA CallbackKeeps == ASSUME IInv, NEW t \in Transfers, Callback(t) PROVE IInv'
<1> USE DEF IInv
<1> DEFINE r == [xfer[t] EXCEPT !.st = "called"]
<1>1. DeviceTypes /\ OtherTypes /\ xfer \in XferType(attaches)
  BY Types
<1>2. t \in Ended /\ xfer[t].st = "flying" /\ outcome[t] \in Outcomes /\ Current(t)
  BY <1>1 DEF Callback, Ended, OtherTypes, FlyingIsCurrent
<1>3. OtherTypes' /\ UNCHANGED devVars /\ calling' = t
  BY <1>1, <1>2 DEF Callback, OtherTypes
<1>4. UNCHANGED <<lost, attached, attaches, fd, hungup, pollfds, interest>> /\ answered' \in BOOLEAN
  BY <1>1, <1>3 DEF devVars, DeviceTypes
<1>5. r \in [st : States, dev : Devices, attach : 0..attaches] /\ r.st = "called" /\ xfer' = [xfer EXCEPT ![t] = r]
  BY <1>1 DEF XferType, States, Callback, Mark
<1>6. xfer'[t].st = "called" /\ (Current(t)' <=> Current(t))
  BY <1>1, <1>4 DEF XferType, Callback, Mark, Current
<1> HIDE DEF r
<1>7. TypeOK' /\ FlyingIsCurrent' /\ LeaksOnlyWithDevice'
  BY <1>3, <1>4, <1>5, XferStep
<1>8. Careful => CallingIsSafe' /\ NoUseAfterFree'
  BY <1>2, <1>3, <1>6 DEF Callback, CallingIsSafe, NoUseAfterFree
<1> QED BY <1>7, <1>8

(* What follows the callback, with calling set back to none.                *)
LEMMA AfterOtherKeeps ==
  ASSUME IInv, NEW t \in Transfers, calling = t, calling' = NoTransfer,
         UNCHANGED <<plugged, handling, blocked, status>>,
         AfterCompleted(t) \/ AfterError(t)
  PROVE  IInv'
<1> USE DEF IInv
<1> DEFINE r(s) == [xfer[t] EXCEPT !.st = s]
<1>1. DeviceTypes /\ OtherTypes /\ xfer \in XferType(attaches)
  BY Types
<1>2. PICK s \in {"flying", "freed"} :
        /\ xfer' = xfer \/ xfer' = Mark(t, s)
        /\ s = "flying" => Current(t)
        /\ UNCHANGED devVars /\ UNCHANGED inLua
        /\ outcome' = outcome \/ outcome' = [outcome EXCEPT ![t] = "pending"]
        /\ touched' \in {touched, TRUE}
  BY <1>1 DEF AfterCompleted, AfterError, OtherTypes
<1>3. OtherTypes'
  BY <1>1, <1>2 DEF OtherTypes
<1>4. UNCHANGED <<lost, attached, attaches, fd, hungup, pollfds, interest>> /\ answered' \in BOOLEAN
  BY <1>1, <1>2 DEF devVars, DeviceTypes
<1>5. /\ r(s) \in [st : States, dev : Devices, attach : 0..attaches] /\ r(s).st = s
      /\ r(s).dev = xfer[t].dev /\ r(s).attach = xfer[t].attach
      /\ xfer' = xfer \/ xfer' = [xfer EXCEPT ![t] = r(s)]
  BY <1>1, <1>2 DEF XferType, States, Mark
<1>6. r(s).st = "flying" => attached[r(s).dev] # 0 /\ r(s).attach = attached[r(s).dev]
  BY <1>2, <1>5 DEF Current
<1> HIDE DEF r
<1>7. TypeOK' /\ FlyingIsCurrent' /\ LeaksOnlyWithDevice'
  BY <1>3, <1>4, <1>5, <1>6, XferStep
<1>8. ASSUME Careful PROVE CallingIsSafe' /\ NoUseAfterFree'
  <2>1. xfer[t].st = "called" /\ Current(t)
    BY <1>8, UsbAssumption DEF CallingIsSafe
  <2> QED BY <1>8, <2>1 DEF AfterCompleted, AfterError, CallingIsSafe, NoUseAfterFree
<1> QED BY <1>7, <1>8

LEMMA AfterNoDeviceKeeps ==
  ASSUME IInv, NEW t \in Transfers, calling = t, calling' = NoTransfer,
         UNCHANGED <<plugged, handling, blocked, status>>, AfterNoDevice(t)
  PROVE  IInv'
<1> USE DEF IInv
<1>1. DeviceTypes /\ OtherTypes /\ xfer \in XferType(attaches)
  BY Types
<1>2. OtherTypes'
  BY <1>1 DEF AfterNoDevice, OtherTypes
<1>3. CASE Current(t)
  <2> DEFINE d == xfer[t].dev
             x == Mark(t, "kept")
  <2>1. Detach(d, x) /\ touched' = touched
    BY <1>3 DEF AfterNoDevice
  <2>2. d \in Devices /\ attached[d] # 0 /\ x \in XferType(attaches)
    BY <1>1, <1>3 DEF XferType, States, Mark, Current
  <2>3. \A u \in Transfers : \/ x[u] = xfer[u]
                             \/ xfer[u].dev = d /\ x[u].dev = d /\ x[u].st \in {"kept", "freed"}
    <3>1. /\ \A u \in Transfers : u # t => x[u] = xfer[u]
          /\ x[t] = [xfer[t] EXCEPT !.st = "kept"]
      BY <1>1 DEF XferType, Mark
    <3>2. x[t].dev = d /\ x[t].st = "kept" /\ xfer[t].dev = d
      BY <1>1, <3>1 DEF XferType
    <3> HIDE DEF d, x
    <3> QED BY <3>1, <3>2
  <2> HIDE DEF d, x
  <2>4. DeviceTypes' /\ xfer' \in XferType(attaches)' /\ FlyingIsCurrent' /\ LeaksOnlyWithDevice'
    BY <2>1, <2>2, <2>3, DetachKeeps
  <2> QED BY <1>2, <2>1, <2>4, Types DEF CallingIsSafe, NoUseAfterFree
<1>4. CASE ~Current(t)
  <2>1. UNCHANGED <<devVars, xfer>> /\ ~Careful
    BY <1>4, UsbAssumption DEF AfterNoDevice, CallingIsSafe
  <2>2. DeviceTypes' /\ UNCHANGED <<attached, attaches>>
    BY <1>1, <2>1 DEF devVars, DeviceTypes
  <2>3. FlyingIsCurrent' /\ LeaksOnlyWithDevice'
    BY <2>1, <2>2 DEF FlyingIsCurrent, LeaksOnlyWithDevice, Current
  <2> QED BY <1>1, <1>2, <2>1, <2>2, <2>3, Types
<1> QED BY <1>3, <1>4

LEMMA StepInv == ASSUME IInv, [Next]_vars PROVE IInv'
<1> USE DEF IInv
<1>1. DeviceTypes /\ OtherTypes /\ xfer \in XferType(attaches)
  BY Types
<1>2. ASSUME NEW d \in Devices, BlockingTransfer(d) PROVE IInv'
  <2>1. DeviceTypes'
    BY <1>1, <1>2 DEF BlockingTransfer, DeviceTypes
  <2>2. OtherTypes'
    BY <1>1, <1>2 DEF BlockingTransfer, OtherTypes
  <2> QED BY <1>2, <2>1, <2>2, OtherStep DEF BlockingTransfer
<1>3. ASSUME Return \/ OtherCallback \/ HandleEvent \/ HandleDone PROVE IInv'
  <2>1. UNCHANGED <<devVars, xfer, calling, touched>>
    BY <1>3 DEF Return, OtherCallback, HandleEvent, HandleDone
  <2>2. DeviceTypes' /\ UNCHANGED <<attached, attaches>>
    BY <1>1, <2>1 DEF devVars, DeviceTypes
  <2>3. OtherTypes'
    BY <1>1, <1>3 DEF Return, OtherCallback, HandleEvent, HandleDone, OtherTypes
  <2> QED BY <2>1, <2>2, <2>3, OtherStep
<1>4. ASSUME NEW d \in Devices, Plug(d) \/ Unplug(d) PROVE IInv'
  <2>1. DeviceTypes' /\ OtherTypes'
    BY <1>1, <1>4 DEF Plug, Unplug, devVars, DeviceTypes, OtherTypes
  <2> QED BY <1>4, <2>1, OtherStep DEF Plug, Unplug, devVars
<1>5. ASSUME NEW t \in Transfers, Complete(t) PROVE IInv'
  <2>1. DeviceTypes' /\ OtherTypes'
    BY <1>1, <1>5 DEF Complete, devVars, DeviceTypes, OtherTypes, Outcomes
  <2> QED BY <1>5, <2>1, OtherStep DEF Complete, devVars
<1>6. ASSUME Answer \/ BlockingDone PROVE IInv'
  <2>1. DeviceTypes'
    BY <1>1, <1>6 DEF Answer, BlockingDone, DeviceTypes
  <2>2. OtherTypes'
    BY <1>1, <1>6 DEF Answer, BlockingDone, OtherTypes
  <2> QED BY <1>6, <2>1, <2>2, OtherStep DEF Answer, BlockingDone
<1>7. ASSUME NEW d \in Devices, Disconnect(d) PROVE IInv'
  <2>1. pollfds' \in [Fds -> {"none", "live", "dead"}] /\ interest' \subseteq Fds
    BY <1>1, <1>7, PollTypes DEF Disconnect
  <2>2. DeviceTypes'
    BY <1>1, <1>7, <2>1 DEF Disconnect, DeviceTypes
  <2>3. OtherTypes'
    BY <1>1, <1>7 DEF Disconnect, OtherTypes, Outcomes
  <2> QED BY <1>7, <2>2, <2>3, OtherStep DEF Disconnect
<1>8. ASSUME NEW t \in Transfers, AfterCallback(t) PROVE IInv'
  BY <1>8, AfterOtherKeeps, AfterNoDeviceKeeps DEF AfterCallback
<1>9. CASE UNCHANGED vars
  <2>1. DeviceTypes' /\ OtherTypes'
    BY <1>1, <1>9 DEF vars, DeviceTypes, OtherTypes
  <2> QED BY <1>9, <2>1, OtherStep DEF vars
<1> QED BY <1>2, <1>3, <1>4, <1>5, <1>6, <1>7, <1>8, <1>9, OpenKeeps, CloseKeeps, SubmitKeeps,
           CancelKeeps, ResubmitKeeps, CallbackKeeps DEF Next, Lua, Bus, Loop

LEMMA Invariant == Spec => []IInv
  BY InitInv, StepInv, PTL DEF Spec

(* The variables of UsbTransfers keep their types. *)
THEOREM UsbType == Spec => []TypeOK
<1>1. IInv => TypeOK
  BY DEF IInv
<1> QED BY <1>1, Invariant, PTL

(* What libusb may call back for points to the current attach, whatever the *)
(* script does. *)
THEOREM UsbFlyingIsCurrent == Spec => []FlyingIsCurrent
<1>1. IInv => FlyingIsCurrent
  BY DEF IInv
<1> QED BY <1>1, Invariant, PTL

(* Only the end of an attach leaves transfers that are never freed.         *)
THEOREM UsbLeaksOnlyWithDevice == Spec => []LeaksOnlyWithDevice
<1>1. IInv => LeaksOnlyWithDevice
  BY DEF IInv
<1> QED BY <1>1, Invariant, PTL

(* A careful script never makes the program use memory that was freed.      *)
THEOREM UsbNoUseAfterFree == ASSUME Careful PROVE Spec => []NoUseAfterFree
<1>1. IInv => NoUseAfterFree
  BY DEF IInv
<1> QED BY <1>1, Invariant, PTL

-----------------------------------------------------------------------------
(****************************************************************************)
(* What is safety in UnplugIsNoticed.                                       *)
(****************************************************************************)
(* The descriptors of open devices differ, and what is known of a loss is   *)
(* of devices that are attached. *)
DevInv ==
  /\ \A d \in Devices : attached[d] = 0 => fd[d] = NoFd
  /\ \A d \in Devices : attached[d] # 0 => fd[d] \in Fds
  /\ \A d, e \in Devices : fd[d] = fd[e] /\ fd[d] # NoFd => d = e
  /\ \A d \in lost : attached[d] # 0
  /\ hungup \subseteq lost

devs == <<lost, attached, attaches, fd, hungup, pollfds, interest>>

LEMMA FdsAreNot == \A f \in Fds : f # NoFd
<1>1. Cardinality(Devices) \in Nat
  BY UsbAssumption, FS_CardinalityType
<1> QED BY <1>1 DEF Fds, NoFd

(* Which steps touch the devices. *)
LEMMA DeviceSteps ==
  ASSUME TypeOK, [Next]_vars
  PROVE  \/ UNCHANGED devs
         \/ \E d \in Devices : \/ OpenDevice(d) \/ Unplug(d) \/ Disconnect(d)
                               \/ attached[d] # 0 /\ \E x : Detach(d, x)
<1> USE DEF devs
<1>1. ASSUME NEW d \in Devices, CloseDevice(d) PROVE attached[d] # 0 /\ \E x : Detach(d, x)
  BY <1>1 DEF CloseDevice
<1>2. ASSUME NEW d \in Devices, BlockingTransfer(d) \/ Plug(d) PROVE UNCHANGED devs
  BY <1>2 DEF BlockingTransfer, Plug, devVars
<1>3. ASSUME NEW d \in Devices, NEW t \in Transfers, Submit(d, t) PROVE UNCHANGED devs
  BY <1>3 DEF Submit, devVars
<1>4. ASSUME NEW t \in Transfers, Cancel(t) \/ Resubmit(t) \/ Complete(t) \/ Callback(t)
      PROVE  UNCHANGED devs
  BY <1>4 DEF Cancel, Resubmit, Complete, Callback, devVars
<1>5. ASSUME NEW t \in Transfers, AfterCallback(t)
      PROVE  UNCHANGED devs \/ (attached[xfer[t].dev] # 0 /\ \E x : Detach(xfer[t].dev, x))
  <2>1. CASE AfterCompleted(t) \/ AfterError(t)
    BY <2>1 DEF AfterCompleted, AfterError, devVars
  <2>2. CASE AfterNoDevice(t) /\ Current(t)
    BY <2>2 DEF AfterNoDevice, Current
  <2>3. CASE AfterNoDevice(t) /\ ~Current(t)
    BY <2>3 DEF AfterNoDevice, devVars
  <2> QED BY <1>5, <2>1, <2>2, <2>3 DEF AfterCallback
<1>6. ASSUME \/ Return \/ OtherCallback \/ Answer \/ HandleEvent \/ HandleDone \/ BlockingDone
             \/ UNCHANGED vars
      PROVE  UNCHANGED devs
  BY <1>6 DEF Return, OtherCallback, Answer, HandleEvent, HandleDone, BlockingDone, vars, devVars
<1>7. \A t \in Transfers : xfer[t].dev \in Devices
  BY DEF TypeOK
<1> QED BY <1>1, <1>2, <1>3, <1>4, <1>5, <1>6, <1>7 DEF Next, Lua, Bus, Loop

LEMMA DevsKeep == ASSUME TypeOK, DevInv, [Next]_vars PROVE DevInv'
<1>1. CASE UNCHANGED devs
  BY <1>1 DEF devs, DevInv
<1>2. ASSUME NEW d \in Devices, OpenDevice(d) PROVE DevInv'
  <2>1. PICK f \in Fds : LowestFree(f) /\ fd' = [fd EXCEPT ![d] = f]
    BY <1>2 DEF OpenDevice
  <2>2. \A e \in Devices : fd[e] # f
    BY <2>1 DEF LowestFree
  <2>3. /\ attached[d] = 0 /\ attached' = [attached EXCEPT ![d] = attaches + 1]
        /\ attaches + 1 # 0 /\ UNCHANGED <<lost, hungup>>
    BY <1>2 DEF OpenDevice, TypeOK
  <2>4. \A e \in Devices : /\ fd'[e] = IF e = d THEN f ELSE fd[e]
                           /\ attached'[e] = IF e = d THEN attaches + 1 ELSE attached[e]
    BY <2>1, <2>3 DEF TypeOK
  <2>5. \A e, g \in Devices : fd'[e] = fd'[g] /\ fd'[e] # NoFd => e = g
    BY <2>2, <2>4 DEF DevInv
  <2>6. lost \subseteq Devices
    BY DEF TypeOK
  <2> QED BY <2>1, <2>3, <2>4, <2>5, <2>6 DEF DevInv
<1>3. ASSUME NEW d \in Devices, Unplug(d) PROVE DevInv'
  BY <1>3 DEF Unplug, DevInv
<1>4. ASSUME NEW d \in Devices, Disconnect(d) PROVE DevInv'
  BY <1>4 DEF Disconnect, DevInv
<1>5. ASSUME NEW d \in Devices, attached[d] # 0, NEW x, Detach(d, x) PROVE DevInv'
  <2>1. \A e \in Devices : /\ fd'[e] = IF e = d THEN NoFd ELSE fd[e]
                           /\ attached'[e] = IF e = d THEN 0 ELSE attached[e]
    BY <1>5 DEF Detach, TypeOK
  <2>2. lost' = lost \ {d} /\ hungup' = hungup \ {d} /\ lost \subseteq Devices
    BY <1>5 DEF Detach, TypeOK
  <2> QED BY <2>1, <2>2 DEF DevInv
<1> QED BY <1>1, <1>2, <1>3, <1>4, <1>5, DeviceSteps

(* What leads to the detach of a lost device: first libusb's look at its    *)
(* descriptor, which epoll watches; then, in the same call of handle_event, *)
(* the callbacks of what was in flight; then what follows the last of them. *)
Found(d) ==
  d \in lost \ hungup /\ Watched(d) /\ \E t \in Flying(d) : outcome[t] = "pending"

Ending(d) == handling /\ d \in hungup /\ \E t \in Flying(d) : outcome[t] = "no_device"

Telling(d) ==
  /\ handling /\ calling # NoTransfer
  /\ xfer[calling].dev = d /\ Current(calling) /\ status = "no_device"

Noticing(d) == Found(d) \/ Ending(d) \/ Telling(d)

LossIsKept ==
  [][\A d \in Devices : d \in lost /\ Noticing(d) => Noticing(d)' \/ d \notin lost']_vars

(* The other devices' descriptors leave a lost device's in the epoll set.   *)
LEMMA WatchedKept ==
  ASSUME TypeOK, DevInv, [Next]_vars, NEW d \in Devices, d \in lost, d \in lost', ~Disconnect(d)
  PROVE  /\ d \in hungup <=> d \in hungup'
         /\ attached'[d] = attached[d]
         /\ Watched(d) => Watched(d)'
<1>1. CASE UNCHANGED devs
  BY <1>1 DEF devs, Watched
<1>2. attached[d] # 0 /\ fd[d] \in Fds
  BY DEF DevInv
<1>3. ASSUME NEW e \in Devices, OpenDevice(e)
      PROVE  hungup' = hungup /\ attached'[d] = attached[d] /\ (Watched(d) => Watched(d)')
  <2>1. PICK f \in Fds : LowestFree(f) /\ fd' = [fd EXCEPT ![e] = f] /\ on_add_fd(f)
    BY <1>3 DEF OpenDevice
  <2>2. e # d /\ f # fd[d]
    BY <1>2, <1>3, <2>1 DEF OpenDevice, LowestFree
  <2>3. hungup' = hungup /\ attached'[d] = attached[d] /\ fd'[d] = fd[d]
    BY <1>3, <2>1, <2>2 DEF OpenDevice, TypeOK
  <2>4. interest \subseteq interest' /\ pollfds'[fd[d]] = pollfds[fd[d]]
    BY <1>2, <2>1, <2>2 DEF on_add_fd, TypeOK
  <2> QED BY <2>3, <2>4 DEF Watched
<1>4. ASSUME NEW e \in Devices, Unplug(e)
      PROVE  hungup' = hungup /\ attached'[d] = attached[d] /\ (Watched(d) => Watched(d)')
  BY <1>4 DEF Unplug, Watched
<1>5. ASSUME NEW e \in Devices, e # d, fd[e] # fd[d], on_remove_fd(fd[e]), fd'[d] = fd[d]
      PROVE  Watched(d) => Watched(d)'
  BY <1>2, <1>5 DEF on_remove_fd, Watched, TypeOK
<1>6. ASSUME NEW e \in Devices, Disconnect(e)
      PROVE  /\ d \in hungup <=> d \in hungup'
             /\ attached'[d] = attached[d] /\ (Watched(d) => Watched(d)')
  <2>1. e # d
    BY <1>6
  <2>2. on_remove_fd(fd[e]) /\ fd' = fd /\ attached' = attached /\ hungup' = hungup \cup {e}
        /\ e \in lost
    BY <1>6 DEF Disconnect
  <2>3. fd[e] # fd[d]
    BY <1>2, <2>1, FdsAreNot DEF DevInv
  <2>4. Watched(d) => Watched(d)'
    BY <1>5, <2>1, <2>2, <2>3
  <2> QED BY <2>1, <2>2, <2>4
<1>7. ASSUME NEW e \in Devices, attached[e] # 0, NEW x, Detach(e, x)
      PROVE  /\ d \in hungup <=> d \in hungup'
             /\ attached'[d] = attached[d] /\ (Watched(d) => Watched(d)')
  <2>1. e # d
    BY <1>7 DEF Detach
  <2>2. fd'[d] = fd[d] /\ attached'[d] = attached[d] /\ hungup' = hungup \ {e}
    BY <1>7, <2>1 DEF Detach, TypeOK
  <2>3. fd[e] # fd[d]
    BY <1>2, <2>1, FdsAreNot DEF DevInv
  <2>4. CASE e \in hungup
    <3>1. UNCHANGED <<pollfds, interest>>
      BY <1>7, <2>4 DEF Detach
    <3> QED BY <2>1, <2>2, <3>1 DEF Watched
  <2>5. CASE e \notin hungup
    <3>1. on_remove_fd(fd[e])
      BY <1>7, <2>5 DEF Detach
    <3>2. Watched(d) => Watched(d)'
      BY <1>5, <2>1, <2>2, <2>3, <3>1
    <3> QED BY <2>1, <2>2, <3>2
  <2> QED BY <2>4, <2>5
<1> QED BY <1>1, <1>3, <1>4, <1>6, <1>7, DeviceSteps

(* A step leaves a transfer as it is, with the outcome it has. *)
Same(t) == xfer'[t] = xfer[t] /\ outcome'[t] = outcome[t]

(* Of a careful script, nothing but the loss itself and the callback        *)
(* touches what is in flight on a lost device: no cancel, answer or         *)
(* completion, no detach of another device and no other callback's end.     *)
LEMMA FlyingKept ==
  ASSUME IInv, Careful, [Next]_vars, NEW d \in Devices, d \in lost, d \in lost',
         NEW t \in Flying(d)
  PROVE  Same(t) \/ Disconnect(d) \/ Callback(t)
<1> USE DEF IInv, Same
<1>1. t \in Transfers /\ xfer[t].st = "flying" /\ xfer[t].dev = d
  BY DEF Flying
<1>2. CASE UNCHANGED <<xfer, outcome>>
  BY <1>2
<1>3. ASSUME NEW e \in Devices, NEW x, Detach(e, x), x[t] = xfer[t], outcome' = outcome
      PROVE  Same(t)
  <2>1. e # d
    BY <1>3 DEF Detach
  <2>2. t \notin Flying(e)
    BY <1>1, <2>1 DEF Flying
  <2> QED BY <1>1, <1>3, <2>2 DEF Detach, Dropped
<1>4. ASSUME NEW e \in Devices, \/ OpenDevice(e) \/ BlockingTransfer(e) \/ Plug(e) \/ Unplug(e)
      PROVE  UNCHANGED <<xfer, outcome>>
  BY <1>4 DEF OpenDevice, BlockingTransfer, Plug, Unplug
<1>5. ASSUME \/ Return \/ OtherCallback \/ Answer \/ HandleEvent \/ HandleDone \/ BlockingDone
             \/ UNCHANGED vars
      PROVE  UNCHANGED <<xfer, outcome>>
  BY <1>5 DEF Return, OtherCallback, Answer, HandleEvent, HandleDone, BlockingDone, vars
<1>6. ASSUME NEW e \in Devices, CloseDevice(e) PROVE Same(t)
  BY <1>3, <1>6 DEF CloseDevice
<1>7. ASSUME NEW e \in Devices, NEW u \in Transfers, Submit(e, u) PROVE Same(t)
  <2>1. u # t /\ outcome' = outcome
    BY <1>1, <1>7 DEF Submit
  <2> QED BY <1>1, <1>7, <2>1 DEF Submit, TypeOK
<1>8. ASSUME NEW u \in Transfers, Cancel(u) PROVE Same(t)
  BY <1>1, <1>8 DEF Cancel, TypeOK
<1>9. ASSUME NEW u \in Transfers, Resubmit(u) PROVE Same(t)
  BY <1>9 DEF Resubmit, MayUse
<1>10. ASSUME NEW u \in Transfers, Complete(u) PROVE Same(t)
  BY <1>1, <1>10 DEF Complete, TypeOK
<1>11. ASSUME NEW e \in Devices, e # d, Disconnect(e) PROVE Same(t)
  <2>1. t \notin Flying(e)
    BY <1>1, <1>11 DEF Flying
  <2> QED BY <1>1, <1>11, <2>1 DEF Disconnect
<1>12. ASSUME NEW u \in Transfers, u # t, Callback(u) PROVE Same(t)
  BY <1>1, <1>12 DEF Callback, Mark, TypeOK
<1>13. ASSUME NEW u \in Transfers, AfterCallback(u) PROVE Same(t)
  <2>1. calling = u /\ u # NoTransfer
    BY <1>13, UsbAssumption DEF AfterCallback
  <2>2. xfer[u].st = "called" /\ Current(u) /\ u # t
    BY <1>1, <2>1 DEF CallingIsSafe
  <2>3. \A st : Mark(u, st)[t] = xfer[t]
    BY <1>1, <2>2 DEF Mark, TypeOK
  <2>4. CASE AfterCompleted(u)
    BY <1>1, <2>2, <2>3, <2>4 DEF AfterCompleted, TypeOK
  <2>5. CASE AfterError(u)
    BY <2>2, <2>3, <2>5 DEF AfterError
  <2>6. CASE AfterNoDevice(u)
    <3>1. xfer[u].dev \in Devices
      BY DEF TypeOK
    <3>2. Detach(xfer[u].dev, Mark(u, "kept")) /\ outcome' = outcome
      BY <2>2, <2>6 DEF AfterNoDevice
    <3> QED BY <1>3, <2>3, <3>1, <3>2
  <2> QED BY <1>13, <2>4, <2>5, <2>6 DEF AfterCallback
<1> QED BY <1>2, <1>4, <1>5, <1>6, <1>7, <1>8, <1>9, <1>10, <1>11, <1>12, <1>13
        DEF Next, Lua, Bus, Loop

(* handle_event does not return while a callback runs or a transfer of a    *)
(* device found gone waits for its own. *)
LEMMA HandlingKept ==
  ASSUME [Next]_vars, handling,
         calling # NoTransfer \/ \E t \in Ended : xfer[t].dev \in hungup
  PROVE  handling'
<1>1. ASSUME NEW d \in Devices, \/ OpenDevice(d) \/ CloseDevice(d) \/ Plug(d) \/ Unplug(d)
                                \/ Disconnect(d) \/ BlockingTransfer(d)
      PROVE  handling'
  BY <1>1 DEF OpenDevice, CloseDevice, Plug, Unplug, Disconnect, BlockingTransfer
<1>2. ASSUME NEW d \in Devices, NEW t \in Transfers, Submit(d, t) PROVE handling'
  BY <1>2 DEF Submit
<1>3. ASSUME NEW t \in Transfers, \/ Cancel(t) \/ Resubmit(t) \/ Complete(t) \/ Callback(t)
                                  \/ AfterCallback(t)
      PROVE  handling'
  BY <1>3 DEF Cancel, Resubmit, Complete, Callback, AfterCallback
<1>4. ASSUME Return \/ OtherCallback \/ Answer \/ HandleEvent \/ UNCHANGED vars PROVE handling'
  BY <1>4 DEF Return, OtherCallback, Answer, HandleEvent, vars
<1>5. ~HandleDone /\ ~BlockingDone
  BY DEF HandleDone, BlockingDone
<1> QED BY <1>1, <1>2, <1>3, <1>4, <1>5 DEF Next, Lua, Bus, Loop

(* While a callback runs, and until dispatch_libusb goes on after it,       *)
(* nothing changes whose it is and what it is for. *)
CallStays ==
  calling' = calling /\ status' = status /\ xfer'[calling].dev = xfer[calling].dev

LEMMA CallingKept ==
  ASSUME IInv, Careful, [Next]_vars, NEW c \in Transfers, calling = c, c # NoTransfer,
         ~AfterCallback(c)
  PROVE  CallStays
<1> USE DEF IInv, CallStays
<1>1. xfer[c].st = "called"
  BY DEF CallingIsSafe
<1>2. ASSUME NEW d \in Devices, \/ OpenDevice(d) \/ Plug(d) \/ Unplug(d) \/ BlockingTransfer(d)
                                \/ Disconnect(d)
      PROVE  CallStays
  BY <1>2 DEF OpenDevice, Plug, Unplug, BlockingTransfer, Disconnect
<1>3. ASSUME NEW d \in Devices, CloseDevice(d) PROVE CallStays
  BY <1>3 DEF CloseDevice, Detach, Dropped
<1>4. ASSUME NEW d \in Devices, NEW t \in Transfers, Submit(d, t) PROVE CallStays
  <2>1. t # c
    BY <1>1, <1>4 DEF Submit
  <2> QED BY <1>4, <2>1 DEF Submit, TypeOK
<1>5. ASSUME NEW t \in Transfers, Cancel(t) \/ Resubmit(t) \/ Complete(t) PROVE CallStays
  BY <1>5 DEF Cancel, Resubmit, Complete, MayUse
<1>6. ASSUME NEW t \in Transfers, Callback(t) PROVE FALSE
  BY <1>6 DEF Callback
<1>7. ASSUME NEW t \in Transfers, AfterCallback(t) PROVE t = c
  BY <1>7 DEF AfterCallback
<1>8. ASSUME \/ Return \/ OtherCallback \/ Answer \/ HandleEvent \/ HandleDone \/ BlockingDone
             \/ UNCHANGED vars
      PROVE  CallStays
  BY <1>8 DEF Return, OtherCallback, Answer, HandleEvent, HandleDone, BlockingDone, vars
<1> QED BY <1>2, <1>3, <1>4, <1>5, <1>6, <1>7, <1>8 DEF Next, Lua, Bus, Loop

-----------------------------------------------------------------------------
LEMMA FoundKept ==
  ASSUME IInv, DevInv, Careful, [Next]_vars, NEW d \in Devices, d \in lost, d \in lost', Found(d)
  PROVE  Found(d)' \/ Ending(d)'
<1>1. PICK t \in Flying(d) : outcome[t] = "pending"
  BY DEF Found
<1>2. TypeOK /\ t \in Transfers /\ xfer[t].st = "flying" /\ xfer[t].dev = d
  BY DEF Flying, IInv
<1>3. ~Callback(t)
  BY <1>1 DEF Callback, Ended
<1>4. CASE Disconnect(d)
  <2>1. handling' /\ d \in hungup' /\ xfer' = xfer /\ outcome'[t] = "no_device"
    BY <1>1, <1>2, <1>4 DEF Disconnect
  <2> QED BY <1>2, <2>1 DEF Ending, Flying
<1>5. CASE ~Disconnect(d)
  <2>1. Same(t)
    BY <1>3, <1>5, FlyingKept
  <2>2. d \notin hungup' /\ Watched(d)'
    BY <1>2, <1>5, WatchedKept DEF Found
  <2> QED BY <1>1, <1>2, <2>1, <2>2 DEF Found, Flying, Same
<1> QED BY <1>4, <1>5

LEMMA EndingKept ==
  ASSUME IInv, IInv', DevInv, Careful, [Next]_vars, NEW d \in Devices, d \in lost, d \in lost',
         Ending(d)
  PROVE  Ending(d)' \/ Telling(d)'
<1>1. PICK t \in Flying(d) : outcome[t] = "no_device"
  BY DEF Ending
<1>2. TypeOK /\ t \in Transfers /\ xfer[t].st = "flying" /\ xfer[t].dev = d
  BY DEF Flying, IInv
<1>3. handling'
  <2>1. t \in Ended /\ xfer[t].dev \in hungup
    BY <1>1, <1>2 DEF Ended, Ending
  <2> QED BY <2>1, HandlingKept DEF Ending
<1>4. ~Disconnect(d)
  BY DEF Disconnect, Ending
<1>5. CASE Callback(t)
  <2>1. calling' = t /\ status' = "no_device" /\ t # NoTransfer
    BY <1>1, <1>2, <1>5, UsbAssumption DEF Callback
  <2>2. xfer'[t].dev = d
    BY <1>2, <1>5 DEF Callback, Mark, TypeOK
  <2>3. Current(calling)'
    BY <2>1 DEF IInv, CallingIsSafe
  <2> QED BY <1>3, <2>1, <2>2, <2>3 DEF Telling
<1>6. CASE Same(t)
  <2>1. d \in hungup'
    BY <1>2, <1>4, WatchedKept DEF Ending
  <2> QED BY <1>1, <1>2, <1>3, <1>6, <2>1 DEF Ending, Flying, Same
<1> QED BY <1>4, <1>5, <1>6, FlyingKept

LEMMA TellingKept ==
  ASSUME IInv, IInv', Careful, [Next]_vars, NEW d \in Devices, d \in lost, d \in lost', Telling(d)
  PROVE  Telling(d)'
<1>1. calling \in Transfers /\ calling # NoTransfer /\ xfer[calling].dev = d
  BY DEF Telling, IInv, TypeOK
<1>2. ~AfterCallback(calling)
  <2>1. AfterCallback(calling) => AfterNoDevice(calling)
    BY DEF AfterCallback, AfterCompleted, AfterError, Telling
  <2>2. AfterNoDevice(calling) => d \notin lost'
    BY <1>1 DEF AfterNoDevice, Detach, Telling
  <2> QED BY <2>1, <2>2
<1>3. CallStays
  BY <1>1, <1>2, CallingKept
<1>4. Current(calling)'
  BY <1>1, <1>3 DEF IInv, CallingIsSafe, CallStays
<1>5. handling'
  BY <1>1, HandlingKept DEF Telling
<1> QED BY <1>1, <1>3, <1>4, <1>5 DEF Telling, CallStays

(* A device that is lost with a transfer in flight and its descriptor in    *)
(* the epoll set is not forgotten: until it is detached there is always a   *)
(* next step of libusb or of dispatch_libusb on the way to the detach, and  *)
(* handle_event does not return in between, whatever other devices' events, *)
(* callbacks, opens and closes come first.  So UnplugIsNoticed needs only   *)
(* that these steps are taken.  (A script that is not careful can have the  *)
(* callback's end destroy the transfer it resubmitted.) *)
THEOREM UsbLossIsKept == ASSUME Careful PROVE Spec => LossIsKept
<1>1. Init => DevInv
  BY DEF Init, DevInv
<1>2. IInv /\ DevInv /\ [Next]_vars => DevInv'
  BY DevsKeep DEF IInv
<1>3. ASSUME IInv, IInv', DevInv, [Next]_vars, NEW d \in Devices, d \in lost, Noticing(d), d \in lost'
      PROVE  Noticing(d)'
  BY <1>3, FoundKept, EndingKept, TellingKept DEF Noticing
<1>4. IInv /\ IInv' /\ DevInv /\ [Next]_vars =>
        [\A d \in Devices : d \in lost /\ Noticing(d) => Noticing(d)' \/ d \notin lost']_vars
  BY <1>3
<1> QED BY <1>1, <1>2, <1>4, Invariant, PTL DEF Spec, LossIsKept
=============================================================================
