--------------------------- MODULE EventLoop_proofs ---------------------------
(****************************************************************************)
(* Proofs about EventLoop, for any set of devices.                          *)
(****************************************************************************)
EXTENDS EventLoop, TLAPS

(* The cleanup is entered only once loop_should_stop is set, and nothing    *)
(* sets it to FALSE again, so that the closed descriptor is never waited on *)
(* by a later start. *)
StopIsKept ==
  ~epfd \/ pc \in {"detach", "destroy", "teardown", "raise"} => loop_should_stop

(* What each stage of the cleanup leaves to the next. *)
Stages ==
  /\ pc = "detach" => input_map \subseteq ids
  /\ pc \in {"destroy", "teardown", "raise", "killed"} => input_map = {}
  /\ pc \in {"teardown", "raise", "killed"} => ~uinput_devices
  /\ pc \in {"raise", "killed"} => ~epfd

IInv == TypeOK /\ StopIsKept /\ Stages /\ NeverWaitsClosed

LEMMA InitIInv == Init => IInv
BY DEF Init, IInv, TypeOK, PCs, StopIsKept, Stages, NeverWaitsClosed

LEMMA LuaIInv == IInv /\ Lua => IInv'
<1> SUFFICES ASSUME IInv, Lua PROVE IInv'
  OBVIOUS
<1> USE DEF IInv, TypeOK, PCs, StopIsKept, Stages, NeverWaitsClosed, InLua
<1>1. ASSUME NEW d \in Devices, OpenDevice(d) PROVE IInv'
  BY <1>1 DEF OpenDevice
<1>2. ASSUME NEW d \in Devices, CloseDevice(d) PROVE IInv'
  BY <1>2 DEF CloseDevice
<1>3. CASE LoopStop
  BY <1>3 DEF LoopStop
<1>4. CASE LoopStart
  BY <1>4, LoopAssumption DEF LoopStart
<1>5. CASE Exit
  BY <1>5 DEF Exit
<1> QED
  BY <1>1, <1>2, <1>3, <1>4, <1>5 DEF Lua

LEMMA LoopIInv == IInv /\ Loop => IInv'
<1> SUFFICES ASSUME IInv, Loop PROVE IInv'
  OBVIOUS
<1> USE DEF IInv, TypeOK, PCs, StopIsKept, Stages, NeverWaitsClosed
<1>1. CASE Check
  BY <1>1 DEF Check
<1>2. CASE EnterWait
  BY <1>2 DEF EnterWait
<1>3. CASE WakeUp
  BY <1>3 DEF WakeUp
<1>4. CASE BatchDone
  BY <1>4 DEF BatchDone
<1>5. ASSUME NEW d \in Devices, Handle(d) PROVE IInv'
  BY <1>5 DEF Handle
<1>6. ASSUME NEW d \in Devices, DetachNext(d) PROVE IInv'
  BY <1>6 DEF DetachNext
<1>7. CASE DetachDone
  BY <1>7 DEF DetachDone
<1>8. CASE DestroyOutputs
  BY <1>8 DEF DestroyOutputs
<1>9. CASE CloseEpoll
  BY <1>9 DEF CloseEpoll
<1>10. CASE LoopReturn
  BY <1>10 DEF LoopReturn
<1> QED
  BY <1>1, <1>2, <1>3, <1>4, <1>5, <1>6, <1>7, <1>8, <1>9, <1>10 DEF Loop

LEMMA NextIInv == IInv /\ [Next]_vars => IInv'
<1> SUFFICES ASSUME IInv, [Next]_vars PROVE IInv'
  OBVIOUS
<1>1. CASE Lua
  BY <1>1, LuaIInv
<1>2. CASE Loop
  BY <1>2, LoopIInv
<1> USE DEF IInv, TypeOK, PCs, StopIsKept, Stages, NeverWaitsClosed
<1>3. CASE Signal
  BY <1>3 DEF Signal
<1>4. ASSUME NEW d \in Devices, Input(d) PROVE IInv'
  BY <1>4 DEF Input
<1>5. CASE UNCHANGED vars
  BY <1>5 DEF vars
<1> QED
  BY <1>1, <1>2, <1>3, <1>4, <1>5 DEF Next

LEMMA Invariant == Spec => []IInv
BY InitIInv, NextIInv, PTL DEF Spec

(* The loop's variables keep their types. *)
THEOREM TypeCorrect == Spec => []TypeOK
<1>1. IInv => TypeOK
  BY DEF IInv
<1> QED
  BY <1>1, Invariant, PTL

(* epoll_wait is never called on the descriptor the cleanup closed, however *)
(* often the script calls start again.                                      *)
THEOREM ClosedIsNotWaitedOn == Spec => []NeverWaitsClosed
<1>1. IInv => NeverWaitsClosed
  BY DEF IInv
<1> QED
  BY <1>1, Invariant, PTL

(* When start returns, or the process dies of the signal it caught, every   *)
(* device is detached, the outputs are destroyed and epoll is closed.       *)
THEOREM ShutdownIsClean == Spec => []CleanShutdown
<1>1. IInv => CleanShutdown
  BY DEF IInv, Stages, CleanShutdown
<1> QED
  BY <1>1, Invariant, PTL

-----------------------------------------------------------------------------
(****************************************************************************)
(* What is safety in StopEndsLoop.  The places of the thread, from handlers *)
(* to the end, once the loop was told to stop.                              *)
(****************************************************************************)
Leads == [handle |-> {"check"}, check |-> {"detach"}, detach |-> {"destroy"},
          destroy |-> {"teardown"}, teardown |-> {"raise"}, raise |-> {"script", "killed"}]

Advances ==
  loop_should_stop /\ pc \in DOMAIN Leads =>
    /\ loop_should_stop'
    /\ \/ pc' \in Leads[pc]
       \/ /\ pc' = pc /\ batch' \subseteq batch /\ ids' \subseteq ids
          /\ Loop => batch' # batch \/ ids' # ids

StopAdvances == [][Advances]_vars

(* A step that is none of the loop's moves no place and adds no work. *)
LEMMA OthersAdvance ==
  ASSUME TypeOK, Lua \/ Signal \/ \E d \in Devices : Input(d), pc \in DOMAIN Leads
  PROVE  /\ pc' = pc /\ UNCHANGED ids /\ batch' \subseteq batch
         /\ loop_should_stop => loop_should_stop'
<1>1. pc \notin {"script", "wait"}
  BY DEF Leads
<1>2. CASE Signal
  BY <1>1, <1>2 DEF Signal
<1>3. CASE \E d \in Devices : Input(d)
  BY <1>3 DEF Input
<1>4. CASE \E d \in Devices : OpenDevice(d) \/ CloseDevice(d)
  BY <1>4 DEF OpenDevice, CloseDevice
<1>5. CASE LoopStop
  BY <1>5 DEF LoopStop
<1>6. CASE LoopStart \/ Exit
  BY <1>1, <1>6 DEF LoopStart, Exit
<1> QED BY <1>2, <1>3, <1>4, <1>5, <1>6 DEF Lua

(* A step of the loop goes on to the next place, or has less to do there.   *)
LEMMA LoopAdvances ==
  ASSUME TypeOK, Loop, loop_should_stop, pc \in DOMAIN Leads
  PROVE  /\ loop_should_stop'
         /\ \/ pc' \in Leads[pc]
            \/ /\ pc' = pc /\ batch' \subseteq batch /\ ids' \subseteq ids
               /\ batch' # batch \/ ids' # ids
<1> USE DEF Leads
<1>1. CASE Check
  BY <1>1 DEF Check
<1>2. CASE EnterWait \/ WakeUp
  BY <1>2 DEF EnterWait, WakeUp
<1>3. CASE BatchDone
  BY <1>3 DEF BatchDone
<1>4. ASSUME NEW d \in Devices, Handle(d)
      PROVE  /\ UNCHANGED <<pc, loop_should_stop, ids>>
             /\ batch' \subseteq batch /\ batch' # batch
  BY <1>4 DEF Handle
<1>5. ASSUME NEW d \in Devices, DetachNext(d)
      PROVE  /\ UNCHANGED <<pc, loop_should_stop, batch>>
             /\ ids' \subseteq ids /\ ids' # ids
  BY <1>5 DEF DetachNext
<1>6. CASE DetachDone
  BY <1>6 DEF DetachDone
<1>7. CASE DestroyOutputs
  BY <1>7 DEF DestroyOutputs
<1>8. CASE CloseEpoll
  BY <1>8 DEF CloseEpoll
<1>9. CASE LoopReturn
  BY <1>9 DEF LoopReturn
<1> QED BY <1>1, <1>2, <1>3, <1>4, <1>5, <1>6, <1>7, <1>8, <1>9 DEF Loop

(* Once the loop is to stop, every step of the loop takes an event off the  *)
(* batch, a device off the cleanup's list, or the thread to its next place, *)
(* and nothing the script, a device or a signal does meanwhile gives it     *)
(* more to do or brings it back: StopEndsLoop needs nothing but that the    *)
(* loop's steps are taken and that batch and list are finite.               *)
THEOREM StopNeverTurnsBack == Spec => StopAdvances
<1>1. ASSUME TypeOK, [Next]_vars PROVE Advances \/ UNCHANGED vars
  <2> SUFFICES ASSUME loop_should_stop, pc \in DOMAIN Leads, Next PROVE Advances
    BY <1>1 DEF Advances
  <2>1. CASE Loop
    BY <1>1, <2>1, LoopAdvances DEF Advances
  <2>2. CASE ~Loop
    BY <1>1, <2>2, OthersAdvance DEF Advances, Next
  <2> QED BY <2>1, <2>2
<1> QED
  BY <1>1, TypeCorrect, PTL DEF Spec, StopAdvances
=============================================================================
