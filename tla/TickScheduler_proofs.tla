------------------------ MODULE TickScheduler_proofs ------------------------
(****************************************************************************)
(* Proofs about TickScheduler, for any set of callbacks and any number of   *)
(* descriptors: its invariants, that it implements Timers, and that no      *)
(* expiry is lost.                                                          *)
(****************************************************************************)
EXTENDS TickScheduler, TLAPS

(* A descriptor that was never opened has no payload: timerfds are never    *)
(* closed, so that register_fd always creates a fresh, live payload.        *)
Fresh == \A f \in Fds \ open : pollfds[f] = "none"

(* The scheduler is in a callback only while a script runs. *)
CallingInLua == ~inLua => calling = NoKey

(* callbacks_ holds exactly what the script asked for. *)
RequestsHeld == \A k \in Keys : k \in requested <=> Matching(k) # {}

IInv ==
  /\ TypeOK
  /\ OneTimerPerKey
  /\ CallbacksAreWatched
  /\ Fresh
  /\ CallingInLua
  /\ RequestsHeld

(* The invariants hold initially. *)
LEMMA InitIInv == Init => IInv
  BY TickAssumption
  DEF Init, IInv, TypeOK, OneTimerPerKey, CallbacksAreWatched, Fresh, CallingInLua,
      RequestsHeld, Matching

(* Cancelling any set of timers keeps the invariants, whichever they are.   *)
LEMMA CancelledIInv ==
  ASSUME IInv, NEW C \in SUBSET Fds, Cancelled(C),
         UNCHANGED <<open, expired, batch, inLua, calling>>,
         requested' \subseteq Keys, RequestsHeld'
  PROVE  IInv'
<1> USE DEF Cancelled
<1>1. TypeOK'
  BY DEF IInv, TypeOK
<1>2. OneTimerPerKey'
  BY DEF IInv, TypeOK, OneTimerPerKey
<1>3. CallbacksAreWatched'
  BY DEF IInv, TypeOK, CallbacksAreWatched
<1>4. Fresh' /\ CallingInLua'
  BY DEF IInv, TypeOK, Fresh, CallingInLua
<1> QED
  BY <1>1, <1>2, <1>3, <1>4 DEF IInv

(* Cancelling the timers of a key, or all, is what the script asked for.    *)
LEMMA CancelledRequests ==
  ASSUME IInv, NEW C \in SUBSET Fds, Cancelled(C),
         \/ \E k \in Keys : C = Matching(k) /\ requested' = requested \ {k}
         \/ C = Scheduled /\ requested' = {}
  PROVE  requested' \subseteq Keys /\ RequestsHeld'
<1>1. requested' \subseteq Keys
  BY DEF IInv, TypeOK
<1>2. \A l \in Keys : Matching(l)' = Matching(l) \ C
  BY TickAssumption DEF Matching, Cancelled
<1>3. CASE C = Scheduled /\ requested' = {}
  <2>1. \A l \in Keys : Matching(l)' = {}
    BY <1>2, <1>3, TickAssumption DEF Matching, Scheduled
  <2> QED
    BY <1>1, <1>3, <2>1 DEF RequestsHeld
<1>4. ASSUME NEW k \in Keys, C = Matching(k), requested' = requested \ {k}
      PROVE  RequestsHeld'
  <2>1. Matching(k)' = {}
    BY <1>2, <1>4
  <2>2. \A l \in Keys \ {k} : Matching(l)' = Matching(l)
    BY <1>2, <1>4 DEF Matching
  <2> QED
    BY <1>4, <2>1, <2>2 DEF IInv, RequestsHeld
<1> QED
  BY <1>1, <1>3, <1>4

(* Setting a timer keeps them: the descriptor it gets is fresh, and the old *)
(* timer of the key is cancelled first. *)
LEMMA TickSetIInv ==
  ASSUME IInv, NEW k \in Keys, TickSet(k)
  PROVE  IInv'
<1> DEFINE C == Matching(k)
<1>1. PICK f \in Fds :
        /\ LowestFree(f)
        /\ open' = open \cup {f}
        /\ callbacks' = [g \in Fds |-> IF g = f THEN k ELSE IF g \in C THEN NoKey ELSE callbacks[g]]
        /\ pollfds' = [g \in Fds |->
             IF g = f THEN IF pollfds[g] = "none" THEN "live" ELSE pollfds[g]
             ELSE IF g \in C /\ pollfds[g] = "live" THEN "dead" ELSE pollfds[g]]
        /\ interest' = (interest \ C) \cup {f}
  BY DEF TickSet
<1>2. UNCHANGED <<expired, batch, inLua, calling>> /\ requested' = requested \cup {k}
  BY DEF TickSet
<1>3. f \notin open /\ pollfds[f] = "none" /\ callbacks[f] = NoKey
  BY <1>1 DEF LowestFree, IInv, TypeOK, Fresh, CallbacksAreWatched
<1>4. k # NoKey
  BY TickAssumption
<1>5. \A g \in Fds : g \in C <=> callbacks[g] = k
  BY DEF Matching
<1> HIDE DEF C
<1>6. TypeOK'
  BY <1>1, <1>2 DEF IInv, TypeOK
<1>7. OneTimerPerKey'
  <2>1. \A g \in Fds : callbacks'[g] = k => g = f
    BY <1>1, <1>4, <1>5
  <2>2. \A g \in Fds : callbacks'[g] # NoKey /\ callbacks'[g] # k => callbacks'[g] = callbacks[g]
    BY <1>1
  <2> QED
    BY <2>1, <2>2 DEF IInv, OneTimerPerKey
<1>8. CallbacksAreWatched'
  BY <1>1, <1>3, <1>4, <1>5 DEF IInv, TypeOK, CallbacksAreWatched
<1>9. Fresh' /\ CallingInLua'
  BY <1>1, <1>2, <1>3, <1>5, <1>4 DEF IInv, TypeOK, Fresh, CallingInLua, CallbacksAreWatched
<1>10. RequestsHeld'
  <2>1. Matching(k)' = {f}
    BY <1>1, <1>4, <1>5 DEF Matching
  <2>2. \A l \in Keys \ {k} : Matching(l)' = Matching(l)
    BY <1>1, <1>3, <1>5, TickAssumption DEF Matching
  <2> QED
    BY <1>2, <2>1, <2>2 DEF IInv, RequestsHeld
<1> QED
  BY <1>6, <1>7, <1>8, <1>9, <1>10 DEF IInv

(* Every step keeps the invariants. *)
LEMMA NextIInv == IInv /\ [Next]_vars => IInv'
<1> SUFFICES ASSUME IInv, [Next]_vars PROVE IInv'
  OBVIOUS
<1>1. ASSUME NEW k \in Keys, TickSet(k) PROVE IInv'
  BY <1>1, TickSetIInv
<1>2. ASSUME NEW k \in Keys, TickSetFails(k) PROVE IInv'
  BY <1>2, CancelledIInv, CancelledRequests DEF TickSetFails, Matching
<1>3. ASSUME NEW k \in Keys, TickCancel(k) PROVE IInv'
  BY <1>3, CancelledIInv, CancelledRequests DEF TickCancel, Matching
<1>4. CASE TickCancelAll
  BY <1>4, CancelledIInv, CancelledRequests DEF TickCancelAll, Scheduled
<1> USE DEF IInv, TypeOK, OneTimerPerKey, CallbacksAreWatched, Fresh, CallingInLua, RequestsHeld, Matching
<1>5. CASE Return
  BY <1>5 DEF Return
<1>6. CASE OtherCallback
  BY <1>6 DEF OtherCallback
<1>7. ASSUME NEW f \in Fds, Expire(f) PROVE IInv'
  BY <1>7 DEF Expire
<1>8. CASE EpollWait
  BY <1>8 DEF EpollWait
<1>9. ASSUME NEW f \in Fds, SkipDead(f) PROVE IInv'
  BY <1>9 DEF SkipDead
<1>10. ASSUME NEW f \in Fds, HandleEvent(f) PROVE IInv'
  BY <1>10 DEF HandleEvent
<1>11. CASE UNCHANGED vars
  BY <1>11 DEF vars
<1> QED
  BY <1>1, <1>2, <1>3, <1>4, <1>5, <1>6, <1>7, <1>8, <1>9, <1>10, <1>11
  DEF Next, Lua, Loop

(* The invariants together are one of the specification. *)
LEMMA IInvHolds == Spec => []IInv
  BY InitIInv, NextIInv, PTL DEF Spec

(* TickScheduler's variables keep their types.                              *)
THEOREM TypeCorrect == Spec => []TypeOK
<1>1. IInv => TypeOK
  BY DEF IInv
<1> QED
  BY <1>1, IInvHolds, PTL

(* tick() never leaves a callback with two timers: cancel_matching finds    *)
(* the one an earlier call, from whatever callback, had scheduled.          *)
THEOREM AtMostOneTimer == Spec => []OneTimerPerKey
<1>1. IInv => OneTimerPerKey
  BY DEF IInv
<1> QED
  BY <1>1, IInvHolds, PTL

(* A callback is scheduled exactly when epoll watches its descriptor        *)
(* through a payload the loop does not pass over.                           *)
THEOREM ScheduledIsWatched == Spec => []CallbacksAreWatched
<1>1. IInv => CallbacksAreWatched
  BY DEF IInv
<1> QED
  BY <1>1, IInvHolds, PTL

-----------------------------------------------------------------------------
(* Each step of the scheduler is a step of Timers or leaves it unchanged. *)
LEMMA StepSimulation == IInv /\ [Next]_vars => [Abstract!Next]_(Abstract!tvars)
<1> SUFFICES ASSUME IInv, [Next]_vars
             PROVE  [Abstract!Next]_(Abstract!tvars)
  OBVIOUS
<1> USE DEF Abstract!Next, Abstract!tvars
<1>1. ASSUME NEW k \in Keys, TickSet(k) PROVE Abstract!Set(k)
  BY <1>1 DEF TickSet, Abstract!Set
<1>2. ASSUME NEW k \in Keys, TickSetFails(k) \/ TickCancel(k) PROVE Abstract!Cancel(k)
  BY <1>2 DEF TickSetFails, TickCancel, Abstract!Cancel
<1>3. CASE TickCancelAll
  BY <1>3 DEF TickCancelAll, Abstract!CancelAll
<1>4. CASE Return
  BY <1>4 DEF Return, Abstract!Return
<1>5. ASSUME NEW f \in Fds, HandleEvent(f)
      PROVE  (\E k \in Keys : Abstract!Fire(k)) \/ UNCHANGED <<requested, calling>>
  <2>1. CASE callbacks[f] = NoKey
    BY <1>5, <2>1 DEF HandleEvent
  <2>2. CASE callbacks[f] # NoKey
    <3>1. callbacks[f] \in Keys /\ callbacks[f] \in requested
      BY <2>2 DEF IInv, TypeOK, RequestsHeld, Matching
    <3>2. Abstract!Fire(callbacks[f])
      BY <1>5, <2>2, <3>1 DEF HandleEvent, Abstract!Fire, IInv, CallingInLua
    <3> QED
      BY <3>1, <3>2
  <2> QED
    BY <2>1, <2>2
<1>6. CASE OtherCallback \/ EpollWait \/ UNCHANGED vars
  BY <1>6 DEF OtherCallback, EpollWait, vars
<1>7. ASSUME NEW f \in Fds, SkipDead(f) \/ Expire(f) PROVE UNCHANGED <<requested, calling>>
  BY <1>7 DEF SkipDead, Expire
<1> QED
  BY <1>1, <1>2, <1>3, <1>4, <1>5, <1>6, <1>7 DEF Next, Lua, Loop

(* The scheduler implements Timers: in particular a callback that was       *)
(* cancelled, even by an earlier callback of the batch its expiry is in, is *)
(* not called.                                                              *)
THEOREM Refinement == Spec => ImplementsTimers
<1>1. Init => Abstract!Init
  BY DEF Init, Abstract!Init
<1> QED
  BY <1>1, StepSimulation, IInvHolds, PTL DEF Spec, ImplementsTimers, Abstract!Spec

-----------------------------------------------------------------------------
(****************************************************************************)
(* What is safety in LeftAloneKeepsTicking.                                 *)
(****************************************************************************)
(* An event of the batch has an expiration to read, so that handle_event    *)
(* calls nothing without one, however long the batch and whatever tick()    *)
(* was called meanwhile. *)
BatchIsExpired == batch \subseteq expired

(* A live payload has a callback: handle_event always finds one. *)
LiveIsScheduled == \A f \in Fds : pollfds[f] = "live" => callbacks[f] # NoKey

LEMMA NextExpired ==
  ASSUME IInv, BatchIsExpired, LiveIsScheduled, [Next]_vars
  PROVE  BatchIsExpired' /\ LiveIsScheduled'
<1> USE DEF BatchIsExpired, LiveIsScheduled
<1>1. ASSUME NEW k \in Keys, TickSet(k) PROVE BatchIsExpired' /\ LiveIsScheduled'
  <2>1. k # NoKey
    BY TickAssumption
  <2> QED BY <1>1, <2>1 DEF TickSet, Matching
<1>2. ASSUME NEW C \in SUBSET Fds, Cancelled(C), UNCHANGED <<batch, expired>>
      PROVE  BatchIsExpired' /\ LiveIsScheduled'
  BY <1>2 DEF Cancelled
<1>3. ASSUME NEW k \in Keys, TickSetFails(k) \/ TickCancel(k)
      PROVE  BatchIsExpired' /\ LiveIsScheduled'
  <2>1. Matching(k) \in SUBSET Fds
    BY DEF Matching
  <2> QED BY <1>2, <1>3, <2>1 DEF TickSetFails, TickCancel
<1>4. ASSUME TickCancelAll PROVE BatchIsExpired' /\ LiveIsScheduled'
  <2>1. Scheduled \in SUBSET Fds
    BY DEF Scheduled
  <2> QED BY <1>2, <1>4, <2>1 DEF TickCancelAll
<1>5. ASSUME Return \/ OtherCallback \/ EpollWait \/ UNCHANGED vars
      PROVE  BatchIsExpired' /\ LiveIsScheduled'
  BY <1>5 DEF Return, OtherCallback, EpollWait, vars
<1>6. ASSUME NEW f \in Fds, SkipDead(f) \/ HandleEvent(f) \/ Expire(f)
      PROVE  BatchIsExpired' /\ LiveIsScheduled'
  BY <1>6 DEF SkipDead, HandleEvent, Expire
<1> QED BY <1>1, <1>3, <1>4, <1>5, <1>6 DEF Next, Lua, Loop

(* handle_event never calls a callback for a timer that has not expired     *)
(* since its last call, and never finds a live timer without its callback.  *)
THEOREM CallsAreDue == Spec => [](BatchIsExpired /\ LiveIsScheduled)
<1>1. Init => BatchIsExpired /\ LiveIsScheduled
  BY DEF Init, BatchIsExpired, LiveIsScheduled
<1>2. IInv /\ (BatchIsExpired /\ LiveIsScheduled) /\ [Next]_vars
        => (BatchIsExpired /\ LiveIsScheduled)'
  BY NextExpired
<1> QED BY <1>1, <1>2, IInvHolds, PTL DEF Spec

Due(f)       == pollfds[f] = "live" /\ f \in expired
Called(f)    == ~inLua /\ inLua' /\ calling' = callbacks[f] /\ calling' # NoKey
Cancelling(f) == inLua /\ callbacks'[f] = NoKey /\ pollfds'[f] = "dead"

ExpiryIsKept ==
  [][\A f \in Fds : Due(f) => \/ Due(f)' /\ callbacks'[f] = callbacks[f]
                              \/ Called(f) \/ Cancelling(f)]_vars

(* Cancelling leaves the timers it is not for as they are. *)
LEMMA CancelledLeaves ==
  ASSUME IInv, NEW C \in SUBSET Fds, Cancelled(C), UNCHANGED expired, inLua,
         NEW f \in Fds, Due(f)
  PROVE  (Due(f)' /\ callbacks'[f] = callbacks[f]) \/ Cancelling(f)
<1>1. CASE f \in C
  BY <1>1 DEF Cancelled, Cancelling, Due
<1>2. CASE f \notin C
  BY <1>2 DEF Cancelled, Due
<1> QED BY <1>1, <1>2

LEMMA SetLeaves ==
  ASSUME IInv, NEW k \in Keys, TickSet(k), NEW f \in Fds, Due(f)
  PROVE  (Due(f)' /\ callbacks'[f] = callbacks[f]) \/ Cancelling(f)
<1>1. PICK g \in Fds :
        /\ LowestFree(g)
        /\ callbacks' = [h \in Fds |->
             IF h = g THEN k ELSE IF h \in Matching(k) THEN NoKey ELSE callbacks[h]]
        /\ pollfds' = [h \in Fds |->
             IF h = g THEN IF pollfds[h] = "none" THEN "live" ELSE pollfds[h]
             ELSE IF h \in Matching(k) /\ pollfds[h] = "live" THEN "dead" ELSE pollfds[h]]
  BY DEF TickSet
<1>2. f \in open /\ expired' = expired /\ inLua
  BY DEF Due, IInv, TypeOK, TickSet
<1>3. f # g
  BY <1>1, <1>2 DEF LowestFree
<1>4. CASE f \in Matching(k)
  BY <1>1, <1>2, <1>3, <1>4 DEF Cancelling, Due
<1>5. CASE f \notin Matching(k)
  BY <1>1, <1>2, <1>3, <1>5 DEF Due
<1> QED BY <1>4, <1>5

(* An expiry of a scheduled timer waits until its callback is called for    *)
(* it: no other timer's tick(), no descriptor handed out and no event of    *)
(* the batch loses it or gives it to another callback; only a tick() of the *)
(* script that cancels the timer takes it back.  So LeftAloneKeepsTicking   *)
(* needs only that the loop comes round.                                    *)
THEOREM ExpiriesAreKept == Spec => ExpiryIsKept
<1>1. ASSUME IInv, LiveIsScheduled, [Next]_vars, NEW f \in Fds, Due(f)
      PROVE  (Due(f)' /\ callbacks'[f] = callbacks[f]) \/ Called(f) \/ Cancelling(f)
  <2> USE <1>1
  <2>1. ASSUME NEW k \in Keys, TickSet(k)
        PROVE  (Due(f)' /\ callbacks'[f] = callbacks[f]) \/ Cancelling(f)
    BY <2>1, SetLeaves
  <2>2. ASSUME NEW k \in Keys, TickSetFails(k) \/ TickCancel(k)
        PROVE  (Due(f)' /\ callbacks'[f] = callbacks[f]) \/ Cancelling(f)
    <3>1. Matching(k) \in SUBSET Fds
      BY DEF Matching
    <3> QED BY <2>2, <3>1, CancelledLeaves DEF TickSetFails, TickCancel
  <2>3. ASSUME TickCancelAll
        PROVE  (Due(f)' /\ callbacks'[f] = callbacks[f]) \/ Cancelling(f)
    <3>1. Scheduled \in SUBSET Fds
      BY DEF Scheduled
    <3> QED BY <2>3, <3>1, CancelledLeaves DEF TickCancelAll
  <2>4. ASSUME Return \/ OtherCallback \/ EpollWait \/ UNCHANGED vars
        PROVE  Due(f)' /\ callbacks'[f] = callbacks[f]
    BY <2>4 DEF Return, OtherCallback, EpollWait, vars, Due
  <2>5. ASSUME NEW g \in Fds, SkipDead(g) \/ Expire(g)
        PROVE  Due(f)' /\ callbacks'[f] = callbacks[f]
    BY <2>5 DEF SkipDead, Expire, Due
  <2>6. ASSUME NEW g \in Fds, HandleEvent(g)
        PROVE  (Due(f)' /\ callbacks'[f] = callbacks[f]) \/ Called(f)
    <3>1. CASE g # f
      BY <2>6, <3>1 DEF HandleEvent, Due
    <3>2. CASE g = f
      <4>1. callbacks[f] # NoKey
        BY DEF LiveIsScheduled, Due
      <4> QED BY <2>6, <3>2, <4>1 DEF HandleEvent, Called
    <3> QED BY <3>1, <3>2
  <2> QED BY <2>1, <2>2, <2>3, <2>4, <2>5, <2>6 DEF Next, Lua, Loop
<1>2. IInv /\ (BatchIsExpired /\ LiveIsScheduled) /\ [Next]_vars =>
        [\A f \in Fds : Due(f) => \/ Due(f)' /\ callbacks'[f] = callbacks[f]
                                  \/ Called(f) \/ Cancelling(f)]_vars
  BY <1>1
<1> QED BY <1>2, CallsAreDue, IInvHolds, PTL DEF Spec, ExpiryIsKept
=============================================================================
