---------------------------- MODULE TickScheduler ----------------------------
(****************************************************************************)
(* TickScheduler and core_tick: timers as timerfds in the epoll set.  One   *)
(* descriptor per timer, a payload for each in pollfds_, a callback for     *)
(* each in callbacks_.  The script calls tick() from its main chunk, from   *)
(* the callbacks of other dispatchers and from the timers' own callbacks,   *)
(* also while the expiry of another timer waits in the same epoll batch.    *)
(****************************************************************************)
EXTENDS Integers, FiniteSets

CONSTANTS
  Keys,     \* what tick() tells callbacks apart by: function identity or name
  NoKey,
  MaxFd     \* descriptors the process may have (RLIMIT_NOFILE)

Fds == 1..MaxFd

ASSUME TickAssumption == MaxFd \in Nat /\ NoKey \notin Keys

VARIABLES
  callbacks,  \* TickScheduler::callbacks_: fd -> key, NoKey when absent
  pollfds,    \* DispatcherBase::pollfds_: "none", "live" or "dead"
  interest,   \* descriptors in the epoll set
  open,       \* timerfds that are open
  expired,    \* those with an unread expiration
  batch,      \* events of the current epoll batch not handled yet
  inLua,      \* a script is running (main chunk or any callback)
  calling,    \* the key whose callback the scheduler runs, NoKey otherwise
  requested   \* history: the keys whose last tick() call set a timer

vars == <<callbacks, pollfds, interest, open, expired, batch, inLua, calling, requested>>

TypeOK ==
  /\ callbacks \in [Fds -> Keys \cup {NoKey}]
  /\ pollfds \in [Fds -> {"none", "live", "dead"}]
  /\ interest \subseteq Fds /\ open \subseteq Fds
  /\ expired \subseteq open
  /\ batch \subseteq Fds
  /\ inLua \in BOOLEAN
  /\ calling \in Keys \cup {NoKey}
  /\ requested \subseteq Keys

(* The script's main chunk runs first. *)
Init ==
  /\ callbacks = [f \in Fds |-> NoKey]
  /\ pollfds = [f \in Fds |-> "none"]
  /\ interest = {} /\ open = {} /\ expired = {} /\ batch = {}
  /\ inLua = TRUE
  /\ calling = NoKey
  /\ requested = {}

-----------------------------------------------------------------------------
(* Mutant: a function is compared with a name, and nothing matches. *)
MatchesNone(k) == {}

(* cancel_matching: the timers of a callback. *)
Matching(k) == {f \in Fds : callbacks[f] = k}
Scheduled   == {f \in Fds : callbacks[f] # NoKey}

(* Mutant: callbacks_ keeps the entry. *)
CancelledKeeps(C) ==
  /\ pollfds' = [f \in Fds |-> IF f \in C /\ pollfds[f] = "live" THEN "dead" ELSE pollfds[f]]
  /\ interest' = interest \ C
  /\ UNCHANGED callbacks

(* unregister_fd for every f in C, and its callback erased: the payload     *)
(* stays, dead, and the timerfd stays open, for only flush_deferred would   *)
(* call on_unregister, which closes it. *)
Cancelled(C) ==
  /\ callbacks' = [f \in Fds |-> IF f \in C THEN NoKey ELSE callbacks[f]]
  /\ pollfds' = [f \in Fds |-> IF f \in C /\ pollfds[f] = "live" THEN "dead" ELSE pollfds[f]]
  /\ interest' = interest \ C

LowestFree(f) == f \in Fds \ open /\ \A g \in Fds \ open : f <= g

(* tick(ms, k), ms > 0: cancel_matching, then schedule, when timerfd_create *)
(* finds a descriptor ... *)
TickSet(k) ==
  /\ inLua
  /\ \E f \in Fds :
       LET C == Matching(k) IN
       /\ LowestFree(f)
       /\ open' = open \cup {f}
       /\ callbacks' = [g \in Fds |-> IF g = f THEN k ELSE IF g \in C THEN NoKey ELSE callbacks[g]]
       /\ pollfds' = [g \in Fds |->
            IF g = f THEN IF pollfds[g] = "none" THEN "live" ELSE pollfds[g]
            ELSE IF g \in C /\ pollfds[g] = "live" THEN "dead" ELSE pollfds[g]]
       /\ interest' = (interest \ C) \cup {f}
  /\ requested' = requested \cup {k}
  /\ UNCHANGED <<expired, batch, inLua, calling>>

(* ... and when there is none left: the old timer is cancelled already. *)
TickSetFails(k) ==
  /\ inLua /\ open = Fds
  /\ Cancelled(Matching(k))
  /\ requested' = requested \ {k}
  /\ UNCHANGED <<open, expired, batch, inLua, calling>>

(* tick(0, k); also a negative ms, which timerfd_settime rejects after the  *)
(* cancel, the new descriptor being closed again at once. *)
TickCancel(k) ==
  /\ inLua
  /\ Cancelled(Matching(k))
  /\ requested' = requested \ {k}
  /\ UNCHANGED <<open, expired, batch, inLua, calling>>

(* tick(0, nil) *)
TickCancelAll ==
  /\ inLua
  /\ Cancelled(Scheduled)
  /\ requested' = {}
  /\ UNCHANGED <<open, expired, batch, inLua, calling>>

(* The callback, or the main chunk, returns to the loop. *)
Return ==
  /\ inLua
  /\ inLua' = FALSE /\ calling' = NoKey
  /\ UNCHANGED <<callbacks, pollfds, interest, open, expired, batch, requested>>

(* An event of another dispatcher calls the script, between two events of   *)
(* a batch. *)
OtherCallback ==
  /\ ~inLua
  /\ inLua' = TRUE
  /\ UNCHANGED <<callbacks, pollfds, interest, open, expired, batch, calling, requested>>

-----------------------------------------------------------------------------
(* The kernel: an armed timer expires, watched by epoll or not. *)
Expire(f) ==
  /\ f \in open \ expired
  /\ expired' = expired \cup {f}
  /\ UNCHANGED <<callbacks, pollfds, interest, open, batch, inLua, calling, requested>>

EpollWait ==
  /\ ~inLua /\ batch = {} /\ expired \cap interest # {}
  /\ batch' = expired \cap interest
  /\ UNCHANGED <<callbacks, pollfds, interest, open, expired, inLua, calling, requested>>

(* The loop passes over a dead payload. *)
SkipDead(f) ==
  /\ ~inLua /\ f \in batch /\ pollfds[f] = "dead"
  /\ batch' = batch \ {f}
  /\ UNCHANGED <<callbacks, pollfds, interest, open, expired, inLua, calling, requested>>

(* Mutant: the descriptor is watched for one event only. *)
HandleOneShot(f) ==
  /\ ~inLua /\ f \in batch /\ pollfds[f] = "live"
  /\ batch' = batch \ {f}
  /\ expired' = expired \ {f}
  /\ interest' = interest \ {f}
  /\ IF callbacks[f] # NoKey
     THEN inLua' = TRUE /\ calling' = callbacks[f]
     ELSE UNCHANGED <<inLua, calling>>
  /\ UNCHANGED <<callbacks, pollfds, open, requested>>

(* handle_event: the expiration is read, the callback looked up and called. *)
HandleEvent(f) ==
  /\ ~inLua /\ f \in batch /\ pollfds[f] = "live"
  /\ batch' = batch \ {f}
  /\ expired' = expired \ {f}
  /\ IF callbacks[f] # NoKey
     THEN inLua' = TRUE /\ calling' = callbacks[f]
     ELSE UNCHANGED <<inLua, calling>>
  /\ UNCHANGED <<callbacks, pollfds, interest, open, requested>>

Lua == \/ \E k \in Keys : TickSet(k) \/ TickSetFails(k) \/ TickCancel(k)
       \/ TickCancelAll \/ Return \/ OtherCallback
Loop == EpollWait \/ \E f \in Fds : SkipDead(f) \/ HandleEvent(f)
Next == Lua \/ Loop \/ \E f \in Fds : Expire(f)

Spec == Init /\ [][Next]_vars

(* Callbacks return, and a periodic timer keeps expiring.  The loop gets on *)
(* with its batch and back to epoll_wait: a batch is finite, so the events  *)
(* of other dispatchers hold it up only for a while (hence SF).             *)
FairSpec ==
  /\ Spec
  /\ WF_vars(Return) /\ SF_vars(EpollWait)
  /\ \A f \in Fds : /\ WF_vars(Expire(f))
                    /\ SF_vars(SkipDead(f)) /\ SF_vars(HandleEvent(f))

-----------------------------------------------------------------------------
(* A callback has at most one live timer, however often it is set again and *)
(* from whichever callback.                                                 *)
OneTimerPerKey ==
  \A f, g \in Fds :
    callbacks[f] # NoKey /\ callbacks[f] = callbacks[g] => f = g

(* callbacks_ and pollfds_ agree: a timer with a callback is watched by     *)
(* epoll through a live payload, so that it can fire; one without is not.   *)
CallbacksAreWatched ==
  \A f \in Fds : (callbacks[f] # NoKey) <=> (f \in interest /\ pollfds[f] = "live")

(* A timer that is left alone keeps calling its callback.                   *)
LeftAloneKeepsTicking ==
  \A f \in Fds : (<>[](pollfds[f] = "live")) => ([]<>(calling # NoKey /\ calling = callbacks[f]))

(* The scheduler does what Timers promises of the script's requests: in     *)
(* particular, a callback that was cancelled is not called, even when its   *)
(* expiry was in the batch already.                                         *)
Abstract == INSTANCE Timers WITH active <- requested
ImplementsTimers == Abstract!Spec
=============================================================================
