------------------------------- MODULE Ticker -------------------------------
(****************************************************************************)
(* aelkey.ticker: a periodic action of the global registry, set up, started *)
(* and stopped under its id.  The action is the script's; it is run by the  *)
(* heartbeat, and in the middle of start when "immediate" is set, and may   *)
(* stop or reset its own ticker.                                            *)
(****************************************************************************)
CONSTANT handler_key  \* the callback given to tick()

VARIABLES
  timers,     \* callbacks that have a timer (Timers' active)
  cut,        \* history: those that lost it to the script's tick(0, nil)
  registered, \* instances[id] exists
  active, immediate,
  fn,         \* an action is set
  leaked      \* history: the action ended its ticker while start was running

kvars == <<registered, active, immediate, fn, leaked>>

TypeOK ==
  /\ registered \in BOOLEAN /\ active \in BOOLEAN /\ immediate \in BOOLEAN
  /\ fn \in BOOLEAN /\ leaked \in BOOLEAN

Init ==
  /\ registered = FALSE /\ active = FALSE /\ immediate = FALSE
  /\ fn = FALSE /\ leaked = FALSE

-----------------------------------------------------------------------------
StartTimer == timers' = timers \cup {handler_key} /\ cut' = cut \ {handler_key}
StopTimer  == timers' = timers \ {handler_key} /\ UNCHANGED cut

(* set, creating the instance: what is not given is off ... *)
SetNew(f, imm) ==
  /\ ~registered /\ registered' = TRUE
  /\ fn' = f /\ immediate' = imm /\ active' = FALSE
  /\ UNCHANGED <<timers, cut, leaked>>

(* ... or updating it, also while it runs: what is not given is kept. *)
SetAgain(f, imm) ==
  /\ registered
  /\ fn' = (fn \/ f) /\ immediate' = imm
  /\ UNCHANGED <<timers, cut, registered, active, leaked>>

(* Mutant: an immediate ticker waits for its action before it is active. *)
startLate ==
  /\ registered /\ ~active
  /\ \E ends \in BOOLEAN :
       /\ ends => immediate /\ fn
       /\ active' = ~ends /\ leaked' = FALSE
       /\ IF ends THEN StopTimer
          ELSE IF immediate THEN UNCHANGED <<timers, cut>> ELSE StartTimer
  /\ UNCHANGED <<registered, immediate, fn>>

(* start: the action may stop the ticker, and the timer is set after that. *)
start ==
  /\ registered /\ ~active
  /\ \E ends \in BOOLEAN :
       /\ ends => immediate /\ fn
       /\ active' = ~ends /\ leaked' = ends
       /\ StartTimer
  /\ UNCHANGED <<registered, immediate, fn>>

stop ==
  /\ registered /\ active
  /\ active' = FALSE /\ StopTimer
  /\ UNCHANGED <<registered, immediate, fn, leaked>>

reset ==
  /\ registered
  /\ active' = FALSE /\ leaked' = FALSE /\ StopTimer
  /\ UNCHANGED <<registered, immediate, fn>>

(* The heartbeat: the action may stop the ticker. *)
handler ==
  /\ handler_key \in timers
  /\ \/ UNCHANGED <<timers, cut, active>>
     \/ active /\ fn /\ active' = FALSE /\ StopTimer
  /\ UNCHANGED <<registered, immediate, fn, leaked>>

Script == \/ \E f, imm \in BOOLEAN : SetNew(f, imm) \/ SetAgain(f, imm)
          \/ start \/ stop \/ reset

Next == Script \/ handler

-----------------------------------------------------------------------------
(* A started ticker has its timer until it is stopped, whatever is set or   *)
(* stopped from its own action in between; a stopped one has none, but for  *)
(* the one whose action stopped it in the middle of start.                  *)
TickerRuns ==
  /\ active => handler_key \in timers \cup cut
  /\ handler_key \in timers => active \/ leaked
=============================================================================
