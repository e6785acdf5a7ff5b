-------------------------------- MODULE Click --------------------------------
(****************************************************************************)
(* aelkey.click: single, double and triple clicks told apart by a window    *)
(* that opens with the first press.  A heartbeat from tick() measures it.   *)
(* The actions are the script's; they are run in the middle of detect and   *)
(* of the heartbeat, and do not call detect themselves (the reset after an  *)
(* action would wipe the session they start).                               *)
(****************************************************************************)
EXTENDS Naturals

CONSTANTS
  Buttons, NoButton,
  Thresholds,        \* heartbeats of a window, as configure may set them
  click_handler_key  \* the callback given to tick()

VARIABLES
  timers,           \* callbacks that have a timer (Timers' active)
  cut,              \* history: those that lost it to the script's tick(0, nil)
  tick_count, click_threshold, click_count, click_pending, click_last_code,
  actions,          \* of single_action, double_action, triple_action the given ones
  clicks,           \* history: presses of the session
  shrunk,           \* history: configure ended its window behind its back
  told              \* history: the sessions the last step answered

svars == <<tick_count, click_count, click_pending, click_last_code, actions, clicks, shrunk>>
cvars == <<svars, click_threshold, told>>

Levels == 1..3
Answer == [clicks : Nat, level : 0..3, actions : SUBSET Levels, shrunk : BOOLEAN]

TypeOK ==
  /\ tick_count \in Nat /\ click_threshold \in Thresholds
  /\ click_count \in 0..3 /\ click_pending \in BOOLEAN
  /\ click_last_code \in Buttons \cup {NoButton}
  /\ actions \subseteq Levels
  /\ clicks \in Nat /\ shrunk \in BOOLEAN
  /\ told \subseteq Answer

Init ==
  /\ tick_count = 0 /\ click_threshold \in Thresholds
  /\ click_count = 0 /\ click_pending = FALSE /\ click_last_code = NoButton
  /\ actions = {} /\ clicks = 0 /\ shrunk = FALSE /\ told = {}

-----------------------------------------------------------------------------
Cleared ==
  /\ tick_count' = 0 /\ click_count' = 0 /\ click_pending' = FALSE
  /\ click_last_code' = NoButton /\ actions' = {}
  /\ clicks' = 0 /\ shrunk' = FALSE

(* aelkey.tick(0, click_handler) *)
StopHeartbeat == timers' = timers \ {click_handler_key} /\ UNCHANGED cut

(* M.reset *)
reset == Cleared /\ StopHeartbeat

(* The script gives a session up. *)
Reset == reset /\ told' = {} /\ UNCHANGED click_threshold

configure(t) ==
  /\ click_threshold' = t
  /\ shrunk' = (shrunk \/ (click_pending /\ tick_count > t))
  /\ told' = {}
  /\ UNCHANGED <<timers, cut, tick_count, click_count, click_pending, click_last_code,
                 actions, clicks>>

-----------------------------------------------------------------------------
(* The action of a level, if there is one, is run for so many presses. *)
Answered(level, presses, given, cutShort) ==
  [clicks |-> presses, level |-> IF level \in given THEN level ELSE 0,
   actions |-> given, shrunk |-> cutShort]

(* What a press of another button gets for the session it ends: singles and *)
(* doubles only. *)
Flushed ==
  IF click_pending
  THEN {Answered(IF click_count \in 1..2 THEN click_count ELSE 0, clicks, actions, shrunk)}
  ELSE {}

(* Mutant: the heartbeat is started for triple clicks only. *)
FirstClickNoTimer(b, given) ==
  /\ ~(click_pending /\ b = click_last_code)
  /\ IF given \cap {2, 3} = {}
     THEN /\ told' = Flushed \cup {Answered(1, 1, given, FALSE)}
          /\ reset
     ELSE /\ told' = Flushed
          /\ tick_count' = 0 /\ click_count' = 1 /\ click_pending' = TRUE
          /\ click_last_code' = b /\ actions' = given
          /\ clicks' = 1 /\ shrunk' = FALSE
          /\ timers' = IF 3 \in given THEN timers \cup {click_handler_key} ELSE timers
          /\ UNCHANGED cut
  /\ UNCHANGED click_threshold

(* detect, the first press of a session: of a pending one's another button  *)
(* flushes it.  Without higher levels the answer is given at once. *)
FirstClick(b, given) ==
  /\ ~(click_pending /\ b = click_last_code)
  /\ IF given \cap {2, 3} = {}
     THEN /\ told' = Flushed \cup {Answered(1, 1, given, FALSE)}
          /\ reset
     ELSE /\ told' = Flushed
          /\ tick_count' = 0 /\ click_count' = 1 /\ click_pending' = TRUE
          /\ click_last_code' = b /\ actions' = given
          /\ clicks' = 1 /\ shrunk' = FALSE
          /\ timers' = timers \cup {click_handler_key}
          /\ cut' = cut \ {click_handler_key}
  /\ UNCHANGED click_threshold

(* Mutant: the last heartbeat of the window is out of it. *)
InWindowStrict == tick_count < click_threshold

InWindow == tick_count <= click_threshold

(* detect, another press of the same button: the actions it brings are not  *)
(* looked at, and after the window it is not counted. *)
NextClick(b) ==
  /\ click_pending /\ b = click_last_code
  /\ LET n == IF InWindow THEN click_count + 1 ELSE click_count
         answers == InWindow /\ ((n = 2 /\ 3 \notin actions) \/ (n = 3 /\ 3 \in actions))
     IN IF answers
        THEN told' = {Answered(n, clicks + 1, actions, shrunk)} /\ reset
        ELSE /\ click_count' = n /\ clicks' = clicks + 1 /\ told' = {}
             /\ UNCHANGED <<timers, cut, tick_count, click_pending, click_last_code, actions, shrunk>>
  /\ UNCHANGED click_threshold

(* The heartbeat: the window ends with the first one past the threshold. *)
click_handler ==
  /\ click_handler_key \in timers
  /\ IF click_pending /\ tick_count + 1 > click_threshold
     THEN told' = {Answered(click_count, clicks, actions, shrunk)} /\ reset
     ELSE /\ tick_count' = tick_count + 1 /\ told' = {}
          /\ UNCHANGED <<timers, cut, click_count, click_pending, click_last_code, actions,
                         clicks, shrunk>>
  /\ UNCHANGED click_threshold

(* What the script asks for.  A press past a window that configure ended    *)
(* changes nothing but the history, so one of them is enough. *)
Script ==
  \/ \E b \in Buttons : NextClick(b) /\ (InWindow \/ clicks = click_count)
  \/ \E b \in Buttons, given \in SUBSET Levels : FirstClick(b, given)
  \/ \E t \in Thresholds : configure(t)
  \/ Reset

Next == Script \/ click_handler

-----------------------------------------------------------------------------
(* Every answer is for as many clicks as were made: a session ends with the *)
(* action of its number of presses, or with none if the script gave none    *)
(* for that number.  No press is lost, and none is told twice.              *)
ClicksAreTold ==
  \A t \in told : t.shrunk \/ t.level = (IF t.clicks \in t.actions THEN t.clicks ELSE 0)

(* A press does not stay unanswered: the session of a button ends, whatever *)
(* else is pressed, unless the script took the heartbeat away.              *)
ClickEnds ==
  \A b \in Buttons :
    click_last_code = b ~> (click_last_code # b \/ click_handler_key \in cut)
=============================================================================
