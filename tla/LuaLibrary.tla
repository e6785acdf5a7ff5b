----------------------------- MODULE LuaLibrary -----------------------------
(****************************************************************************)
(* The stateful helpers of the Lua library in one script: click, sequence   *)
(* and ticker, which share the timers of tick(), touchpad and mouse, which  *)
(* share aelkey.edge with the script, and keyboard, whose module this one   *)
(* extends.  Lua is one thread: a call, with the functions it calls, is one *)
(* step.  Timers are those of the module Timers: a callback has at most     *)
(* one, and is not called without.                                          *)
(*                                                                          *)
(* Each helper has its own callback for tick(), and none calls another: all *)
(* they do to each other is that tick(0, nil), meant for the script's own   *)
(* timers, takes theirs.  A behaviour therefore uses one helper, and        *)
(* tick(0, nil) comes at any time.                                          *)
(****************************************************************************)
EXTENDS Keyboard, Integers, Sequences

CONSTANTS
  Buttons, NoButton,
  Thresholds,                         \* click and sequence
  Patterns, MaxPatterns, MaxPresses,  \* sequence
  max_slots, MaxTid, BtnId,           \* touchpad
  MouseButtons                        \* mouse

(* add_pattern ignores an empty pattern; one that begins with the same       *)
(* button twice is left out, see Sequence.  The code of a button is not      *)
(* that of a tool. *)
ASSUME LibraryAssumption ==
  /\ Thresholds \subseteq Nat
  /\ Patterns \subseteq Seq(Buttons) \ {<<>>}
  /\ \A p \in Patterns : Len(p) > 1 => p[1] # p[2]
  /\ max_slots \in Nat /\ MaxTid \in Nat \ {0}
  /\ BtnId \notin {"TOUCH", "FINGER", "DOUBLETAP", "TRIPLETAP", "QUADTAP"}

ClickKey  == "click_handler"
SeqKey    == "sequence_handler"
TickKey   == "ticker_handler"
Callbacks == {ClickKey, SeqKey, TickKey}

VARIABLES
  helper,  \* the one the script uses
  timers, cut,
  tick_count, click_threshold, click_count, click_pending, click_last_code, actions,
  clicks, shrunk, told,
  threshold, stream, patterns, progress, seq_ticks, seq_active, match_fn, timeout_fn, seen, last,
  registered, ticking, immediate, fn, leaked,
  last_state, active_ids,
  mode, contacts, slots, next_tracking_id, basic_tid, tool_keys_down, in_frame,
  mt, keys_down,
  mouse_state, mouse_active, mouse_down, reported, via, lost

C == INSTANCE Click WITH click_handler_key <- ClickKey
S == INSTANCE Sequence WITH handler_key <- SeqKey, tick_count <- seq_ticks, active <- seq_active
K == INSTANCE Ticker WITH handler_key <- TickKey, active <- ticking
P == INSTANCE Touchpad
M == INSTANCE Mouse WITH last_state <- mouse_state, active_ids <- mouse_active, down <- mouse_down

timerVars    == <<timers, cut>>
clickVars    == <<tick_count, click_threshold, click_count, click_pending, click_last_code,
                  actions, clicks, shrunk, told>>
sequenceVars == <<threshold, stream, patterns, progress, seq_ticks, seq_active, match_fn,
                  timeout_fn, seen, last>>
tickerVars   == <<registered, ticking, immediate, fn, leaked>>
touchpadVars == <<last_state, active_ids, mode, contacts, slots, next_tracking_id, basic_tid,
                  tool_keys_down, in_frame, mt, keys_down>>
mouseVars    == <<mouse_state, mouse_active, mouse_down, reported, via, lost>>
libraryVars ==
  <<helper, timerVars, clickVars, sequenceVars, tickerVars, touchpadVars, mouseVars>>
allVars == <<vars, libraryVars>>

Helpers == {"click", "sequence", "ticker", "touchpad", "mouse", "keyboard"}

LibraryInit ==
  /\ helper \in Helpers
  /\ timers = {} /\ cut = {}
  /\ C!Init /\ S!Init /\ K!Init /\ P!Init /\ M!Init /\ Init
  /\ helper = "click" \/ \A t \in Thresholds : click_threshold <= t
  /\ helper = "sequence" \/ (~stream /\ \A t \in Thresholds : threshold <= t)
  /\ helper = "touchpad" \/ mode = "basic"

(* aelkey.tick(0, nil), called by the script, takes the helpers' timers too. *)
CancelAll ==
  /\ timers # {}
  /\ timers' = {} /\ cut' = cut \cup timers
  /\ UNCHANGED <<vars, helper, clickVars, sequenceVars, tickerVars, touchpadVars, mouseVars>>

UseClick ==
  /\ helper = "click" /\ C!Next
  /\ UNCHANGED <<vars, helper, sequenceVars, tickerVars, touchpadVars, mouseVars>>
UseSequence ==
  /\ helper = "sequence" /\ S!Next
  /\ UNCHANGED <<vars, helper, clickVars, tickerVars, touchpadVars, mouseVars>>
UseTicker ==
  /\ helper = "ticker" /\ K!Next
  /\ UNCHANGED <<vars, helper, clickVars, sequenceVars, touchpadVars, mouseVars>>
UseTouchpad ==
  /\ helper = "touchpad" /\ P!Next
  /\ UNCHANGED <<vars, helper, timerVars, clickVars, sequenceVars, tickerVars, mouseVars>>
UseMouse ==
  /\ helper = "mouse" /\ M!Next
  /\ UNCHANGED <<vars, helper, timerVars, clickVars, sequenceVars, tickerVars, touchpadVars>>
UseKeyboard ==
  /\ helper = "keyboard" /\ Next
  /\ UNCHANGED libraryVars

LibraryNext ==
  UseClick \/ UseSequence \/ UseTicker \/ UseTouchpad \/ UseMouse \/ UseKeyboard \/ CancelAll

LibrarySpec == LibraryInit /\ [][LibraryNext]_allVars

ClickTicks ==
  C!click_handler /\ UNCHANGED <<vars, helper, sequenceVars, tickerVars, touchpadVars, mouseVars>>
SeqTicks ==
  S!handler /\ UNCHANGED <<vars, helper, clickVars, tickerVars, touchpadVars, mouseVars>>

(* A timer that is set keeps firing (LeftAloneKeepsTicking of TickScheduler). *)
LibraryFairSpec == LibrarySpec /\ WF_allVars(ClickTicks) /\ WF_allVars(SeqTicks)

-----------------------------------------------------------------------------
(* The values the helpers' variables take.                                  *)
LibraryTypeOK ==
  /\ timers \subseteq Callbacks /\ cut \subseteq Callbacks
  /\ C!TypeOK /\ S!TypeOK /\ K!TypeOK /\ P!TypeOK /\ M!TypeOK

(* Those of the helpers' modules. *)
ClicksAreTold    == C!ClicksAreTold
ClickEnds        == C!ClickEnds
SequenceMatches  == S!SequenceMatches
TimeoutFiresOnce == S!TimeoutFiresOnce
SequenceEnds     == S!SequenceEnds
TickerRuns       == K!TickerRuns
ContactsAgree    == P!ContactsAgree
ButtonsFollow    == M!ButtonsFollow
=============================================================================
