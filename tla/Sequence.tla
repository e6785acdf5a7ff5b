------------------------------ MODULE Sequence ------------------------------
(****************************************************************************)
(* aelkey.sequence: patterns of buttons, matched blindly: a press that does *)
(* not fit is passed over.  A session starts with the first button of any   *)
(* pattern and ends with a match or, a window after the last press, with a  *)
(* timeout; in stream mode it outlives matches.  match_fn and timeout_fn    *)
(* are the script's, and may reset.  configure may move the window at any   *)
(* time.  The window is counted in heartbeats; how long one is, which a new *)
(* interval changes when the heartbeat is next set, is left out.            *)
(*                                                                          *)
(* Left out, as they go wrong: start_fn calling reset (the heartbeat is     *)
(* started after it all the same), timeout_fn calling reset in stream mode  *)
(* (the two call each other without end), and patterns that begin with the  *)
(* same button twice (the first press counts for both).                     *)
(****************************************************************************)
EXTENDS Naturals, Sequences

CONSTANTS
  Buttons, NoButton,
  Patterns,     \* those add_pattern is called with
  MaxPatterns,  \* bound: patterns added
  MaxPresses,   \* bound: presses of a session without a match
  Thresholds,   \* heartbeats of a window, as configure may set them
  handler_key   \* the callback given to tick()

VARIABLES
  timers,    \* callbacks that have a timer (Timers' active)
  cut,       \* history: those that lost it to the script's tick(0, nil)
  threshold, stream, patterns, progress, tick_count, active,
  match_fn, timeout_fn,  \* the session has one
  seen,      \* history: for each pattern the presses since it was added or
             \* the last match, in this session
  last       \* history: what the last step was and which functions it called

qvars == <<threshold, stream, patterns, progress, tick_count, active, match_fn, timeout_fn, seen,
           last>>

Ops == {"detect", "handler", "reset", "other"}

TypeOK ==
  /\ stream \in BOOLEAN /\ active \in BOOLEAN
  /\ match_fn \in BOOLEAN /\ timeout_fn \in BOOLEAN
  /\ patterns \in Seq(Patterns) /\ progress \in Seq(Nat) /\ seen \in Seq(Seq(Buttons))
  /\ Len(progress) = Len(patterns) /\ Len(seen) = Len(patterns)
  /\ \A i \in DOMAIN patterns : progress[i] <= Len(patterns[i])
  /\ threshold \in Thresholds /\ tick_count \in Nat
  /\ last \in [op : Ops, button : Buttons \cup {NoButton}, matched : BOOLEAN, timeouts : Nat]

Done(op, matched, timeouts) ==
  last' = [op |-> op, button |-> NoButton, matched |-> matched, timeouts |-> timeouts]

Init ==
  /\ stream \in BOOLEAN /\ threshold \in Thresholds
  /\ patterns = <<>> /\ progress = <<>> /\ seen = <<>>
  /\ tick_count = 0 /\ active = FALSE /\ match_fn = FALSE /\ timeout_fn = FALSE
  /\ last = [op |-> "other", button |-> NoButton, matched |-> FALSE, timeouts |-> 0]

Zero  == [i \in DOMAIN patterns |-> 0]
Fresh == [i \in DOMAIN patterns |-> <<>>]

-----------------------------------------------------------------------------
(* Mutant: the heartbeat of the last session is taken to run still. *)
NoTimer == UNCHANGED <<timers, cut>>

SetTimer  == timers' = timers \cup {handler_key} /\ cut' = cut \ {handler_key}
StopTimer == timers' = timers \ {handler_key} /\ UNCHANGED cut

(* The calls of timeout_fn that a reset makes, when hasTimeout says that    *)
(* there still is one. *)
Forced(hasTimeout) == IF stream /\ active /\ hasTimeout THEN 1 ELSE 0

Over ==
  /\ StopTimer
  /\ tick_count' = 0 /\ active' = FALSE
  /\ progress' = Zero /\ seen' = Fresh
  /\ match_fn' = FALSE /\ timeout_fn' = FALSE

(* reset, called by the script. *)
reset ==
  Over /\ Done("reset", FALSE, Forced(timeout_fn)) /\ UNCHANGED <<threshold, stream, patterns>>

(* Also in the middle of a session, whose window moves. *)
configure(s, t) ==
  /\ stream' = s /\ threshold' = t /\ Done("other", FALSE, 0)
  /\ UNCHANGED <<timers, cut, patterns, progress, tick_count, active, match_fn, timeout_fn, seen>>

add_pattern(p) ==
  /\ Len(patterns) < MaxPatterns
  /\ patterns' = Append(patterns, p)
  /\ progress' = Append(progress, 0) /\ seen' = Append(seen, <<>>)
  /\ Done("other", FALSE, 0)
  /\ UNCHANGED <<timers, cut, threshold, stream, tick_count, active, match_fn, timeout_fn>>

(* Also in the middle of a session, which then can only time out. *)
clear_patterns ==
  /\ patterns' = <<>> /\ progress' = <<>> /\ seen' = <<>>
  /\ Done("other", FALSE, 0)
  /\ UNCHANGED <<timers, cut, threshold, stream, tick_count, active, match_fn, timeout_fn>>

(* Mutant: timeout_fn is not forgotten before the reset. *)
handlerAgain ==
  /\ handler_key \in timers
  /\ IF active /\ tick_count + 1 > threshold
     THEN Over /\ Done("handler", FALSE, (IF timeout_fn THEN 1 ELSE 0) + Forced(timeout_fn))
     ELSE /\ tick_count' = tick_count + 1 /\ Done("handler", FALSE, 0)
          /\ UNCHANGED <<timers, cut, progress, active, match_fn, timeout_fn, seen>>
  /\ UNCHANGED <<threshold, stream, patterns>>

(* The heartbeat.  After the window: timeout_fn, which is then forgotten,   *)
(* so that the reset does not call it again. *)
handler ==
  /\ handler_key \in timers
  /\ IF active /\ tick_count + 1 > threshold
     THEN Over /\ Done("handler", FALSE, (IF timeout_fn THEN 1 ELSE 0) + Forced(FALSE))
     ELSE /\ tick_count' = tick_count + 1 /\ Done("handler", FALSE, 0)
          /\ UNCHANGED <<timers, cut, progress, active, match_fn, timeout_fn, seen>>
  /\ UNCHANGED <<threshold, stream, patterns>>

-----------------------------------------------------------------------------
(* The lowest index of I, past the last pattern when there is none: where a *)
(* loop over the patterns breaks. *)
Break(I) == CHOOSE k \in 1..(Len(patterns) + 1) :
              /\ k \in I \/ k = Len(patterns) + 1
              /\ \A i \in I : k <= i

(* The first loop of detect: the patterns a session starts with. *)
Started(b) ==
  LET end == Break({i \in DOMAIN patterns : patterns[i] = <<b>>})
  IN [i \in DOMAIN patterns |->
        IF i > end THEN progress[i] ELSE IF patterns[i][1] = b THEN 1 ELSE 0]

(* Mutant: a press that does not fit sets the pattern back. *)
StepStrict(i, from, b) ==
  IF from[i] = 0 THEN IF patterns[i][1] = b THEN 1 ELSE 0
  ELSE IF from[i] < Len(patterns[i]) /\ patterns[i][from[i] + 1] = b THEN from[i] + 1 ELSE 0

(* The step of a pattern in the second loop. *)
Step(i, from, b) ==
  IF from[i] = 0 THEN IF patterns[i][1] = b THEN 1 ELSE 0
  ELSE IF from[i] < Len(patterns[i]) /\ patterns[i][from[i] + 1] = b THEN from[i] + 1 ELSE from[i]

Completing(from, b) ==
  {i \in DOMAIN patterns : Step(i, from, b) # from[i] /\ Step(i, from, b) = Len(patterns[i])}

(* The second loop of detect, which the first completed pattern ends. *)
Advanced(from, b) ==
  [i \in DOMAIN patterns |-> IF i > Break(Completing(from, b)) THEN from[i] ELSE Step(i, from, b)]

Pressed(b, matched, timeouts) ==
  last' = [op |-> "detect", button |-> b, matched |-> matched, timeouts |-> timeouts]

(* match_fn, which may reset, then the progress is zeroed and, but for      *)
(* stream mode, the session reset.  live: the session was active before, or *)
(* detect made it so; ht: it has a timeout_fn. *)
Matched(b, ht) ==
  \E resets \in BOOLEAN :
    /\ progress' = Zero /\ seen' = Fresh
    /\ tick_count' = 0
    /\ Pressed(b, TRUE, IF resets /\ stream /\ ht THEN 1 ELSE 0)
    /\ active' = (stream /\ ~resets)

(* detect, a press that starts a session, or none ... *)
DetectFirst(b, hm, ht) ==
  /\ patterns # <<>> /\ ~active
  /\ IF \A i \in DOMAIN patterns : patterns[i][1] # b
     THEN /\ progress' = Zero /\ Pressed(b, FALSE, 0)
          /\ UNCHANGED <<timers, cut, tick_count, active, match_fn, timeout_fn, seen>>
     ELSE LET from  == Started(b)
              first == (\E i \in DOMAIN patterns : patterns[i] = <<b>>)
          IN IF hm /\ (first \/ Completing(from, b) # {})
             THEN /\ Matched(b, ht)
                  /\ IF active' THEN SetTimer /\ match_fn' = hm /\ timeout_fn' = ht
                     ELSE StopTimer /\ match_fn' = FALSE /\ timeout_fn' = FALSE
             ELSE /\ progress' = Advanced(from, b)
                  /\ seen' = [i \in DOMAIN patterns |-> <<b>>]
                  /\ tick_count' = 0 /\ active' = TRUE
                  /\ match_fn' = hm /\ timeout_fn' = ht
                  /\ SetTimer /\ Pressed(b, FALSE, 0)
  /\ UNCHANGED <<threshold, stream, patterns>>

(* ... and one in a session: the functions it brings are not looked at. *)
DetectNext(b) ==
  /\ patterns # <<>> /\ active
  /\ \A i \in DOMAIN seen : Len(seen[i]) < MaxPresses
  /\ IF match_fn /\ Completing(progress, b) # {}
     THEN /\ Matched(b, timeout_fn)
          /\ IF active' THEN UNCHANGED <<timers, cut, match_fn, timeout_fn>>
             ELSE StopTimer /\ match_fn' = FALSE /\ timeout_fn' = FALSE
     ELSE /\ progress' = Advanced(progress, b)
          /\ seen' = [i \in DOMAIN patterns |-> Append(seen[i], b)]
          /\ tick_count' = 0 /\ Pressed(b, FALSE, 0)
          /\ UNCHANGED <<timers, cut, active, match_fn, timeout_fn>>
  /\ UNCHANGED <<threshold, stream, patterns>>

Detect(b, hm, ht) == DetectFirst(b, hm, ht) \/ DetectNext(b)

Script ==
  \/ \E b \in Buttons, hm, ht \in BOOLEAN : Detect(b, hm, ht)
  \/ \E p \in Patterns : add_pattern(p)
  \/ \E s \in BOOLEAN, t \in Thresholds : configure(s, t)
  \/ clear_patterns
  \/ reset

Next == Script \/ handler

-----------------------------------------------------------------------------
(* The presses of p occur in s, in order, with others between them. *)
Embeds(p, s) ==
  \E f \in [DOMAIN p -> DOMAIN s] :
    /\ \A i, j \in DOMAIN p : i < j => f[i] < f[j]
    /\ \A i \in DOMAIN p : s[f[i]] = p[i]

(* match_fn is called exactly when a press makes one of the patterns occur  *)
(* among the presses since the session began or the last match, however     *)
(* many other presses are between them and whatever the order of patterns.  *)
SequenceMatches ==
  [][ \A b \in Buttons :
        last'.op = "detect" /\ last'.button = b /\ (active => match_fn) /\ (active' => match_fn') =>
          (last'.matched <=>
             \E i \in DOMAIN patterns : Embeds(patterns[i], Append(seen[i], b))) ]_qvars

(* A session that ends has called timeout_fn once, if it has one, unless a  *)
(* match ended it or, outside stream mode, the script's reset.              *)
TimeoutFiresOnce ==
  [][ active /\ ~active' =>
        last'.timeouts = IF timeout_fn /\ (stream \/ last'.op = "handler") THEN 1 ELSE 0 ]_qvars

(* A session ends, or the script took its heartbeat away, unless buttons    *)
(* are pressed again and again.                                             *)
SequenceEnds ==
  \/ []<><<last'.op = "detect">>_qvars
  \/ []<>(~active \/ handler_key \in cut)
=============================================================================
