-------------------------------- MODULE Mouse --------------------------------
(****************************************************************************)
(* aelkey.mouse: reports of a mouse, emitted on one virtual device.  Motion *)
(* and wheels are passed on; buttons are emitted by their edges, which      *)
(* emit_buttons and emit_events detect under different ids of aelkey.edge.  *)
(****************************************************************************)
CONSTANT MouseButtons

VARIABLES
  last_state, active_ids,  \* aelkey.edge
  down,      \* buttons down on the virtual device
  reported,  \* history: button -> what the last report said of it
  via,       \* history: button -> the functions its reports went through
  lost       \* history: buttons that were down when the script reset the edges

Functions == {"emit_buttons", "emit_events"}
Ids == Functions \X MouseButtons

Edge == INSTANCE Edge

vars == <<last_state, active_ids, down, reported, via, lost>>

(* What a report, from parse_report or made by the script, says of a button. *)
Report == [MouseButtons -> {"nil", "released", "pressed"}]

TypeOK ==
  /\ Edge!TypeOK
  /\ down \subseteq MouseButtons /\ lost \subseteq MouseButtons
  /\ reported \in Report
  /\ via \in [MouseButtons -> SUBSET Functions]

Init ==
  /\ Edge!Init
  /\ down = {} /\ lost = {}
  /\ reported = [b \in MouseButtons |-> "nil"]
  /\ via = [b \in MouseButtons |-> {}]

-----------------------------------------------------------------------------
(* Mutant: a button the report does not mention is released. *)
MentionedAll(report) == MouseButtons

Mentioned(report) == {b \in MouseButtons : report[b] # "nil"}

(* emit_buttons(dev_id, report), emit_events(dev_id, report) *)
emit(f, report) ==
  LET B == Mentioned(report)
      P == {b \in B : report[b] = "pressed"}
      edges(e) == {b \in B : Edge!EdgeOf(<<f, b>>, b \in P) = e}
  IN
  /\ Edge!detects({f} \X B, {f} \X P)
  /\ down' = (down \ edges("release")) \cup edges("press")
  /\ reported' = [b \in MouseButtons |-> IF report[b] # "nil" THEN report[b] ELSE reported[b]]
  /\ via' = [b \in MouseButtons |-> IF b \in B THEN via[b] \cup {f} ELSE via[b]]
  /\ lost' = lost \ edges("press")

(* The script resets the edges, of which it has its own. *)
EdgeReset ==
  /\ Edge!reset(Ids)
  /\ lost' = lost \cup down
  /\ UNCHANGED <<down, reported, via>>

Next == EdgeReset \/ \E f \in Functions, report \in Report : emit(f, report)

-----------------------------------------------------------------------------
(* No button stays down on the virtual mouse that no function was last told *)
(* is pressed; and one whose reports all went through one function, some    *)
(* without a word of it, is what the last of them said; unless the script's *)
(* edge.reset() lost the press.                                             *)
ButtonsFollow ==
  \A b \in MouseButtons \ lost :
    /\ b \in down => \E f \in Functions : last_state[<<f, b>>] = "pressed"
    /\ (\E f \in Functions : via[b] \subseteq {f}) => (b \in down <=> reported[b] = "pressed")
=============================================================================
