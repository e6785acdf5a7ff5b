-------------------------------- MODULE Edge --------------------------------
(****************************************************************************)
(* aelkey.edge: the state each id was last reported in, and the edges       *)
(* between reports.  One table serves the script and the library.           *)
(****************************************************************************)
CONSTANT Ids

VARIABLES
  last_state,  \* id -> "nil", "released" or "pressed"
  active_ids   \* the set that get_active hands out

evars == <<last_state, active_ids>>

TypeOK ==
  /\ last_state \in [Ids -> {"nil", "released", "pressed"}]
  /\ active_ids \subseteq Ids

Init == last_state = [id \in Ids |-> "nil"] /\ active_ids = {}

-----------------------------------------------------------------------------
(* What detect returns: a first report of "released" is no edge. *)
EdgeOf(id, pressed) ==
  IF pressed THEN IF last_state[id] = "pressed" THEN "none" ELSE "press"
  ELSE IF last_state[id] = "pressed" THEN "release" ELSE "none"

(* detect, of each of a set of ids, of which those of P are pressed *)
detects(ids, P) ==
  /\ last_state' = [id \in Ids |-> IF id \in P THEN "pressed"
                                   ELSE IF id \in ids THEN "released" ELSE last_state[id]]
  /\ active_ids' = (active_ids \ ids) \cup P

detect(id, pressed) == detects({id}, IF pressed THEN {id} ELSE {})

reset(ids) ==
  /\ last_state' = [id \in Ids |-> IF id \in ids THEN "nil" ELSE last_state[id]]
  /\ active_ids' = active_ids \ ids

=============================================================================
