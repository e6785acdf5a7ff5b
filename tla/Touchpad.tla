------------------------------ MODULE Touchpad ------------------------------
(****************************************************************************)
(* aelkey.touchpad: the contacts of a touchpad, frame by frame, turned into *)
(* events of a virtual one.  The script calls begin_frame, feed_contact for *)
(* each contact there is, and end_frame followed by emit_events; emit_events*)
(* sends what the frame queued, in its order, and so the events are applied *)
(* to the virtual device (mt, keys_down) where they are queued.             *)
(*                                                                          *)
(* Coordinates, pressure and palms are passed on and left out; of the three *)
(* buttons, which are alike, there is one.                                  *)
(****************************************************************************)
EXTENDS Naturals, FiniteSets

CONSTANTS
  max_slots,
  MaxTid,   \* the last tracking id, 65535 in the code
  BtnId     \* the button's id in aelkey.edge, and its code

VARIABLES
  last_state, active_ids,  \* aelkey.edge
  mode,              \* "multitouch" or "basic"
  contacts,          \* tracking id -> contact, NoContact when there is none
  slots,             \* slot -> tracking id, 0 for nil
  next_tracking_id,
  basic_tid,         \* 0 for nil
  tool_keys_down,
  in_frame,          \* between begin_frame and end_frame
  mt,                \* the virtual device's slots: tracking id, 0 for -1
  keys_down          \* keys down on the virtual device

Edge == INSTANCE Edge WITH Ids <- {BtnId}

pvars == <<mode, contacts, slots, next_tracking_id, basic_tid, tool_keys_down, in_frame,
           mt, keys_down>>
vars  == <<pvars, last_state, active_ids>>

Slots == 0..(max_slots - 1)
Tids  == 1..MaxTid
Tools == {"FINGER", "DOUBLETAP", "TRIPLETAP", "QUADTAP"}

NoContact == [touching |-> FALSE, button |-> "none", seen |-> FALSE]
(* button: "nil" when the contact does not report it. *)
Contact == [touching : BOOLEAN, button : {"nil", "released", "pressed"}, seen : BOOLEAN]

TypeOK ==
  /\ Edge!TypeOK
  /\ mode \in {"multitouch", "basic"}
  /\ contacts \in [Tids -> Contact \cup {NoContact}]
  /\ slots \in [Slots -> Tids \cup {0}] /\ mt \in [Slots -> Tids \cup {0}]
  /\ next_tracking_id \in Tids /\ basic_tid \in Tids \cup {0}
  /\ tool_keys_down \subseteq Tools
  /\ in_frame \in BOOLEAN
  /\ keys_down \subseteq Tools \cup {"TOUCH", BtnId}

Init ==
  /\ Edge!Init
  /\ mode \in {"multitouch", "basic"}
  /\ contacts = [t \in Tids |-> NoContact]
  /\ slots = [s \in Slots |-> 0] /\ mt = [s \in Slots |-> 0]
  /\ next_tracking_id = 1 /\ basic_tid = 0
  /\ tool_keys_down = {} /\ keys_down = {}
  /\ in_frame = FALSE

Live == {t \in Tids : contacts[t] # NoContact}

-----------------------------------------------------------------------------
begin_frame ==
  /\ ~in_frame /\ in_frame' = TRUE
  /\ contacts' = [t \in Tids |-> [contacts[t] EXCEPT !.seen = FALSE]]
  /\ UNCHANGED <<mode, slots, next_tracking_id, basic_tid, tool_keys_down, mt, keys_down,
                 last_state, active_ids>>

(* Mutant: the ids wrap around to 0. *)
NextTidZero == (next_tracking_id + 1) % MaxTid

(* next_tracking_id after new_tracking_id: it wraps around. *)
NextTid == (next_tracking_id % MaxTid) + 1

(* Assumed: no contact lasts while MaxTid others come.  If one did, its id  *)
(* would be given out again. *)
TidFree == next_tracking_id \notin Live

(* A contact that has a tracking id already, or gets one. *)
Tid(known, t) == IF known # 0 THEN t = known ELSE t = next_tracking_id /\ TidFree

(* feed_contact: MT events for a contact that touches. *)
feed_contact(s, touching, button) ==
  /\ in_frame
  /\ LET known == IF mode = "multitouch" THEN slots[s] ELSE basic_tid
     IN \E t \in Tids :
          /\ Tid(known, t)
          /\ next_tracking_id' = IF known = 0 THEN NextTid ELSE next_tracking_id
          /\ contacts' = [contacts EXCEPT
               ![t] = [touching |-> touching, button |-> button, seen |-> TRUE]]
          /\ IF mode = "multitouch"
             THEN /\ slots' = [slots EXCEPT ![s] = t]
                  /\ mt' = IF touching THEN [mt EXCEPT ![s] = t] ELSE mt
                  /\ UNCHANGED basic_tid
             ELSE basic_tid' = t /\ UNCHANGED <<slots, mt>>
  /\ UNCHANGED <<mode, tool_keys_down, in_frame, keys_down, last_state, active_ids>>

-----------------------------------------------------------------------------
(* clear_missing_contacts: those that were not fed end. *)
Ended    == {t \in Live : ~contacts[t].seen}
Touching == {t \in Live \ Ended : contacts[t].touching}

(* Mutant: the slots of contacts that end are freed without telling. *)
EndedKeepMt == mt

(* The slots of contacts that end get tracking id -1. *)
EndedMt == [s \in Slots |-> IF mode = "multitouch" /\ slots[s] \in Ended THEN 0 ELSE mt[s]]

(* finger_count: in basic mode there is one contact at most. *)
FingerCount == Cardinality(Touching)

(* update_primary: the lowest slot whose contact touches. *)
PrimaryContacts ==
  IF mode = "basic" THEN Touching
  ELSE LET S == {s \in Slots : slots[s] \in Touching}
       IN {slots[s] : s \in {x \in S : \A y \in S : x <= y}}

(* The tools that should be down. *)
DesiredTools ==
  CASE FingerCount = 0 -> {}
    [] FingerCount = 1 -> {"FINGER"}
    [] FingerCount = 2 -> {"DOUBLETAP"}
    [] FingerCount = 3 -> {"TRIPLETAP"}
    [] OTHER -> {"QUADTAP"}

(* Releases of what is down and not desired, presses of the rest; events go *)
(* only by tool_keys_down. *)
ToolEvents(keys) == (keys \ (tool_keys_down \ DesiredTools)) \cup (DesiredTools \ tool_keys_down)

(* Where the state of the button is read: the primary contact, else any     *)
(* that is there. *)
ButtonSources == IF PrimaryContacts # {} THEN PrimaryContacts ELSE Live \ Ended

ButtonEvent(keys, pressed) ==
  CASE Edge!EdgeOf(BtnId, pressed) = "press"   -> keys \cup {BtnId}
    [] Edge!EdgeOf(BtnId, pressed) = "release" -> keys \ {BtnId}
    [] OTHER -> keys

TouchAndTools(keys) ==
  ToolEvents(IF FingerCount > 0 THEN keys \cup {"TOUCH"} ELSE keys \ {"TOUCH"})

(* end_frame, and emit_events. *)
end_frame ==
  /\ in_frame /\ in_frame' = FALSE
  /\ mt' = EndedMt
  /\ tool_keys_down' = DesiredTools
  /\ LET keys == TouchAndTools(keys_down) IN
     \/ \E t \in ButtonSources :
          IF contacts[t].button # "nil"
          THEN /\ keys_down' = ButtonEvent(keys, contacts[t].button = "pressed")
               /\ Edge!detect(BtnId, contacts[t].button = "pressed")
          ELSE keys_down' = keys /\ UNCHANGED <<last_state, active_ids>>
     \/ ButtonSources = {} /\ keys_down' = keys /\ UNCHANGED <<last_state, active_ids>>
  /\ contacts' = [t \in Tids |-> IF t \in Ended THEN NoContact ELSE contacts[t]]
  /\ slots' = [s \in Slots |-> IF slots[s] \in Ended THEN 0 ELSE slots[s]]
  /\ UNCHANGED <<mode, next_tracking_id, basic_tid>>

(* The script resets the edges, of which it has its own. *)
EdgeReset ==
  /\ Edge!reset({BtnId})
  /\ UNCHANGED <<mode, contacts, slots, next_tracking_id, basic_tid, tool_keys_down, in_frame,
                 mt, keys_down>>

Script ==
  \/ begin_frame \/ end_frame \/ EdgeReset
  \/ \E s \in Slots, touching \in BOOLEAN, button \in {"nil", "released", "pressed"} :
       feed_contact(s, touching, button)

Next == Script

-----------------------------------------------------------------------------
(* After a frame the virtual touchpad shows the contacts of the module: a   *)
(* slot shows the contact that has it, and shows it if it touches; no slot  *)
(* and no tool outlives its contact, and the tool that is down tells how    *)
(* many fingers touch.                                                      *)
ContactsAgree ==
  ~in_frame =>
    /\ \A s \in Slots :
         /\ mt[s] # 0 => mt[s] = slots[s] /\ slots[s] \in Live
         /\ slots[s] \in Live /\ contacts[slots[s]].touching /\ mode = "multitouch"
              => mt[s] = slots[s]
    /\ mode = "multitouch" => Live = {slots[s] : s \in Slots} \ {0}
    /\ keys_down \cap Tools = DesiredTools
    /\ "TOUCH" \in keys_down <=> Touching # {}
=============================================================================
