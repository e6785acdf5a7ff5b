------------------------------ MODULE Keyboard ------------------------------
(****************************************************************************)
(* aelkey.keyboard: remaps keys, with an Fn layer.  Two remappers made by   *)
(* new() write to one virtual keyboard: one is fed by parse_report with the *)
(* boot-protocol reports of HID keyboards, the other with the events of an  *)
(* evdev keyboard.                                                          *)
(*                                                                          *)
(* The mapping of a key is chosen when it is pressed, and reused when it is *)
(* released, whatever the Fn mode is by then.  The order of the keys of one *)
(* mapping matters to no property, so a mapping is a set of output keys,    *)
(* the empty one for a key that is suppressed; and the frame buffer, filled *)
(* and emitted in the same callback, is left out.                           *)
(*                                                                          *)
(* A key may be pressed again without a release in between: on the evdev    *)
(* keyboard after its release was lost, in reports because a modifier has   *)
(* two places there, a bit of the first byte and a usage among the keys.    *)
(* The mapping of the second press then replaces that of the first.         *)
(****************************************************************************)
EXTENDS FiniteSets

CONSTANTS
  Codes,         \* key codes of the physical keyboards
  Mods,          \* those of the modifier byte of a report
  Identity,      \* IDENTITY_MAP: codes that keep their meaning in Fn mode
  normal_map, modifier_map, fn_map,  \* code -> set of output codes
  FN_CODE        \* "KEY_FN"

Outs == Codes \cup (UNION {normal_map[c] : c \in DOMAIN normal_map})
              \cup (UNION {modifier_map[c] : c \in DOMAIN modifier_map})
              \cup (UNION {fn_map[c] : c \in DOMAIN fn_map})

ASSUME KeyboardAssumption ==
  /\ Mods \subseteq Codes /\ Identity \subseteq Codes
  /\ \A m \in {normal_map, modifier_map, fn_map} : DOMAIN m \subseteq Codes

Remappers == {"hid", "evdev"}

VARIABLES
  fn_down,      \* remapper -> Fn mode
  active_keys,  \* remapper -> code -> mapping it was pressed with, {} for none
  prev_mods, prev_keys,  \* what the last report held, of whichever keyboard
  todo,         \* events of a report that are still to be fed
  held,         \* codes that are down on the evdev keyboard
  down,         \* keys that are down on the virtual keyboard
  forced,       \* history: remappers set_fn_down(true) put in Fn mode, or that
                \* are in it for a key whose Fn mapping another one replaced
  orphans,      \* history: keys tracked though their release was lost
  replaced      \* history: output keys of mappings that another one replaced

vars == <<fn_down, active_keys, prev_mods, prev_keys, todo, held, down, forced, orphans,
          replaced>>

NoEvents == [modsUp |-> {}, modsDown |-> {}, keysUp |-> {}, keysDown |-> {}]

TypeOK ==
  /\ fn_down \in [Remappers -> BOOLEAN]
  /\ active_keys \in [Remappers -> [Codes -> SUBSET Outs]]
  /\ prev_mods \subseteq Mods /\ prev_keys \subseteq Codes
  /\ todo \in [modsUp : SUBSET Mods, modsDown : SUBSET Mods,
               keysUp : SUBSET Codes, keysDown : SUBSET Codes]
  /\ held \subseteq Codes
  /\ down \subseteq Outs /\ orphans \subseteq Codes /\ replaced \subseteq Outs
  /\ forced \subseteq Remappers

Init ==
  /\ fn_down = [i \in Remappers |-> FALSE]
  /\ active_keys = [i \in Remappers |-> [c \in Codes |-> {}]]
  /\ prev_mods = {} /\ prev_keys = {} /\ todo = NoEvents
  /\ held = {} /\ down = {}
  /\ forced = {} /\ orphans = {} /\ replaced = {}

-----------------------------------------------------------------------------
(****************************************************************************)
(* A remapper.                                                              *)
(****************************************************************************)
resolve_mapping(i, c) ==
  CASE c \in DOMAIN modifier_map -> modifier_map[c]
    [] c \notin DOMAIN modifier_map /\ fn_down[i] ->
         IF c \in Identity THEN {c} ELSE IF c \in DOMAIN fn_map THEN fn_map[c] ELSE {}
    [] OTHER -> IF c \in DOMAIN normal_map THEN normal_map[c] ELSE {c}

Placeholder == {FN_CODE}

(* feed_events, a press: a suppressed key is not tracked, and a tracked one *)
(* is given the new mapping. *)
Press(i, c) ==
  LET old    == active_keys[i][c]
      mapped == resolve_mapping(i, c)
      lost   == IF mapped \in {{}, old} THEN {} ELSE old
  IN
  /\ active_keys' = IF mapped = {} THEN active_keys
                    ELSE [active_keys EXCEPT ![i][c] = mapped]
  /\ IF mapped = Placeholder
     THEN fn_down' = [fn_down EXCEPT ![i] = TRUE] /\ UNCHANGED down
     ELSE down' = down \cup mapped /\ UNCHANGED fn_down
  /\ IF lost = Placeholder
     THEN forced' = (IF fn_down[i] THEN forced \cup {i} ELSE forced) /\ UNCHANGED replaced
     ELSE replaced' = replaced \cup lost /\ UNCHANGED forced

(* Mutant: the mapping is looked up anew. *)
ReleaseResolved(i, c) ==
  LET mapped == resolve_mapping(i, c) IN
  /\ active_keys' = [active_keys EXCEPT ![i][c] = {}]
  /\ IF mapped = Placeholder
     THEN fn_down' = [fn_down EXCEPT ![i] = FALSE] /\ forced' = forced \ {i}
          /\ UNCHANGED <<down, replaced>>
     ELSE down' = down \ mapped /\ replaced' = replaced \ mapped
          /\ UNCHANGED <<fn_down, forced>>

(* Mutant: Fn mode stays on. *)
ReleaseKeepsFn(i, c) ==
  /\ active_keys' = [active_keys EXCEPT ![i][c] = {}]
  /\ IF active_keys[i][c] = Placeholder
     THEN UNCHANGED <<fn_down, forced, down, replaced>>
     ELSE /\ down' = down \ active_keys[i][c] /\ replaced' = replaced \ active_keys[i][c]
          /\ UNCHANGED <<fn_down, forced>>

(* Mutant: the key stays in active_keys. *)
ReleaseKeepsKey(i, c) ==
  /\ UNCHANGED active_keys
  /\ IF active_keys[i][c] = Placeholder
     THEN /\ fn_down' = [fn_down EXCEPT ![i] = FALSE] /\ forced' = forced \ {i}
          /\ UNCHANGED <<down, replaced>>
     ELSE /\ down' = down \ active_keys[i][c] /\ replaced' = replaced \ active_keys[i][c]
          /\ UNCHANGED <<fn_down, forced>>

(* feed_events, a release: that of an untracked key does nothing. *)
Release(i, c) ==
  LET mapped == active_keys[i][c] IN
  /\ active_keys' = [active_keys EXCEPT ![i][c] = {}]
  /\ IF mapped = Placeholder
     THEN /\ fn_down' = [fn_down EXCEPT ![i] = FALSE] /\ forced' = forced \ {i}
          /\ UNCHANGED <<down, replaced>>
     ELSE /\ down' = down \ mapped /\ replaced' = replaced \ mapped
          /\ UNCHANGED <<fn_down, forced>>

Idle == todo = NoEvents

set_fn_down(i, b) ==
  /\ Idle
  /\ fn_down' = [fn_down EXCEPT ![i] = b]
  /\ forced' = IF b THEN forced \cup {i} ELSE forced \ {i}
  /\ UNCHANGED <<active_keys, prev_mods, prev_keys, todo, held, down, orphans, replaced>>

-----------------------------------------------------------------------------
(****************************************************************************)
(* HID keyboards: each report says what is held, or nothing of the keys in  *)
(* case of a rollover error.  Reports of several keyboards may alternate.   *)
(* HID_TO_KEY has usages for modifiers too, and the two sets are compared   *)
(* with the last ones each for itself.                                      *)
(****************************************************************************)
(* Mutant: every report presses all the keys it holds. *)
ReportRepeats(mods, keys) ==
  /\ Idle
  /\ todo' = [modsUp |-> prev_mods \ mods, modsDown |-> mods \ prev_mods,
              keysUp |-> prev_keys \ keys, keysDown |-> keys]
  /\ prev_mods' = mods /\ prev_keys' = keys
  /\ UNCHANGED <<fn_down, active_keys, held, down, forced, orphans, replaced>>

parse_report(mods, keys) ==
  /\ Idle
  /\ todo' = [modsUp |-> prev_mods \ mods, modsDown |-> mods \ prev_mods,
              keysUp |-> prev_keys \ keys, keysDown |-> keys \ prev_keys]
  /\ prev_mods' = mods /\ prev_keys' = keys
  /\ UNCHANGED <<fn_down, active_keys, held, down, forced, orphans, replaced>>

(* The events of a report, modifiers before keys and releases before        *)
(* presses, each kind in the order of a Lua table, which is none. *)
Feed ==
  /\ \/ \E c \in todo.modsUp :
          /\ Release("hid", c) /\ todo' = [todo EXCEPT !.modsUp = @ \ {c}]
     \/ /\ todo.modsUp = {}
        /\ \E c \in todo.modsDown :
             /\ Press("hid", c) /\ todo' = [todo EXCEPT !.modsDown = @ \ {c}]
     \/ /\ todo.modsUp \cup todo.modsDown = {}
        /\ \E c \in todo.keysUp :
             /\ Release("hid", c) /\ todo' = [todo EXCEPT !.keysUp = @ \ {c}]
     \/ /\ todo.modsUp \cup todo.modsDown \cup todo.keysUp = {}
        /\ \E c \in todo.keysDown :
             /\ Press("hid", c) /\ todo' = [todo EXCEPT !.keysDown = @ \ {c}]
  /\ UNCHANGED <<prev_mods, prev_keys, held, orphans>>

-----------------------------------------------------------------------------
(****************************************************************************)
(* An evdev keyboard.                                                       *)
(****************************************************************************)
EvdevPress(c) ==
  /\ Idle /\ c \notin held
  /\ held' = held \cup {c} /\ orphans' = orphans \ {c}
  /\ Press("evdev", c)
  /\ UNCHANGED <<prev_mods, prev_keys, todo>>

EvdevRelease(c) ==
  /\ Idle /\ c \in held
  /\ held' = held \ {c} /\ orphans' = orphans \ {c}
  /\ Release("evdev", c)
  /\ UNCHANGED <<prev_mods, prev_keys, todo>>

Keys(i)    == {c \in Codes : active_keys[i][c] # {}}
Tracked(i) == UNION ({active_keys[i][c] : c \in Codes} \ {Placeholder})

(* The state of the keyboard becomes another one and no event tells: the    *)
(* read loop gives up at SYN_DROPPED without a sync, and goes on later with *)
(* what comes then; or the keyboard is unplugged, its descriptor failing    *)
(* before the releases are read, and another one comes. *)
LoseEvents(now) ==
  /\ Idle /\ now # held
  /\ held' = now
  /\ orphans' = Keys("evdev") \ now
  /\ UNCHANGED <<fn_down, active_keys, prev_mods, prev_keys, todo, down, forced, replaced>>

Next ==
  \/ \E i \in Remappers, b \in BOOLEAN : set_fn_down(i, b)
  \/ \E mods \in SUBSET Mods, keys \in SUBSET Codes : parse_report(mods, keys)
  \/ Feed
  \/ \E c \in Codes : EvdevPress(c) \/ EvdevRelease(c)
  \/ \E now \in SUBSET Codes : LoseEvents(now)

Spec == Init /\ [][Next]_vars

-----------------------------------------------------------------------------
(* No key stays down on the virtual keyboard: one that is down is of the    *)
(* mapping of a key that is tracked, so that its release is owed, across Fn *)
(* mode changes, two remappers that press the same keys, and reports of     *)
(* several keyboards; or a second press of its key has replaced the mapping *)
(* (MappingIsKept says when that happens). *)
NoStuckKeys == down \subseteq Tracked("hid") \cup Tracked("evdev") \cup replaced

(* "Mapping is chosen on key press and reused on release"                   *)
(* (aelkey_keyboard.lua:41): a key that is tracked keeps its mapping until  *)
(* it is released.  Another one replaces it only on the evdev keyboard when *)
(* its release was lost, and in reports only for a modifier, which can be   *)
(* in the first byte and among the keys.                                    *)
MappingIsKept ==
  [][ \A i \in Remappers, c \in Codes :
        active_keys[i][c] # {} /\ active_keys'[i][c] \notin {{}, active_keys[i][c]} =>
          IF i = "evdev" THEN c \in orphans ELSE c \in Mods ]_vars

(* A remapper tracks only keys that are held, or whose release was lost:    *)
(* once all keys are up, it owes nothing. *)
TracksHeld ==
  Idle => /\ Keys("hid") \subseteq prev_mods \cup prev_keys
          /\ Keys("evdev") \subseteq held \cup orphans

(* Fn mode ends: it is on only while a key that means Fn is tracked, after  *)
(* set_fn_down, or when another mapping replaced that of such a key.        *)
FnIsHeld ==
  \A i \in Remappers :
    fn_down[i] => i \in forced \/ \E c \in Codes : active_keys[i][c] = Placeholder
=============================================================================
