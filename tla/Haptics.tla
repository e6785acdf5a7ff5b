------------------------------- MODULE Haptics -------------------------------
(****************************************************************************)
(* DispatcherHaptics and the aelkey.haptics calls: force-feedback effects   *)
(* of virtual devices (sources) played on real ones (sinks).                *)
(*                                                                          *)
(* A game uploads, replays and erases effects on a uinput device; the       *)
(* script plays them on input devices.  An effect is uploaded to a sink the *)
(* first time it is played there and remembered in the sink's slots, whose  *)
(* agreement with the source's effects and with the kernel's effect table   *)
(* of the device is what this module is about.                              *)
(****************************************************************************)
EXTENDS Integers

CONSTANTS
  Sinks,       \* ids of input devices with force feedback
  Removable,   \* those of them that may be unplugged or closed
  Others,      \* other files the program may open: timers, hidraw nodes ...
  Sources,     \* ids of outputs with haptics; "custom" is the script's own
  MaxIds,      \* effect ids of a source (bound of the instance)
  MaxEffects,  \* effects a sink's hardware can hold
  MaxFd,       \* descriptors are 1..MaxFd (bound of the instance)
  MaxOneShot   \* one-shot effects played (bound of the instance)

Fds     == 1..MaxFd
RealIds == 1..MaxEffects
VirtIds == 0..MaxIds - 1
NoFd    == -1
NoId    == -1
Custom  == "custom"                     \* HAPTICS_SOURCE_CUSTOM
OneShot == "oneshot"                    \* HAPTICS_SOURCE_ONESHOT
AllSources == Sources \cup {Custom}
Persistent == AllSources \X VirtIds
Keys    == Persistent \cup ({OneShot} \X (0..MaxOneShot - 1))

Kinds   == {"rumble", "periodic", "spring"}   \* "spring": any other kind
Known   == {"rumble", "periodic"}
NoEff   == "none"

ASSUME HapticsAssumption ==
  /\ MaxEffects \in Nat \ {0}           \* the kernel's input_ff_create
  /\ MaxFd \in Nat /\ MaxOneShot \in Nat
  /\ MaxIds \in Nat /\ Removable \subseteq Sinks /\ Sinks \cap Others = {}
  /\ {Custom, OneShot} \cap Sources = {}
  /\ "none" \notin Sinks \cup Others

VARIABLES
  effects,   \* HapticsSourceCtx::effects of every source
  next_id,   \* create_persistent_effect's internal_id_counter
  sinks,     \* DispatcherHaptics::sinks_: sink -> its fd, NoFd when absent
  slots,     \* HapticsSinkCtx::slots: sink -> key -> real id
  file,      \* the kernel: what a descriptor is open on, "none" when free
  ff,        \* the kernel: fd -> effect table of the device it is open on
  oneshots,  \* play_effect's oneshot_counter
  write      \* history: the last EV_FF event written by play_effect

vars == <<effects, next_id, sinks, slots, file, ff, oneshots, write>>

NoSlots == [k \in Keys |-> NoId]
NoEffects == [r \in RealIds |-> NoEff]
Write(s, f, e) == [sink |-> s, file |-> f, effect |-> e]

TypeOK ==
  /\ effects \in [Persistent -> Known \cup {NoEff}]
  /\ next_id \in 0..MaxIds
  /\ sinks \in [Sinks -> Fds \cup {NoFd}]
  /\ slots \in [Sinks -> [Keys -> RealIds \cup {NoId}]]
  /\ file \in [Fds -> Sinks \cup Others \cup {"none"}]
  /\ ff \in [Fds -> [RealIds -> Known \cup {NoEff}]]
  /\ oneshots \in 0..MaxOneShot
  /\ write \in [sink : Sinks \cup {"none"}, file : Sinks \cup Others \cup {"none"},
                effect : Known \cup {NoEff}]

(* The script's open_device() calls have attached the sinks that stay; they *)
(* have the first descriptors. *)
Init ==
  /\ sinks \in [Sinks -> Fds \cup {NoFd}]
  /\ \A s \in Sinks : sinks[s] = NoFd <=> s \in Removable
  /\ \A s, t \in Sinks \ Removable : sinks[s] = sinks[t] => s = t
  /\ \A s \in Sinks \ Removable : \A f \in 1..sinks[s] : \E t \in Sinks : sinks[t] = f
  /\ file = [f \in Fds |-> IF \E s \in Sinks : sinks[s] = f
                            THEN CHOOSE s \in Sinks : sinks[s] = f ELSE "none"]
  /\ effects = [k \in Persistent |-> NoEff]
  /\ next_id = 0
  /\ slots = [s \in Sinks |-> NoSlots]
  /\ ff = [f \in Fds |-> NoEffects]
  /\ oneshots = 0
  /\ write = Write("none", "none", NoEff)

-----------------------------------------------------------------------------
(****************************************************************************)
(* Files.                                                                   *)
(****************************************************************************)
LowestFree(f) == file[f] = "none" /\ \A g \in Fds : file[g] = "none" => f <= g

(* Mutant: the context that is there is kept. *)
AttachKeeps(s) ==
  /\ \A f \in Fds : file[f] # s
  /\ \E f \in Fds :
       /\ LowestFree(f)
       /\ file' = [file EXCEPT ![f] = s]
       /\ ff' = [ff EXCEPT ![f] = NoEffects]
       /\ sinks' = [sinks EXCEPT ![s] = f]
  /\ UNCHANGED <<slots, effects, next_id, oneshots, write>>

(* An input device with force feedback is attached: register_sink starts    *)
(* with no slots, and the new file with no effects. *)
Attach(s) ==
  /\ \A f \in Fds : file[f] # s
  /\ \E f \in Fds :
       /\ LowestFree(f)
       /\ file' = [file EXCEPT ![f] = s]
       /\ ff' = [ff EXCEPT ![f] = NoEffects]
       /\ sinks' = [sinks EXCEPT ![s] = f]
  /\ slots' = [slots EXCEPT ![s] = NoSlots]
  /\ UNCHANGED <<effects, next_id, oneshots, write>>

(* The device is detached: the kernel drops the effects with the file, the  *)
(* sink stays registered. *)
Close(f) ==
  /\ file[f] \in Removable \cup Others
  /\ file' = [file EXCEPT ![f] = "none"]
  /\ ff' = [ff EXCEPT ![f] = NoEffects]
  /\ UNCHANGED <<effects, next_id, sinks, slots, oneshots, write>>

OpenOther(o) ==
  /\ \A f \in Fds : file[f] # o
  /\ \E f \in Fds : LowestFree(f) /\ file' = [file EXCEPT ![f] = o]
  /\ UNCHANGED <<effects, next_id, sinks, slots, ff, oneshots, write>>

-----------------------------------------------------------------------------
(****************************************************************************)
(* Effects of a source change.                                              *)
(****************************************************************************)
(* rebuild_effect: an effect of an unknown kind becomes a rumble. *)
rebuild_effect(e) == IF e \in Known THEN e ELSE "rumble"

(* Mutant: only the first sink that has the effect forgets it. *)
PropagateToOne(k) ==
  \E s \in Sinks :
    /\ slots[s][k] # NoId \/ \A t \in Sinks : slots[t][k] = NoId
    /\ slots' = [slots EXCEPT ![s][k] = NoId]
    /\ ff' = [f \in Fds |-> [r \in RealIds |->
               IF file[f] \in Sinks /\ sinks[s] = f /\ slots[s][k] = r THEN NoEff ELSE ff[f][r]]]

(* Mutant: the slot is forgotten, the effect stays in the device. *)
PropagateSlotsOnly(k) ==
  /\ slots' = [s \in Sinks |-> [slots[s] EXCEPT ![k] = NoId]]
  /\ UNCHANGED ff

(* Every sink that has uploaded effect k removes it and forgets its slot.   *)
(* EVIOCRMFF goes to whatever the sink's descriptor is open on. *)
propagate_erase_to_sinks(k) ==
  /\ ff' = [f \in Fds |-> [r \in RealIds |->
             IF \E s \in Sinks : file[f] \in Sinks /\ sinks[s] = f /\ slots[s][k] = r
             THEN NoEff ELSE ff[f][r]]]
  /\ slots' = [s \in Sinks |-> [slots[s] EXCEPT ![k] = NoId]]

(* handle_upload: a game uploads an effect, or changes one it uploaded. *)
handle_upload(src, v, e) ==
  /\ effects' = [effects EXCEPT ![<<src, v>>] = rebuild_effect(e)]
  /\ propagate_erase_to_sinks(<<src, v>>)
  /\ UNCHANGED <<next_id, sinks, file, oneshots, write>>

(* handle_erase: the game erases it, or closes the device. *)
handle_erase(src, v) ==
  /\ effects[<<src, v>>] # NoEff
  /\ effects' = [effects EXCEPT ![<<src, v>>] = NoEff]
  /\ propagate_erase_to_sinks(<<src, v>>)
  /\ UNCHANGED <<next_id, sinks, file, oneshots, write>>

(* haptics.create: an id of its own for every effect, never given again. *)
create(e) ==
  /\ next_id \in VirtIds
  /\ next_id' = next_id + 1
  /\ effects' = [effects EXCEPT ![<<Custom, next_id>>] = e]
  /\ propagate_erase_to_sinks(<<Custom, next_id>>)
  /\ UNCHANGED <<sinks, file, oneshots, write>>

(* haptics.erase: of any source, a game's as well. *)
erase(k) ==
  /\ effects' = [effects EXCEPT ![k] = NoEff]
  /\ propagate_erase_to_sinks(k)
  /\ UNCHANGED <<next_id, sinks, file, oneshots, write>>

-----------------------------------------------------------------------------
(****************************************************************************)
(* Playing.                                                                 *)
(****************************************************************************)
(* Whether EVIOCSFF can work: the descriptor is a force-feedback device's.  *)
HasFF(f) == f # NoFd /\ file[f] \in Sinks

Free(t) == {r \in RealIds : t[r] = NoEff}
Full(f) == Free(ff[f]) = {}

(* Mutant: on ENOSPC the slots are dropped, the effects are not removed. *)
EvictSlotsOnly(s, f) == ff[f]

(* On ENOSPC everything in the sink's slots is removed from the device. *)
Evicted(s, f) ==
  [r \in RealIds |-> IF Full(f) /\ \E k \in Keys : slots[s][k] = r THEN NoEff ELSE ff[f][r]]

(* upload_effect_to_sink, its result put into slot k, and the event that    *)
(* plays it.  The kernel gives the lowest free id; without one the call     *)
(* fails, and so does any on a descriptor that is no such device. *)
UploadAndPlay(s, k, e) ==
  LET f == sinks[s]
      kept == Evicted(s, f)
  IN
  IF HasFF(f) /\ Free(kept) # {}
  THEN \E r \in Free(kept) :
         /\ \A q \in Free(kept) : r <= q
         /\ ff' = [ff EXCEPT ![f] = [kept EXCEPT ![r] = e]]
         /\ slots' = [slots EXCEPT ![s] = [(IF Full(f) THEN NoSlots ELSE @) EXCEPT ![k] = r]]
         /\ write' = Write(s, file[f], e)
  ELSE IF HasFF(f)
       THEN /\ slots' = [slots EXCEPT ![s] = NoSlots]
            /\ UNCHANGED <<ff, write>>
       ELSE UNCHANGED <<ff, slots, write>>

(* play_effect of an effect its source holds; the sink may have it. *)
PlayPersistent(s, k) ==
  LET f == sinks[s] IN
  /\ f # NoFd /\ effects[k] # NoEff
  /\ IF slots[s][k] # NoId
     THEN /\ write' = Write(s, file[f], ff[f][slots[s][k]])
          /\ UNCHANGED <<ff, slots>>
     ELSE UploadAndPlay(s, k, effects[k])
  /\ UNCHANGED <<effects, next_id, sinks, file, oneshots>>

(* haptics.play of a table whose source does not hold its id. *)
PlayOneShot(s, e) ==
  /\ sinks[s] # NoFd /\ oneshots < MaxOneShot
  /\ oneshots' = oneshots + 1
  /\ UploadAndPlay(s, <<OneShot, oneshots>>, e)
  /\ UNCHANGED <<effects, next_id, sinks, file>>

(* haptics.stop: an event of magnitude 0, if the sink has the effect. *)
Stop(s, k) ==
  /\ sinks[s] # NoFd /\ slots[s][k] # NoId
  /\ write' = Write(s, file[sinks[s]], NoEff)
  /\ UNCHANGED <<effects, next_id, sinks, slots, file, ff, oneshots>>

Next ==
  \/ \E s \in Sinks : Attach(s)
  \/ \E f \in Fds : Close(f)
  \/ \E o \in Others : OpenOther(o)
  \/ \E src \in Sources, v \in VirtIds :
       handle_erase(src, v) \/ \E e \in Kinds : handle_upload(src, v, e)
  \/ \E e \in Known : create(e)
  \/ \E k \in Persistent : erase(k)
  \/ \E s \in Sinks, k \in Persistent : PlayPersistent(s, k) \/ Stop(s, k)
  \/ \E s \in Sinks, e \in Known : PlayOneShot(s, e)

Spec == Init /\ [][Next]_vars

-----------------------------------------------------------------------------
(* What is said of tables needs this: with two sinks that come and go, one  *)
(* may get the other's descriptor, and lose effects to it (sink_reuse).     *)
OneRemovable == \A s, t \in Removable : s = t

Connected(s) == sinks[s] # NoFd /\ file[sinks[s]] = s

(* What a sink would play from a slot is what the source holds now: no      *)
(* re-upload by the game, erasure or eviction leaves an old effect behind.  *)
SlotsAreCurrent ==
  \A s \in Sinks, k \in Persistent :
    Connected(s) /\ slots[s][k] # NoId =>
      effects[k] # NoEff /\ ff[sinks[s]][slots[s][k]] = effects[k]

(* Nothing leaks in a device: each effect in its table is in one slot, and  *)
(* each slot is an effect in its table, one-shots included, so that         *)
(* eviction always makes room.                                              *)
NoEffectLeak ==
  \A s \in Sinks : Connected(s) =>
    /\ \A r \in RealIds :
         ff[sinks[s]][r] # NoEff <=> \E k \in Keys : slots[s][k] = r
    /\ \A k, l \in Keys :
         slots[s][k] # NoId /\ slots[s][k] = slots[s][l] => k = l

(* Playing on a connected sink always sounds: the effect is in its table,   *)
(* or there is room for it, or evicting what is there makes room.           *)
PlaySounds ==
  [][\A s \in Sinks, k \in Persistent :
       PlayPersistent(s, k) /\ Connected(s) => write' = Write(s, s, effects[k])]_vars

(* docs/aelkey-reference.md: the dev_id given to play is the real device    *)
(* that vibrates; what is written for it goes to no other file.             *)
PlaysOnItsDevice == write.file \in {write.sink, "none"}
=============================================================================
