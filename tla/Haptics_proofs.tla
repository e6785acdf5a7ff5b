--------------------------- MODULE Haptics_proofs ---------------------------
(****************************************************************************)
(* Proofs about Haptics, for any sources, effects, tables and descriptors,  *)
(* and any sinks of which one at most comes and goes.                       *)
(*                                                                          *)
(* SlotsAreCurrent and NoEffectLeak prove each other: an erasure spares the *)
(* other slots of a sink because no two slots hold one effect, and a slot   *)
(* names an effect of the table because eviction and erasure empty both.    *)
(* FilesAgree says which sink a descriptor that is open on a sink belongs   *)
(* to, OneShotsAhead that the key of the next one-shot is free.             *)
(****************************************************************************)
EXTENDS Haptics, TLAPS

FilesAgree ==
  /\ \A f \in Fds : file[f] \in Sinks => sinks[file[f]] = f
  /\ \A s \in Sinks : HasFF(sinks[s]) => file[sinks[s]] = s
  /\ \A s \in Sinks \ Removable : Connected(s)

OneShotsAhead ==
  \A s \in Sinks, n \in 0..MaxOneShot - 1 : n >= oneshots => slots[s][<<OneShot, n>>] = NoId

IInv == TypeOK /\ FilesAgree /\ OneShotsAhead /\ SlotsAreCurrent /\ NoEffectLeak

(* Descriptors and keys. *)
LEMMA Basics ==
  /\ NoFd \notin Fds /\ NoId \notin RealIds /\ NoEff \notin Known
  /\ "none" \notin Sinks /\ "none" \notin Others
  /\ Persistent \subseteq Keys
  /\ \A n \in 0..MaxOneShot - 1 : <<OneShot, n>> \in Keys /\ <<OneShot, n>> \notin Persistent
<1>1. NoFd \notin Fds /\ NoId \notin RealIds
  BY HapticsAssumption DEF NoFd, Fds, NoId, RealIds
<1>2. NoEff \notin Known /\ "none" \notin Sinks /\ "none" \notin Others
  BY HapticsAssumption DEF NoEff, Known
<1>3. OneShot \notin AllSources
  BY HapticsAssumption DEF AllSources, OneShot, Custom
<1>4. Persistent \subseteq Keys
  BY DEF Keys
<1>5. ASSUME NEW n \in 0..MaxOneShot - 1
      PROVE  <<OneShot, n>> \in Keys /\ <<OneShot, n>> \notin Persistent
  <2>1. <<OneShot, n>> \in {OneShot} \X (0..MaxOneShot - 1)
    OBVIOUS
  <2>2. <<OneShot, n>> \notin Persistent
    BY <1>3 DEF Persistent
  <2> QED BY <2>1, <2>2 DEF Keys
<1> QED BY <1>1, <1>2, <1>3, <1>4, <1>5

LEMMA EmptyTypes ==
  NoSlots \in [Keys -> RealIds \cup {NoId}] /\ NoEffects \in [RealIds -> Known \cup {NoEff}]
  BY DEF NoSlots, NoEffects

LEMMA InitInv == Init => IInv
<1> SUFFICES ASSUME Init PROVE IInv
  OBVIOUS
<1> USE Basics
<1>1. \A f \in Fds : file[f] \in Sinks \cup {"none"} /\ (file[f] \in Sinks => sinks[file[f]] = f)
  BY DEF Init
<1>2. TypeOK
  <2>1. file \in [Fds -> Sinks \cup Others \cup {"none"}]
    BY <1>1 DEF Init
  <2>2. write \in [sink : Sinks \cup {"none"}, file : Sinks \cup Others \cup {"none"},
                  effect : Known \cup {NoEff}]
    BY DEF Init, Write
  <2>3. slots \in [Sinks -> [Keys -> RealIds \cup {NoId}]]
    BY EmptyTypes DEF Init
  <2>4. ff \in [Fds -> [RealIds -> Known \cup {NoEff}]]
    BY EmptyTypes DEF Init
  <2>5. effects \in [Persistent -> Known \cup {NoEff}] /\ sinks \in [Sinks -> Fds \cup {NoFd}]
    BY DEF Init
  <2>6. next_id \in 0..MaxIds /\ oneshots \in 0..MaxOneShot
    BY HapticsAssumption DEF Init
  <2> QED BY <2>1, <2>2, <2>3, <2>4, <2>5, <2>6 DEF TypeOK
<1>3. FilesAgree
  <2>1. ASSUME NEW s \in Sinks, sinks[s] # NoFd PROVE file[sinks[s]] = s
    <3>1. s \notin Removable /\ sinks[s] \in Fds /\ file[sinks[s]] \in Sinks
      BY <2>1 DEF Init
    <3>2. sinks[file[sinks[s]]] = sinks[s]
      BY <1>1, <3>1
    <3> QED BY <2>1, <3>1, <3>2 DEF Init
  <2> QED BY <1>1, <2>1 DEF FilesAgree, HasFF, Connected, Init
<1>4. OneShotsAhead
  BY DEF Init, OneShotsAhead, NoSlots
<1>5. SlotsAreCurrent
  BY DEF Init, SlotsAreCurrent, NoSlots
<1>6. NoEffectLeak
  BY <1>3 DEF Init, NoEffectLeak, NoSlots, NoEffects, Connected, TypeOK
<1> QED BY <1>2, <1>3, <1>4, <1>5, <1>6 DEF IInv

-----------------------------------------------------------------------------
(* An open descriptor of a sink is that sink's, and of no other.            *)
LEMMA OwnFd ==
  ASSUME IInv, NEW s \in Sinks, Connected(s)
  PROVE  /\ sinks[s] \in Fds /\ HasFF(sinks[s])
         /\ \A t \in Sinks : sinks[t] = sinks[s] => t = s
  BY Basics DEF IInv, TypeOK, FilesAgree, Connected, HasFF

(* An erasure takes the effect of the erased key from each connected sink,  *)
(* and nothing else. *)
LEMMA ErasureKeeps ==
  ASSUME IInv, NEW k \in Persistent, propagate_erase_to_sinks(k),
         NEW e \in Known \cup {NoEff}, effects' = [effects EXCEPT ![k] = e],
         UNCHANGED <<sinks, file, oneshots>>
  PROVE  /\ ff' \in [Fds -> [RealIds -> Known \cup {NoEff}]]
         /\ slots' \in [Sinks -> [Keys -> RealIds \cup {NoId}]]
         /\ effects' \in [Persistent -> Known \cup {NoEff}]
         /\ FilesAgree' /\ OneShotsAhead' /\ SlotsAreCurrent' /\ NoEffectLeak'
<1> USE Basics
<1>1. ff' \in [Fds -> [RealIds -> Known \cup {NoEff}]]
  BY DEF IInv, TypeOK, propagate_erase_to_sinks
<1>2. slots' \in [Sinks -> [Keys -> RealIds \cup {NoId}]]
  BY DEF IInv, TypeOK, propagate_erase_to_sinks
<1>3. effects' \in [Persistent -> Known \cup {NoEff}]
  BY DEF IInv, TypeOK
<1>4. FilesAgree'
  BY DEF IInv, FilesAgree, HasFF, Connected
<1>5. ASSUME NEW s \in Sinks
      PROVE  /\ slots'[s][k] = NoId
             /\ \A l \in Keys : l # k => slots'[s][l] = slots[s][l]
  BY DEF IInv, TypeOK, propagate_erase_to_sinks
<1>6. OneShotsAhead'
  BY <1>5 DEF IInv, OneShotsAhead
<1>7. ASSUME NEW s \in Sinks, Connected(s)
      PROVE  \A r \in RealIds :
               ff'[sinks[s]][r] = IF slots[s][k] = r THEN NoEff ELSE ff[sinks[s]][r]
  <2>1. sinks[s] \in Fds /\ file[sinks[s]] \in Sinks /\ \A t \in Sinks : sinks[t] = sinks[s] => t = s
    BY <1>7, OwnFd DEF HasFF
  <2> QED BY <2>1 DEF propagate_erase_to_sinks
<1>8. ASSUME NEW s \in Sinks PROVE Connected(s)' <=> Connected(s)
  BY DEF Connected
<1>9. SlotsAreCurrent'
  <2> SUFFICES ASSUME NEW s \in Sinks, NEW l \in Persistent, Connected(s), slots'[s][l] # NoId
               PROVE  effects'[l] # NoEff /\ ff'[sinks[s]][slots'[s][l]] = effects'[l]
    BY <1>8 DEF SlotsAreCurrent
  <2>1. l # k /\ slots'[s][l] = slots[s][l] /\ effects'[l] = effects[l]
    BY <1>5 DEF IInv, TypeOK
  <2>2. slots[s][l] \in RealIds /\ slots[s][k] # slots[s][l]
    BY <2>1 DEF IInv, TypeOK, NoEffectLeak
  <2> QED BY <1>7, <2>1, <2>2 DEF IInv, SlotsAreCurrent
<1>10. NoEffectLeak'
  <2> SUFFICES ASSUME NEW s \in Sinks, Connected(s)
               PROVE  /\ \A r \in RealIds :
                           ff'[sinks[s]][r] # NoEff <=> \E l \in Keys : slots'[s][l] = r
                      /\ \A l, m \in Keys :
                           slots'[s][l] # NoId /\ slots'[s][l] = slots'[s][m] => l = m
    BY <1>8 DEF NoEffectLeak
  <2>1. \A l, m \in Keys : slots[s][l] # NoId /\ slots[s][l] = slots[s][m] => l = m
    BY DEF IInv, NoEffectLeak
  <2>2. \A l, m \in Keys : slots'[s][l] # NoId /\ slots'[s][l] = slots'[s][m] => l = m
    BY <1>5, <2>1
  <2>3. ASSUME NEW r \in RealIds
        PROVE  ff'[sinks[s]][r] # NoEff <=> \E l \in Keys : slots'[s][l] = r
    <3>1. ff[sinks[s]][r] # NoEff <=> \E l \in Keys : slots[s][l] = r
      BY DEF IInv, NoEffectLeak
    <3>2. ff'[sinks[s]][r] = IF slots[s][k] = r THEN NoEff ELSE ff[sinks[s]][r]
      BY <1>7
    <3> QED BY <1>5, <2>1, <3>1, <3>2
  <2> QED BY <2>2, <2>3
<1> QED BY <1>1, <1>2, <1>3, <1>4, <1>6, <1>9, <1>10

(* The table and the slots of a sink that an upload starts from. *)
Kept(s) == Evicted(s, sinks[s])
Base(s) == IF Full(sinks[s]) THEN NoSlots ELSE slots[s]

(* What eviction leaves in a connected sink is what its slots then name,    *)
(* and there is room. *)
LEMMA EvictionKeeps ==
  ASSUME IInv, NEW s \in Sinks, Connected(s)
  PROVE  /\ Kept(s) \in [RealIds -> Known \cup {NoEff}]
         /\ Base(s) \in [Keys -> RealIds \cup {NoId}]
         /\ Free(Kept(s)) # {}
         /\ \A r \in RealIds : Kept(s)[r] # NoEff <=> \E l \in Keys : Base(s)[l] = r
         /\ \A l, m \in Keys : Base(s)[l] # NoId /\ Base(s)[l] = Base(s)[m] => l = m
         /\ \A l \in Keys : Base(s)[l] # NoId => /\ Base(s)[l] = slots[s][l]
                                               /\ Kept(s)[Base(s)[l]] = ff[sinks[s]][Base(s)[l]]
<1> DEFINE f == sinks[s]
<1> USE Basics
<1>1. f \in Fds /\ ff[f] \in [RealIds -> Known \cup {NoEff}] /\ slots[s] \in [Keys -> RealIds \cup {NoId}]
  BY OwnFd DEF IInv, TypeOK
<1>2. /\ \A r \in RealIds : ff[f][r] # NoEff <=> \E l \in Keys : slots[s][l] = r
      /\ \A l, m \in Keys : slots[s][l] # NoId /\ slots[s][l] = slots[s][m] => l = m
  BY DEF IInv, NoEffectLeak
<1>3. CASE Full(f)
  <2>1. \A r \in RealIds : ff[f][r] # NoEff
    BY <1>3 DEF Full, Free
  <2>2. Kept(s) = [r \in RealIds |-> NoEff]
    BY <1>2, <1>3, <2>1 DEF Kept, Base, Evicted
  <2>3. Base(s) = NoSlots /\ \A l \in Keys : Base(s)[l] = NoId
    BY <1>3 DEF Base, NoSlots
  <2>4. 1 \in RealIds
    BY HapticsAssumption DEF RealIds
  <2>5. Free(Kept(s)) # {}
    BY <2>2, <2>4 DEF Free
  <2>6. Base(s) \in [Keys -> RealIds \cup {NoId}]
    BY <2>3, EmptyTypes
  <2> QED BY <2>2, <2>3, <2>5, <2>6
<1>4. CASE ~Full(f)
  <2>1. Kept(s) = [r \in RealIds |-> ff[f][r]] /\ Base(s) = slots[s]
    BY <1>4 DEF Kept, Base, Evicted
  <2>2. Kept(s) = ff[f]
    BY <1>1, <2>1
  <2>3. Free(Kept(s)) # {}
    BY <1>4, <2>2 DEF Full
  <2> QED BY <1>1, <1>2, <2>1, <2>2, <2>3
<1> QED BY <1>3, <1>4

(* An upload puts into an empty slot an effect that no other slot names.    *)
LEMMA UploadKeeps ==
  ASSUME IInv, NEW s \in Sinks, NEW k \in Keys, NEW e \in Known, slots[s][k] = NoId,
         k \in Persistent => effects[k] = e, UploadAndPlay(s, k, e),
         UNCHANGED <<sinks, file, effects>>
  PROVE  /\ ff' \in [Fds -> [RealIds -> Known \cup {NoEff}]]
         /\ slots' \in [Sinks -> [Keys -> RealIds \cup {NoId}]]
         /\ write' \in [sink : Sinks \cup {"none"}, file : Sinks \cup Others \cup {"none"},
                        effect : Known \cup {NoEff}]
         /\ \A t \in Sinks, l \in Keys : slots'[t][l] \in {slots[t][l], NoId} \/ l = k
         /\ FilesAgree' /\ SlotsAreCurrent' /\ NoEffectLeak'
         /\ Connected(s) => write' = Write(s, s, e)
<1> USE Basics
<1> DEFINE f == sinks[s]
<1>1. FilesAgree'
  BY DEF IInv, FilesAgree, HasFF, Connected
<1>2. \A t \in Sinks : Connected(t)' <=> Connected(t)
  BY DEF Connected
<1>3. CASE ~HasFF(f)
  <2>1. UNCHANGED <<ff, slots, write>>
    BY <1>3 DEF UploadAndPlay
  <2>2. ~Connected(s)
    BY <1>3, OwnFd
  <2>3. SlotsAreCurrent' /\ NoEffectLeak'
    BY <1>2, <2>1 DEF IInv, SlotsAreCurrent, NoEffectLeak
  <2> QED BY <1>1, <2>1, <2>2, <2>3 DEF IInv, TypeOK
<1>4. CASE HasFF(f)
  <2>1. Connected(s) /\ f \in Fds /\ file[f] = s /\ \A t \in Sinks : sinks[t] = f => t = s
    BY <1>4, OwnFd DEF IInv, FilesAgree, HasFF, Connected
  <2>2. /\ Kept(s) \in [RealIds -> Known \cup {NoEff}]
        /\ Base(s) \in [Keys -> RealIds \cup {NoId}]
        /\ Free(Kept(s)) # {}
        /\ \A r \in RealIds : Kept(s)[r] # NoEff <=> \E l \in Keys : Base(s)[l] = r
        /\ \A l, m \in Keys : Base(s)[l] # NoId /\ Base(s)[l] = Base(s)[m] => l = m
        /\ \A l \in Keys : Base(s)[l] # NoId => /\ Base(s)[l] = slots[s][l]
                                              /\ Kept(s)[Base(s)[l]] = ff[f][Base(s)[l]]
    BY <2>1, EvictionKeeps
  <2>3. PICK r \in Free(Kept(s)) :
          /\ ff' = [ff EXCEPT ![f] = [Kept(s) EXCEPT ![r] = e]]
          /\ slots' = [slots EXCEPT ![s] = [Base(s) EXCEPT ![k] = r]]
          /\ write' = Write(s, file[f], e)
    BY <1>4, <2>2 DEF UploadAndPlay, Kept, Base
  <2>4. r \in RealIds /\ Kept(s)[r] = NoEff
    BY <2>2 DEF Free
  <2>5. Base(s)[k] = NoId
    BY <2>2
  <2>6. /\ ff'[f] = [Kept(s) EXCEPT ![r] = e] /\ slots'[s] = [Base(s) EXCEPT ![k] = r]
        /\ \A g \in Fds : g # f => ff'[g] = ff[g]
        /\ \A t \in Sinks : t # s => slots'[t] = slots[t]
    BY <2>1, <2>3 DEF IInv, TypeOK
  <2>7. /\ ff' \in [Fds -> [RealIds -> Known \cup {NoEff}]]
        /\ slots' \in [Sinks -> [Keys -> RealIds \cup {NoId}]]
    BY <2>1, <2>2, <2>3, <2>4 DEF IInv, TypeOK
  <2>8. write' = Write(s, s, e)
    BY <2>1, <2>3
  <2>9. \A l \in Keys : slots'[s][l] = IF l = k THEN r ELSE Base(s)[l]
    BY <2>2, <2>6
  <2>10. \A q \in RealIds : ff'[f][q] = IF q = r THEN e ELSE Kept(s)[q]
    BY <2>2, <2>6
  <2>11. ASSUME NEW t \in Sinks, NEW l \in Keys
        PROVE  slots'[t][l] \in {slots[t][l], NoId} \/ l = k
    <3>1. CASE t # s
      BY <2>6, <3>1
    <3>2. CASE t = s
      BY <2>2, <2>9, <3>2
    <3> QED BY <3>1, <3>2
  <2>12. ASSUME NEW t \in Sinks, Connected(t), t # s
         PROVE  sinks[t] \in Fds /\ ff'[sinks[t]] = ff[sinks[t]] /\ slots'[t] = slots[t]
    BY <2>1, <2>6, <2>12, OwnFd
  <2>13. SlotsAreCurrent'
    <3> SUFFICES ASSUME NEW t \in Sinks, NEW l \in Persistent, Connected(t), slots'[t][l] # NoId
                 PROVE  effects[l] # NoEff /\ ff'[sinks[t]][slots'[t][l]] = effects[l]
      BY <1>2 DEF SlotsAreCurrent
    <3>1. CASE t # s
      BY <2>12, <3>1 DEF IInv, SlotsAreCurrent
    <3>2. CASE t = s /\ l = k
      <4>1. e # NoEff /\ effects[l] = e
        BY <3>2
      <4> QED BY <2>4, <2>9, <2>10, <3>2, <4>1
    <3>3. CASE t = s /\ l # k
      <4>1. l \in Keys /\ slots'[s][l] = Base(s)[l] /\ Base(s)[l] \in RealIds /\ Base(s)[l] # r
        <5>1. l \in Keys /\ slots'[s][l] = Base(s)[l]
          BY <2>9, <3>3
        <5>2. Base(s)[l] \in RealIds
          BY <2>2, <3>3, <5>1
        <5> QED BY <2>2, <2>4, <5>1, <5>2
      <4>2. Base(s)[l] = slots[s][l] /\ ff'[f][Base(s)[l]] = ff[f][slots[s][l]]
        BY <2>2, <2>10, <4>1
      <4> QED BY <2>1, <3>3, <4>1, <4>2 DEF IInv, SlotsAreCurrent
    <3> QED BY <3>1, <3>2, <3>3
  <2>14. NoEffectLeak'
    <3> SUFFICES ASSUME NEW t \in Sinks, Connected(t)
                 PROVE  /\ \A q \in RealIds :
                             ff'[sinks[t]][q] # NoEff <=> \E l \in Keys : slots'[t][l] = q
                        /\ \A l, m \in Keys :
                             slots'[t][l] # NoId /\ slots'[t][l] = slots'[t][m] => l = m
      BY <1>2 DEF NoEffectLeak
    <3>1. CASE t # s
      BY <2>12, <3>1 DEF IInv, NoEffectLeak
    <3>2. CASE t = s
      <4>3. \A l \in Keys : Base(s)[l] # r
        BY <2>2, <2>4
      <4>4. \A l, m \in Keys : slots'[s][l] # NoId /\ slots'[s][l] = slots'[s][m] => l = m
        BY <2>2, <2>9, <4>3
      <4>5. \A q \in RealIds : ff'[f][q] # NoEff <=> \E l \in Keys : slots'[s][l] = q
        BY <2>2, <2>5, <2>9, <2>10
      <4> QED BY <3>2, <4>4, <4>5
    <3> QED BY <3>1, <3>2
  <2>15. write' \in [sink : Sinks \cup {"none"}, file : Sinks \cup Others \cup {"none"},
                     effect : Known \cup {NoEff}]
    BY <2>8 DEF Write
  <2> QED BY <1>1, <2>7, <2>8, <2>11, <2>13, <2>14, <2>15
<1> QED BY <1>3, <1>4

-----------------------------------------------------------------------------
(* A sink is attached to a free descriptor, which no other sink has in use. *)
LEMMA AttachKeepsInv ==
  ASSUME IInv, OneRemovable, NEW s \in Sinks, Attach(s)
  PROVE  IInv'
<1> USE Basics
<1>1. PICK f \in Fds :
        /\ file[f] = "none"
        /\ file' = [file EXCEPT ![f] = s] /\ ff' = [ff EXCEPT ![f] = NoEffects]
        /\ sinks' = [sinks EXCEPT ![s] = f] /\ slots' = [slots EXCEPT ![s] = NoSlots]
        /\ UNCHANGED <<effects, next_id, oneshots, write>>
  BY DEF Attach, LowestFree
<1>2. s \in Removable
  BY DEF IInv, TypeOK, FilesAgree, Connected, Attach
<1>3. ASSUME NEW t \in Sinks, t # s
      PROVE  t \notin Removable /\ sinks[t] \in Fds /\ sinks[t] # f /\ file[sinks[t]] = t
  BY <1>1, <1>2, <1>3 DEF IInv, TypeOK, FilesAgree, Connected, OneRemovable
<1>4. /\ file'[f] = s /\ sinks'[s] = f /\ ff'[f] = NoEffects /\ slots'[s] = NoSlots
      /\ \A t \in Sinks : t # s => sinks'[t] = sinks[t] /\ slots'[t] = slots[t]
      /\ \A g \in Fds : g # f => file'[g] = file[g] /\ ff'[g] = ff[g]
  BY <1>1 DEF IInv, TypeOK
<1>5. TypeOK'
  BY <1>1, EmptyTypes DEF IInv, TypeOK
<1>6. FilesAgree'
  <2>1. \A g \in Fds : file'[g] \in Sinks => sinks'[file'[g]] = g
    BY <1>3, <1>4 DEF IInv, FilesAgree, Attach
  <2>2. \A t \in Sinks : sinks'[t] # NoFd => file'[sinks'[t]] = t
    BY <1>1, <1>3, <1>4
  <2>3. \A t \in Sinks \ Removable : sinks'[t] # NoFd /\ file'[sinks'[t]] = t
    BY <1>2, <1>3, <1>4
  <2> QED BY <2>1, <2>2, <2>3 DEF FilesAgree, HasFF, Connected
<1>7. OneShotsAhead'
  BY <1>1, <1>4 DEF IInv, OneShotsAhead, NoSlots
<1>8. ASSUME NEW t \in Sinks, t # s
      PROVE  /\ Connected(t) /\ sinks'[t] = sinks[t] /\ ff'[sinks[t]] = ff[sinks[t]]
             /\ slots'[t] = slots[t]
  BY <1>3, <1>4, <1>8 DEF Connected
<1>9. \A l \in Keys : slots'[s][l] = NoId
  BY <1>4 DEF NoSlots
<1>10. SlotsAreCurrent'
  BY <1>1, <1>8, <1>9 DEF IInv, SlotsAreCurrent
<1>11. NoEffectLeak'
  BY <1>4, <1>8, <1>9 DEF IInv, NoEffectLeak, NoEffects
<1> QED BY <1>5, <1>6, <1>7, <1>10, <1>11 DEF IInv

(* A descriptor is closed: its sink, if it was one, is connected no more.   *)
LEMMA CloseKeepsInv ==
  ASSUME IInv, NEW f \in Fds, Close(f)
  PROVE  IInv'
<1> USE Basics
<1>1. /\ file'[f] = "none" /\ file[f] \in Removable \cup Others
      /\ \A g \in Fds : g # f => file'[g] = file[g] /\ ff'[g] = ff[g]
      /\ UNCHANGED <<effects, next_id, sinks, slots, oneshots, write>>
  BY DEF Close, IInv, TypeOK
<1>2. TypeOK'
  <2>1. file' \in [Fds -> Sinks \cup Others \cup {"none"}]
    BY DEF IInv, TypeOK, Close
  <2>2. ff' \in [Fds -> [RealIds -> Known \cup {NoEff}]]
    BY EmptyTypes DEF IInv, TypeOK, Close
  <2> QED BY <1>1, <2>1, <2>2 DEF IInv, TypeOK
<1>3. FilesAgree'
  <2>1. \A t \in Sinks \ Removable : sinks[t] \in Fds /\ sinks[t] # f
    BY <1>1, HapticsAssumption DEF IInv, TypeOK, FilesAgree, Connected
  <2>2. \A g \in Fds : file'[g] \in Sinks => sinks'[file'[g]] = g
    BY <1>1 DEF IInv, FilesAgree
  <2>3. ASSUME NEW t \in Sinks, HasFF(sinks[t])'
        PROVE  file'[sinks'[t]] = t
    <3>1. sinks'[t] = sinks[t] /\ sinks[t] \in Fds /\ sinks[t] # f
      BY <1>1, <2>3 DEF IInv, TypeOK, HasFF
    <3>2. file'[sinks[t]] = file[sinks[t]] /\ HasFF(sinks[t])
      BY <1>1, <2>3, <3>1 DEF HasFF
    <3> QED BY <3>1, <3>2 DEF IInv, FilesAgree
  <2>4. \A t \in Sinks \ Removable : Connected(t)'
    BY <1>1, <2>1 DEF IInv, FilesAgree, Connected
  <2> QED BY <2>2, <2>3, <2>4 DEF FilesAgree
<1>4. OneShotsAhead'
  BY <1>1 DEF IInv, OneShotsAhead
<1>5. ASSUME NEW t \in Sinks, Connected(t)' PROVE Connected(t) /\ ff'[sinks[t]] = ff[sinks[t]]
  BY <1>1, <1>5 DEF Connected, IInv, TypeOK
<1>6. SlotsAreCurrent'
  BY <1>1, <1>5 DEF IInv, SlotsAreCurrent
<1>7. NoEffectLeak'
  BY <1>1, <1>5 DEF IInv, NoEffectLeak
<1> QED BY <1>2, <1>3, <1>4, <1>6, <1>7 DEF IInv

(* Another file takes a free descriptor.                                    *)
LEMMA OpenOtherKeepsInv ==
  ASSUME IInv, NEW o \in Others, OpenOther(o)
  PROVE  IInv'
<1> USE Basics
<1>1. PICK f \in Fds : file[f] = "none" /\ file' = [file EXCEPT ![f] = o]
  BY DEF OpenOther, LowestFree
<1>2. /\ o \notin Sinks /\ file'[f] = o /\ \A g \in Fds : g # f => file'[g] = file[g]
      /\ UNCHANGED <<effects, next_id, sinks, slots, ff, oneshots, write>>
  BY <1>1, HapticsAssumption DEF OpenOther, IInv, TypeOK
<1>3. TypeOK'
  BY <1>1, <1>2 DEF IInv, TypeOK
<1>4. FilesAgree'
  BY <1>1, <1>2 DEF IInv, TypeOK, FilesAgree, HasFF, Connected
<1>5. ASSUME NEW t \in Sinks PROVE Connected(t)' => Connected(t)
  BY <1>1, <1>2 DEF Connected, IInv, TypeOK
<1> QED BY <1>2, <1>3, <1>4, <1>5
        DEF IInv, OneShotsAhead, SlotsAreCurrent, NoEffectLeak

(* The effects of a source change.                                          *)
LEMMA SourceKeepsInv ==
  ASSUME IInv, NEW k \in Persistent, NEW e \in Known \cup {NoEff},
         effects' = [effects EXCEPT ![k] = e], propagate_erase_to_sinks(k),
         next_id' \in 0..MaxIds, UNCHANGED <<sinks, file, oneshots, write>>
  PROVE  IInv'
  BY ErasureKeeps DEF IInv, TypeOK

(* An effect is played, uploaded first if need be.                          *)
LEMMA PlayKeepsInv ==
  ASSUME IInv, NEW s \in Sinks, NEW k \in Persistent, PlayPersistent(s, k)
  PROVE  IInv' /\ (Connected(s) => write' = Write(s, s, effects[k]))
<1> USE Basics
<1>1. /\ sinks[s] # NoFd /\ sinks[s] \in Fds /\ effects[k] \in Known /\ k \in Keys
      /\ UNCHANGED <<effects, next_id, sinks, file, oneshots>>
  BY DEF PlayPersistent, IInv, TypeOK
<1>2. CASE slots[s][k] # NoId
  <2>1. UNCHANGED <<ff, slots>> /\ write' = Write(s, file[sinks[s]], ff[sinks[s]][slots[s][k]])
    BY <1>2 DEF PlayPersistent
  <2>2. slots[s][k] \in RealIds
    BY <1>1, <1>2 DEF IInv, TypeOK
  <2>3. write' \in [sink : Sinks \cup {"none"}, file : Sinks \cup Others \cup {"none"},
                    effect : Known \cup {NoEff}]
    <3>1. file[sinks[s]] \in Sinks \cup Others \cup {"none"}
      BY <1>1 DEF IInv, TypeOK
    <3>2. ff[sinks[s]] \in [RealIds -> Known \cup {NoEff}]
      BY <1>1 DEF IInv, TypeOK
    <3> QED BY <2>1, <2>2, <3>1, <3>2 DEF Write
  <2>4. IInv'
    <3>1. TypeOK'
      BY <1>1, <2>1, <2>3 DEF IInv, TypeOK
    <3>2. FilesAgree' /\ OneShotsAhead'
      BY <1>1, <2>1 DEF IInv, FilesAgree, OneShotsAhead, Connected, HasFF
    <3>3. SlotsAreCurrent'
      BY <1>1, <2>1 DEF IInv, SlotsAreCurrent, Connected
    <3>4. NoEffectLeak'
      BY <1>1, <2>1 DEF IInv, NoEffectLeak, Connected
    <3> QED BY <3>1, <3>2, <3>3, <3>4 DEF IInv
  <2>5. Connected(s) => write' = Write(s, s, effects[k])
    BY <1>2, <2>1 DEF IInv, SlotsAreCurrent, Connected
  <2> QED BY <2>4, <2>5
<1>3. CASE slots[s][k] = NoId
  <2>1. UploadAndPlay(s, k, effects[k])
    BY <1>3 DEF PlayPersistent
  <2>2. /\ ff' \in [Fds -> [RealIds -> Known \cup {NoEff}]]
        /\ slots' \in [Sinks -> [Keys -> RealIds \cup {NoId}]]
        /\ write' \in [sink : Sinks \cup {"none"}, file : Sinks \cup Others \cup {"none"},
                       effect : Known \cup {NoEff}]
        /\ \A t \in Sinks, l \in Keys : slots'[t][l] \in {slots[t][l], NoId} \/ l = k
        /\ FilesAgree' /\ SlotsAreCurrent' /\ NoEffectLeak'
        /\ Connected(s) => write' = Write(s, s, effects[k])
    BY <1>1, <1>3, <2>1, UploadKeeps
  <2>3. OneShotsAhead'
    <3> SUFFICES ASSUME NEW t \in Sinks, NEW n \in 0..MaxOneShot - 1, n >= oneshots
                 PROVE  slots'[t][<<OneShot, n>>] = NoId
      BY <1>1 DEF OneShotsAhead
    <3>1. slots[t][<<OneShot, n>>] = NoId
      BY DEF IInv, OneShotsAhead
    <3> QED BY <2>2, <3>1
  <2> QED BY <1>1, <2>2, <2>3 DEF IInv, TypeOK
<1> QED BY <1>2, <1>3

(* So is a one-shot, under a key of its own.                                *)
LEMMA OneShotKeepsInv ==
  ASSUME IInv, NEW s \in Sinks, NEW e \in Known, PlayOneShot(s, e)
  PROVE  IInv'
<1> USE Basics
<1> DEFINE k == <<OneShot, oneshots>>
<1>1. /\ oneshots \in 0..MaxOneShot - 1 /\ oneshots' = oneshots + 1 /\ oneshots' \in 0..MaxOneShot
      /\ UNCHANGED <<effects, next_id, sinks, file>> /\ UploadAndPlay(s, k, e)
  BY HapticsAssumption DEF PlayOneShot, IInv, TypeOK
<1>2. k \in Keys /\ k \notin Persistent /\ slots[s][k] = NoId
  BY <1>1 DEF IInv, OneShotsAhead
<1>3. /\ ff' \in [Fds -> [RealIds -> Known \cup {NoEff}]]
      /\ slots' \in [Sinks -> [Keys -> RealIds \cup {NoId}]]
      /\ write' \in [sink : Sinks \cup {"none"}, file : Sinks \cup Others \cup {"none"},
                     effect : Known \cup {NoEff}]
      /\ \A t \in Sinks, l \in Keys : slots'[t][l] \in {slots[t][l], NoId} \/ l = k
      /\ FilesAgree' /\ SlotsAreCurrent' /\ NoEffectLeak'
  <2> HIDE DEF k
  <2> QED BY <1>1, <1>2, UploadKeeps
<1>4. OneShotsAhead'
  <2> SUFFICES ASSUME NEW t \in Sinks, NEW n \in 0..MaxOneShot - 1, n >= oneshots + 1
               PROVE  slots'[t][<<OneShot, n>>] = NoId
    BY <1>1 DEF OneShotsAhead
  <2>1. n >= oneshots /\ <<OneShot, n>> # k
    BY <1>1
  <2>2. slots[t][<<OneShot, n>>] = NoId
    BY <2>1 DEF IInv, OneShotsAhead
  <2> QED BY <1>3, <2>1, <2>2
<1> QED BY <1>1, <1>3, <1>4 DEF IInv, TypeOK

LEMMA StepInv ==
  ASSUME IInv, OneRemovable, [Next]_vars
  PROVE  IInv'
<1> USE Basics
<1>1. ASSUME NEW src \in Sources, NEW v \in VirtIds, NEW e \in Kinds, handle_upload(src, v, e)
      PROVE  IInv'
  <2>1. rebuild_effect(e) \in Known /\ <<src, v>> \in Persistent /\ next_id' \in 0..MaxIds
    BY <1>1 DEF rebuild_effect, Known, Persistent, AllSources, handle_upload, IInv, TypeOK
  <2> QED BY <1>1, <2>1, SourceKeepsInv DEF handle_upload
<1>2. ASSUME NEW src \in Sources, NEW v \in VirtIds, handle_erase(src, v)
      PROVE  IInv'
  <2>1. <<src, v>> \in Persistent /\ next_id' \in 0..MaxIds
    BY <1>2 DEF Persistent, AllSources, handle_erase, IInv, TypeOK
  <2> QED BY <1>2, <2>1, SourceKeepsInv DEF handle_erase
<1>3. ASSUME NEW e \in Known, create(e)
      PROVE  IInv'
  <2>1. <<Custom, next_id>> \in Persistent
    BY <1>3 DEF Persistent, AllSources, create
  <2>2. next_id' \in 0..MaxIds
    BY <1>3, HapticsAssumption DEF create, VirtIds
  <2> QED BY <1>3, <2>1, <2>2, SourceKeepsInv DEF create
<1>4. ASSUME NEW k \in Persistent, erase(k)
      PROVE  IInv'
  <2>1. next_id' \in 0..MaxIds
    BY <1>4 DEF erase, IInv, TypeOK
  <2> QED BY <1>4, <2>1, SourceKeepsInv DEF erase
<1>5. ASSUME NEW s \in Sinks, NEW k \in Persistent, Stop(s, k)
      PROVE  IInv'
  <2>1. sinks[s] \in Fds
    BY <1>5 DEF Stop, IInv, TypeOK
  <2>2. write' \in [sink : Sinks \cup {"none"}, file : Sinks \cup Others \cup {"none"},
                    effect : Known \cup {NoEff}]
    BY <1>5, <2>1 DEF Stop, Write, IInv, TypeOK
  <2> QED BY <1>5, <2>2
          DEF Stop, IInv, TypeOK, FilesAgree, OneShotsAhead, SlotsAreCurrent, NoEffectLeak, Connected, HasFF
<1>6. CASE UNCHANGED vars
  BY <1>6 DEF vars, IInv, TypeOK, FilesAgree, OneShotsAhead, SlotsAreCurrent, NoEffectLeak,
              Connected, HasFF
<1> QED BY <1>1, <1>2, <1>3, <1>4, <1>5, <1>6, AttachKeepsInv, CloseKeepsInv, OpenOtherKeepsInv,
           PlayKeepsInv, OneShotKeepsInv DEF Next

LEMMA Invariant == ASSUME OneRemovable PROVE Spec => []IInv
  BY InitInv, StepInv, PTL DEF Spec

(* The variables of Haptics keep their types.                               *)
THEOREM HapticsType == ASSUME OneRemovable PROVE Spec => []TypeOK
<1>1. IInv => TypeOK
  BY DEF IInv
<1> QED BY <1>1, Invariant, PTL

(* What a connected sink would play is what the source holds now.           *)
THEOREM HapticsSlotsAreCurrent == ASSUME OneRemovable PROVE Spec => []SlotsAreCurrent
<1>1. IInv => SlotsAreCurrent
  BY DEF IInv
<1> QED BY <1>1, Invariant, PTL

(* A connected sink's table holds what its slots name, each effect once.    *)
THEOREM HapticsNoEffectLeak == ASSUME OneRemovable PROVE Spec => []NoEffectLeak
<1>1. IInv => NoEffectLeak
  BY DEF IInv
<1> QED BY <1>1, Invariant, PTL

(* What is played on a connected sink sounds, however full its table is.    *)
THEOREM HapticsPlaySounds == ASSUME OneRemovable PROVE Spec => PlaySounds
<1>1. IInv /\ [Next]_vars =>
        [\A s \in Sinks, k \in Persistent :
           PlayPersistent(s, k) /\ Connected(s) => write' = Write(s, s, effects[k])]_vars
  BY PlayKeepsInv
<1> QED BY <1>1, Invariant, PTL DEF PlaySounds, Spec
=============================================================================
