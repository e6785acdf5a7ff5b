----------------------- MODULE DeviceLifecycle_proofs -----------------------
(****************************************************************************)
(* Proofs about DeviceLifecycle, for any declarations, nodes, hardware and  *)
(* any number of descriptors and queued messages.                           *)
(****************************************************************************)
EXTENDS DeviceLifecycle, TLAPS

(* A payload is marked dead when its device is released, and never again    *)
(* brought to life: register_fd keeps the entry it finds.                   *)
StaleAreDead == \A r \in stale : pollfds[r] = "dead"

(* A descriptor that hidraw ever had stays open, so nothing else gets it.   *)
HidrawKeepsOpen ==
  \A f \in Fds : pollfds[<<"hidraw", f>>] # "none" =>
    /\ openNode[f] # NoNode
    /\ \A d \in Decls : DeclType[d] = "evdev" => input_map[d] # f

RegInv ==
  /\ RegistryAgreement
  /\ DevnodeAgrees
  /\ StaleAreDead
  /\ HidrawKeepsOpen
  /\ HidrawIsHeard

IInv == TypeOK /\ RegInv

-----------------------------------------------------------------------------
(* What a released device's payloads are: exactly the one it is known by.   *)
LEMMA ReleasedIsRef ==
  ASSUME TypeOK, RegInv, NEW d \in Decls, Attached(d)
  PROVE  Released(d) = {Ref(d)} /\ Ref(d) \in DevRefs
<1>1. Ref(d) \in DevRefs
  BY DeclAssumption DEF Ref, Attached, TypeOK, DevRefs, Backends
<1>2. CASE DeclType[d] = "evdev"
  BY <1>1, <1>2 DEF Released
<1>3. CASE DeclType[d] = "hidraw"
  <2>1. devices[Ref(d)] = d /\ Ref(d)[1] = "hidraw"
    BY <1>3 DEF RegInv, RegistryAgreement, Ref
  <2>2. \A r \in DevRefs : devices[r] = d => r = Ref(d)
    BY NullAssumption DEF RegInv, RegistryAgreement
  <2>3. Released(d) = {r \in DevRefs : r[1] = "hidraw" /\ devices[r] = d}
    BY <1>3 DEF Released
  <2> QED
    BY <1>1, <2>1, <2>2, <2>3
<1> QED
  BY <1>2, <1>3, DeclAssumption DEF Backends

(* DeviceManager::detach keeps the registries in agreement. *)
LEMMA DetachInv ==
  ASSUME TypeOK, RegInv, NEW d \in Decls, Detach(d), UNCHANGED devnode,
         frames' = frames \/ frames' = frames \ {d}
  PROVE  RegInv'
<1> DEFINE r0 == Ref(d)
           f0 == input_map[d]
<1>1. Attached(d) /\ Released(d) = {r0} /\ r0 \in DevRefs /\ f0 \in Fds /\ r0 = <<DeclType[d], f0>>
  BY ReleasedIsRef DEF Detach, TypeOK, Attached, Ref
<1>2. /\ pollfds' = [r \in Refs |-> IF r = r0 /\ pollfds[r] = "live" THEN "dead" ELSE pollfds[r]]
      /\ interest' = interest \ {r0}
      /\ devices' = [r \in DevRefs |-> IF r = r0 THEN NoDecl ELSE devices[r]]
      /\ input_map' = [input_map EXCEPT ![d] = NoFd]
      /\ stale' = stale \cup {r0}
  BY <1>1 DEF Detach, unregister_fd
<1>3. openNode' = [f \in Fds |-> IF r0 = <<"evdev", f>> THEN NoNode ELSE openNode[f]]
  BY <1>1 DEF Detach, Closed
<1>4. devices[r0] = d /\ pollfds[r0] # "none" /\ r0 \in Refs
  BY <1>1 DEF RegInv, RegistryAgreement, Refs
<1>5. \A e \in Decls : Attached(e)' <=> (Attached(e) /\ e # d)
  BY <1>1, <1>2 DEF Attached, TypeOK
<1>6. \A e \in Decls : e # d => input_map'[e] = input_map[e] /\ Ref(e)' = Ref(e)
  BY <1>2 DEF TypeOK, Ref
<1>7. \A e \in Decls : e # d /\ Attached(e) => input_map[e] # f0 /\ Ref(e) # r0
  BY <1>1 DEF RegInv, RegistryAgreement, Ref, Attached
<1>8. \A e \in Decls : Attached(e) => Ref(e) \in DevRefs /\ Ref(e) \in Refs /\ input_map[e] \in Fds
  BY ReleasedIsRef DEF TypeOK, Attached, Refs
<1> HIDE DEF r0, f0
<1>9. RegistryAgreement'
  <2>1. ASSUME NEW e \in Decls, Attached(e)'
        PROVE  /\ (devices[Ref(e)] = e)'
               /\ (Ref(e) \in interest /\ pollfds[Ref(e)] # "none")'
               /\ DeclType[e] = "evdev" => e \in frames'
    <3>1. e # d /\ Attached(e) /\ Ref(e)' = Ref(e) /\ Ref(e) # r0
      BY <2>1, <1>5, <1>6, <1>7
    <3>2. devices[Ref(e)] = e /\ Ref(e) \in interest /\ pollfds[Ref(e)] # "none"
          /\ (DeclType[e] = "evdev" => e \in frames)
      BY <3>1 DEF RegInv, RegistryAgreement
    <3> QED
      BY <3>1, <3>2, <1>2, <1>8
  <2>2. ASSUME NEW r \in DevRefs, devices'[r] # NoDecl
        PROVE  (Attached(devices[r]) /\ Ref(devices[r]) = r)'
    <3>1. r # r0 /\ devices'[r] = devices[r] /\ devices[r] \in Decls
      BY <2>2, <1>2 DEF TypeOK
    <3>2. Attached(devices[r]) /\ Ref(devices[r]) = r
      BY <3>1, <2>2 DEF RegInv, RegistryAgreement
    <3>3. devices[r] # d
      BY <3>1, <3>2 DEF r0
    <3> QED
      BY <3>1, <3>2, <3>3, <1>5, <1>6 DEF Attached, Ref
  <2>3. ASSUME NEW e \in Decls, NEW g \in Decls, Attached(e)', input_map'[e] = input_map'[g]
        PROVE  e = g
    <3>1. Attached(e) /\ e # d /\ input_map'[e] = input_map[e]
      BY <2>3, <1>5, <1>6
    <3>2. g # d
      BY <3>1, <2>3, <1>2 DEF Attached, TypeOK
    <3>3. input_map'[g] = input_map[g]
      BY <3>2, <1>6
    <3> QED
      BY <3>1, <3>3, <2>3 DEF RegInv, RegistryAgreement
  <2> QED
    BY <2>1, <2>2, <2>3 DEF RegistryAgreement, Attached, Ref
<1>10. DevnodeAgrees'
  <2> SUFFICES ASSUME NEW e \in Decls, Attached(e)'
               PROVE  devnode'[e] # NoNode /\ openNode'[input_map'[e]] = devnode'[e]
    BY DEF DevnodeAgrees
  <2>1. e # d /\ Attached(e) /\ input_map'[e] = input_map[e] /\ input_map[e] # f0 /\ input_map[e] \in Fds
    BY <1>5, <1>6, <1>7, <1>8
  <2>2. r0 # <<"evdev", input_map[e]>>
    BY <1>1, <2>1
  <2> QED
    BY <2>1, <2>2, <1>3 DEF RegInv, DevnodeAgrees
<1>11. StaleAreDead'
  <2>1. \A r \in stale : r \in Refs
    BY DEF TypeOK, Refs
  <2>2. pollfds[r0] \in {"live", "dead"}
    BY <1>4 DEF TypeOK
  <2> QED
    BY <1>2, <1>4, <2>1, <2>2 DEF RegInv, StaleAreDead
<1>12. HidrawKeepsOpen'
  <2> SUFFICES ASSUME NEW f \in Fds, pollfds'[<<"hidraw", f>>] # "none"
               PROVE  /\ openNode'[f] # NoNode
                      /\ \A e \in Decls : DeclType[e] = "evdev" => input_map'[e] # f
    BY DEF HidrawKeepsOpen
  <2>1. <<"hidraw", f>> \in Refs
    BY DEF Refs, DevRefs, Backends
  <2>2. pollfds[<<"hidraw", f>>] # "none"
    BY <2>1, <1>2
  <2>3. openNode[f] # NoNode /\ \A e \in Decls : DeclType[e] = "evdev" => input_map[e] # f
    BY <2>2 DEF RegInv, HidrawKeepsOpen
  <2>4. r0 # <<"evdev", f>>
    BY <2>3, <1>1 DEF f0
  <2>5. f # NoFd
    BY BoundAssumption DEF Fds, NoFd
  <2> QED
    BY <2>3, <2>4, <2>5, <1>3, <1>2 DEF TypeOK
<1>13. HidrawIsHeard'
  BY <1>2, <1>5, <1>6, <1>7, <1>8 DEF RegInv, HidrawIsHeard
<1> QED
  BY <1>9, <1>10, <1>11, <1>12, <1>13 DEF RegInv

(* DeviceManager::attach followed by the update of decl.devnode keeps them: *)
(* a free descriptor has no device, and no hidraw payload.                  *)
LEMMA AttachInv ==
  ASSUME TypeOK, RegInv, NEW d \in Decls, NEW n \in Nodes, Attach(d, n),
         devnode' = [devnode EXCEPT ![d] = n], UNCHANGED stale
  PROVE  RegInv'
<1>1. PICK f \in Fds :
        LET r == <<DeclType[d], f>> IN
        /\ ~Attached(d)
        /\ LowestFree(f)
        /\ openNode' = [openNode EXCEPT ![f] = n]
        /\ gone' = gone \ {f}
        /\ readable' = readable \ {f}
        /\ register_fd(r)
        /\ devices' = [devices EXCEPT ![r] = d]
        /\ input_map' = [input_map EXCEPT ![d] = f]
        /\ frames' = IF DeclType[d] = "evdev" THEN frames \cup {d} ELSE frames
  BY DEF Attach, open_device
<1> DEFINE r0 == <<DeclType[d], f>>
<1>2. r0 \in DevRefs /\ r0 \in Refs /\ f # NoFd /\ d # NoDecl /\ n # NoNode
  BY DeclAssumption, BoundAssumption, NullAssumption DEF DevRefs, Refs, Fds, NoFd
<1>3. /\ pollfds' = [pollfds EXCEPT ![r0] = IF @ = "none" THEN "live" ELSE @]
      /\ interest' = interest \cup {r0}
      /\ devices' = [devices EXCEPT ![r0] = d]
      /\ input_map' = [input_map EXCEPT ![d] = f]
      /\ frames' = IF DeclType[d] = "evdev" THEN frames \cup {d} ELSE frames
  BY <1>1 DEF register_fd
<1>4. openNode[f] = NoNode /\ ~Attached(d) /\ openNode' = [openNode EXCEPT ![f] = n]
  BY <1>1 DEF LowestFree
<1>5. \A e \in Decls : input_map[e] # f
  BY <1>2, <1>4 DEF RegInv, DevnodeAgrees, Attached
<1>6. \A e \in Decls : Attached(e)' <=> (Attached(e) \/ e = d)
  BY <1>2, <1>3 DEF Attached, TypeOK
<1>7. \A e \in Decls : e # d => input_map'[e] = input_map[e]
  BY <1>3 DEF TypeOK
<1>8. input_map'[d] = f /\ Ref(d)' = r0
  BY <1>3 DEF TypeOK, Ref
<1>9. \A e \in Decls : Attached(e) => Ref(e) \in DevRefs /\ Ref(e) \in Refs /\ input_map[e] \in Fds
  BY ReleasedIsRef DEF TypeOK, Attached, Refs
<1>10. \A e \in Decls : Ref(e) # r0
  BY <1>5 DEF Ref
<1>11. devices[r0] = NoDecl
  BY <1>2, <1>10 DEF TypeOK, RegInv, RegistryAgreement
<1>12. pollfds'[r0] # "none"
  BY <1>2, <1>3 DEF TypeOK
<1>13. \A e \in Decls : e # d => Ref(e)' = Ref(e)
  BY <1>7 DEF Ref
<1> HIDE DEF r0
<1>14. RegistryAgreement'
  <2>1. ASSUME NEW e \in Decls, Attached(e)'
        PROVE  /\ (devices[Ref(e)] = e)'
               /\ (Ref(e) \in interest /\ pollfds[Ref(e)] # "none")'
               /\ DeclType[e] = "evdev" => e \in frames'
    <3>1. CASE e = d
      BY <3>1, <1>8, <1>2, <1>3, <1>12 DEF TypeOK
    <3>2. CASE e # d
      <4>1. Attached(e) /\ Ref(e)' = Ref(e) /\ Ref(e) # r0 /\ Ref(e) \in DevRefs /\ Ref(e) \in Refs
        BY <3>2, <2>1, <1>6, <1>13, <1>9, <1>10
      <4>2. devices[Ref(e)] = e /\ Ref(e) \in interest /\ pollfds[Ref(e)] # "none"
            /\ (DeclType[e] = "evdev" => e \in frames)
        BY <4>1 DEF RegInv, RegistryAgreement
      <4> QED
        BY <4>1, <4>2, <1>3 DEF TypeOK
    <3> QED
      BY <3>1, <3>2
  <2>2. ASSUME NEW r \in DevRefs, devices'[r] # NoDecl
        PROVE  (Attached(devices[r]) /\ Ref(devices[r]) = r)'
    <3>1. CASE r = r0
      <4>1. devices'[r] = d
        BY <3>1, <1>2, <1>3 DEF TypeOK
      <4> QED
        BY <3>1, <4>1, <1>8, <1>2 DEF Attached, Ref
    <3>2. CASE r # r0
      <4>1. devices'[r] = devices[r] /\ devices[r] \in Decls
        BY <3>2, <2>2, <1>3 DEF TypeOK
      <4>2. Attached(devices[r]) /\ Ref(devices[r]) = r
        BY <4>1, <2>2 DEF RegInv, RegistryAgreement
      <4>3. devices[r] # d
        BY <4>2, <1>4
      <4> QED
        BY <4>1, <4>2, <4>3, <1>7 DEF Attached, Ref
    <3> QED
      BY <3>1, <3>2
  <2>3. ASSUME NEW e \in Decls, NEW g \in Decls, Attached(e)', input_map'[e] = input_map'[g]
        PROVE  e = g
    <3>1. CASE e = d \/ g = d
      BY <3>1, <2>3, <1>5, <1>7, <1>8
    <3>2. CASE e # d /\ g # d
      BY <3>2, <2>3, <1>6, <1>7 DEF RegInv, RegistryAgreement
    <3> QED
      BY <3>1, <3>2
  <2> QED
    BY <2>1, <2>2, <2>3 DEF RegistryAgreement, Attached, Ref
<1>15. DevnodeAgrees'
  <2> SUFFICES ASSUME NEW e \in Decls, Attached(e)'
               PROVE  devnode'[e] # NoNode /\ openNode'[input_map'[e]] = devnode'[e]
    BY DEF DevnodeAgrees
  <2>1. CASE e = d
    BY <2>1, <1>2, <1>4, <1>8 DEF TypeOK
  <2>2. CASE e # d
    <3>1. Attached(e) /\ input_map'[e] = input_map[e] /\ input_map[e] # f /\ input_map[e] \in Fds
      BY <2>2, <1>5, <1>6, <1>7, <1>9
    <3> QED
      BY <3>1, <2>2, <1>4 DEF RegInv, DevnodeAgrees, TypeOK
  <2> QED
    BY <2>1, <2>2
<1>16. StaleAreDead'
  BY <1>3 DEF RegInv, StaleAreDead, TypeOK, Refs
<1>17. HidrawKeepsOpen'
  <2> SUFFICES ASSUME NEW g \in Fds, pollfds'[<<"hidraw", g>>] # "none"
               PROVE  /\ openNode'[g] # NoNode
                      /\ \A e \in Decls : DeclType[e] = "evdev" => input_map'[e] # g
    BY DEF HidrawKeepsOpen
  <2>1. CASE g = f
    <3>1. pollfds[<<"hidraw", f>>] = "none"
      BY <1>4 DEF RegInv, HidrawKeepsOpen
    <3>2. r0 = <<"hidraw", f>>
      BY <2>1, <3>1, <1>3 DEF TypeOK, r0
    <3>3. DeclType[d] = "hidraw"
      BY <3>2 DEF r0
    <3>4. \A e \in Decls : e # d => input_map'[e] # g
      BY <2>1, <1>5, <1>7
    <3> QED
      BY <2>1, <3>3, <3>4, <1>2, <1>4 DEF TypeOK
  <2>2. CASE g # f
    <3>1. pollfds[<<"hidraw", g>>] # "none"
      BY <2>2, <1>3 DEF TypeOK, r0
    <3> QED
      BY <3>1, <2>2, <1>4, <1>7, <1>8 DEF RegInv, HidrawKeepsOpen, TypeOK
  <2> QED
    BY <2>1, <2>2
<1>18. HidrawIsHeard'
  <2> SUFFICES ASSUME NEW e \in Decls, Attached(e)', DeclType[e] = "hidraw"
               PROVE  (pollfds[Ref(e)] = "live")'
    BY DEF HidrawIsHeard
  <2>1. CASE e = d
    <3>1. pollfds[r0] = "none"
      BY <2>1, <1>4 DEF RegInv, HidrawKeepsOpen, r0
    <3> QED
      BY <3>1, <2>1, <1>2, <1>3, <1>8 DEF TypeOK
  <2>2. CASE e # d
    <3>1. Attached(e) /\ Ref(e)' = Ref(e) /\ Ref(e) # r0
      BY <2>2, <1>6, <1>13, <1>10
    <3> QED
      BY <3>1, <1>3, <1>9 DEF RegInv, HidrawIsHeard, TypeOK
  <2> QED
    BY <2>1, <2>2
<1> QED
  BY <1>14, <1>15, <1>16, <1>17, <1>18 DEF RegInv

(* Steps that touch no registry keep the agreement; epoll_wait forgets what *)
(* was stale, since it reports registered payloads only.                    *)
LEMMA FrameInv ==
  ASSUME RegInv, UNCHANGED <<openNode, regVars, devnode>>, stale' = stale \/ stale' = {}
  PROVE  RegInv'
<1> USE DEF regVars, Attached, Ref
<1>1. RegistryAgreement' /\ DevnodeAgrees' /\ HidrawKeepsOpen' /\ HidrawIsHeard'
  BY DEF RegInv, RegistryAgreement, DevnodeAgrees, HidrawKeepsOpen, HidrawIsHeard
<1>2. StaleAreDead'
  BY DEF RegInv, StaleAreDead
<1> QED
  BY <1>1, <1>2 DEF RegInv

(* open_device() parses the declarations again only while none is attached, *)
(* so that no recorded devnode is lost. *)
LEMMA OpenAllInv ==
  ASSUME RegInv, NEW c, OpenAll(c), UNCHANGED <<openNode, regVars, stale>>
  PROVE  RegInv'
<1> USE DEF regVars, Attached, Ref
<1>1. \A d \in Decls : ~Attached(d)
  BY DEF OpenAll, OpenAllSkips
<1>2. DevnodeAgrees'
  BY <1>1 DEF DevnodeAgrees
<1>3. RegistryAgreement' /\ HidrawKeepsOpen' /\ HidrawIsHeard'
  BY DEF RegInv, RegistryAgreement, HidrawKeepsOpen, HidrawIsHeard
<1>4. StaleAreDead'
  BY DEF RegInv, StaleAreDead
<1> QED
  BY <1>2, <1>3, <1>4 DEF RegInv

-----------------------------------------------------------------------------
(* The type invariant, in two halves: what attach and detach change, and    *)
(* the rest. *)
DevType ==
  /\ openNode \in [Fds -> Nodes \cup {NoNode}]
  /\ gone \subseteq Fds /\ readable \subseteq Fds
  /\ interest \subseteq Refs
  /\ pollfds \in [Refs -> {"none", "live", "dead"}]
  /\ devices \in [DevRefs -> Decls \cup {NoDecl}]
  /\ input_map \in [Decls -> Fds \cup {NoFd}]
  /\ frames \subseteq Decls
  /\ devnode \in [Decls -> Nodes \cup {NoNode}]
  /\ stale \subseteq DevRefs
CtlType ==
  /\ plugged \in [Nodes -> Hw \cup {NoHw}]
  /\ udevq \in Seq(Events)
  /\ parsed \in BOOLEAN /\ started \in BOOLEAN
  /\ batch \in [Refs -> SUBSET {"IN", "HUP"}]
  /\ script \in [cb : Callbacks, dev : Decls \cup {NoDecl}]
  /\ resume \in [cb : Callbacks, dev : Decls \cup {NoDecl}]
  /\ reading \in Fds \cup {NoFd}
  /\ handling \in Events \cup {NoEvent}
  /\ todo \subseteq Decls

LEMMA TypeSplit == TypeOK <=> DevType /\ CtlType
BY DEF TypeOK, DevType, CtlType

LEMMA DetachType ==
  ASSUME TypeOK, RegInv, NEW d \in Decls, Detach(d), UNCHANGED devnode,
         frames' = frames \/ frames' = frames \ {d}
  PROVE  DevType'
<1>1. Released(d) \subseteq DevRefs
  BY ReleasedIsRef DEF Detach
<1>2. pollfds' \in [Refs -> {"none", "live", "dead"}] /\ interest' \subseteq Refs
  BY DEF Detach, unregister_fd, TypeOK
<1>3. devices' \in [DevRefs -> Decls \cup {NoDecl}]
  BY DEF Detach, TypeOK
<1>4. openNode' \in [Fds -> Nodes \cup {NoNode}] /\ gone' \subseteq Fds /\ readable' \subseteq Fds
  BY DEF Detach, Closed, TypeOK
<1>5. input_map' \in [Decls -> Fds \cup {NoFd}] /\ stale' \subseteq DevRefs
  BY <1>1 DEF Detach, TypeOK
<1> QED
  BY <1>2, <1>3, <1>4, <1>5 DEF DevType, TypeOK

LEMMA AttachType ==
  ASSUME TypeOK, NEW d \in Decls, NEW n \in Nodes, Attach(d, n),
         devnode' = [devnode EXCEPT ![d] = n], UNCHANGED stale
  PROVE  DevType'
<1>1. PICK f \in Fds :
        LET r == <<DeclType[d], f>> IN
        /\ openNode' = [openNode EXCEPT ![f] = n]
        /\ gone' = gone \ {f}
        /\ readable' = readable \ {f}
        /\ register_fd(r)
        /\ devices' = [devices EXCEPT ![r] = d]
        /\ input_map' = [input_map EXCEPT ![d] = f]
        /\ frames' = IF DeclType[d] = "evdev" THEN frames \cup {d} ELSE frames
  BY DEF Attach, open_device
<1> DEFINE r0 == <<DeclType[d], f>>
<1>2. r0 \in DevRefs /\ r0 \in Refs
  BY DeclAssumption DEF DevRefs, Refs
<1>3. pollfds' \in [Refs -> {"none", "live", "dead"}] /\ interest' \subseteq Refs
  BY <1>1, <1>2 DEF register_fd, TypeOK
<1> QED
  BY <1>1, <1>2, <1>3 DEF DevType, TypeOK

LEMMA FrameType ==
  ASSUME TypeOK, UNCHANGED <<openNode, regVars, devnode>>,
         gone' \subseteq Fds, readable' \subseteq Fds, stale' \subseteq DevRefs
  PROVE  DevType'
BY DEF TypeOK, DevType, regVars

(* What the control variables may be set to. *)
LEMMA ScriptType ==
  /\ Idle \in [cb : Callbacks, dev : Decls \cup {NoDecl}]
  /\ \A c \in Callbacks, d \in Decls \cup {NoDecl} :
       Script(c, d) \in [cb : Callbacks, dev : Decls \cup {NoDecl}]
BY DEF Script, Idle, Callbacks

LEMMA CallerType ==
  ASSUME TypeOK
  PROVE  Caller \in [cb : Callbacks, dev : Decls \cup {NoDecl}]
BY DEF Caller, TypeOK, Script, Idle, Callbacks

-----------------------------------------------------------------------------
LEMMA InitIInv == Init => IInv
<1> SUFFICES ASSUME Init PROVE IInv
  OBVIOUS
<1>1. TypeOK
  <2>1. DevType
    BY DEF Init, DevType, Refs
  <2>2. CtlType
    <3>1. /\ script \in [cb : Callbacks, dev : Decls \cup {NoDecl}]
          /\ resume \in [cb : Callbacks, dev : Decls \cup {NoDecl}]
      BY DEF Init, Idle, Script, Callbacks
    <3>2. udevq \in Seq(Events)
      BY DEF Init
    <3>3. batch \in [Refs -> SUBSET {"IN", "HUP"}]
      BY DEF Init
    <3> QED
      BY <3>1, <3>2, <3>3 DEF Init, CtlType
  <2> QED
    BY <2>1, <2>2, TypeSplit
<1>2. \A d \in Decls : ~Attached(d)
  BY DEF Init, Attached
<1>3. \A f \in Fds : <<"hidraw", f>> # MonRef /\ <<"hidraw", f>> \in Refs
  BY DEF MonRef, Refs, DevRefs, Backends
<1>4. HidrawKeepsOpen
  BY <1>3 DEF Init, HidrawKeepsOpen
<1>5. RegistryAgreement /\ DevnodeAgrees /\ StaleAreDead /\ HidrawIsHeard
  BY <1>2 DEF Init, RegistryAgreement, DevnodeAgrees, StaleAreDead, HidrawIsHeard
<1> QED
  BY <1>1, <1>4, <1>5 DEF IInv, RegInv

-----------------------------------------------------------------------------
(* Each step keeps the invariant: the kernel's first. *)
LEMMA KernelIInv == IInv /\ Kernel => IInv'
<1> SUFFICES ASSUME IInv, Kernel PROVE IInv'
  OBVIOUS
<1>0. TypeOK /\ RegInv /\ CtlType
  BY TypeSplit DEF IInv
<1>1. ASSUME NEW n \in Nodes, NEW h \in Hw, Plug(n, h) PROVE IInv'
  <2>1. RegInv' /\ DevType'
    BY <1>0, <1>1, FrameInv, FrameType DEF Plug, fileVars, regVars, declVars, loopVars, TypeOK
  <2>2. Event("add", NodeType[n], n) \in Events
    BY NodeAssumption DEF Event, Events
  <2>3. udevq' \in Seq(Events) /\ plugged' \in [Nodes -> Hw \cup {NoHw}]
    BY <1>0, <1>1, <2>2 DEF Plug, TypeOK
  <2>4. CtlType'
    BY <1>0, <1>1, <2>3 DEF Plug, CtlType, declVars, loopVars, ctlVars
  <2> QED
    BY <2>1, <2>4, TypeSplit, PTL DEF IInv
<1>2. ASSUME NEW n \in Nodes, Unplug(n) PROVE IInv'
  <2>1. RegInv' /\ DevType'
    BY <1>0, <1>2, FrameInv, FrameType DEF Unplug, regVars, declVars, loopVars, TypeOK
  <2>2. Event("remove", NodeType[n], n) \in Events
    BY NodeAssumption DEF Event, Events
  <2>3. udevq' \in Seq(Events) /\ plugged' \in [Nodes -> Hw \cup {NoHw}]
    BY <1>0, <1>2, <2>2 DEF Unplug, TypeOK
  <2>4. CtlType'
    BY <1>0, <1>2, <2>3 DEF Unplug, CtlType, declVars, loopVars, ctlVars
  <2> QED
    BY <2>1, <2>4, TypeSplit, PTL DEF IInv
<1>3. ASSUME NEW a \in {"add", "remove"}, ParentEvent(a) PROVE IInv'
  <2>1. RegInv' /\ DevType'
    BY <1>0, <1>3, FrameInv, FrameType DEF ParentEvent, fileVars, regVars, declVars, loopVars, TypeOK
  <2>2. Event(a, "evdev", NoNode) \in Events
    BY DEF Event, Events, Backends
  <2>3. udevq' \in Seq(Events)
    BY <1>0, <1>3, <2>2 DEF ParentEvent, TypeOK
  <2>4. CtlType'
    BY <1>0, <1>3, <2>3 DEF ParentEvent, CtlType, declVars, loopVars, ctlVars
  <2> QED
    BY <2>1, <2>4, TypeSplit, PTL DEF IInv
<1>4. ASSUME NEW n \in Nodes, Input(n) PROVE IInv'
  <2>1. RegInv' /\ DevType'
    BY <1>0, <1>4, FrameInv, FrameType DEF Input, regVars, declVars, loopVars, TypeOK
  <2>2. CtlType'
    BY <1>0, <1>4 DEF Input, CtlType, kernelVars, declVars, loopVars, ctlVars
  <2> QED
    BY <2>1, <2>2, TypeSplit, PTL DEF IInv
<1> QED
  BY <1>1, <1>2, <1>3, <1>4 DEF Kernel

(* The script's calls. *)
LEMMA LuaIInv == IInv /\ Lua => IInv'
<1> SUFFICES ASSUME IInv, Lua PROVE IInv'
  OBVIOUS
<1>0. TypeOK /\ RegInv /\ CtlType
  BY TypeSplit DEF IInv
<1>1. ASSUME NEW d \in Decls, ApiOpen(d) PROVE IInv'
  <2>1. RegInv' /\ DevType' /\ (script' = script \/ script' = Script("add", d))
    <3>1. ASSUME NEW n \in MatchNodes(d), Attach(d, n), devnode' = [devnode EXCEPT ![d] = n],
                 script' = Script("add", d)
          PROVE  RegInv' /\ DevType'
      BY <1>0, <1>1, <3>1, AttachInv, AttachType DEF ApiOpen, loopVars, MatchNodes
    <3>2. CASE NoDeviceChange /\ UNCHANGED <<devnode, script>>
      BY <1>0, <1>1, <3>2, FrameInv, FrameType DEF ApiOpen, NoDeviceChange, fileVars, loopVars, TypeOK
    <3> QED
      BY <1>1, <3>1, <3>2 DEF ApiOpen
  <2>2. CtlType'
    BY <1>0, <1>1, <2>1, ScriptType DEF ApiOpen, CtlType, Callbacks, kernelVars, loopVars
  <2> QED
    BY <2>1, <2>2, TypeSplit, PTL DEF IInv
<1>2. ASSUME NEW d \in Decls, ApiClose(d) PROVE IInv'
  <2>1. RegInv' /\ DevType'
    BY <1>0, <1>2, DetachInv, DetachType DEF ApiClose, declVars
  <2>2. CtlType'
    BY <1>0, <1>2 DEF ApiClose, CtlType, kernelVars, declVars, ctlVars
  <2> QED
    BY <2>1, <2>2, TypeSplit, PTL DEF IInv
<1>3. CASE ApiOpenAll
  <2>1. RegInv'
    BY <1>0, <1>3, OpenAllInv DEF ApiOpenAll, fileVars, loopVars
  <2>2. DevType' /\ CtlType'
    BY <1>0, <1>3, ScriptType DEF ApiOpenAll, OpenAll, TypeOK, DevType, CtlType,
         kernelVars, fileVars, regVars, loopVars
  <2> QED
    BY <2>1, <2>2, TypeSplit, PTL DEF IInv
<1>4. CASE Return
  <2>1. RegInv' /\ DevType'
    BY <1>0, <1>4, FrameInv, FrameType DEF Return, fileVars, declVars, loopVars, TypeOK
  <2>2. CtlType'
    BY <1>0, <1>4, ScriptType, CallerType DEF Return, CtlType, kernelVars, declVars, loopVars
  <2> QED
    BY <2>1, <2>2, TypeSplit, PTL DEF IInv
<1>5. CASE AttachNext
  <2>1. PICK d \in Decls :
          /\ todo' = todo \ {d}
          /\ \/ /\ \E n \in MatchNodes(d) : Attach(d, n) /\ devnode' = [devnode EXCEPT ![d] = n]
                /\ script' = Script("add", d)
                /\ UNCHANGED resume
             \/ /\ NoDeviceChange /\ UNCHANGED devnode
                /\ IF todo' = {} THEN script' = Caller /\ resume' = Idle
                                 ELSE UNCHANGED <<script, resume>>
          /\ UNCHANGED <<kernelVars, parsed, loopVars, reading, handling, started>>
    BY <1>5 DEF AttachNext
  <2>2. RegInv' /\ DevType'
    <3>1. ASSUME NEW n \in MatchNodes(d), Attach(d, n), devnode' = [devnode EXCEPT ![d] = n]
          PROVE  RegInv' /\ DevType'
      BY <1>0, <2>1, <3>1, AttachInv, AttachType DEF loopVars, MatchNodes
    <3>2. CASE NoDeviceChange /\ UNCHANGED devnode
      BY <1>0, <2>1, <3>2, FrameInv, FrameType DEF NoDeviceChange, fileVars, loopVars, TypeOK
    <3> QED
      BY <2>1, <3>1, <3>2
  <2>3. /\ script' \in [cb : Callbacks, dev : Decls \cup {NoDecl}]
        /\ resume' \in [cb : Callbacks, dev : Decls \cup {NoDecl}]
    BY <1>0, <2>1, ScriptType, CallerType DEF TypeOK, Callbacks
  <2>4. CtlType'
    BY <1>0, <2>1, <2>3 DEF CtlType, kernelVars, loopVars
  <2> QED
    BY <2>2, <2>4, TypeSplit, PTL DEF IInv
<1>6. CASE StartLoop
  <2>1. CASE OpenAll(Idle)
    <3>1. RegInv'
      BY <1>0, <1>6, <2>1, OpenAllInv DEF StartLoop, fileVars, loopVars
    <3>2. DevType' /\ CtlType'
      BY <1>0, <1>6, <2>1, ScriptType DEF StartLoop, OpenAll, TypeOK, DevType, CtlType,
           kernelVars, fileVars, regVars, loopVars
    <3> QED
      BY <3>1, <3>2, TypeSplit, PTL DEF IInv
  <2>2. CASE script' = Idle /\ UNCHANGED <<declVars, resume, todo>>
    <3>1. RegInv' /\ DevType'
      BY <1>0, <1>6, <2>2, FrameInv, FrameType DEF StartLoop, fileVars, declVars, loopVars, TypeOK
    <3>2. CtlType'
      BY <1>0, <1>6, <2>2, ScriptType DEF StartLoop, CtlType, kernelVars, declVars, loopVars
    <3> QED
      BY <3>1, <3>2, TypeSplit, PTL DEF IInv
  <2> QED
    BY <1>6, <2>1, <2>2 DEF StartLoop
<1> QED
  BY <1>1, <1>2, <1>3, <1>4, <1>5, <1>6 DEF Lua

(* The loop's handlers. *)
LEMMA LoopIInv == IInv /\ Loop => IInv'
<1> SUFFICES ASSUME IInv, Loop PROVE IInv'
  OBVIOUS
<1>0. TypeOK /\ RegInv /\ CtlType
  BY TypeSplit DEF IInv
<1>1. CASE EpollWait
  <2>1. RegInv' /\ DevType'
    BY <1>0, <1>1, FrameInv, FrameType DEF EpollWait, fileVars, declVars, TypeOK
  <2>2. batch' \in [Refs -> SUBSET {"IN", "HUP"}]
    BY <1>1 DEF EpollWait, Mask
  <2>3. CtlType'
    BY <1>0, <1>1, <2>2 DEF EpollWait, CtlType, kernelVars, declVars, ctlVars
  <2> QED
    BY <2>1, <2>3, TypeSplit, PTL DEF IInv
<1>2. CASE UdevReceive
  <2>1. RegInv' /\ DevType'
    BY <1>0, <1>2, FrameInv, FrameType DEF UdevReceive, fileVars, declVars, TypeOK
  <2>2. udevq' \in Seq(Events) /\ handling' \in Events
    BY <1>0, <1>2 DEF UdevReceive, TypeOK
  <2>3. batch' \in [Refs -> SUBSET {"IN", "HUP"}]
    BY <1>0, <1>2 DEF UdevReceive, Next1, CtlType
  <2>4. CtlType'
    BY <1>0, <1>2, <2>2, <2>3, ScriptType DEF UdevReceive, CtlType, declVars, Callbacks
  <2> QED
    BY <2>1, <2>4, TypeSplit, PTL DEF IInv
<1>3. CASE UdevAdd
  <2>1. RegInv' /\ DevType' /\ (script' = script \/ \E d \in Decls : script' = Script("add", d))
    <3>1. ASSUME NEW d \in Decls, handling.node # NoNode, Attach(d, handling.node),
                 devnode' = [devnode EXCEPT ![d] = handling.node], script' = Script("add", d)
          PROVE  RegInv' /\ DevType'
      <4>1. handling.node \in Nodes
        BY <1>0, <3>1 DEF TypeOK, Events, NoEvent, Event
      <4> QED
        BY <1>0, <1>3, <3>1, <4>1, AttachInv, AttachType DEF UdevAdd, loopVars
    <3>2. CASE NoDeviceChange /\ UNCHANGED <<devnode, script>>
      BY <1>0, <1>3, <3>2, FrameInv, FrameType DEF UdevAdd, NoDeviceChange, fileVars, loopVars, TypeOK
    <3> QED
      BY <1>3, <3>1, <3>2 DEF UdevAdd
  <2>2. CtlType'
    BY <1>0, <1>3, <2>1, ScriptType DEF UdevAdd, CtlType, Callbacks, kernelVars, loopVars
  <2> QED
    BY <2>1, <2>2, TypeSplit, PTL DEF IInv
<1>4. CASE UdevRemove
  <2>1. RegInv' /\ DevType' /\ (script' = script \/ \E d \in Decls : script' = Script("remove", d))
    <3>1. ASSUME NEW d \in Decls, Detach(d), frames' = frames \ {d}, script' = Script("remove", d)
          PROVE  RegInv' /\ DevType'
      BY <1>0, <1>4, <3>1, DetachInv, DetachType DEF UdevRemove, declVars
    <3>2. CASE NoDeviceChange /\ UNCHANGED <<stale, script>>
      BY <1>0, <1>4, <3>2, FrameInv, FrameType DEF UdevRemove, NoDeviceChange, fileVars, declVars, TypeOK
    <3> QED
      BY <1>4, <3>1, <3>2 DEF UdevRemove
  <2>2. CtlType'
    BY <1>0, <1>4, <2>1, ScriptType DEF UdevRemove, CtlType, Callbacks, kernelVars, declVars
  <2> QED
    BY <2>1, <2>2, TypeSplit, PTL DEF IInv
<1>5. CASE EvdevRead
  <2>1. RegInv' /\ DevType'
    BY <1>0, <1>5, FrameInv, FrameType DEF EvdevRead, declVars, loopVars, TypeOK
  <2>2. CtlType'
    BY <1>0, <1>5, ScriptType DEF EvdevRead, CtlType, Callbacks, kernelVars, declVars, loopVars
  <2> QED
    BY <2>1, <2>2, TypeSplit, PTL DEF IInv
<1>6. CASE Tick
  <2>1. RegInv' /\ DevType'
    BY <1>0, <1>6, FrameInv, FrameType DEF Tick, fileVars, declVars, loopVars, TypeOK
  <2>2. CtlType'
    BY <1>0, <1>6, ScriptType DEF Tick, CtlType, Callbacks, kernelVars, declVars, loopVars
  <2> QED
    BY <2>1, <2>2, TypeSplit, PTL DEF IInv
<1>7. ASSUME NEW r \in Refs, SkipDead(r) \/ HandlerReturns(r) PROVE IInv'
  <2>1. RegInv' /\ DevType'
    BY <1>0, <1>7, FrameInv, FrameType DEF SkipDead, HandlerReturns, fileVars, declVars, TypeOK
  <2>2. CtlType'
    BY <1>0, <1>7 DEF SkipDead, HandlerReturns, Next1, CtlType, kernelVars, declVars, ctlVars
  <2> QED
    BY <2>1, <2>2, TypeSplit, PTL DEF IInv
<1>8. ASSUME NEW f \in Fds, EvdevHangup(f) PROVE IInv'
  <2> DEFINE d == devices[<<"evdev", f>>]
  <2>1. d \in Decls
    BY <1>0, <1>8 DEF EvdevHangup, TypeOK, DevRefs, Backends
  <2>2. RegInv' /\ DevType'
    BY <1>0, <1>8, <2>1, DetachInv, DetachType DEF EvdevHangup, declVars
  <2>3. batch' \in [Refs -> SUBSET {"IN", "HUP"}] /\ script' = Script("remove", d)
    BY <1>0, <1>8 DEF EvdevHangup, Next1, CtlType
  <2>4. CtlType'
    BY <1>0, <1>8, <2>1, <2>3, ScriptType DEF EvdevHangup, CtlType, Callbacks, kernelVars, declVars
  <2> QED
    BY <2>2, <2>4, TypeSplit, PTL DEF IInv
<1>9. ASSUME NEW f \in Fds, EvdevInput(f) PROVE IInv'
  <2>1. RegInv' /\ DevType'
    BY <1>0, <1>9, FrameInv, FrameType DEF EvdevInput, fileVars, declVars, TypeOK
  <2>2. devices[<<"evdev", f>>] \in Decls
    BY <1>0, <1>9 DEF EvdevInput, TypeOK, DevRefs, Backends
  <2>3. reading' \in Fds \cup {NoFd} /\ batch' \in [Refs -> SUBSET {"IN", "HUP"}]
    BY <1>0, <1>9, <2>2 DEF EvdevInput, Next1, TypeOK
  <2>4. CtlType'
    BY <1>0, <1>9, <2>3 DEF EvdevInput, CtlType, kernelVars, declVars
  <2> QED
    BY <2>1, <2>4, TypeSplit, PTL DEF IInv
<1>10. ASSUME NEW f \in Fds, HidrawInput(f) PROVE IInv'
  <2>1. RegInv' /\ DevType'
    BY <1>0, <1>10, FrameInv, FrameType DEF HidrawInput, declVars, TypeOK
  <2>2. CtlType'
    BY <1>0, <1>10, ScriptType DEF HidrawInput, Next1, CtlType, Callbacks, kernelVars, declVars
  <2> QED
    BY <2>1, <2>2, TypeSplit, PTL DEF IInv
<1> QED
  BY <1>1, <1>2, <1>3, <1>4, <1>5, <1>6, <1>7, <1>8, <1>9, <1>10 DEF Loop

LEMMA StutterIInv == IInv /\ UNCHANGED vars => IInv'
<1> SUFFICES ASSUME IInv, UNCHANGED vars PROVE IInv'
  OBVIOUS
<1>0. TypeOK /\ RegInv /\ CtlType
  BY TypeSplit DEF IInv
<1>1. RegInv' /\ DevType'
  BY <1>0, FrameInv, FrameType DEF vars, fileVars, declVars, loopVars, TypeOK
<1>2. CtlType'
  BY <1>0 DEF CtlType, vars, kernelVars, declVars, loopVars, ctlVars
<1> QED
  BY <1>1, <1>2, TypeSplit, PTL DEF IInv

LEMMA NextIInv == IInv /\ [Next]_vars => IInv'
BY KernelIInv, LuaIInv, LoopIInv, StutterIInv DEF Next

(* The inductive invariant holds in every behaviour. *)
THEOREM Invariant == Spec => []IInv
BY InitIInv, NextIInv, PTL DEF Spec

(* Every variable keeps its type, whatever the declarations and hardware.   *)
THEOREM TypeCorrect == Spec => []TypeOK
<1>1. IInv => TypeOK
  BY DEF IInv
<1> QED
  BY <1>1, Invariant, PTL

(* input_map, the dispatchers' devices_, the payloads, the epoll interest   *)
(* list and the frame buffers agree on every attached device, after any     *)
(* sequence of hot-plugs, hang-ups, open_device and close_device calls. *)
THEOREM RegistriesAgree == Spec => []RegistryAgreement
<1>1. IInv => RegistryAgreement
  BY DEF IInv, RegInv
<1> QED
  BY <1>1, Invariant, PTL

(* The devnode a udev "remove" is compared with is the node the attached    *)
(* descriptor was opened on.                                                *)
THEOREM DevnodeIsCurrent == Spec => []DevnodeAgrees
<1>1. IInv => DevnodeAgrees
  BY DEF IInv, RegInv
<1> QED
  BY <1>1, Invariant, PTL

(* No event of a batch reaches a device through a payload that was released *)
(* after epoll_wait reported it, however descriptors are reused meanwhile.  *)
THEOREM StaleNeverDelivered == Spec => []NoStaleDelivery
<1>1. IInv => NoStaleDelivery
  BY DEF IInv, RegInv, StaleAreDead, NoStaleDelivery
<1> QED
  BY <1>1, Invariant, PTL

(* Every attached hidraw device has a live payload. *)
THEOREM HidrawHeard == Spec => []HidrawIsHeard
<1>1. IInv => HidrawIsHeard
  BY DEF IInv, RegInv
<1> QED
  BY <1>1, Invariant, PTL

-----------------------------------------------------------------------------
(****************************************************************************)
(* The refinement of Attachments.  An attach and a detach change what one   *)
(* declaration is on, and nothing else: the descriptor that is opened was   *)
(* nobody's, the one that is closed was the declaration's alone.            *)
(****************************************************************************)
LEMMA AttachBehind ==
  ASSUME TypeOK, RegInv, NEW d \in Decls, NEW n \in Nodes, Attach(d, n)
  PROVE  NodeBehind[d] = NoNode /\ NodeBehind' = [NodeBehind EXCEPT ![d] = n]
<1>1. PICK f \in Fds : /\ ~Attached(d) /\ openNode[f] = NoNode
                       /\ openNode' = [openNode EXCEPT ![f] = n]
                       /\ input_map' = [input_map EXCEPT ![d] = f]
  BY DEF Attach, open_device, LowestFree
<1>2. f # NoFd
  BY BoundAssumption DEF Fds, NoFd
<1>3. NodeBehind'[d] = n
  BY <1>1, <1>2 DEF NodeBehind, Attached, TypeOK
<1>4. ASSUME NEW e \in Decls, e # d
      PROVE  NodeBehind'[e] = NodeBehind[e]
  <2>1. input_map'[e] = input_map[e]
    BY <1>1, <1>4 DEF TypeOK
  <2>2. Attached(e) => input_map[e] \in Fds /\ input_map[e] # f
    BY <1>1 DEF RegInv, DevnodeAgrees, Attached, TypeOK
  <2>3. Attached(e) => openNode'[input_map[e]] = openNode[input_map[e]]
    BY <1>1, <2>2 DEF TypeOK
  <2> QED BY <2>1, <2>3 DEF NodeBehind, Attached
<1>5. NodeBehind[d] = NoNode
  BY <1>1 DEF NodeBehind
<1>6. DOMAIN NodeBehind' = Decls /\ NodeBehind' = [e \in Decls |-> NodeBehind'[e]]
  BY DEF NodeBehind
<1> QED BY <1>3, <1>4, <1>5, <1>6 DEF NodeBehind

LEMMA DetachBehind ==
  ASSUME TypeOK, RegInv, NEW d \in Decls, Detach(d)
  PROVE  NodeBehind[d] # NoNode /\ NodeBehind' = [NodeBehind EXCEPT ![d] = NoNode]
<1>1. /\ Attached(d) /\ input_map' = [input_map EXCEPT ![d] = NoFd]
      /\ Released(d) = {Ref(d)}
      /\ openNode' = [f \in Fds |-> IF f \in Closed(Released(d)) THEN NoNode ELSE openNode[f]]
  BY ReleasedIsRef DEF Detach
<1>2. \A f \in Fds : f # input_map[d] => openNode'[f] = openNode[f]
  BY <1>1 DEF Closed, Ref
<1>3. NodeBehind'[d] = NoNode
  BY <1>1 DEF NodeBehind, Attached, TypeOK
<1>4. ASSUME NEW e \in Decls, e # d
      PROVE  NodeBehind'[e] = NodeBehind[e]
  <2>1. input_map'[e] = input_map[e]
    BY <1>1, <1>4 DEF TypeOK
  <2>2. Attached(e) => input_map[e] \in Fds /\ input_map[e] # input_map[d]
    BY <1>4 DEF RegInv, RegistryAgreement, Attached, TypeOK
  <2> QED BY <1>2, <2>1, <2>2 DEF NodeBehind, Attached
<1>5. NodeBehind[d] # NoNode
  BY <1>1 DEF NodeBehind, RegInv, DevnodeAgrees
<1>6. NodeBehind' = [e \in Decls |-> NodeBehind'[e]]
  BY DEF NodeBehind
<1> QED BY <1>3, <1>4, <1>5, <1>6 DEF NodeBehind

(* The calls that tell of them, and everything else the script's control    *)
(* does.                                                                    *)
LEMMA AttachApi ==
  ASSUME TypeOK, RegInv, NEW d \in Decls, NEW n \in MatchNodes(d), Attach(d, n),
         script' = Script("add", d), UNCHANGED resume
  PROVE  Api!Next
<1>1. n \in Nodes /\ <<d, n>> \in SameType
  BY DEF MatchNodes, SameType
<1>2. NodeBehind[d] = NoNode /\ NodeBehind' = [NodeBehind EXCEPT ![d] = n]
  BY <1>1, AttachBehind
<1>3. Api!Attach(d, n)
  BY <1>1, <1>2 DEF Api!Attach, Api!Call, Script
<1> QED BY <1>1, <1>3 DEF Api!Next

LEMMA LoseApi ==
  ASSUME TypeOK, RegInv, NEW d \in Decls, Detach(d),
         script = Idle, script' = Script("remove", d), UNCHANGED resume
  PROVE  Api!Next
<1>1. Api!Lose(d)
  BY DetachBehind DEF Api!Lose, Api!Call, Api!None, Script, Idle
<1> QED BY <1>1 DEF Api!Next

LEMMA CloseApi ==
  ASSUME TypeOK, RegInv, NEW d \in Decls, Detach(d), script # Idle, UNCHANGED <<script, resume>>
  PROVE  Api!Next
<1>1. Api!Close(d)
  BY DetachBehind DEF Api!Close, Api!Call, Api!None, Script, Idle
<1> QED BY <1>1 DEF Api!Next

LEMMA TurnApi ==
  ASSUME UNCHANGED <<openNode, input_map>>, resume' \in {script, resume, Idle},
         script' \in {script, resume, Idle, Script("main", NoDecl), Script("tick", NoDecl),
                      Script("watch", NoDecl), Script("event", NoDecl)}
  PROVE  Api!Next
<1>1. UNCHANGED NodeBehind
  BY DEF NodeBehind, Attached
<1>2. Api!Turn
  BY <1>1 DEF Api!Turn, Api!Other, Api!None, Api!Call, Script, Idle
<1> QED BY <1>2 DEF Api!Next

LEMMA LuaApi == IInv /\ Lua => Api!Next
<1> SUFFICES ASSUME TypeOK, RegInv, Lua PROVE Api!Next
  BY DEF IInv
<1> USE DEF NoDeviceChange, fileVars, regVars
<1>1. ASSUME NEW d \in Decls, ApiOpen(d) PROVE Api!Next
  BY <1>1, AttachApi, TurnApi DEF ApiOpen
<1>2. ASSUME NEW d \in Decls, ApiClose(d) PROVE Api!Next
  BY <1>2, CloseApi DEF ApiClose, ctlVars
<1>3. CASE ApiOpenAll \/ Return \/ StartLoop
  BY <1>3, TurnApi DEF ApiOpenAll, Return, StartLoop, OpenAll, Caller
<1>4. CASE AttachNext
  BY <1>4, AttachApi, TurnApi DEF AttachNext, Caller
<1> QED BY <1>1, <1>2, <1>3, <1>4 DEF Lua

LEMMA LoopApi == IInv /\ Loop => Api!Next
<1> SUFFICES ASSUME TypeOK, RegInv, Loop PROVE Api!Next
  BY DEF IInv
<1> USE DEF NoDeviceChange, fileVars, regVars
<1>1. CASE EpollWait \/ UdevReceive \/ EvdevRead \/ Tick
  BY <1>1, TurnApi DEF EpollWait, UdevReceive, EvdevRead, Tick, ctlVars
<1>2. CASE UdevAdd
  <2>1. CASE NoDeviceChange /\ UNCHANGED <<devnode, script>>
    BY <1>2, <2>1, TurnApi DEF UdevAdd
  <2>2. CASE \E d \in Decls : /\ handling.node \in MatchNodes(d) /\ Attach(d, handling.node)
                              /\ script' = Script("add", d)
    BY <1>2, <2>2, AttachApi DEF UdevAdd
  <2> QED BY <1>2, <2>1, <2>2 DEF UdevAdd, Matches, IsFirst
<1>3. CASE UdevRemove
  BY <1>3, LoseApi, TurnApi DEF UdevRemove
<1>4. ASSUME NEW r \in Refs, SkipDead(r) \/ HandlerReturns(r) PROVE Api!Next
  BY <1>4, TurnApi DEF SkipDead, HandlerReturns, ctlVars
<1>5. ASSUME NEW f \in Fds, EvdevHangup(f) PROVE Api!Next
  <2>1. devices[<<"evdev", f>>] \in Decls /\ script = Idle
    BY <1>5 DEF EvdevHangup, Next1, LoopRuns, TypeOK, DevRefs, Backends
  <2> QED BY <1>5, <2>1, LoseApi DEF EvdevHangup
<1>6. ASSUME NEW f \in Fds, EvdevInput(f) \/ HidrawInput(f) PROVE Api!Next
  BY <1>6, TurnApi DEF EvdevInput, HidrawInput
<1> QED BY <1>1, <1>2, <1>3, <1>4, <1>5, <1>6 DEF Loop

LEMMA NextApi == IInv /\ [Next]_vars => [Api!Next]_(Api!avars)
<1> SUFFICES ASSUME IInv, [Next]_vars PROVE [Api!Next]_(Api!avars)
  OBVIOUS
<1>1. CASE Kernel \/ UNCHANGED vars
  <2>1. UNCHANGED <<openNode, input_map, script, resume>>
    BY <1>1 DEF Kernel, Plug, Unplug, ParentEvent, Input, vars, fileVars, regVars, ctlVars
  <2> QED BY <2>1, TurnApi
<1> QED BY <1>1, LuaApi, LoopApi DEF Next

(* DeviceManager, the dispatchers and the udev monitor together keep what   *)
(* Attachments promises the script.                                         *)
THEOREM ApiRefinement == Spec => ImplementsAttachments
<1>1. Init => Api!Init
  BY DEF Init, Api!Init, NodeBehind, Attached, Api!Call, Api!None, Script, Idle
<1> QED
  BY <1>1, NextApi, Invariant, PTL DEF Spec, ImplementsAttachments, Api!Spec

(* A call of on_state that begins.                                          *)
NoticesPair ==
  [][script' \notin {script, resume} =>
       /\ script'.cb = "remove" => Attached(script'.dev) /\ input_map'[script'.dev] = NoFd
       /\ script'.cb = "add" => ~Attached(script'.dev) /\ input_map'[script'.dev] # NoFd]_vars

Paired ==
  script' \notin {script, resume} =>
    /\ script'.cb = "remove" => Attached(script'.dev) /\ input_map'[script'.dev] = NoFd
    /\ script'.cb = "add" => ~Attached(script'.dev) /\ input_map'[script'.dev] # NoFd

(* It is a consequence of Attachments that on_state hears of a device       *)
(* exactly when it comes or goes, whichever of the hang-up, the udev        *)
(* message and the script is first.                                         *)
THEOREM NoticesArePaired == Spec => NoticesPair
<1>1. ASSUME IInv, IInv', [Next]_vars PROVE Paired
  <2> SUFFICES ASSUME script' \notin {script, resume} PROVE Paired
    BY DEF Paired
  <2>1. \A d \in Decls : /\ Attached(d) <=> NodeBehind[d] # NoNode
                         /\ Attached(d)' <=> NodeBehind'[d] # NoNode
    BY <1>1 DEF IInv, RegInv, DevnodeAgrees, NodeBehind
  <2>2. Api!Next
    BY <1>1, NextApi DEF Api!avars
  <2>3. ASSUME NEW d \in Decls, Api!Lose(d) PROVE Paired
    BY <2>1, <2>3 DEF Api!Lose, Api!Call, Paired, NodeBehind, Attached
  <2>4. ASSUME NEW d \in Decls, NEW n \in Nodes, Api!Attach(d, n) PROVE Paired
    BY <2>1, <2>4, NullAssumption DEF Api!Attach, Api!Call, Paired, NodeBehind, Attached
  <2>5. CASE Api!Turn \/ \E d \in Decls : Api!Close(d)
    BY <2>5 DEF Api!Turn, Api!Close, Api!Other, Api!None, Api!Call, Paired
  <2> QED BY <2>2, <2>3, <2>4, <2>5 DEF Api!Next
<1>2. Spec => [][Paired]_vars
  BY <1>1, Invariant, PTL DEF Spec
<1> QED
  BY <1>2, PTL DEF NoticesPair, Paired

-----------------------------------------------------------------------------
(****************************************************************************)
(* Removals.  handle_udev_remove looks at the first declaration under the   *)
(* node only, so that a device whose hardware is gone is sure to be noticed *)
(* if no other declaration of its type comes before it.                     *)
(****************************************************************************)
Pending == {handling} \cup {udevq[i] : i \in 1..Len(udevq)}

RemovalPends(d) ==
  \E e \in Pending : e.action = "remove" /\ e.subsystem = DeclType[d] /\ e.node = devnode[d]

FirstOfType(d) == \A e \in Decls : DeclType[e] = DeclType[d] => Order[d] <= Order[e]

FirstIsNoticed ==
  \A d \in Decls : FirstOfType(d) /\ Attached(d) /\ input_map[d] \in gone => RemovalPends(d)

DevnodeFits ==
  \A d \in Decls : devnode[d] # NoNode => NodeType[devnode[d]] = DeclType[d]

NoticeInv == DevnodeFits /\ FirstIsNoticed

(* What a step must not do: attach a device to a descriptor that is gone,   *)
(* or drop a removal.                                                       *)
KeepsGone ==
  \A d \in Decls :
    Attached(d)' /\ input_map'[d] \in gone' =>
      Attached(d) /\ input_map[d] \in gone /\ devnode'[d] = devnode[d]

KeepsRemovals == \A e \in Pending : e.action = "remove" => e \in Pending'

LEMMA KeepsNotice ==
  ASSUME FirstIsNoticed, KeepsGone, KeepsRemovals
  PROVE  FirstIsNoticed'
BY DEF FirstIsNoticed, KeepsGone, KeepsRemovals, RemovalPends, FirstOfType

(* A descriptor that is opened is not gone, one that is closed is nobody's. *)
LEMMA AttachNotice ==
  ASSUME TypeOK, RegInv, NoticeInv, NEW d \in Decls, NEW n \in MatchNodes(d), Attach(d, n),
         devnode' = [devnode EXCEPT ![d] = n]
  PROVE  DevnodeFits' /\ KeepsGone
<1>1. PICK f \in Fds : open_device(d, n, f) /\ input_map' = [input_map EXCEPT ![d] = f]
  BY DEF Attach
<1>2. gone' = gone \ {f}
  BY <1>1 DEF open_device
<1>3. \A e \in Decls : e # d => input_map'[e] = input_map[e] /\ devnode'[e] = devnode[e]
  BY <1>1 DEF TypeOK
<1>4. input_map'[d] = f /\ devnode'[d] = n /\ NodeType[n] = DeclType[d]
  BY <1>1 DEF TypeOK, MatchNodes
<1>5. KeepsGone
  BY <1>2, <1>3, <1>4 DEF KeepsGone, Attached
<1>6. DevnodeFits'
  BY <1>3, <1>4 DEF DevnodeFits, NoticeInv
<1> QED BY <1>5, <1>6

LEMMA DetachNotice ==
  ASSUME TypeOK, NoticeInv, NEW d \in Decls, Detach(d), UNCHANGED devnode
  PROVE  DevnodeFits' /\ KeepsGone
<1>1. input_map' = [input_map EXCEPT ![d] = NoFd] /\ gone' \subseteq gone
  BY DEF Detach
<1> QED BY <1>1 DEF KeepsGone, Attached, TypeOK, DevnodeFits, NoticeInv

LEMMA QuietNotice ==
  ASSUME NoticeInv, UNCHANGED <<input_map, devnode>>, gone' = gone
  PROVE  DevnodeFits' /\ KeepsGone
BY DEF KeepsGone, Attached, DevnodeFits, NoticeInv

(* A message is added at the end of the queue. *)
LEMMA AppendPends ==
  ASSUME TypeOK, NEW e \in Events, udevq' = Append(udevq, e), handling' = handling
  PROVE  KeepsRemovals /\ e \in Pending'
<1>1. udevq \in Seq(Events) /\ Len(udevq) \in Nat
  BY DEF TypeOK
<1>2. Len(udevq') = Len(udevq) + 1 /\ udevq'[Len(udevq) + 1] = e
      /\ \A i \in 1..Len(udevq) : udevq'[i] = udevq[i]
  BY <1>1
<1> QED BY <1>1, <1>2 DEF Pending, KeepsRemovals

LEMMA SamePends == ASSUME UNCHANGED <<udevq, handling>> PROVE KeepsRemovals
BY DEF KeepsRemovals, Pending

LEMMA KernelNotice == ASSUME IInv, NoticeInv, Kernel PROVE NoticeInv'
<1>0. TypeOK /\ RegInv /\ FirstIsNoticed /\ DevnodeFits
  BY DEF IInv, NoticeInv
<1>1. ASSUME NEW n \in Nodes, NEW h \in Hw, Plug(n, h) PROVE NoticeInv'
  <2>1. Event("add", NodeType[n], n) \in Events
    BY NodeAssumption DEF Event, Events
  <2>2. KeepsRemovals
    BY <1>0, <1>1, <2>1, AppendPends DEF Plug, ctlVars
  <2>3. DevnodeFits' /\ KeepsGone
    BY <1>1, QuietNotice DEF Plug, fileVars, regVars, declVars
  <2> QED BY <1>0, <2>2, <2>3, KeepsNotice DEF NoticeInv
<1>2. ASSUME NEW n \in Nodes, Unplug(n) PROVE NoticeInv'
  <2>1. Event("remove", NodeType[n], n) \in Events
    BY NodeAssumption DEF Event, Events
  <2>2. KeepsRemovals /\ Event("remove", NodeType[n], n) \in Pending'
    BY <1>0, <1>2, <2>1, AppendPends DEF Unplug, ctlVars
  <2>3. UNCHANGED <<input_map, devnode>> /\ gone' = gone \cup {f \in Fds : openNode[f] = n}
    BY <1>2 DEF Unplug, regVars, declVars
  <2>4. DevnodeFits'
    BY <1>0, <2>3 DEF DevnodeFits
  <2>5. ASSUME NEW d \in Decls, FirstOfType(d), Attached(d), input_map[d] \in gone'
        PROVE  RemovalPends(d)'
    <3>1. CASE input_map[d] \in gone
      BY <1>0, <2>2, <2>3, <2>5, <3>1 DEF FirstIsNoticed, RemovalPends, KeepsRemovals
    <3>2. CASE openNode[input_map[d]] = n
      <4>1. devnode[d] = n /\ NodeType[n] = DeclType[d]
        BY <1>0, <2>5, <3>2 DEF RegInv, DevnodeAgrees, DevnodeFits
      <4> QED BY <2>2, <2>3, <4>1 DEF RemovalPends, Event
    <3> QED BY <2>3, <2>5, <3>1, <3>2
  <2>6. FirstIsNoticed'
    BY <2>3, <2>5 DEF FirstIsNoticed, FirstOfType, Attached
  <2> QED BY <2>4, <2>6 DEF NoticeInv
<1>3. ASSUME NEW a \in {"add", "remove"}, ParentEvent(a) PROVE NoticeInv'
  <2>1. Event(a, "evdev", NoNode) \in Events
    BY DEF Event, Events, Backends
  <2>2. KeepsRemovals
    BY <1>0, <1>3, <2>1, AppendPends DEF ParentEvent, ctlVars
  <2>3. DevnodeFits' /\ KeepsGone
    BY <1>3, QuietNotice DEF ParentEvent, fileVars, regVars, declVars
  <2> QED BY <1>0, <2>2, <2>3, KeepsNotice DEF NoticeInv
<1>4. ASSUME NEW n \in Nodes, Input(n) PROVE NoticeInv'
  <2>1. DevnodeFits' /\ KeepsGone /\ KeepsRemovals
    BY <1>4, QuietNotice, SamePends DEF Input, kernelVars, regVars, declVars, ctlVars
  <2> QED BY <1>0, <2>1, KeepsNotice DEF NoticeInv
<1> QED BY <1>1, <1>2, <1>3, <1>4 DEF Kernel

LEMMA OpenAllNotice ==
  ASSUME NoticeInv, NEW c, OpenAll(c), UNCHANGED <<fileVars, regVars>>
  PROVE  DevnodeFits' /\ KeepsGone
BY DEF OpenAll, OpenAllSkips, DevnodeFits, KeepsGone, Attached, regVars, fileVars

LEMMA LuaNotice == ASSUME IInv, NoticeInv, Lua PROVE NoticeInv'
<1>0. TypeOK /\ RegInv /\ FirstIsNoticed
  BY DEF IInv, NoticeInv
<1>1. KeepsRemovals
  BY SamePends DEF Lua, ApiOpen, ApiClose, ApiOpenAll, Return, AttachNext, StartLoop, kernelVars, ctlVars
<1>2. ASSUME NEW d \in Decls, ApiOpen(d) PROVE DevnodeFits' /\ KeepsGone
  <2>1. CASE NoDeviceChange /\ UNCHANGED <<devnode, script>>
    BY <2>1, QuietNotice DEF NoDeviceChange, fileVars, regVars
  <2>2. ASSUME NEW n \in MatchNodes(d), Attach(d, n), devnode' = [devnode EXCEPT ![d] = n]
        PROVE  DevnodeFits' /\ KeepsGone
    BY <1>0, <2>2, AttachNotice
  <2> QED BY <1>2, <2>1, <2>2 DEF ApiOpen
<1>3. ASSUME NEW d \in Decls, ApiClose(d) PROVE DevnodeFits' /\ KeepsGone
  BY <1>0, <1>3, DetachNotice DEF ApiClose, declVars
<1>4. ASSUME ApiOpenAll PROVE DevnodeFits' /\ KeepsGone
  BY <1>4, OpenAllNotice DEF ApiOpenAll
<1>5. ASSUME Return PROVE DevnodeFits' /\ KeepsGone
  BY <1>5, QuietNotice DEF Return, fileVars, regVars, declVars
<1>6. ASSUME AttachNext PROVE DevnodeFits' /\ KeepsGone
  <2>1. PICK d \in Decls :
          \/ \E n \in MatchNodes(d) : Attach(d, n) /\ devnode' = [devnode EXCEPT ![d] = n]
          \/ NoDeviceChange /\ UNCHANGED devnode
    BY <1>6 DEF AttachNext
  <2>2. CASE NoDeviceChange /\ UNCHANGED devnode
    BY <2>2, QuietNotice DEF NoDeviceChange, fileVars, regVars
  <2>3. ASSUME NEW n \in MatchNodes(d), Attach(d, n), devnode' = [devnode EXCEPT ![d] = n]
        PROVE  DevnodeFits' /\ KeepsGone
    BY <1>0, <2>3, AttachNotice
  <2> QED BY <2>1, <2>2, <2>3
<1>7. ASSUME StartLoop PROVE DevnodeFits' /\ KeepsGone
  BY <1>7, OpenAllNotice, QuietNotice DEF StartLoop, fileVars, regVars, declVars
<1>8. DevnodeFits' /\ KeepsGone
  BY <1>2, <1>3, <1>4, <1>5, <1>6, <1>7 DEF Lua
<1> QED BY <1>0, <1>1, <1>8, KeepsNotice DEF NoticeInv

LEMMA LoopNotice == ASSUME IInv, NoticeInv, Loop PROVE NoticeInv'
<1>0. TypeOK /\ RegInv /\ FirstIsNoticed
  BY DEF IInv, NoticeInv
<1>1. ASSUME UdevReceive PROVE NoticeInv'
  <2>1. handling = NoEvent /\ handling' = Head(udevq) /\ udevq' = Tail(udevq) /\ udevq # <<>>
    BY <1>1 DEF UdevReceive, Next1, LoopRuns
  <2>2. KeepsRemovals
    <3>1. udevq \in Seq(Events) /\ Len(udevq) \in Nat
      BY <1>0 DEF TypeOK
    <3>2. /\ Head(udevq) = udevq[1] /\ Len(Tail(udevq)) = Len(udevq) - 1
          /\ \A i \in 1..Len(Tail(udevq)) : Tail(udevq)[i] = udevq[i + 1]
      BY <2>1, <3>1
    <3>3. \A i \in 1..Len(udevq) : i = 1 \/ (i - 1 \in 1..Len(udevq') /\ udevq'[i - 1] = udevq[i])
      BY <2>1, <3>1, <3>2
    <3>4. NoEvent.action # "remove"
      BY DEF NoEvent, Event
    <3>5. \A i \in 1..Len(udevq) : udevq[i] \in Pending'
      BY <2>1, <3>2, <3>3 DEF Pending
    <3> QED BY <2>1, <3>4, <3>5 DEF KeepsRemovals, Pending
  <2>3. DevnodeFits' /\ KeepsGone
    BY <1>1, QuietNotice DEF UdevReceive, fileVars, regVars, declVars
  <2> QED BY <1>0, <2>2, <2>3, KeepsNotice DEF NoticeInv
<1>2. ASSUME UdevAdd PROVE NoticeInv'
  <2>1. KeepsRemovals
    BY <1>2 DEF UdevAdd, kernelVars, KeepsRemovals, Pending
  <2>2. DevnodeFits' /\ KeepsGone
    <3>1. CASE NoDeviceChange /\ UNCHANGED <<devnode, script>>
      BY <3>1, QuietNotice DEF NoDeviceChange, fileVars, regVars
    <3>2. ASSUME NEW m \in [Decls -> Nodes \cup {NoNode}], Matches(m), NEW d \in Decls,
                 m[d] = handling.node, handling.node # NoNode, Attach(d, handling.node),
                 devnode' = [devnode EXCEPT ![d] = handling.node]
          PROVE  DevnodeFits' /\ KeepsGone
      <4>1. handling.node \in MatchNodes(d)
        BY <3>2 DEF Matches
      <4> QED BY <1>0, <3>2, <4>1, AttachNotice
    <3> QED BY <1>2, <3>1, <3>2 DEF UdevAdd, IsFirst
  <2> QED BY <1>0, <2>1, <2>2, KeepsNotice DEF NoticeInv
<1>3. ASSUME UdevRemove PROVE NoticeInv'
  <2> DEFINE S == {d \in Decls : DeclType[d] = handling.subsystem /\ devnode[d] = handling.node}
  <2>1. /\ handling.action = "remove" /\ handling' = NoEvent
        /\ UNCHANGED <<kernelVars, declVars>>
    BY <1>3 DEF UdevRemove
  <2>2. \/ \E d \in Decls : IsFirst(d, S) /\ Detach(d)
        \/ (\A d \in Decls : IsFirst(d, S) => ~Attached(d)) /\ NoDeviceChange
    BY <1>3 DEF UdevRemove
  <2>3. DevnodeFits' /\ KeepsGone
    BY <1>0, <2>1, <2>2, DetachNotice, QuietNotice DEF NoDeviceChange, fileVars, regVars, declVars
(* The first declaration of its type that is under the node is detached.    *)
  <2>4. ASSUME NEW d \in Decls, FirstOfType(d), Attached(d)'
        PROVE  d \notin S
    <3>1. SUFFICES ASSUME d \in S PROVE FALSE
      OBVIOUS
    <3>2. IsFirst(d, S)
      BY <2>4, <3>1 DEF FirstOfType, IsFirst
    <3>3. CASE \E e \in Decls : IsFirst(e, S) /\ Detach(e)
      <4>1. PICK e \in Decls : IsFirst(e, S) /\ Detach(e)
        BY <3>3
      <4>2. e = d
        <5>1. Order[d] <= Order[e] /\ Order[e] <= Order[d] /\ Order[d] \in Nat /\ Order[e] \in Nat
          BY <3>1, <3>2, <4>1, DeclAssumption DEF IsFirst
        <5> QED BY <5>1, DeclAssumption
      <4>3. input_map'[d] = NoFd
        BY <1>0, <4>1, <4>2 DEF Detach, TypeOK
      <4> QED BY <2>4, <4>3 DEF Attached
    <3>4. CASE (\A e \in Decls : IsFirst(e, S) => ~Attached(e)) /\ NoDeviceChange
      BY <2>4, <3>2, <3>4 DEF NoDeviceChange, regVars, Attached
    <3> QED BY <2>2, <3>3, <3>4
  <2>5. \A e \in Pending : e = handling \/ e \in Pending'
    BY <2>1 DEF Pending, kernelVars
  <2>6. ASSUME NEW d \in Decls, FirstOfType(d), Attached(d)', input_map'[d] \in gone'
        PROVE  RemovalPends(d)'
    <3>1. PICK e \in Pending : e.action = "remove" /\ e.subsystem = DeclType[d] /\ e.node = devnode[d]
      BY <1>0, <2>3, <2>6 DEF KeepsGone, FirstIsNoticed, RemovalPends
    <3>2. e # handling
      BY <2>4, <2>6, <3>1
    <3>3. e \in Pending' /\ devnode'[d] = devnode[d]
      BY <2>1, <2>5, <3>2 DEF declVars
    <3> QED BY <3>1, <3>3 DEF RemovalPends
  <2>7. FirstIsNoticed'
    BY <2>6 DEF FirstIsNoticed, FirstOfType
  <2> QED BY <2>3, <2>7 DEF NoticeInv
<1>4. ASSUME NEW f \in Fds, EvdevHangup(f) PROVE NoticeInv'
  <2>1. devices[<<"evdev", f>>] \in Decls
    BY <1>0, <1>4 DEF EvdevHangup, TypeOK, DevRefs, Backends
  <2>2. DevnodeFits' /\ KeepsGone
    BY <1>0, <1>4, <2>1, DetachNotice DEF EvdevHangup, declVars
  <2>3. KeepsRemovals
    BY <1>4, SamePends DEF EvdevHangup, kernelVars
  <2> QED BY <1>0, <2>2, <2>3, KeepsNotice DEF NoticeInv
<1>5. ASSUME \/ EpollWait \/ EvdevRead \/ Tick
             \/ \E r \in Refs : SkipDead(r) \/ HandlerReturns(r)
             \/ \E f \in Fds : EvdevInput(f) \/ HidrawInput(f)
      PROVE  NoticeInv'
  <2>1. UNCHANGED <<udevq, handling, input_map, devnode>> /\ gone' = gone
    BY <1>5 DEF EpollWait, EvdevRead, Tick, SkipDead, HandlerReturns, EvdevInput, HidrawInput,
                kernelVars, fileVars, regVars, declVars, ctlVars
  <2>2. DevnodeFits' /\ KeepsGone /\ KeepsRemovals
    BY <2>1, QuietNotice, SamePends
  <2> QED BY <1>0, <2>2, KeepsNotice DEF NoticeInv
<1> QED BY <1>1, <1>2, <1>3, <1>4, <1>5 DEF Loop

LEMMA NextNotice == IInv /\ NoticeInv /\ [Next]_vars => NoticeInv'
<1> SUFFICES ASSUME IInv, NoticeInv, [Next]_vars PROVE NoticeInv'
  OBVIOUS
<1>1. CASE UNCHANGED vars
  <2>1. DevnodeFits' /\ KeepsGone /\ KeepsRemovals
    BY <1>1, QuietNotice, SamePends DEF vars, kernelVars, fileVars, regVars, declVars, ctlVars
  <2> QED BY <2>1, KeepsNotice DEF NoticeInv
<1> QED BY <1>1, KernelNotice, LuaNotice, LoopNotice DEF Next

LEMMA NoticeInvariant == Spec => []NoticeInv
<1>1. Init => NoticeInv
  BY DEF Init, NoticeInv, DevnodeFits, FirstIsNoticed, Attached
<1> QED BY <1>1, Invariant, NextNotice, PTL DEF Spec

(* A device whose hardware is gone is about to be noticed, as long as it is *)
(* attached, if it is the first declaration of its type.                    *)
THEOREM FirstNoticed == Spec => []FirstIsNoticed
<1>1. NoticeInv => FirstIsNoticed
  BY DEF NoticeInv
<1> QED BY <1>1, NoticeInvariant, PTL

(* With one evdev and one hidraw declaration, that is every device.  (Of    *)
(* two declarations that match one device the removal detaches the first    *)
(* only: a run with two hidraw ones shows it.)                              *)
THEOREM GoneNoticed ==
  ASSUME \A d, e \in Decls : DeclType[d] = DeclType[e] => d = e
  PROVE  Spec => []GoneIsNoticed
<1>1. NoticeInv => GoneIsNoticed
  <2> SUFFICES ASSUME NoticeInv, NEW d \in Decls, Attached(d), input_map[d] \in gone
               PROVE  RemovalPends(d)
    BY DEF GoneIsNoticed, RemovalPends, Pending
  <2>1. FirstOfType(d)
    BY DeclAssumption DEF FirstOfType
  <2> QED BY <2>1 DEF NoticeInv, FirstIsNoticed
<1> QED BY <1>1, NoticeInvariant, PTL
=============================================================================
