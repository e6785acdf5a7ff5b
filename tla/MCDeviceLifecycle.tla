-------------------------- MODULE MCDeviceLifecycle --------------------------
(* Instances of DeviceLifecycle for TLC.  Each family of definitions gives   *)
(* one small set of declarations, nodes and hardware.                        *)
EXTENDS DeviceLifecycle

(* One evdev and one hidraw declaration, a node and a device for each. *)
MixedDecls    == {"kbd", "pad"}
MixedOrder    == [kbd |-> 1, pad |-> 2]
MixedType     == [kbd |-> "evdev", pad |-> "hidraw"]
MixedNodes    == {"event0", "hidraw0"}
MixedNodeType == [event0 |-> "evdev", hidraw0 |-> "hidraw"]
MixedHw       == {"K", "P"}
MixedHwType   == [K |-> "evdev", P |-> "hidraw"]
MixedAccepts  == {<<"kbd", "K">>, <<"pad", "P">>}

(* Two hidraw declarations that both match the one device there is, like    *)
(* those of two identical gamepads of which one is connected.               *)
PairDecls      == {"one", "two"}
PairOrder      == [one |-> 1, two |-> 2]
PairType       == [one |-> "hidraw", two |-> "hidraw"]
PairNodes      == {"hidraw0"}
PairNodeType   == [hidraw0 |-> "hidraw"]
PairHw         == {"P"}
PairHwType     == [P |-> "hidraw"]
PairAccepts    == PairDecls \X PairHw
=============================================================================
