------------------------------- MODULE MCGatt -------------------------------
(* An instance of Gatt for TLC: a device with two characteristics, one of    *)
(* which notifies, and one with one; a declaration of the whole first        *)
(* device, one of its characteristic, and one that a name pattern lets match *)
(* both, by the service. *)
EXTENDS Gatt

GDevs     == {"pen", "pad"}
GChars    == {<<"pen", 1, 1>>, <<"pen", 1, 2>>, <<"pad", 1, 1>>}
GNotifies == {<<"pen", 1, 1>>, <<"pad", 1, 1>>}
GDecls    == {"all", "one", "svc"}
GOrder    == [all |-> 1, one |-> 2, svc |-> 3]
GAccepts  == {<<"all", "pen">>, <<"one", "pen">>, <<"svc", "pen">>, <<"svc", "pad">>}
GService  == [all |-> 0, one |-> 1, svc |-> 1]
GCharacteristic == [all |-> 0, one |-> 1, svc |-> 0]
GOnEvent  == [all |-> "missing", one |-> "function", svc |-> "none"]
=============================================================================
