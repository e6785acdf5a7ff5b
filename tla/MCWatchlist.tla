----------------------------- MODULE MCWatchlist -----------------------------
(* An instance of Watchlist for TLC: an evdev and a hidraw declaration, one  *)
(* of a type that cannot be watched, a device for each of the first two, and *)
(* an input device nobody watches. *)
EXTENDS Watchlist

WDecls    == {"kbd", "pad", "ble"}
WOrder    == [kbd |-> 1, pad |-> 2, ble |-> 3]
WType     == [kbd |-> "evdev", pad |-> "hidraw", ble |-> "gatt"]
WNodes    == {"event0", "hidraw0"}
WNodeType == [event0 |-> "evdev", hidraw0 |-> "hidraw"]
WHw       == {"K", "P", "X"}
WAccepts  == {<<"kbd", "K">>, <<"pad", "P">>}
=============================================================================
