---------------------------- MODULE MCLuaLibrary ----------------------------
(* An instance of the Lua library for TLC.  Patterns of one, two and three   *)
(* buttons of two, some with a common beginning; a keyboard with a modifier  *)
(* that is itself only in Fn mode and turns it on otherwise, and a letter    *)
(* that is another one, and in Fn mode that with the modifier.               *)
EXTENDS LuaLibrary

LPatterns == {<<"a">>, <<"a", "b">>, <<"b", "a", "b">>}

KCodes    == {"CTRL", "A"}
KMods     == {"CTRL"}
KNormal   == [CTRL |-> {"KEY_FN"}, A |-> {"C"}]
KModifier == <<>>
KFn       == [A |-> {"CTRL", "C"}]
=============================================================================
