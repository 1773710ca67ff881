----------------------------- MODULE MCLogPanel -----------------------------
(* Lines that wrap in copy mode, that fill their rows, and an object;  *)
(* for the keys, a bracket, an empty line and one that starts blank.   *)
EXTENDS LogPanelProperties

Long == <<"a", " ", "a">>
Object == <<"{", "b", "}">>
MCLogs == {<<Long>>, <<Object, <<"a">>>>}
MatchLogs == {<<Long, Long, <<"b">>>>}
KeyLogs == {<<<<"a", "(", "b", ")">>, <<>>, <<" ", "a">>>>}
MCSizes == {[w |-> 13, h |-> 4], [w |-> 14, h |-> 4]}
MCClicks == {<<6, 2>>, <<5, 3>>}
=============================================================================
