------------------------------ MODULE MC_Proxy ------------------------------
(* Model values for Proxy. *)
EXTENDS Proxy, TLC

CONSTANTS s1

(* Two paths are blocked, one of them under the other's parent. *)
TwoBlocked == {<<"tools", "admin">>, <<"admin">>}

Proxied(path) ==
    [kind |-> "proxied", verb |-> TRUE, path |-> path, session |-> NoKey, headers |-> TRUE,
     whole |-> TRUE]

(* The blocked paths as they are; behind encoded slashes; with dot         *)
(* segments, past the root too; with doubled slashes; and all of these.    *)
Spellings ==
    {<< <<"admin">> >>,
     << <<"tools", "admin">> >>,
     << <<"..">>, <<"tools">>, <<".">>, <<"admin">> >>,
     << <<"tools">>, <<"">>, <<"admin">> >>,
     << <<"tools">>, <<"">>, <<"..">>, <<"..">>, <<"admin">> >>,
     << <<"x", "..", "tools">>, <<"", "admin">>, <<"y", "..">> >>}

(* A path that is not blocked although it names one; one whose slashes the *)
(* blocker does not merge; one with a NUL.                                 *)
Others ==
    {<< <<"tools">>, <<"admin", "..">>, <<"list">> >>,
     << <<"tools">>, <<"">>, <<"">>, <<"admin">> >>,
     << <<Nul, "admin">> >>}

(* With them a health check, a request with no URI and one of a session.   *)
MCRequests ==
    {Proxied(p) : p \in Spellings \cup Others} \cup
    {[Proxied(<< <<"health">> >>) EXCEPT !.kind = "health"],
     [Proxied(<< <<"*">> >>) EXCEPT !.whole = FALSE],
     [Proxied(<< <<"admin">> >>) EXCEPT !.session = s1]}

Symmetry == Permutations(Writer)
=============================================================================
