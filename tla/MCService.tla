----------------------------- MODULE MCService -----------------------------
(***************************************************************************)
(* Up to two threads with different ticker periods; a polling delay that   *)
(* is shorter and one that is longer than they are.                        *)
(***************************************************************************)
EXTENDS Service

MCIntSettings == {Malformed, -1, 0, 2}
MCDurSettings == {Malformed, Empty, 0, 2}
=============================================================================
