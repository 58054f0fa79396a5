---------------------------- MODULE MCExchange -----------------------------
(* Three nodes in a row for TLC: the middle one forwards, the last one has *)
(* the block and puts it once more.                                        *)
EXTENDS Exchange

CONSTANTS a, b, s, x

Row == {{a, b}, {b, s}}
LastHasIt == [n \in {a, b, s} |-> IF n = s THEN {x} ELSE {}]
FirstGets == {<<"get", a, x>>, <<"put", s, x>>}
=============================================================================
