--------------------------- MODULE MCLoginLimiter ---------------------------
(* Small instances of LoginLimiter for TLC. *)
EXTENDS LoginLimiter

CONSTANTS a1, a2, p1, p2

TwoAddrs == {a1, a2}
TwoProcs == {p1, p2}
=============================================================================
