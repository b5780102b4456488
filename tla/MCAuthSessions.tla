--------------------------- MODULE MCAuthSessions ---------------------------
(* Small instances of AuthSessions for TLC. *)
EXTENDS AuthSessions, TLC

CONSTANTS p1, p2, t1, t2

TwoProcs == {p1, p2}
TwoTokens == {t1, t2}

Symmetric == Permutations(TwoProcs) \cup Permutations(TwoTokens)
=============================================================================
