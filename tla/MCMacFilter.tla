---------------------------- MODULE MCMacFilter -----------------------------
(* MacFilter with one run of the script at a time: finite, with no bound. *)
EXTENDS MacFilter

CONSTANTS m1, m2, bad, p1, p2

AllOps == {"mode", "status", "add", "delete"}
TwoProcs == {p1, p2}
GoodMacs == {m1, m2}
MixedMacs == {m1, m2, bad}

\* The router stays up: no reboot.
PoweredSpec == Init /\ [][Run]_vars
=============================================================================
