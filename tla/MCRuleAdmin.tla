---------------------------- MODULE MCRuleAdmin -----------------------------
(* Small instances of RuleAdmin for TLC. *)
EXTENDS RuleAdmin, TLC

CONSTANTS m1, m2, p1, p2

TwoMacs == {m1, m2}
TwoProcs == {p1, p2}
AcceptAll == {Rule(AnyMatch, "ACCEPT")}
Symmetric == Permutations(Procs) \cup Permutations(Macs)
=============================================================================
