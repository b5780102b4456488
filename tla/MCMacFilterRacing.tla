------------------------- MODULE MCMacFilterRacing --------------------------
(* MacFilter with overlapping runs of the script, MaxCalls of them in all. *)
EXTENDS MacFilter, TLC

CONSTANTS m1, m2, p1, p2,
          MaxCalls      \* how often the script is started

VARIABLE calls          \* how often it was

EditOps == {"mode", "add", "delete"}
TwoProcs == {p1, p2}
TwoMacs == {m1, m2}
Symmetric == Permutations(TwoProcs) \cup Permutations(TwoMacs)

RacingInit == Init /\ calls = 0

RacingNext ==
  \/ \E p \in Procs : \E r \in Requests :
       calls < MaxCalls /\ Call(p, r) /\ calls' = calls + 1
  \/ (Reboot \/ \E p \in Procs : Step(p)) /\ UNCHANGED calls

RacingSpec == RacingInit /\ [][RacingNext]_<<vars, calls>>
=============================================================================
