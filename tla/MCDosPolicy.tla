---------------------------- MODULE MCDosPolicy -----------------------------
(* Small instances of DosPolicy for TLC: the chain holds MaxRules at most. *)
EXTENDS DosPolicy

CONSTANTS p1, p2,
          MaxRules      \* enable is called while the chain has fewer rules

TwoProcs == {p1, p2}
BothOps == {"enable", "disable"}
AllFloods == <<"tcp --syn", "udp", "icmp">>

BoundedNext ==
  \/ \E p \in Procs : Step(p)
  \/ \E p \in Procs : \E op \in Ops :
       (op = "enable" => Len(chain) < MaxRules) /\ Call(p, op)
  \/ Reboot

BoundedSpec == Init /\ [][BoundedNext]_vars
=============================================================================
