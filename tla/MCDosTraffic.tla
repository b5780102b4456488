---------------------------- MODULE MCDosTraffic ----------------------------
(* DosTraffic with small limits; an interval has at most MaxElapsed seconds. *)
EXTENDS DosTraffic

CONSTANT MaxElapsed

TwoKinds == {"syn", "icmp"}
SmallRate == [k \in TwoKinds |-> 1]
SmallBurst == [k \in TwoKinds |-> IF k = "syn" THEN 3 ELSE 1]

BoundedNext ==
  \/ \E k \in Kinds : Return(k) \/ LogAndDrop(k)
  \/ SshDrop \/ SshPass \/ Mark
  \/ elapsed < MaxElapsed /\ Tick
BoundedSpec == Init /\ [][BoundedNext]_vars
=============================================================================
