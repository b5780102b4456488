----------------------------- MODULE DosTraffic -----------------------------
(***************************************************************************)
(* What the rules of ddos_protect.sh do to the packets of one source that  *)
(* arrive on eth0, once the policy is complete and hooked (DosPolicy).     *)
(*                                                                         *)
(* The limit match is a token bucket: it starts full, gains Rate[k] tokens *)
(* a second up to Burst[k], and a packet that matches takes one.  The      *)
(* recent match keeps the last ListSize times it saw the source (external: *)
(* kernel modules, modelled from the options the script gives them).       *)
(* enable may have been called several times: the chain holds Copies       *)
(* copies of the policy.  The first copy decides every packet of a flood,  *)
(* so only its buckets matter; SSH packets pass through the rules of all   *)
(* copies, which share one list.                                           *)
(*                                                                         *)
(* The counters since the last Mark are there for the properties: a Mark   *)
(* may happen at any time, so they range over every interval.              *)
(***************************************************************************)
EXTENDS Integers, Sequences, FiniteSets

CONSTANTS
  Kinds,        \* the floods: tcp --syn, udp and icmp packets
  Rate, Burst,  \* --limit and --limit-burst of each
  Copies,       \* how often enable was called
  Window,       \* --seconds
  HitCount,     \* --hitcount
  ListSize      \* times the recent list keeps of a source

ASSUME TrafficAssumption ==
  /\ "syn" \in Kinds
  /\ Rate \in [Kinds -> Nat] /\ Burst \in [Kinds -> Nat]
  /\ Copies \in Nat \ {0} /\ HitCount \in Nat \ {0}
  /\ Window \in Nat /\ ListSize \in Nat /\ HitCount <= ListSize

VARIABLES
  credit,       \* tokens in the bucket of each flood's limit match
  ages,         \* seconds since each of the times in the list "ssh"
  elapsed,      \* seconds since the mark
  passed,       \* packets of each flood let through since the mark
  sshData       \* packets of open connections to port 22 let through since then

vars == <<credit, ages, elapsed, passed, sshData>>

TypeOK ==
  /\ credit \in [Kinds -> Nat]
  /\ ages \in Seq(Nat)
  /\ elapsed \in Nat
  /\ passed \in [Kinds -> Nat]
  /\ sshData \in Nat

Init ==
  /\ credit = Burst
  /\ ages = <<>>
  /\ elapsed = 0
  /\ passed = [k \in Kinds |-> 0]
  /\ sshData = 0

\* The mutated form of Return asks no bucket.
ReturnAlways(k) ==
  /\ credit' = [credit EXCEPT ![k] = @ - 1]
  /\ passed' = [passed EXCEPT ![k] = @ + 1]
  /\ UNCHANGED <<ages, elapsed, sshData>>

\* A packet of kind k under the limit returns to INPUT.  A connection to port 22
\* is a tcp --syn packet like any other: it leaves the chain here, before the
\* rules for SSH.
Return(k) ==
  /\ credit[k] >= 1
  /\ credit' = [credit EXCEPT ![k] = @ - 1]
  /\ passed' = [passed EXCEPT ![k] = @ + 1]
  /\ UNCHANGED <<ages, elapsed, sshData>>

\* A packet over the limit is logged and dropped.
LogAndDrop(k) == credit[k] = 0 /\ UNCHANGED vars

\* n more entries for the current second; the list keeps the last ListSize.
Stamped(n) ==
  LET l == ages \o [i \in 1..n |-> 0]
  IN  IF Len(l) <= ListSize THEN l ELSE SubSeq(l, Len(l) - ListSize + 1, Len(l))

\* The mutated form starts to count above the hit count.
BlockingAbove(c) == Cardinality({i \in DOMAIN Stamped(c) : Stamped(c)[i] <= Window}) > HitCount

\* recent --update --seconds --hitcount, once c copies of the --set rule have
\* stamped the packet: at least HitCount times within the window.
Blocking(c) == Cardinality({i \in DOMAIN Stamped(c) : Stamped(c)[i] <= Window}) >= HitCount

\* A tcp packet to port 22 that opens no connection passes no flood rule.  Every
\* copy stamps the source (--set); the first one that then finds HitCount times
\* stamps it twice more (--update of LOG and of DROP) and drops the packet.
SshDrop ==
  /\ \E c \in 1..Copies :
       /\ Blocking(c)
       /\ \A d \in 1..(c - 1) : ~Blocking(d)
       /\ ages' = Stamped(c + 2)
  /\ UNCHANGED <<credit, elapsed, passed, sshData>>

SshPass ==
  /\ \A c \in 1..Copies : ~Blocking(c)
  /\ ages' = Stamped(Copies)
  /\ sshData' = sshData + 1
  /\ UNCHANGED <<credit, elapsed, passed>>

\* A second goes by.  The mutated refill forgets --limit-burst.
RefilledUncapped(k) == credit[k] + Rate[k]

Refilled(k) == IF credit[k] + Rate[k] <= Burst[k] THEN credit[k] + Rate[k] ELSE Burst[k]

Tick ==
  /\ elapsed' = elapsed + 1
  /\ credit' = [k \in Kinds |-> Refilled(k)]
  /\ ages' = [i \in DOMAIN ages |-> IF ages[i] > Window THEN ages[i] ELSE ages[i] + 1]
  /\ UNCHANGED <<passed, sshData>>

Mark ==
  /\ elapsed' = 0
  /\ passed' = [k \in Kinds |-> 0]
  /\ sshData' = 0
  /\ UNCHANGED <<credit, ages>>

Next ==
  \/ \E k \in Kinds : Return(k) \/ LogAndDrop(k)
  \/ SshDrop \/ SshPass \/ Tick \/ Mark

Spec == Init /\ [][Next]_vars

-----------------------------------------------------------------------------
\* In every interval at most Burst + Rate * seconds packets of a flood pass.
FloodBounded == \A k \in Kinds : passed[k] <= Burst[k] + Rate[k] * elapsed

\* What a bucket has given away and still holds was in it or has been refilled.
BucketInv ==
  \A k \in Kinds : /\ credit[k] <= Burst[k]
                   /\ passed[k] + credit[k] <= Burst[k] + Rate[k] * elapsed

\* In Window seconds fewer than HitCount packets of open connections reach port 22
\* from one source, and every further enable divides that number, since each copy
\* counts every packet.  Connections themselves never get to the SSH rules.
SshPacketsLimited == elapsed <= Window => Copies * sshData < HitCount
=============================================================================
