-------------------------- MODULE DosTrafficProofs --------------------------
(***************************************************************************)
(* The rate bound of the limit rules, for every rate and burst, and that   *)
(* of the recent rules, for every window, hit count and number of copies.  *)
(***************************************************************************)
EXTENDS DosTraffic, FiniteSetTheorems, SequenceTheorems, TLAPS

USE TrafficAssumption

FloodInv ==
  /\ credit \in [Kinds -> Nat] /\ passed \in [Kinds -> Nat] /\ elapsed \in Nat
  /\ BucketInv

\* One more second earns a bucket one more Rate.
LEMMA OneMoreSecond ==
  ASSUME NEW r \in Nat, NEW e \in Nat
  PROVE  r * (e + 1) = r * e + r /\ r * e \in Nat /\ r * 0 = 0
OBVIOUS

\* Every step keeps what the buckets have given away within their income.
LEMMA FloodStep ==
  ASSUME FloodInv, [Next]_vars
  PROVE  FloodInv'
<1>1. ASSUME NEW k \in Kinds, Return(k) PROVE FloodInv'
  <2>1. /\ credit' \in [Kinds -> Nat] /\ passed' \in [Kinds -> Nat] /\ elapsed' = elapsed
        /\ credit'[k] = credit[k] - 1 /\ passed'[k] = passed[k] + 1
        /\ \A j \in Kinds : j # k => credit'[j] = credit[j] /\ passed'[j] = passed[j]
    BY <1>1 DEF Return, FloodInv
  <2>2. ASSUME NEW j \in Kinds
        PROVE  credit'[j] <= Burst[j] /\ passed'[j] + credit'[j] <= Burst[j] + Rate[j] * elapsed
    <3>1. Rate[j] * elapsed \in Nat
      BY OneMoreSecond DEF FloodInv
    <3> QED BY <2>1, <3>1 DEF FloodInv, BucketInv
  <2> QED BY <2>1, <2>2 DEF FloodInv, BucketInv
<1>2. CASE SshDrop \/ SshPass \/ UNCHANGED vars
  BY <1>2 DEF SshDrop, SshPass, vars, FloodInv, BucketInv
<1>3. CASE Tick
  <2>1. /\ credit' \in [Kinds -> Nat] /\ passed' = passed /\ elapsed' = elapsed + 1
        /\ \A j \in Kinds : credit'[j] <= Burst[j] /\ credit'[j] <= credit[j] + Rate[j]
    BY <1>3 DEF Tick, Refilled, FloodInv
  <2>2. ASSUME NEW j \in Kinds
        PROVE  passed[j] + credit'[j] <= Burst[j] + Rate[j] * (elapsed + 1)
    <3>1. Rate[j] * (elapsed + 1) = Rate[j] * elapsed + Rate[j] /\ Rate[j] * elapsed \in Nat
      BY OneMoreSecond DEF FloodInv
    <3> QED BY <2>1, <3>1 DEF FloodInv, BucketInv
  <2> QED BY <2>1, <2>2 DEF FloodInv, BucketInv
<1>4. CASE Mark
  <2>1. \A j \in Kinds : Rate[j] * 0 = 0
    BY OneMoreSecond
  <2> QED BY <1>4, <2>1 DEF Mark, FloodInv, BucketInv
<1>5. ASSUME NEW k \in Kinds, LogAndDrop(k) PROVE FloodInv'
  BY <1>2, <1>5 DEF LogAndDrop
<1> QED BY <1>1, <1>2, <1>3, <1>4, <1>5 DEF Next

\* What the buckets have given away stays within their income.
LEMMA FloodInvariant == Spec => []FloodInv
<1>1. Init => FloodInv
  <2>1. \A j \in Kinds : Rate[j] * 0 = 0
    BY OneMoreSecond
  <2> QED BY <2>1 DEF Init, FloodInv, BucketInv
<1>2. FloodInv /\ [Next]_vars => FloodInv'
  BY FloodStep
<1> QED BY <1>1, <1>2, PTL DEF Spec

\* Whatever the packets and whenever they come, at most Burst + Rate * seconds
\* of a flood's packets pass in any interval.
THEOREM FloodRate == Spec => []FloodBounded
<1>1. FloodInv => FloodBounded
  <2> SUFFICES ASSUME FloodInv, NEW k \in Kinds
               PROVE  passed[k] <= Burst[k] + Rate[k] * elapsed
    BY DEF FloodBounded
  <2>1. Rate[k] * elapsed \in Nat
    BY OneMoreSecond DEF FloodInv
  <2> QED BY <2>1 DEF FloodInv, BucketInv
<1> QED BY <1>1, FloodInvariant, PTL

-----------------------------------------------------------------------------
\* The last n times of the list l are at most e seconds old.
Last(l, n, e) == n <= Len(l) /\ \A i \in 1..Len(l) : i > Len(l) - n => l[i] <= e

\* The times of the packets let through since the mark are in the list, and no
\* older than the mark.
ListInv ==
  /\ ages \in Seq(Nat) /\ elapsed \in Nat /\ sshData \in Nat
  /\ elapsed <= Window =>
       Copies * sshData < HitCount /\ Last(ages, Copies * sshData, elapsed)

\* Stamping n times leaves the list no shorter than ListSize allows, and the times
\* that were its last ones before are still there, followed by the new ones.
LEMMA StampedList ==
  ASSUME ages \in Seq(Nat), NEW n \in Nat
  PROVE  /\ Stamped(n) \in Seq(Nat)
         /\ \A k, m, e \in Nat :
              Last(ages, k, e) /\ m <= k + n /\ m <= ListSize => Last(Stamped(n), m, e)
<1> DEFINE z == [i \in 1..n |-> 0]
           l == ages \o z
<1>1. z \in Seq(Nat) /\ Len(z) = n /\ \A i \in 1..n : z[i] = 0
  OBVIOUS
<1> HIDE DEF z
<1>2. /\ l \in Seq(Nat) /\ Len(l) = Len(ages) + n
      /\ \A i \in 1..Len(l) : l[i] = IF i <= Len(ages) THEN ages[i] ELSE 0
  <2>1. /\ l \in Seq(Nat) /\ Len(l) = Len(ages) + n
        /\ \A i \in 1..(Len(ages) + n) :
             l[i] = IF i <= Len(ages) THEN ages[i] ELSE z[i - Len(ages)]
    BY <1>1, ConcatProperties
  <2>2. ASSUME NEW i \in 1..Len(l)
        PROVE  l[i] = IF i <= Len(ages) THEN ages[i] ELSE 0
    <3>1. CASE i <= Len(ages)
      BY <1>1, <2>1, <3>1
    <3>2. CASE ~(i <= Len(ages))
      <4>1. i - Len(ages) \in 1..n
        BY <2>1, <3>2
      <4>2. l[i] = z[i - Len(ages)]
        BY <1>1, <2>1, <3>2
      <4> QED BY <1>1, <3>2, <4>1, <4>2
    <3> QED BY <3>1, <3>2
  <2> QED BY <2>1, <2>2
<1>3. Stamped(n) = IF Len(l) <= ListSize THEN l ELSE SubSeq(l, Len(l) - ListSize + 1, Len(l))
  BY DEF Stamped, z
<1> HIDE DEF l
<1>4. ASSUME NEW k \in Nat, NEW m \in Nat, NEW e \in Nat, Last(ages, k, e), m <= k + n
      PROVE  Last(l, m, e)
  <2>1. /\ k <= Len(ages) /\ Len(ages) \in Nat
        /\ \A i \in 1..Len(ages) : i > Len(ages) - k => ages[i] <= e
    BY <1>4 DEF Last
  <2>2. m <= Len(l)
    BY <1>2, <1>4, <2>1
  <2> SUFFICES ASSUME NEW i \in 1..Len(l), i > Len(l) - m
               PROVE  l[i] <= e
    BY <2>2 DEF Last
  <2>3. CASE i <= Len(ages)
    <3>1. i \in 1..Len(ages) /\ i > Len(ages) - k
      BY <1>2, <1>4, <2>1, <2>3
    <3> QED BY <1>2, <2>1, <2>3, <3>1
  <2>4. CASE ~(i <= Len(ages))
    BY <1>2, <2>4
  <2> QED BY <2>3, <2>4
<1>5. CASE Len(l) <= ListSize
  BY <1>2, <1>3, <1>4, <1>5
<1>6. CASE Len(l) > ListSize
  <2> DEFINE s == SubSeq(l, Len(l) - ListSize + 1, Len(l))
  <2>1. /\ s \in Seq(Nat) /\ Len(s) = ListSize
        /\ \A i \in 1..ListSize : s[i] = l[Len(l) - ListSize + i]
    BY <1>2, <1>6
  <2>2. Stamped(n) = s
    BY <1>2, <1>3, <1>6
  <2> HIDE DEF s
  <2>3. ASSUME NEW m \in Nat, NEW e \in Nat, Last(l, m, e), m <= ListSize
        PROVE  Last(s, m, e)
    <3> SUFFICES ASSUME NEW i \in 1..ListSize, i > ListSize - m
                 PROVE  s[i] <= e
      BY <2>1, <2>3 DEF Last
    <3>1. Len(l) - ListSize + i \in 1..Len(l) /\ Len(l) - ListSize + i > Len(l) - m
      BY <1>2, <1>6
    <3> QED BY <2>1, <2>3, <3>1 DEF Last
  <2> QED BY <1>4, <2>1, <2>2, <2>3
<1> QED BY <1>2, <1>5, <1>6

\* HitCount times at most Window seconds old at the end of the list block.
LEMMA FullListBlocks ==
  ASSUME ages \in Seq(Nat), NEW c \in Nat, NEW e \in Nat, e <= Window,
         Last(Stamped(c), HitCount, e)
  PROVE  Blocking(c)
<1>1. PICK l \in Seq(Nat) : l = Stamped(c)
  BY StampedList
<1> DEFINE hits == {i \in DOMAIN l : l[i] <= Window}
           end == (Len(l) - HitCount + 1)..Len(l)
<1>2. Len(l) \in Nat /\ DOMAIN l = 1..Len(l) /\ HitCount <= Len(l)
  BY <1>1 DEF Last
<1>3. end \subseteq hits
  <2> SUFFICES ASSUME NEW i \in end PROVE i \in hits
    OBVIOUS
  <2>1. i \in 1..Len(l) /\ i > Len(l) - HitCount
    BY <1>2
  <2>2. l[i] <= e
    BY <1>1, <2>1 DEF Last
  <2>3. l[i] \in Nat
    BY <1>1, <2>1
  <2> QED BY <1>2, <2>1, <2>2, <2>3
<1>4. IsFiniteSet(end) /\ Cardinality(end) = HitCount
  <2>1. Len(l) - HitCount + 1 \in Int /\ Len(l) \in Int
    BY <1>2
  <2>2. /\ IsFiniteSet(end)
        /\ Cardinality(end) = IF Len(l) - HitCount + 1 > Len(l) THEN 0
                              ELSE Len(l) - (Len(l) - HitCount + 1) + 1
    BY <2>1, FS_Interval
  <2> QED BY <1>2, <2>2
<1>5. IsFiniteSet(hits)
  <2>1. IsFiniteSet(1..Len(l))
    BY <1>2, FS_Interval
  <2>2. hits \subseteq 1..Len(l)
    BY <1>2
  <2> QED BY <2>1, <2>2, FS_Subset
<1> HIDE DEF hits, end
<1>6. Cardinality(hits) >= HitCount
  <2>1. Cardinality(end) <= Cardinality(hits)
    BY <1>3, <1>5, FS_Subset
  <2>2. Cardinality(hits) \in Nat
    BY <1>5, FS_CardinalityType
  <2> QED BY <1>4, <2>1, <2>2
<1> QED BY <1>1, <1>6 DEF Blocking, hits

\* Every step keeps the times of the packets let through in the list.
LEMMA ListStep ==
  ASSUME ListInv, [Next]_vars
  PROVE  ListInv'
<1> USE DEF ListInv
<1>0. Copies * sshData \in Nat /\ Copies * (sshData + 1) = Copies * sshData + Copies
  BY OneMoreSecond
<1>1. CASE SshDrop
  <2>1. PICK c \in 1..Copies : ages' = Stamped(c + 2)
    BY <1>1 DEF SshDrop
  <2>2. c + 2 \in Nat /\ elapsed' = elapsed /\ sshData' = sshData
    BY <1>1 DEF SshDrop
  <2>3. ages' \in Seq(Nat)
    BY <2>1, <2>2, StampedList
  <2>4. ASSUME elapsed <= Window
        PROVE  Last(ages', Copies * sshData, elapsed)
    BY <1>0, <2>1, <2>2, <2>4, StampedList
  <2> QED BY <2>2, <2>3, <2>4
<1>2. CASE SshPass
  <2>1. /\ ages' = Stamped(Copies) /\ elapsed' = elapsed /\ sshData' = sshData + 1
        /\ ~Blocking(Copies)
    BY <1>2 DEF SshPass
  <2>2. ages' \in Seq(Nat)
    BY <2>1, StampedList
  <2>3. ASSUME elapsed <= Window
        PROVE  Copies * sshData + Copies < HitCount
    <3> SUFFICES ASSUME Copies * sshData + Copies >= HitCount
                 PROVE  FALSE
      BY <1>0
    <3>1. Last(Stamped(Copies), HitCount, elapsed)
      BY <1>0, <2>3, StampedList
    <3> QED BY <2>1, <2>3, <3>1, FullListBlocks
  <2>4. ASSUME elapsed <= Window
        PROVE  Last(ages', Copies * sshData + Copies, elapsed)
    BY <1>0, <2>1, <2>3, <2>4, StampedList
  <2> QED BY <1>0, <2>1, <2>2, <2>3, <2>4
<1>3. CASE Tick
  <2>1. /\ elapsed' = elapsed + 1 /\ sshData' = sshData
        /\ ages' \in Seq(Nat) /\ Len(ages') = Len(ages)
        /\ \A i \in 1..Len(ages) : ages'[i] <= ages[i] + 1
    <3>1. /\ elapsed' = elapsed + 1 /\ sshData' = sshData
          /\ ages' = [i \in 1..Len(ages) |->
                        IF ages[i] > Window THEN ages[i] ELSE ages[i] + 1]
      BY <1>3 DEF Tick
    <3>2. \A i \in 1..Len(ages) : ages[i] \in Nat
      OBVIOUS
    <3>3. Len(ages) \in Nat
      OBVIOUS
    <3>4. ages' \in [1..Len(ages) -> Nat] /\ DOMAIN ages' = 1..Len(ages)
      BY <3>1, <3>2
    <3>5. ages' \in Seq(Nat)
      BY <3>1, <3>2, <3>3
    <3>6. Len(ages') = Len(ages)
      BY <3>3, <3>4, <3>5
    <3> QED BY <3>1, <3>2, <3>5, <3>6
  <2>2. ASSUME elapsed + 1 <= Window
        PROVE  Last(ages', Copies * sshData, elapsed + 1)
    BY <1>0, <2>1, <2>2 DEF Last
  <2> QED BY <2>1, <2>2
<1>4. CASE Mark
  <2>1. Copies * 0 = 0
    BY OneMoreSecond
  <2> QED BY <1>4, <2>1 DEF Mark, Last
<1>5. CASE UNCHANGED vars
  BY <1>5 DEF vars, Last
<1>6. ASSUME NEW k \in Kinds, Return(k) \/ LogAndDrop(k) PROVE ListInv'
  BY <1>5, <1>6 DEF Return, LogAndDrop, vars, Last
<1> QED BY <1>1, <1>2, <1>3, <1>4, <1>5, <1>6 DEF Next

\* The list keeps what it has to, in every reachable state.
LEMMA ListInvariant == Spec => []ListInv
<1>1. Init => ListInv
  <2>1. Copies * 0 = 0
    BY OneMoreSecond
  <2> QED BY <2>1 DEF Init, ListInv, Last
<1>2. ListInv /\ [Next]_vars => ListInv'
  BY ListStep
<1> QED BY <1>1, <1>2, PTL DEF Spec

\* Whatever the packets, however often enable was called and whatever the hit
\* count: no Window seconds see HitCount / Copies packets of open connections
\* from one source pass to port 22.
THEOREM SshRate == Spec => []SshPacketsLimited
<1>1. ListInv => SshPacketsLimited
  BY DEF ListInv, SshPacketsLimited
<1> QED BY <1>1, ListInvariant, PTL

\* The buckets, the list and the counters keep their types.
THEOREM TypeCorrect == Spec => []TypeOK
<1>1. FloodInv /\ ListInv => TypeOK
  BY DEF FloodInv, ListInv, TypeOK
<1> QED BY <1>1, FloodInvariant, ListInvariant, PTL
=============================================================================
