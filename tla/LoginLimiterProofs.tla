------------------------- MODULE LoginLimiterProofs -------------------------
(***************************************************************************)
(* BlockHolds and FailuresBounded for every number of requests and         *)
(* addresses and every setting of the limiter.  The first invariant adds   *)
(* that only the holder of controlLock is past ensure(), and that the      *)
(* cache entry of an address that must stay quiet outlives that time.  The *)
(* second one counts: how many failures an address may have had before the *)
(* ones its entry counts, and that those are at least as old as the entry. *)
(***************************************************************************)
EXTENDS LoginLimiter, TLAPS

Holder == \A p \in Procs : pc[p] # "idle" => controlLock = p

Outlives ==
  \A a \in Addrs : quiet[a] > 0 =>
    failedAuths[a].num >= maxAttempts /\ failedAuths[a].left >= quiet[a]

LimiterInv == TypeOK /\ Holder /\ Outlives /\ BlockHolds

USE DEF Labels, TypeOK, Expired

Entries == [num : Nat, left : Expired..blockDur]

\* recent has at least two places, and what is put there are ages.
LEMMA PlacesOK ==
  /\ MaxFailures \in Nat /\ MaxFailures >= 1 /\ MaxFailures + 1 \in Places
  /\ maxAttempts >= 2 => MaxFailures = 2 * maxAttempts - 2
  /\ maxAttempts = 1 => MaxFailures = 1
  BY LimiterAssumption DEF MaxFailures, Places

LEMMA RecentOK ==
  /\ NoEntry \in Entries
  /\ NoFailures \in [Places -> 0..failedAuthTTL]
  /\ \A r \in [Places -> 0..failedAuthTTL] : OneMore(r) \in [Places -> 0..failedAuthTTL]
<1>1. NoEntry \in Entries /\ NoFailures \in [Places -> 0..failedAuthTTL]
  BY LimiterAssumption DEF NoEntry, NoFailures, Entries
<1>2. \A k \in Places : k # 1 => k - 1 \in Places
  BY PlacesOK DEF Places
<1>3. \A r \in [Places -> 0..failedAuthTTL] : OneMore(r) \in [Places -> 0..failedAuthTTL]
  BY <1>2, LimiterAssumption DEF OneMore
<1> QED BY <1>1, <1>3

\* Before the first request nobody is past ensure() and nobody is blocked.
LEMMA InitOK == Init => LimiterInv
<1> SUFFICES ASSUME Init PROVE LimiterInv
  OBVIOUS
<1>1. TypeOK
  BY RecentOK DEF Init, Entries
<1> QED BY <1>1, LimiterAssumption DEF Init, LimiterInv, Holder, Outlives, BlockHolds, NoEntry

\* A request enters only when no other is past ensure().
LEMMA EnsureOK ==
  ASSUME LimiterInv, NEW p \in Procs, NEW a \in Addrs, Ensure(p, a)
  PROVE  LimiterInv'
  BY LimiterAssumption DEF LimiterInv, Ensure, Goto, Holder, Outlives, BlockHolds

\* check lets no address through that must stay quiet.
LEMMA CheckOK ==
  ASSUME LimiterInv, NEW p \in Procs, Check(p)
  PROVE  LimiterInv'
<1>1. TypeOK'
  <2>1. Cleaned \in [Addrs -> Entries]
    BY RecentOK DEF LimiterInv, Cleaned, Entries
  <2> QED BY <2>1 DEF LimiterInv, Check, Goto, Return, Entries
<1>2. Holder'
  BY DEF LimiterInv, Check, Goto, Return, Holder
<1>3. Outlives'
  BY LimiterAssumption DEF LimiterInv, Check, Outlives, Cleaned, NoEntry
<1>4. quiet[addr[p]] > 0 => CheckLocked(Cleaned[addr[p]]) > 0
  BY LimiterAssumption DEF LimiterInv, Outlives, Cleaned, NoEntry, CheckLocked
<1>5. BlockHolds'
  BY <1>4 DEF LimiterInv, Check, Goto, Return, BlockHolds
<1> QED BY <1>1, <1>2, <1>3, <1>5 DEF LimiterInv

\* The password check leaves the cache alone.
LEMMA FindUserOK ==
  ASSUME LimiterInv, NEW p \in Procs, NEW ok \in BOOLEAN, FindUser(p, ok)
  PROVE  LimiterInv'
<1>1. recent' \in [Addrs -> [Places -> 0..failedAuthTTL]]
  BY RecentOK DEF LimiterInv, FindUser
<1>2. TypeOK'
  BY <1>1 DEF LimiterInv, FindUser, Goto
<1> QED BY <1>2 DEF LimiterInv, FindUser, Goto, Holder, Outlives, BlockHolds

\* inc gives a blocked address an entry as long as its block.
LEMMA IncOK ==
  ASSUME LimiterInv, NEW p \in Procs, Inc(p)
  PROVE  LimiterInv'
<1> DEFINE a == addr[p]
           e == IncLocked(failedAuths[a])
<1>1. a \in Addrs /\ pc[p] = "inc"
  BY DEF LimiterInv, Inc
<1>2. e \in Entries /\ e.num \in Nat /\ e.left \in Int
  BY <1>1, LimiterAssumption DEF LimiterInv, IncLocked, NoEntry, Entries
<1>3. e.num >= maxAttempts => e.left = blockDur
  BY DEF IncLocked
<1>4. /\ failedAuths' = [failedAuths EXCEPT ![a] = e]
      /\ quiet' = [quiet EXCEPT ![a] = IF e.num >= maxAttempts THEN blockDur ELSE quiet[a]]
      /\ pc' = [pc EXCEPT ![p] = "idle"]
      /\ addr' = addr
  BY DEF Inc, Return, Goto
<1> HIDE DEF e
<1>5. TypeOK'
  <2>1. quiet' \in [Addrs -> Nat]
    BY <1>1, <1>4, LimiterAssumption DEF LimiterInv
  <2>2. recent' = recent /\ controlLock' = Free
    BY DEF Inc, Return
  <2> QED BY <1>1, <1>2, <1>4, <2>1, <2>2 DEF LimiterInv, Entries
<1>6. quiet[a] = 0
  BY <1>1 DEF LimiterInv, BlockHolds
<1>7. Outlives'
  BY <1>1, <1>2, <1>3, <1>4, <1>6, LimiterAssumption DEF LimiterInv, Outlives
<1>8. \A q \in Procs : q # p => pc[q] = "idle"
  BY <1>1 DEF LimiterInv, Holder
<1>9. \A q \in Procs : pc'[q] = "idle"
  BY <1>4, <1>8 DEF LimiterInv
<1> QED BY <1>5, <1>7, <1>9 DEF LimiterInv, Holder, BlockHolds

\* remove takes the entry of an address that need not stay quiet.
LEMMA RemoveOK ==
  ASSUME LimiterInv, NEW p \in Procs, Remove(p)
  PROVE  LimiterInv'
<1>1. quiet[addr[p]] = 0
  BY DEF LimiterInv, BlockHolds, Remove
<1>2. TypeOK'
  BY RecentOK DEF LimiterInv, Remove, Return, Goto, Entries
<1>3. Outlives'
  BY <1>1 DEF LimiterInv, Remove, Outlives
<1>4. \A q \in Procs : pc'[q] = "idle"
  BY DEF LimiterInv, Holder, Remove, Return, Goto
<1> QED BY <1>2, <1>3, <1>4 DEF LimiterInv, Holder, BlockHolds

\* Time shortens the entry and the block alike.
LEMMA TickOK == LimiterInv /\ Tick => LimiterInv'
<1> SUFFICES ASSUME LimiterInv, Tick PROVE LimiterInv'
  OBVIOUS
<1>1. TypeOK'
  <2>1. \A e \in Entries : Older(e) \in Entries
    BY LimiterAssumption DEF Older, Entries
  <2>2. failedAuths' \in [Addrs -> Entries]
    BY <2>1 DEF LimiterInv, Tick, Entries
  <2>3. recent' \in [Addrs -> [Places -> 0..failedAuthTTL]]
    BY LimiterAssumption DEF LimiterInv, Tick
  <2>4. quiet' \in [Addrs -> Nat]
    BY DEF LimiterInv, Tick
  <2> QED BY <2>2, <2>3, <2>4 DEF LimiterInv, Tick, Entries
<1>2. Outlives'
  BY LimiterAssumption DEF LimiterInv, Tick, Older, Expired, Outlives, NoEntry
<1>3. Holder'
  BY DEF LimiterInv, Tick, Holder
<1>4. BlockHolds'
  BY DEF LimiterInv, Tick, BlockHolds
<1> QED BY <1>1, <1>2, <1>3, <1>4 DEF LimiterInv

\* The first inductive invariant.
THEOREM LimiterInvariant == Spec => []LimiterInv
<1>1. Init => LimiterInv
  BY InitOK
<1>2. LimiterInv /\ [Next]_vars => LimiterInv'
  <2> SUFFICES ASSUME LimiterInv, [Next]_vars PROVE LimiterInv'
    OBVIOUS
  <2>1. CASE Tick
    BY <2>1, TickOK
  <2>2. CASE \E p \in Procs : Handle(p) \/ \E a \in Addrs : Ensure(p, a)
    BY <2>2, EnsureOK, CheckOK, FindUserOK, IncOK, RemoveOK DEF Handle
  <2>3. CASE UNCHANGED vars
    BY <2>3 DEF LimiterInv, Holder, Outlives, BlockHolds, vars
  <2> QED BY <2>1, <2>2, <2>3 DEF Next
<1> QED BY <1>1, <1>2, PTL DEF Spec

\* The limiter's state is of its type; the time left of an entry never exceeds
\* blockDur.
THEOREM TypeCorrect == Spec => []TypeOK
<1>1. LimiterInv => TypeOK
  BY DEF LimiterInv
<1> QED BY <1>1, LimiterInvariant, PTL

\* No password of a blocked address is checked before its block is over,
\* whatever maxAttempts and blockDur are and however many requests wait.
THEOREM BlockedStayOut == Spec => []BlockHolds
<1>1. LimiterInv => BlockHolds
  BY DEF LimiterInv
<1> QED BY <1>1, LimiterInvariant, PTL

-----------------------------------------------------------------------------
(* The failures within failedAuthTTL.  A password that has failed and is   *)
(* not yet counted is Uncounted; k counts from the newest failure back.    *)

Uncounted(a) ==
  IF \E p \in Procs : pc[p] = "inc" /\ addr[p] = a THEN 1 ELSE 0

Forgotten(a, k) == recent[a][k] = failedAuthTTL
AtLeast(a, k, age) == Forgotten(a, k) \/ recent[a][k] >= age

\* No entry: what earlier entries have counted is less than would block.
NoneCounted(a) ==
  failedAuths[a].num = 0 =>
    /\ failedAuths[a].left = 0
    /\ \A k \in Places :
         k > Uncounted(a) /\ k >= maxAttempts - 1 + Uncounted(a) => Forgotten(a, k)

\* An entry that does not block: the failures before it are as few, and none of
\* them, nor the one that started it, is younger than the entry.
SomeCounted(a) ==
  failedAuths[a].num > 0 /\ failedAuths[a].num < maxAttempts =>
    /\ failedAuths[a].left <= failedAuthTTL
    /\ \A k \in Places :
         k >= maxAttempts - 1 + failedAuths[a].num + Uncounted(a) => Forgotten(a, k)
    /\ \A k \in Places :
         k >= failedAuths[a].num + Uncounted(a) =>
           AtLeast(a, k, failedAuthTTL - failedAuths[a].left)

\* An entry that blocks: there are no failures since the block began, but for
\* one that it let through when its time was over.
Blocking(a) ==
  failedAuths[a].num >= maxAttempts =>
    /\ Forgotten(a, MaxFailures + 1)
    /\ \A k \in Places : k > Uncounted(a) => AtLeast(a, k, blockDur - failedAuths[a].left)
    /\ \A p \in Procs :
         pc[p] \in {"find", "inc", "remove"} /\ addr[p] = a => failedAuths[a].left <= 0

\* After a success no failure is remembered.
Succeeded == \A p \in Procs : pc[p] = "remove" => recent[addr[p]] = NoFailures

Counted(a) == NoneCounted(a) /\ SomeCounted(a) /\ Blocking(a)

WindowInv == (\A a \in Addrs : Counted(a)) /\ Succeeded

\* The bound follows in each of the three cases.
LEMMA WindowBounds ==
  ASSUME LimiterInv, WindowInv
  PROVE  FailuresBounded
<1> SUFFICES ASSUME NEW a \in Addrs PROVE recent[a][MaxFailures + 1] = failedAuthTTL
  BY DEF FailuresBounded
<1>1. failedAuths[a].num \in Nat /\ Uncounted(a) \in {0, 1}
  BY DEF LimiterInv, Uncounted
<1>2. Counted(a)
  BY DEF WindowInv
<1>3. CASE failedAuths[a].num = 0
  BY <1>1, <1>2, <1>3, PlacesOK, LimiterAssumption DEF Counted, NoneCounted, Forgotten
<1>4. CASE failedAuths[a].num > 0 /\ failedAuths[a].num < maxAttempts
  BY <1>1, <1>2, <1>4, PlacesOK, LimiterAssumption DEF Counted, SomeCounted, Forgotten
<1>5. CASE failedAuths[a].num >= maxAttempts
  BY <1>2, <1>5 DEF Counted, Blocking, Forgotten
<1> QED BY <1>1, <1>3, <1>4, <1>5, LimiterAssumption

LEMMA WindowInit == Init => WindowInv
  BY LimiterAssumption, PlacesOK
     DEF Init, WindowInv, Counted, NoneCounted, SomeCounted, Blocking, Succeeded, Forgotten,
         NoEntry, NoFailures

\* What Counted says of an address depends only on its entry, its failures and
\* the requests that are past the check.
LEMMA SameCounted ==
  ASSUME NEW a \in Addrs, Counted(a),
         failedAuths'[a] = failedAuths[a], recent'[a] = recent[a],
         Uncounted(a)' = Uncounted(a),
         \A p \in Procs : pc'[p] \in {"find", "inc", "remove"} /\ addr'[p] = a =>
                            pc[p] \in {"find", "inc", "remove"} /\ addr[p] = a
  PROVE  Counted(a)'
  BY DEF Counted, NoneCounted, SomeCounted, Blocking, Forgotten, AtLeast

LEMMA EnsureWindow ==
  ASSUME LimiterInv, WindowInv, NEW p \in Procs, NEW a \in Addrs, Ensure(p, a)
  PROVE  WindowInv'
<1>1. /\ pc' = [pc EXCEPT ![p] = "check"] /\ addr' = [addr EXCEPT ![p] = a] /\ pc[p] = "idle"
      /\ UNCHANGED <<failedAuths, recent>>
  BY DEF Ensure, Goto
<1>2. \A b \in Addrs : Uncounted(b)' = Uncounted(b)
  BY <1>1 DEF LimiterInv, Uncounted
<1>3. \A b \in Addrs : Counted(b)'
  BY <1>1, <1>2, SameCounted DEF WindowInv, LimiterInv
<1>4. Succeeded'
  BY <1>1 DEF WindowInv, LimiterInv, Succeeded
<1> QED BY <1>3, <1>4 DEF WindowInv

\* cleanupLocked removes an entry only when fewer failures than would block are
\* young enough to be remembered.
LEMMA CheckWindow ==
  ASSUME LimiterInv, WindowInv, NEW p \in Procs, Check(p)
  PROVE  WindowInv'
<1>1. /\ failedAuths' = Cleaned /\ pc[p] = "check" /\ UNCHANGED <<addr, recent>>
      /\ \/ pc' = [pc EXCEPT ![p] = "idle"]
         \/ pc' = [pc EXCEPT ![p] = "find"] /\ CheckLocked(Cleaned[addr[p]]) <= 0
  BY LimiterAssumption DEF Check, Goto, Return, LimiterInv, CheckLocked, Cleaned, NoEntry
<1>2. \A q \in Procs : q # p => pc[q] = "idle" /\ pc'[q] = "idle"
  BY <1>1 DEF LimiterInv, Holder
<1>3. pc'[p] \in {"idle", "find"}
  BY <1>1 DEF LimiterInv
<1>4. \A a \in Addrs : Uncounted(a) = 0 /\ Uncounted(a)' = 0
  BY <1>1, <1>2, <1>3 DEF Uncounted
<1>5. Succeeded'
  BY <1>2, <1>3 DEF Succeeded
<1>6. ASSUME NEW a \in Addrs PROVE Counted(a)'
  <2>1. /\ failedAuths[a].num \in Nat /\ failedAuths[a].left \in Expired..blockDur
        /\ recent[a] \in [Places -> 0..failedAuthTTL]
    BY DEF LimiterInv
  <2>2. Counted(a) /\ Uncounted(a) = 0 /\ Uncounted(a)' = 0 /\ recent'[a] = recent[a]
    BY <1>1, <1>4 DEF WindowInv
  <2>3. CASE failedAuths[a].left < 0
    <3>1. failedAuths'[a] = NoEntry
      BY <1>1, <2>3 DEF Cleaned
    <3>2. CASE failedAuths[a].num < maxAttempts
      <4>1. failedAuths[a].num > 0 /\ failedAuths[a].left = -1
        BY <2>1, <2>2, <2>3 DEF Counted, NoneCounted
      <4>2. \A k \in Places : k >= maxAttempts - 1 => recent[a][k] = failedAuthTTL
        <5> SUFFICES ASSUME NEW k \in Places, k >= maxAttempts - 1
                     PROVE  recent[a][k] = failedAuthTTL
          OBVIOUS
        <5>1. k \in Nat /\ recent[a][k] \in 0..failedAuthTTL
          BY <2>1, PlacesOK DEF Places
        <5>2. k >= failedAuths[a].num + Uncounted(a)
          BY <2>1, <2>2, <3>2, <5>1, LimiterAssumption
        <5>3. AtLeast(a, k, failedAuthTTL - failedAuths[a].left)
          BY <2>2, <3>2, <4>1, <5>2 DEF Counted, SomeCounted
        <5> QED BY <4>1, <5>1, <5>3, LimiterAssumption DEF AtLeast, Forgotten
      <4> QED BY <2>2, <3>1, <4>2, LimiterAssumption
              DEF Counted, NoneCounted, SomeCounted, Blocking, Forgotten, NoEntry
    <3>3. CASE failedAuths[a].num >= maxAttempts
      <4>1. \A k \in Places : k > 0 => recent[a][k] = failedAuthTTL
        <5> SUFFICES ASSUME NEW k \in Places, k > 0
                     PROVE  recent[a][k] = failedAuthTTL
          OBVIOUS
        <5>1. recent[a][k] \in 0..failedAuthTTL
          BY <2>1
        <5>2. AtLeast(a, k, blockDur - failedAuths[a].left)
          BY <2>2, <3>3 DEF Counted, Blocking
        <5> QED BY <2>1, <2>3, <5>1, <5>2, LimiterAssumption DEF AtLeast, Forgotten
      <4> QED BY <2>2, <3>1, <4>1, LimiterAssumption
              DEF Counted, NoneCounted, SomeCounted, Blocking, Forgotten, NoEntry, Places
    <3> QED BY <2>1, <3>2, <3>3, LimiterAssumption
  <2>4. CASE ~(failedAuths[a].left < 0)
    <3>1. failedAuths'[a] = failedAuths[a]
      BY <1>1, <2>4 DEF Cleaned
    <3>2. NoneCounted(a)' /\ SomeCounted(a)'
      BY <2>2, <3>1 DEF Counted, NoneCounted, SomeCounted, Forgotten, AtLeast
    <3>3. ASSUME NEW q \in Procs, pc'[q] = "find", addr'[q] = a,
                 failedAuths'[a].num >= maxAttempts
          PROVE  failedAuths'[a].left <= 0
      <4>1. q = p /\ addr[p] = a /\ CheckLocked(Cleaned[a]) <= 0
        BY <1>1, <1>2, <1>3, <3>3 DEF LimiterInv
      <4> QED BY <1>1, <2>1, <3>1, <3>3, <4>1, LimiterAssumption DEF CheckLocked
    <3>4. Blocking(a)'
      BY <1>2, <1>3, <2>2, <3>1, <3>3 DEF Counted, Blocking, Forgotten, AtLeast
    <3> QED BY <3>2, <3>4 DEF Counted
  <2> QED BY <2>3, <2>4
<1> QED BY <1>5, <1>6 DEF WindowInv

\* A failure moves every earlier one back by one and is not counted yet.
LEMMA FindUserWindow ==
  ASSUME LimiterInv, WindowInv, NEW p \in Procs, NEW ok \in BOOLEAN, FindUser(p, ok)
  PROVE  WindowInv'
<1>0. PICK a \in Addrs : a = addr[p]
  BY DEF LimiterInv
<1>1. /\ pc[p] = "find" /\ a \in Addrs /\ UNCHANGED <<failedAuths, addr>>
      /\ pc' = [pc EXCEPT ![p] = IF ok THEN "remove" ELSE "inc"]
      /\ recent' = [recent EXCEPT ![a] = IF ok THEN NoFailures ELSE OneMore(recent[a])]
  BY <1>0 DEF FindUser, Goto, LimiterInv
<1>2. \A q \in Procs : q # p => pc[q] = "idle" /\ pc'[q] = "idle"
  BY <1>0, <1>1 DEF LimiterInv, Holder
<1>3. pc'[p] \in {"inc", "remove"} /\ (pc'[p] = "remove" <=> ok)
  BY <1>0, <1>1 DEF LimiterInv
<1>4. Succeeded'
  BY <1>0, <1>1, <1>2, <1>3 DEF Succeeded, LimiterInv
<1>5. ASSUME NEW b \in Addrs, b # a PROVE Counted(b)'
  <2>1. Uncounted(b)' = Uncounted(b) /\ recent'[b] = recent[b]
    BY <1>0, <1>1, <1>2, <1>5 DEF Uncounted, LimiterInv
  <2> QED BY <1>0, <1>1, <1>2, <1>5, <2>1, SameCounted DEF WindowInv
<1>6. Counted(a)'
  <2>1. Counted(a) /\ Uncounted(a) = 0 /\ failedAuths'[a] = failedAuths[a]
    BY <1>0, <1>1, <1>2 DEF WindowInv, Uncounted
  <2>2. failedAuths[a].num >= maxAttempts => failedAuths[a].left <= 0
    BY <1>0, <1>1, <2>1 DEF Counted, Blocking
  <2>3. /\ failedAuths[a].num \in Nat /\ failedAuths[a].left \in Expired..blockDur
        /\ recent[a] \in [Places -> 0..failedAuthTTL]
    BY <1>0, <1>1 DEF LimiterInv
  <2>4. CASE ok
    <3>1. recent'[a] = NoFailures
      BY <1>0, <1>1, <2>4 DEF LimiterInv
    <3>2. \A k \in Places : Forgotten(a, k)'
      BY <3>1 DEF Forgotten, NoFailures
    <3> QED BY <1>0, <1>1, <2>1, <2>2, <3>2, PlacesOK
            DEF Counted, NoneCounted, SomeCounted, Blocking, AtLeast
  <2>5. CASE ~ok
    <3>1. Uncounted(a)' = 1 /\ recent'[a] = OneMore(recent[a])
      BY <1>0, <1>1, <1>3, <2>5 DEF Uncounted, LimiterInv
    <3>2. ASSUME NEW k \in Places, k > 1
          PROVE  k - 1 \in Places /\ k - 1 > 0 /\ k \in Int /\ recent'[a][k] = recent[a][k - 1]
      BY <3>1, <3>2, PlacesOK DEF OneMore, Places
    <3>3. NoneCounted(a)'
      <4> SUFFICES ASSUME failedAuths[a].num = 0, NEW k \in Places, k > 1, k >= maxAttempts
                   PROVE  recent'[a][k] = failedAuthTTL
        BY <2>1, <3>1, LimiterAssumption DEF NoneCounted, Counted, Forgotten
      <4> QED BY <2>1, <3>2, LimiterAssumption DEF Counted, NoneCounted, Forgotten
    <3>4. SomeCounted(a)'
      <4> SUFFICES ASSUME failedAuths[a].num > 0, failedAuths[a].num < maxAttempts
                   PROVE  /\ \A k \in Places : k >= maxAttempts + failedAuths[a].num =>
                               Forgotten(a, k)'
                          /\ \A k \in Places : k >= failedAuths[a].num + 1 =>
                               AtLeast(a, k, failedAuthTTL - failedAuths[a].left)'
        BY <2>1, <2>3, <3>1, LimiterAssumption DEF SomeCounted, Counted
      <4>1. ASSUME NEW k \in Places, k >= maxAttempts + failedAuths[a].num
            PROVE  Forgotten(a, k)'
        <5>1. k > 1
          BY <2>3, <4>1, LimiterAssumption DEF Places
        <5>2. k - 1 \in Places /\ k - 1 >= maxAttempts - 1 + failedAuths[a].num + Uncounted(a)
          BY <2>1, <2>3, <3>2, <4>1, <5>1, LimiterAssumption
        <5> QED BY <2>1, <3>2, <5>1, <5>2 DEF Counted, SomeCounted, Forgotten
      <4>2. ASSUME NEW k \in Places, k >= failedAuths[a].num + 1
            PROVE  AtLeast(a, k, failedAuthTTL - failedAuths[a].left)'
        <5>1. k > 1
          BY <2>3, <4>2 DEF Places
        <5>2. k - 1 \in Places /\ k - 1 >= failedAuths[a].num + Uncounted(a)
          BY <2>1, <2>3, <3>2, <4>2, <5>1
        <5> QED BY <2>1, <3>2, <5>1, <5>2 DEF Counted, SomeCounted, Forgotten, AtLeast
      <4> QED BY <4>1, <4>2
    <3>5. Blocking(a)'
      <4> SUFFICES ASSUME failedAuths[a].num >= maxAttempts
                   PROVE  \A k \in Places : k > 1 => Forgotten(a, k)'
        BY <2>1, <2>2, <3>1, PlacesOK DEF Blocking, Counted, AtLeast
      <4> SUFFICES ASSUME NEW k \in Places, k > 1 PROVE Forgotten(a, k)'
        OBVIOUS
      <4>1. k - 1 \in Places /\ k - 1 > Uncounted(a)
        BY <2>1, <3>2
      <4>2. AtLeast(a, k - 1, blockDur - failedAuths[a].left) /\ recent[a][k - 1] \in 0..failedAuthTTL
        BY <2>1, <2>3, <4>1 DEF Counted, Blocking
      <4>3. recent[a][k - 1] = failedAuthTTL
        BY <2>2, <2>3, <4>2, LimiterAssumption DEF AtLeast, Forgotten
      <4> QED BY <3>2, <4>3 DEF Forgotten
    <3> QED BY <3>3, <3>4, <3>5 DEF Counted
  <2> QED BY <2>4, <2>5
<1> QED BY <1>4, <1>5, <1>6 DEF WindowInv

\* inc counts the failure that was not counted yet.
LEMMA IncWindow ==
  ASSUME LimiterInv, WindowInv, NEW p \in Procs, Inc(p)
  PROVE  WindowInv'
<1>0. PICK a \in Addrs : a = addr[p]
  BY DEF LimiterInv
<1> DEFINE e == IncLocked(failedAuths[a])
<1>1. /\ pc[p] = "inc" /\ a \in Addrs /\ UNCHANGED <<addr, recent>>
      /\ pc' = [pc EXCEPT ![p] = "idle"]
      /\ failedAuths' = [failedAuths EXCEPT ![a] = e]
  BY <1>0 DEF Inc, Return, Goto, LimiterInv
<1>2. \A q \in Procs : (q # p => pc[q] = "idle") /\ pc'[q] = "idle"
  BY <1>0, <1>1 DEF LimiterInv, Holder
<1>3. Succeeded'
  BY <1>2 DEF Succeeded
<1>4. ASSUME NEW b \in Addrs, b # a PROVE Counted(b)'
  <2>1. Uncounted(b)' = Uncounted(b) /\ failedAuths'[b] = failedAuths[b]
    BY <1>0, <1>1, <1>2, <1>4 DEF Uncounted, LimiterInv
  <2> QED BY <1>0, <1>1, <1>2, <1>4, <2>1, SameCounted DEF WindowInv
<1>5. Counted(a)'
  <2>1. /\ Counted(a) /\ Uncounted(a) = 1 /\ Uncounted(a)' = 0 /\ recent'[a] = recent[a]
        /\ failedAuths'[a] = e
    BY <1>0, <1>1, <1>2 DEF WindowInv, Uncounted, LimiterInv
  <2>2. /\ failedAuths[a].num \in Nat /\ failedAuths[a].left \in Expired..blockDur
        /\ recent[a] \in [Places -> 0..failedAuthTTL]
    BY <1>0, <1>1 DEF LimiterInv
  <2>3. /\ e.num = failedAuths[a].num + 1
        /\ e.num >= maxAttempts => e.left = blockDur
        /\ e.num < maxAttempts /\ failedAuths[a].num = 0 => e.left = failedAuthTTL
        /\ e.num < maxAttempts /\ failedAuths[a].num > 0 => e.left = failedAuths[a].left
    <3>1. failedAuths[a].num = 0 => failedAuths[a] = NoEntry
      <4>1. failedAuths[a] \in [num : Nat, left : Expired..blockDur]
        BY <1>0, <1>1 DEF LimiterInv
      <4> QED BY <2>1, <4>1 DEF Counted, NoneCounted, NoEntry
    <3> QED BY <2>2, <3>1, LimiterAssumption DEF IncLocked, NoEntry
  <2> HIDE DEF e
  <2>4. NoneCounted(a)'
    BY <2>1, <2>2, <2>3 DEF NoneCounted
  <2>5. CASE e.num >= maxAttempts
    <3>1. Forgotten(a, MaxFailures + 1)'
      BY <2>1, WindowBounds, <1>1 DEF FailuresBounded, Forgotten
    <3>2. Blocking(a)'
      BY <1>2, <2>1, <2>2, <2>3, <2>5, <3>1, LimiterAssumption DEF Blocking, AtLeast
    <3>3. SomeCounted(a)'
      BY <2>1, <2>2, <2>3, <2>5, LimiterAssumption DEF SomeCounted
    <3> QED BY <2>4, <3>2, <3>3 DEF Counted
  <2>6. CASE e.num < maxAttempts
    <3>1. Blocking(a)'
      BY <2>1, <2>2, <2>3, <2>6, LimiterAssumption DEF Blocking
    <3>2. CASE failedAuths[a].num = 0
      <4>1. \A k \in Places : k >= maxAttempts => Forgotten(a, k)'
        BY <2>1, <2>2, <2>3, <2>6, <3>2, LimiterAssumption DEF Counted, NoneCounted, Forgotten, Places
      <4>2. \A k \in Places : AtLeast(a, k, failedAuthTTL - failedAuths[a].left)'
        BY <2>1, <2>2, <2>3, <2>6, <3>2, LimiterAssumption DEF AtLeast
      <4>3. SomeCounted(a)'
        BY <2>1, <2>2, <2>3, <2>6, <3>2, <4>1, <4>2, LimiterAssumption DEF SomeCounted, AtLeast, Places
      <4> QED BY <2>4, <3>1, <4>3 DEF Counted
    <3>3. CASE failedAuths[a].num > 0
      <4>1. SomeCounted(a)'
        BY <2>1, <2>2, <2>3, <2>6, <3>3, LimiterAssumption
           DEF Counted, SomeCounted, AtLeast, Forgotten, Places
      <4> QED BY <2>4, <3>1, <4>1 DEF Counted
    <3> QED BY <2>2, <3>2, <3>3
  <2> QED BY <2>2, <2>3, <2>5, <2>6, LimiterAssumption
<1> QED BY <1>3, <1>4, <1>5 DEF WindowInv

\* remove drops the entry of an address with no failures.
LEMMA RemoveWindow ==
  ASSUME LimiterInv, WindowInv, NEW p \in Procs, Remove(p)
  PROVE  WindowInv'
<1>0. PICK a \in Addrs : a = addr[p]
  BY DEF LimiterInv
<1>1. /\ pc[p] = "remove" /\ a \in Addrs /\ UNCHANGED <<addr, recent>>
      /\ pc' = [pc EXCEPT ![p] = "idle"]
      /\ failedAuths' = [failedAuths EXCEPT ![a] = NoEntry]
  BY <1>0 DEF Remove, Return, Goto, LimiterInv
<1>2. \A q \in Procs : (q # p => pc[q] = "idle") /\ pc'[q] = "idle"
  BY <1>0, <1>1 DEF LimiterInv, Holder
<1>3. Succeeded'
  BY <1>2 DEF Succeeded
<1>4. ASSUME NEW b \in Addrs, b # a PROVE Counted(b)'
  <2>1. Uncounted(b)' = Uncounted(b) /\ failedAuths'[b] = failedAuths[b]
    BY <1>0, <1>1, <1>2, <1>4 DEF Uncounted, LimiterInv
  <2> QED BY <1>0, <1>1, <1>2, <1>4, <2>1, SameCounted DEF WindowInv
<1>5. Counted(a)'
  <2>1. recent'[a] = NoFailures /\ failedAuths'[a] = NoEntry
    BY <1>0, <1>1 DEF WindowInv, Succeeded, LimiterInv
  <2> QED BY <2>1, LimiterAssumption
          DEF Counted, NoneCounted, SomeCounted, Blocking, Forgotten, NoEntry, NoFailures
<1> QED BY <1>3, <1>4, <1>5 DEF WindowInv

\* Time passes for the entries and the failures alike.
LEMMA TickWindow ==
  ASSUME LimiterInv, WindowInv, Tick
  PROVE  WindowInv'
<1>1. /\ failedAuths' = [a \in Addrs |-> Older(failedAuths[a])] /\ UNCHANGED <<pc, addr>>
      /\ recent' = [a \in Addrs |-> [k \in Places |->
           IF recent[a][k] < failedAuthTTL THEN recent[a][k] + 1 ELSE failedAuthTTL]]
  BY DEF Tick
<1>2. Succeeded'
  <2> SUFFICES ASSUME NEW p \in Procs, pc[p] = "remove" PROVE recent'[addr[p]] = NoFailures
    BY <1>1 DEF Succeeded
  <2>1. recent[addr[p]] = NoFailures /\ addr[p] \in Addrs
    BY DEF WindowInv, Succeeded, LimiterInv
  <2> QED BY <1>1, <2>1, LimiterAssumption DEF NoFailures
<1>3. ASSUME NEW a \in Addrs PROVE Counted(a)'
  <2>1. Counted(a) /\ Uncounted(a)' = Uncounted(a) /\ Uncounted(a) \in {0, 1}
    BY <1>1 DEF WindowInv, Uncounted
  <2>2. /\ failedAuths[a].num \in Nat /\ failedAuths[a].left \in Expired..blockDur
        /\ recent[a] \in [Places -> 0..failedAuthTTL]
        /\ failedAuths[a] \in [num : Nat, left : Expired..blockDur]
    BY DEF LimiterInv
  <2>3. /\ failedAuths'[a].num = failedAuths[a].num
        /\ failedAuths[a].num = 0 => failedAuths'[a].left = 0
        /\ failedAuths[a].num > 0 /\ failedAuths[a].left > -1 =>
             failedAuths'[a].left = failedAuths[a].left - 1
        /\ failedAuths[a].num > 0 /\ failedAuths[a].left = -1 => failedAuths'[a].left = -1
    BY <1>1, <2>1, <2>2 DEF Older, Counted, NoneCounted, NoEntry
  <2>4. ASSUME NEW k \in Places
        PROVE  /\ recent[a][k] \in 0..failedAuthTTL
               /\ recent[a][k] < failedAuthTTL => recent'[a][k] = recent[a][k] + 1
               /\ Forgotten(a, k) => Forgotten(a, k)'
    BY <1>1, <2>2, LimiterAssumption DEF Forgotten
  <2>5. NoneCounted(a)'
    BY <2>1, <2>3, <2>4 DEF Counted, NoneCounted
  <2>6. ASSUME NEW k \in Places, NEW m \in Int, failedAuths[a].num > 0,
               AtLeast(a, k, m - failedAuths[a].left), m >= failedAuthTTL
        PROVE  AtLeast(a, k, m - failedAuths[a].left)'
    BY <2>2, <2>3, <2>4, <2>6, LimiterAssumption DEF AtLeast, Forgotten
  <2>7. SomeCounted(a)'
    <3> SUFFICES ASSUME failedAuths[a].num > 0, failedAuths[a].num < maxAttempts
                 PROVE  SomeCounted(a)'
      BY <2>2, <2>3 DEF SomeCounted
    <3>1. failedAuths'[a].left <= failedAuthTTL
      BY <2>1, <2>2, <2>3, LimiterAssumption DEF Counted, SomeCounted
    <3>2. \A k \in Places : k >= failedAuths[a].num + Uncounted(a) =>
            AtLeast(a, k, failedAuthTTL - failedAuths[a].left)'
      BY <2>1, <2>6, LimiterAssumption DEF Counted, SomeCounted
    <3> QED BY <2>1, <2>3, <2>4, <3>1, <3>2 DEF Counted, SomeCounted
  <2>8. Blocking(a)'
    <3> SUFFICES ASSUME failedAuths[a].num >= maxAttempts
                 PROVE  Blocking(a)'
      BY <2>2, <2>3 DEF Blocking
    <3>1. \A k \in Places : k > Uncounted(a) => AtLeast(a, k, blockDur - failedAuths[a].left)'
      BY <2>1, <2>2, <2>6, LimiterAssumption DEF Counted, Blocking
    <3>2. failedAuths[a].left <= 0 => failedAuths'[a].left <= 0
      BY <2>2, <2>3, LimiterAssumption
    <3> QED BY <1>1, <2>1, <2>3, <2>4, <3>1, <3>2, PlacesOK DEF Counted, Blocking
  <2> QED BY <2>5, <2>7, <2>8 DEF Counted
<1> QED BY <1>2, <1>3 DEF WindowInv

\* However the failures of an address are spread over the entries of the cache,
\* and however long a request waits between its steps, no more than MaxFailures
\* passwords of one address fail within failedAuthTTL without a success.
THEOREM FailuresAreFew == Spec => []FailuresBounded
<1>1. Init => WindowInv
  BY WindowInit
<1>2. LimiterInv /\ WindowInv /\ [Next]_vars => WindowInv'
  <2> SUFFICES ASSUME LimiterInv, WindowInv, [Next]_vars PROVE WindowInv'
    OBVIOUS
  <2>1. CASE Tick
    BY <2>1, TickWindow
  <2>2. CASE \E p \in Procs : Handle(p) \/ \E a \in Addrs : Ensure(p, a)
    BY <2>2, EnsureWindow, CheckWindow, FindUserWindow, IncWindow, RemoveWindow DEF Handle
  <2>3. CASE UNCHANGED vars
    BY <2>3 DEF WindowInv, Counted, NoneCounted, SomeCounted, Blocking, Succeeded, Forgotten,
                AtLeast, Uncounted, vars
  <2> QED BY <2>1, <2>2, <2>3 DEF Next
<1>3. LimiterInv /\ WindowInv => FailuresBounded
  BY WindowBounds
<1> QED BY <1>1, <1>2, <1>3, LimiterInvariant, PTL DEF Spec
=============================================================================
