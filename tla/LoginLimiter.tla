---------------------------- MODULE LoginLimiter ----------------------------
(***************************************************************************)
(* Logging in to the DNS filter's web interface: handleLogin, newCookie    *)
(* and the authRateLimiter that blocks an address after too many failed    *)
(* passwords (internal/home/authhttp.go, authratelimiter.go).              *)
(*                                                                         *)
(* handleLogin runs inside ensure(), which holds the lock controlLock for  *)
(* every POST; the limiter has a lock of its own, taken anew by check, inc *)
(* and remove.  Requests are processes; a step is a critical section of    *)
(* the limiter or the password check between two of them, and time passes  *)
(* between any two steps.                                                  *)
(*                                                                         *)
(* Passwords reach findUser on another way too: basic authentication       *)
(* (authhttp.go:255-257) checks one with every request and never asks the  *)
(* limiter.  It is not modelled; what is said here of the passwords of an  *)
(* address is about those sent to handleLogin.                             *)
(*                                                                         *)
(* Times are relative to now: the entry of an address has the time left    *)
(* until it expires, and now.After(until) is left < 0.                     *)
(***************************************************************************)
EXTENDS Integers

CONSTANTS
  Procs,            \* login requests that can be under way at the same time
  Addrs,            \* the remote addresses they come from
  maxAttempts,      \* AuthAttempts of the configuration
  blockDur,         \* AuthBlockMin of the configuration
  failedAuthTTL,    \* how long a failed attempt stays in the cache
  MaxNum            \* attempts are made while fewer are counted

Free == "free"      \* nobody holds the lock

\* initUsers makes no limiter when either setting is 0; AuthBlockMin counts
\* minutes and failedAuthTTL is one minute.
ASSUME LimiterAssumption ==
  /\ maxAttempts \in Nat \ {0}
  /\ blockDur \in Nat \ {0}
  /\ failedAuthTTL \in Nat \ {0}
  /\ failedAuthTTL <= blockDur
  /\ MaxNum \in Nat
  /\ Free \notin Procs

VARIABLES
  controlLock,      \* the request that holds Context.controlLock, or Free
  failedAuths,      \* the limiter's cache
  pc,               \* where every request is
  addr,             \* the address it comes from
  recent,           \* how long ago each of the last failed passwords of an
                    \* address was checked, newest first, up to failedAuthTTL
  quiet             \* how long an address that was just blocked is to have no
                    \* password checked

vars == <<controlLock, failedAuths, pc, addr, recent, quiet>>

NoEntry == [num |-> 0, left |-> 0]      \* the address is not in the map
Expired == -1                           \* any time in the past

\* At most so many passwords of an address fail within failedAuthTTL; recent
\* has room for one more.
MaxFailures == IF maxAttempts = 1 THEN 1 ELSE 2 * maxAttempts - 2
Places == 1..(MaxFailures + 1)
NoFailures == [k \in Places |-> failedAuthTTL]

Labels == {"idle", "check", "find", "inc", "remove"}

TypeOK ==
  /\ controlLock \in Procs \cup {Free}
  /\ failedAuths \in [Addrs -> [num : Nat, left : Expired..blockDur]]
  /\ pc \in [Procs -> Labels]
  /\ addr \in [Procs -> Addrs]
  /\ recent \in [Addrs -> [Places -> 0..failedAuthTTL]]
  /\ quiet \in [Addrs -> Nat]

Init ==
  /\ controlLock = Free
  /\ failedAuths = [a \in Addrs |-> NoEntry]
  /\ pc = [p \in Procs |-> "idle"]
  /\ addr \in {[p \in Procs |-> a] : a \in Addrs}
  /\ recent = [a \in Addrs |-> NoFailures]
  /\ quiet = [a \in Addrs |-> 0]

-----------------------------------------------------------------------------
Goto(p, label) == pc' = [pc EXCEPT ![p] = label]

\* ensure(): POST /control/login waits for controlLock; the mutated form does not.
EnsureUnlocked(p, a) ==
  /\ pc[p] = "idle"
  /\ failedAuths[a].num < MaxNum
  /\ controlLock' = p
  /\ addr' = [addr EXCEPT ![p] = a]
  /\ Goto(p, "check")
  /\ UNCHANGED <<failedAuths, recent, quiet>>

Ensure(p, a) ==
  /\ pc[p] = "idle"
  /\ controlLock = Free
  /\ failedAuths[a].num < MaxNum
  /\ controlLock' = p
  /\ addr' = [addr EXCEPT ![p] = a]
  /\ Goto(p, "check")
  /\ UNCHANGED <<failedAuths, recent, quiet>>

\* The handler returns and ensure() unlocks.
Return(p) ==
  /\ Goto(p, "idle")
  /\ controlLock' = Free

\* cleanupLocked: the cache without the entries whose time is over.
Cleaned ==
  [a \in Addrs |-> IF failedAuths[a].left < 0 THEN NoEntry ELSE failedAuths[a]]

\* checkLocked: the time left of an address with too many failures.
CheckLocked(e) == IF e.num < maxAttempts THEN 0 ELSE e.left

\* check, and 429 Too Many Requests when the address is blocked.  The mutated
\* form starts the block anew for an address that keeps trying.
CheckRenewing(p) ==
  /\ pc[p] = "check"
  /\ IF CheckLocked(Cleaned[addr[p]]) > 0
     THEN Return(p) /\ failedAuths' = [Cleaned EXCEPT ![addr[p]].left = blockDur]
     ELSE Goto(p, "find") /\ failedAuths' = Cleaned /\ UNCHANGED controlLock
  /\ UNCHANGED <<addr, recent, quiet>>

Check(p) ==
  /\ pc[p] = "check"
  /\ failedAuths' = Cleaned
  /\ IF CheckLocked(Cleaned[addr[p]]) > 0
     THEN Return(p)
     ELSE Goto(p, "find") /\ UNCHANGED controlLock
  /\ UNCHANGED <<addr, recent, quiet>>

\* One more failure, now.
OneMore(r) == [k \in Places |-> IF k = 1 THEN 0 ELSE r[k - 1]]

\* newCookie calls findUser: the password of a login is checked.
FindUser(p, ok) ==
  /\ pc[p] = "find"
  /\ recent' = [recent EXCEPT ![addr[p]] = IF ok THEN NoFailures ELSE OneMore(@)]
  /\ Goto(p, IF ok THEN "remove" ELSE "inc")
  /\ UNCHANGED <<controlLock, failedAuths, addr, quiet>>

\* incLocked: the first failure starts an entry, later ones keep its time, and
\* the one that reaches maxAttempts blocks.  The mutated forms restart the
\* count at every failure, or block from the end of the entry on.
IncLockedAnew(e) ==
  LET num == 1
  IN  [num |-> num, left |-> IF num >= maxAttempts THEN blockDur ELSE failedAuthTTL]

IncLockedFromUntil(e) ==
  LET num == e.num + 1
  IN  [num  |-> num,
       left |-> IF num >= maxAttempts THEN e.left + blockDur
                ELSE IF e = NoEntry THEN failedAuthTTL ELSE e.left]

IncLocked(e) ==
  LET num == e.num + 1
  IN  [num  |-> num,
       left |-> IF num >= maxAttempts THEN blockDur
                ELSE IF e = NoEntry THEN failedAuthTTL ELSE e.left]

\* inc, and 403 Forbidden.
Inc(p) ==
  /\ pc[p] = "inc"
  /\ LET e == IncLocked(failedAuths[addr[p]])
     IN  /\ failedAuths' = [failedAuths EXCEPT ![addr[p]] = e]
         /\ quiet' = [quiet EXCEPT ![addr[p]] = IF e.num >= maxAttempts THEN blockDur ELSE @]
  /\ Return(p)
  /\ UNCHANGED <<addr, recent>>

\* remove; the session is made and the cookie answered (module AuthSessions).
Remove(p) ==
  /\ pc[p] = "remove"
  /\ failedAuths' = [failedAuths EXCEPT ![addr[p]] = NoEntry]
  /\ Return(p)
  /\ UNCHANGED <<addr, recent, quiet>>

\* One unit of time passes.
Older(e) == IF e.left > Expired /\ e # NoEntry THEN [e EXCEPT !.left = @ - 1] ELSE e

Tick ==
  /\ failedAuths' = [a \in Addrs |-> Older(failedAuths[a])]
  /\ recent' = [a \in Addrs |-> [k \in Places |->
       IF recent[a][k] < failedAuthTTL THEN recent[a][k] + 1 ELSE failedAuthTTL]]
  /\ quiet' = [a \in Addrs |-> IF quiet[a] > 0 THEN quiet[a] - 1 ELSE 0]
  /\ UNCHANGED <<controlLock, pc, addr>>

Handle(p) == Check(p) \/ (\E ok \in BOOLEAN : FindUser(p, ok)) \/ Inc(p) \/ Remove(p)

Next ==
  \/ \E p \in Procs : Handle(p) \/ \E a \in Addrs : Ensure(p, a)
  \/ Tick

Spec == Init /\ [][Next]_vars

\* A started handler runs on and time passes.
FairSpec == Spec /\ WF_vars(Tick) /\ \A p \in Procs : WF_vars(Handle(p))

-----------------------------------------------------------------------------
\* "the block of new login attempts after AuthAttempts unsuccessful login
\* attempts": from the failure that blocks an address until AuthBlockMin later
\* no password from it is checked by handleLogin, not even in a request that
\* was already being handled.
BlockHolds ==
  \A p \in Procs : pc[p] \in {"find", "inc", "remove"} => quiet[addr[p]] = 0

\* The cache forgets: an entry lives failedAuthTTL, and a failure counted on an
\* entry that is about to expire is forgotten with it.  Still, within any period
\* of failedAuthTTL and without a success, an address has at most the late
\* failures of one entry and all those of the next: the one before those was
\* earlier.
FailuresBounded == \A a \in Addrs : recent[a][MaxFailures + 1] = failedAuthTTL

Blocked(a) == CheckLocked(failedAuths[a]) > 0

\* A blocked address that keeps trying does not prolong its block, and every
\* request, refused or not, gives controlLock back: however requests come in,
\* every block ends and no handler keeps the others out for good.
BlocksEnd ==
  /\ \A a \in Addrs : Blocked(a) ~> ~Blocked(a)
  /\ \A p \in Procs : (controlLock = p) ~> (controlLock # p)
=============================================================================
