----------------------------- MODULE SessionLife ----------------------------
(***************************************************************************)
(* What the sessions of the DNS filter promise to whoever holds a token,   *)
(* without the map, the file, the lock, the clock and the requests that    *)
(* AuthSessions has.  A token is closed for good once its logout was       *)
(* answered or it has expired; only a kill during a logout, before the     *)
(* answer, gives a session back, and only a token that a failed            *)
(* transaction was about may do anything else.                             *)
(***************************************************************************)
CONSTANT Tokens

VARIABLES
  life,         \* the stage of every token
  logouts       \* tokens of logouts that are under way

Stages == {"new", "opening", "open", "closing", "closed", "unknown"}

Init == life = [t \in Tokens |-> "new"] /\ logouts = {}

Become(t, s) == life' = [life EXCEPT ![t] = s]

Login(t) == life[t] = "new" /\ Become(t, "opening") /\ UNCHANGED logouts

LoggedIn(t) == life[t] = "opening" /\ Become(t, "open") /\ UNCHANGED logouts

Expire(t) == life[t] = "open" /\ Become(t, "closed") /\ UNCHANGED logouts

\* Other logouts of the same token may be under way.
Logout(t) ==
  /\ \/ life[t] = "open" /\ Become(t, "closing")
     \/ life[t] \in {"closing", "closed", "unknown"} /\ UNCHANGED life
  /\ logouts' = logouts \cup {t}

LoggedOut(t) ==
  /\ t \in logouts
  /\ \/ life[t] = "closing" /\ life' \in {[life EXCEPT ![t] = s] : s \in {"closed", "unknown"}}
     \/ life[t] \in {"closed", "unknown"} /\ UNCHANGED life
  /\ logouts' \in {logouts, logouts \ {t}}

\* A transaction of a login or of a check fails.
Fail(t) == life[t] \in {"opening", "open"} /\ Become(t, "unknown") /\ UNCHANGED logouts

\* What a kill and a restart make of a token: an open one is open, expired or
\* lost, an unanswered logout may be undone.
AfterKill(s) ==
  CASE s = "opening" -> {"closed"}
    [] s \in {"open", "closing"} -> {"open", "closed", "unknown"}
    [] OTHER -> {s}

Kill ==
  /\ life' \in [Tokens -> Stages]
  /\ \A t \in Tokens : life'[t] \in AfterKill(life[t])
  /\ logouts' = {}

Next ==
  \/ \E t \in Tokens : \/ Login(t) \/ LoggedIn(t) \/ Expire(t)
                       \/ Logout(t) \/ LoggedOut(t) \/ Fail(t)
  \/ Kill

Spec == Init /\ [][Next]_<<life, logouts>>
=============================================================================
