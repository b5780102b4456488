---------------------------- MODULE AuthSessions ----------------------------
(***************************************************************************)
(* The web sessions of the DNS filter (internal/home/auth.go): the map     *)
(* Auth.sessions in memory, the bucket "sessions-2" of sessions.db, and    *)
(* the handlers that create, check, refresh and remove sessions.           *)
(*                                                                         *)
(* Auth.lock protects the map; checkSession holds it for its database      *)
(* transaction too, addSession and removeSession let it go before theirs.  *)
(* A transaction is atomic and may fail, which is only logged.  Requests   *)
(* are processes; a step is a critical section or a transaction, and the   *)
(* process may be killed and started again between any two of them.        *)
(***************************************************************************)
EXTENDS Integers

CONSTANTS
  Procs,        \* requests that can be under way at the same time
  Tokens,       \* the random tokens newSessionToken can return
  sessionTTL,   \* session_ttl of the configuration, in seconds
  Day,          \* 24 * 60 * 60
  Width,        \* expire is a uint32: 2^32
  MaxNow        \* the clock is advanced up to here

ASSUME SessionsAssumption ==
  /\ sessionTTL \in Nat
  /\ Day \in Nat \ {0}
  /\ Width \in Nat \ {0}
  /\ MaxNow \in Nat

VARIABLES
  now,          \* the clock, in seconds
  sessions,     \* Auth.sessions: the time a token expires, or NoSession
  db,           \* the same of the sessions stored in sessions.db
  pc, tok, clock,   \* of every request: where it is, its token, the time it read
  issued,       \* tokens that were generated
  cookies,      \* tokens that a login has answered
  gone,         \* tokens whose logout was answered
  used,         \* the time the last check that accepted a token had read
  latest,       \* the latest of those times
  failed        \* tokens that a failed transaction was about

request == <<pc, tok, clock>>
ghosts == <<issued, cookies, gone, used, latest>>
vars == <<now, sessions, db, failed, request, ghosts>>

NoSession == -1
NoToken == "none"
Labels == {"idle", "add", "store", "check", "remove", "removeFromFile"}

TypeOK ==
  /\ now \in 0..MaxNow
  /\ sessions \in [Tokens -> (0..(Width - 1)) \cup {NoSession}]
  /\ db \in [Tokens -> (0..(Width - 1)) \cup {NoSession}]
  /\ pc \in [Procs -> Labels]
  /\ tok \in [Procs -> Tokens \cup {NoToken}]
  /\ clock \in [Procs -> 0..MaxNow]
  /\ issued \in SUBSET Tokens
  /\ cookies \in SUBSET issued
  /\ gone \in SUBSET cookies
  /\ used \in [Tokens -> 0..MaxNow]
  /\ latest \in [Tokens -> 0..MaxNow]
  /\ failed \in SUBSET Tokens

Init ==
  /\ now = 0
  /\ sessions = [t \in Tokens |-> NoSession]
  /\ db = [t \in Tokens |-> NoSession]
  /\ pc = [p \in Procs |-> "idle"]
  /\ tok = [p \in Procs |-> NoToken]
  /\ clock = [p \in Procs |-> 0]
  /\ issued = {}
  /\ cookies = {}
  /\ gone = {}
  /\ used = [t \in Tokens |-> 0]
  /\ latest = [t \in Tokens |-> 0]
  /\ failed = {}

-----------------------------------------------------------------------------
Goto(p, label) == pc' = [pc EXCEPT ![p] = label]

Answer(p) ==
  /\ Goto(p, "idle")
  /\ tok' = [tok EXCEPT ![p] = NoToken]
  /\ clock' = [clock EXCEPT ![p] = 0]

\* The time a session that is used at time t is given: uint32 arithmetic,
\* which the mutated form leaves out.
ExpireUnbounded(t) == t + sessionTTL

Expire(t) == (t + sessionTTL) % Width

\* A transaction that is to change the bucket to d commits or fails.
Transaction(d) ==
  \/ db' = d /\ UNCHANGED failed
  \/ db' = db /\ failed' = failed \cup {t \in Tokens : d[t] # db[t]}

\* The token of p is accepted at the time p has read.
Used(p) ==
  /\ used' = [used EXCEPT ![tok[p]] = clock[p]]
  /\ latest' = [latest EXCEPT ![tok[p]] = IF clock[p] > @ THEN clock[p] ELSE @]

\* newCookie: the password was right, a new token is drawn, the time is read.
NewCookie(p, t) ==
  /\ pc[p] = "idle"
  /\ t \notin issued
  /\ issued' = issued \cup {t}
  /\ tok' = [tok EXCEPT ![p] = t]
  /\ clock' = [clock EXCEPT ![p] = now]
  /\ Goto(p, "add")
  /\ UNCHANGED <<now, sessions, db, failed, cookies, gone, used, latest>>

\* addSession: the map first ...
AddSession(p) ==
  /\ pc[p] = "add"
  /\ sessions' = [sessions EXCEPT ![tok[p]] = Expire(clock[p])]
  /\ Used(p)
  /\ Goto(p, "store")
  /\ UNCHANGED <<now, db, failed, tok, clock, issued, cookies, gone>>

\* ... then storeSession, and the cookie is answered.
StoreSession(p) ==
  /\ pc[p] = "store"
  /\ Transaction([db EXCEPT ![tok[p]] = sessions[tok[p]]])
  /\ cookies' = cookies \cup {tok[p]}
  /\ Answer(p)
  /\ UNCHANGED <<now, sessions, issued, gone, used, latest>>

-----------------------------------------------------------------------------
\* A request with a cookie: checkSession reads the time, then waits for the lock.
Request(p, t) ==
  /\ pc[p] = "idle"
  /\ t \in cookies
  /\ tok' = [tok EXCEPT ![p] = t]
  /\ clock' = [clock EXCEPT ![p] = now]
  /\ Goto(p, "check")
  /\ UNCHANGED <<now, sessions, db, failed, ghosts>>

\* The mutated form looks into the file as well.
NotFoundLooksInFile(p) ==
  /\ sessions[tok[p]] = NoSession
  /\ sessions' = [sessions EXCEPT ![tok[p]] = db[tok[p]]]
  /\ Answer(p)
  /\ UNCHANGED <<db, failed, used, latest>>

NotFound(p) ==
  /\ sessions[tok[p]] = NoSession
  /\ Answer(p)
  /\ UNCHANGED <<sessions, db, failed, used, latest>>

SessionExpired(p) ==
  /\ sessions[tok[p]] # NoSession
  /\ sessions[tok[p]] <= clock[p]
  /\ sessions' = [sessions EXCEPT ![tok[p]] = NoSession]
  /\ Transaction([db EXCEPT ![tok[p]] = NoSession])
  /\ Answer(p)
  /\ UNCHANGED <<used, latest>>

\* The time a session that expires at e is given by a check at time t: it is
\* renewed once a day.  The mutated form adds to the old time.
RefreshedOnTop(e, t) ==
  IF e \div Day # Expire(t) \div Day THEN (e + sessionTTL) % Width ELSE e

Refreshed(e, t) == IF e \div Day # Expire(t) \div Day THEN Expire(t) ELSE e

\* The request is served; when it is GET /control/logout it goes on below.
\* The session is stored when its time changed.  The mutated form only
\* changes the map.
SessionInMapOK(p) ==
  /\ clock[p] < sessions[tok[p]]
  /\ sessions' = [sessions EXCEPT ![tok[p]] = Refreshed(@, clock[p])]
  /\ Used(p)
  /\ Answer(p) \/ (Goto(p, "remove") /\ UNCHANGED <<tok, clock>>)
  /\ UNCHANGED <<db, failed>>

SessionOK(p) ==
  /\ clock[p] < sessions[tok[p]]
  /\ LET e == Refreshed(sessions[tok[p]], clock[p])
     IN  /\ sessions' = [sessions EXCEPT ![tok[p]] = e]
         /\ IF e # sessions[tok[p]]
            THEN Transaction([db EXCEPT ![tok[p]] = e]) ELSE UNCHANGED <<db, failed>>
  /\ Used(p)
  /\ Answer(p) \/ (Goto(p, "remove") /\ UNCHANGED <<tok, clock>>)

CheckSession(p) ==
  /\ pc[p] = "check"
  /\ NotFound(p) \/ SessionExpired(p) \/ SessionOK(p)
  /\ UNCHANGED <<now, issued, cookies, gone>>

-----------------------------------------------------------------------------
\* removeSession: the map first, then the file, and the logout is answered.
\* The mutated form forgets the map.
RemoveOnlyFromFile(p) ==
  /\ pc[p] = "remove"
  /\ Transaction([db EXCEPT ![tok[p]] = NoSession])
  /\ Goto(p, "removeFromFile")
  /\ UNCHANGED <<now, sessions, tok, clock, ghosts>>

RemoveSession(p) ==
  /\ pc[p] = "remove"
  /\ sessions' = [sessions EXCEPT ![tok[p]] = NoSession]
  /\ Goto(p, "removeFromFile")
  /\ UNCHANGED <<now, db, failed, tok, clock, ghosts>>

RemoveSessionFromFile(p) ==
  /\ pc[p] = "removeFromFile"
  /\ Transaction([db EXCEPT ![tok[p]] = NoSession])
  /\ gone' = gone \cup {tok[p]}
  /\ Answer(p)
  /\ UNCHANGED <<now, sessions, issued, cookies, used, latest>>

-----------------------------------------------------------------------------
\* The process is killed and started again.  loadSessions reads the bucket,
\* without the sessions that have expired, and deletes those from it; when its
\* transaction cannot begin, it loads nothing.
Loaded == [t \in Tokens |-> IF db[t] > now THEN db[t] ELSE NoSession]

Restart ==
  /\ \/ sessions' = Loaded /\ Transaction(Loaded)
     \/ /\ sessions' = [t \in Tokens |-> NoSession]
        /\ failed' = failed \cup {t \in Tokens : db[t] # NoSession}
        /\ UNCHANGED db
  /\ pc' = [p \in Procs |-> "idle"]
  /\ tok' = [p \in Procs |-> NoToken]
  /\ clock' = [p \in Procs |-> 0]
  /\ UNCHANGED <<now, ghosts>>

Tick ==
  /\ now < MaxNow
  /\ now' = now + 1
  /\ UNCHANGED <<sessions, db, failed, request, ghosts>>

Serve(p) ==
  \/ AddSession(p) \/ StoreSession(p) \/ CheckSession(p)
  \/ RemoveSession(p) \/ RemoveSessionFromFile(p)

Next ==
  \/ \E p \in Procs : Serve(p) \/ \E t \in Tokens : NewCookie(p, t) \/ Request(p, t)
  \/ Restart
  \/ Tick

Spec == Init /\ [][Next]_vars

-----------------------------------------------------------------------------
\* removeSession: once a logout is answered the token opens no page, not even
\* after a restart, whatever other requests with the same cookie were under
\* way, unless one of the token's own transactions failed.
LogoutIsFinal ==
  \A t \in gone \ failed : sessions[t] = NoSession /\ db[t] = NoSession

\* Between requests that create or remove it, a session in memory is the one
\* in the file: killing the process logs nobody out and nobody in.
Moving(t) == \E p \in Procs : tok[p] = t /\ pc[p] \in {"add", "store", "removeFromFile"}

RestartKeepsSessions ==
  \A t \in cookies \ failed : ~Moving(t) => sessions[t] = db[t]

\* "An active session is automatically refreshed once a day": a session lasts
\* its time from the last check that accepted it, give or take a day, even
\* when checks that read the clock early get the lock late.
ExpiryTracksUse ==
  \A t \in Tokens \ failed :
    sessions[t] # NoSession /\ used[t] + sessionTTL < Width =>
      /\ used[t] + sessionTTL < sessions[t] + Day
      /\ sessions[t] < used[t] + sessionTTL + Day

\* Whatever transactions fail and whenever the process is killed, no copy of a
\* session outlives its time after the last use: an idle session ends.
IdleSessionsEnd ==
  \A t \in Tokens : /\ sessions[t] <= latest[t] + sessionTTL
                    /\ db[t] <= latest[t] + sessionTTL

-----------------------------------------------------------------------------
(* The life of a token, as its holder sees it. *)

Opening(t) == \E p \in Procs : pc[p] \in {"add", "store"} /\ tok[p] = t

Stage(t) ==
  IF t \in failed THEN "unknown"
  ELSE IF t \notin issued THEN "new"
  ELSE IF t \notin cookies THEN IF Opening(t) THEN "opening" ELSE "closed"
  ELSE IF sessions[t] # NoSession THEN "open"
  ELSE IF db[t] # NoSession THEN "closing" ELSE "closed"

Lives == [t \in Tokens |-> Stage(t)]
Logouts == {t \in Tokens : \E p \in Procs : pc[p] = "removeFromFile" /\ tok[p] = t}

Life == INSTANCE SessionLife WITH life <- Lives, logouts <- Logouts

\* auth.go implements the life of a token: checks that wait for the lock while
\* another request logs out never reopen a session, the map and the file are
\* never seen to disagree, and a token is closed for good once its logout is
\* answered or it has expired.
ImplementsLife == Life!Spec
=============================================================================
