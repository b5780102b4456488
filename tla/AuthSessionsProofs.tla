------------------------- MODULE AuthSessionsProofs -------------------------
(***************************************************************************)
(* What checkSession, addSession and removeSession promise about the map   *)
(* and the file, for any number of requests, tokens, restarts and failed   *)
(* transactions: what is said of a token holds until one of its own        *)
(* transactions fails, and that an idle session ends holds always.         *)
(***************************************************************************)
EXTENDS AuthSessions, TLAPS

Times == (0..(Width - 1)) \cup {NoSession}

\* The part of the type invariant the argument needs.
Types ==
  /\ now \in Nat
  /\ sessions \in [Tokens -> Times]
  /\ db \in [Tokens -> Times]
  /\ pc \in [Procs -> Labels]
  /\ tok \in [Procs -> Tokens \cup {NoToken}]
  /\ clock \in [Procs -> Nat]
  /\ used \in [Tokens -> Nat]
  /\ issued \subseteq Tokens
  /\ failed \subseteq Tokens

\* Every request that is under way has a token, and a login's is nobody else's.
Owners ==
  /\ \A p \in Procs : pc[p] \in {"add", "store"} => tok[p] \in issued \ cookies
  /\ \A p \in Procs :
       pc[p] \in {"check", "remove", "removeFromFile"} => tok[p] \in cookies
  /\ \A p, q \in Procs :
       pc[p] \in {"add", "store"} /\ pc[q] \in {"add", "store"} /\ tok[p] = tok[q] => p = q
  /\ cookies \subseteq issued
  /\ gone \subseteq cookies

\* Where a session can be before its cookie is answered and while it is removed.
Halfway ==
  /\ \A t \in Tokens \ cookies : db[t] = NoSession
  /\ \A p \in Procs : pc[p] = "store" => sessions[tok[p]] # NoSession
  /\ \A t \in Tokens \ cookies :
       sessions[t] # NoSession => \E p \in Procs : pc[p] = "store" /\ tok[p] = t
  /\ \A p \in Procs : pc[p] = "removeFromFile" => sessions[tok[p]] = NoSession

Stored ==
  \A t \in cookies \ failed :
    \/ sessions[t] = db[t]
    \/ \E p \in Procs : pc[p] = "removeFromFile" /\ tok[p] = t

\* The time e of a session is within a day of its time from its last use on.
Tracks(t, e) ==
  e # NoSession /\ used[t] + sessionTTL < Width =>
    used[t] + sessionTTL < e + Day /\ e < used[t] + sessionTTL + Day

Tracking == \A t \in Tokens \ failed : Tracks(t, sessions[t]) /\ Tracks(t, db[t])

SessionsInv == Types /\ Owners /\ Halfway /\ Stored /\ LogoutIsFinal /\ Tracking

USE SessionsAssumption DEF Labels, NoSession, Times

-----------------------------------------------------------------------------
\* Two times on the same day are less than a day apart.
LEMMA SameDay ==
  ASSUME NEW a \in Nat, NEW b \in Nat, a \div Day = b \div Day
  PROVE  a < b + Day
<1>1. a = Day * (a \div Day) + (a % Day) /\ b = Day * (b \div Day) + (b % Day)
  OBVIOUS
<1>2. a % Day \in 0..(Day - 1) /\ b % Day \in 0..(Day - 1)
  OBVIOUS
<1> QED BY <1>1, <1>2

\* A time is a uint32, and the exact sum when that does not overflow.
LEMMA ExpireTime ==
  ASSUME NEW t \in Nat
  PROVE  /\ Expire(t) \in 0..(Width - 1)
         /\ t + sessionTTL < Width => Expire(t) = t + sessionTTL
<1> DEFINE s == t + sessionTTL
<1>1. s \in Nat
  OBVIOUS
<1> HIDE DEF s
<1>2. s % Width \in 0..(Width - 1) /\ (s < Width => s % Width = s)
  BY <1>1
<1> QED BY <1>2 DEF Expire, s

\* A check that accepts a session leaves it with a time that tracks its use.
LEMMA RefreshedTracks ==
  ASSUME NEW e \in 0..(Width - 1), NEW t \in Nat
  PROVE  LET r == Refreshed(e, t)
         IN  /\ r \in 0..(Width - 1)
             /\ t + sessionTTL < Width =>
                  t + sessionTTL < r + Day /\ r < t + sessionTTL + Day
<1>1. Expire(t) \in Nat /\ e \in Nat
  BY ExpireTime
<1>2. CASE e \div Day # Expire(t) \div Day
  BY <1>2, ExpireTime DEF Refreshed
<1>3. CASE e \div Day = Expire(t) \div Day
  <2>1. e < Expire(t) + Day /\ Expire(t) < e + Day
    BY <1>1, <1>3, SameDay
  <2> QED BY <1>3, <2>1, ExpireTime DEF Refreshed
<1> QED BY <1>2, <1>3

-----------------------------------------------------------------------------
\* A transaction about one token leaves the others alone; when it does not
\* commit, that token has failed.
LEMMA TransactionOf ==
  ASSUME Types, NEW t \in Tokens, NEW e \in Times, Transaction([db EXCEPT ![t] = e])
  PROVE  /\ db' \in [Tokens -> Times]
         /\ failed' \subseteq Tokens
         /\ failed \subseteq failed'
         /\ db'[t] = e \/ (db'[t] = db[t] /\ t \in failed')
         /\ \A u \in Tokens : u # t => db'[u] = db[u]
<1> DEFINE d == [db EXCEPT ![t] = e]
<1>1. d \in [Tokens -> Times] /\ d[t] = e /\ \A u \in Tokens : u # t => d[u] = db[u]
  BY DEF Types
<1> HIDE DEF d
<1>2. CASE db' = d /\ failed' = failed
  BY <1>1, <1>2 DEF Types
<1>3. CASE db' = db /\ failed' = failed \cup {u \in Tokens : d[u] # db[u]}
  BY <1>1, <1>3 DEF Types
<1> QED BY <1>2, <1>3 DEF Transaction, d

\* At first there are no sessions and no requests.
LEMMA InitOK == Init => SessionsInv
  BY DEF Init, SessionsInv, Types, Owners, Halfway, Stored, LogoutIsFinal, Tracking, Tracks

\* A fresh token belongs to no other request.
LEMMA NewCookieOK ==
  ASSUME SessionsInv, NEW p \in Procs, NEW t \in Tokens, NewCookie(p, t), now \in Nat
  PROVE  SessionsInv'
<1>1. Types'
  BY DEF SessionsInv, Types, NewCookie, Goto
<1>2. Owners'
  BY DEF SessionsInv, Types, Owners, NewCookie, Goto
<1>3. Halfway'
  BY DEF SessionsInv, Types, Halfway, NewCookie, Goto
<1>4. Stored'
  BY DEF SessionsInv, Types, Stored, NewCookie, Goto
<1>5. LogoutIsFinal' /\ Tracking'
  BY DEF SessionsInv, LogoutIsFinal, Tracking, Tracks, NewCookie
<1> QED BY <1>1, <1>2, <1>3, <1>4, <1>5 DEF SessionsInv

\* addSession puts only a token that nobody else knows into the map.
LEMMA AddSessionOK ==
  ASSUME SessionsInv, NEW p \in Procs, AddSession(p)
  PROVE  SessionsInv'
<1> DEFINE t == tok[p]
           e == Expire(clock[p])
<1>1. t \in Tokens /\ t \notin cookies /\ pc[p] = "add" /\ clock[p] \in Nat
  BY DEF SessionsInv, Types, Owners, AddSession
<1>2. e \in 0..(Width - 1) /\ (clock[p] + sessionTTL < Width => e = clock[p] + sessionTTL)
  BY <1>1, ExpireTime
<1>3. /\ sessions' = [sessions EXCEPT ![t] = e]
      /\ used' = [used EXCEPT ![t] = clock[p]]
      /\ pc' = [pc EXCEPT ![p] = "store"]
      /\ UNCHANGED <<now, db, failed, tok, clock, issued, cookies, gone>>
  BY DEF AddSession, Goto, Used
<1> HIDE DEF e
<1>4. Types'
  BY <1>1, <1>2, <1>3 DEF SessionsInv, Types
<1>5. Owners'
  BY <1>1, <1>3 DEF SessionsInv, Types, Owners
<1>6. Halfway'
  BY <1>1, <1>2, <1>3 DEF SessionsInv, Types, Owners, Halfway
<1>7. Stored'
  BY <1>1, <1>3 DEF SessionsInv, Types, Owners, Stored
<1>8. LogoutIsFinal'
  BY <1>1, <1>3 DEF SessionsInv, Types, Owners, LogoutIsFinal
<1>9. Tracking'
  <2>1. db[t] = NoSession
    BY <1>1 DEF SessionsInv, Halfway
  <2> QED BY <1>1, <1>2, <1>3, <2>1 DEF SessionsInv, Types, Tracking, Tracks
<1> QED BY <1>4, <1>5, <1>6, <1>7, <1>8, <1>9 DEF SessionsInv

\* storeSession writes what the map holds.
LEMMA StoreSessionOK ==
  ASSUME SessionsInv, NEW p \in Procs, StoreSession(p)
  PROVE  SessionsInv'
<1> DEFINE t == tok[p]
<1>1. t \in Tokens /\ t \in issued /\ t \notin cookies /\ pc[p] = "store"
  BY DEF SessionsInv, Types, Owners, StoreSession
<1>2. /\ Transaction([db EXCEPT ![t] = sessions[t]])
      /\ cookies' = cookies \cup {t}
      /\ pc' = [pc EXCEPT ![p] = "idle"]
      /\ tok' = [tok EXCEPT ![p] = NoToken]
      /\ clock' = [clock EXCEPT ![p] = 0]
      /\ UNCHANGED <<now, sessions, issued, gone, used>>
  BY DEF StoreSession, Answer, Goto
<1>a. Types /\ sessions[t] \in Times
  BY <1>1 DEF SessionsInv, Types
<1>b. /\ db' \in [Tokens -> Times]
      /\ failed' \subseteq Tokens
      /\ failed \subseteq failed'
      /\ db'[t] = sessions[t] \/ t \in failed'
      /\ \A u \in Tokens : u # t => db'[u] = db[u]
  BY <1>1, <1>2, <1>a, TransactionOf
<1>3. Types'
  BY <1>1, <1>2, <1>b DEF SessionsInv, Types
<1>4. Owners'
  BY <1>1, <1>2 DEF SessionsInv, Types, Owners
<1>5. Halfway'
  BY <1>1, <1>2, <1>b DEF SessionsInv, Types, Owners, Halfway
<1>6. Stored'
  BY <1>1, <1>2, <1>b DEF SessionsInv, Types, Owners, Stored
<1>7. LogoutIsFinal'
  BY <1>1, <1>2, <1>b DEF SessionsInv, Types, Owners, LogoutIsFinal
<1>8. Tracking'
  BY <1>1, <1>2, <1>b DEF SessionsInv, Types, Tracking, Tracks
<1> QED BY <1>3, <1>4, <1>5, <1>6, <1>7, <1>8 DEF SessionsInv

\* A request brings a token that was answered before.
LEMMA RequestOK ==
  ASSUME SessionsInv, NEW p \in Procs, NEW t \in Tokens, Request(p, t)
  PROVE  SessionsInv'
<1>1. Types'
  BY DEF SessionsInv, Types, Request, Goto, ghosts
<1>2. Owners'
  BY DEF SessionsInv, Types, Owners, Request, Goto, ghosts
<1>3. Halfway'
  BY DEF SessionsInv, Types, Halfway, Request, Goto, ghosts
<1>4. Stored'
  BY DEF SessionsInv, Types, Stored, Request, Goto, ghosts
<1>5. LogoutIsFinal' /\ Tracking'
  BY DEF SessionsInv, LogoutIsFinal, Tracking, Tracks, Request, ghosts
<1> QED BY <1>1, <1>2, <1>3, <1>4, <1>5 DEF SessionsInv

\* checkSession changes the map and the file together, and never adds a token.
LEMMA CheckSessionOK ==
  ASSUME SessionsInv, NEW p \in Procs, CheckSession(p)
  PROVE  SessionsInv'
<1> DEFINE t == tok[p]
<1>1. t \in Tokens /\ t \in cookies /\ pc[p] = "check" /\ clock[p] \in Nat
  BY DEF SessionsInv, Types, Owners, CheckSession
<1>2. UNCHANGED <<now, issued, cookies, gone>>
  BY DEF CheckSession
<1>3. \/ Answer(p)
      \/ pc' = [pc EXCEPT ![p] = "remove"] /\ UNCHANGED <<tok, clock>>
  BY DEF CheckSession, NotFound, SessionExpired, SessionOK, Goto
<1>4. /\ pc' \in [Procs -> Labels]
      /\ tok' \in [Procs -> Tokens \cup {NoToken}]
      /\ clock' \in [Procs -> Nat]
      /\ \A q \in Procs : q # p => pc'[q] = pc[q] /\ tok'[q] = tok[q]
      /\ pc'[p] = "idle" \/ (pc'[p] = "remove" /\ tok'[p] = t)
  BY <1>1, <1>3 DEF SessionsInv, Types, Answer, Goto
<1>5. Owners'
  BY <1>1, <1>2, <1>4 DEF SessionsInv, Types, Owners
<1>6. CASE NotFound(p)
  <2>1. UNCHANGED <<sessions, db, failed, used>>
    BY <1>6 DEF NotFound
  <2>2. Types'
    BY <1>2, <1>4, <2>1 DEF SessionsInv, Types
  <2>3. Halfway'
    BY <1>1, <1>2, <1>4, <2>1 DEF SessionsInv, Halfway
  <2>4. Stored'
    BY <1>1, <1>2, <1>4, <2>1 DEF SessionsInv, Stored
  <2>5. LogoutIsFinal' /\ Tracking'
    BY <1>2, <2>1 DEF SessionsInv, LogoutIsFinal, Tracking, Tracks
  <2> QED BY <1>5, <2>2, <2>3, <2>4, <2>5 DEF SessionsInv
<1>7. ASSUME NEW e \in Times,
             sessions[t] # NoSession,
             sessions' = [sessions EXCEPT ![t] = e],
             db' \in [Tokens -> Times],
             failed' \subseteq Tokens,
             failed \subseteq failed',
             db'[t] = e \/ t \in failed',
             \A u \in Tokens : u # t => db'[u] = db[u],
             used' \in [Tokens -> Nat],
             \A u \in Tokens : u # t => used'[u] = used[u],
             e # NoSession /\ used'[t] + sessionTTL < Width =>
               used'[t] + sessionTTL < e + Day /\ e < used'[t] + sessionTTL + Day
      PROVE  SessionsInv'
  <2>1. Types'
    BY <1>1, <1>2, <1>4, <1>7 DEF SessionsInv, Types
  <2>2. \A q \in Procs : pc[q] = "removeFromFile" => tok[q] # t
    BY <1>7 DEF SessionsInv, Halfway
  <2>3. \A q \in Procs : pc[q] = "store" => tok[q] # t
    BY <1>1 DEF SessionsInv, Owners
  <2>4. Halfway'
    BY <1>1, <1>2, <1>4, <1>7, <2>2, <2>3 DEF SessionsInv, Types, Owners, Halfway
  <2>5. Stored'
    BY <1>1, <1>2, <1>4, <1>7 DEF SessionsInv, Types, Owners, Stored
  <2>6. t \notin gone \/ t \in failed
    BY <1>7 DEF SessionsInv, LogoutIsFinal
  <2>7. LogoutIsFinal'
    BY <1>2, <1>7, <2>6 DEF SessionsInv, Types, Owners, LogoutIsFinal
  <2>8. sessions'[t] = e
    BY <1>1, <1>7 DEF SessionsInv, Types
  <2>9. \A u \in Tokens : u # t => sessions'[u] = sessions[u]
    BY <1>1, <1>7 DEF SessionsInv, Types
  <2>10. Tracking'
    BY <1>7, <2>8, <2>9 DEF SessionsInv, Tracking, Tracks
  <2> QED BY <1>5, <2>1, <2>4, <2>5, <2>7, <2>10 DEF SessionsInv
<1>8. CASE SessionExpired(p)
  <2>1. /\ sessions[t] # NoSession
        /\ sessions' = [sessions EXCEPT ![t] = NoSession]
        /\ Transaction([db EXCEPT ![t] = NoSession])
        /\ used' = used
    BY <1>8 DEF SessionExpired
  <2>2. NoSession \in Times /\ Types
    BY DEF SessionsInv
  <2>4. /\ db' \in [Tokens -> Times]
        /\ failed' \subseteq Tokens
        /\ failed \subseteq failed'
        /\ db'[t] = NoSession \/ t \in failed'
        /\ \A u \in Tokens : u # t => db'[u] = db[u]
    BY <1>1, <2>1, <2>2, TransactionOf
  <2>3. used' \in [Tokens -> Nat]
    BY <2>1 DEF SessionsInv, Types
  <2> QED BY <2>1, <2>2, <2>3, <2>4, <1>7
<1>9. CASE SessionOK(p)
  <2> DEFINE e == Refreshed(sessions[t], clock[p])
  <2>1. clock[p] < sessions[t] /\ sessions[t] \in 0..(Width - 1)
    BY <1>1, <1>9 DEF SessionOK, SessionsInv, Types
  <2>2. sessions[t] = db[t] \/ t \in failed
    BY <1>1, <2>1 DEF SessionsInv, Stored, Halfway
  <2>3. /\ sessions' = [sessions EXCEPT ![t] = e]
        /\ IF e # sessions[t] THEN Transaction([db EXCEPT ![t] = e]) ELSE UNCHANGED <<db, failed>>
        /\ used' = [used EXCEPT ![t] = clock[p]]
    BY <1>9 DEF SessionOK, Used
  <2>4. e \in 0..(Width - 1)
    BY <1>1, <2>1, RefreshedTracks
  <2>5. clock[p] + sessionTTL < Width =>
          clock[p] + sessionTTL < e + Day /\ e < clock[p] + sessionTTL + Day
    BY <1>1, <2>1, RefreshedTracks
  <2> HIDE DEF e
  <2>6. /\ db' \in [Tokens -> Times]
        /\ failed' \subseteq Tokens
        /\ failed \subseteq failed'
        /\ db'[t] = e \/ t \in failed'
        /\ \A u \in Tokens : u # t => db'[u] = db[u]
    <3>1. CASE e # sessions[t]
      <4>1. Types /\ e \in Times /\ Transaction([db EXCEPT ![t] = e])
        BY <2>3, <2>4, <3>1 DEF SessionsInv
      <4> QED BY <1>1, <4>1, TransactionOf
    <3>2. CASE e = sessions[t]
      BY <1>1, <2>2, <2>3, <3>2 DEF SessionsInv, Types
    <3> QED BY <3>1, <3>2
  <2>7. used'[t] = clock[p] /\ used' \in [Tokens -> Nat]
    BY <1>1, <2>3 DEF SessionsInv, Types
  <2>8. \A u \in Tokens : u # t => used'[u] = used[u]
    BY <2>3 DEF SessionsInv, Types
  <2>9. used'[t] + sessionTTL < Width =>
          used'[t] + sessionTTL < e + Day /\ e < used'[t] + sessionTTL + Day
    BY <2>5, <2>7
  <2>10. e \in Times /\ sessions[t] # NoSession
    BY <2>1, <2>4
  <2>11. sessions' = [sessions EXCEPT ![t] = e]
    BY <2>3
  <2> QED BY <1>7, <2>6, <2>7, <2>8, <2>9, <2>10, <2>11
<1> QED BY <1>6, <1>8, <1>9 DEF CheckSession


\* removeSession takes the token from the map; the file still has it.
LEMMA RemoveSessionOK ==
  ASSUME SessionsInv, NEW p \in Procs, RemoveSession(p)
  PROVE  SessionsInv'
<1> DEFINE t == tok[p]
<1>1. t \in Tokens /\ t \in cookies /\ pc[p] = "remove"
  BY DEF SessionsInv, Types, Owners, RemoveSession
<1>2. /\ sessions' = [sessions EXCEPT ![t] = NoSession]
      /\ pc' = [pc EXCEPT ![p] = "removeFromFile"]
      /\ UNCHANGED <<now, db, failed, tok, clock, issued, cookies, gone, used>>
  BY DEF RemoveSession, Goto, ghosts
<1>3. Types'
  BY <1>1, <1>2 DEF SessionsInv, Types
<1>4. Owners'
  BY <1>1, <1>2 DEF SessionsInv, Types, Owners
<1>5. Halfway'
  BY <1>1, <1>2 DEF SessionsInv, Types, Owners, Halfway
<1>6. Stored'
  BY <1>1, <1>2 DEF SessionsInv, Types, Owners, Stored
<1>7. LogoutIsFinal' /\ Tracking'
  BY <1>1, <1>2 DEF SessionsInv, Types, Owners, LogoutIsFinal, Tracking, Tracks
<1> QED BY <1>3, <1>4, <1>5, <1>6, <1>7 DEF SessionsInv

\* The answer of a logout finds the token in neither place.
LEMMA RemoveSessionFromFileOK ==
  ASSUME SessionsInv, NEW p \in Procs, RemoveSessionFromFile(p)
  PROVE  SessionsInv'
<1> DEFINE t == tok[p]
<1>1. t \in Tokens /\ t \in cookies /\ pc[p] = "removeFromFile" /\ sessions[t] = NoSession
  BY DEF SessionsInv, Types, Owners, Halfway, RemoveSessionFromFile
<1>2. /\ Transaction([db EXCEPT ![t] = NoSession])
      /\ gone' = gone \cup {t}
      /\ pc' = [pc EXCEPT ![p] = "idle"]
      /\ tok' = [tok EXCEPT ![p] = NoToken]
      /\ clock' = [clock EXCEPT ![p] = 0]
      /\ UNCHANGED <<now, sessions, issued, cookies, used>>
  BY DEF RemoveSessionFromFile, Answer, Goto
<1>a. Types /\ NoSession \in Times
  BY DEF SessionsInv
<1>b. /\ db' \in [Tokens -> Times]
      /\ failed' \subseteq Tokens
      /\ failed \subseteq failed'
      /\ db'[t] = NoSession \/ t \in failed'
      /\ \A u \in Tokens : u # t => db'[u] = db[u]
  BY <1>1, <1>2, <1>a, TransactionOf
<1>3. Types'
  BY <1>1, <1>2, <1>b DEF SessionsInv, Types
<1>4. Owners'
  BY <1>1, <1>2, <1>b DEF SessionsInv, Types, Owners
<1>5. Halfway'
  BY <1>1, <1>2, <1>b DEF SessionsInv, Types, Owners, Halfway
<1>6. Stored'
  BY <1>1, <1>2, <1>b DEF SessionsInv, Types, Owners, Stored
<1>7. LogoutIsFinal' /\ Tracking'
  BY <1>1, <1>2, <1>b DEF SessionsInv, Types, Owners, LogoutIsFinal, Tracking, Tracks
<1> QED BY <1>3, <1>4, <1>5, <1>6, <1>7 DEF SessionsInv

\* After a restart the map and the file hold the same unexpired sessions.
LEMMA RestartOK ==
  ASSUME SessionsInv, Restart
  PROVE  SessionsInv'
<1> DEFINE None == [t \in Tokens |-> NoSession]
<1>1. /\ pc' = [p \in Procs |-> "idle"]
      /\ tok' = [p \in Procs |-> NoToken]
      /\ clock' = [p \in Procs |-> 0]
      /\ UNCHANGED <<now, issued, cookies, gone, used>>
  BY DEF Restart, ghosts
<1>2. Loaded \in [Tokens -> Times] /\ None \in [Tokens -> Times]
  BY DEF SessionsInv, Types, Loaded
<1>3. \A t \in Tokens : Loaded[t] = db[t] \/ Loaded[t] = NoSession
  BY DEF Loaded
<1>4. /\ sessions' \in {Loaded, None}
      /\ db' \in {Loaded, db}
      /\ failed \subseteq failed' /\ failed' \subseteq Tokens
  BY DEF Restart, Transaction, SessionsInv, Types
<1>5. \A t \in Tokens \ failed' : sessions'[t] = db'[t]
  <2>1. CASE sessions' = Loaded /\ db' = Loaded
    BY <2>1
  <2>2. CASE sessions' = Loaded /\ db' = db /\ failed' = failed \cup {t \in Tokens : Loaded[t] # db[t]}
    BY <2>2
  <2>3. CASE sessions' = None /\ db' = db /\ failed' = failed \cup {t \in Tokens : db[t] # NoSession}
    BY <2>3
  <2> QED BY <2>1, <2>2, <2>3 DEF Restart, Transaction
<1>6. \A t \in Tokens : /\ sessions'[t] = db[t] \/ sessions'[t] = NoSession
                        /\ db'[t] = db[t] \/ db'[t] = NoSession
  BY <1>3, <1>4
<1>7. Types'
  BY <1>1, <1>2, <1>4 DEF SessionsInv, Types
<1>8. Owners'
  BY <1>1 DEF SessionsInv, Owners
<1>9. Stored'
  BY <1>1, <1>5 DEF SessionsInv, Types, Owners, Stored
<1>10. Halfway'
  BY <1>1, <1>6 DEF SessionsInv, Halfway
<1>11. LogoutIsFinal'
  BY <1>1, <1>4, <1>6 DEF SessionsInv, Types, Owners, LogoutIsFinal
<1>12. Tracking'
  BY <1>1, <1>4, <1>6 DEF SessionsInv, Tracking, Tracks
<1> QED BY <1>7, <1>8, <1>9, <1>10, <1>11, <1>12 DEF SessionsInv

\* Time does not change what is stored.
LEMMA TickOK == SessionsInv /\ Tick => SessionsInv'
  BY DEF SessionsInv, Types, Owners, Halfway, Stored, LogoutIsFinal, Tracking, Tracks,
         Tick, request, ghosts

\* The inductive invariant holds in every state.
THEOREM SessionsInvariant == Spec => []SessionsInv
<1>1. Init => SessionsInv
  BY InitOK
<1>2. SessionsInv /\ [Next]_vars => SessionsInv'
  <2> SUFFICES ASSUME SessionsInv, [Next]_vars PROVE SessionsInv'
    OBVIOUS
  <2>1. now \in Nat
    BY DEF SessionsInv, Types
  <2>2. CASE \E p \in Procs : Serve(p)
    BY <2>2, AddSessionOK, StoreSessionOK, CheckSessionOK, RemoveSessionOK,
       RemoveSessionFromFileOK DEF Serve
  <2>3. CASE \E p \in Procs, t \in Tokens : NewCookie(p, t) \/ Request(p, t)
    BY <2>1, <2>3, NewCookieOK, RequestOK
  <2>4. CASE Restart
    BY <2>4, RestartOK
  <2>5. CASE Tick
    BY <2>5, TickOK
  <2>6. CASE UNCHANGED vars
    BY <2>6 DEF SessionsInv, Types, Owners, Halfway, Stored, LogoutIsFinal, Tracking,
                Tracks, vars, request, ghosts
  <2> QED BY <2>2, <2>3, <2>4, <2>5, <2>6 DEF Next
<1> QED BY <1>1, <1>2, PTL DEF Spec

\* removeSession: an answered logout is final, over any number of restarts and
\* with any number of requests under way.
THEOREM LogoutFinal == Spec => []LogoutIsFinal
<1>1. SessionsInv => LogoutIsFinal
  BY DEF SessionsInv
<1> QED BY <1>1, SessionsInvariant, PTL

\* addSession, checkSession and loadSessions: the map and the file agree on
\* every session that no request is creating or removing.
THEOREM MapEqualsFile == Spec => []RestartKeepsSessions
<1>1. SessionsInv => RestartKeepsSessions
  BY DEF SessionsInv, Stored, RestartKeepsSessions, Moving
<1> QED BY <1>1, SessionsInvariant, PTL

\* checkSession: a session ends within a day of its time after its last use,
\* for every session_ttl that does not overflow.
THEOREM ExpiryCorrect == Spec => []ExpiryTracksUse
<1>1. SessionsInv => ExpiryTracksUse
  BY DEF SessionsInv, Tracking, Tracks, ExpiryTracksUse
<1> QED BY <1>1, SessionsInvariant, PTL

-----------------------------------------------------------------------------
(* Idle sessions end, even when transactions fail.                         *)

IdleTypes ==
  /\ now \in Nat
  /\ sessions \in [Tokens -> Times]
  /\ db \in [Tokens -> Times]
  /\ clock \in [Procs -> Nat]
  /\ latest \in [Tokens -> Nat]
  /\ tok \in [Procs -> Tokens \cup {NoToken}]
  /\ \A p \in Procs : pc[p] # "idle" => tok[p] \in Tokens
  /\ pc \in [Procs -> Labels]

IdleInv == IdleTypes /\ IdleSessionsEnd

\* uint32 arithmetic never makes a time later.
LEMMA ExpireBound ==
  ASSUME NEW t \in Nat
  PROVE  Expire(t) \in 0..(Width - 1) /\ Expire(t) <= t + sessionTTL
<1> DEFINE s == t + sessionTTL
<1>1. s \in Nat
  OBVIOUS
<1> HIDE DEF s
<1>2. s % Width \in 0..(Width - 1) /\ s % Width <= s
  BY <1>1
<1> QED BY <1>2 DEF Expire, s

\* What a request that goes on or is answered leaves of its state.
LEMMA RequestTypes ==
  ASSUME IdleTypes, NEW p \in Procs, tok[p] \in Tokens,
         Answer(p) \/ \E l \in Labels : Goto(p, l) /\ UNCHANGED <<tok, clock>>
  PROVE  /\ clock' \in [Procs -> Nat]
         /\ tok' \in [Procs -> Tokens \cup {NoToken}]
         /\ pc' \in [Procs -> Labels]
         /\ \A q \in Procs : pc'[q] # "idle" => tok'[q] \in Tokens
  BY DEF IdleTypes, Answer, Goto

\* Every step keeps both copies of every session within its time.
LEMMA IdleStep == IdleInv /\ [Next]_vars => IdleInv'
<1> SUFFICES ASSUME IdleInv, [Next]_vars PROVE IdleInv'
  OBVIOUS
<1>1. ASSUME NEW p \in Procs, NEW t \in Tokens, NewCookie(p, t) \/ Request(p, t)
      PROVE  IdleInv'
  <2>1. /\ tok' = [tok EXCEPT ![p] = t]
        /\ clock' = [clock EXCEPT ![p] = now]
        /\ \E l \in Labels : pc' = [pc EXCEPT ![p] = l]
        /\ UNCHANGED <<now, sessions, db, latest>>
    BY <1>1 DEF NewCookie, Request, Goto, ghosts
  <2> QED BY <2>1 DEF IdleInv, IdleTypes, IdleSessionsEnd
<1>2. ASSUME NEW p \in Procs, AddSession(p) PROVE IdleInv'
  <2> DEFINE e == Expire(clock[p])
  <2>1. tok[p] \in Tokens /\ clock[p] \in Nat
    BY <1>2 DEF AddSession, IdleInv, IdleTypes
  <2>2. e \in 0..(Width - 1) /\ e <= clock[p] + sessionTTL
    BY <2>1, ExpireBound
  <2>3. /\ sessions' = [sessions EXCEPT ![tok[p]] = e]
        /\ latest' = [latest EXCEPT ![tok[p]] =
                        IF clock[p] > latest[tok[p]] THEN clock[p] ELSE latest[tok[p]]]
        /\ UNCHANGED <<now, db>>
    BY <1>2 DEF AddSession, Used
  <2> HIDE DEF e
  <2>4. IdleTypes'
    BY <1>2, <2>1, <2>2, <2>3, RequestTypes DEF AddSession, IdleInv, IdleTypes
  <2>5. IdleSessionsEnd'
    BY <2>1, <2>2, <2>3 DEF IdleInv, IdleTypes, IdleSessionsEnd
  <2> QED BY <2>4, <2>5 DEF IdleInv
<1>3. ASSUME NEW p \in Procs, StoreSession(p) PROVE IdleInv'
  <2>1. tok[p] \in Tokens
    BY <1>3 DEF StoreSession, IdleInv, IdleTypes
  <2>2. db' = db \/ db' = [db EXCEPT ![tok[p]] = sessions[tok[p]]]
    BY <1>3 DEF StoreSession, Transaction
  <2>3. UNCHANGED <<now, sessions, latest>> /\ Answer(p)
    BY <1>3 DEF StoreSession
  <2>4. IdleTypes'
    BY <2>1, <2>2, <2>3, RequestTypes DEF IdleInv, IdleTypes
  <2>5. IdleSessionsEnd'
    BY <2>1, <2>2, <2>3 DEF IdleInv, IdleTypes, IdleSessionsEnd
  <2> QED BY <2>4, <2>5 DEF IdleInv
<1>4. ASSUME NEW p \in Procs, CheckSession(p) PROVE IdleInv'
  <2>1. tok[p] \in Tokens /\ clock[p] \in Nat /\ now' = now
    BY <1>4 DEF CheckSession, IdleInv, IdleTypes
  <2>2. Answer(p) \/ \E l \in Labels : Goto(p, l) /\ UNCHANGED <<tok, clock>>
    BY <1>4 DEF CheckSession, NotFound, SessionExpired, SessionOK
  <2>3. CASE NotFound(p) \/ SessionExpired(p)
    <3>1. /\ sessions' = sessions \/ sessions' = [sessions EXCEPT ![tok[p]] = NoSession]
          /\ db' = db \/ db' = [db EXCEPT ![tok[p]] = NoSession]
          /\ latest' = latest
      BY <2>3 DEF NotFound, SessionExpired, Transaction
    <3>2. IdleTypes'
      BY <2>1, <2>2, <3>1, RequestTypes DEF IdleInv, IdleTypes
    <3>3. IdleSessionsEnd'
      BY <2>1, <3>1 DEF IdleInv, IdleTypes, IdleSessionsEnd
    <3> QED BY <3>2, <3>3 DEF IdleInv
  <2>4. CASE SessionOK(p)
    <3> DEFINE e == Refreshed(sessions[tok[p]], clock[p])
    <3>1. sessions[tok[p]] \in 0..(Width - 1)
      BY <2>1, <2>4 DEF SessionOK, IdleInv, IdleTypes
    <3>2. /\ e \in 0..(Width - 1)
          /\ e = sessions[tok[p]] \/ e <= clock[p] + sessionTTL
      BY <2>1, <3>1, ExpireBound DEF Refreshed
    <3>3. /\ sessions' = [sessions EXCEPT ![tok[p]] = e]
          /\ db' = db \/ (e # sessions[tok[p]] /\ db' = [db EXCEPT ![tok[p]] = e])
          /\ latest' = [latest EXCEPT ![tok[p]] =
                          IF clock[p] > latest[tok[p]] THEN clock[p] ELSE latest[tok[p]]]
      BY <2>4 DEF SessionOK, Transaction, Used
    <3> HIDE DEF e
    <3>4. IdleTypes'
      BY <2>1, <2>2, <3>2, <3>3, RequestTypes DEF IdleInv, IdleTypes
    <3>5. IdleSessionsEnd'
      BY <2>1, <3>1, <3>2, <3>3 DEF IdleInv, IdleTypes, IdleSessionsEnd
    <3> QED BY <3>4, <3>5 DEF IdleInv
  <2> QED BY <1>4, <2>3, <2>4 DEF CheckSession
<1>5. ASSUME NEW p \in Procs, RemoveSession(p) \/ RemoveSessionFromFile(p) PROVE IdleInv'
  <2>1. tok[p] \in Tokens
    BY <1>5 DEF RemoveSession, RemoveSessionFromFile, IdleInv, IdleTypes
  <2>2. Answer(p) \/ \E l \in Labels : Goto(p, l) /\ UNCHANGED <<tok, clock>>
    BY <1>5 DEF RemoveSession, RemoveSessionFromFile
  <2>3. /\ sessions' = sessions \/ sessions' = [sessions EXCEPT ![tok[p]] = NoSession]
        /\ db' = db \/ db' = [db EXCEPT ![tok[p]] = NoSession]
        /\ latest' = latest /\ now' = now
    BY <1>5 DEF RemoveSession, RemoveSessionFromFile, Transaction, ghosts
  <2>4. IdleTypes'
    BY <2>1, <2>2, <2>3, RequestTypes DEF IdleInv, IdleTypes
  <2>5. IdleSessionsEnd'
    BY <2>1, <2>3 DEF IdleInv, IdleTypes, IdleSessionsEnd
  <2> QED BY <2>4, <2>5 DEF IdleInv
<1>6. CASE Restart
  <2> DEFINE None == [t \in Tokens |-> NoSession]
  <2>1. /\ sessions' \in {Loaded, None}
        /\ db' \in {Loaded, db}
        /\ pc' = [p \in Procs |-> "idle"]
        /\ tok' = [p \in Procs |-> NoToken]
        /\ clock' = [p \in Procs |-> 0]
        /\ now' = now /\ latest' = latest
    BY <1>6 DEF Restart, Transaction, ghosts
  <2>2. \A t \in Tokens : Loaded[t] \in Times /\ Loaded[t] \in {db[t], NoSession}
    BY DEF Loaded, IdleInv, IdleTypes
  <2>3. Loaded \in [Tokens -> Times] /\ None \in [Tokens -> Times]
    BY <2>2 DEF Loaded
  <2>4. IdleTypes'
    BY <2>1, <2>3 DEF IdleInv, IdleTypes
  <2>5. IdleSessionsEnd'
    BY <2>1, <2>2 DEF IdleInv, IdleTypes, IdleSessionsEnd
  <2> QED BY <2>4, <2>5 DEF IdleInv
<1>7. CASE Tick
  BY <1>7 DEF Tick, request, ghosts, IdleInv, IdleTypes, IdleSessionsEnd
<1>8. CASE UNCHANGED vars
  BY <1>8 DEF vars, request, ghosts, IdleInv, IdleTypes, IdleSessionsEnd
<1> QED BY <1>1, <1>2, <1>3, <1>4, <1>5, <1>6, <1>7, <1>8 DEF Next, Serve

\* checkSession and loadSessions: an idle session ends, whatever transactions
\* fail and whenever the process is killed.
THEOREM IdleEnds == Spec => []IdleSessionsEnd
<1>1. Init => IdleInv
  BY DEF Init, IdleInv, IdleTypes, IdleSessionsEnd
<1>2. IdleInv => IdleSessionsEnd
  BY DEF IdleInv
<1> QED BY <1>1, <1>2, IdleStep, PTL DEF Spec

-----------------------------------------------------------------------------
(* Types. *)

\* No time that a request reads or a use leaves is later than the clock can be.
ClockInv ==
  /\ now \in 0..MaxNow
  /\ clock \in [Procs -> 0..MaxNow]
  /\ used \in [Tokens -> 0..MaxNow]
  /\ latest \in [Tokens -> 0..MaxNow]

\* A use leaves the time the request has read, or a later one.
LEMMA UsedTimes ==
  ASSUME ClockInv, NEW p \in Procs, Used(p)
  PROVE  used' \in [Tokens -> 0..MaxNow] /\ latest' \in [Tokens -> 0..MaxNow]
<1>1. clock[p] \in 0..MaxNow
  BY DEF ClockInv
<1>2. \A t \in Tokens : used'[t] \in 0..MaxNow /\ latest'[t] \in 0..MaxNow
  BY <1>1 DEF ClockInv, Used
<1>3. /\ used' = [t \in Tokens |-> used'[t]]
      /\ latest' = [t \in Tokens |-> latest'[t]]
  BY DEF ClockInv, Used
<1> QED BY <1>2, <1>3

\* Every step reads the clock or passes on a time that was read.
LEMMA ClockStep == ClockInv /\ [Next]_vars => ClockInv'
<1> SUFFICES ASSUME ClockInv, [Next]_vars PROVE ClockInv'
  OBVIOUS
<1>1. 0 \in 0..MaxNow
  OBVIOUS
<1>2. ASSUME NEW p \in Procs, Answer(p) PROVE clock' \in [Procs -> 0..MaxNow]
  BY <1>1, <1>2 DEF Answer, ClockInv
<1>3. ASSUME NEW p \in Procs, NEW t \in Tokens, NewCookie(p, t) \/ Request(p, t)
      PROVE  ClockInv'
  BY <1>3 DEF NewCookie, Request, ghosts, ClockInv
<1>4. ASSUME NEW p \in Procs, AddSession(p) PROVE ClockInv'
  BY <1>4, UsedTimes DEF AddSession, ClockInv
<1>5. ASSUME NEW p \in Procs, StoreSession(p) \/ RemoveSessionFromFile(p) PROVE ClockInv'
  BY <1>2, <1>5 DEF StoreSession, RemoveSessionFromFile, ClockInv
<1>6. ASSUME NEW p \in Procs, CheckSession(p) PROVE ClockInv'
  <2>1. now' = now /\ (Answer(p) \/ clock' = clock)
    BY <1>6 DEF CheckSession, NotFound, SessionExpired, SessionOK
  <2>2. Used(p) \/ UNCHANGED <<used, latest>>
    BY <1>6 DEF CheckSession, NotFound, SessionExpired, SessionOK
  <2> QED BY <1>2, <2>1, <2>2, UsedTimes DEF ClockInv
<1>7. ASSUME NEW p \in Procs, RemoveSession(p) PROVE ClockInv'
  BY <1>7 DEF RemoveSession, ghosts, ClockInv
<1>8. CASE Restart
  BY <1>1, <1>8 DEF Restart, ghosts, ClockInv
<1>9. CASE Tick \/ UNCHANGED vars
  BY <1>9 DEF Tick, vars, request, ghosts, ClockInv
<1> QED BY <1>3, <1>4, <1>5, <1>6, <1>7, <1>8, <1>9 DEF Next, Serve

\* auth.go: the times in the map and in the file are uint32 numbers, whatever
\* session_ttl is, and only an issued token is answered, only an answered one
\* logged out.
THEOREM TypeCorrect == Spec => []TypeOK
<1>1. Init => ClockInv
  BY DEF Init, ClockInv
<1>2. SessionsInv /\ ClockInv => TypeOK
  BY DEF SessionsInv, Types, Owners, ClockInv, TypeOK
<1> QED BY <1>1, <1>2, ClockStep, SessionsInvariant, PTL DEF Spec

-----------------------------------------------------------------------------
(* The sessions implement SessionLife.                                     *)

\* One token moves to the stage s, the others stay where they are.
LEMMA OneToken ==
  ASSUME NEW t \in Tokens, NEW s, Stage(t)' = s, \A u \in Tokens : u # t => Stage(u)' = Stage(u)
  PROVE  Life!Become(t, s)
  BY DEF Life!Become, Lives

\* No token moves.
LEMMA NoMove ==
  ASSUME \A u \in Tokens : Stage(u)' = Stage(u)
  PROVE  UNCHANGED Lives
  BY DEF Lives

\* A transaction about one token fails for that token only, and only when it
\* was to change something.
LEMMA TransactionFails ==
  ASSUME Types, NEW t \in Tokens, NEW e \in Times, Transaction([db EXCEPT ![t] = e])
  PROVE  /\ \A u \in Tokens : u # t => (u \in failed' <=> u \in failed) /\ db'[u] = db[u]
         /\ t \in failed => t \in failed'
         /\ \/ t \in failed' /\ db'[t] = db[t]
            \/ db'[t] = e /\ (t \in failed' <=> t \in failed)
         /\ db[t] = e => (t \in failed' <=> t \in failed) /\ db'[t] = db[t]
<1> DEFINE d == [db EXCEPT ![t] = e]
<1>1. d[t] = e /\ \A u \in Tokens : u # t => d[u] = db[u]
  BY DEF Types
<1> HIDE DEF d
<1>2. CASE db' = d /\ failed' = failed
  BY <1>1, <1>2
<1>3. CASE db' = db /\ failed' = failed \cup {u \in Tokens : d[u] # db[u]}
  BY <1>1, <1>3
<1> QED BY <1>2, <1>3 DEF Transaction, d

LEMMA NewCookieLife ==
  ASSUME SessionsInv, NEW p \in Procs, NEW t \in Tokens, NewCookie(p, t)
  PROVE  Life!Next \/ UNCHANGED <<Lives, Logouts>>
<1>1. /\ pc[p] = "idle" /\ t \notin issued /\ issued' = issued \cup {t}
      /\ tok' = [tok EXCEPT ![p] = t] /\ pc' = [pc EXCEPT ![p] = "add"]
      /\ UNCHANGED <<sessions, db, failed, cookies>>
  BY DEF NewCookie, Goto
<1>2. Logouts' = Logouts
  BY <1>1 DEF Logouts, SessionsInv, Types
<1>3. \A u \in Tokens : u # t => Stage(u)' = Stage(u)
  <2>1. \A u \in Tokens : u # t => (Opening(u)' <=> Opening(u))
    BY <1>1 DEF Opening, SessionsInv, Types
  <2> QED BY <1>1, <2>1 DEF Stage
<1>4. t \notin cookies /\ Opening(t)'
  BY <1>1 DEF SessionsInv, Types, Owners, Opening
<1>5. CASE t \in failed
  BY <1>1, <1>2, <1>3, <1>5, NoMove DEF Stage
<1>6. CASE t \notin failed
  <2>1. Stage(t) = "new" /\ Stage(t)' = "opening"
    BY <1>1, <1>4, <1>6 DEF Stage
  <2>2. Lives[t] = "new"
    BY <2>1 DEF Lives
  <2> QED BY <1>2, <1>3, <2>1, <2>2, OneToken DEF Life!Next, Life!Login
<1> QED BY <1>5, <1>6

LEMMA RequestLife ==
  ASSUME SessionsInv, NEW p \in Procs, NEW t \in Tokens, Request(p, t)
  PROVE  UNCHANGED <<Lives, Logouts>>
<1>1. /\ pc[p] = "idle" /\ tok' = [tok EXCEPT ![p] = t] /\ pc' = [pc EXCEPT ![p] = "check"]
      /\ UNCHANGED <<sessions, db, failed, issued, cookies>>
  BY DEF Request, Goto, ghosts
<1>2. Logouts' = Logouts
  BY <1>1 DEF Logouts, SessionsInv, Types
<1>3. \A u \in Tokens : Opening(u)' <=> Opening(u)
  BY <1>1 DEF Opening, SessionsInv, Types
<1>4. \A u \in Tokens : Stage(u)' = Stage(u)
  BY <1>1, <1>3 DEF Stage
<1> QED BY <1>2, <1>4, NoMove

LEMMA AddSessionLife ==
  ASSUME SessionsInv, NEW p \in Procs, AddSession(p)
  PROVE  UNCHANGED <<Lives, Logouts>>
<1>1. /\ pc[p] = "add" /\ tok[p] \in Tokens /\ tok[p] \notin cookies
      /\ pc' = [pc EXCEPT ![p] = "store"]
      /\ \E e : sessions' = [sessions EXCEPT ![tok[p]] = e]
      /\ UNCHANGED <<tok, db, failed, issued, cookies>>
  BY DEF AddSession, Goto, SessionsInv, Types, Owners
<1>2. Logouts' = Logouts
  BY <1>1 DEF Logouts, SessionsInv, Types
<1>3. \A u \in Tokens : Opening(u)' <=> Opening(u)
  BY <1>1 DEF Opening, SessionsInv, Types
<1>4. \A u \in cookies : sessions'[u] = sessions[u]
  BY <1>1 DEF SessionsInv, Types
<1>5. \A u \in Tokens : Stage(u)' = Stage(u)
  BY <1>1, <1>3, <1>4 DEF Stage
<1> QED BY <1>2, <1>5, NoMove

LEMMA StoreSessionLife ==
  ASSUME SessionsInv, NEW p \in Procs, StoreSession(p)
  PROVE  Life!Next \/ UNCHANGED <<Lives, Logouts>>
<1>0. PICK t \in Tokens : t = tok[p]
  BY DEF StoreSession, SessionsInv, Types, Owners
<1>1. /\ pc[p] = "store" /\ t \in Tokens /\ t \in issued \ cookies /\ sessions[t] # NoSession
      /\ Types /\ sessions[t] \in Times
  BY <1>0 DEF StoreSession, SessionsInv, Types, Owners, Halfway
<1>2. /\ Transaction([db EXCEPT ![t] = sessions[t]])
      /\ cookies' = cookies \cup {t}
      /\ pc' = [pc EXCEPT ![p] = "idle"] /\ tok' = [tok EXCEPT ![p] = NoToken]
      /\ UNCHANGED <<sessions, issued>>
  BY <1>0 DEF StoreSession, Answer, Goto
<1>3. /\ \A u \in Tokens : u # t => (u \in failed' <=> u \in failed) /\ db'[u] = db[u]
      /\ t \in failed => t \in failed'
  BY <1>1, <1>2, TransactionFails
<1>4. Logouts' = Logouts
  BY <1>0, <1>1, <1>2 DEF Logouts, Types
<1>5. \A u \in Tokens : u # t => Stage(u)' = Stage(u)
  <2>1. \A u \in Tokens : u # t => (Opening(u)' <=> Opening(u))
    BY <1>0, <1>1, <1>2 DEF Opening, Types
  <2> QED BY <1>2, <1>3, <2>1 DEF Stage
<1>6. Opening(t)
  BY <1>0, <1>1 DEF Opening
<1>7. CASE t \in failed
  BY <1>3, <1>4, <1>5, <1>7, NoMove DEF Stage
<1>8. CASE t \notin failed /\ t \in failed'
  <2>1. Lives[t] = "opening" /\ Stage(t)' = "unknown"
    BY <1>1, <1>6, <1>8 DEF Stage, Lives
  <2> QED BY <1>1, <1>4, <1>5, <2>1, OneToken DEF Life!Next, Life!Fail
<1>9. CASE t \notin failed /\ t \notin failed'
  <2>1. Lives[t] = "opening" /\ Stage(t)' = "open"
    BY <1>1, <1>2, <1>6, <1>9 DEF Stage, Lives
  <2> QED BY <1>1, <1>4, <1>5, <2>1, OneToken DEF Life!Next, Life!LoggedIn
<1> QED BY <1>7, <1>8, <1>9

LEMMA CheckSessionLife ==
  ASSUME SessionsInv, NEW p \in Procs, CheckSession(p)
  PROVE  Life!Next \/ UNCHANGED <<Lives, Logouts>>
<1>0. PICK t \in Tokens : t = tok[p]
  BY DEF CheckSession, SessionsInv, Types, Owners
<1>1. pc[p] = "check" /\ t \in Tokens /\ t \in cookies /\ t \in issued /\ Types /\ clock[p] \in Nat
  BY <1>0 DEF CheckSession, SessionsInv, Types, Owners
<1>2. /\ UNCHANGED <<issued, cookies>>
      /\ \/ pc' = [pc EXCEPT ![p] = "idle"] /\ tok' = [tok EXCEPT ![p] = NoToken]
         \/ pc' = [pc EXCEPT ![p] = "remove"] /\ tok' = tok
  BY <1>0 DEF CheckSession, NotFound, SessionExpired, SessionOK, Answer, Goto
<1>3. Logouts' = Logouts
  BY <1>0, <1>1, <1>2 DEF Logouts, Types
<1>4. \A u \in Tokens : Opening(u)' <=> Opening(u)
  BY <1>0, <1>1, <1>2 DEF Opening, Types
<1>5. CASE NotFound(p)
  <2>1. UNCHANGED <<sessions, db, failed>>
    BY <1>5 DEF NotFound
  <2>2. \A u \in Tokens : Stage(u)' = Stage(u)
    BY <1>2, <1>4, <2>1 DEF Stage
  <2> QED BY <1>3, <2>2, NoMove
<1>6. ASSUME NEW e \in Times, sessions[t] # NoSession, sessions' = [sessions EXCEPT ![t] = e],
             Transaction([db EXCEPT ![t] = e])
      PROVE  Life!Next \/ UNCHANGED <<Lives, Logouts>>
  <2>1. /\ \A u \in Tokens : u # t => (u \in failed' <=> u \in failed) /\ db'[u] = db[u]
        /\ t \in failed => t \in failed'
        /\ \/ t \in failed' /\ db'[t] = db[t]
           \/ db'[t] = e /\ (t \in failed' <=> t \in failed)
    BY <1>1, <1>6, TransactionFails
  <2>2. sessions'[t] = e /\ \A u \in Tokens : u # t => sessions'[u] = sessions[u]
    BY <1>1, <1>6 DEF Types
  <2>3. \A u \in Tokens : u # t => Stage(u)' = Stage(u)
    BY <1>2, <1>4, <2>1, <2>2 DEF Stage
  <2>4. CASE t \in failed
    BY <1>3, <2>1, <2>3, <2>4, NoMove DEF Stage
  <2>5. CASE t \notin failed
    <3>1. Lives[t] = "open" /\ Stage(t) = "open"
      BY <1>1, <1>6, <2>5 DEF Stage, Lives
    <3>2. CASE t \in failed'
      <4>1. Stage(t)' = "unknown"
        BY <3>2 DEF Stage
      <4> QED BY <1>1, <1>3, <2>3, <3>1, <4>1, OneToken DEF Life!Next, Life!Fail
    <3>3. CASE t \notin failed' /\ e # NoSession
      <4>1. Stage(t)' = "open"
        BY <1>1, <1>2, <2>2, <3>3 DEF Stage
      <4> QED BY <1>3, <2>3, <3>1, <4>1, NoMove
    <3>4. CASE t \notin failed' /\ e = NoSession
      <4>1. Stage(t)' = "closed"
        BY <1>1, <1>2, <2>1, <2>2, <3>4 DEF Stage
      <4> QED BY <1>1, <1>3, <2>3, <3>1, <4>1, OneToken DEF Life!Next, Life!Expire
    <3> QED BY <3>2, <3>3, <3>4
  <2> QED BY <2>4, <2>5
<1>7. CASE SessionExpired(p)
  BY <1>0, <1>6, <1>7 DEF SessionExpired, Types
<1>8. CASE SessionOK(p)
  <2>1. sessions[t] \in 0..(Width - 1)
    BY <1>0, <1>1, <1>8 DEF SessionOK, Types
  <2>2. PICK e \in 0..(Width - 1) : e = Refreshed(sessions[t], clock[p])
    BY <1>1, <2>1, RefreshedTracks
  <2>3. /\ sessions' = [sessions EXCEPT ![t] = e]
        /\ IF e # sessions[t] THEN Transaction([db EXCEPT ![t] = e]) ELSE UNCHANGED <<db, failed>>
    BY <1>0, <1>8, <2>2 DEF SessionOK
  <2>4. CASE e # sessions[t]
    <3>1. e \in Times /\ sessions[t] # NoSession
      BY <2>1, <2>2 DEF Times, NoSession
    <3>2. Transaction([db EXCEPT ![t] = e]) /\ sessions' = [sessions EXCEPT ![t] = e]
      BY <2>3, <2>4
    <3> QED BY <1>6, <3>1, <3>2
  <2>5. CASE e = sessions[t]
    <3>1. UNCHANGED <<sessions, db, failed>>
      BY <1>1, <2>3, <2>5 DEF Types
    <3>2. \A u \in Tokens : Stage(u)' = Stage(u)
      BY <1>2, <1>4, <3>1 DEF Stage
    <3> QED BY <1>3, <3>2, NoMove
  <2> QED BY <2>4, <2>5
<1> QED BY <1>5, <1>7, <1>8 DEF CheckSession

LEMMA RemoveSessionLife ==
  ASSUME SessionsInv, NEW p \in Procs, RemoveSession(p)
  PROVE  Life!Next
<1>0. PICK t \in Tokens : t = tok[p]
  BY DEF RemoveSession, SessionsInv, Types, Owners
<1>1. pc[p] = "remove" /\ t \in Tokens /\ t \in cookies /\ t \in issued
  BY <1>0 DEF RemoveSession, SessionsInv, Types, Owners
<1>2. /\ sessions' = [sessions EXCEPT ![t] = NoSession]
      /\ pc' = [pc EXCEPT ![p] = "removeFromFile"]
      /\ UNCHANGED <<tok, db, failed, issued, cookies>>
  BY <1>0 DEF RemoveSession, Goto, ghosts
<1>3. Logouts' = Logouts \cup {t}
  BY <1>0, <1>1, <1>2 DEF Logouts, SessionsInv, Types
<1>4. sessions'[t] = NoSession /\ \A u \in Tokens : u # t => sessions'[u] = sessions[u]
  BY <1>1, <1>2 DEF SessionsInv, Types
<1>5. \A u \in Tokens : Opening(u)' <=> Opening(u)
  BY <1>0, <1>1, <1>2 DEF Opening, SessionsInv, Types
<1>6. \A u \in Tokens : u # t => Stage(u)' = Stage(u)
  BY <1>2, <1>4, <1>5 DEF Stage
<1>7. CASE t \notin failed /\ sessions[t] # NoSession
  <2>1. sessions[t] = db[t]
    BY <1>1, <1>7 DEF SessionsInv, Stored, Halfway
  <2>2. Lives[t] = "open" /\ Stage(t)' = "closing"
    BY <1>1, <1>2, <1>4, <1>7, <2>1 DEF Stage, Lives
  <2> QED BY <1>1, <1>3, <1>6, <2>2, OneToken DEF Life!Next, Life!Logout
<1>8. CASE t \in failed \/ sessions[t] = NoSession
  <2>1. Lives[t] \in {"closing", "closed", "unknown"} /\ Stage(t)' = Stage(t)
    BY <1>1, <1>2, <1>4, <1>8 DEF Stage, Lives
  <2>2. UNCHANGED Lives
    BY <1>6, <2>1, NoMove
  <2> QED BY <1>1, <1>3, <2>1, <2>2 DEF Life!Next, Life!Logout
<1> QED BY <1>7, <1>8

LEMMA RemoveSessionFromFileLife ==
  ASSUME SessionsInv, NEW p \in Procs, RemoveSessionFromFile(p)
  PROVE  Life!Next
<1>0. PICK t \in Tokens : t = tok[p]
  BY DEF RemoveSessionFromFile, SessionsInv, Types, Owners
<1>1. /\ pc[p] = "removeFromFile" /\ t \in Tokens /\ t \in cookies /\ t \in issued
      /\ sessions[t] = NoSession /\ Types /\ NoSession \in Times
  BY <1>0 DEF RemoveSessionFromFile, SessionsInv, Types, Owners, Halfway
<1>2. /\ Transaction([db EXCEPT ![t] = NoSession])
      /\ pc' = [pc EXCEPT ![p] = "idle"] /\ tok' = [tok EXCEPT ![p] = NoToken]
      /\ UNCHANGED <<sessions, issued, cookies>>
  BY <1>0 DEF RemoveSessionFromFile, Answer, Goto
<1>3. t \in Logouts /\ Logouts' \in {Logouts, Logouts \ {t}}
  <2>1. \A u \in Tokens : u # t => (u \in Logouts' <=> u \in Logouts)
    BY <1>0, <1>1, <1>2 DEF Logouts, Types
  <2>2. t \in Logouts
    BY <1>0, <1>1 DEF Logouts
  <2>3. Logouts' \subseteq Tokens /\ Logouts \subseteq Tokens
    BY DEF Logouts
  <2>4. CASE t \in Logouts'
    BY <2>1, <2>2, <2>3, <2>4
  <2>5. CASE t \notin Logouts'
    BY <2>1, <2>2, <2>3, <2>5
  <2> QED BY <2>2, <2>4, <2>5
<1>4. /\ \A u \in Tokens : u # t => (u \in failed' <=> u \in failed) /\ db'[u] = db[u]
      /\ t \in failed => t \in failed'
      /\ \/ t \in failed' /\ db'[t] = db[t]
         \/ db'[t] = NoSession /\ (t \in failed' <=> t \in failed)
      /\ db[t] = NoSession => (t \in failed' <=> t \in failed) /\ db'[t] = db[t]
  BY <1>1, <1>2, TransactionFails
<1>5. \A u \in Tokens : Opening(u)' <=> Opening(u)
  BY <1>0, <1>1, <1>2 DEF Opening, Types
<1>6. \A u \in Tokens : u # t => Stage(u)' = Stage(u)
  BY <1>2, <1>4, <1>5 DEF Stage
<1>7. CASE t \notin failed /\ db[t] # NoSession
  <2>1. Lives[t] = "closing" /\ Stage(t)' \in {"closed", "unknown"}
    BY <1>1, <1>2, <1>4, <1>7 DEF Stage, Lives
  <2>2. Life!Become(t, Stage(t)')
    BY <1>1, <1>6, OneToken
  <2>3. Lives' \in {[Lives EXCEPT ![t] = s] : s \in {"closed", "unknown"}}
    BY <2>1, <2>2 DEF Life!Become
  <2> QED BY <1>1, <1>3, <2>1, <2>3 DEF Life!Next, Life!LoggedOut
<1>8. CASE t \in failed \/ db[t] = NoSession
  <2>1. Lives[t] \in {"closed", "unknown"} /\ Stage(t)' = Stage(t)
    BY <1>1, <1>2, <1>4, <1>8 DEF Stage, Lives
  <2>2. UNCHANGED Lives
    BY <1>6, <2>1, NoMove
  <2> QED BY <1>1, <1>3, <2>1, <2>2 DEF Life!Next, Life!LoggedOut
<1> QED BY <1>7, <1>8

LEMMA RestartLife ==
  ASSUME SessionsInv, Restart
  PROVE  Life!Next
<1> DEFINE None == [t \in Tokens |-> NoSession]
<1>1. /\ pc' = [p \in Procs |-> "idle"] /\ UNCHANGED <<issued, cookies>>
  BY DEF Restart, ghosts
<1>2. \A t \in Tokens : ~Opening(t)' /\ t \notin Logouts'
  BY <1>1 DEF Opening, Logouts
<1>3. Logouts' = {}
  BY <1>2 DEF Logouts
<1>4. \A t \in Tokens : Loaded[t] = db[t] \/ Loaded[t] = NoSession
  BY DEF Loaded
<1>5. /\ \A t \in Tokens : t \in failed => t \in failed'
      /\ \A t \in Tokens : db[t] = NoSession =>
           (t \in failed' => t \in failed) /\ sessions'[t] = NoSession /\ db'[t] = NoSession
      /\ \A t \in Tokens : t \notin failed' => sessions'[t] = db'[t]
  <2>1. CASE sessions' = Loaded /\ db' = Loaded /\ failed' = failed
    BY <1>4, <2>1
  <2>2. CASE sessions' = Loaded /\ db' = db /\ failed' = failed \cup {t \in Tokens : Loaded[t] # db[t]}
    BY <1>4, <2>2
  <2>3. CASE sessions' = None /\ db' = db /\ failed' = failed \cup {t \in Tokens : db[t] # NoSession}
    BY <2>3
  <2> QED BY <2>1, <2>2, <2>3 DEF Restart, Transaction
<1>6. ASSUME NEW t \in Tokens PROVE Stage(t)' \in Life!AfterKill(Stage(t)) /\ Stage(t)' \in Life!Stages
  <2>1. CASE t \in failed
    BY <1>5, <2>1 DEF Stage, Life!AfterKill, Life!Stages
  <2>2. CASE t \notin failed /\ t \notin cookies
    <3>1. t \notin failed'
      BY <1>5, <2>2 DEF SessionsInv, Halfway
    <3> QED BY <1>1, <1>2, <2>2, <3>1 DEF Stage, Life!AfterKill, Life!Stages
  <2>3. CASE t \notin failed /\ t \in cookies
    <3>1. t \in issued
      BY <2>3 DEF SessionsInv, Owners
    <3>2. Stage(t)' \in {"open", "closed", "unknown"}
      BY <1>1, <1>5, <2>3, <3>1 DEF Stage
    <3>3. CASE Stage(t) \in {"open", "closing"}
      BY <3>2, <3>3 DEF Life!AfterKill, Life!Stages
    <3>4. CASE Stage(t) = "closed"
      <4>1. db[t] = NoSession
        BY <2>3, <3>1, <3>4 DEF Stage
      <4>2. Stage(t)' = "closed"
        BY <1>1, <1>5, <2>3, <3>1, <4>1 DEF Stage
      <4> QED BY <3>4, <4>2 DEF Life!AfterKill, Life!Stages
    <3> QED BY <2>3, <3>1, <3>3, <3>4 DEF Stage
  <2> QED BY <2>1, <2>2, <2>3
<1>7. Life!Kill
  BY <1>3, <1>6 DEF Life!Kill, Lives
<1> QED BY <1>7 DEF Life!Next

\* addSession, checkSession, removeSession and loadSessions implement the life
\* of a token that SessionLife describes: no race between requests, kill or
\* failed transaction reopens a session that is closed.
THEOREM Refinement == Spec => ImplementsLife
<1>1. Init => Life!Init
  BY DEF Init, Life!Init, Lives, Stage, Logouts
<1>2. SessionsInv /\ [Next]_vars => [Life!Next]_<<Lives, Logouts>>
  <2> SUFFICES ASSUME SessionsInv, [Next]_vars
               PROVE  Life!Next \/ UNCHANGED <<Lives, Logouts>>
    OBVIOUS
  <2>1. CASE \E p \in Procs : Serve(p)
    BY <2>1, AddSessionLife, StoreSessionLife, CheckSessionLife, RemoveSessionLife,
       RemoveSessionFromFileLife DEF Serve
  <2>2. CASE \E p \in Procs, t \in Tokens : NewCookie(p, t) \/ Request(p, t)
    BY <2>2, NewCookieLife, RequestLife
  <2>3. CASE Restart
    BY <2>3, RestartLife
  <2>4. CASE Tick \/ UNCHANGED vars
    BY <2>4 DEF Tick, vars, request, ghosts, Lives, Stage, Opening, Logouts
  <2> QED BY <2>1, <2>2, <2>3, <2>4 DEF Next
<1> QED BY <1>1, <1>2, SessionsInvariant, PTL DEF Spec, ImplementsLife, Life!Spec
=============================================================================
