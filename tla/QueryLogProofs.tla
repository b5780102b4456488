--------------------------- MODULE QueryLogProofs ---------------------------
(***************************************************************************)
(* The query log for any number of flushing goroutines, any buffer size    *)
(* and any number of entries, with clears, rotations, searches, kills and  *)
(* failing file operations at any moment.                                  *)
(***************************************************************************)
EXTENDS QueryLog, TLAPS

USE QueryLogAssumption

Sorted(s) == \A i, j \in DOMAIN s : i < j => s[i].id < s[j].id

Below(S, T) == \A x \in S, y \in T : x < y

\* fileFlushLock is held from encodeEntries to the end of the write, and from
\* the emptying of the buffer to the last removal of a clear.
LockOK ==
  /\ \A f \in Flushers : pc[f] \in {"encode", "open", "write"} => holder = f
  /\ clearing \in {"buffer", "removeOld", "removeLog"} => holder = Clearer

\* Who has entries, and who has a file open.  The file of a goroutine may have
\* been renamed, and then there is no querylog.json: no other goroutine could
\* make one.  It is never removed.
FlusherOK ==
  \A f \in Flushers :
    /\ pc[f] \notin {"open", "write"} => batch[f] = <<>>
    /\ IF pc[f] = "write" THEN handle[f] \in {"log", "old"} ELSE handle[f] = "none"
    /\ handle[f] = "old" => log = NoFile

\* The order of the entries, part by part: from querylog.json.1 over
\* querylog.json and the batch to the buffer, numbers ascend.
SortedOK ==
  /\ Sorted(old.lines) /\ Sorted(log.lines) /\ Sorted(buffer)
  /\ \A f \in Flushers : Sorted(batch[f])

OrderOK ==
  /\ Below(Ids(old.lines), Ids(log.lines))
  /\ Below(InFiles, Ids(buffer))
  /\ \A f \in Flushers : Below(InFiles, Ids(batch[f])) /\ Below(Ids(batch[f]), Ids(buffer))

NumbersOK ==
  /\ InFiles \subseteq 1..added /\ Ids(buffer) \subseteq 1..added
  /\ \A f \in Flushers : Ids(batch[f]) \subseteq 1..added

\* While a clear removes the files, it knows of all that is in them.
ClearOK ==
  /\ clearing \in {"removeOld", "removeLog"} => InFiles \subseteq doomed
  /\ clearing \notin {"removeOld", "removeLog"} => doomed = {}

\* What a search still looks for, or has missed, is in no memory.  The files have
\* what it missed in the old one, which the next search opens first; and of what
\* it still looks for, the file it has read got no more than a rename brought.
SearchOK ==
  /\ due \cup missed \subseteq 1..added
  /\ (due \cup missed) \cap Ids(buffer) = {}
  /\ \A f \in Flushers : (due \cup missed) \cap Ids(batch[f]) = {}
  /\ missed \cap InFiles \subseteq Ids(old.lines)
  /\ search = "openLog" => due \cap Ids(old.lines) \subseteq renamed
  /\ SearchMissesOnlyRenamed

\* A pending flush has something to write, so that its goroutine resets it.
PendingOK == FlushOnItsWay /\ (flushPending => buffer # <<>>)

LogInv ==
  /\ TypeOK /\ LockOK /\ FlusherOK /\ SortedOK /\ OrderOK /\ NumbersOK
  /\ ClearOK /\ SearchOK /\ PendingOK /\ NothingVanishes
-----------------------------------------------------------------------------
(* Entries of a sequence: what pushing, cutting and appending do to their   *)
(* numbers and to their order.                                              *)

\* Nothing has no numbers.
LEMMA IdsEmpty == Ids(<<>>) = {} /\ Sorted(<<>>)
  BY DEF Ids, Sorted

\* The numbers of an entry sequence are numbers of entries.
LEMMA IdsType ==
  ASSUME NEW s \in Seq(Entry)
  PROVE  Ids(s) \subseteq 1..MaxEntries
<1>1. \A k \in DOMAIN s : s[k] \in Entry
  OBVIOUS
<1>2. \A e \in Entry : e.id \in 1..MaxEntries
  BY DEF Entry
<1> QED BY <1>1, <1>2 DEF Ids

\* Append adds one number.
LEMMA IdsAppend ==
  ASSUME NEW s \in Seq(Entry), NEW e \in Entry
  PROVE  /\ Append(s, e) \in Seq(Entry)
         /\ Ids(Append(s, e)) = Ids(s) \cup {e.id}
         /\ Sorted(s) /\ Below(Ids(s), {e.id}) => Sorted(Append(s, e))
<1>1. Append(s, e) \in Seq(Entry) /\ Len(Append(s, e)) = Len(s) + 1
  OBVIOUS
<1>2. /\ \A i \in 1..Len(s) : Append(s, e)[i] = s[i]
      /\ Append(s, e)[Len(s) + 1] = e
  OBVIOUS
<1>3. DOMAIN s = 1..Len(s) /\ DOMAIN Append(s, e) = 1..(Len(s) + 1) /\ Len(s) \in Nat
  BY <1>1
<1>4. Ids(Append(s, e)) = Ids(s) \cup {e.id}
  BY <1>2, <1>3 DEF Ids
<1>5. ASSUME Sorted(s), Below(Ids(s), {e.id}) PROVE Sorted(Append(s, e))
  BY <1>2, <1>3, <1>5 DEF Sorted, Below, Ids
<1> QED BY <1>1, <1>4, <1>5

\* Tail takes the number of the head away at most.
LEMMA IdsTail ==
  ASSUME NEW s \in Seq(Entry), s # <<>>
  PROVE  /\ Tail(s) \in Seq(Entry) /\ Len(Tail(s)) = Len(s) - 1
         /\ Ids(Tail(s)) \subseteq Ids(s)
         /\ Sorted(s) => Sorted(Tail(s))
<1>1. Tail(s) \in Seq(Entry) /\ Len(Tail(s)) = Len(s) - 1
  OBVIOUS
<1>2. \A i \in 1..(Len(s) - 1) : Tail(s)[i] = s[i + 1]
  OBVIOUS
<1>3. DOMAIN s = 1..Len(s) /\ DOMAIN Tail(s) = 1..(Len(s) - 1) /\ Len(s) \in Nat
  BY <1>1
<1>4. Ids(Tail(s)) \subseteq Ids(s)
  BY <1>2, <1>3 DEF Ids
<1>5. Sorted(s) => Sorted(Tail(s))
  BY <1>2, <1>3 DEF Sorted
<1> QED BY <1>1, <1>4, <1>5

\* Two sequences one behind the other.
LEMMA IdsConcat ==
  ASSUME NEW s \in Seq(Entry), NEW t \in Seq(Entry)
  PROVE  /\ s \o t \in Seq(Entry)
         /\ Ids(s \o t) = Ids(s) \cup Ids(t)
         /\ Sorted(s) /\ Sorted(t) /\ Below(Ids(s), Ids(t)) => Sorted(s \o t)
<1>1. s \o t \in Seq(Entry) /\ Len(s \o t) = Len(s) + Len(t)
  OBVIOUS
<1>2. /\ \A i \in 1..Len(s) : (s \o t)[i] = s[i]
      /\ \A i \in (Len(s) + 1)..(Len(s) + Len(t)) : (s \o t)[i] = t[i - Len(s)]
  OBVIOUS
<1>3. /\ DOMAIN s = 1..Len(s) /\ DOMAIN t = 1..Len(t)
      /\ DOMAIN (s \o t) = 1..(Len(s) + Len(t))
      /\ Len(s) \in Nat /\ Len(t) \in Nat
  BY <1>1
<1>4. Ids(s \o t) = Ids(s) \cup Ids(t)
  <2>1. \A i \in 1..Len(t) : (s \o t)[i + Len(s)] = t[i] /\ i + Len(s) \in DOMAIN (s \o t)
    BY <1>2, <1>3
  <2>2. Ids(s) \subseteq Ids(s \o t)
    BY <1>2, <1>3 DEF Ids
  <2>3. Ids(t) \subseteq Ids(s \o t)
    BY <1>3, <2>1 DEF Ids
  <2>4. \A i \in DOMAIN (s \o t) : (s \o t)[i].id \in Ids(s) \cup Ids(t)
    <3> SUFFICES ASSUME NEW i \in DOMAIN (s \o t) PROVE (s \o t)[i].id \in Ids(s) \cup Ids(t)
      OBVIOUS
    <3>1. CASE i <= Len(s)
      BY <1>2, <1>3, <3>1 DEF Ids
    <3>2. CASE i > Len(s)
      <4>1. (s \o t)[i] = t[i - Len(s)] /\ i - Len(s) \in DOMAIN t
        BY <1>2, <1>3, <3>2
      <4> QED BY <4>1 DEF Ids
    <3> QED BY <1>3, <3>1, <3>2
  <2> QED BY <2>2, <2>3, <2>4 DEF Ids
<1>5. ASSUME Sorted(s), Sorted(t), Below(Ids(s), Ids(t)), NEW i \in DOMAIN (s \o t),
             NEW j \in DOMAIN (s \o t), i < j
      PROVE  (s \o t)[i].id < (s \o t)[j].id
  <2>1. CASE j <= Len(s)
    BY <1>2, <1>3, <1>5, <2>1 DEF Sorted
  <2>2. CASE i > Len(s)
    <3>1. /\ (s \o t)[i] = t[i - Len(s)] /\ (s \o t)[j] = t[j - Len(s)]
          /\ i - Len(s) \in DOMAIN t /\ j - Len(s) \in DOMAIN t /\ i - Len(s) < j - Len(s)
      BY <1>2, <1>3, <1>5, <2>2
    <3> QED BY <1>5, <3>1 DEF Sorted
  <2>3. CASE i <= Len(s) /\ j > Len(s)
    <3>1. (s \o t)[i].id \in Ids(s) /\ (s \o t)[j].id \in Ids(t)
      BY <1>2, <1>3, <1>5, <2>3 DEF Ids
    <3> QED BY <1>5, <3>1 DEF Below
  <2> QED BY <1>3, <2>1, <2>2, <2>3
<1>6. Sorted(s) /\ Sorted(t) /\ Below(Ids(s), Ids(t)) => Sorted(s \o t)
  BY <1>5 DEF Sorted
<1> QED BY <1>1, <1>4, <1>6

\* A write of the first n entries, and the rest that is lost.
LEMMA IdsCut ==
  ASSUME NEW s \in Seq(Entry), NEW n \in 0..Len(s)
  PROVE  /\ SubSeq(s, 1, n) \in Seq(Entry)
         /\ Ids(s) = Ids(SubSeq(s, 1, n)) \cup Ids(SubSeq(s, n + 1, Len(s)))
         /\ Sorted(s) => Sorted(SubSeq(s, 1, n))
<1>1. Len(s) \in Nat /\ DOMAIN s = 1..Len(s)
  OBVIOUS
<1>2. /\ SubSeq(s, 1, n) \in Seq(Entry) /\ DOMAIN SubSeq(s, 1, n) = 1..n
      /\ \A i \in 1..n : SubSeq(s, 1, n)[i] = s[i]
  BY <1>1
<1>3. /\ DOMAIN SubSeq(s, n + 1, Len(s)) = 1..(Len(s) - n)
      /\ \A i \in 1..(Len(s) - n) : SubSeq(s, n + 1, Len(s))[i] = s[i + n]
  BY <1>1
<1>4. Ids(s) = Ids(SubSeq(s, 1, n)) \cup Ids(SubSeq(s, n + 1, Len(s)))
  <2>1. \A i \in 1..Len(s) : \/ i \in 1..n
                             \/ i - n \in 1..(Len(s) - n) /\ s[i] = SubSeq(s, n + 1, Len(s))[i - n]
    BY <1>1, <1>3
  <2>2. \A i \in 1..(Len(s) - n) : i + n \in 1..Len(s)
    BY <1>1
  <2>3. Ids(SubSeq(s, 1, n)) \subseteq Ids(s)
    BY <1>1, <1>2 DEF Ids
  <2>4. Ids(SubSeq(s, n + 1, Len(s))) \subseteq Ids(s)
    BY <1>1, <1>3, <2>2 DEF Ids
  <2>5. \A i \in DOMAIN s :
          s[i].id \in Ids(SubSeq(s, 1, n)) \cup Ids(SubSeq(s, n + 1, Len(s)))
    BY <1>1, <1>2, <1>3, <2>1 DEF Ids
  <2> QED BY <2>3, <2>4, <2>5 DEF Ids
<1>5. Sorted(s) => Sorted(SubSeq(s, 1, n))
  BY <1>1, <1>2 DEF Sorted
<1> QED BY <1>2, <1>4, <1>5

\* The ring buffer has room for an entry at least, and keeps its size.
LEMMA Sizes ==
  ASSUME TypeOK
  PROVE  /\ MemSize \in Nat /\ BufferSize \in Nat \ {0} /\ MemSize <= BufferSize
         /\ UNCHANGED scenario => UNCHANGED <<MemSize, BufferSize>>
<1>1. scenario.memSize \in Nat
  BY DEF TypeOK
<1> QED BY <1>1 DEF MemSize, BufferSize

-----------------------------------------------------------------------------
(* Steps that move no entry.                                                *)

Contents == <<added, buffer, batch, log, old>>

\* Order and numbers are those of the contents.
LEMMA SameContents ==
  ASSUME LogInv, UNCHANGED Contents
  PROVE  /\ SortedOK' /\ OrderOK' /\ NumbersOK'
         /\ UNCHANGED ghosts => NothingVanishes'
         /\ UNCHANGED <<clearing, ghosts>> => ClearOK'
         /\ UNCHANGED searcher => SearchOK'
<1>1. SortedOK' /\ OrderOK' /\ NumbersOK'
  BY DEF LogInv, Contents, SortedOK, OrderOK, NumbersOK, InFiles
<1>2. UNCHANGED ghosts => NothingVanishes'
  BY DEF LogInv, Contents, NothingVanishes, Present, ghosts
<1>3. UNCHANGED <<clearing, ghosts>> => ClearOK'
  BY DEF LogInv, Contents, ClearOK, InFiles, ghosts
<1>4. UNCHANGED searcher => SearchOK'
  BY DEF LogInv, Contents, SearchOK, SearchMissesOnlyRenamed, InFiles, searcher
<1> QED BY <1>1, <1>2, <1>3, <1>4

\* Before the first query there is nothing.
LEMMA InitOK == Init => LogInv
<1> SUFFICES ASSUME Init PROVE LogInv
  OBVIOUS
<1>1. TypeOK
  <2>0. BufferSize \in Nat
    BY DEF Init, BufferSize, MemSize
  <2>1. <<>> \in Seq(Entry) /\ Len(<<>>) = 0
    OBVIOUS
  <2>2. NoFile \in File /\ batch \in [Flushers -> Seq(Entry)]
    BY <2>1 DEF NoFile, File, Init
  <2>3. buffer \in Seq(Entry) /\ Len(buffer) <= BufferSize
    BY <2>1, <2>0 DEF Init
  <2>4. pc \in [Flushers -> {"idle"}] /\ handle \in [Flushers -> {"none"}]
    BY DEF Init
  <2>5. now \in 0..MaxNow /\ added \in 0..MaxEntries /\ nextCheck \in 0..(MaxNow + RotationCheckIvl)
    BY DEF Init
  <2> QED BY <2>2, <2>3, <2>4, <2>5 DEF Init, TypeOK
<1>2. LockOK /\ FlusherOK /\ PendingOK
  BY DEF Init, LockOK, FlusherOK, PendingOK, FlushOnItsWay, FullMeansPending, BufferSize, MemSize, PendingHasFlusher
<1>3. /\ Ids(buffer) = {} /\ Ids(log.lines) = {} /\ Ids(old.lines) = {}
      /\ \A f \in Flushers : Ids(batch[f]) = {}
  BY IdsEmpty DEF Init, NoFile
<1>4. SortedOK
  BY IdsEmpty DEF Init, NoFile, SortedOK
<1>5. OrderOK /\ NumbersOK /\ ClearOK /\ SearchOK
  BY <1>3 DEF Init, OrderOK, NumbersOK, ClearOK, SearchOK, SearchMissesOnlyRenamed, InFiles, Below
<1>6. NothingVanishes
  BY DEF Init, NothingVanishes
<1> QED BY <1>1, <1>2, <1>4, <1>5, <1>6 DEF LogInv

\* A shutdown starts a flush.
LEMMA ShutdownOK ==
  ASSUME LogInv, NEW f \in Flushers, Shutdown(f), UNCHANGED scenario
  PROVE  LogInv'
<1>1. TypeOK'
  BY DEF LogInv, TypeOK, BufferSize, MemSize, Shutdown, files, rotation, ghosts, searcher
<1>2. LockOK' /\ FlusherOK' /\ PendingOK'
  BY DEF LogInv, TypeOK, Shutdown, files, LockOK, FlusherOK, PendingOK, FlushOnItsWay,
         FullMeansPending, BufferSize, MemSize, PendingHasFlusher
<1>3. UNCHANGED Contents /\ UNCHANGED <<clearing, ghosts, searcher>>
  BY DEF Shutdown, Contents, files
<1> QED BY <1>1, <1>2, <1>3, SameContents DEF LogInv

\* The lock goes to a goroutine only when nobody has it.
LEMMA LockStepOK ==
  ASSUME LogInv, NEW f \in Flushers, Lock(f), UNCHANGED scenario
  PROVE  LogInv'
<1>1. TypeOK'
  BY DEF LogInv, TypeOK, BufferSize, MemSize, Lock, Goto, files, rotation, ghosts, searcher
<1>2. LockOK' /\ FlusherOK' /\ PendingOK'
  BY DEF LogInv, TypeOK, Lock, Goto, Free, Clearer, files, LockOK, FlusherOK, PendingOK,
         FlushOnItsWay, FullMeansPending, BufferSize, MemSize, PendingHasFlusher
<1>3. UNCHANGED Contents /\ UNCHANGED <<clearing, ghosts, searcher>>
  BY DEF Lock, Contents, files
<1> QED BY <1>1, <1>2, <1>3, SameContents DEF LogInv

\* A clear request waits for the lock, and gets it only when nobody has it.
LEMMA ClearWaitOK ==
  ASSUME LogInv, HandleClear \/ ClearLock, UNCHANGED scenario
  PROVE  LogInv'
<1>1. TypeOK'
  BY DEF LogInv, TypeOK, BufferSize, MemSize, HandleClear, ClearLock, files, flusher, rotation, ghosts, searcher
<1>2. LockOK' /\ FlusherOK' /\ PendingOK'
  BY DEF LogInv, TypeOK, HandleClear, ClearLock, Free, Clearer, files, flusher, LockOK,
         FlusherOK, PendingOK, FlushOnItsWay, FullMeansPending, BufferSize, MemSize, PendingHasFlusher
<1>3. UNCHANGED Contents /\ UNCHANGED <<ghosts, searcher>>
  BY DEF HandleClear, ClearLock, Contents, files, flusher
<1>4. ClearOK'
  BY <1>3 DEF LogInv, ClearOK, HandleClear, ClearLock, InFiles, Contents, ghosts
<1> QED BY <1>1, <1>2, <1>3, <1>4, SameContents DEF LogInv

\* The ticker and the clock move no entry.
LEMMA ClockOK ==
  ASSUME LogInv, CheckAndRotate \/ Tick, UNCHANGED scenario
  PROVE  LogInv'
<1>1. TypeOK'
  <2>1. CASE CheckAndRotate
    <3>1. nextCheck' \in 0..(MaxNow + RotationCheckIvl) /\ rotating' \in BOOLEAN
      BY <2>1 DEF LogInv, TypeOK, CheckAndRotate, OldEnough
    <3> QED BY <2>1, <3>1 DEF LogInv, TypeOK, BufferSize, MemSize, CheckAndRotate, files, flusher, ghosts, searcher
  <2>2. CASE Tick
    BY <2>2 DEF LogInv, TypeOK, BufferSize, MemSize, Tick, files, flusher, rotation, ghosts, searcher
  <2> QED BY <2>1, <2>2
<1>2. LockOK' /\ FlusherOK' /\ PendingOK'
  BY DEF LogInv, CheckAndRotate, Tick, files, flusher, LockOK,
         FlusherOK, PendingOK, FlushOnItsWay, FullMeansPending, BufferSize, MemSize, PendingHasFlusher
<1>3. UNCHANGED Contents /\ UNCHANGED <<clearing, ghosts, searcher>>
  BY DEF CheckAndRotate, Tick, Contents, files, flusher
<1> QED BY <1>1, <1>2, <1>3, SameContents DEF LogInv

\* A search: what it has read it no longer looks for.
LEMMA SearchStepOK ==
  ASSUME LogInv, Search, UNCHANGED scenario
  PROVE  LogInv'
<1>1. UNCHANGED quietSearch
  BY DEF Search, SearchMemory, OpenOld, OpenLog, SearchFails
<1>2. InFiles \subseteq 1..MaxEntries
  BY IdsType DEF LogInv, TypeOK, File, InFiles
<1>3. TypeOK'
  <2>1. /\ due' \cup missed' \subseteq due \cup missed \cup InFiles
        /\ renamed' \subseteq renamed
        /\ search' \in {"idle", "openOld", "openLog"}
    BY DEF Search, SearchMemory, OpenOld, OpenLog, SearchFails
  <2> QED BY <1>1, <1>2, <2>1 DEF LogInv, TypeOK, BufferSize, MemSize, quietSearch, files, flusher,
                                  rotation, ghosts
<1>4. LockOK' /\ FlusherOK' /\ PendingOK'
  BY <1>1 DEF LogInv, quietSearch, files, flusher, LockOK,
         FlusherOK, PendingOK, FlushOnItsWay, FullMeansPending, BufferSize, MemSize, PendingHasFlusher
<1>5. UNCHANGED Contents /\ UNCHANGED <<clearing, ghosts>>
  BY <1>1 DEF quietSearch, Contents, files, flusher
<1>6. /\ InFiles \subseteq 1..added
      /\ \A f \in Flushers : InFiles \cap Ids(batch[f]) = {}
  BY <1>2, IdsType DEF LogInv, TypeOK, NumbersOK, OrderOK, Below
<1>7. InFiles \cap Ids(buffer) = {}
  BY <1>2, IdsType DEF LogInv, TypeOK, OrderOK, Below
<1>8. SearchOK'
  <2>1. CASE SearchMemory
    BY <1>5, <1>6, <1>7, <2>1 DEF LogInv, SearchOK, SearchMissesOnlyRenamed, SearchMemory, Contents, InFiles
  <2>2. CASE OpenOld
    BY <1>5, <2>2 DEF LogInv, SearchOK, SearchMissesOnlyRenamed, OpenOld, SearchFails, Contents, InFiles
  <2>3. CASE OpenLog
    BY <1>5, <2>3 DEF LogInv, SearchOK, SearchMissesOnlyRenamed, OpenLog, SearchFails, Contents, InFiles
  <2> QED BY <2>1, <2>2, <2>3 DEF Search
<1> QED BY <1>3, <1>4, <1>5, <1>8, SameContents DEF LogInv

-----------------------------------------------------------------------------
(* Steps that move entries.                                                 *)

\* The numbers of all parts are integers, and what nobody holds is empty.
LEMMA Parts ==
  ASSUME LogInv
  PROVE  /\ Ids(buffer) \subseteq Nat /\ Ids(log.lines) \subseteq Nat /\ Ids(old.lines) \subseteq Nat
         /\ \A f \in Flushers : Ids(batch[f]) \subseteq Nat
         /\ \A f \in Flushers : pc[f] \notin {"open", "write"} => Ids(batch[f]) = {}
         /\ added \in Nat
<1>1. added \in Nat
  BY DEF LogInv, TypeOK
<1>2. \A f \in Flushers : pc[f] \notin {"open", "write"} => Ids(batch[f]) = {}
  BY IdsEmpty DEF LogInv, FlusherOK
<1> QED BY <1>1, <1>2 DEF LogInv, NumbersOK, InFiles

\* Add: the new entry has the highest number; only the oldest is overwritten.
LEMMA AddOK ==
  ASSUME LogInv, Add, UNCHANGED scenario
  PROVE  LogInv'
<1> DEFINE E == Ids(buffer)
<1>0. /\ MemSize \in Nat /\ BufferSize \in Nat \ {0} /\ MemSize <= BufferSize
      /\ BufferSize' = BufferSize
  BY Sizes DEF LogInv
<1>1. PICK lag \in 0..StampLag : /\ lag <= now
                                /\ buffer' = Push(buffer, [id |-> added + 1, time |-> now - lag])
  BY DEF Add
<1> DEFINE e == [id |-> added + 1, time |-> now - lag]
<1>2. /\ added' = added + 1 /\ added < MaxEntries /\ added \in Nat
      /\ buffer' = Push(buffer, e)
      /\ lost' = lost \cup (Ids(buffer) \ Ids(buffer'))
      /\ UNCHANGED <<now, batch, handle, holder, log, old, clearing, nextCheck, rotating,
                     search, due, renamed, missed, wiped, doomed, scenario>>
  BY <1>1, Parts DEF Add, files, rotation, searcher
<1>3. e \in Entry /\ e.id = added + 1
  BY <1>1, <1>2 DEF LogInv, TypeOK, Entry
<1> HIDE DEF e
<1>4. buffer \in Seq(Entry) /\ Len(buffer) <= BufferSize /\ Sorted(buffer)
      /\ E \subseteq 1..added
  BY DEF LogInv, TypeOK, SortedOK, NumbersOK
<1>5. /\ buffer' \in Seq(Entry) /\ buffer' # <<>>
      /\ Sorted(buffer')
      /\ Ids(buffer') \subseteq E \cup {added + 1} /\ added + 1 \in Ids(buffer')
      /\ Len(buffer') = IF Len(buffer) < BufferSize THEN Len(buffer) + 1 ELSE BufferSize
  <2>1. CASE Len(buffer) < BufferSize
    <3>1. buffer' = Append(buffer, e) /\ Below(E, {e.id})
      BY <1>2, <1>3, <1>4, <2>1 DEF Push, Below
    <3>2. Len(Append(buffer, e)) = Len(buffer) + 1
      BY <1>4
    <3> QED BY <1>3, <1>4, <2>1, <3>1, <3>2, IdsAppend
  <2>2. CASE ~(Len(buffer) < BufferSize)
    <3>0. buffer # <<>>
      BY <1>0, <1>4, <2>2
    <3>1. /\ Tail(buffer) \in Seq(Entry) /\ Len(Tail(buffer)) = Len(buffer) - 1
          /\ Ids(Tail(buffer)) \subseteq E /\ Sorted(Tail(buffer))
      BY <1>4, <3>0, IdsTail
    <3>2. buffer' = Append(Tail(buffer), e) /\ Below(Ids(Tail(buffer)), {e.id})
      BY <1>2, <1>3, <1>4, <2>2, <3>1 DEF Push, Below
    <3>3. Len(Append(Tail(buffer), e)) = Len(buffer) - 1 + 1 /\ Append(Tail(buffer), e) # <<>>
      <4>1. \A t \in Seq(Entry) : Len(Append(t, e)) = Len(t) + 1
        BY <1>3
      <4>2. Len(Append(Tail(buffer), e)) = Len(buffer) - 1 + 1
        BY <3>1, <4>1
      <4>3. Len(buffer) \in Nat /\ Len(buffer) # 0
        BY <1>0, <1>4, <2>2
      <4>4. \A t : t = <<>> => Len(t) = 0
        OBVIOUS
      <4>5. Len(Append(Tail(buffer), e)) # 0
        BY <4>2, <4>3
      <4>6. Append(Tail(buffer), e) # <<>>
        BY <4>4, <4>5
      <4> QED BY <4>2, <4>6
    <3>4. Len(buffer) = BufferSize /\ Len(buffer') = BufferSize
      BY <1>0, <1>4, <2>2, <3>2, <3>3
    <3> QED BY <1>3, <3>1, <3>2, <3>3, <3>4, <2>2, IdsAppend
  <2> QED BY <2>1, <2>2
<1>6. /\ pc' \in [Flushers -> {"idle", "lock", "encode", "open", "write"}]
      /\ \A g \in Flushers : pc'[g] = pc[g] \/ (pc[g] = "idle" /\ pc'[g] = "lock")
  <2>1. pc \in [Flushers -> {"idle", "lock", "encode", "open", "write"}]
    BY DEF LogInv, TypeOK
  <2>2. CASE NeedsFlush
    <3>1. PICK f \in Flushers : pc[f] = "idle" /\ pc' = [pc EXCEPT ![f] = "lock"]
      BY <2>2 DEF Add
    <3> QED BY <2>1, <3>1
  <2>3. CASE ~NeedsFlush
    BY <2>1, <2>3 DEF Add
  <2> QED BY <2>2, <2>3
<1>6a. flushPending' \in BOOLEAN
  <2>1. flushPending' = TRUE \/ flushPending' = flushPending
    BY Zenon DEF Add
  <2>2. flushPending \in BOOLEAN
    BY Zenon DEF LogInv, TypeOK
  <2> QED BY <2>1, <2>2, Zenon
<1>7. TypeOK'
  <2>1. lost' \subseteq 1..MaxEntries
    BY <1>2, <1>4, IdsType DEF LogInv, TypeOK
  <2>2. Len(buffer') <= BufferSize
    BY <1>0, <1>4, <1>5
  <2>3. added' \in 0..MaxEntries
    BY <1>2
  <2> QED BY <1>2, <1>5, <1>6, <1>6a, <2>1, <2>2, <2>3 DEF LogInv, TypeOK, BufferSize, MemSize
<1>8. LockOK' /\ FlusherOK'
  BY <1>2, <1>6 DEF LogInv, LockOK, FlusherOK
<1>9. PendingOK'
  <2>1. CASE NeedsFlush
    <3>1. flushPending' /\ \E f \in Flushers : pc'[f] = "lock"
      BY <2>1 DEF Add, LogInv, TypeOK
    <3> QED BY <1>5, <3>1 DEF PendingOK, FlushOnItsWay, FullMeansPending, BufferSize, MemSize, PendingHasFlusher
  <2>2. CASE ~NeedsFlush
    <3>1. UNCHANGED <<flushPending, pc>>
      BY <2>2 DEF Add
    <3>2. FullMeansPending'
      <4>1. CASE ~scenario.fileEnabled
        BY <1>2, <4>1 DEF FullMeansPending
      <4>2. CASE flushPending
        BY <3>1, <4>2 DEF FullMeansPending
      <4>3. CASE ~(Len(buffer) + 1 >= MemSize)
        <5>1. Len(buffer') < BufferSize'
          BY <1>0, <1>4, <1>5, <4>3
        <5> QED BY <1>0, <5>1 DEF FullMeansPending
      <4> QED BY <2>2, <4>1, <4>2, <4>3 DEF NeedsFlush
    <3> QED BY <1>5, <3>1, <3>2 DEF LogInv, PendingOK, FlushOnItsWay, PendingHasFlusher
  <2> QED BY <2>1, <2>2
<1>10. SortedOK'
  BY <1>2, <1>5 DEF LogInv, SortedOK
<1>11. NumbersOK' /\ OrderOK'
  <2>1. /\ InFiles' = InFiles /\ InFiles \subseteq 1..added
        /\ \A f \in Flushers : batch'[f] = batch[f] /\ Ids(batch[f]) \subseteq 1..added
    BY <1>2 DEF LogInv, NumbersOK, InFiles
  <2>2. NumbersOK'
    <3>1. 1..added \subseteq 1..added' /\ added + 1 \in 1..added'
      BY <1>2
    <3>2. Ids(buffer') \subseteq 1..added'
      BY <1>4, <1>5, <3>1
    <3> QED BY <2>1, <3>1, <3>2 DEF NumbersOK
  <2>3. \A S : S \subseteq 1..added /\ Below(S, E) => Below(S, Ids(buffer'))
    BY <1>2, <1>4, <1>5 DEF Below
  <2>4. OrderOK'
    BY <1>2, <2>1, <2>3 DEF LogInv, OrderOK
  <2> QED BY <2>2, <2>4
<1>12. ClearOK' /\ SearchOK'
  BY <1>2, <1>4, <1>5, Parts DEF LogInv, ClearOK, SearchOK, SearchMissesOnlyRenamed, InFiles
<1>13. NothingVanishes'
  <2>1. 1..added' = 1..added \cup {added + 1}
    BY <1>2
  <2> QED BY <1>2, <1>5, <2>1 DEF LogInv, NothingVanishes, Present
<1> QED BY <1>7, <1>8, <1>9, <1>10, <1>11, <1>12, <1>13 DEF LogInv

\* encodeEntries: the buffer becomes the batch.
LEMMA EncodeOK ==
  ASSUME LogInv, NEW f \in Flushers, Encode(f), UNCHANGED scenario
  PROVE  LogInv'
<1>1. CASE buffer = <<>>
  <2>1. /\ pc' = [pc EXCEPT ![f] = "idle"] /\ holder' = Free /\ pc[f] = "encode"
        /\ UNCHANGED <<buffer, flushPending, batch, now, added, handle, files, clearing,
                       rotation, ghosts, searcher>>
    BY <1>1 DEF Encode, Goto
  <2>2. TypeOK'
    BY <2>1 DEF LogInv, TypeOK, BufferSize, MemSize, files, rotation, ghosts, searcher
  <2>3. LockOK' /\ FlusherOK' /\ PendingOK'
    BY <1>1, <2>1 DEF LogInv, TypeOK, files, LockOK, FlusherOK, Clearer, PendingOK,
                      FlushOnItsWay, FullMeansPending, BufferSize, MemSize, PendingHasFlusher
  <2>4. UNCHANGED Contents
    BY <2>1 DEF Contents, files
  <2> QED BY <2>1, <2>2, <2>3, <2>4, SameContents DEF LogInv
<1>2. CASE buffer # <<>>
  <2>1. /\ batch' = [batch EXCEPT ![f] = buffer] /\ buffer' = <<>>
        /\ flushPending' = FALSE /\ pc' = [pc EXCEPT ![f] = "open"] /\ pc[f] = "encode"
        /\ UNCHANGED <<holder, now, added, handle, log, old, clearing,
                       rotation, ghosts, searcher>>
    BY <1>2 DEF Encode, Goto, files
  <2>2. TypeOK'
    <3>1. buffer' \in Seq(Entry) /\ Len(buffer') <= BufferSize
      BY <2>1, Sizes DEF LogInv
    <3> QED BY <2>1, <3>1 DEF LogInv, TypeOK, BufferSize, MemSize, rotation, ghosts, searcher
  <2>3. LockOK' /\ FlusherOK'
    BY <2>1 DEF LogInv, TypeOK, LockOK, FlusherOK
  <2>4. PendingOK'
    <3>1. Len(<<>>) = 0
      OBVIOUS
    <3> QED BY <2>1, <3>1 DEF PendingOK, FlushOnItsWay, FullMeansPending, BufferSize, MemSize, PendingHasFlusher
  <2>5. /\ Ids(buffer') = {} /\ Sorted(buffer') /\ Ids(batch[f]) = {}
        /\ \A g \in Flushers : batch'[g] = IF g = f THEN buffer ELSE batch[g]
    BY <2>1, IdsEmpty, Parts DEF LogInv, TypeOK
  <2>6. SortedOK'
    BY <2>1, <2>5 DEF LogInv, SortedOK
  <2>7. OrderOK' /\ NumbersOK'
    BY <2>1, <2>5 DEF LogInv, OrderOK, NumbersOK, InFiles, Below
  <2>8. ClearOK' /\ SearchOK'
    BY <2>1, <2>5 DEF LogInv, ClearOK, SearchOK, SearchMissesOnlyRenamed, InFiles, ghosts, searcher
  <2>9. NothingVanishes'
    <3>1. Present \subseteq Present'
      BY <2>1, <2>5 DEF Present
    <3> QED BY <2>1, <3>1 DEF LogInv, NothingVanishes, ghosts
  <2> QED BY <2>2, <2>3, <2>4, <2>6, <2>7, <2>8, <2>9 DEF LogInv
<1> QED BY <1>1, <1>2

\* Only one goroutine at a time has entries and a file.
LEMMA Alone ==
  ASSUME LogInv, NEW f \in Flushers, NEW g \in Flushers, f # g,
         pc[f] \in {"encode", "open", "write"}
  PROVE  batch[g] = <<>> /\ Ids(batch[g]) = {} /\ handle[g] = "none"
  BY IdsEmpty DEF LogInv, LockOK, FlusherOK

\* Nobody has entries or a file while a clear has the lock.
LEMMA NobodyWrites ==
  ASSUME LogInv, clearing \in {"buffer", "removeOld", "removeLog"}, NEW f \in Flushers
  PROVE  batch[f] = <<>> /\ Ids(batch[f]) = {} /\ handle[f] = "none"
  BY IdsEmpty DEF LogInv, LockOK, FlusherOK, Clearer

\* End: the goroutine gives up its entries, its file and the lock.
LEMMA EndOK ==
  ASSUME LogInv, NEW f \in Flushers, End(f), pc[f] \in {"open", "write"},
         UNCHANGED <<clearing, flushPending, buffer, scenario>>
  PROVE  /\ pc' \in [Flushers -> {"idle", "lock", "encode", "open", "write"}]
         /\ batch' \in [Flushers -> Seq(Entry)]
         /\ handle' \in [Flushers -> {"none", "log", "old", "unlinked"}]
         /\ holder' \in Flushers \cup {Free, Clearer}
         /\ \A g \in Flushers : batch'[g] = <<>> /\ Ids(batch'[g]) = {} /\ handle'[g] = "none"
         /\ LockOK' /\ FlusherOK' /\ PendingOK'
<1>1. /\ pc' = [pc EXCEPT ![f] = "idle"] /\ batch' = [batch EXCEPT ![f] = <<>>]
      /\ handle' = [handle EXCEPT ![f] = "none"] /\ holder' = Free
  BY DEF End, Goto
<1>2. <<>> \in Seq(Entry)
  OBVIOUS
<1>3. /\ pc' \in [Flushers -> {"idle", "lock", "encode", "open", "write"}]
      /\ batch' \in [Flushers -> Seq(Entry)]
      /\ handle' \in [Flushers -> {"none", "log", "old", "unlinked"}]
      /\ holder' \in Flushers \cup {Free, Clearer}
  BY <1>1, <1>2 DEF LogInv, TypeOK
<1>4. \A g \in Flushers : batch'[g] = <<>> /\ Ids(batch'[g]) = {} /\ handle'[g] = "none"
  BY <1>1, Alone, IdsEmpty DEF LogInv, TypeOK
<1>5. \A g \in Flushers : pc'[g] \in {"idle", "lock"}
  BY <1>1 DEF LogInv, TypeOK, LockOK
<1>6. LockOK' /\ FlusherOK'
  BY <1>4, <1>5 DEF LogInv, LockOK, FlusherOK, Clearer
<1>7. PendingOK'
  BY <1>1 DEF LogInv, TypeOK, PendingOK, FlushOnItsWay, FullMeansPending, BufferSize, MemSize, PendingHasFlusher
<1> QED BY <1>3, <1>4, <1>6, <1>7

\* flushToFile opens, and makes, querylog.json; or it fails and loses the batch.
LEMMA OpenFileOK ==
  ASSUME LogInv, NEW f \in Flushers, OpenFile(f), UNCHANGED scenario
  PROVE  LogInv'
<1>1. CASE /\ log' = [log EXCEPT !.exists = TRUE]
           /\ handle' = [handle EXCEPT ![f] = "log"]
           /\ pc' = [pc EXCEPT ![f] = "write"]
           /\ UNCHANGED <<batch, holder, lost>>
  <2>1. /\ pc[f] = "open"
        /\ UNCHANGED <<now, added, buffer, flushPending, old, clearing, nextCheck, rotating,
                       wiped, doomed, search, due, renamed, missed>>
    BY DEF OpenFile, rotation, searcher
  <2>2. log' \in File /\ log'.lines = log.lines
    BY <1>1 DEF LogInv, TypeOK, File
  <2>3. TypeOK'
    BY <1>1, <2>1, <2>2 DEF LogInv, TypeOK, BufferSize, MemSize
  <2>4. LockOK' /\ PendingOK'
    BY <1>1, <2>1 DEF LogInv, TypeOK, LockOK, PendingOK, FlushOnItsWay, FullMeansPending, BufferSize, MemSize,
                      PendingHasFlusher
  <2>5. FlusherOK'
    BY <1>1, <2>1, Alone DEF LogInv, TypeOK, FlusherOK
  <2>6. SortedOK' /\ OrderOK' /\ NumbersOK' /\ ClearOK' /\ NothingVanishes'
    <3>1. InFiles' = InFiles /\ Present' = Present
      BY <1>1, <2>1, <2>2 DEF Present, InFiles
    <3>2. SortedOK' /\ OrderOK' /\ NumbersOK'
      BY <1>1, <2>1, <2>2, <3>1 DEF LogInv, SortedOK, OrderOK, NumbersOK
    <3>3. ClearOK' /\ NothingVanishes'
      BY <1>1, <2>1, <3>1 DEF LogInv, ClearOK, NothingVanishes
    <3> QED BY <3>2, <3>3
  <2>7. SearchOK'
    BY <1>1, <2>1, <2>2 DEF LogInv, SearchOK, SearchMissesOnlyRenamed, InFiles
  <2> QED BY <2>3, <2>4, <2>5, <2>6, <2>7 DEF LogInv
<1>2. CASE lost' = lost \cup Ids(batch[f]) /\ End(f) /\ UNCHANGED log
  <2>1. /\ pc[f] = "open"
        /\ UNCHANGED <<now, added, buffer, flushPending, old, clearing, nextCheck, rotating,
                       wiped, doomed, search, due, renamed, missed>>
    BY DEF OpenFile, rotation, searcher
  <2>2. lost' \subseteq 1..MaxEntries
    BY <1>2, IdsType DEF LogInv, TypeOK
  <2>3. TypeOK'
    BY <1>2, <2>1, <2>2, EndOK DEF LogInv, TypeOK, BufferSize, MemSize
  <2>4. LockOK' /\ FlusherOK' /\ PendingOK'
    BY <1>2, <2>1, EndOK
  <2>5. \A g \in Flushers : batch'[g] = <<>> /\ Ids(batch'[g]) = {}
    BY <1>2, <2>1, EndOK
  <2>6. SortedOK'
    BY <1>2, <2>1, <2>5, IdsEmpty DEF LogInv, SortedOK
  <2>7. OrderOK' /\ NumbersOK' /\ ClearOK' /\ SearchOK'
    BY <1>2, <2>1, <2>5 DEF LogInv, OrderOK, NumbersOK, ClearOK, SearchOK,
       SearchMissesOnlyRenamed, InFiles, Below
  <2>8. NothingVanishes'
    BY <1>2, <2>1, <2>5, Alone DEF LogInv, NothingVanishes, Present
  <2> QED BY <2>3, <2>4, <2>6, <2>7, <2>8 DEF LogInv
<1> QED BY <1>1, <1>2 DEF OpenFile, Goto

\* f.Write: the entries go to the end of querylog.json, or of querylog.json.1
\* if that is its name now; the rest of a failed write is lost.
LEMMA WriteFileOK ==
  ASSUME LogInv, NEW f \in Flushers, WriteFile(f), UNCHANGED scenario
  PROVE  LogInv'
<1>1. PICK n \in 0..Len(batch[f]) :
        /\ log' = Appended(log, f, "log", n)
        /\ old' = Appended(old, f, "old", n)
        /\ lost' = lost \cup Ids(SubSeq(batch[f], n + 1, Len(batch[f])))
  BY DEF WriteFile
<1>2. /\ pc[f] = "write" /\ End(f)
      /\ UNCHANGED <<now, added, buffer, flushPending, clearing, nextCheck, rotating,
                     wiped, doomed, search, due, renamed, missed>>
  BY DEF WriteFile, rotation, searcher
<1> DEFINE w == SubSeq(batch[f], 1, n)
           r == Ids(SubSeq(batch[f], n + 1, Len(batch[f])))
<1>3. /\ batch[f] \in Seq(Entry) /\ Sorted(batch[f])
      /\ log \in File /\ old \in File /\ handle[f] \in {"log", "old"}
      /\ log.lines \in Seq(Entry) /\ old.lines \in Seq(Entry)
  BY <1>2 DEF LogInv, TypeOK, SortedOK, FlusherOK, File
<1>4. w \in Seq(Entry) /\ Sorted(w) /\ Ids(batch[f]) = Ids(w) \cup r /\ lost' = lost \cup r
  BY <1>1, <1>3, IdsCut
<1> HIDE DEF w, r
<1>5. /\ \A g \in Flushers : batch'[g] = <<>> /\ Ids(batch'[g]) = {}
      /\ LockOK' /\ FlusherOK' /\ PendingOK'
      /\ pc' \in [Flushers -> {"idle", "lock", "encode", "open", "write"}]
      /\ batch' \in [Flushers -> Seq(Entry)]
      /\ handle' \in [Flushers -> {"none", "log", "old", "unlinked"}]
      /\ holder' \in Flushers \cup {Free, Clearer}
  BY <1>2, EndOK
<1>6. /\ Below(InFiles, Ids(w)) /\ Below(Ids(w), Ids(buffer)) /\ Ids(w) \subseteq 1..added
      /\ Below(Ids(log.lines), Ids(w)) /\ Below(Ids(old.lines), Ids(w))
      /\ (due \cup missed) \cap Ids(w) = {}
  BY <1>4 DEF LogInv, OrderOK, NumbersOK, SearchOK, Below, InFiles
<1> DEFINE Filed ==
      /\ log' \in File /\ old' \in File
      /\ Sorted(log'.lines) /\ Sorted(old'.lines)
      /\ Below(Ids(old'.lines), Ids(log'.lines))
      /\ due \cap Ids(old'.lines) = due \cap Ids(old.lines) /\ missed \cap Ids(old'.lines) = missed \cap Ids(old.lines)
      /\ InFiles' = InFiles \cup Ids(w)
<1>7. ASSUME handle[f] = "log" PROVE Filed
  <2>1. log' = [log EXCEPT !.lines = log.lines \o w] /\ old' = old
    BY <1>1, <1>7 DEF Appended, w
  <2>2. /\ log.lines \o w \in Seq(Entry) /\ Sorted(log.lines \o w)
        /\ Ids(log.lines \o w) = Ids(log.lines) \cup Ids(w)
    BY <1>3, <1>4, <1>6, IdsConcat DEF LogInv, SortedOK
  <2>3. /\ log' \in File /\ old' \in File
        /\ Sorted(log'.lines) /\ Sorted(old'.lines)
        /\ Ids(log'.lines) = Ids(log.lines) \cup Ids(w) /\ Ids(old'.lines) = Ids(old.lines)
    BY <1>3, <2>1, <2>2 DEF File, LogInv, SortedOK
  <2>4. Below(Ids(old'.lines), Ids(log'.lines))
    BY <1>6, <2>3 DEF LogInv, OrderOK, Below
  <2>5. due \cap Ids(old'.lines) = due \cap Ids(old.lines) /\ missed \cap Ids(old'.lines) = missed \cap Ids(old.lines)
    BY <2>3
  <2>6. InFiles' = InFiles \cup Ids(w)
    BY <2>3 DEF InFiles
  <2> QED BY <2>3, <2>4, <2>5, <2>6
<1>8. ASSUME handle[f] = "old" PROVE Filed
  <2>1. old' = [old EXCEPT !.lines = old.lines \o w] /\ log' = log
    BY <1>1, <1>8 DEF Appended, w
  <2>2. /\ old.lines \o w \in Seq(Entry) /\ Sorted(old.lines \o w)
        /\ Ids(old.lines \o w) = Ids(old.lines) \cup Ids(w)
    BY <1>3, <1>4, <1>6, IdsConcat DEF LogInv, SortedOK
  <2>3. Ids(log.lines) = {}
    BY <1>8, IdsEmpty DEF LogInv, FlusherOK, NoFile
  <2>4. /\ log' \in File /\ old' \in File
        /\ Sorted(log'.lines) /\ Sorted(old'.lines)
        /\ Ids(old'.lines) = Ids(old.lines) \cup Ids(w) /\ Ids(log'.lines) = {}
    BY <1>3, <2>1, <2>2, <2>3 DEF File, LogInv, SortedOK
  <2>5. Below(Ids(old'.lines), Ids(log'.lines))
    BY <2>4 DEF Below
  <2>6. due \cap Ids(old'.lines) = due \cap Ids(old.lines) /\ missed \cap Ids(old'.lines) = missed \cap Ids(old.lines)
    BY <1>6, <2>4
  <2>7. InFiles' = InFiles \cup Ids(w)
    BY <2>3, <2>4 DEF InFiles
  <2> QED BY <2>4, <2>5, <2>6, <2>7
<1>9. Filed
  BY <1>3, <1>7, <1>8
<1>10. TypeOK'
  <2>1. lost' \subseteq 1..MaxEntries
    BY <1>3, <1>4, IdsType DEF LogInv, TypeOK
  <2> QED BY <1>2, <1>5, <1>9, <2>1 DEF LogInv, TypeOK, BufferSize, MemSize
<1>11. SortedOK'
  BY <1>2, <1>5, <1>9, IdsEmpty DEF LogInv, SortedOK
<1>12. OrderOK' /\ NumbersOK'
  BY <1>2, <1>5, <1>6, <1>9 DEF LogInv, OrderOK, NumbersOK, Below
<1>13. ClearOK'
  BY <1>2 DEF LogInv, ClearOK, LockOK, Clearer
<1>14. SearchOK'
  BY <1>2, <1>5, <1>6, <1>9 DEF LogInv, SearchOK, SearchMissesOnlyRenamed
<1>15. NothingVanishes'
  <2>1. Present' = Ids(buffer) \cup InFiles \cup Ids(w)
    BY <1>2, <1>5, <1>9 DEF Present, InFiles
  <2>2. Present = Ids(buffer) \cup InFiles \cup Ids(batch[f])
    BY <1>2, Alone DEF Present, InFiles
  <2> QED BY <1>2, <1>4, <2>1, <2>2 DEF LogInv, NothingVanishes
<1> QED BY <1>5, <1>10, <1>11, <1>12, <1>13, <1>14, <1>15 DEF LogInv

\* A clear empties the buffer and remembers what there is.
LEMMA ClearBufferOK ==
  ASSUME LogInv, ClearBuffer, UNCHANGED scenario
  PROVE  LogInv'
<1>1. /\ clearing = "buffer" /\ buffer' = <<>> /\ flushPending' = FALSE
      /\ doomed' = Present /\ clearing' = "removeOld"
      /\ UNCHANGED <<now, added, pc, batch, handle, holder, log, old, nextCheck, rotating,
                     lost, wiped, search, due, renamed, missed, scenario>>
  BY DEF ClearBuffer, flusher, files, rotation, searcher
<1>2. Ids(buffer') = {} /\ Sorted(buffer') /\ buffer' \in Seq(Entry) /\ Len(buffer') = 0
  BY <1>1, IdsEmpty
<1>3. Present \subseteq 1..MaxEntries
  <2>1. Ids(buffer) \subseteq 1..MaxEntries /\ Ids(log.lines) \subseteq 1..MaxEntries
    BY IdsType DEF LogInv, TypeOK, File
  <2>2. Ids(old.lines) \subseteq 1..MaxEntries /\ \A f \in Flushers : Ids(batch[f]) \subseteq 1..MaxEntries
    BY IdsType DEF LogInv, TypeOK, File
  <2> QED BY <2>1, <2>2 DEF Present
<1>4. TypeOK'
  <2>1. Len(buffer') <= BufferSize
    BY <1>2, Sizes DEF LogInv
  <2>2. flushPending' \in BOOLEAN /\ rotating' \in BOOLEAN
    BY <1>1, Zenon DEF LogInv, TypeOK
  <2>3. (lost \cup wiped \cup doomed)' \subseteq 1..MaxEntries
    BY <1>1, <1>3 DEF LogInv, TypeOK
  <2> QED BY <1>1, <1>2, <2>1, <2>2, <2>3 DEF LogInv, TypeOK, BufferSize, MemSize
<1>5. LockOK' /\ FlusherOK' /\ PendingOK'
  BY <1>1, <1>2 DEF LogInv, LockOK, FlusherOK, PendingOK, FlushOnItsWay, FullMeansPending, BufferSize, MemSize,
                    PendingHasFlusher
<1>6. SortedOK' /\ OrderOK' /\ NumbersOK' /\ ClearOK' /\ SearchOK'
  BY <1>1, <1>2 DEF LogInv, SortedOK, OrderOK, NumbersOK, ClearOK, SearchOK,
     SearchMissesOnlyRenamed, InFiles, Below, Present
<1>7. NothingVanishes'
  <2>1. doomed = {}
    BY <1>1 DEF LogInv, ClearOK
  <2> QED BY <1>1, <2>1 DEF LogInv, NothingVanishes
<1> QED BY <1>4, <1>5, <1>6, <1>7 DEF LogInv

\* A file that a clear removes is open nowhere, and all that was in it is doomed.
LEMMA RemoveOldOK ==
  ASSUME LogInv, RemoveOld, UNCHANGED scenario
  PROVE  LogInv'
<1>1. /\ clearing = "removeOld" /\ clearing' = "removeLog"
      /\ UNCHANGED <<now, added, buffer, flushPending, pc, batch, holder, log, nextCheck,
                     rotating, lost, wiped, doomed, search, due, renamed, missed, scenario>>
  BY DEF RemoveOld, rotation, ghosts, searcher
<1>2. handle' = handle
  <2>1. \A f \in Flushers : handle[f] = "none"
    BY <1>1, NobodyWrites
  <2> QED BY <2>1 DEF RemoveOld, Unlinked, LogInv, TypeOK
<1>3. /\ old' \in File /\ Sorted(old'.lines)
      /\ Ids(old'.lines) \subseteq Ids(old.lines)
  <2>1. CASE old' = NoFile
    <3>1. old'.lines = <<>> /\ old' \in File
      BY <2>1 DEF NoFile, File
    <3> QED BY <3>1, IdsEmpty
  <2>2. CASE old' = old
    BY <2>2 DEF LogInv, TypeOK, SortedOK
  <2> QED BY <2>1, <2>2 DEF RemoveOld
<1>4. TypeOK'
  BY <1>1, <1>2, <1>3 DEF LogInv, TypeOK, BufferSize, MemSize
<1>5. LockOK' /\ FlusherOK' /\ PendingOK'
  BY <1>1, <1>2 DEF LogInv, LockOK, FlusherOK, PendingOK, FlushOnItsWay, FullMeansPending, BufferSize, MemSize,
                    PendingHasFlusher
<1>6. SortedOK' /\ OrderOK' /\ NumbersOK' /\ ClearOK' /\ SearchOK'
  BY <1>1, <1>3 DEF LogInv, SortedOK, OrderOK, NumbersOK, ClearOK, SearchOK,
     SearchMissesOnlyRenamed, InFiles, Below
<1>7. NothingVanishes'
  BY <1>1 DEF LogInv, NothingVanishes, ClearOK, InFiles, Present
<1> QED BY <1>4, <1>5, <1>6, <1>7 DEF LogInv

\* The same for querylog.json; the clear is over.
LEMMA RemoveLogOK ==
  ASSUME LogInv, RemoveLog, UNCHANGED scenario
  PROVE  LogInv'
<1>1. /\ clearing = "removeLog" /\ clearing' = "idle" /\ holder' = Free
      /\ wiped' = wiped \cup doomed /\ doomed' = {}
      /\ UNCHANGED <<now, added, buffer, flushPending, pc, batch, old, nextCheck,
                     rotating, lost, search, due, renamed, missed, scenario>>
  BY DEF RemoveLog, rotation, searcher
<1>2. handle' = handle /\ \A f \in Flushers : handle[f] = "none"
  <2>1. \A f \in Flushers : handle[f] = "none"
    BY <1>1, NobodyWrites
  <2> QED BY <2>1 DEF RemoveLog, Unlinked, LogInv, TypeOK
<1>3. /\ log' \in File /\ Sorted(log'.lines)
      /\ Ids(log'.lines) \subseteq Ids(log.lines)
  <2>1. CASE log' = NoFile
    <3>1. log'.lines = <<>> /\ log' \in File
      BY <2>1 DEF NoFile, File
    <3> QED BY <3>1, IdsEmpty
  <2>2. CASE log' = log
    BY <2>2 DEF LogInv, TypeOK, SortedOK
  <2> QED BY <2>1, <2>2 DEF RemoveLog
<1>4. TypeOK'
  BY <1>1, <1>2, <1>3 DEF LogInv, TypeOK, BufferSize, MemSize
<1>5. \A f \in Flushers : pc[f] \notin {"encode", "open", "write"}
  BY <1>1 DEF LogInv, LockOK, Clearer
<1>6. LockOK' /\ FlusherOK' /\ PendingOK'
  BY <1>1, <1>2, <1>5 DEF LogInv, LockOK, FlusherOK, PendingOK, FlushOnItsWay,
                          FullMeansPending, BufferSize, MemSize, PendingHasFlusher
<1>7. SortedOK' /\ OrderOK' /\ NumbersOK' /\ ClearOK' /\ SearchOK'
  BY <1>1, <1>3 DEF LogInv, SortedOK, OrderOK, NumbersOK, ClearOK, SearchOK,
     SearchMissesOnlyRenamed, InFiles, Below
<1>8. NothingVanishes'
  BY <1>1 DEF LogInv, NothingVanishes, ClearOK, InFiles, Present
<1> QED BY <1>4, <1>6, <1>7, <1>8 DEF LogInv

\* A rename takes the open file along; the file that had the name is lost.
LEMMA RotateOK ==
  ASSUME LogInv, Rotate, UNCHANGED scenario
  PROVE  LogInv'
<1>1. /\ rotating' = FALSE
      /\ UNCHANGED <<now, added, buffer, flushPending, pc, batch, holder, clearing, nextCheck,
                     search, due, missed, wiped, doomed, scenario>>
  BY DEF Rotate
<1>2. LockOK' /\ PendingOK'
  BY <1>1 DEF LogInv, LockOK, PendingOK, FlushOnItsWay, FullMeansPending, BufferSize, MemSize, PendingHasFlusher
<1>3. CASE UNCHANGED <<files, handle, lost, renamed>>
  <2>1. TypeOK' /\ FlusherOK'
    BY <1>1, <1>3 DEF LogInv, TypeOK, BufferSize, MemSize, FlusherOK, files
  <2>2. UNCHANGED Contents /\ UNCHANGED <<clearing, ghosts, searcher>>
    BY <1>1, <1>3 DEF Contents, files, ghosts, searcher
  <2> QED BY <1>2, <2>1, <2>2, SameContents DEF LogInv
<1>4. CASE /\ log.exists /\ old' = log /\ log' = NoFile
           /\ handle' = [f \in Flushers |->
                IF handle[f] = "log" THEN "old" ELSE Unlinked("old")[f]]
           /\ lost' = lost \cup Ids(old.lines)
           /\ renamed' = IF search = "openLog" THEN Ids(log.lines) ELSE renamed
  <2>1. log # NoFile
    BY <1>4 DEF NoFile
  <2>2. \A f \in Flushers : handle[f] # "old"
    BY <2>1 DEF LogInv, FlusherOK
  <2>3. \A f \in Flushers : handle'[f] = IF handle[f] = "log" THEN "old" ELSE handle[f]
    BY <1>4, <2>2 DEF Unlinked
  <2>4. log' \in File /\ log'.lines = <<>>
    BY <1>4 DEF NoFile, File
  <2>5. Ids(log'.lines) = {} /\ Sorted(log'.lines)
    BY <2>4, IdsEmpty
  <2>6. TypeOK'
    <3>1. handle' \in [Flushers -> {"none", "log", "old", "unlinked"}]
      BY <1>4, <2>3 DEF LogInv, TypeOK
    <3>2. lost' \subseteq 1..MaxEntries
      BY <1>4, IdsType DEF LogInv, TypeOK, File
    <3>3. renamed' \subseteq 1..MaxEntries
      BY <1>4, IdsType DEF LogInv, TypeOK, File
    <3> QED BY <1>1, <1>4, <2>4, <3>1, <3>2, <3>3 DEF LogInv, TypeOK, BufferSize, MemSize
  <2>7. FlusherOK'
    BY <1>1, <1>4, <2>3 DEF LogInv, FlusherOK
  <2>8. SortedOK' /\ OrderOK' /\ NumbersOK' /\ ClearOK'
    BY <1>1, <1>4, <2>5 DEF LogInv, SortedOK, OrderOK, NumbersOK, ClearOK, InFiles, Below
  <2>9. SearchOK'
    BY <1>1, <1>4, <2>5 DEF LogInv, SearchOK, SearchMissesOnlyRenamed, InFiles
  <2>10. NothingVanishes'
    BY <1>1, <1>4 DEF LogInv, NothingVanishes, Present
  <2> QED BY <1>2, <2>6, <2>7, <2>8, <2>9, <2>10 DEF LogInv
<1> QED BY <1>3, <1>4 DEF Rotate

\* A kill loses what was in memory; the files are as they are.
LEMMA KillOK ==
  ASSUME LogInv, Kill, UNCHANGED scenario
  PROVE  LogInv'
<1>1. /\ lost' = lost \cup doomed \cup Ids(buffer) \cup UNION {Ids(batch[f]) : f \in Flushers}
      /\ buffer' = <<>> /\ flushPending' = FALSE /\ holder' = Free /\ clearing' = "idle"
      /\ pc' = [f \in Flushers |-> "idle"] /\ batch' = [f \in Flushers |-> <<>>]
      /\ handle' = [f \in Flushers |-> "none"]
      /\ nextCheck' = now /\ rotating' = FALSE /\ search' = "idle" /\ due' = {} /\ renamed' = {} /\ missed' = {} /\ doomed' = {}
      /\ UNCHANGED <<now, added, log, old, wiped, scenario>>
  BY DEF Kill, files
<1>2. /\ buffer' \in Seq(Entry) /\ Len(buffer') = 0 /\ Ids(buffer') = {} /\ Sorted(buffer')
      /\ batch' \in [Flushers -> Seq(Entry)]
      /\ \A f \in Flushers : Ids(batch'[f]) = {} /\ Sorted(batch'[f])
  BY <1>1, IdsEmpty
<1>3. TypeOK'
  <2>1. Ids(buffer) \subseteq 1..MaxEntries /\ \A f \in Flushers : Ids(batch[f]) \subseteq 1..MaxEntries
    BY IdsType DEF LogInv, TypeOK
  <2>2. lost' \subseteq 1..MaxEntries
    BY <1>1, <2>1 DEF LogInv, TypeOK
  <2>3. nextCheck' \in 0..(MaxNow + RotationCheckIvl)
    BY <1>1, QueryLogAssumption DEF LogInv, TypeOK
  <2>4. Len(buffer') <= BufferSize
    BY <1>2, Sizes DEF LogInv
  <2>5. flushPending' \in BOOLEAN /\ rotating' \in BOOLEAN
    BY <1>1, Zenon
  <2>6. pc' \in [Flushers -> {"idle", "lock", "encode", "open", "write"}]
    BY <1>1
  <2>7. handle' \in [Flushers -> {"none", "log", "old", "unlinked"}]
    BY <1>1
  <2>8. (lost \cup wiped \cup doomed)' \subseteq 1..MaxEntries
    BY <1>1, <2>2 DEF LogInv, TypeOK
  <2> QED BY <1>1, <1>2, <2>3, <2>4, <2>5, <2>6, <2>7, <2>8 DEF LogInv, TypeOK, BufferSize, MemSize
<1>4. LockOK' /\ FlusherOK' /\ PendingOK'
  BY <1>1, <1>2 DEF LockOK, FlusherOK, PendingOK, FlushOnItsWay, FullMeansPending, BufferSize, MemSize, PendingHasFlusher
<1>5. SortedOK' /\ OrderOK' /\ NumbersOK' /\ ClearOK' /\ SearchOK'
  BY <1>1, <1>2 DEF LogInv, SortedOK, OrderOK, NumbersOK, ClearOK, SearchOK,
     SearchMissesOnlyRenamed, InFiles, Below
<1>6. NothingVanishes'
  BY <1>1 DEF LogInv, NothingVanishes, Present
<1> QED BY <1>3, <1>4, <1>5, <1>6 DEF LogInv

-----------------------------------------------------------------------------
(* The theorems.                                                            *)

\* The inductive invariant holds in every state.
THEOREM LogInvariant == Spec => []LogInv
<1>1. LogInv /\ [Next]_vars => LogInv'
  <2> SUFFICES ASSUME LogInv, [Next]_vars PROVE LogInv'
    OBVIOUS
  <2>1. CASE UNCHANGED vars
    <3>1. /\ UNCHANGED <<scenario, now, added, buffer, flushPending, pc, batch, handle, holder>>
          /\ UNCHANGED <<log, old, clearing, nextCheck, rotating, search, due, renamed, missed, lost, wiped, doomed>>
      BY <2>1 DEF vars, state, flusher, files, rotation, searcher, ghosts
    <3>2. TypeOK'
      BY <3>1 DEF LogInv, TypeOK, BufferSize, MemSize
    <3>3. LockOK' /\ FlusherOK' /\ PendingOK'
      BY <3>1 DEF LogInv, LockOK, FlusherOK, PendingOK, FlushOnItsWay, FullMeansPending, BufferSize, MemSize,
                  PendingHasFlusher
    <3> QED BY <3>1, <3>2, <3>3, SameContents DEF LogInv, Contents, ghosts, searcher
  <2>2. ASSUME NEW f \in Flushers, Flush(f) \/ Shutdown(f), UNCHANGED scenario PROVE LogInv'
    BY <2>2, LockStepOK, EncodeOK, OpenFileOK, WriteFileOK, ShutdownOK DEF Flush
  <2>3. CASE (Add \/ HandleClear \/ Clear \/ CheckAndRotate) /\ UNCHANGED scenario
    BY <2>3, AddOK, ClearWaitOK, ClearBufferOK, RemoveOldOK, RemoveLogOK, ClockOK DEF Clear
  <2>4. CASE (Rotate \/ Search \/ Kill \/ Tick) /\ UNCHANGED scenario
    BY <2>4, RotateOK, SearchStepOK, KillOK, ClockOK
  <2> QED BY <2>1, <2>2, <2>3, <2>4 DEF Next
<1> QED BY <1>1, InitOK, PTL DEF Spec

\* The state of the query log stays well typed: the ring buffer never holds more
\* than its size, and files hold nothing but entries.
THEOREM TypeCorrect == Spec => []TypeOK
<1>1. LogInv => TypeOK
  BY DEF LogInv
<1> QED BY <1>1, LogInvariant, PTL

\* flushToFile against checkAndRotate: however goroutines, rotations and clears
\* interleave, entries are read back in the order of their pushes, none twice.
THEOREM InOrder == Spec => []EntriesInOrder
<1>1. LogInv => EntriesInOrder
  <2> SUFFICES ASSUME LogInv, NEW f \in Flushers PROVE Sorted(Everything(f))
    BY DEF EntriesInOrder, Sorted
  <2>1. /\ old.lines \in Seq(Entry) /\ log.lines \in Seq(Entry)
        /\ batch[f] \in Seq(Entry) /\ buffer \in Seq(Entry)
    BY DEF LogInv, TypeOK, File
  <2>2. /\ Sorted(old.lines) /\ Sorted(log.lines) /\ Sorted(batch[f]) /\ Sorted(buffer)
    BY DEF LogInv, SortedOK
  <2> DEFINE s == old.lines \o log.lines
             t == s \o batch[f]
  <2>3. s \in Seq(Entry) /\ Ids(s) = InFiles /\ Sorted(s)
    BY <2>1, <2>2, IdsConcat DEF LogInv, OrderOK, InFiles
  <2> HIDE DEF s
  <2>4. t \in Seq(Entry) /\ Ids(t) = InFiles \cup Ids(batch[f]) /\ Sorted(t)
    BY <2>1, <2>2, <2>3, IdsConcat DEF LogInv, OrderOK
  <2> HIDE DEF t
  <2>5. Below(Ids(t), Ids(buffer))
    BY <2>4 DEF LogInv, OrderOK, Below
  <2>6. Sorted(t \o buffer)
    BY <2>1, <2>2, <2>4, <2>5, IdsConcat
  <2> QED BY <2>6 DEF Everything, s, t
<1> QED BY <1>1, LogInvariant, PTL

\* flushToFile, clear and the rotation: no entry is written to a file that has
\* been removed, and none disappears but by an overflow, a failure, a kill, a
\* rotation or a clear.
THEOREM NoneVanishes == Spec => []NothingVanishes
<1>1. LogInv => NothingVanishes
  BY DEF LogInv
<1> QED BY <1>1, LogInvariant, PTL

\* search: of the entries that were in a file when it began, a finished search
\* has missed at most those a rotation renamed between its two opens, and the
\* next search finds these.
THEOREM SearchComplete == Spec => []SearchMissesOnlyRenamed
<1>1. LogInv => SearchMissesOnlyRenamed
  BY DEF LogInv, SearchOK
<1> QED BY <1>1, LogInvariant, PTL

\* Add and flushLogBuffer: a full buffer has a flush pending, and a pending flush
\* has a goroutine on its way to it.
THEOREM FlushComes == Spec => []FlushOnItsWay
<1>1. LogInv => FlushOnItsWay
  BY DEF LogInv, PendingOK
<1> QED BY <1>1, LogInvariant, PTL
=============================================================================
