------------------------------ MODULE QueryLog ------------------------------
(***************************************************************************)
(* The DNS query log (internal/querylog): entries are pushed into a ring   *)
(* buffer; a full buffer starts a goroutine that encodes and empties it    *)
(* and appends the entries to querylog.json; an hourly check renames that  *)
(* file to querylog.json.1 when its first entry is old enough; an          *)
(* administrator can clear everything, and can search the buffer and then  *)
(* the files.                                                              *)
(*                                                                         *)
(* bufferLock makes Add and encodeEntries atomic.  fileFlushLock is held   *)
(* by flushLogBuffer and by clear from start to end.  The rotation and the *)
(* search hold no lock of the files: they run between any two of their     *)
(* operations.                                                             *)
(*                                                                         *)
(* newLogEntry takes the time of an entry before bufferLock is taken, so   *)
(* entries of concurrent queries can be pushed in another order than that  *)
(* of their times.  id is the order of the pushes.                         *)
(*                                                                         *)
(* Not modelled: a log that is switched off, where Add returns at once;    *)
(* changes of the settings while the program runs; the error of encoding   *)
(* an entry, which no value of logEntry causes; the half of a line that a  *)
(* failed write leaves.                                                    *)
(***************************************************************************)
EXTENDS Integers, Sequences

CONSTANTS
  Flushers,     \* goroutines that can be in flushLogBuffer at the same time
  RotationIvl,  \* the interval for log rotation
  RotationCheckIvl, \* the time between two checks: an hour
  MaxEntries,   \* entries are added up to this number
  MaxNow,       \* the clock is advanced up to here
  StampLag,     \* how long after taking its time an entry is pushed, at most
  Scenarios     \* configurations and bounds: the settings fileEnabled and
                \* memSize of the log, which of "clear", "rotate", "search",
                \* "shutdown" and "kill" happen, and whether file operations
                \* may fail

\* Who can hold fileFlushLock besides the goroutines.
Free == "free"
Clearer == "clear"

Operations == {"clear", "rotate", "search", "shutdown", "kill"}

ASSUME QueryLogAssumption ==
  /\ {Free, Clearer} \cap Flushers = {}
  /\ RotationCheckIvl \in Nat \ {0}
  /\ RotationIvl \in Nat /\ RotationIvl >= RotationCheckIvl
  /\ MaxEntries \in Nat
  /\ MaxNow \in Nat
  /\ StampLag \in Nat
  /\ Scenarios \subseteq [ops : SUBSET Operations, ioFails : BOOLEAN,
                           fileEnabled : BOOLEAN, memSize : Nat]

VARIABLES
  scenario,     \* one of Scenarios
  now,          \* the clock
  added,        \* how many entries were added
  buffer,       \* the ring buffer, oldest entry first
  flushPending, \* a goroutine was started and has not emptied the buffer
  pc,           \* where every flushing goroutine is
  batch,        \* the encoded entries it is going to write
  handle,       \* where the file is that it has opened
  holder,       \* who holds fileFlushLock
  log, old,     \* querylog.json and querylog.json.1
  clearing,     \* where the clear request is
  nextCheck,    \* when the ticker fires
  rotating,     \* the rotation has decided to rename
  search, due,  \* where a search is, and the entries it has yet to find
  renamed,      \* what a rotation renamed after the search opened the old file
  missed,       \* what the last search did not find and was still in a file
  lost,         \* entries that overflow, failures and kills have taken
  doomed,       \* entries that were there when a clear emptied the buffer
  wiped         \* the same of clears that have ended

flusher == <<pc, batch, handle>>
files == <<log, old>>
rotation == <<nextCheck, rotating>>
searcher == <<search, due, renamed, missed>>
ghosts == <<lost, wiped, doomed>>
state == <<now, added, buffer, flushPending, flusher, holder, files,
           clearing, rotation, searcher, ghosts>>
vars == <<scenario, state>>

\* conf.MemSize, the number of entries kept in memory before they are flushed,
\* and newQueryLog's size of the ring buffer: at least one.
MemSize == scenario.memSize
BufferSize == IF MemSize = 0 THEN 1 ELSE MemSize

Entry == [id : 1..MaxEntries, time : 0..MaxNow]
NoFile == [exists |-> FALSE, lines |-> <<>>]
File == [exists : BOOLEAN, lines : Seq(Entry)]

TypeOK ==
  /\ scenario \in Scenarios
  /\ now \in 0..MaxNow
  /\ added \in 0..MaxEntries
  /\ buffer \in Seq(Entry) /\ Len(buffer) <= BufferSize
  /\ flushPending \in BOOLEAN
  /\ pc \in [Flushers -> {"idle", "lock", "encode", "open", "write"}]
  /\ batch \in [Flushers -> Seq(Entry)]
  /\ handle \in [Flushers -> {"none", "log", "old", "unlinked"}]
  /\ holder \in Flushers \cup {Free, Clearer}
  /\ log \in File /\ old \in File
  /\ clearing \in {"idle", "lock", "buffer", "removeOld", "removeLog"}
  /\ nextCheck \in 0..(MaxNow + RotationCheckIvl)
  /\ rotating \in BOOLEAN
  /\ search \in {"idle", "openOld", "openLog"}
  /\ due \cup renamed \cup missed \subseteq 1..MaxEntries
  /\ lost \cup wiped \cup doomed \subseteq 1..MaxEntries

Init ==
  /\ scenario \in Scenarios
  /\ now = 0
  /\ added = 0
  /\ buffer = <<>>
  /\ flushPending = FALSE
  /\ pc = [f \in Flushers |-> "idle"]
  /\ batch = [f \in Flushers |-> <<>>]
  /\ handle = [f \in Flushers |-> "none"]
  /\ holder = Free
  /\ log = NoFile /\ old = NoFile
  /\ clearing = "idle"
  /\ nextCheck = 0
  /\ rotating = FALSE
  /\ search = "idle" /\ due = {} /\ renamed = {} /\ missed = {}
  /\ lost = {} /\ wiped = {} /\ doomed = {}

-----------------------------------------------------------------------------
Ids(s) == {s[k].id : k \in DOMAIN s}

\* The ring buffer, when full, overwrites its oldest entry; the mutated form
\* grows.
PushNoOverwrite(s, e) == Append(s, e)

Push(s, e) == IF Len(s) < BufferSize THEN Append(s, e) ELSE Append(Tail(s), e)

\* Add: the push and the decision to flush are one critical section.
NeedsFlush == ~flushPending /\ scenario.fileEnabled /\ Len(buffer) + 1 >= MemSize

Add ==
  /\ added < MaxEntries
  /\ added' = added + 1
  /\ \E lag \in 0..StampLag :
       /\ lag <= now
       /\ buffer' = Push(buffer, [id |-> added + 1, time |-> now - lag])
  /\ lost' = lost \cup (Ids(buffer) \ Ids(buffer'))
  /\ IF NeedsFlush
     THEN /\ flushPending' = TRUE
          /\ \E f \in Flushers : pc[f] = "idle" /\ pc' = [pc EXCEPT ![f] = "lock"]
     ELSE UNCHANGED <<flushPending, pc>>
  /\ UNCHANGED <<now, batch, handle, holder, files, clearing, rotation, searcher, wiped, doomed>>

\* Shutdown flushes too, unless the log is kept in memory only.
Shutdown(f) ==
  /\ "shutdown" \in scenario.ops
  /\ scenario.fileEnabled
  /\ pc[f] = "idle"
  /\ pc' = [pc EXCEPT ![f] = "lock"]
  /\ UNCHANGED <<now, added, buffer, flushPending, batch, handle, holder, files,
                 clearing, rotation, ghosts, searcher>>

-----------------------------------------------------------------------------
(* flushLogBuffer: encodeEntries, then flushToFile.                        *)

Goto(f, label) == pc' = [pc EXCEPT ![f] = label]

\* l.fileFlushLock.Lock(); the mutated form goes on without it.
LockNothing(f) ==
  /\ pc[f] = "lock"
  /\ Goto(f, "encode")
  /\ UNCHANGED <<now, added, buffer, flushPending, batch, handle, holder, files,
                 clearing, rotation, ghosts, searcher>>

Lock(f) ==
  /\ pc[f] = "lock"
  /\ holder = Free
  /\ holder' = f
  /\ Goto(f, "encode")
  /\ UNCHANGED <<now, added, buffer, flushPending, batch, handle, files,
                 clearing, rotation, ghosts, searcher>>

\* The buffer is copied and emptied; an empty one is an error that ends the
\* flush.  The mutated form leaves flushPending as it was.
EncodeKeepsPending(f) ==
  /\ pc[f] = "encode"
  /\ IF buffer = <<>>
     THEN Goto(f, "idle") /\ holder' = Free /\ UNCHANGED <<buffer, flushPending, batch>>
     ELSE /\ batch' = [batch EXCEPT ![f] = buffer]
          /\ buffer' = <<>>
          /\ Goto(f, "open")
          /\ UNCHANGED <<holder, flushPending>>
  /\ UNCHANGED <<now, added, handle, files, clearing, rotation, ghosts, searcher>>

Encode(f) ==
  /\ pc[f] = "encode"
  /\ IF buffer = <<>>
     THEN Goto(f, "idle") /\ holder' = Free /\ UNCHANGED <<buffer, flushPending, batch>>
     ELSE /\ batch' = [batch EXCEPT ![f] = buffer]
          /\ buffer' = <<>>
          /\ flushPending' = FALSE
          /\ Goto(f, "open")
          /\ UNCHANGED holder
  /\ UNCHANGED <<now, added, handle, files, clearing, rotation, ghosts, searcher>>

\* The flush ends, with the entries it had in memory.
End(f) ==
  /\ Goto(f, "idle")
  /\ batch' = [batch EXCEPT ![f] = <<>>]
  /\ handle' = [handle EXCEPT ![f] = "none"]
  /\ holder' = Free

\* os.OpenFile(filename, O_WRONLY|O_CREATE|O_APPEND).  The mutated form returns
\* from its error with the lock.
OpenFileKeepsLock(f) ==
  /\ pc[f] = "open"
  /\ \/ /\ log' = [log EXCEPT !.exists = TRUE]
        /\ handle' = [handle EXCEPT ![f] = "log"]
        /\ Goto(f, "write")
        /\ UNCHANGED <<batch, lost>>
     \/ /\ scenario.ioFails
        /\ lost' = lost \cup Ids(batch[f])
        /\ Goto(f, "idle")
        /\ batch' = [batch EXCEPT ![f] = <<>>]
        /\ UNCHANGED <<handle, log>>
  /\ UNCHANGED <<now, added, buffer, flushPending, holder, old, clearing, rotation,
                 wiped, doomed, searcher>>

OpenFile(f) ==
  /\ pc[f] = "open"
  /\ \/ /\ log' = [log EXCEPT !.exists = TRUE]
        /\ handle' = [handle EXCEPT ![f] = "log"]
        /\ Goto(f, "write")
        /\ UNCHANGED <<batch, holder, lost>>
     \/ /\ scenario.ioFails
        /\ lost' = lost \cup Ids(batch[f])
        /\ End(f)
        /\ UNCHANGED log
  /\ UNCHANGED <<now, added, buffer, flushPending, old, clearing, rotation,
                 wiped, doomed, searcher>>

\* f.Write appends to the opened file, which may have another name by now; a
\* failing write has written only the first n entries.
Appended(file, f, name, n) ==
  IF handle[f] = name THEN [file EXCEPT !.lines = @ \o SubSeq(batch[f], 1, n)] ELSE file

WriteFile(f) ==
  /\ pc[f] = "write"
  /\ \E n \in 0..Len(batch[f]) :
       /\ n = Len(batch[f]) \/ scenario.ioFails
       /\ log' = Appended(log, f, "log", n)
       /\ old' = Appended(old, f, "old", n)
       /\ lost' = lost \cup Ids(SubSeq(batch[f], n + 1, Len(batch[f])))
  /\ End(f)
  /\ UNCHANGED <<now, added, buffer, flushPending, clearing, rotation, wiped, doomed, searcher>>

-----------------------------------------------------------------------------
(* clear, one request at a time: POST requests hold controlLock.           *)

Present == Ids(buffer) \cup Ids(log.lines) \cup Ids(old.lines)
             \cup UNION {Ids(batch[f]) : f \in Flushers}

HandleClear ==
  /\ "clear" \in scenario.ops
  /\ clearing = "idle"
  /\ clearing' = "lock"
  /\ UNCHANGED <<now, added, buffer, flushPending, flusher, holder, files, rotation, ghosts, searcher>>

\* The mutated form does not take fileFlushLock.
ClearLockNothing ==
  /\ clearing = "lock"
  /\ clearing' = "buffer"
  /\ UNCHANGED <<now, added, buffer, flushPending, flusher, holder, files, rotation, ghosts, searcher>>

ClearLock ==
  /\ clearing = "lock"
  /\ holder = Free
  /\ holder' = Clearer
  /\ clearing' = "buffer"
  /\ UNCHANGED <<now, added, buffer, flushPending, flusher, files, rotation, ghosts, searcher>>

ClearBuffer ==
  /\ clearing = "buffer"
  /\ buffer' = <<>>
  /\ flushPending' = FALSE
  /\ doomed' = Present
  /\ clearing' = "removeOld"
  /\ UNCHANGED <<now, added, flusher, holder, files, rotation, lost, wiped, searcher>>

\* os.Remove; a goroutine that has the file open keeps writing to it.
Unlinked(name) == [f \in Flushers |-> IF handle[f] = name THEN "unlinked" ELSE handle[f]]

RemoveOld ==
  /\ clearing = "removeOld"
  /\ \/ old' = NoFile /\ handle' = Unlinked("old")
     \/ scenario.ioFails /\ UNCHANGED <<old, handle>>
  /\ clearing' = "removeLog"
  /\ UNCHANGED <<now, added, buffer, flushPending, pc, batch, holder, log, rotation, ghosts, searcher>>

RemoveLog ==
  /\ clearing = "removeLog"
  /\ \/ log' = NoFile /\ handle' = Unlinked("log")
     \/ scenario.ioFails /\ UNCHANGED <<log, handle>>
  /\ clearing' = "idle"
  /\ holder' = Free
  /\ wiped' = wiped \cup doomed
  /\ doomed' = {}
  /\ UNCHANGED <<now, added, buffer, flushPending, pc, batch, old, rotation, lost, searcher>>

-----------------------------------------------------------------------------
(* periodicRotate and checkAndRotate: the time of the first entry decides. *)
(* No file has the zero time, which is old enough; an empty one is an      *)
(* error.                                                                  *)

OldEnough ==
  \/ ~log.exists
  \/ log.lines # <<>> /\ log.lines[1].time + RotationIvl <= now

CheckAndRotate ==
  /\ "rotate" \in scenario.ops
  /\ ~rotating
  /\ now >= nextCheck
  /\ nextCheck' = now + RotationCheckIvl
  /\ rotating' = OldEnough
  /\ UNCHANGED <<now, added, buffer, flushPending, flusher, holder, files, clearing, ghosts, searcher>>

\* os.Rename(from, to): a file that was there under the new name is gone.  A
\* search that has opened that one and not yet this one reads neither this one
\* under its new name nor, under its old name, more than is written there later.
Rotate ==
  /\ rotating
  /\ rotating' = FALSE
  /\ \/ /\ log.exists
        /\ old' = log
        /\ log' = NoFile
        /\ handle' = [f \in Flushers |->
             IF handle[f] = "log" THEN "old" ELSE Unlinked("old")[f]]
        /\ lost' = lost \cup Ids(old.lines)
        /\ renamed' = IF search = "openLog" THEN Ids(log.lines) ELSE renamed
     \/ /\ ~log.exists \/ scenario.ioFails
        /\ UNCHANGED <<files, handle, lost, renamed>>
  /\ UNCHANGED <<now, added, buffer, flushPending, pc, batch, holder, clearing, nextCheck,
                 search, due, missed, wiped, doomed>>

-----------------------------------------------------------------------------
(* search: the buffer, then the files from the oldest to the newest.  What *)
(* is in a file when it is opened is read later, whatever becomes of its   *)
(* name.  due is what the files held when the search began and it has not  *)
(* met yet.  Entries in memory are not followed: the buffer is read under  *)
(* bufferLock, all of it or, when memSize is 0, none of it                 *)
(* (searchMemory), and what a goroutine has taken out of it and not yet    *)
(* written is in no place where a search looks.                            *)

quietSearch == <<now, added, buffer, flushPending, flusher, holder, files, clearing,
                 rotation, ghosts>>

InFiles == Ids(log.lines) \cup Ids(old.lines)

SearchMemory ==
  /\ "search" \in scenario.ops
  /\ search = "idle"
  /\ search' = "openOld"
  /\ due' = InFiles
  /\ renamed' = {}
  /\ UNCHANGED <<quietSearch, missed>>

\* Any error of newQLogReader but a missing file ends the search of the files
\* with an empty answer.
SearchFails ==
  /\ scenario.ioFails
  /\ search' = "idle"
  /\ due' = {} /\ missed' = {}

\* newQLogReader skips a file that does not exist.  The mutated form gives up.
OpenOldOrGiveUp ==
  /\ search = "openOld"
  /\ due' = due \ Ids(old.lines)
  /\ IF old.exists
     THEN search' = "openLog" /\ UNCHANGED missed
     ELSE search' = "idle" /\ missed' = due'
  /\ UNCHANGED <<quietSearch, renamed>>

OpenOld ==
  /\ search = "openOld"
  /\ \/ search' = "openLog" /\ due' = due \ Ids(old.lines) /\ UNCHANGED missed
     \/ SearchFails
  /\ UNCHANGED <<quietSearch, renamed>>

\* A clear or a rotation may have removed what is left of due.
OpenLog ==
  /\ search = "openLog"
  /\ \/ search' = "idle" /\ due' = {} /\ missed' = (due \cap InFiles) \ Ids(log.lines)
     \/ SearchFails
  /\ UNCHANGED <<quietSearch, renamed>>

-----------------------------------------------------------------------------
\* The process is killed: what was in memory is lost, the files stay.  Start
\* begins with a check.
Kill ==
  /\ "kill" \in scenario.ops
  /\ lost' = lost \cup doomed \cup Ids(buffer) \cup UNION {Ids(batch[f]) : f \in Flushers}
  /\ buffer' = <<>>
  /\ flushPending' = FALSE
  /\ pc' = [f \in Flushers |-> "idle"]
  /\ batch' = [f \in Flushers |-> <<>>]
  /\ handle' = [f \in Flushers |-> "none"]
  /\ holder' = Free
  /\ clearing' = "idle"
  /\ nextCheck' = now
  /\ rotating' = FALSE
  /\ search' = "idle" /\ due' = {} /\ renamed' = {} /\ missed' = {}
  /\ doomed' = {}
  /\ UNCHANGED <<now, added, files, wiped>>

Tick ==
  /\ now < MaxNow
  /\ now' = now + 1
  /\ UNCHANGED <<added, buffer, flushPending, flusher, holder, files, clearing, rotation, searcher, ghosts>>

Flush(f) == Lock(f) \/ Encode(f) \/ OpenFile(f) \/ WriteFile(f)
Search == SearchMemory \/ OpenOld \/ OpenLog
Clear == ClearLock \/ ClearBuffer \/ RemoveOld \/ RemoveLog

Next ==
  /\ \/ Add
     \/ \E f \in Flushers : Flush(f) \/ Shutdown(f)
     \/ HandleClear \/ Clear
     \/ CheckAndRotate \/ Rotate
     \/ Search
     \/ Kill \/ Tick
  /\ UNCHANGED scenario

Spec == Init /\ [][Next]_vars

\* Goroutines run on and fileFlushLock is granted to one that waits for it:
\* sync.Mutex hands itself to a waiter that has waited for long.
FairSpec ==
  /\ Spec
  /\ \A f \in Flushers : SF_state(Flush(f))
  /\ SF_state(Clear)

-----------------------------------------------------------------------------
\* Every entry from the oldest file to the buffer, in the order of reading.
Everything(f) == old.lines \o log.lines \o batch[f] \o buffer

\* A rotation that runs into a flush may send the entries to the renamed file,
\* but never doubles one and never puts one before an earlier one: the search
\* reads the files from their ends and the buffer first.
EntriesInOrder ==
  \A f \in Flushers :
    LET s == Everything(f) IN \A i, j \in DOMAIN s : i < j => s[i].id < s[j].id

\* Every entry is in memory, in a file, or was taken by an overflow, a failed
\* write, a kill, a rotation or a clear: none is written to a deleted file.
NothingVanishes == 1..added \subseteq Present \cup lost \cup wiped \cup doomed

\* Of the entries that were in a file when a search began and are in one when
\* it has opened both, it misses none but those a rotation renamed between the
\* two opens: flushes and clears meanwhile, and rotations before or after, hide
\* nothing.  And these the next search finds: once it has opened the old file,
\* nothing the last one missed is left to look for.
SearchMissesOnlyRenamed ==
  /\ search = "idle" => missed \cap InFiles \subseteq renamed
  /\ search = "openLog" => due \cap missed \cap InFiles = {}

FullMeansPending ==
  scenario.fileEnabled /\ Len(buffer) = BufferSize => flushPending

PendingHasFlusher ==
  flushPending => \E f \in Flushers : pc[f] \in {"lock", "encode"}

\* With fileEnabled a full buffer ("entries kept in a memory buffer before they
\* are flushed to disk") has a flush pending, and flushPending has a goroutine
\* that will reset it, through clears, kills and failures: otherwise no Add
\* would start another, and the log would never reach its file again.
FlushOnItsWay == FullMeansPending /\ PendingHasFlusher

\* The buffer of a pending flush is emptied.
FlushHappens == flushPending ~> ~flushPending

\* "Clear memory buffer and remove log files": what was logged before a clear
\* is in no file after it.
ClearRemovesAll == wiped \cap Present = {}
=============================================================================
