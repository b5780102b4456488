# Verification of the BMC firewall

TLA+ modules for the parts of this repository that carry its own logic: the
firewall scripts of `package/bmc/bmcCor`, the web interface of
`package/bmc/bmcwebUI`, the DNS filter `dl/bmcfirewall-1.0.0`, and, of the OpenWrt
tree around them, the NAND bad block management that keeps their flash readable. The
rest of that tree is not modelled. The runs are model-checked
with TLC; the theorems are proved with TLAPS. `PROJECT.json` maps each definition
to the lines it stands for and lists runs, mutants, findings, hazards and theorems.

## Inventory

Paths are relative to `src/`; `AG` is `dl/bmcfirewall-1.0.0/internal`.

| Component | State | Operations | What is hard |
|---|---|---|---|
| MAC filter, `bmcCor/src/mac_filter.sh` | `/etc/mac-filter.conf` (survives a reboot), the chain `MAC_FILTER` and the jumps to it (do not) | mode, enable, disable, add, delete, info | runs that overlap, `sed -i` as read and rename, power loss between file and table, commands whose failure is not looked at |
| DoS policy, `bmcCor/src/ddos_protect.sh` | the chain `FW_DOS_POLICY` and its jump | enable, disable | enable appends every time; the policy is live while it is being built; the order of the rules decides what they count |
| Rule administration, `bmcwebUI/.../script/{quaratine,fixiptables,add-iptables-rule}.sh` with their handlers in `server.js` | the `FORWARD` chain | quarantine, add, delete by line number | `exec()` runs the scripts of several requests at once; line numbers go stale |
| Login limiter, `AG/home/authratelimiter.go`, `handleLogin` | the map of failed attempts with expiry | check, inc, remove | check-then-act over several critical sections, expiry, blocks that must end |
| Web sessions, `AG/home/auth.go` | the map in memory and a bbolt bucket | login, check with refresh, logout, restart | two copies changed in two steps, failing transactions, a clock read before the lock, `uint32` time |
| Query log, `AG/querylog` | ring buffer, `flushPending`, two files | Add, flush, clear, hourly rotation, search, shutdown | a rotation without a lock, files renamed or removed while open, lost wake-ups, entries that move while they are searched |
| NAND bad block management, `target/linux/generic/files/drivers/mtd/nand/mtk_bmt_nmbm.c` and `mtk_bmt.c` | two copies of the info table, the mapping, block states, the spare area between tables and mapped blocks, the signature | attach, create, load, update, rescue and rebuild the tables; write, read, isbad, markbad with remapping | power loss at any erase or program, blocks that fail while a failure is being handled, tables that grow towards the mapped blocks |
| Web backend, `bmcwebUI/.../server.js` | login session, recent addresses, address log | the handlers | kill during the rewrite of the log |
| Network scripts, `backend/scripts/network/*.sh`, package script | uci configuration | WAN, NAT, mode; opkg | half-applied sequences of uci commands |
| Statistics, DHCP, filtering, clients, schedules, DNS forwarding, migration, helpers (`AG/...`) | units, leases, engines, indexes | many | not yet modelled, see the plan |
| History and listing scripts | none | print | read-only |

The components meet in three places. The scripts of `bmcCor` and those of the web
interface all change the kernel's filter table, which module `Iptables` describes
as an external component: one operator per `iptables` command, and a command that
iptables refuses changes nothing. `server.js` starts the rule scripts and does not
wait for one before it starts the next. In the DNS filter, every POST handler runs
under `controlLock`, so a login and a clear never overlap with another POST, while
GET requests, searches among them, DNS queries and the rotation do. The flash driver
meets the rest only through the files it keeps.

## Modules

**MacFilter.** A run of `mac_filter.sh` is a process; a step is one command.
`conf` is the file as its mode and status lines and the number of lines of each
address; `table` is the kernel's table. `Call` is the `case` statement, `Grep`,
`SedRead`, `SedMove` and `AppendLine` are the edits of the file, `GetMode` to
`Finish` are `apply_rules`, `CheckJump`, `InsertJump` and `DeleteJump` are
`enable_chain` and `disable_chain`. `Reboot` may happen at any command: it empties
the table, and nothing puts it back (`files/bmcfirewall.init` is empty). The order
of the maclist lines is left open, so the loop takes them in any order.

**DosPolicy** has the runs of `ddos_protect.sh` in the same way, one iptables
command a step, for any list of floods; **DosTraffic** says what the installed rules
do to the packets of one source, with the limit match as a token bucket and the
recent match as a list of times (external, from the options the script gives).

**RuleAdmin** has the three handlers that change `FORWARD`, with scripts of several
requests interleaved command by command. For the properties, `last` remembers the last
inserted update, `asked` and `start` the lines a deletion was asked for and the chain
it began with, and `alone` whether another request has arrived since.
`add-iptables-rule.sh` passes on any command; only `-A FORWARD` is modelled. The lines
of a deletion are a set, as the page sends them; a request that names a line twice is
not modelled (see Findings).

**LoginLimiter** follows a login request through `ensure`, `check`, `findUser`, `inc`
or `remove`, each a critical section of its own with time passing between them. Times
are relative to now. Only `handleLogin` asks the limiter: a password sent as basic
authentication is checked without it (`authhttp.go:255-257`) and is not modelled, so
what is shown about passwords is about logins. `recent`, the ages of an address's last
failures, and `quiet` are for the properties.

**AuthSessions** has the map, the bucket, requests in the middle of `addSession`,
`checkSession` and `removeSession`, restarts, and transactions any of which may fail;
`failed` remembers for the properties whose did. `Width` stands for 2^32, `Day` for
24*60*60. **SessionLife** is what this promises to the holder of a token, without
map, file, lock, clock and requests: a token is new, opening, open, closing and closed,
or unknown after a failed transaction of its own. `AuthSessions` instantiates it as
`Life` with `life` and `logouts` computed from map, file and requests.

**QueryLog** has the buffer, any number of flushing goroutines with the file each has
opened, the clear request, the rotation and a search that reads the buffer, opens
`querylog.json.1` and opens `querylog.json` in three steps. An opened file may be
renamed or unlinked before it is written. A scenario has the settings `fileEnabled` (a
log in memory only starts no flush) and `memSize` (the ring buffer has at least one
place, and with `memSize` 0 no search reads it), and says which operations happen and
whether opens, writes, removals and renames may fail, a write after any number of
entries. An entry's time may be `StampLag` older than its push, since `newLogEntry`
takes the time before the lock. Two checks of the rotation are `RotationCheckIvl` (an
hour) apart, except after a restart. Of a search, `due` has the entries that were in a
file when it began and that it has not met yet, `renamed` what a rotation renamed
between its two opens, and `missed` what was in a file throughout and not found. A
rotation between the two opens does hide the log from that search; the property is that
nothing else hides an entry and that the next search meets it. Entries in memory are
not followed: the buffer is read at once or not at all, and what a goroutine has taken
out of it and not yet written is in no place where a search looks. An entry that is
flushed between the two reads is found twice, which the code allows.

**Nmbm** has the chip (`flash`, `marked`), what the driver has in memory and where it
is. One step is one erase or one program of a block, so that power can be lost between
any two of them, and during one, which leaves the block as it was, done or torn.
`WriteSkip` to `WriteNoRoom` are `nmbm_write_mgmt_range`, `RangeSkip` to `RangeFails`
`nmbm_erase_range`; the call sites that get their result are the actions `Rebuild...`,
`Once...`, `Rescue...`, `Single...`, `Front...` and `Next...`, named after
`nmbm_rebuild_info_table`, `nmbm_update_info_table_once`,
`nmbm_rescue_main_info_table`, `nmbm_update_single_info_table` (called by
`nmbm_load_info_table`) and the two halves of `nmbm_rescue_single_info_table`.
`LoadOne` and `LoadTwo` are the search for tables at attach, with blocks whose read
ends in an ECC error chosen freely among the torn ones; `CreateNew` to `TailOver` are
`nmbm_create_new` and `nmbm_create_info_table`; `WriteBlock` to `MarkOld` the mtd
operations and `remap_block_nmbm`, with an action for each way into it: an erase or the
first page of a write fails and nothing is copied (`WriteBlockFails`), a later page
fails and the pages acknowledged before it are copied (`WritePageFails`), a read has
too many bitflips (`ReadBlockWeak`) or cannot be corrected, where the copy stops at the
same page (`ReadBlockFails`), and `MarkBad` and `IsBad`. mtd operations run one at a
time and the caller's own write of a block is one step. Tables are one block and a
block holds one item: the page loops, the repeated pages and the CRC are the difference
between a whole and a torn block.

Five variables are for the properties. `stored` has the logic blocks whose last write
was acknowledged and which every remap has copied; only a failed write or erase of the
block itself or an uncorrectable read takes one out. `left` has, for a logic block
whose copy failed, the old block: `remap_block_nmbm` ignores that failure and saves the
mapping to the new one (`mtk_bmt_nmbm.c:2228-2230`). `disorder` says that a spare block
was taken from below the top (finding 3), `unsaved` that a protected chip was remapped,
which the driver does in memory only, and `bare` that power was lost over acknowledged
data while the driver was not `Secured`: it had no table yet, or had only one and was
rewriting it in place (`mtk_bmt_nmbm.c:1462-1487`). `TableSurvives` holds whenever the
driver is `Secured`, with one table or two, and `DurableData` on every chip that none
of the last three is true of. A chip that starts over without a table keeps `stored`
and `left`, so data that an attach could no longer find would show. The part of
`nmbm_rescue_main_info_table` after "if it's not overwritten" cannot be reached,
because the main table it has just written lies before the temporary one, and has no
action.

The `MC*` modules give the constants small values and, where a chain or a counter
grows without end, bound it: `MaxCalls` in MCMacFilterRacing, `MaxRules` in
MCDosPolicy, `MaxElapsed` in MCDosTraffic.

Definitions whose comment speaks of a mutated form or a variant are used by no action: each is a
plausible mistake in the code next to it, and putting it in its place makes TLC
report the property that `PROJECT.json` names. They show that the properties depend
on the code.

## Runs

| Run | Instance | Shows |
|---|---|---|
| `mac_serial` | 2 valid addresses and one iptables refuses, all operations, one run at a time, reboots; no bound on the number of calls | `ChainEnforcesConf`, `HooksFollowStatus`, every run ends |
| `mac_racing` | 2 overlapping runs, 2 addresses, 5 calls | every listed address has a rule in the end |
| `mac_enable` | as `mac_serial`, no reboot | **violated**: enable reports success with nothing hooked |
| `dos_serial` | 3 floods, up to 3 copies of the policy | whole or nothing; no unguarded DROP |
| `dos_traffic` | 2 floods, 2 copies, window 2, hit count 4 | rate bound over every interval; SSH packets limited, the more the more copies |
| `admin` | 2 overlapping requests, 2 addresses, an added rule, chains up to 2 rules and the inserted ones, every set of lines | the last update decides; stale rules are bounded by the requests at once; a deletion nobody joins deletes exactly the rules that were at the requested lines |
| `login_limiter` | 2 requests, 2 addresses, 3 attempts, block 3, time to live 2 | block holds, failures bounded, blocks end and `controlLock` is given back |
| `sessions` | 2 requests, 2 tokens, failing transactions, kills, time wraps at 7 | logout final, restart changes nothing, expiry tracks use, idle sessions end; `AuthSessions` implements `SessionLife` |
| `querylog` | 2 flushers, 3 entries, five scenarios: everything but the search with failures; everything but the shutdown without; clear, rotation and search with failures (buffer 2, in files); `memSize` 0 with rotation, search, shutdown and kills; a log in memory only; with fairness | order, nothing vanishes, a search misses only what a rotation renamed between its opens, a full buffer has a flush on its way, a pending flush happens |
| `querylog_clear_rotate` | 4 entries, no failures, no kills | **violated**: a rename between two removals saves the log |
| `nmbm` | 10 blocks, 2 of them data, 2 spare blocks behind a table; five budgets: no block, a data block, a spare block, the block below the top or four blocks of the table area bad from the factory, with 2 or 4 failing blocks and up to 2 power losses; with fairness | a table survives unless it is the only one and being rewritten, acknowledged data is found or, after a failed copy, still in its old block, the saved mapping is the current one, no block is shared, tables and mapped blocks never meet, the top never rises, updates end |
| `nmbm_shared` | block 8 bad from the factory, 2 failing blocks | **violated**: two logic blocks are mapped to one physical block |

Why the bounds are enough: two processes give every pair of interleaved operations;
five calls let two edits of each of two processes overlap and one more start from
the mixed result; a buffer of two and three entries give a full flush with another
entry pushed, or one overwritten, while it is under way, and a shutdown flushes the
rest; the clock of `sessions` passes several days and the wrap-around. Ten blocks give
the flash driver a main table, a backup table, spare blocks behind each and two mapped
blocks; two failures at any moment reach every rescue and rebuild, a third and fourth
use up the spare area, and with two power losses one hits the attach that repairs the
damage of the other. `MaxWrites` is above any write count these budgets reach, so it
stops no update. `mac_serial`, `login_limiter` and `admin` are finite without a bound
on the number of steps. The queries of QueryLog stop after `MaxEntries` and the clock
at `MaxNow`, and a chip that could not be attached stays so, so these runs do not check
for deadlock.

Fairness. `mac_serial`: a started shell executes its next command (weak fairness of
every process's steps). `login_limiter`: a started handler runs on, and time passes;
nothing is assumed about requests. `querylog`: goroutines run on and
`fileFlushLock` is granted to one that waits for it again and again (strong
fairness; `sync.Mutex` hands itself to a waiter that has starved for a millisecond).
`nmbm`: the driver's own steps (weak fairness of `Driver`): it runs in the caller's
thread and waits for nothing but the chip. No fairness is assumed of clears, rotations,
searches, queries, mtd operations, power losses or failures happening.

## Findings

1. `enable` of the MAC filter before any list was made hooks nothing and answers
   "MAC filter enabled" (`mac_enable`).
2. A rotation in the middle of a clear lets the log survive
   (`querylog_clear_rotate`).
3. `nmbm_map_block` lowers `mapping_blocks_top_ba` by one, whichever block it took: when
   the block at the top is bad, the next logic block gets the same physical block
   (`nmbm_shared`). The properties of the flash driver whose statement begins with
   `~disorder` leave such chips out.

Reading the code for the models also showed the following, which no run is about:

* Sorting line numbers does not protect `fixiptables.sh` from other requests: an
  insertion between two of its deletions shifts the numbers that are left
  (`fixiptables.sh:45-51`).
* A line number that is sent twice deletes a second rule: neither `server.js:150-155` nor
  `sort -r -n` in `fixiptables.sh:45` removes repetitions.
* A search during a rotation can miss the whole current log, and one during a flush can
  return an entry twice or not yet (`search.go:112`, `qlogreader.go:37`).
* The mtd operations take no lock: `mtk_bmt_replace_ops` (`mtk_bmt.c:298-311`) installs
  them above the functions of the chip driver that do.
* `remap_block_nmbm` saves a mapping to a block whose copy failed; the data stays behind
  in the old block (`mtk_bmt_nmbm.c:2228-2230`).
* After the backup table found no room the only table is erased and written in place;
  power lost there leaves none (`mtk_bmt_nmbm.c:1462-1487`), and the next attach starts
  over or fails.
* Basic authentication is not limited (`authhttp.go:255-257`).
* A chip that is read-only after attach still accepts writes and remaps, and forgets the
  remaps (`mtk_bmt_nmbm.c:1966`, `2215`).
* `nmbm_update_info_table` does not repeat for bad blocks met while the main table was
  written, against its comment (`mtk_bmt_nmbm.c:1521`): `nmbm_mark_tables_clean` clears
  their record too.
* The SSH rules of `ddos_protect.sh` (lines 42-45) stand behind the RETURN of the SYN
  limit and never see a new connection; what they limit is other packets to port 22.
* A logout whose transaction fails is answered as done (`auth.go:219-254`); the
  session is back after a restart, until it expires.
* `checkSession` renews once a day (`auth.go:288`), not at every check, against the
  comment in `auth_internal_test.go:73`.
* A rotation decided on a missing file can rename a file written since over
  `querylog.json.1`, whose entries may be younger than the interval
  (`querylogfile.go:182`, against `querylog.go:65`).

## Proofs

All theorems hold for every value of the constants that satisfies the `ASSUME` of
the module. The lemmas treat one action each; the last step combines them.

* **MacFilterProofs**: `TypeCorrect` for any number of overlapping runs. `ChainCorrect`
  and `HooksCorrect` (`Serialised`): between runs the properties say nothing about the
  commands in between, so they are not inductive. `SerialInv` says for every command what
  the file, chain and hooks are just before it: the copy of a `sed -i` is still current,
  the chain is partly rendered from the list with the rest in `todo`
  (`PartlyRendered`), INPUT is already done when FORWARD is being hooked. A rendered
  chain decides as the file asks (`RenderedDecides`, by the least matching line).
  `RacingCovered`: `ListedMacsCovered` for any number of overlapping adds, deletes and
  mode changes. `CoverInv` says that a listed address has its rule or there is a run that
  will still read the list, or has it in `todo`. `status` is excluded: `set_status`
  installs its old copy of the file, which may list an address again, and renders nothing.
* **DosPolicyProofs**: `TypeCorrect` for overlapping runs; `DropGuarded`, `AllOrNone`
  (`Serialised`), for any list of different floods; `SerialInv` says that the first
  `PolicyLen` rules are always a prefix of the policy. `EnablesGuarded`: any number of
  overlapping enables keeps every DROP behind a RETURN, if nobody disables meanwhile;
  `EnablingInv` says that whatever a process has appended is still in the chain.
* **DosTrafficProofs**: `TypeCorrect`; `FloodRate` for every rate and burst: what passed
  plus what is in the bucket is at most burst plus income. `SshRate` for every hit count,
  window and number of copies: `ListInv` says that the last `Copies * sshData` times in
  the list of xt_recent are no older than the beginning of the interval, so a packet that
  would be one too many meets a list with a hit count full of times in the window.
* **RuleAdminProofs**: `TypeCorrect`, and `LastUpdateWins` with any number of
  overlapping requests, deletions by number among them; the invariant is that the first
  matching rule of an address nobody is updating is the last update, and `last` forgets
  an update whose own rule an administrator deletes. `LinesStable` adds that
  nobody else is under way while a deletion is alone (`AloneOK`) and that the highest
  line goes first. `FewStaleRules`: the rules of an address can be shared out, each to
  a request of its own (`Shared`), and a request whose deletion finds another one's rule
  takes over that one's share; it needs `Procs` finite (`AdminAssumption`).
  `ExactDeletion`: an ascending map from the lines left to the lines they had when the
  deletion began (`Follows`) has as its values all lines but the requested ones that were
  dealt with, and is the identity up to the largest line still to be deleted, so the
  chain is `Without(start, asked \ todo)` (`WithoutOthers`).
* **LoginLimiterProofs**: `TypeCorrect`; `BlockedStayOut` for every number of requests
  and addresses: the invariant adds that only the holder of `controlLock` is past
  `ensure` and that the entry of a blocked address lives as long as the block.
  `FailuresAreFew`: `recent` has the ages of an address's last failures; the invariant
  relates them to the entry of the cache, by whether there is none, one that counts, one
  that blocks, or a success on its way that will reset it.
* **AuthSessionsProofs**: `TypeCorrect`; `LogoutFinal`, `MapEqualsFile`, `ExpiryCorrect`
  for every token none of whose own transactions failed, `IdleEnds` for all. The invariant
  adds that a token that was not answered yet belongs to one request only, and that map
  and file differ only for tokens on their way in or out. `Refinement`: every step of
  `AuthSessions` is a step of `SessionLife` or leaves `life` and `logouts` as they were.
  The lemmas say which stage a token has before and after each action, from `SessionsInv`.
* **QueryLogProofs**, for any number of flushing goroutines, any buffer and every
  scenario: `TypeCorrect`, `InOrder`, `NoneVanishes`, `SearchComplete`, `FlushComes`. None
  of them is inductive: what a goroutine writes goes to the file it opened, which may have
  been renamed since. `LogInv` says who holds `fileFlushLock` and hence that one goroutine
  at most has a batch; that an opened file is never an unlinked one, and a handle on the
  renamed file means that there is no `querylog.json`; that each part is in order and
  before the next; that `doomed` covers the files while a clear removes them; which
  entries a search has still to meet and which a rotation hid from it; and that a pending
  flush has a goroutine and a non-empty buffer.
* **NmbmProofs**, for every size of the chip, of the areas and of the budgets:
  `TypeCorrect`, `NoSharing`, `TablesAvoidData`, `TablesSurvive`, `DataSurvives`,
  `UpdatesSave` and `TopStays`. That logic blocks
  share nothing is not inductive: a mapping comes back from a table on the chip, and the
  top of the spare area is computed from it. `Inv` adds that the mappings in the cache and
  in every table on the chip are one-to-one (`DistinctOK`), that every mapping in memory
  leads to the data area or above the top (`MapOK`), that the running job's limit lies
  below the mapped blocks (`JobClear`), and where tables, spare area and job lie
  (`PlacesOK`, `JobOK`). For `TablesSurvive`, `TablesInv` adds that there is one signature
  and nothing ever touches its block (`SigOK`); that main table, backup table, end of the
  tables, top and signature lie in this order (`BoundsOK`); on which side of the tables the
  running job works (`PlanOK`); that the cache is a table the next attach will accept
  (`CacheOK`); and which accepted table the job must leave alone (`KeptOK`): the main
  table while anything behind it is written or erased, the backup table while the main one
  is rewritten or a temporary one is written behind both, the temporary one while a new
  main table is made.

  `DataSurvives`, `UpdatesSave` and `TopStays` need to know every table on the chip, the
  superseded ones too, since the next attach takes the newer of the first two it finds.
  `LeadsInv` says that there are at most two (`ChipOK`) and where each can be at every
  step of a job (`WhereOK`); that no usable block lies in front of the first one, so the
  search meets it first (`PrefixOK`); that none is newer than the memory, knows a bad
  block the memory does not know or maps a block in the spare area (`AgesOK`); that of two
  the newer one knows and maps all that the older one does, and equal write counts mean
  equal contents (`PairOK`); that every one of them leads to the acknowledged data, where a
  block on the move is still read at its old place (`LeadOK`); that each has the
  mapping of the memory unless the running job will replace it or an update is due
  (`SavedOK`); that a chip with acknowledged data and no power has a table, and one that
  starts over has none of the data (`AckOK`); and that a block in which a failed copy left
  data still has it, that no other logic block is mapped to it, and that it lies in the
  data area or among the spare blocks already used, so that none will be (`LeftOK`,
  `Beyond`). `OrderOK` has what the jobs rely on meanwhile, among it that the end of
  the tables never passes the top of the spare area, which is `TopStays`. What an attach
  does then follows for both numbers of tables (`LoadsOne`, `LoadsTwo`).

  All but `TypeCorrect` carry the condition `~disorder`; for `UpdatesSave` it is a
  hypothesis of the theorem that the property does not have. `nmbm_shared`
  shows that `NoSharedBlocks` needs it, and the attempt to prove `TableSurvives` without it
  found that this one does too: after finding 3 a table can grow past a mapped block, and
  `nmbm_check_info_table` refuses such a table, so that nothing can be loaded while the
  other one is erased (10 blocks, no spare blocks behind a table, blocks 6 and 7 bad from
  the factory, 4 failing blocks).

`Serialised` is a hypothesis where it is named: a disable between an enable's commands
leaves half a policy, and overlapping edits of the MAC filter's file lose lines.

Only model-checked: the liveness properties `RunsEnd`, `BlocksEnd`, `FlushHappens` and
`UpdateEnds` (fairness is out of the prover's reach), and `UpdateSaves` for a chip whose
spare blocks were handed out of order: `LeadsInv` says nothing about such a chip.

## Not modelled, and why

* OpenWrt's build system, feeds and packages, vendored Node modules and the bundled
  copy of the server: not this project's code. Nearly all C code of the repository, some
  350 000 lines, is of this kind (register tables, switch and PHY drivers, boot loaders,
  host tools); the project's own logic is in shell, JavaScript and Go.
* Of the flash driver: `unmap_block_nmbm` (a debugfs command), tables of several blocks,
  the remap ranges of the device tree, retries and ECC of single pages, and the older
  formats of `mtk_bmt_v2.c` and `mtk_bmt_bbt.c`. Concurrent mtd operations are left out
  although the code does not exclude them: it takes no lock, and two interleaved remaps
  are a question of their own. Nor is power lost in the middle of the caller's own write of
  a data block, which nobody has acknowledged yet.
* Of the login: basic authentication, which checks a password with every request and has
  no limiter.
* Of the query log: a log that is switched off, changes of its settings while it runs,
  the search criteria, and the search from a given time, which bisects the files.
* Listings, history and lookups: they read and print.
* The half line that a failed write to the query log leaves; a failing JSON encoding.
* Line numbers from an old page: the server cannot tell them from new ones; a request
  in the model names lines of the chain as it is when its script starts.
* A script that is killed while the system goes on; only power loss is modelled.

## Plan

Done, in this order: `Iptables`, `MacFilter`, `DosPolicy`, `DosTraffic`, `RuleAdmin`,
`LoginLimiter`, `AuthSessions`, `QueryLog` with its search, `SessionLife`, `Nmbm`, and
the proofs of all their safety invariants and action properties.

Next modules:

1. `WebBackend`: login session, recent addresses, address log with its retention and
   a kill during its rewrite; composed with `RuleAdmin`.
2. `FilterTable`: MacFilter, DosPolicy and RuleAdmin on one table, the jumps of one
   against the line numbers and insertions of another.
3. The bisection of a query log whose times do not ascend, against a linear reference.
4. `Stats`: hourly units, flush, clear and limit. 5. `Dhcp`: leases. 6. `Filters`:
   list refresh and engine swap. 7. `Clients`: the indexes against the set of
   clients. 8. `Schedule` and `NetConfig`.

Abstract specifications worth stating: a log that is one sequence, implemented by
`QueryLog` without rotation; a rule list edited atomically, implemented by `RuleAdmin`
one request at a time; a flash of logic blocks whose acknowledged writes survive,
implemented by `Nmbm`.

Theorems to prove: the refinements above, and `UpdateSaves` after spare blocks were
handed out of order.
