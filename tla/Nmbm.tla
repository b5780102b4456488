-------------------------------- MODULE Nmbm --------------------------------
(***************************************************************************)
(* NAND bad block management of OpenWrt's MediaTek targets: mtk_bmt_nmbm.c *)
(* below the mtd operations of mtk_bmt.c.  A chip of BlockCount blocks     *)
(* holds the data blocks 0..MgmtStart-1, then the main and the backup info *)
(* table with spare blocks behind each, then replacement blocks handed out *)
(* from the top down, then the signature.  An info table is one block and  *)
(* carries the block states, the mapping and a write count.                *)
(*                                                                         *)
(* One step is one erase or program of one block by the driver, so that    *)
(* power may be lost between any two of them and in the middle of one.     *)
(* Blocks go bad at any erase or program, as often as the budget allows.   *)
(* The mtd operations run one at a time: mtk_bmt_replace_ops installs them *)
(* above the locks of the chip driver and they take none of their own, so  *)
(* what two of them do at once is outside this model.                      *)
(***************************************************************************)
EXTENDS Integers, FiniteSets

CONSTANTS BlockCount,   \* blocks of the chip
          MgmtStart,    \* first block of the management area
          SpareBlocks,  \* info_table_spare_blocks
          ForceCreate,  \* device tree: mediatek,bmt-force-create
          Budgets,      \* bounds: the blocks that are bad from the factory,
                        \* how many fail later, how often power is lost
          MaxWrites     \* bound of the write count

Blocks == 0..(BlockCount - 1)

ASSUME NmbmConstants ==
  /\ BlockCount \in Nat /\ MgmtStart \in Nat /\ SpareBlocks \in Nat
  /\ 0 < MgmtStart /\ MgmtStart < BlockCount
  /\ ForceCreate \in BOOLEAN
  /\ Budgets \subseteq [factoryBad : SUBSET Blocks, faults : Nat, crashes : Nat]
  /\ MaxWrites \in Nat

LogicBlocks == 0..(MgmtStart - 1)
Mappings == [LogicBlocks -> -1..(BlockCount - 1)]

\* What a block can hold.  Torn: an interrupted or failed program.
Erased == [kind |-> "erased"]
Torn == [kind |-> "torn"]
Signature == [kind |-> "signature"]
Data(lb) == [kind |-> "data", lb |-> lb]
Table(n, b, m) == [kind |-> "table", wc |-> n, bad |-> b, map |-> m]

VARIABLES
  flash, marked,          \* contents and bad block marks of the chip
  bad, map, dbc,          \* block_state, block_mapping, data_block_count
  wc, dirty, cache,       \* write_count, block_{state,mapping}_changed, info_table_cache
  main, backup,           \* main_table_ba, backup_table_ba (0: none)
  mba, top, sig,          \* mapping_blocks_ba, mapping_blocks_top_ba, signature_ba
  prot,                   \* protected
  pc, job, upd, op,       \* where the driver is: see below
  stored,                 \* logic blocks whose last write was acknowledged and
                          \* which every later remap copied
  left,                   \* the block in which a failed copy left acknowledged
                          \* data, for each logic block (-1: none)
  disorder,               \* spare blocks were not handed out strictly downwards
  unsaved,                \* some remap happened while protected
  bare,                   \* power was lost over acknowledged data while the
                          \* driver was not Secured
  faults, crashes         \* what is left of the budget

(***************************************************************************)
(* pc   the current step of the driver ("off": no power, "idle": attached  *)
(*      and waiting, "failed": attach returned an error)                   *)
(* job  the running nmbm_write_mgmt_range, nmbm_erase_range or             *)
(*      nmbm_write_signature: next block, limit, the write_ba it was       *)
(*      started from and the call site that gets the result                *)
(* upd  the call site of the running nmbm_update_info_table                *)
(* op   the running remap: logic block, its old physical block, whether    *)
(*      the contents are copied and whether _block_markbad follows         *)
(***************************************************************************)
phys == <<flash, marked>>
mem == <<bad, map, dbc, wc, dirty, cache>>
loc == <<main, backup, mba, top, sig, prot>>
ctl == <<upd, op>>
ghost == <<stored, left, disorder, unsaved, bare>>
bounds == <<faults, crashes>>
vars == <<phys, mem, loc, pc, job, ctl, ghost, bounds>>

-----------------------------------------------------------------------------
(* Walks over the blocks that are good in memory *)

GoodIn(lo, hi) == {b \in Blocks \ bad : lo <= b /\ b <= hi}

\* nmbm_block_walk_desc with count n: the good block with n good ones above.
WalkDesc(b, n, start, limit) ==
  LET good == GoodIn(limit + 1, start)
  IN  b \in good /\ Cardinality({g \in good : g > b}) = n

\* nmbm_try_reserve_blocks(ba .. top - 1): skip SpareBlocks good blocks, or
\* as many as there are.
Room(ba, t) == GoodIn(ba, t - 2)
Reserve(b, ba, t) ==
  LET good == Room(ba, t)
      n == Cardinality(good) - 1
  IN  /\ b \in good
      /\ Cardinality({g \in good : g < b}) = IF n < SpareBlocks THEN n ELSE SpareBlocks

\* nmbm_build_mapping_table: logic blocks to good blocks in ascending order.
InitialMapping(m, b, count) ==
  /\ \A lb \in LogicBlocks : (m[lb] >= 0) <=> (lb < count)
  /\ \A p \in LogicBlocks \ b : \E lb \in LogicBlocks : m[lb] = p
  /\ \A lb \in LogicBlocks : m[lb] >= 0 => m[lb] \in LogicBlocks \ b
  /\ \A x, y \in LogicBlocks : x < y /\ m[y] >= 0 => m[x] < m[y]

-----------------------------------------------------------------------------
(* Calls and returns *)

Job(ba, limit, k, w) == [ba |-> ba, limit |-> limit, k |-> k, wba |-> w]

Write(ba, limit, k, w) == pc' = "write" /\ job' = Job(ba, limit, k, w)

EraseRange(ba, limit, k) == pc' = "range" /\ job' = Job(ba, limit, k, ba)

\* The loop of the job goes on at block ba.
Advance(ba) == job' = Job(ba, job.limit, job.k, job.wba)

GoTo(l) == pc' = l /\ UNCHANGED job

Written(k) == pc = "written" /\ job.k = k
NoRoom(k) == pc = "noRoom" /\ job.k = k

\* nmbm_generate_info_table_cache
Generate(n, d, b, m) ==
  /\ n < MaxWrites
  /\ wc' = IF d THEN n + 1 ELSE n
  /\ cache' = Table(wc', b, m)

\* One more block fails.
Fault == faults > 0 /\ faults' = faults - 1 /\ UNCHANGED crashes

-----------------------------------------------------------------------------
(* nmbm_write_mgmt_range *)

\* A block known or marked to be bad is stepped over.
WriteSkip ==
  /\ pc = "write" /\ job.ba < job.limit /\ job.ba \in bad \cup marked
  /\ bad' = bad \cup {job.ba}
  /\ dirty' = (dirty \/ job.ba \notin bad)
  /\ Advance(job.ba + 1)
  /\ UNCHANGED <<phys, map, dbc, wc, cache, loc, pc, ctl, ghost, bounds>>

WriteErase ==
  /\ pc = "write" /\ job.ba < job.limit /\ job.ba \notin bad \cup marked
  /\ flash' = [flash EXCEPT ![job.ba] = Erased]
  /\ GoTo("program")
  /\ UNCHANGED <<marked, mem, loc, ctl, ghost, bounds>>

WriteProgram ==
  /\ pc = "program"
  /\ flash' = [flash EXCEPT ![job.ba] = cache]
  /\ GoTo("written")
  /\ UNCHANGED <<marked, mem, loc, ctl, ghost, bounds>>

\* The erase or the verified program fails: the block is marked and the next
\* one is tried.
WriteFails ==
  /\ \/ pc = "program"
     \/ pc = "write" /\ job.ba < job.limit /\ job.ba \notin bad \cup marked
  /\ Fault
  /\ flash' = [flash EXCEPT ![job.ba] = Torn]
  /\ marked' = marked \cup {job.ba}
  /\ bad' = bad \cup {job.ba}
  /\ dirty' = TRUE
  /\ pc' = "write"
  /\ Advance(job.ba + 1)
  /\ UNCHANGED <<map, dbc, wc, cache, loc, ctl, ghost>>

WriteNoRoom ==
  /\ pc = "write" /\ job.ba >= job.limit
  /\ GoTo("noRoom")
  /\ UNCHANGED <<phys, mem, loc, ctl, ghost, bounds>>

-----------------------------------------------------------------------------
(* nmbm_erase_range *)

RangeSkip ==
  /\ pc = "range" /\ job.ba < job.limit /\ job.ba \in bad \cup marked
  /\ bad' = bad \cup {job.ba}
  /\ dirty' = (dirty \/ job.ba \notin bad)
  /\ Advance(job.ba + 1)
  /\ UNCHANGED <<phys, map, dbc, wc, cache, loc, pc, ctl, ghost, bounds>>

RangeErase ==
  /\ pc = "range" /\ job.ba < job.limit /\ job.ba \notin bad \cup marked
  /\ flash' = [flash EXCEPT ![job.ba] = Erased]
  /\ Advance(job.ba + 1)
  /\ UNCHANGED <<marked, mem, loc, pc, ctl, ghost, bounds>>

RangeFails ==
  /\ pc = "range" /\ job.ba < job.limit /\ job.ba \notin bad \cup marked
  /\ Fault
  /\ flash' = [flash EXCEPT ![job.ba] = Torn]
  /\ marked' = marked \cup {job.ba}
  /\ bad' = bad \cup {job.ba}
  /\ dirty' = TRUE
  /\ Advance(job.ba + 1)
  /\ UNCHANGED <<map, dbc, wc, cache, loc, pc, ctl, ghost>>

RangeOver(k) == pc = "range" /\ job.ba >= job.limit /\ job.k = k

-----------------------------------------------------------------------------
(* nmbm_rebuild_info_table, from nmbm_create_info_table (upd = "none") or   *)
(* from nmbm_update_info_table_once                                         *)

RebuildFrom(t) ==
  /\ main' = 0 /\ backup' = 0 /\ mba' = t
  /\ Write(MgmtStart, t, "rebuildMain", MgmtStart)

RebuildReturns == GoTo(IF upd = "none" THEN "tail" ELSE "update")

RebuildMainWritten ==
  /\ Written("rebuildMain")
  /\ main' = job.ba /\ mba' = job.ba + 1
  /\ dirty' = FALSE
  /\ \/ Room(job.ba + 1, top) = {} /\ RebuildReturns
     \/ \E b \in Blocks : /\ Reserve(b, job.ba + 1, top)
                          /\ Write(b, top, "rebuildBackup", b)
  /\ UNCHANGED <<phys, bad, map, dbc, wc, cache, backup, top, sig, prot, ctl, ghost, bounds>>

\* No table at all could be written.  The result reaches nmbm_attach only
\* from the two calls in nmbm_create_info_table.
RebuildMainFails ==
  /\ NoRoom("rebuildMain")
  /\ prot' = TRUE
  /\ GoTo(IF upd \in {"none", "create"} THEN "failed" ELSE "updated")
  /\ UNCHANGED <<phys, mem, main, backup, mba, top, sig, ctl, ghost, bounds>>

RebuildBackupWritten ==
  /\ Written("rebuildBackup")
  /\ backup' = job.ba /\ mba' = job.ba + 1
  /\ EraseRange(main + 1, job.ba, "rebuilt")
  /\ UNCHANGED <<phys, mem, main, top, sig, prot, ctl, ghost, bounds>>

RebuildBackupFails ==
  /\ NoRoom("rebuildBackup")
  /\ RebuildReturns
  /\ UNCHANGED <<phys, mem, loc, ctl, ghost, bounds>>

Rebuilt ==
  /\ RangeOver("rebuilt")
  /\ RebuildReturns
  /\ UNCHANGED <<phys, mem, loc, ctl, ghost, bounds>>

-----------------------------------------------------------------------------
(* nmbm_update_info_table: nmbm_update_info_table_once until nothing is     *)
(* dirty.  main_table_ba is known here: only a rebuild clears it, and a     *)
(* rebuild that fails protects the chip.                                    *)

UpdateOver ==
  /\ pc = "update" /\ (prot \/ ~dirty)
  /\ GoTo("updated")
  /\ UNCHANGED <<phys, mem, loc, ctl, ghost, bounds>>

\* Variant: the tables may grow up to the signature.
UpdateOnceToSignature ==
  /\ pc = "update" /\ ~prot /\ dirty
  /\ Generate(wc, TRUE, bad, map)
  /\ IF backup = 0 THEN Write(main, sig, "onceMain", main)
                   ELSE Write(backup, sig, "onceBackup", backup)
  /\ UNCHANGED <<phys, bad, map, dbc, dirty, loc, ctl, ghost, bounds>>

UpdateOnce ==
  /\ pc = "update" /\ ~prot /\ dirty
  /\ Generate(wc, TRUE, bad, map)
  /\ IF backup = 0 THEN Write(main, top, "onceMain", main)
                   ELSE Write(backup, top, "onceBackup", backup)
  /\ UNCHANGED <<phys, bad, map, dbc, dirty, loc, ctl, ghost, bounds>>

\* Variant: main_table_limit is not lowered to the backup table.
OnceBackupWrittenNoLimit ==
  /\ Written("onceBackup")
  /\ backup' = job.ba /\ mba' = job.ba + 1
  /\ dirty' = FALSE
  /\ Write(main, top, "onceMain", main)
  /\ UNCHANGED <<phys, bad, map, dbc, wc, cache, main, top, sig, prot, ctl, ghost, bounds>>

OnceBackupWritten ==
  /\ Written("onceBackup")
  /\ backup' = job.ba /\ mba' = job.ba + 1
  /\ dirty' = FALSE
  /\ Write(main, job.ba, "onceMain", main)
  /\ UNCHANGED <<phys, bad, map, dbc, wc, cache, main, top, sig, prot, ctl, ghost, bounds>>

OnceBackupFails ==
  /\ NoRoom("onceBackup")
  /\ mba' = backup /\ backup' = 0
  /\ Write(main, top, "onceMain", main)
  /\ UNCHANGED <<phys, mem, main, top, sig, prot, ctl, ghost, bounds>>

\* Variant: without nmbm_mark_tables_clean.
OnceMainWrittenDirty ==
  /\ Written("onceMain")
  /\ main' = job.ba
  /\ mba' = IF backup = 0 THEN job.ba + 1 ELSE mba
  /\ GoTo("update")
  /\ UNCHANGED <<phys, mem, backup, top, sig, prot, ctl, ghost, bounds>>

OnceMainWritten ==
  /\ Written("onceMain")
  /\ main' = job.ba
  /\ mba' = IF backup = 0 THEN job.ba + 1 ELSE mba
  /\ dirty' = FALSE
  /\ GoTo("update")
  /\ UNCHANGED <<phys, bad, map, dbc, wc, cache, backup, top, sig, prot, ctl, ghost, bounds>>

OnceMainFailsAlone ==
  /\ NoRoom("onceMain") /\ backup = 0
  /\ RebuildFrom(top)
  /\ UNCHANGED <<phys, mem, top, sig, prot, ctl, ghost, bounds>>

-----------------------------------------------------------------------------
(* nmbm_rescue_main_info_table: a temporary table behind the backup table,  *)
(* then the main table at the start of the management area.  The part after *)
(* "if it's not overwritten" is dead code: the main table's limit is the    *)
(* temporary table.                                                         *)

BackupBecomesMain == main' = backup /\ backup' = 0

RescueMain ==
  /\ NoRoom("onceMain") /\ backup # 0
  /\ \/ /\ Room(mba, top) = {}
        /\ BackupBecomesMain /\ GoTo("update")
     \/ \E b \in Blocks : /\ Reserve(b, mba, top)
                          /\ Write(b, top, "tmp", b)
                          /\ UNCHANGED <<main, backup>>
  /\ UNCHANGED <<phys, mem, mba, top, sig, prot, ctl, ghost, bounds>>

RescueTmpWritten ==
  /\ Written("tmp")
  /\ mba' = job.ba + 1
  /\ Write(MgmtStart, job.ba, "rescueMain", job.ba)
  /\ UNCHANGED <<phys, mem, main, backup, top, sig, prot, ctl, ghost, bounds>>

RescueTmpFails ==
  /\ NoRoom("tmp")
  /\ IF job.wba > mba THEN Write(job.wba - 1, top, "tmp", job.wba - 1) /\ UNCHANGED <<main, backup>>
                      ELSE BackupBecomesMain /\ GoTo("update")
  /\ UNCHANGED <<phys, mem, mba, top, sig, prot, ctl, ghost, bounds>>

RescueMainWritten ==
  /\ Written("rescueMain")
  /\ main' = job.ba /\ backup' = job.wba
  /\ dirty' = FALSE
  /\ GoTo("update")
  /\ UNCHANGED <<phys, bad, map, dbc, wc, cache, mba, top, sig, prot, ctl, ghost, bounds>>

RescueMainFails ==
  /\ NoRoom("rescueMain")
  /\ main' = job.wba /\ backup' = 0
  /\ dirty' = FALSE
  /\ GoTo("update")
  /\ UNCHANGED <<phys, bad, map, dbc, wc, cache, mba, top, sig, prot, ctl, ghost, bounds>>

-----------------------------------------------------------------------------
(* nmbm_load_info_table *)

\* nmbm_find_signature: the highest block with a valid signature.
SignatureAt(s) ==
  LET found == {b \in Blocks \ marked : flash[b] = Signature}
  IN  s \in found /\ \A b \in found : b <= s

\* nmbm_try_load_info_table with nmbm_check_info_table, while bd are the
\* blocks that are bad in memory.
Loadable(b, s, bd) ==
  /\ b \in Blocks \ (bd \cup marked) /\ flash[b].kind = "table"
  /\ \A lb \in LogicBlocks :
       LET p == flash[b].map[lb] IN ~(p >= MgmtStart /\ p <= b) /\ p # s
  /\ b \notin flash[b].bad

\* nmbm_search_info_table(lo, signature_ba)
FirstLoadable(b, lo, s, bd) ==
  /\ lo <= b /\ b < s - 1 /\ Loadable(b, s, bd)
  /\ \A x \in Blocks : lo <= x /\ x < b => ~Loadable(x, s, bd)
NoneLoadable(lo, s, bd) ==
  \A x \in Blocks : lo <= x /\ x < s - 1 => ~Loadable(x, s, bd)

\* Blocks lo..hi that the search sets to bad: the marked ones, and the torn
\* ones whose read ended in an ECC error.
Rejected(lo, hi, ecc, bd) == {b \in (marked \cup ecc) \ bd : lo <= b /\ b <= hi}

EccErrors == SUBSET {b \in Blocks : flash[b] = Torn}

\* Variant: minimum_mapping_pb itself.
TopAt(t, b, m, s) ==
  LET above == {p \in {m[lb] : lb \in LogicBlocks} : p > b} \cup {s}
  IN  t \in above /\ \A p \in above : t <= p

\* mapping_blocks_top_ba as the check of the table at block b returns it.
TopBelow(t, b, m, s) ==
  LET mapped == {m[lb] : lb \in LogicBlocks}
      above == {p \in mapped : p > b /\ p < s} \cup {s}
  IN  t + 1 \in above /\ \A p \in above : t < p

\* The final data_block_count.
LastMapped(d, m) ==
  \/ m[d - 1] >= 0 /\ \A lb \in LogicBlocks : lb >= d => m[lb] < 0
  \/ d = MgmtStart /\ \A lb \in LogicBlocks : m[lb] < 0

\* The chip stays writable only with spare blocks and two tables.
LoadReturns(m, t, ok) == prot' = (m = t \/ ~ok) /\ GoTo("idle")

\* Memory after the table at block c was chosen.
LoadTable(c, s, b, d) ==
  /\ bad' = b
  /\ map' = flash[c].map
  /\ \E n \in 1..MgmtStart : LastMapped(n, flash[c].map) /\ dbc' = n
  /\ \E t \in Blocks : TopBelow(t, c, flash[c].map, s) /\ top' = t
  /\ Generate(flash[c].wc, d, b, flash[c].map)
  /\ sig' = s
  /\ UNCHANGED <<phys, ctl, ghost, bounds>>

\* One table: nmbm_rescue_single_info_table starts in front of it.
LoadOne ==
  /\ pc = "off"
  /\ \E s \in Blocks : SignatureAt(s) /\
     \E a \in Blocks : FirstLoadable(a, MgmtStart, s, {}) /\
     \E ecc \in EccErrors :
       /\ NoneLoadable(a + 1, s, flash[a].bad)
       /\ LET rej == Rejected(a + 1, s - 2, ecc, flash[a].bad)
              d == rej # {} \/ Rejected(MgmtStart, a - 1, ecc, {}) # {}
          IN  LoadTable(a, s, flash[a].bad \cup rej, d) /\ dirty' = d
       /\ main' = a /\ backup' = 0 /\ mba' = a + 1 /\ prot' = FALSE
       /\ Write(MgmtStart, a, "front", MgmtStart)

\* Two tables: the newer one counts, the first one if they are equally old;
\* an older one is rewritten by nmbm_update_single_info_table.
LoadPair(s, a, b, ecc) ==
  LET rej == Rejected(a + 1, b - 1, ecc, flash[a].bad)
      d == rej # {} \/ Rejected(MgmtStart, a - 1, ecc, {}) # {}
      newer == flash[b].wc > flash[a].wc
  IN  /\ LoadTable(IF newer THEN b ELSE a, s,
                   IF newer THEN flash[b].bad ELSE flash[a].bad \cup rej, d)
      /\ main' = a /\ backup' = b /\ mba' = b + 1
      /\ dirty' = (d \/ flash[a].wc # flash[b].wc)
      /\ IF flash[a].wc = flash[b].wc
         THEN LoadReturns(b + 1, top', TRUE)
         ELSE /\ prot' = FALSE
              /\ IF newer THEN Write(a, b, "singleMain", a)
                          ELSE Write(b, top', "singleBackup", b)

LoadTwo ==
  /\ pc = "off"
  /\ \E s \in Blocks : SignatureAt(s) /\
     \E a \in Blocks : FirstLoadable(a, MgmtStart, s, {}) /\
     \E b \in Blocks : FirstLoadable(b, a + 1, s, flash[a].bad) /\
     \E ecc \in EccErrors : LoadPair(s, a, b, ecc)

SingleMainWritten ==
  /\ Written("singleMain")
  /\ main' = job.ba /\ dirty' = FALSE
  /\ LoadReturns(mba, top, TRUE)
  /\ UNCHANGED <<phys, bad, map, dbc, wc, cache, backup, mba, top, sig, ctl, ghost, bounds>>

SingleMainFails ==
  /\ NoRoom("singleMain")
  /\ BackupBecomesMain
  /\ Write(MgmtStart, backup, "front", MgmtStart)
  /\ UNCHANGED <<phys, mem, mba, top, sig, prot, ctl, ghost, bounds>>

SingleBackupWritten ==
  /\ Written("singleBackup")
  /\ backup' = job.ba /\ mba' = job.ba + 1 /\ dirty' = FALSE
  /\ LoadReturns(job.ba + 1, top, TRUE)
  /\ UNCHANGED <<phys, bad, map, dbc, wc, cache, main, top, sig, ctl, ghost, bounds>>

SingleBackupFails ==
  /\ NoRoom("singleBackup")
  /\ mba' = backup /\ backup' = 0
  /\ LoadReturns(backup, top, FALSE)
  /\ UNCHANGED <<phys, mem, main, top, sig, ctl, ghost, bounds>>

-----------------------------------------------------------------------------
(* nmbm_rescue_single_info_table, the rest of nmbm_load_info_table *)

FrontWritten ==
  /\ Written("front")
  /\ backup' = main /\ main' = job.ba /\ dirty' = FALSE
  /\ EraseRange(job.ba + 1, main, "front")
  /\ UNCHANGED <<phys, bad, map, dbc, wc, cache, mba, top, sig, prot, ctl, ghost, bounds>>

FrontCleaned ==
  /\ RangeOver("front")
  /\ LoadReturns(mba, top, TRUE)
  /\ UNCHANGED <<phys, mem, main, backup, mba, top, sig, ctl, ghost, bounds>>

FrontFails ==
  /\ NoRoom("front")
  /\ \/ Room(mba, top) = {} /\ LoadReturns(mba, top, FALSE)
     \/ \E b \in Blocks : /\ Reserve(b, mba, top)
                          /\ Write(b, top, "next", b)
                          /\ UNCHANGED prot
  /\ UNCHANGED <<phys, mem, main, backup, mba, top, sig, ctl, ghost, bounds>>

NextWritten ==
  /\ Written("next")
  /\ EraseRange(mba, job.ba, "next")
  /\ UNCHANGED <<phys, mem, loc, ctl, ghost, bounds>>

\* table_start_ba is the limit of the range just erased.
NextCleaned ==
  /\ RangeOver("next")
  /\ backup' = job.limit /\ mba' = job.limit + 1 /\ dirty' = FALSE
  /\ LoadReturns(job.limit + 1, top, TRUE)
  /\ UNCHANGED <<phys, bad, map, dbc, wc, cache, main, top, sig, ctl, ghost, bounds>>

NextFails ==
  /\ NoRoom("next")
  /\ IF job.wba > mba THEN Write(job.wba - 1, top, "next", job.wba - 1) /\ UNCHANGED prot
                      ELSE LoadReturns(mba, top, FALSE)
  /\ UNCHANGED <<phys, mem, main, backup, mba, top, sig, ctl, ghost, bounds>>

-----------------------------------------------------------------------------
(* nmbm_map_block *)

\* Unmapped spare blocks, when bd are the bad ones.
Unmapped(bd) == {b \in Blocks \ bd : mba < b /\ b <= top}

\* The highest one is taken.  mapping_blocks_top_ba goes down by one block,
\* whichever block was taken.
MapTo(lb, bd) ==
  /\ mba # top
  /\ \E p \in Unmapped(bd) :
       /\ \A b \in Unmapped(bd) : b <= p
       /\ map' = [map EXCEPT ![lb] = p]
       /\ disorder' = (disorder \/ p # top)
  /\ top' = top - 1
  /\ dirty' = TRUE

NothingToMap(bd) == mba # top /\ Unmapped(bd) = {}

-----------------------------------------------------------------------------
(* nmbm_create_new and nmbm_create_info_table *)

\* Block state and mapping from scratch; whatever was mapped is forgotten.
ScanChip(rej) ==
  /\ bad' = marked \cup rej
  /\ dirty' = (marked \cup rej # {})
  /\ \E n \in 0..MgmtStart, m \in Mappings :
       InitialMapping(m, marked \cup rej, n) /\ map' = m /\ dbc' = n
  /\ wc' = 0 /\ main' = 0 /\ backup' = 0 /\ prot' = FALSE
  /\ UNCHANGED <<phys, cache, mba, top, ctl, ghost, bounds>>

CreateNew ==
  /\ pc = "off" /\ \A s \in Blocks : ~SignatureAt(s)
  /\ ScanChip({})
  /\ pc' = IF ForceCreate THEN "sign" ELSE "failed"
  /\ job' = Job(BlockCount - 1, MgmtStart, "sign", 0)
  /\ UNCHANGED sig

\* A signature but no table: nmbm_load_existing starts over as well.
CreateAgain ==
  /\ pc = "off"
  /\ \E s \in Blocks, ecc \in EccErrors :
       /\ SignatureAt(s) /\ NoneLoadable(MgmtStart, s, {})
       /\ ScanChip(Rejected(MgmtStart, s - 2, ecc, {}))
       /\ sig' = s
  /\ GoTo(IF ForceCreate THEN "create" ELSE "failed")

\* nmbm_write_signature, from the last block down
SignSkip ==
  /\ pc = "sign" /\ (job.ba <= job.limit \/ job.ba \in bad)
  /\ IF job.ba <= job.limit THEN GoTo("failed")
                           ELSE UNCHANGED pc /\ Advance(job.ba - 1)
  /\ UNCHANGED <<phys, mem, loc, ctl, ghost, bounds>>

SignWrite ==
  /\ pc = "sign" /\ job.ba > job.limit /\ job.ba \notin bad
  /\ flash' = [flash EXCEPT ![job.ba] = Signature]
  /\ sig' = job.ba
  /\ GoTo("create")
  /\ UNCHANGED <<marked, mem, main, backup, mba, top, prot, ctl, ghost, bounds>>

SignFails ==
  /\ pc = "sign" /\ job.ba > job.limit /\ job.ba \notin bad
  /\ Fault
  /\ flash' = [flash EXCEPT ![job.ba] = Torn]
  /\ marked' = marked \cup {job.ba} /\ bad' = bad \cup {job.ba} /\ dirty' = TRUE
  /\ Advance(job.ba - 1)
  /\ UNCHANGED <<map, dbc, wc, cache, loc, pc, ctl, ghost>>

CreateInfoTable ==
  /\ pc = "create"
  /\ IF \E t \in Blocks : WalkDesc(t, 1, sig, MgmtStart)
     THEN \E t \in Blocks : WalkDesc(t, 1, sig, MgmtStart) /\ top' = t /\ RebuildFrom(t)
     ELSE GoTo("failed") /\ UNCHANGED <<main, backup, mba, top>>
  /\ Generate(wc, dirty, bad, map)
  /\ UNCHANGED <<phys, bad, map, dbc, dirty, sig, prot, ctl, ghost, bounds>>

\* Variant: the loop does not end at mgmt_start_ba.
MapTailOn ==
  /\ pc = "tail" /\ dbc <= MgmtStart
  /\ MapTo(dbc, bad)
  /\ dbc' = dbc + 1
  /\ UNCHANGED <<phys, bad, wc, cache, main, backup, mba, sig, prot, pc, job, ctl, stored, left, unsaved, bare, bounds>>

\* Logic blocks that got no data block are mapped to spare blocks.
MapTail ==
  /\ pc = "tail" /\ dbc < MgmtStart
  /\ MapTo(dbc, bad)
  /\ dbc' = dbc + 1
  /\ UNCHANGED <<phys, bad, wc, cache, main, backup, mba, sig, prot, pc, job, ctl, stored, left, unsaved, bare, bounds>>

TailOver ==
  /\ pc = "tail" /\ (dbc = MgmtStart \/ mba = top \/ NothingToMap(bad))
  /\ GoTo("update")
  /\ upd' = IF dbc < MgmtStart /\ NothingToMap(bad) THEN "tail" ELSE "create"
  /\ UNCHANGED <<phys, mem, loc, op, ghost, bounds>>

-----------------------------------------------------------------------------
(* mtk_bmt.c: operations on a logic block, and remap_block_nmbm.  The retry *)
(* that follows a remap is the next WriteBlock.                             *)

WriteBlock ==
  /\ pc = "idle"
  /\ \E lb \in LogicBlocks :
       /\ lb < dbc /\ map[lb] \in Blocks
       /\ flash' = [flash EXCEPT ![map[lb]] = Data(lb)]
       /\ stored' = stored \cup {lb}
       /\ left' = [left EXCEPT ![lb] = -1]
  /\ UNCHANGED <<marked, mem, loc, pc, job, ctl, disorder, unsaved, bare, bounds>>

AfterOp(mk) == GoTo(IF mk THEN "mark" ELSE "idle")

\* remap_block_nmbm up to its use of the new block.  Nothing asks whether
\* the chip is protected.
Remap(lb, copy, mk) ==
  /\ pc = "idle" /\ lb < dbc /\ map[lb] \in Blocks
  /\ bad' = bad \cup {map[lb]}
  /\ op' = [lb |-> lb, src |-> map[lb], copy |-> copy, mark |-> mk]
  /\ \/ /\ MapTo(lb, bad \cup {map[lb]})
        /\ unsaved' = (unsaved \/ prot)
        /\ GoTo("move") /\ UNCHANGED upd
     \/ /\ NothingToMap(bad \cup {map[lb]})
        /\ dirty' = (dirty \/ map[lb] \notin bad)
        /\ upd' = "mapFail" /\ GoTo("update")
        /\ UNCHANGED <<map, top, disorder, unsaved>>
     \/ /\ mba = top
        /\ dirty' = (dirty \/ map[lb] \notin bad)
        /\ AfterOp(mk)
        /\ UNCHANGED <<map, top, disorder, unsaved, upd>>
  /\ UNCHANGED <<dbc, wc, cache, main, backup, mba, sig, prot, bare, crashes>>

\* The block that logic block lb is mapped to loses its contents.
Loses(lb) ==
  /\ flash' = [flash EXCEPT ![map[lb]] = Torn]
  /\ stored' = stored \ {lb}
  /\ left' = [left EXCEPT ![lb] = IF @ = map[lb] THEN -1 ELSE @]
  /\ UNCHANGED marked

\* An erase, or the write of the first page, fails: copy_len is 0 and the
\* caller has given up what the block held.
WriteBlockFails ==
  \E lb \in LogicBlocks : Fault /\ Remap(lb, FALSE, FALSE) /\ Loses(lb)

\* The write of a later page fails: copy_len covers the pages acknowledged
\* before, which are intact and are copied.
WritePageFails ==
  \E lb \in LogicBlocks :
    Fault /\ Remap(lb, TRUE, FALSE) /\ UNCHANGED <<phys, stored, left>>

\* A read reports too many bitflips and the contents are still right.
ReadBlockWeak ==
  \E lb \in LogicBlocks :
    Fault /\ Remap(lb, TRUE, FALSE) /\ UNCHANGED <<phys, stored, left>>

\* A page cannot be read.  The copy ends at this page: it and all pages
\* behind it are missing from the new block.
ReadBlockFails ==
  \E lb \in LogicBlocks : Fault /\ Remap(lb, TRUE, FALSE) /\ Loses(lb)

MarkBad ==
  \E lb \in LogicBlocks :
    Fault /\ Remap(lb, TRUE, TRUE) /\ UNCHANGED <<phys, stored, left>>

IsBad ==
  \E lb \in LogicBlocks :
    /\ map[lb] \in marked /\ Remap(lb, TRUE, FALSE)
    /\ UNCHANGED <<phys, stored, left, faults>>

\* Variant: the contents stay behind.
MoveNothing ==
  /\ pc = "move"
  /\ flash' = [flash EXCEPT ![map[op.lb]] = Erased]
  /\ upd' = "remap" /\ GoTo("update")
  /\ UNCHANGED <<marked, mem, loc, op, ghost, bounds>>

\* Variant: the info tables are not updated after the move.
MoveOnly ==
  /\ pc = "move"
  /\ flash' = [flash EXCEPT ![map[op.lb]] = IF op.copy THEN flash[op.src] ELSE Erased]
  /\ AfterOp(op.mark)
  /\ UNCHANGED <<marked, mem, loc, ctl, ghost, bounds>>

MoveBlock ==
  /\ pc = "move"
  /\ flash' = [flash EXCEPT ![map[op.lb]] = IF op.copy THEN flash[op.src] ELSE Erased]
  /\ upd' = "remap" /\ GoTo("update")
  /\ UNCHANGED <<marked, mem, loc, op, ghost, bounds>>

\* The results of bbt_nand_erase and bbt_nand_copy are ignored: the new
\* mapping is saved although the data is still in the old block.
MoveFails ==
  /\ pc = "move"
  /\ Fault
  /\ flash' = [flash EXCEPT ![map[op.lb]] = Torn]
  /\ stored' = stored \ {op.lb}
  /\ left' = IF op.lb \in stored THEN [left EXCEPT ![op.lb] = op.src] ELSE left
  /\ upd' = "remap" /\ GoTo("update")
  /\ UNCHANGED <<marked, mem, loc, op, disorder, unsaved, bare>>

MarkOld ==
  /\ pc = "mark"
  /\ marked' = marked \cup {op.src}
  /\ GoTo("idle")
  /\ UNCHANGED <<flash, mem, loc, ctl, ghost, bounds>>

\* nmbm_update_info_table returns to its caller.
Updated ==
  /\ pc = "updated"
  /\ top' = IF upd \in {"mapFail", "tail"} THEN mba ELSE top
  /\ disorder' = (disorder \/ top' > top)
  /\ CASE upd = "tail" -> upd' = "create" /\ GoTo("update")
       [] upd = "create" -> upd' = "none" /\ GoTo("idle")
       [] OTHER -> upd' = "none" /\ AfterOp(op.mark)
  /\ UNCHANGED <<phys, mem, main, backup, mba, sig, prot, op, stored, left, unsaved, bare, bounds>>

-----------------------------------------------------------------------------
NoMapping == [lb \in LogicBlocks |-> -1]
NoJob == Job(0, 0, "none", 0)
NoOp == [lb |-> 0, src |-> 0, copy |-> FALSE, mark |-> FALSE]

\* The logic blocks with acknowledged data.
Acknowledged == stored \cup {lb \in LogicBlocks : left[lb] >= 0}

\* The driver has a table that it is not just rewriting in place.
Secured ==
  /\ pc \notin {"off", "sign", "create", "failed"} /\ main # 0
  /\ ~(backup = 0 /\ pc \in {"write", "program", "noRoom"} /\ job.k = "onceMain")

\* An erase or a program of the job's block is running.
Busy ==
  \/ pc = "program"
  \/ pc \in {"write", "range"} /\ job.ba < job.limit /\ job.ba \notin bad \cup marked

\* Power is lost; the block being erased or programmed may be left torn.
PowerLoss ==
  /\ pc # "off" /\ (crashes > 0 \/ pc = "failed")
  /\ \/ UNCHANGED flash
     \/ Busy /\ flash' = [flash EXCEPT ![job.ba] = Torn]
     \/ pc = "move" /\ flash' = [flash EXCEPT ![map[op.lb]] = Torn]
  /\ bare' = (bare \/ (~Secured /\ Acknowledged # {}))
  /\ crashes' = IF pc = "failed" THEN crashes ELSE crashes - 1
  /\ pc' = "off" /\ job' = NoJob /\ upd' = "none" /\ op' = NoOp
  /\ bad' = {} /\ map' = NoMapping /\ dbc' = 0 /\ wc' = 0 /\ dirty' = FALSE
  /\ cache' = Table(0, {}, NoMapping)
  /\ main' = 0 /\ backup' = 0 /\ mba' = 0 /\ top' = 0 /\ sig' = 0 /\ prot' = FALSE
  /\ UNCHANGED <<marked, stored, left, disorder, unsaved, faults>>

Init ==
  /\ flash = [b \in Blocks |-> Erased]
  /\ \E b \in Budgets :
       marked = b.factoryBad /\ faults = b.faults /\ crashes = b.crashes
  /\ bad = {} /\ map = NoMapping /\ dbc = 0 /\ wc = 0 /\ dirty = FALSE
  /\ cache = Table(0, {}, NoMapping)
  /\ main = 0 /\ backup = 0 /\ mba = 0 /\ top = 0 /\ sig = 0 /\ prot = FALSE
  /\ pc = "off" /\ job = NoJob /\ upd = "none" /\ op = NoOp
  /\ stored = {} /\ left = NoMapping
  /\ disorder = FALSE /\ unsaved = FALSE /\ bare = FALSE

WriteRange == WriteSkip \/ WriteErase \/ WriteProgram \/ WriteFails \/ WriteNoRoom
ErasingRange == RangeSkip \/ RangeErase \/ RangeFails
Rebuild == RebuildMainWritten \/ RebuildMainFails \/ RebuildBackupWritten
           \/ RebuildBackupFails \/ Rebuilt
Update == UpdateOver \/ UpdateOnce \/ OnceBackupWritten \/ OnceBackupFails
          \/ OnceMainWritten \/ OnceMainFailsAlone \/ Updated
Rescue == RescueMain \/ RescueTmpWritten \/ RescueTmpFails
          \/ RescueMainWritten \/ RescueMainFails
Load == LoadOne \/ LoadTwo \/ SingleMainWritten \/ SingleMainFails
        \/ SingleBackupWritten \/ SingleBackupFails
RescueSingle == FrontWritten \/ FrontCleaned \/ FrontFails
                \/ NextWritten \/ NextCleaned \/ NextFails
Create == CreateNew \/ CreateAgain \/ SignSkip \/ SignWrite \/ SignFails
          \/ CreateInfoTable \/ MapTail \/ TailOver
RemapRest == MoveBlock \/ MoveFails \/ MarkOld
Driver == WriteRange \/ ErasingRange \/ Rebuild \/ Update \/ Rescue \/ Load
          \/ RescueSingle \/ Create \/ RemapRest
Users == WriteBlock \/ WriteBlockFails \/ WritePageFails \/ ReadBlockWeak \/ ReadBlockFails
         \/ MarkBad \/ IsBad

Next == Driver \/ Users \/ PowerLoss

Spec == Init /\ [][Next]_vars /\ WF_vars(Driver)

-----------------------------------------------------------------------------
Jobs == {"none", "sign", "rebuildMain", "rebuildBackup", "rebuilt", "onceBackup",
         "onceMain", "tmp", "rescueMain", "singleMain", "singleBackup", "front", "next"}

MemoryType ==
  /\ marked \subseteq Blocks /\ bad \subseteq Blocks
  /\ map \in Mappings /\ dbc \in 0..MgmtStart
  /\ prot \in BOOLEAN /\ disorder \in BOOLEAN
  /\ stored \subseteq LogicBlocks /\ left \in Mappings

PlaceType ==
  /\ main \in Blocks /\ backup \in Blocks /\ sig \in Blocks
  /\ mba \in 0..BlockCount /\ top \in 0..BlockCount

TableType ==
  /\ cache.kind = "table" /\ cache.map \in Mappings /\ cache.bad \subseteq Blocks
  /\ DOMAIN flash = Blocks
  /\ \A b \in Blocks : flash[b].kind = "table" =>
       flash[b].map \in Mappings /\ flash[b].bad \subseteq Blocks

ControlType ==
  /\ job \in [ba : 0..BlockCount, limit : 0..BlockCount, k : Jobs, wba : 0..BlockCount]
  /\ op \in [lb : LogicBlocks, src : Blocks, copy : BOOLEAN, mark : BOOLEAN]

TypeOK == MemoryType /\ PlaceType /\ TableType /\ ControlType

-----------------------------------------------------------------------------
(* Properties *)

\* The tables the next attach would use, if power went off now: the newer of
\* the first two that can be loaded.
NextTables ==
  {x \in Blocks : flash[x].kind = "table" /\
    \E s \in Blocks : SignatureAt(s) /\
      \E a \in Blocks : FirstLoadable(a, MgmtStart, s, {}) /\
        \/ x = a /\ \A b \in Blocks :
             FirstLoadable(b, a + 1, s, flash[a].bad) => flash[b].wc <= flash[a].wc
        \/ FirstLoadable(x, a + 1, s, flash[a].bad) /\ flash[x].wc > flash[a].wc}

\* Losing power at any erase or program, of an update, a rescue, a rebuild or
\* an attach, leaves a table that the next attach loads, whether the driver
\* has one table or two.  Two cases are left out: the only table is being
\* rewritten in place or there is none (Secured), and spare blocks were not
\* handed out downwards (a table that has grown past a mapped block is one
\* nmbm_check_info_table refuses).
TableSurvives == ~disorder /\ Secured => NextTables # {}

\* Acknowledged data outlives remaps, copies, table rewrites, failing blocks
\* and power losses: there is a table for the next attach to load, the mapping
\* it would load leads to the data, and where remap_block_nmbm ignored a
\* failed copy, so that the mapping does not lead to it, the old block still
\* has it.  Three cases are left out: spare blocks handed out twice (see
\* MapsUnusedSpare), remaps on a protected chip, which the driver makes in
\* memory only, and power lost while the driver was not Secured.
DurableData ==
  ~disorder /\ ~unsaved /\ ~bare =>
    /\ (pc = "off" \/ Secured) /\ Acknowledged # {} => NextTables # {}
    /\ \A b \in NextTables : \A lb \in stored :
         flash[b].map[lb] \in Blocks /\ flash[flash[b].map[lb]] = Data(lb)
    /\ \A lb \in LogicBlocks : left[lb] >= 0 => flash[left[lb]] = Data(lb)

\* When an operation is over, its mapping is the one the next attach loads:
\* nmbm_update_info_table left no table that hides the new one.
UpdateSaves ==
  pc = "idle" /\ ~prot /\ ~unsaved => \A b \in NextTables : flash[b].map = map

\* Two logic blocks never share a physical block, over any number of remaps
\* and attaches, as long as the spare blocks were handed out downwards.
NoSharedBlocks ==
  ~disorder => \A x, y \in LogicBlocks : x # y /\ map[x] >= 0 => map[x] # map[y]

\* No block between the next one and the limit of a running table write or
\* range erase is mapped: the info tables grow upwards and the mapped spare
\* blocks downwards, and they never meet.
WritesAvoidMapped ==
  ~disorder /\ pc \in {"write", "program", "range"} =>
    \A lb \in LogicBlocks : ~(job.ba <= map[lb] /\ map[lb] < job.limit)

\* nmbm_map_block, when it finds nothing, closes the spare area by moving its
\* top down to mapping_blocks_ba; it never moves the top up into blocks that
\* are already mapped, whichever tables the attach had found.
TopNeverRises ==
  [][pc = "updated" /\ pc' # "off" /\ ~disorder => top' <= top]_vars

\* "Map a bad block to a unused spare block": the comment of nmbm_map_block.
MapsUnusedSpare == \A x, y \in LogicBlocks : x # y /\ map[x] >= 0 => map[x] # map[y]

\* Attach, updates and remaps come to an end: the loop of
\* nmbm_update_info_table, the two write_ba loops and every rescue, although
\* each of them may find new bad blocks and so start the loop again.
UpdateEnds == (pc \notin {"off", "idle", "failed"}) ~> (pc \in {"off", "idle", "failed"})
=============================================================================
