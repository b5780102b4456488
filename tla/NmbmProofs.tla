----------------------------- MODULE NmbmProofs -----------------------------
(***************************************************************************)
(* Info tables grow upwards from MgmtStart, mapped spare blocks downwards  *)
(* from the signature; the theorems say that they never meet, that no two  *)
(* logic blocks share a physical block, that power losses leave a table to *)
(* load wherever the driver was not rewriting its only one, and that every *)
(* table left on the chip leads to the acknowledged data, for every chip   *)
(* size and every number of faults and power losses.                       *)
(***************************************************************************)
EXTENDS Nmbm, FiniteSetTheorems, WellFoundedInduction, TLAPS

JobPcs == {"write", "program", "written", "noRoom", "range"}
StepPcs == {"tail", "update", "updated", "idle", "move", "mark"}

\* What the continuation of a write or a range erase relies on.
JobOK ==
  /\ pc \in {"program", "written"} => job.ba < job.limit
  /\ pc \in JobPcs => job.ba >= MgmtStart
  /\ pc = "range" => job.limit \in Blocks /\ job.limit >= MgmtStart
  /\ pc = "sign" => job.ba \in Blocks /\ job.limit = MgmtStart
  /\ pc \in JobPcs /\ job.k = "rescueMain" => job.wba \in Blocks /\ job.wba >= MgmtStart
  /\ pc \in JobPcs \ {"range"} /\ job.k = "front" => job.limit = main
  /\ pc \in JobPcs /\ job.k = "singleMain" => job.limit = backup
  /\ pc \in JobPcs /\ job.k \in {"tmp", "singleMain", "onceBackup", "singleBackup"} => backup # 0

\* Where the tables and the spare area lie.
PlacesOK ==
  /\ main = 0 \/ main >= MgmtStart
  /\ backup = 0 \/ backup >= MgmtStart
  /\ pc \in JobPcs \cup StepPcs => mba >= MgmtStart /\ top >= MgmtStart
  /\ pc \in JobPcs /\ job.k # "rebuildMain" => main # 0
  /\ pc \in StepPcs /\ ~prot => main # 0

\* Every mapping leads to the data area or above the top of the spare area.
MapOK ==
  /\ pc \in {"off", "sign", "create"} => \A lb \in LogicBlocks : map[lb] < MgmtStart
  /\ ~disorder => \A lb \in LogicBlocks : map[lb] < MgmtStart \/ map[lb] > top

\* The same for the limit of the running job.
JobClear ==
  ~disorder /\ pc \in JobPcs =>
    \A lb \in LogicBlocks : map[lb] < MgmtStart \/ map[lb] >= job.limit

\* No mapping, in memory, about to be written or on the chip, maps two logic
\* blocks to one physical block.
Distinct(m) == \A x, y \in LogicBlocks : x # y /\ m[x] >= 0 => m[x] # m[y]
DistinctOK ==
  ~disorder => /\ Distinct(map) /\ Distinct(cache.map)
               /\ \A b \in Blocks : flash[b].kind = "table" => Distinct(flash[b].map)

Inv == TypeOK /\ JobOK /\ PlacesOK /\ MapOK /\ JobClear /\ DistinctOK

-----------------------------------------------------------------------------
(* What the operators of the model return *)

\* nmbm_try_reserve_blocks stays inside the range it is given.
LEMMA ReserveRange ==
  ASSUME NEW b, NEW ba, NEW t, Reserve(b, ba, t)
  PROVE  b \in Blocks /\ ba <= b /\ b <= t - 2
  BY DEF Reserve, Room, GoodIn

\* So does nmbm_block_walk_desc.
LEMMA WalkDescRange ==
  ASSUME NEW b, NEW n, NEW start, NEW limit, WalkDesc(b, n, start, limit)
  PROVE  b \in Blocks /\ limit + 1 <= b /\ b <= start
  BY DEF WalkDesc, GoodIn

\* nmbm_map_block takes a block between the tables and the top.
LEMMA MapToTakes ==
  ASSUME NEW lb \in LogicBlocks, NEW bd, map \in Mappings, MapTo(lb, bd)
  PROVE  \E p \in Blocks : /\ mba < p /\ p <= top
                           /\ map' = [map EXCEPT ![lb] = p] /\ map' \in Mappings
                           /\ top' = top - 1
                           /\ disorder' = (disorder \/ p # top)
  <1>1. PICK p \in Unmapped(bd) : map' = [map EXCEPT ![lb] = p] /\ disorder' = (disorder \/ p # top)
    BY DEF MapTo
  <1>2. p \in Blocks /\ mba < p /\ p <= top
    BY <1>1 DEF Unmapped
  <1>3. map' \in Mappings
    BY <1>1, <1>2 DEF Mappings, Blocks
  <1> QED
    BY <1>1, <1>2, <1>3 DEF MapTo

\* A loaded mapping leads to the data area or above the table it is from, and
\* above the top that the load computes.
LEMMA LoadedClear ==
  ASSUME NEW c \in Blocks, NEW s \in Blocks, NEW bd, NEW t \in Blocks, NEW lb \in LogicBlocks,
         TableType, c < s - 1, Loadable(c, s, bd), TopBelow(t, c, flash[c].map, s)
  PROVE  /\ flash[c].map[lb] < MgmtStart \/ (flash[c].map[lb] > t /\ flash[c].map[lb] > c)
         /\ t >= c
  <1> DEFINE p == flash[c].map[lb]
  <1>1. flash[c].map \in Mappings /\ p \in Int
    BY DEF Loadable, TableType, Mappings
  <1>2. ~(p >= MgmtStart /\ p <= c) /\ p # s
    BY DEF Loadable
  <1>3. /\ t + 1 \in {q \in {flash[c].map[x] : x \in LogicBlocks} : q > c /\ q < s} \cup {s}
        /\ \A q \in {q \in {flash[c].map[x] : x \in LogicBlocks} : q > c /\ q < s} \cup {s} : t < q
    BY DEF TopBelow
  <1>4. t + 1 > c
    BY <1>3, NmbmConstants DEF Blocks
  <1>5. p > c /\ p < s => t < p
    BY <1>3
  <1>6. t < s
    BY <1>3
  <1> HIDE DEF p
  <1>7. p < MgmtStart \/ (p > t /\ p > c)
    BY <1>1, <1>2, <1>5, <1>6, NmbmConstants DEF Blocks
  <1> QED
    BY <1>4, <1>7, NmbmConstants DEF p, Blocks

\* The two outcomes of the search for tables.
Loads(c, a) ==
  /\ c \in Blocks /\ flash[c].kind = "table" /\ map' = flash[c].map
  /\ cache'.kind = "table" /\ cache'.map = map' /\ cache'.bad \subseteq Blocks
  /\ a >= MgmtStart /\ main' = a /\ a \in Blocks
  /\ bad' \subseteq Blocks /\ dbc' \in 0..MgmtStart
  /\ sig' \in Blocks /\ top' \in Blocks /\ top' >= c
  /\ \A lb \in LogicBlocks : map'[lb] < MgmtStart \/ (map'[lb] > top' /\ map'[lb] > c)
  /\ SignatureAt(sig') /\ top' < sig' /\ \A lb \in LogicBlocks : map'[lb] # sig'
  /\ wc' \in {flash[c].wc, flash[c].wc + 1} /\ cache' = Table(wc', bad', map')
  /\ Loadable(a, sig', {}) /\ a < sig' - 1
  /\ UNCHANGED <<flash, marked, op, stored, left, disorder>>

LEMMA LoadsPlaces ==
  ASSUME NEW c, NEW a, Loads(c, a)
  PROVE  /\ main' = a /\ a \in Blocks /\ a >= MgmtStart
         /\ sig' \in Blocks /\ top' \in Blocks /\ top' >= c /\ op' = op
  BY DEF Loads

LEMMA LoadTableFinds ==
  ASSUME TypeOK, NEW c \in Blocks, NEW a \in Blocks, NEW s \in Blocks, NEW bd, NEW b, NEW d,
         Loadable(c, s, bd), c < s - 1, MgmtStart <= a, b \subseteq Blocks,
         SignatureAt(s), Loadable(a, s, {}), a < s - 1,
         LoadTable(c, s, b, d), main' = a
  PROVE  Loads(c, a)
  <1>1. flash[c].kind = "table"
    BY DEF Loadable
  <1>2. PICK t \in Blocks : TopBelow(t, c, flash[c].map, s) /\ top' = t
    BY DEF LoadTable
  <1>3. t >= c
    <2>1. 0 \in LogicBlocks
      BY NmbmConstants DEF LogicBlocks
    <2> QED
      BY <1>2, <2>1, LoadedClear DEF TypeOK
  <1>4. \A lb \in LogicBlocks : flash[c].map[lb] < MgmtStart \/ (flash[c].map[lb] > t /\ flash[c].map[lb] > c)
    BY <1>2, LoadedClear DEF TypeOK
  <1>5. dbc' \in 0..MgmtStart
    BY NmbmConstants DEF LoadTable
  <1>6. map' = flash[c].map /\ bad' = b /\ sig' = s
    BY DEF LoadTable
  <1>7. cache' = Table(wc', b, flash[c].map)
    BY DEF LoadTable, Generate
  <1>8. cache'.kind = "table" /\ cache'.map = map' /\ cache'.bad \subseteq Blocks
    BY <1>6, <1>7 DEF Table
  <1>9. UNCHANGED <<flash, marked, op, stored, left, disorder>>
    BY DEF LoadTable, phys, ctl, ghost
  <1>10. t < s
    BY <1>2 DEF TopBelow
  <1>11. \A lb \in LogicBlocks : flash[c].map[lb] # s
    BY DEF Loadable
  <1>12. wc' \in {flash[c].wc, flash[c].wc + 1}
    BY DEF LoadTable, Generate
  <1> QED
    BY <1>1, <1>2, <1>3, <1>4, <1>5, <1>6, <1>7, <1>8, <1>9, <1>10, <1>11, <1>12 DEF Loads

LEMMA RejectedBlocks ==
  ASSUME TypeOK, NEW ecc \in EccErrors, NEW lo, NEW hi, NEW bd
  PROVE  Rejected(lo, hi, ecc, bd) \subseteq Blocks
  BY DEF Rejected, EccErrors, TypeOK, MemoryType

LEMMA LoadOneFinds ==
  ASSUME TypeOK, LoadOne
  PROVE  \E a \in Blocks : /\ Loads(a, a) /\ backup' = 0 /\ mba' = a + 1 /\ prot' = FALSE
                           /\ Write(MgmtStart, a, "front", MgmtStart)
  <1>1. PICK s \in Blocks : SignatureAt(s) /\
          \E a \in Blocks : FirstLoadable(a, MgmtStart, s, {}) /\ \E ecc \in EccErrors :
            /\ LET rej == Rejected(a + 1, s - 2, ecc, flash[a].bad)
                   d == rej # {} \/ Rejected(MgmtStart, a - 1, ecc, {}) # {}
               IN  LoadTable(a, s, flash[a].bad \cup rej, d)
            /\ main' = a /\ backup' = 0 /\ mba' = a + 1 /\ prot' = FALSE
            /\ Write(MgmtStart, a, "front", MgmtStart)
    BY DEF LoadOne
  <1>2. PICK a \in Blocks : FirstLoadable(a, MgmtStart, s, {}) /\ \E ecc \in EccErrors :
            /\ LET rej == Rejected(a + 1, s - 2, ecc, flash[a].bad)
                   d == rej # {} \/ Rejected(MgmtStart, a - 1, ecc, {}) # {}
               IN  LoadTable(a, s, flash[a].bad \cup rej, d)
            /\ main' = a /\ backup' = 0 /\ mba' = a + 1 /\ prot' = FALSE
            /\ Write(MgmtStart, a, "front", MgmtStart)
    BY <1>1
  <1>3. PICK ecc \in EccErrors :
            /\ LET rej == Rejected(a + 1, s - 2, ecc, flash[a].bad)
                   d == rej # {} \/ Rejected(MgmtStart, a - 1, ecc, {}) # {}
               IN  LoadTable(a, s, flash[a].bad \cup rej, d)
            /\ main' = a /\ backup' = 0 /\ mba' = a + 1 /\ prot' = FALSE
            /\ Write(MgmtStart, a, "front", MgmtStart)
    BY <1>2
  <1> DEFINE rej == Rejected(a + 1, s - 2, ecc, flash[a].bad)
             d == rej # {} \/ Rejected(MgmtStart, a - 1, ecc, {}) # {}
  <1>4. MgmtStart <= a /\ a < s - 1 /\ Loadable(a, s, {})
    BY <1>2 DEF FirstLoadable
  <1>5. flash[a].bad \cup rej \subseteq Blocks
    BY <1>4, RejectedBlocks DEF Loadable, TypeOK, TableType
  <1>6. Loads(a, a)
    <2>1. LoadTable(a, s, flash[a].bad \cup rej, d) /\ main' = a
      BY <1>3
    <2> HIDE DEF rej, d
    <2> QED
      BY <1>1, <1>4, <1>5, <2>1, LoadTableFinds
  <1> QED
    BY <1>3, <1>6

LEMMA LoadTwoFinds ==
  ASSUME TypeOK, LoadTwo
  PROVE  \E a, b \in Blocks :
           /\ Loads(a, a) \/ Loads(b, a)
           /\ Loadable(b, sig', {}) /\ b < sig' - 1
           /\ a < b /\ backup' = b /\ mba' = b + 1 /\ b < BlockCount - 1
           /\ \/ prot' \in BOOLEAN /\ GoTo("idle")
              \/ Loads(b, a) /\ prot' = FALSE /\ Write(a, b, "singleMain", a)
              \/ prot' = FALSE /\ Write(b, top', "singleBackup", b)
  <1> DEFINE Rej(a, b, ecc) == Rejected(a + 1, b - 1, ecc, flash[a].bad)
             Dirty(a, b, ecc) == Rej(a, b, ecc) # {} \/ Rejected(MgmtStart, a - 1, ecc, {}) # {}
             Newer(a, b) == flash[b].wc > flash[a].wc
  <1>1. PICK s \in Blocks : SignatureAt(s) /\
          \E a \in Blocks : FirstLoadable(a, MgmtStart, s, {}) /\
          \E b \in Blocks : FirstLoadable(b, a + 1, s, flash[a].bad) /\
          \E ecc \in EccErrors : LoadPair(s, a, b, ecc)
    BY DEF LoadTwo
  <1>2. PICK a \in Blocks : FirstLoadable(a, MgmtStart, s, {}) /\
          \E b \in Blocks : FirstLoadable(b, a + 1, s, flash[a].bad) /\
          \E ecc \in EccErrors : LoadPair(s, a, b, ecc)
    BY <1>1
  <1>3. PICK b \in Blocks : FirstLoadable(b, a + 1, s, flash[a].bad) /\
          \E ecc \in EccErrors : LoadPair(s, a, b, ecc)
    BY <1>2
  <1>4. PICK ecc \in EccErrors : LoadPair(s, a, b, ecc)
    BY <1>3
  <1>5. MgmtStart <= a /\ a < s - 1 /\ Loadable(a, s, {})
    BY <1>2 DEF FirstLoadable
  <1>6. a + 1 <= b /\ b < s - 1 /\ Loadable(b, s, flash[a].bad)
    BY <1>3 DEF FirstLoadable
  <1>7. flash[a].bad \cup Rej(a, b, ecc) \subseteq Blocks /\ flash[b].bad \subseteq Blocks
    BY <1>5, <1>6, RejectedBlocks DEF Loadable, TypeOK, TableType
  <1>8. Newer(a, b) => Loads(b, a)
    <2> SUFFICES ASSUME Newer(a, b) PROVE Loads(b, a)
      OBVIOUS
    <2>1. LoadTable(b, s, flash[b].bad, Dirty(a, b, ecc)) /\ main' = a
      BY <1>4 DEF LoadPair
    <2> HIDE DEF Rej, Dirty, Newer
    <2> QED
      BY <1>1, <1>5, <1>6, <1>7, <2>1, LoadTableFinds
  <1>9. ~Newer(a, b) => Loads(a, a)
    <2> SUFFICES ASSUME ~Newer(a, b) PROVE Loads(a, a)
      OBVIOUS
    <2>1. LoadTable(a, s, flash[a].bad \cup Rej(a, b, ecc), Dirty(a, b, ecc)) /\ main' = a
      BY <1>4 DEF LoadPair
    <2> HIDE DEF Rej, Dirty, Newer
    <2> QED
      BY <1>1, <1>5, <1>7, <2>1, LoadTableFinds
  <1>10. a < b /\ b < BlockCount - 1
    BY <1>6, NmbmConstants DEF Blocks
  <1>11. backup' = b /\ mba' = b + 1
    BY <1>4 DEF LoadPair
  <1>12. \/ prot' \in BOOLEAN /\ GoTo("idle")
         \/ Newer(a, b) /\ prot' = FALSE /\ Write(a, b, "singleMain", a)
         \/ prot' = FALSE /\ Write(b, top', "singleBackup", b)
    BY <1>4 DEF LoadPair, LoadReturns
  <1>13. sig' = s
    BY <1>4 DEF LoadPair, LoadTable
  <1>14. Loadable(b, sig', {}) /\ b < sig' - 1
    BY <1>6, <1>13 DEF Loadable
  <1> QED
    BY <1>8, <1>9, <1>10, <1>11, <1>12, <1>14

\* remap_block_nmbm changes the mapping and the top as nmbm_map_block does,
\* or not at all.
LEMMA RemapDoes ==
  ASSUME TypeOK, PlacesOK, NEW lb \in LogicBlocks, NEW copy \in BOOLEAN, NEW mk \in BOOLEAN,
         Remap(lb, copy, mk)
  PROVE  /\ bad' \subseteq Blocks /\ map' \in Mappings
         /\ op' \in [lb : LogicBlocks, src : Blocks, copy : BOOLEAN, mark : BOOLEAN]
         /\ pc = "idle" /\ pc' \in {"move", "update", "mark", "idle"}
         /\ UNCHANGED <<dbc, cache, main, backup, mba, sig, prot, job>>
         /\ \/ UNCHANGED <<map, top, disorder>>
            \/ \E p \in Blocks : /\ mba < p /\ p <= top
                                 /\ map' = [map EXCEPT ![lb] = p]
                                 /\ top' = top - 1
                                 /\ disorder' = (disorder \/ p # top)
  <1>1. bad' \subseteq Blocks
    BY DEF Remap, TypeOK, MemoryType
  <1>2. op' \in [lb : LogicBlocks, src : Blocks, copy : BOOLEAN, mark : BOOLEAN]
    BY DEF Remap
  <1>3. pc = "idle" /\ pc' \in {"move", "update", "mark", "idle"} /\ job' = job
    BY DEF Remap, AfterOp, GoTo
  <1>4. UNCHANGED <<dbc, cache, main, backup, mba, sig, prot>>
    BY DEF Remap
  <1>5. MapTo(lb, bad \cup {map[lb]}) \/ UNCHANGED <<map, top, disorder>>
    BY DEF Remap
  <1>6. map \in Mappings
    BY DEF TypeOK, MemoryType
  <1>7. CASE MapTo(lb, bad \cup {map[lb]})
    BY <1>1, <1>2, <1>3, <1>4, <1>6, <1>7, MapToTakes
  <1>8. CASE UNCHANGED <<map, top, disorder>>
    BY <1>1, <1>2, <1>3, <1>4, <1>6, <1>8
  <1> QED
    BY <1>5, <1>7, <1>8

LEMMA RemapTop ==
  ASSUME TypeOK, PlacesOK, NEW lb \in LogicBlocks, NEW copy \in BOOLEAN, NEW mk \in BOOLEAN,
         Remap(lb, copy, mk)
  PROVE  top' = top \/ (mba < top /\ top' = top - 1)
  <1>1. mba \in Int /\ top \in Int
    BY DEF TypeOK, PlaceType
  <1>2. CASE UNCHANGED <<map, top, disorder>>
    BY <1>2
  <1>3. ASSUME NEW p \in Blocks, mba < p /\ p <= top, top' = top - 1 PROVE mba < top /\ top' = top - 1
    BY <1>1, <1>3 DEF Blocks
  <1> QED
    BY <1>2, <1>3, RemapDoes

\* Programming one block keeps the tables well formed.
LEMMA OneBlock ==
  ASSUME TableType, NEW x, NEW v, flash' = [flash EXCEPT ![x] = v], cache' = cache,
         v.kind = "table" => v.map \in Mappings /\ v.bad \subseteq Blocks
  PROVE  TableType'
  BY DEF TableType

LEMMA Kinds ==
  /\ Erased.kind # "table" /\ Torn.kind # "table" /\ Signature.kind # "table"
  /\ \A lb : Data(lb).kind # "table"
  BY DEF Erased, Torn, Signature, Data

\* The effect of nmbm_map_block on the mapping.
MapsOne(lb) ==
  \E p \in Blocks : /\ mba < p /\ p <= top
                    /\ map' = [map EXCEPT ![lb] = p] /\ top' = top - 1
                    /\ disorder' = (disorder \/ p # top)

LEMMA MapsOneClear ==
  ASSUME MemoryType, PlaceType, NEW lb \in LogicBlocks, MapsOne(lb), MapOK, ~disorder',
         mba >= MgmtStart
  PROVE  /\ ~disorder
         /\ \A x \in LogicBlocks : map'[x] < MgmtStart \/ map'[x] > top'
         /\ \A x \in LogicBlocks : map'[x] = IF x = lb THEN top ELSE map[x]
         /\ \A x \in LogicBlocks : map[x] # top
  <1>1. PICK p \in Blocks : /\ mba < p /\ p <= top
                            /\ map' = [map EXCEPT ![lb] = p] /\ top' = top - 1
                            /\ disorder' = (disorder \/ p # top)
    BY DEF MapsOne
  <1>2. p = top /\ ~disorder
    BY <1>1
  <1>3. \A x \in LogicBlocks : map'[x] = IF x = lb THEN top ELSE map[x]
    BY <1>1, <1>2 DEF MemoryType, Mappings
  <1>4. \A x \in LogicBlocks : map[x] \in Int /\ (map[x] < MgmtStart \/ map[x] > top)
    BY <1>2 DEF MapOK, MemoryType, Mappings
  <1>5. top \in Int /\ mba \in Int /\ mba < top /\ top' = top - 1
    BY <1>1, <1>2 DEF PlaceType
  <1> QED
    BY <1>2, <1>3, <1>4, <1>5, NmbmConstants

\* nmbm_build_mapping_table maps into the data area, without repetition.
LEMMA ScanChipMaps ==
  ASSUME NEW rej, ScanChip(rej)
  PROVE  /\ \A lb \in LogicBlocks : map'[lb] < MgmtStart
         /\ Distinct(map')
  <1>1. PICK n \in 0..MgmtStart, m \in Mappings : InitialMapping(m, marked \cup rej, n) /\ map' = m
    BY DEF ScanChip
  <1>2. \A lb \in LogicBlocks : m[lb] >= 0 => m[lb] \in LogicBlocks
    BY <1>1 DEF InitialMapping
  <1>3. \A lb \in LogicBlocks : m[lb] \in Int
    BY <1>1 DEF Mappings
  <1>4. \A lb \in LogicBlocks : m[lb] < MgmtStart
    BY <1>2, <1>3, NmbmConstants DEF LogicBlocks
  <1>5. \A x, y \in LogicBlocks : x < y /\ m[y] >= 0 => m[x] < m[y]
    BY <1>1 DEF InitialMapping
  <1>6. \A x, y \in LogicBlocks : x # y /\ m[x] >= 0 => m[x] # m[y]
    <2> TAKE x, y \in LogicBlocks
    <2>1. x \in Int /\ y \in Int
      BY DEF LogicBlocks
    <2>2. CASE x < y
      BY <2>2, <1>3, <1>5
    <2>3. CASE y < x
      BY <2>3, <1>3, <1>5
    <2> QED
      BY <2>1, <2>2, <2>3
  <1> QED
    BY <1>1, <1>4, <1>6 DEF Distinct

\* Neither programming a block nor nmbm_map_block repeats a physical block.
LEMMA DistinctBlock ==
  ASSUME TableType, DistinctOK, NEW x, NEW v, flash' = [flash EXCEPT ![x] = v],
         UNCHANGED <<map, cache, disorder>>,
         ~disorder /\ v.kind = "table" => Distinct(v.map)
  PROVE  DistinctOK'
  BY DEF TableType, DistinctOK

LEMMA MapsOneDistinct ==
  ASSUME MemoryType, PlaceType, NEW lb \in LogicBlocks, MapsOne(lb), MapOK, DistinctOK,
         mba >= MgmtStart, cache' = cache,
         \A b \in Blocks : flash'[b].kind = "table" => flash'[b] = flash[b]
  PROVE  DistinctOK'
  <1> SUFFICES ASSUME ~disorder' PROVE DistinctOK'
    BY DEF DistinctOK
  <1>1. ~disorder
    BY MapsOneClear
  <1>2. \A x \in LogicBlocks : map'[x] = IF x = lb THEN top ELSE map[x]
    BY MapsOneClear
  <1>3. \A x \in LogicBlocks : map[x] # top
    BY MapsOneClear
  <1>4. Distinct(map)
    BY <1>1 DEF DistinctOK
  <1>5. Distinct(map')
    BY <1>2, <1>3, <1>4 DEF Distinct
  <1> QED
    BY <1>1, <1>5 DEF DistinctOK

\* The ghost of failed copies stays a function on the logic blocks.
LEMMA LeftType ==
  ASSUME left \in Mappings, NEW lb, NEW v \in -1..(BlockCount - 1)
  PROVE  [left EXCEPT ![lb] = v] \in Mappings
  BY DEF Mappings

LEMMA LosesType ==
  ASSUME MemoryType, NEW lb \in LogicBlocks, Loses(lb)
  PROVE  marked' = marked /\ stored' \subseteq LogicBlocks /\ left' \in Mappings
  <1>1. (IF left[lb] = map[lb] THEN -1 ELSE left[lb]) \in -1..(BlockCount - 1)
    BY NmbmConstants DEF MemoryType, Mappings
  <1> QED
    BY <1>1, LeftType DEF MemoryType, Loses

LEMMA KeepsLeftType ==
  ASSUME TypeOK, WriteBlock \/ MoveFails
  PROVE  left' \in Mappings
  <1>1. left \in Mappings /\ op.src \in -1..(BlockCount - 1) /\ -1 \in -1..(BlockCount - 1)
    BY NmbmConstants DEF TypeOK, MemoryType, ControlType, Blocks
  <1>2. CASE WriteBlock
    <2>1. PICK lb : left' = [left EXCEPT ![lb] = -1]
      BY <1>2 DEF WriteBlock
    <2> QED
      BY <1>1, <2>1, LeftType
  <1>3. CASE MoveFails
    <2>1. left' = [left EXCEPT ![op.lb] = op.src] \/ left' = left
      BY <1>3 DEF MoveFails
    <2> QED
      BY <1>1, <2>1, LeftType
  <1> QED
    BY <1>2, <1>3

LEMMA MemoryStep ==
  ASSUME TypeOK, JobOK, PlacesOK, Next
  PROVE  MemoryType'
  <1> USE NmbmConstants DEF phys, mem, loc, ctl, ghost, bounds, GoTo, Write, EraseRange,
             Written, NoRoom, RangeOver, Job, Advance, TypeOK, MemoryType, PlaceType, TableType, ControlType,
             JobOK, PlacesOK, JobPcs, StepPcs, Blocks, LogicBlocks
  <1>1. CASE WriteSkip
    BY <1>1 DEF WriteSkip
  <1>2. CASE WriteErase
    BY <1>2 DEF WriteErase
  <1>3. CASE WriteProgram
    BY <1>3 DEF WriteProgram
  <1>4. CASE WriteFails
    <2>1. job.ba \in Blocks
      BY SMTT(30), <1>4 DEF WriteFails
    <2>2. marked' = marked \cup {job.ba} /\ bad' = bad \cup {job.ba}
      BY <1>4 DEF WriteFails
    <2>3. UNCHANGED <<map, dbc, prot, disorder, stored, left>>
      BY <1>4 DEF WriteFails
    <2> QED
      BY <2>1, <2>2, <2>3
  <1>5. CASE WriteNoRoom
    BY <1>5 DEF WriteNoRoom
  <1>6. CASE RangeSkip
    BY <1>6 DEF RangeSkip
  <1>7. CASE RangeErase
    BY <1>7 DEF RangeErase
  <1>8. CASE RangeFails
    <2>1. job.ba \in Blocks
      BY <1>8 DEF RangeFails
    <2>2. marked' = marked \cup {job.ba} /\ bad' = bad \cup {job.ba}
      BY <1>8 DEF RangeFails
    <2>3. UNCHANGED <<map, dbc, prot, disorder, stored, left>>
      BY <1>8 DEF RangeFails
    <2> QED
      BY <2>1, <2>2, <2>3
  <1>9. CASE RebuildMainWritten
    BY <1>9, ReserveRange DEF RebuildMainWritten, RebuildReturns
  <1>10. CASE RebuildMainFails
    BY <1>10 DEF RebuildMainFails
  <1>11. CASE RebuildBackupWritten
    BY <1>11 DEF RebuildBackupWritten
  <1>12. CASE RebuildBackupFails
    BY <1>12 DEF RebuildBackupFails, RebuildReturns
  <1>13. CASE Rebuilt
    BY <1>13 DEF Rebuilt, RebuildReturns
  <1>14. CASE UpdateOver
    BY <1>14 DEF UpdateOver
  <1>15. CASE UpdateOnce
    BY <1>15 DEF UpdateOnce, Generate, Table
  <1>16. CASE OnceBackupWritten
    BY <1>16 DEF OnceBackupWritten
  <1>17. CASE OnceBackupFails
    BY <1>17 DEF OnceBackupFails
  <1>18. CASE OnceMainWritten
    BY <1>18 DEF OnceMainWritten
  <1>19. CASE OnceMainFailsAlone
    BY <1>19 DEF OnceMainFailsAlone, RebuildFrom
  <1>20. CASE Updated
    BY <1>20 DEF Updated, AfterOp
  <1>21. CASE RescueMain
    BY <1>21, ReserveRange DEF RescueMain, BackupBecomesMain
  <1>22. CASE RescueTmpWritten
    BY <1>22 DEF RescueTmpWritten
  <1>23. CASE RescueTmpFails
    BY <1>23 DEF RescueTmpFails, BackupBecomesMain
  <1>24. CASE RescueMainWritten
    BY <1>24 DEF RescueMainWritten
  <1>25. CASE RescueMainFails
    BY <1>25 DEF RescueMainFails
  <1>26. CASE LoadOne
    <2>1. PICK a \in Blocks : Loads(a, a) /\ backup' = 0 /\ mba' = a + 1 /\ prot' = FALSE
                                  /\ Write(MgmtStart, a, "front", MgmtStart)
      BY <1>26, LoadOneFinds
    <2> QED
      BY <2>1 DEF Loads
  <1>27. CASE LoadTwo
    <2>1. PICK a \in Blocks, b \in Blocks :
            /\ Loads(a, a) \/ Loads(b, a)
            /\ a < b /\ backup' = b /\ mba' = b + 1 /\ b < BlockCount - 1
            /\ \/ prot' \in BOOLEAN /\ GoTo("idle")
               \/ Loads(b, a) /\ prot' = FALSE /\ Write(a, b, "singleMain", a)
               \/ prot' = FALSE /\ Write(b, top', "singleBackup", b)
      BY <1>27, LoadTwoFinds
    <2>2. PICK c \in Blocks : Loads(c, a)
      BY <2>1
    <2> QED
      BY <2>1, <2>2 DEF Loads
  <1>28. CASE SingleMainWritten
    BY <1>28 DEF SingleMainWritten, LoadReturns
  <1>29. CASE SingleMainFails
    BY <1>29 DEF SingleMainFails, BackupBecomesMain
  <1>30. CASE SingleBackupWritten
    BY <1>30 DEF SingleBackupWritten, LoadReturns
  <1>31. CASE SingleBackupFails
    BY <1>31 DEF SingleBackupFails, LoadReturns
  <1>32. CASE FrontWritten
    BY <1>32 DEF FrontWritten
  <1>33. CASE FrontCleaned
    BY <1>33 DEF FrontCleaned, LoadReturns
  <1>34. CASE FrontFails
    BY <1>34, ReserveRange DEF FrontFails, LoadReturns
  <1>35. CASE NextWritten
    BY <1>35 DEF NextWritten
  <1>36. CASE NextCleaned
    BY <1>36 DEF NextCleaned, LoadReturns
  <1>37. CASE NextFails
    BY <1>37 DEF NextFails, LoadReturns
  <1>38. CASE CreateNew
    BY <1>38 DEF CreateNew, ScanChip
  <1>39. CASE CreateAgain
    <2>1. PICK s \in Blocks, ecc \in EccErrors : ScanChip(Rejected(MgmtStart, s - 2, ecc, {}))
      BY <1>39 DEF CreateAgain
    <2> QED
      BY <2>1, RejectedBlocks DEF ScanChip
  <1>40. CASE SignSkip
    BY <1>40 DEF SignSkip
  <1>41. CASE SignWrite
    BY <1>41 DEF SignWrite
  <1>42. CASE SignFails
    BY <1>42 DEF SignFails, Fault
  <1>43. CASE CreateInfoTable
    <2>1. CASE \E t \in Blocks : WalkDesc(t, 1, sig, MgmtStart) /\ top' = t /\ RebuildFrom(t)
      <3>1. PICK t \in Blocks : WalkDesc(t, 1, sig, MgmtStart) /\ top' = t /\ RebuildFrom(t)
        BY <2>1
      <3>2. MgmtStart + 1 <= t
        BY <3>1, WalkDescRange
      <3> QED
        BY <1>43, <3>1, <3>2 DEF CreateInfoTable, RebuildFrom, Generate, Table
    <2>2. CASE GoTo("failed") /\ UNCHANGED <<main, backup, mba, top>>
      BY <1>43, <2>2 DEF CreateInfoTable, Generate, Table
    <2> QED
      BY <1>43, <2>1, <2>2 DEF CreateInfoTable
  <1>44. CASE MapTail
    <2>1. dbc \in LogicBlocks /\ MapTo(dbc, bad) /\ dbc' \in 0..MgmtStart
      BY <1>44 DEF MapTail
    <2>2. map' \in Mappings /\ disorder' \in BOOLEAN
      BY <2>1, MapToTakes
    <2> QED
      BY <1>44, <2>1, <2>2 DEF MapTail
  <1>45. CASE TailOver
    BY <1>45 DEF TailOver
  <1>46. CASE MoveBlock
    BY <1>46 DEF MoveBlock
  <1>47. CASE MoveFails
    <2>1. left' \in Mappings
      BY <1>47, KeepsLeftType
    <2> QED
      BY <1>47, <2>1 DEF MoveFails, Fault
  <1>48. CASE MarkOld
    BY <1>48 DEF MarkOld
  <1>49. CASE WriteBlock
    <2>1. left' \in Mappings
      BY <1>49, KeepsLeftType
    <2> QED
      BY <1>49, <2>1 DEF WriteBlock
  <1>50. CASE WriteBlockFails
    <2>1. PICK lb \in LogicBlocks, copy \in BOOLEAN, mk \in BOOLEAN : Remap(lb, copy, mk)
      BY <1>50 DEF WriteBlockFails, Loses
    <2>2. marked' = marked /\ stored' \subseteq LogicBlocks /\ left' \in Mappings
      BY <1>50, LosesType DEF WriteBlockFails
    <2> QED
      BY <2>1, <2>2, RemapDoes
  <1>51. CASE ReadBlockWeak
    <2>1. PICK lb \in LogicBlocks, copy \in BOOLEAN, mk \in BOOLEAN : Remap(lb, copy, mk)
      BY <1>51 DEF ReadBlockWeak
    <2>2. marked' = marked /\ stored' \subseteq LogicBlocks /\ left' \in Mappings
      BY <1>51 DEF ReadBlockWeak, Fault
    <2> QED
      BY <2>1, <2>2, RemapDoes
  <1>52. CASE MarkBad
    <2>1. PICK lb \in LogicBlocks, copy \in BOOLEAN, mk \in BOOLEAN : Remap(lb, copy, mk)
      BY <1>52 DEF MarkBad
    <2>2. marked' = marked /\ stored' \subseteq LogicBlocks /\ left' \in Mappings
      BY <1>52 DEF MarkBad, Fault
    <2> QED
      BY <2>1, <2>2, RemapDoes
  <1>53. CASE IsBad
    <2>1. PICK lb \in LogicBlocks, copy \in BOOLEAN, mk \in BOOLEAN : Remap(lb, copy, mk)
      BY <1>53 DEF IsBad
    <2>2. marked' = marked /\ stored' \subseteq LogicBlocks /\ left' \in Mappings
      BY <1>53 DEF IsBad
    <2> QED
      BY <2>1, <2>2, RemapDoes
  <1>54. CASE PowerLoss
    <2>1. NoMapping \in Mappings
      BY DEF NoMapping, Mappings
    <2>2. bad' = {} /\ dbc' = 0 /\ prot' = FALSE /\ map' = NoMapping
      BY <1>54 DEF PowerLoss
    <2>3. UNCHANGED <<marked, disorder, stored, left>>
      BY <1>54 DEF PowerLoss
    <2>4. marked' \subseteq Blocks /\ bad' \subseteq Blocks /\ stored' \subseteq LogicBlocks
      BY <2>2, <2>3
    <2>5. map' \in Mappings /\ left' \in Mappings /\ dbc' \in 0..MgmtStart
      BY <2>1, <2>2, <2>3
    <2>6. prot' \in BOOLEAN /\ disorder' \in BOOLEAN
      BY <2>2, <2>3
    <2> QED
      BY <2>4, <2>5, <2>6
  <1>55. CASE WritePageFails
    <2>1. PICK lb \in LogicBlocks, copy \in BOOLEAN, mk \in BOOLEAN : Remap(lb, copy, mk)
      BY <1>55 DEF WritePageFails
    <2>2. marked' = marked /\ stored' \subseteq LogicBlocks /\ left' \in Mappings
      BY <1>55 DEF WritePageFails, Fault
    <2> QED
      BY <2>1, <2>2, RemapDoes
  <1>56. CASE ReadBlockFails
    <2>1. PICK lb \in LogicBlocks, copy \in BOOLEAN, mk \in BOOLEAN : Remap(lb, copy, mk)
      BY <1>56 DEF ReadBlockFails, Loses
    <2>2. marked' = marked /\ stored' \subseteq LogicBlocks /\ left' \in Mappings
      BY <1>56, LosesType DEF ReadBlockFails
    <2> QED
      BY <2>1, <2>2, RemapDoes
  <1> QED
    BY <1>1, <1>2, <1>3, <1>4, <1>5, <1>6, <1>7, <1>8, <1>9, <1>10, <1>11, <1>12,
       <1>13, <1>14, <1>15, <1>16, <1>17, <1>18, <1>19, <1>20, <1>21, <1>22, <1>23, <1>24,
       <1>25, <1>26, <1>27, <1>28, <1>29, <1>30, <1>31, <1>32, <1>33, <1>34, <1>35, <1>36,
       <1>37, <1>38, <1>39, <1>40, <1>41, <1>42, <1>43, <1>44, <1>45, <1>46, <1>47, <1>48,
       <1>49, <1>50, <1>51, <1>52, <1>53, <1>54, <1>55, <1>56
       DEF Next, Driver, WriteRange, ErasingRange, Rebuild, Update, Rescue, Load,
           RescueSingle, Create, RemapRest, Users

\* nmbm_rescue_main_info_table begins: the backup table becomes the main one or
\* nothing moves.
LEMMA RescueMainMoves ==
  ASSUME RescueMain
  PROVE  /\ \/ main' = backup /\ backup' = 0
            \/ main' = main /\ backup' = backup
         /\ mba' = mba /\ top' = top /\ sig' = sig
  BY DEF RescueMain, BackupBecomesMain

LEMMA PlaceStep ==
  ASSUME TypeOK, JobOK, PlacesOK, Next
  PROVE  PlaceType'
  <1> USE NmbmConstants DEF phys, mem, loc, ctl, ghost, bounds, GoTo, Write, EraseRange,
             Written, NoRoom, RangeOver, Job, Advance, TypeOK, MemoryType, PlaceType, TableType, ControlType,
             JobOK, PlacesOK, JobPcs, StepPcs, Blocks, LogicBlocks
  <1>1. CASE WriteSkip
    BY <1>1 DEF WriteSkip
  <1>2. CASE WriteErase
    BY <1>2 DEF WriteErase
  <1>3. CASE WriteProgram
    BY <1>3 DEF WriteProgram
  <1>4. CASE WriteFails
    BY <1>4 DEF WriteFails, Fault
  <1>5. CASE WriteNoRoom
    BY <1>5 DEF WriteNoRoom
  <1>6. CASE RangeSkip
    BY <1>6 DEF RangeSkip
  <1>7. CASE RangeErase
    BY <1>7 DEF RangeErase
  <1>8. CASE RangeFails
    BY <1>8 DEF RangeFails, Fault
  <1>9. CASE RebuildMainWritten
    BY SMTT(30), <1>9, ReserveRange DEF RebuildMainWritten, RebuildReturns
  <1>10. CASE RebuildMainFails
    BY <1>10 DEF RebuildMainFails
  <1>11. CASE RebuildBackupWritten
    BY <1>11 DEF RebuildBackupWritten
  <1>12. CASE RebuildBackupFails
    BY <1>12 DEF RebuildBackupFails, RebuildReturns
  <1>13. CASE Rebuilt
    BY <1>13 DEF Rebuilt, RebuildReturns
  <1>14. CASE UpdateOver
    BY <1>14 DEF UpdateOver
  <1>15. CASE UpdateOnce
    BY <1>15 DEF UpdateOnce, Generate, Table
  <1>16. CASE OnceBackupWritten
    BY <1>16 DEF OnceBackupWritten
  <1>17. CASE OnceBackupFails
    BY <1>17 DEF OnceBackupFails
  <1>18. CASE OnceMainWritten
    BY <1>18 DEF OnceMainWritten
  <1>19. CASE OnceMainFailsAlone
    BY <1>19 DEF OnceMainFailsAlone, RebuildFrom
  <1>20. CASE Updated
    BY <1>20 DEF Updated, AfterOp
  <1>21. CASE RescueMain
    BY SMTT(30), <1>21, RescueMainMoves
  <1>22. CASE RescueTmpWritten
    BY SMTT(30), <1>22 DEF RescueTmpWritten
  <1>23. CASE RescueTmpFails
    BY SMTT(30), <1>23 DEF RescueTmpFails, BackupBecomesMain
  <1>24. CASE RescueMainWritten
    BY <1>24 DEF RescueMainWritten
  <1>25. CASE RescueMainFails
    BY <1>25 DEF RescueMainFails
  <1>26. CASE LoadOne
    <2>1. PICK a \in Blocks : Loads(a, a) /\ backup' = 0 /\ mba' = a + 1 /\ prot' = FALSE
                                  /\ Write(MgmtStart, a, "front", MgmtStart)
      BY <1>26, LoadOneFinds
    <2> QED
      BY <2>1, LoadsPlaces
  <1>27. CASE LoadTwo
    <2>1. PICK a \in Blocks, b \in Blocks :
            /\ Loads(a, a) \/ Loads(b, a)
            /\ a < b /\ backup' = b /\ mba' = b + 1 /\ b < BlockCount - 1
            /\ \/ prot' \in BOOLEAN /\ GoTo("idle")
               \/ Loads(b, a) /\ prot' = FALSE /\ Write(a, b, "singleMain", a)
               \/ prot' = FALSE /\ Write(b, top', "singleBackup", b)
      BY <1>27, LoadTwoFinds
    <2>2. PICK c \in Blocks : Loads(c, a)
      BY <2>1
    <2> QED
      BY <2>1, <2>2 DEF Loads
  <1>28. CASE SingleMainWritten
    BY <1>28 DEF SingleMainWritten, LoadReturns
  <1>29. CASE SingleMainFails
    BY <1>29 DEF SingleMainFails, BackupBecomesMain
  <1>30. CASE SingleBackupWritten
    BY SMTT(30), <1>30 DEF SingleBackupWritten, LoadReturns
  <1>31. CASE SingleBackupFails
    BY <1>31 DEF SingleBackupFails, LoadReturns
  <1>32. CASE FrontWritten
    BY <1>32 DEF FrontWritten
  <1>33. CASE FrontCleaned
    BY <1>33 DEF FrontCleaned, LoadReturns
  <1>34. CASE FrontFails
    BY <1>34, ReserveRange DEF FrontFails, LoadReturns
  <1>35. CASE NextWritten
    BY <1>35 DEF NextWritten
  <1>36. CASE NextCleaned
    BY SMTT(30), <1>36 DEF NextCleaned, LoadReturns
  <1>37. CASE NextFails
    BY <1>37 DEF NextFails, LoadReturns
  <1>38. CASE CreateNew
    BY <1>38 DEF CreateNew, ScanChip
  <1>39. CASE CreateAgain
    BY SMTT(30), <1>39 DEF CreateAgain, ScanChip
  <1>40. CASE SignSkip
    BY <1>40 DEF SignSkip
  <1>41. CASE SignWrite
    BY <1>41 DEF SignWrite
  <1>42. CASE SignFails
    BY <1>42 DEF SignFails, Fault
  <1>43. CASE CreateInfoTable
    <2>1. CASE \E t \in Blocks : WalkDesc(t, 1, sig, MgmtStart) /\ top' = t /\ RebuildFrom(t)
      <3>1. PICK t \in Blocks : WalkDesc(t, 1, sig, MgmtStart) /\ top' = t /\ RebuildFrom(t)
        BY <2>1
      <3>2. MgmtStart + 1 <= t
        BY <3>1, WalkDescRange
      <3> QED
        BY <1>43, <3>1, <3>2 DEF CreateInfoTable, RebuildFrom, Generate, Table
    <2>2. CASE GoTo("failed") /\ UNCHANGED <<main, backup, mba, top>>
      BY <1>43, <2>2 DEF CreateInfoTable, Generate, Table
    <2> QED
      BY <1>43, <2>1, <2>2 DEF CreateInfoTable
  <1>44. CASE MapTail
    BY SMTT(30), <1>44 DEF MapTail, MapTo, Unmapped
  <1>45. CASE TailOver
    BY <1>45 DEF TailOver
  <1>46. CASE MoveBlock
    BY <1>46 DEF MoveBlock
  <1>47. CASE MoveFails
    BY <1>47 DEF MoveFails, Fault
  <1>48. CASE MarkOld
    BY <1>48 DEF MarkOld
  <1>49. CASE WriteBlock
    BY <1>49 DEF WriteBlock
  <1>50. CASE WriteBlockFails
    <2>1. PICK lb \in LogicBlocks, copy \in BOOLEAN, mk \in BOOLEAN : Remap(lb, copy, mk)
      BY <1>50 DEF WriteBlockFails, Loses
    <2>2. top' = top \/ (mba < top /\ top' = top - 1)
      BY <2>1, RemapTop
    <2>3. UNCHANGED <<main, backup, mba, sig, prot, job>> /\ pc = "idle" /\ pc' \in {"move", "update", "mark", "idle"}
      BY SMTT(30), <2>1, RemapDoes
    <2> QED
      BY SMTT(30), <2>2, <2>3
  <1>51. CASE ReadBlockWeak
    <2>1. PICK lb \in LogicBlocks, copy \in BOOLEAN, mk \in BOOLEAN : Remap(lb, copy, mk)
      BY <1>51 DEF ReadBlockWeak
    <2>2. top' = top \/ (mba < top /\ top' = top - 1)
      BY <2>1, RemapTop
    <2>3. UNCHANGED <<main, backup, mba, sig, prot, job>> /\ pc = "idle" /\ pc' \in {"move", "update", "mark", "idle"}
      BY <2>1, RemapDoes
    <2> QED
      BY <2>2, <2>3
  <1>52. CASE MarkBad
    <2>1. PICK lb \in LogicBlocks, copy \in BOOLEAN, mk \in BOOLEAN : Remap(lb, copy, mk)
      BY <1>52 DEF MarkBad
    <2>2. top' = top \/ (mba < top /\ top' = top - 1)
      BY <2>1, RemapTop
    <2>3. UNCHANGED <<main, backup, mba, sig, prot, job>> /\ pc = "idle" /\ pc' \in {"move", "update", "mark", "idle"}
      BY <2>1, RemapDoes
    <2> QED
      BY <2>2, <2>3
  <1>53. CASE IsBad
    <2>1. PICK lb \in LogicBlocks, copy \in BOOLEAN, mk \in BOOLEAN : Remap(lb, copy, mk)
      BY <1>53 DEF IsBad
    <2>2. top' = top \/ (mba < top /\ top' = top - 1)
      BY <2>1, RemapTop
    <2>3. UNCHANGED <<main, backup, mba, sig, prot, job>> /\ pc = "idle" /\ pc' \in {"move", "update", "mark", "idle"}
      BY <2>1, RemapDoes
    <2> QED
      BY <2>2, <2>3
  <1>54. CASE PowerLoss
    BY <1>54 DEF PowerLoss, NoJob, NoOp, NoMapping, Table
  <1>55. CASE WritePageFails
    <2>1. PICK lb \in LogicBlocks, copy \in BOOLEAN, mk \in BOOLEAN : Remap(lb, copy, mk)
      BY <1>55 DEF WritePageFails
    <2>2. top' = top \/ (mba < top /\ top' = top - 1)
      BY <2>1, RemapTop
    <2>3. UNCHANGED <<main, backup, mba, sig, prot, job>> /\ pc = "idle" /\ pc' \in {"move", "update", "mark", "idle"}
      BY <2>1, RemapDoes
    <2> QED
      BY <2>2, <2>3
  <1>56. CASE ReadBlockFails
    <2>1. PICK lb \in LogicBlocks, copy \in BOOLEAN, mk \in BOOLEAN : Remap(lb, copy, mk)
      BY <1>56 DEF ReadBlockFails, Loses
    <2>2. top' = top \/ (mba < top /\ top' = top - 1)
      BY <2>1, RemapTop
    <2>3. UNCHANGED <<main, backup, mba, sig, prot, job>> /\ pc = "idle" /\ pc' \in {"move", "update", "mark", "idle"}
      BY <2>1, RemapDoes
    <2> QED
      BY <2>2, <2>3
  <1> QED
    BY <1>1, <1>2, <1>3, <1>4, <1>5, <1>6, <1>7, <1>8, <1>9, <1>10, <1>11, <1>12,
       <1>13, <1>14, <1>15, <1>16, <1>17, <1>18, <1>19, <1>20, <1>21, <1>22, <1>23, <1>24,
       <1>25, <1>26, <1>27, <1>28, <1>29, <1>30, <1>31, <1>32, <1>33, <1>34, <1>35, <1>36,
       <1>37, <1>38, <1>39, <1>40, <1>41, <1>42, <1>43, <1>44, <1>45, <1>46, <1>47, <1>48,
       <1>49, <1>50, <1>51, <1>52, <1>53, <1>54, <1>55, <1>56
       DEF Next, Driver, WriteRange, ErasingRange, Rebuild, Update, Rescue, Load,
           RescueSingle, Create, RemapRest, Users

LEMMA TableStep ==
  ASSUME TypeOK, JobOK, PlacesOK, Next
  PROVE  TableType'
  <1> USE NmbmConstants DEF TypeOK
  <1>1. CASE WriteSkip
    BY <1>1 DEF WriteSkip, phys, mem, TableType
  <1>2. CASE WriteErase
    <2>1. flash' = [flash EXCEPT ![job.ba] = Erased] /\ cache' = cache
      BY <1>2 DEF WriteErase, phys, mem
    <2> QED
      BY <2>1, OneBlock, Kinds
  <1>3. CASE WriteProgram
    <2>1. flash' = [flash EXCEPT ![job.ba] = cache] /\ cache' = cache
      BY <1>3 DEF WriteProgram, phys, mem
    <2> QED
      BY <2>1, OneBlock DEF TableType
  <1>4. CASE WriteFails
    <2>1. flash' = [flash EXCEPT ![job.ba] = Torn] /\ cache' = cache
      BY <1>4 DEF WriteFails, phys, mem
    <2> QED
      BY <2>1, OneBlock, Kinds
  <1>5. CASE WriteNoRoom
    BY <1>5 DEF WriteNoRoom, phys, mem, TableType
  <1>6. CASE RangeSkip
    BY <1>6 DEF RangeSkip, phys, mem, TableType
  <1>7. CASE RangeErase
    <2>1. flash' = [flash EXCEPT ![job.ba] = Erased] /\ cache' = cache
      BY <1>7 DEF RangeErase, phys, mem
    <2> QED
      BY <2>1, OneBlock, Kinds
  <1>8. CASE RangeFails
    <2>1. flash' = [flash EXCEPT ![job.ba] = Torn] /\ cache' = cache
      BY <1>8 DEF RangeFails, phys, mem
    <2> QED
      BY <2>1, OneBlock, Kinds
  <1>9. CASE RebuildMainWritten
    BY <1>9 DEF RebuildMainWritten, phys, mem, TableType
  <1>10. CASE RebuildMainFails
    BY <1>10 DEF RebuildMainFails, phys, mem, TableType
  <1>11. CASE RebuildBackupWritten
    BY <1>11 DEF RebuildBackupWritten, phys, mem, TableType
  <1>12. CASE RebuildBackupFails
    BY <1>12 DEF RebuildBackupFails, phys, mem, TableType
  <1>13. CASE Rebuilt
    BY <1>13 DEF Rebuilt, phys, mem, TableType
  <1>14. CASE UpdateOver
    BY <1>14 DEF UpdateOver, phys, mem, TableType
  <1>15. CASE UpdateOnce
    <2>1. flash' = flash /\ cache' = Table(wc', bad, map)
      BY <1>15 DEF UpdateOnce, phys, Generate
    <2> QED
      BY <2>1 DEF TableType, MemoryType, Table
  <1>16. CASE OnceBackupWritten
    BY <1>16 DEF OnceBackupWritten, phys, mem, TableType
  <1>17. CASE OnceBackupFails
    BY <1>17 DEF OnceBackupFails, phys, mem, TableType
  <1>18. CASE OnceMainWritten
    BY <1>18 DEF OnceMainWritten, phys, mem, TableType
  <1>19. CASE OnceMainFailsAlone
    BY <1>19 DEF OnceMainFailsAlone, phys, mem, TableType
  <1>20. CASE Updated
    BY <1>20 DEF Updated, phys, mem, TableType
  <1>21. CASE RescueMain
    BY <1>21 DEF RescueMain, phys, mem, TableType
  <1>22. CASE RescueTmpWritten
    BY <1>22 DEF RescueTmpWritten, phys, mem, TableType
  <1>23. CASE RescueTmpFails
    BY <1>23 DEF RescueTmpFails, phys, mem, TableType
  <1>24. CASE RescueMainWritten
    BY <1>24 DEF RescueMainWritten, phys, mem, TableType
  <1>25. CASE RescueMainFails
    BY <1>25 DEF RescueMainFails, phys, mem, TableType
  <1>26. CASE LoadOne
    <2>1. PICK a \in Blocks : Loads(a, a) /\ backup' = 0 /\ mba' = a + 1 /\ prot' = FALSE
                                  /\ Write(MgmtStart, a, "front", MgmtStart)
      BY <1>26, LoadOneFinds
    <2> QED
      BY <2>1 DEF Loads, TableType
  <1>27. CASE LoadTwo
    <2>1. PICK a \in Blocks, b \in Blocks :
            /\ Loads(a, a) \/ Loads(b, a)
            /\ a < b /\ backup' = b /\ mba' = b + 1 /\ b < BlockCount - 1
            /\ \/ prot' \in BOOLEAN /\ GoTo("idle")
               \/ Loads(b, a) /\ prot' = FALSE /\ Write(a, b, "singleMain", a)
               \/ prot' = FALSE /\ Write(b, top', "singleBackup", b)
      BY <1>27, LoadTwoFinds
    <2>2. PICK c \in Blocks : Loads(c, a)
      BY <2>1
    <2> QED
      BY <2>2 DEF Loads, TableType
  <1>28. CASE SingleMainWritten
    BY <1>28 DEF SingleMainWritten, phys, mem, TableType
  <1>29. CASE SingleMainFails
    BY <1>29 DEF SingleMainFails, phys, mem, TableType
  <1>30. CASE SingleBackupWritten
    BY <1>30 DEF SingleBackupWritten, phys, mem, TableType
  <1>31. CASE SingleBackupFails
    BY <1>31 DEF SingleBackupFails, phys, mem, TableType
  <1>32. CASE FrontWritten
    BY <1>32 DEF FrontWritten, phys, mem, TableType
  <1>33. CASE FrontCleaned
    BY <1>33 DEF FrontCleaned, phys, mem, TableType
  <1>34. CASE FrontFails
    BY <1>34 DEF FrontFails, phys, mem, TableType
  <1>35. CASE NextWritten
    BY <1>35 DEF NextWritten, phys, mem, TableType
  <1>36. CASE NextCleaned
    BY <1>36 DEF NextCleaned, phys, mem, TableType
  <1>37. CASE NextFails
    BY <1>37 DEF NextFails, phys, mem, TableType
  <1>38. CASE CreateNew
    <2>1. flash' = flash /\ cache' = cache
      BY <1>38 DEF CreateNew, ScanChip, phys
    <2> QED
      BY <2>1 DEF TableType
  <1>39. CASE CreateAgain
    <2>1. flash' = flash /\ cache' = cache
      BY <1>39 DEF CreateAgain, ScanChip, phys
    <2> QED
      BY <2>1 DEF TableType
  <1>40. CASE SignSkip
    BY <1>40 DEF SignSkip, phys, mem, TableType
  <1>41. CASE SignWrite
    <2>1. flash' = [flash EXCEPT ![job.ba] = Signature] /\ cache' = cache
      BY <1>41 DEF SignWrite, phys, mem
    <2> QED
      BY <2>1, OneBlock, Kinds
  <1>42. CASE SignFails
    <2>1. flash' = [flash EXCEPT ![job.ba] = Torn] /\ cache' = cache
      BY <1>42 DEF SignFails, phys, mem
    <2> QED
      BY <2>1, OneBlock, Kinds
  <1>43. CASE CreateInfoTable
    <2>1. flash' = flash /\ cache' = Table(wc', bad, map)
      BY <1>43 DEF CreateInfoTable, phys, Generate
    <2> QED
      BY <2>1 DEF TableType, MemoryType, Table
  <1>44. CASE MapTail
    BY <1>44 DEF MapTail, phys, mem, TableType
  <1>45. CASE TailOver
    BY <1>45 DEF TailOver, phys, mem, TableType
  <1>46. CASE MoveBlock
    <2>1. flash' = [flash EXCEPT ![map[op.lb]] = (IF op.copy THEN flash[op.src] ELSE Erased)] /\ cache' = cache
      BY <1>46 DEF MoveBlock, phys, mem
    <2> QED
      BY <2>1, OneBlock, Kinds DEF TableType, ControlType
  <1>47. CASE MoveFails
    <2>1. flash' = [flash EXCEPT ![map[op.lb]] = Torn] /\ cache' = cache
      BY <1>47 DEF MoveFails, phys, mem
    <2> QED
      BY <2>1, OneBlock, Kinds
  <1>48. CASE MarkOld
    BY <1>48 DEF MarkOld, phys, mem, TableType
  <1>49. CASE WriteBlock
    <2>1. PICK lb \in LogicBlocks : flash' = [flash EXCEPT ![map[lb]] = Data(lb)]
      BY <1>49 DEF WriteBlock
    <2>2. cache' = cache
      BY <1>49 DEF WriteBlock, mem
    <2> QED
      BY <2>1, <2>2, OneBlock, Kinds
  <1>50. CASE WriteBlockFails
    <2>1. PICK lb \in LogicBlocks : flash' = [flash EXCEPT ![map[lb]] = Torn] /\ Remap(lb, FALSE, FALSE)
      BY <1>50 DEF WriteBlockFails, Loses
    <2>2. cache' = cache
      BY <2>1 DEF Remap
    <2> QED
      BY <2>1, <2>2, OneBlock, Kinds
  <1>51. CASE ReadBlockWeak
    <2>1. flash' = flash /\ cache' = cache
      BY <1>51 DEF ReadBlockWeak, Remap, phys
    <2> QED
      BY <2>1 DEF TableType
  <1>52. CASE MarkBad
    <2>1. flash' = flash /\ cache' = cache
      BY <1>52 DEF MarkBad, Remap, phys
    <2> QED
      BY <2>1 DEF TableType
  <1>53. CASE IsBad
    <2>1. flash' = flash /\ cache' = cache
      BY <1>53 DEF IsBad, Remap, phys
    <2> QED
      BY <2>1 DEF TableType
  <1>54. CASE PowerLoss
    <2>1. NoMapping \in Mappings
      BY NmbmConstants DEF NoMapping, Mappings
    <2>2. cache' = Table(0, {}, NoMapping)
      BY <1>54 DEF PowerLoss
    <2>3. cache'.kind = "table" /\ cache'.map \in Mappings /\ cache'.bad \subseteq Blocks
      BY <2>1, <2>2 DEF Table
    <2>4. UNCHANGED flash \/ \E x : flash' = [flash EXCEPT ![x] = Torn]
      BY <1>54 DEF PowerLoss
    <2> QED
      BY <2>3, <2>4, Kinds DEF TableType
  <1>55. CASE WritePageFails
    <2>1. flash' = flash /\ cache' = cache
      BY <1>55 DEF WritePageFails, Remap, phys
    <2> QED
      BY <2>1 DEF TableType
  <1>56. CASE ReadBlockFails
    <2>1. PICK lb \in LogicBlocks : flash' = [flash EXCEPT ![map[lb]] = Torn] /\ Remap(lb, TRUE, FALSE)
      BY <1>56 DEF ReadBlockFails, Loses
    <2>2. cache' = cache
      BY <2>1 DEF Remap
    <2> QED
      BY <2>1, <2>2, OneBlock, Kinds
  <1> QED
    BY <1>1, <1>2, <1>3, <1>4, <1>5, <1>6, <1>7, <1>8, <1>9, <1>10, <1>11, <1>12,
       <1>13, <1>14, <1>15, <1>16, <1>17, <1>18, <1>19, <1>20, <1>21, <1>22, <1>23, <1>24,
       <1>25, <1>26, <1>27, <1>28, <1>29, <1>30, <1>31, <1>32, <1>33, <1>34, <1>35, <1>36,
       <1>37, <1>38, <1>39, <1>40, <1>41, <1>42, <1>43, <1>44, <1>45, <1>46, <1>47, <1>48,
       <1>49, <1>50, <1>51, <1>52, <1>53, <1>54, <1>55, <1>56
       DEF Next, Driver, WriteRange, ErasingRange, Rebuild, Update, Rescue, Load,
           RescueSingle, Create, RemapRest, Users

LEMMA ControlStep ==
  ASSUME TypeOK, JobOK, PlacesOK, Next
  PROVE  ControlType'
  <1> USE NmbmConstants DEF phys, mem, loc, ctl, ghost, bounds, GoTo, Write, EraseRange,
             Written, NoRoom, RangeOver, Job, Advance, TypeOK, MemoryType, PlaceType, TableType, ControlType,
             JobOK, PlacesOK, JobPcs, StepPcs, Blocks, LogicBlocks, Jobs
  <1>1. CASE WriteSkip
    BY <1>1 DEF WriteSkip
  <1>2. CASE WriteErase
    BY <1>2 DEF WriteErase
  <1>3. CASE WriteProgram
    BY <1>3 DEF WriteProgram
  <1>4. CASE WriteFails
    BY <1>4 DEF WriteFails, Fault
  <1>5. CASE WriteNoRoom
    BY <1>5 DEF WriteNoRoom
  <1>6. CASE RangeSkip
    BY <1>6 DEF RangeSkip
  <1>7. CASE RangeErase
    BY <1>7 DEF RangeErase
  <1>8. CASE RangeFails
    BY <1>8 DEF RangeFails, Fault
  <1>9. CASE RebuildMainWritten
    BY SMTT(30), <1>9, ReserveRange DEF RebuildMainWritten, RebuildReturns
  <1>10. CASE RebuildMainFails
    BY <1>10 DEF RebuildMainFails
  <1>11. CASE RebuildBackupWritten
    BY <1>11 DEF RebuildBackupWritten
  <1>12. CASE RebuildBackupFails
    BY <1>12 DEF RebuildBackupFails, RebuildReturns
  <1>13. CASE Rebuilt
    BY <1>13 DEF Rebuilt, RebuildReturns
  <1>14. CASE UpdateOver
    BY <1>14 DEF UpdateOver
  <1>15. CASE UpdateOnce
    BY SMTT(30), <1>15 DEF UpdateOnce, Generate, Table
  <1>16. CASE OnceBackupWritten
    BY <1>16 DEF OnceBackupWritten
  <1>17. CASE OnceBackupFails
    BY <1>17 DEF OnceBackupFails
  <1>18. CASE OnceMainWritten
    BY <1>18 DEF OnceMainWritten
  <1>19. CASE OnceMainFailsAlone
    BY <1>19 DEF OnceMainFailsAlone, RebuildFrom
  <1>20. CASE Updated
    BY <1>20 DEF Updated, AfterOp
  <1>21. CASE RescueMain
    BY SMTT(30), <1>21, ReserveRange DEF RescueMain, BackupBecomesMain
  <1>22. CASE RescueTmpWritten
    BY <1>22 DEF RescueTmpWritten
  <1>23. CASE RescueTmpFails
    BY SMTT(30), <1>23 DEF RescueTmpFails, BackupBecomesMain
  <1>24. CASE RescueMainWritten
    BY <1>24 DEF RescueMainWritten
  <1>25. CASE RescueMainFails
    BY <1>25 DEF RescueMainFails
  <1>26. CASE LoadOne
    <2>1. PICK a \in Blocks : Loads(a, a) /\ backup' = 0 /\ mba' = a + 1 /\ prot' = FALSE
                                  /\ Write(MgmtStart, a, "front", MgmtStart)
      BY <1>26, LoadOneFinds
    <2> QED
      BY <2>1, LoadsPlaces
  <1>27. CASE LoadTwo
    <2>1. PICK a \in Blocks, b \in Blocks :
            /\ Loads(a, a) \/ Loads(b, a)
            /\ a < b /\ backup' = b /\ mba' = b + 1 /\ b < BlockCount - 1
            /\ \/ prot' \in BOOLEAN /\ GoTo("idle")
               \/ Loads(b, a) /\ prot' = FALSE /\ Write(a, b, "singleMain", a)
               \/ prot' = FALSE /\ Write(b, top', "singleBackup", b)
      BY <1>27, LoadTwoFinds
    <2>2. PICK c \in Blocks : Loads(c, a)
      BY <2>1
    <2>3. a \in Blocks /\ b \in Blocks /\ top' \in Blocks /\ op' = op
      BY <2>2 DEF Loads
    <2>4. CASE GoTo("idle")
      BY <2>3, <2>4
    <2>5. CASE Write(a, b, "singleMain", a)
      BY <2>3, <2>5 DEF Jobs
    <2>6. CASE Write(b, top', "singleBackup", b)
      BY <2>3, <2>6 DEF Jobs
    <2> QED
      BY <2>1, <2>4, <2>5, <2>6
  <1>28. CASE SingleMainWritten
    BY <1>28 DEF SingleMainWritten, LoadReturns
  <1>29. CASE SingleMainFails
    BY <1>29 DEF SingleMainFails, BackupBecomesMain
  <1>30. CASE SingleBackupWritten
    BY <1>30 DEF SingleBackupWritten, LoadReturns
  <1>31. CASE SingleBackupFails
    BY <1>31 DEF SingleBackupFails, LoadReturns
  <1>32. CASE FrontWritten
    BY <1>32 DEF FrontWritten
  <1>33. CASE FrontCleaned
    BY <1>33 DEF FrontCleaned, LoadReturns
  <1>34. CASE FrontFails
    BY SMTT(30), <1>34, ReserveRange DEF FrontFails, LoadReturns
  <1>35. CASE NextWritten
    BY <1>35 DEF NextWritten
  <1>36. CASE NextCleaned
    BY <1>36 DEF NextCleaned, LoadReturns
  <1>37. CASE NextFails
    BY SMTT(30), <1>37 DEF NextFails, LoadReturns
  <1>38. CASE CreateNew
    BY <1>38 DEF CreateNew, ScanChip
  <1>39. CASE CreateAgain
    BY <1>39 DEF CreateAgain, ScanChip
  <1>40. CASE SignSkip
    BY SMTT(30), <1>40 DEF SignSkip
  <1>41. CASE SignWrite
    BY <1>41 DEF SignWrite
  <1>42. CASE SignFails
    BY <1>42 DEF SignFails, Fault
  <1>43. CASE CreateInfoTable
    <2>1. CASE \E t \in Blocks : WalkDesc(t, 1, sig, MgmtStart) /\ top' = t /\ RebuildFrom(t)
      <3>1. PICK t \in Blocks : WalkDesc(t, 1, sig, MgmtStart) /\ top' = t /\ RebuildFrom(t)
        BY <2>1
      <3>2. MgmtStart + 1 <= t
        BY <3>1, WalkDescRange
      <3> QED
        BY <1>43, <3>1, <3>2 DEF CreateInfoTable, RebuildFrom, Generate, Table
    <2>2. CASE GoTo("failed") /\ UNCHANGED <<main, backup, mba, top>>
      BY <1>43, <2>2 DEF CreateInfoTable, Generate, Table
    <2> QED
      BY <1>43, <2>1, <2>2 DEF CreateInfoTable
  <1>44. CASE MapTail
    BY <1>44 DEF MapTail, MapTo, Unmapped
  <1>45. CASE TailOver
    BY <1>45 DEF TailOver
  <1>46. CASE MoveBlock
    BY <1>46 DEF MoveBlock
  <1>47. CASE MoveFails
    BY <1>47 DEF MoveFails, Fault
  <1>48. CASE MarkOld
    BY <1>48 DEF MarkOld
  <1>49. CASE WriteBlock
    BY <1>49 DEF WriteBlock
  <1>50. CASE WriteBlockFails
    <2>1. PICK lb \in LogicBlocks, copy \in BOOLEAN, mk \in BOOLEAN : Remap(lb, copy, mk)
      BY <1>50 DEF WriteBlockFails, Loses
    <2> QED
      BY <2>1, RemapDoes
  <1>51. CASE ReadBlockWeak
    <2>1. PICK lb \in LogicBlocks, copy \in BOOLEAN, mk \in BOOLEAN : Remap(lb, copy, mk)
      BY <1>51 DEF ReadBlockWeak
    <2> QED
      BY <2>1, RemapDoes
  <1>52. CASE MarkBad
    <2>1. PICK lb \in LogicBlocks, copy \in BOOLEAN, mk \in BOOLEAN : Remap(lb, copy, mk)
      BY <1>52 DEF MarkBad
    <2> QED
      BY <2>1, RemapDoes
  <1>53. CASE IsBad
    <2>1. PICK lb \in LogicBlocks, copy \in BOOLEAN, mk \in BOOLEAN : Remap(lb, copy, mk)
      BY <1>53 DEF IsBad
    <2> QED
      BY <2>1, RemapDoes
  <1>54. CASE PowerLoss
    BY <1>54 DEF PowerLoss, NoJob, NoOp, NoMapping, Table
  <1>55. CASE WritePageFails
    <2>1. PICK lb \in LogicBlocks, copy \in BOOLEAN, mk \in BOOLEAN : Remap(lb, copy, mk)
      BY <1>55 DEF WritePageFails
    <2> QED
      BY <2>1, RemapDoes
  <1>56. CASE ReadBlockFails
    <2>1. PICK lb \in LogicBlocks, copy \in BOOLEAN, mk \in BOOLEAN : Remap(lb, copy, mk)
      BY <1>56 DEF ReadBlockFails, Loses
    <2> QED
      BY <2>1, RemapDoes
  <1> QED
    BY <1>1, <1>2, <1>3, <1>4, <1>5, <1>6, <1>7, <1>8, <1>9, <1>10, <1>11, <1>12,
       <1>13, <1>14, <1>15, <1>16, <1>17, <1>18, <1>19, <1>20, <1>21, <1>22, <1>23, <1>24,
       <1>25, <1>26, <1>27, <1>28, <1>29, <1>30, <1>31, <1>32, <1>33, <1>34, <1>35, <1>36,
       <1>37, <1>38, <1>39, <1>40, <1>41, <1>42, <1>43, <1>44, <1>45, <1>46, <1>47, <1>48,
       <1>49, <1>50, <1>51, <1>52, <1>53, <1>54, <1>55, <1>56
       DEF Next, Driver, WriteRange, ErasingRange, Rebuild, Update, Rescue, Load,
           RescueSingle, Create, RemapRest, Users

LEMMA JobStep ==
  ASSUME TypeOK, JobOK, PlacesOK, Next
  PROVE  JobOK'
  <1> USE NmbmConstants DEF phys, mem, loc, ctl, ghost, bounds, GoTo, Write, EraseRange,
             Written, NoRoom, RangeOver, Job, Advance, TypeOK, MemoryType, PlaceType, TableType, ControlType,
             JobOK, PlacesOK, JobPcs, StepPcs, Blocks, LogicBlocks
  <1>1. CASE WriteSkip
    BY <1>1 DEF WriteSkip
  <1>2. CASE WriteErase
    BY <1>2 DEF WriteErase
  <1>3. CASE WriteProgram
    BY <1>3 DEF WriteProgram
  <1>4. CASE WriteFails
    BY <1>4 DEF WriteFails, Fault
  <1>5. CASE WriteNoRoom
    BY <1>5 DEF WriteNoRoom
  <1>6. CASE RangeSkip
    BY <1>6 DEF RangeSkip
  <1>7. CASE RangeErase
    BY <1>7 DEF RangeErase
  <1>8. CASE RangeFails
    BY <1>8 DEF RangeFails, Fault
  <1>9. CASE RebuildMainWritten
    <2>1. CASE RebuildReturns
      BY <1>9, <2>1 DEF RebuildMainWritten, RebuildReturns
    <2>2. ASSUME NEW b \in Blocks, Reserve(b, job.ba + 1, top), Write(b, top, "rebuildBackup", b)
          PROVE  JobOK'
      <3>1. job.ba + 1 <= b
        BY <2>2, ReserveRange
      <3> QED
        BY <1>9, <2>2, <3>1 DEF RebuildMainWritten
    <2> QED
      BY <1>9, <2>1, <2>2 DEF RebuildMainWritten
  <1>10. CASE RebuildMainFails
    BY <1>10 DEF RebuildMainFails
  <1>11. CASE RebuildBackupWritten
    BY <1>11 DEF RebuildBackupWritten
  <1>12. CASE RebuildBackupFails
    BY <1>12 DEF RebuildBackupFails, RebuildReturns
  <1>13. CASE Rebuilt
    BY <1>13 DEF Rebuilt, RebuildReturns
  <1>14. CASE UpdateOver
    BY <1>14 DEF UpdateOver
  <1>15. CASE UpdateOnce
    BY <1>15 DEF UpdateOnce, Generate, Table
  <1>16. CASE OnceBackupWritten
    BY <1>16 DEF OnceBackupWritten
  <1>17. CASE OnceBackupFails
    BY <1>17 DEF OnceBackupFails
  <1>18. CASE OnceMainWritten
    BY <1>18 DEF OnceMainWritten
  <1>19. CASE OnceMainFailsAlone
    BY <1>19 DEF OnceMainFailsAlone, RebuildFrom
  <1>20. CASE Updated
    BY <1>20 DEF Updated, AfterOp
  <1>21. CASE RescueMain
    BY SMTT(30), <1>21, ReserveRange DEF RescueMain, BackupBecomesMain
  <1>22. CASE RescueTmpWritten
    BY SMTT(30), <1>22 DEF RescueTmpWritten
  <1>23. CASE RescueTmpFails
    BY SMTT(30), <1>23 DEF RescueTmpFails, BackupBecomesMain
  <1>24. CASE RescueMainWritten
    BY <1>24 DEF RescueMainWritten
  <1>25. CASE RescueMainFails
    BY <1>25 DEF RescueMainFails
  <1>26. CASE LoadOne
    <2>1. PICK a \in Blocks : Loads(a, a) /\ backup' = 0 /\ mba' = a + 1 /\ prot' = FALSE
                                  /\ Write(MgmtStart, a, "front", MgmtStart)
      BY <1>26, LoadOneFinds
    <2> QED
      BY <2>1, LoadsPlaces
  <1>27. CASE LoadTwo
    <2>1. PICK a \in Blocks, b \in Blocks :
            /\ Loads(a, a) \/ Loads(b, a)
            /\ a < b /\ backup' = b /\ mba' = b + 1 /\ b < BlockCount - 1
            /\ \/ prot' \in BOOLEAN /\ GoTo("idle")
               \/ Loads(b, a) /\ prot' = FALSE /\ Write(a, b, "singleMain", a)
               \/ prot' = FALSE /\ Write(b, top', "singleBackup", b)
      BY <1>27, LoadTwoFinds
    <2>2. PICK c \in Blocks : Loads(c, a)
      BY <2>1
    <2>3. a >= MgmtStart /\ main' = a /\ top' \in Blocks /\ b # 0
      BY <2>1, <2>2 DEF Loads
    <2>4. CASE GoTo("idle")
      BY <2>4
    <2>5. CASE Write(a, b, "singleMain", a)
      BY <2>1, <2>3, <2>5
    <2>6. CASE Write(b, top', "singleBackup", b)
      BY <2>1, <2>3, <2>6
    <2> QED
      BY <2>1, <2>4, <2>5, <2>6
  <1>28. CASE SingleMainWritten
    BY <1>28 DEF SingleMainWritten, LoadReturns
  <1>29. CASE SingleMainFails
    BY <1>29 DEF SingleMainFails, BackupBecomesMain
  <1>30. CASE SingleBackupWritten
    BY <1>30 DEF SingleBackupWritten, LoadReturns
  <1>31. CASE SingleBackupFails
    BY <1>31 DEF SingleBackupFails, LoadReturns
  <1>32. CASE FrontWritten
    BY <1>32 DEF FrontWritten
  <1>33. CASE FrontCleaned
    BY <1>33 DEF FrontCleaned, LoadReturns
  <1>34. CASE FrontFails
    BY <1>34, ReserveRange DEF FrontFails, LoadReturns
  <1>35. CASE NextWritten
    BY <1>35 DEF NextWritten
  <1>36. CASE NextCleaned
    BY <1>36 DEF NextCleaned, LoadReturns
  <1>37. CASE NextFails
    BY SMTT(30), <1>37 DEF NextFails, LoadReturns
  <1>38. CASE CreateNew
    BY <1>38 DEF CreateNew, ScanChip
  <1>39. CASE CreateAgain
    BY <1>39 DEF CreateAgain, ScanChip
  <1>40. CASE SignSkip
    BY <1>40 DEF SignSkip
  <1>41. CASE SignWrite
    BY <1>41 DEF SignWrite
  <1>42. CASE SignFails
    BY <1>42 DEF SignFails, Fault
  <1>43. CASE CreateInfoTable
    <2>1. CASE \E t \in Blocks : WalkDesc(t, 1, sig, MgmtStart) /\ top' = t /\ RebuildFrom(t)
      <3>1. PICK t \in Blocks : WalkDesc(t, 1, sig, MgmtStart) /\ top' = t /\ RebuildFrom(t)
        BY <2>1
      <3>2. MgmtStart + 1 <= t
        BY <3>1, WalkDescRange
      <3> QED
        BY <1>43, <3>1, <3>2 DEF CreateInfoTable, RebuildFrom, Generate, Table
    <2>2. CASE GoTo("failed") /\ UNCHANGED <<main, backup, mba, top>>
      BY <1>43, <2>2 DEF CreateInfoTable, Generate, Table
    <2> QED
      BY <1>43, <2>1, <2>2 DEF CreateInfoTable
  <1>44. CASE MapTail
    BY <1>44 DEF MapTail, MapTo, Unmapped
  <1>45. CASE TailOver
    BY <1>45 DEF TailOver
  <1>46. CASE MoveBlock
    BY <1>46 DEF MoveBlock
  <1>47. CASE MoveFails
    BY <1>47 DEF MoveFails, Fault
  <1>48. CASE MarkOld
    BY <1>48 DEF MarkOld
  <1>49. CASE WriteBlock
    BY <1>49 DEF WriteBlock
  <1>50. CASE WriteBlockFails
    <2>1. PICK lb \in LogicBlocks, copy \in BOOLEAN, mk \in BOOLEAN : Remap(lb, copy, mk)
      BY <1>50 DEF WriteBlockFails, Loses
    <2>2. top' = top \/ (mba < top /\ top' = top - 1)
      BY <2>1, RemapTop
    <2>3. UNCHANGED <<main, backup, mba, sig, prot, job>> /\ pc = "idle" /\ pc' \in {"move", "update", "mark", "idle"}
      BY <2>1, RemapDoes
    <2> QED
      BY <2>2, <2>3
  <1>51. CASE ReadBlockWeak
    <2>1. PICK lb \in LogicBlocks, copy \in BOOLEAN, mk \in BOOLEAN : Remap(lb, copy, mk)
      BY <1>51 DEF ReadBlockWeak
    <2>2. top' = top \/ (mba < top /\ top' = top - 1)
      BY <2>1, RemapTop
    <2>3. UNCHANGED <<main, backup, mba, sig, prot, job>> /\ pc = "idle" /\ pc' \in {"move", "update", "mark", "idle"}
      BY <2>1, RemapDoes
    <2> QED
      BY <2>2, <2>3
  <1>52. CASE MarkBad
    <2>1. PICK lb \in LogicBlocks, copy \in BOOLEAN, mk \in BOOLEAN : Remap(lb, copy, mk)
      BY <1>52 DEF MarkBad
    <2>2. top' = top \/ (mba < top /\ top' = top - 1)
      BY <2>1, RemapTop
    <2>3. UNCHANGED <<main, backup, mba, sig, prot, job>> /\ pc = "idle" /\ pc' \in {"move", "update", "mark", "idle"}
      BY <2>1, RemapDoes
    <2> QED
      BY <2>2, <2>3
  <1>53. CASE IsBad
    <2>1. PICK lb \in LogicBlocks, copy \in BOOLEAN, mk \in BOOLEAN : Remap(lb, copy, mk)
      BY <1>53 DEF IsBad
    <2>2. top' = top \/ (mba < top /\ top' = top - 1)
      BY <2>1, RemapTop
    <2>3. UNCHANGED <<main, backup, mba, sig, prot, job>> /\ pc = "idle" /\ pc' \in {"move", "update", "mark", "idle"}
      BY <2>1, RemapDoes
    <2> QED
      BY <2>2, <2>3
  <1>54. CASE PowerLoss
    BY <1>54 DEF PowerLoss, NoJob, NoOp, NoMapping, Table
  <1>55. CASE WritePageFails
    <2>1. PICK lb \in LogicBlocks, copy \in BOOLEAN, mk \in BOOLEAN : Remap(lb, copy, mk)
      BY <1>55 DEF WritePageFails
    <2>2. top' = top \/ (mba < top /\ top' = top - 1)
      BY <2>1, RemapTop
    <2>3. UNCHANGED <<main, backup, mba, sig, prot, job>> /\ pc = "idle" /\ pc' \in {"move", "update", "mark", "idle"}
      BY <2>1, RemapDoes
    <2> QED
      BY <2>2, <2>3
  <1>56. CASE ReadBlockFails
    <2>1. PICK lb \in LogicBlocks, copy \in BOOLEAN, mk \in BOOLEAN : Remap(lb, copy, mk)
      BY <1>56 DEF ReadBlockFails, Loses
    <2>2. top' = top \/ (mba < top /\ top' = top - 1)
      BY <2>1, RemapTop
    <2>3. UNCHANGED <<main, backup, mba, sig, prot, job>> /\ pc = "idle" /\ pc' \in {"move", "update", "mark", "idle"}
      BY <2>1, RemapDoes
    <2> QED
      BY <2>2, <2>3
  <1> QED
    BY <1>1, <1>2, <1>3, <1>4, <1>5, <1>6, <1>7, <1>8, <1>9, <1>10, <1>11, <1>12,
       <1>13, <1>14, <1>15, <1>16, <1>17, <1>18, <1>19, <1>20, <1>21, <1>22, <1>23, <1>24,
       <1>25, <1>26, <1>27, <1>28, <1>29, <1>30, <1>31, <1>32, <1>33, <1>34, <1>35, <1>36,
       <1>37, <1>38, <1>39, <1>40, <1>41, <1>42, <1>43, <1>44, <1>45, <1>46, <1>47, <1>48,
       <1>49, <1>50, <1>51, <1>52, <1>53, <1>54, <1>55, <1>56
       DEF Next, Driver, WriteRange, ErasingRange, Rebuild, Update, Rescue, Load,
           RescueSingle, Create, RemapRest, Users

LEMMA PlacesStep ==
  ASSUME TypeOK, JobOK, PlacesOK, Next
  PROVE  PlacesOK'
  <1> USE NmbmConstants DEF phys, mem, loc, ctl, ghost, bounds, GoTo, Write, EraseRange,
             Written, NoRoom, RangeOver, Job, Advance, TypeOK, MemoryType, PlaceType, TableType, ControlType,
             JobOK, PlacesOK, JobPcs, StepPcs, Blocks, LogicBlocks
  <1>1. CASE WriteSkip
    BY <1>1 DEF WriteSkip
  <1>2. CASE WriteErase
    BY <1>2 DEF WriteErase
  <1>3. CASE WriteProgram
    BY <1>3 DEF WriteProgram
  <1>4. CASE WriteFails
    BY <1>4 DEF WriteFails, Fault
  <1>5. CASE WriteNoRoom
    BY <1>5 DEF WriteNoRoom
  <1>6. CASE RangeSkip
    BY <1>6 DEF RangeSkip
  <1>7. CASE RangeErase
    BY <1>7 DEF RangeErase
  <1>8. CASE RangeFails
    BY <1>8 DEF RangeFails, Fault
  <1>9. CASE RebuildMainWritten
    BY <1>9, ReserveRange DEF RebuildMainWritten, RebuildReturns
  <1>10. CASE RebuildMainFails
    BY <1>10 DEF RebuildMainFails
  <1>11. CASE RebuildBackupWritten
    BY <1>11 DEF RebuildBackupWritten
  <1>12. CASE RebuildBackupFails
    BY <1>12 DEF RebuildBackupFails, RebuildReturns
  <1>13. CASE Rebuilt
    BY <1>13 DEF Rebuilt, RebuildReturns
  <1>14. CASE UpdateOver
    BY <1>14 DEF UpdateOver
  <1>15. CASE UpdateOnce
    BY <1>15 DEF UpdateOnce, Generate, Table
  <1>16. CASE OnceBackupWritten
    BY <1>16 DEF OnceBackupWritten
  <1>17. CASE OnceBackupFails
    BY <1>17 DEF OnceBackupFails
  <1>18. CASE OnceMainWritten
    BY <1>18 DEF OnceMainWritten
  <1>19. CASE OnceMainFailsAlone
    BY <1>19 DEF OnceMainFailsAlone, RebuildFrom
  <1>20. CASE Updated
    BY <1>20 DEF Updated, AfterOp
  <1>21. CASE RescueMain
    BY SMTT(30), <1>21, ReserveRange DEF RescueMain, BackupBecomesMain
  <1>22. CASE RescueTmpWritten
    BY <1>22 DEF RescueTmpWritten
  <1>23. CASE RescueTmpFails
    BY <1>23 DEF RescueTmpFails, BackupBecomesMain
  <1>24. CASE RescueMainWritten
    BY <1>24 DEF RescueMainWritten
  <1>25. CASE RescueMainFails
    BY <1>25 DEF RescueMainFails
  <1>26. CASE LoadOne
    <2>1. PICK a \in Blocks : Loads(a, a) /\ backup' = 0 /\ mba' = a + 1 /\ prot' = FALSE
                                  /\ Write(MgmtStart, a, "front", MgmtStart)
      BY <1>26, LoadOneFinds
    <2> QED
      BY <2>1, LoadsPlaces
  <1>27. CASE LoadTwo
    <2>1. PICK a \in Blocks, b \in Blocks :
            /\ Loads(a, a) \/ Loads(b, a)
            /\ a < b /\ backup' = b /\ mba' = b + 1 /\ b < BlockCount - 1
            /\ \/ prot' \in BOOLEAN /\ GoTo("idle")
               \/ Loads(b, a) /\ prot' = FALSE /\ Write(a, b, "singleMain", a)
               \/ prot' = FALSE /\ Write(b, top', "singleBackup", b)
      BY <1>27, LoadTwoFinds
    <2>2. PICK c \in {a, b} : Loads(c, a)
      BY <2>1
    <2>3. main' = a /\ a >= MgmtStart /\ top' \in Blocks /\ top' >= c
      BY <2>2, LoadsPlaces
    <2> QED
      BY <2>1, <2>2, <2>3
  <1>28. CASE SingleMainWritten
    BY <1>28 DEF SingleMainWritten, LoadReturns
  <1>29. CASE SingleMainFails
    BY <1>29 DEF SingleMainFails, BackupBecomesMain
  <1>30. CASE SingleBackupWritten
    BY <1>30 DEF SingleBackupWritten, LoadReturns
  <1>31. CASE SingleBackupFails
    BY <1>31 DEF SingleBackupFails, LoadReturns
  <1>32. CASE FrontWritten
    BY <1>32 DEF FrontWritten
  <1>33. CASE FrontCleaned
    BY <1>33 DEF FrontCleaned, LoadReturns
  <1>34. CASE FrontFails
    BY <1>34, ReserveRange DEF FrontFails, LoadReturns
  <1>35. CASE NextWritten
    BY <1>35 DEF NextWritten
  <1>36. CASE NextCleaned
    BY <1>36 DEF NextCleaned, LoadReturns
  <1>37. CASE NextFails
    BY <1>37 DEF NextFails, LoadReturns
  <1>38. CASE CreateNew
    BY <1>38 DEF CreateNew, ScanChip
  <1>39. CASE CreateAgain
    BY <1>39 DEF CreateAgain, ScanChip
  <1>40. CASE SignSkip
    BY <1>40 DEF SignSkip
  <1>41. CASE SignWrite
    BY <1>41 DEF SignWrite
  <1>42. CASE SignFails
    BY <1>42 DEF SignFails, Fault
  <1>43. CASE CreateInfoTable
    <2>1. CASE \E t \in Blocks : WalkDesc(t, 1, sig, MgmtStart) /\ top' = t /\ RebuildFrom(t)
      <3>1. PICK t \in Blocks : WalkDesc(t, 1, sig, MgmtStart) /\ top' = t /\ RebuildFrom(t)
        BY <2>1
      <3>2. MgmtStart + 1 <= t
        BY <3>1, WalkDescRange
      <3> QED
        BY <1>43, <3>1, <3>2 DEF CreateInfoTable, RebuildFrom, Generate, Table
    <2>2. CASE GoTo("failed") /\ UNCHANGED <<main, backup, mba, top>>
      BY <1>43, <2>2 DEF CreateInfoTable, Generate, Table
    <2> QED
      BY <1>43, <2>1, <2>2 DEF CreateInfoTable
  <1>44. CASE MapTail
    BY <1>44 DEF MapTail, MapTo, Unmapped
  <1>45. CASE TailOver
    BY <1>45 DEF TailOver
  <1>46. CASE MoveBlock
    BY <1>46 DEF MoveBlock
  <1>47. CASE MoveFails
    BY <1>47 DEF MoveFails, Fault
  <1>48. CASE MarkOld
    BY <1>48 DEF MarkOld
  <1>49. CASE WriteBlock
    BY <1>49 DEF WriteBlock
  <1>50. CASE WriteBlockFails
    <2>1. PICK lb \in LogicBlocks, copy \in BOOLEAN, mk \in BOOLEAN : Remap(lb, copy, mk)
      BY <1>50 DEF WriteBlockFails, Loses
    <2>2. top' = top \/ (mba < top /\ top' = top - 1)
      BY <2>1, RemapTop
    <2>3. UNCHANGED <<main, backup, mba, sig, prot, job>> /\ pc = "idle" /\ pc' \in {"move", "update", "mark", "idle"}
      BY <2>1, RemapDoes
    <2> QED
      BY <2>2, <2>3
  <1>51. CASE ReadBlockWeak
    <2>1. PICK lb \in LogicBlocks, copy \in BOOLEAN, mk \in BOOLEAN : Remap(lb, copy, mk)
      BY <1>51 DEF ReadBlockWeak
    <2>2. top' = top \/ (mba < top /\ top' = top - 1)
      BY <2>1, RemapTop
    <2>3. UNCHANGED <<main, backup, mba, sig, prot, job>> /\ pc = "idle" /\ pc' \in {"move", "update", "mark", "idle"}
      BY <2>1, RemapDoes
    <2> QED
      BY <2>2, <2>3
  <1>52. CASE MarkBad
    <2>1. PICK lb \in LogicBlocks, copy \in BOOLEAN, mk \in BOOLEAN : Remap(lb, copy, mk)
      BY <1>52 DEF MarkBad
    <2>2. top' = top \/ (mba < top /\ top' = top - 1)
      BY <2>1, RemapTop
    <2>3. UNCHANGED <<main, backup, mba, sig, prot, job>> /\ pc = "idle" /\ pc' \in {"move", "update", "mark", "idle"}
      BY <2>1, RemapDoes
    <2> QED
      BY <2>2, <2>3
  <1>53. CASE IsBad
    <2>1. PICK lb \in LogicBlocks, copy \in BOOLEAN, mk \in BOOLEAN : Remap(lb, copy, mk)
      BY <1>53 DEF IsBad
    <2>2. top' = top \/ (mba < top /\ top' = top - 1)
      BY <2>1, RemapTop
    <2>3. UNCHANGED <<main, backup, mba, sig, prot, job>> /\ pc = "idle" /\ pc' \in {"move", "update", "mark", "idle"}
      BY <2>1, RemapDoes
    <2> QED
      BY <2>2, <2>3
  <1>54. CASE PowerLoss
    BY <1>54 DEF PowerLoss, NoJob, NoOp, NoMapping, Table
  <1>55. CASE WritePageFails
    <2>1. PICK lb \in LogicBlocks, copy \in BOOLEAN, mk \in BOOLEAN : Remap(lb, copy, mk)
      BY <1>55 DEF WritePageFails
    <2>2. top' = top \/ (mba < top /\ top' = top - 1)
      BY <2>1, RemapTop
    <2>3. UNCHANGED <<main, backup, mba, sig, prot, job>> /\ pc = "idle" /\ pc' \in {"move", "update", "mark", "idle"}
      BY <2>1, RemapDoes
    <2> QED
      BY <2>2, <2>3
  <1>56. CASE ReadBlockFails
    <2>1. PICK lb \in LogicBlocks, copy \in BOOLEAN, mk \in BOOLEAN : Remap(lb, copy, mk)
      BY <1>56 DEF ReadBlockFails, Loses
    <2>2. top' = top \/ (mba < top /\ top' = top - 1)
      BY <2>1, RemapTop
    <2>3. UNCHANGED <<main, backup, mba, sig, prot, job>> /\ pc = "idle" /\ pc' \in {"move", "update", "mark", "idle"}
      BY <2>1, RemapDoes
    <2> QED
      BY <2>2, <2>3
  <1> QED
    BY <1>1, <1>2, <1>3, <1>4, <1>5, <1>6, <1>7, <1>8, <1>9, <1>10, <1>11, <1>12,
       <1>13, <1>14, <1>15, <1>16, <1>17, <1>18, <1>19, <1>20, <1>21, <1>22, <1>23, <1>24,
       <1>25, <1>26, <1>27, <1>28, <1>29, <1>30, <1>31, <1>32, <1>33, <1>34, <1>35, <1>36,
       <1>37, <1>38, <1>39, <1>40, <1>41, <1>42, <1>43, <1>44, <1>45, <1>46, <1>47, <1>48,
       <1>49, <1>50, <1>51, <1>52, <1>53, <1>54, <1>55, <1>56
       DEF Next, Driver, WriteRange, ErasingRange, Rebuild, Update, Rescue, Load,
           RescueSingle, Create, RemapRest, Users

LEMMA MapStep ==
  ASSUME TypeOK, JobOK, PlacesOK, MapOK, Next
  PROVE  MapOK'
  <1> USE NmbmConstants DEF phys, mem, loc, ctl, ghost, bounds, GoTo, Write, EraseRange,
             Written, NoRoom, RangeOver, Job, Advance, TypeOK, MemoryType, PlaceType, MapOK
  <1>1. CASE WriteSkip
    BY <1>1 DEF WriteSkip
  <1>2. CASE WriteErase
    BY <1>2 DEF WriteErase
  <1>3. CASE WriteProgram
    BY <1>3 DEF WriteProgram
  <1>4. CASE WriteFails
    BY <1>4 DEF WriteFails, Fault
  <1>5. CASE WriteNoRoom
    BY <1>5 DEF WriteNoRoom
  <1>6. CASE RangeSkip
    BY <1>6 DEF RangeSkip
  <1>7. CASE RangeErase
    BY <1>7 DEF RangeErase
  <1>8. CASE RangeFails
    BY <1>8 DEF RangeFails, Fault
  <1>9. CASE RebuildMainWritten
    BY <1>9, ReserveRange DEF RebuildMainWritten, RebuildReturns
  <1>10. CASE RebuildMainFails
    BY <1>10 DEF RebuildMainFails
  <1>11. CASE RebuildBackupWritten
    BY <1>11 DEF RebuildBackupWritten
  <1>12. CASE RebuildBackupFails
    BY <1>12 DEF RebuildBackupFails, RebuildReturns
  <1>13. CASE Rebuilt
    BY <1>13 DEF Rebuilt, RebuildReturns
  <1>14. CASE UpdateOver
    BY <1>14 DEF UpdateOver
  <1>15. CASE UpdateOnce
    BY <1>15 DEF UpdateOnce, Generate, Table
  <1>16. CASE OnceBackupWritten
    BY <1>16 DEF OnceBackupWritten
  <1>17. CASE OnceBackupFails
    BY <1>17 DEF OnceBackupFails
  <1>18. CASE OnceMainWritten
    BY <1>18 DEF OnceMainWritten
  <1>19. CASE OnceMainFailsAlone
    BY <1>19 DEF OnceMainFailsAlone, RebuildFrom
  <1>20. CASE Updated
    <2>1. map' = map /\ pc = "updated" /\ pc' \notin {"off", "sign", "create"}
      BY <1>20 DEF Updated, AfterOp
    <2>2. disorder' = (disorder \/ top' > top) /\ top' \in {mba, top}
      BY <1>20 DEF Updated
    <2>3. ~disorder' => ~disorder /\ top' <= top
      <3>1. top \in Int /\ mba \in Int
        OBVIOUS
      <3>2. top' <= top \/ top' > top
        BY <2>2, <3>1
      <3> QED
        BY <2>2, <3>2
    <2>4. \A lb \in LogicBlocks : map[lb] \in Int
      BY DEF Mappings
    <2> QED
      BY <2>1, <2>2, <2>3, <2>4
  <1>21. CASE RescueMain
    BY <1>21, ReserveRange DEF RescueMain, BackupBecomesMain
  <1>22. CASE RescueTmpWritten
    BY <1>22 DEF RescueTmpWritten
  <1>23. CASE RescueTmpFails
    BY <1>23 DEF RescueTmpFails, BackupBecomesMain
  <1>24. CASE RescueMainWritten
    BY <1>24 DEF RescueMainWritten
  <1>25. CASE RescueMainFails
    BY <1>25 DEF RescueMainFails
  <1>26. CASE LoadOne
    <2>1. PICK a \in Blocks : Loads(a, a) /\ backup' = 0 /\ mba' = a + 1 /\ prot' = FALSE
                                  /\ Write(MgmtStart, a, "front", MgmtStart)
      BY <1>26, LoadOneFinds
    <2>2. \A lb \in LogicBlocks : map'[lb] < MgmtStart \/ (map'[lb] > top' /\ map'[lb] > a)
      BY <2>1 DEF Loads
    <2> QED
      BY <2>1, <2>2
  <1>27. CASE LoadTwo
    <2>1. PICK a \in Blocks, b \in Blocks :
            /\ Loads(a, a) \/ Loads(b, a)
            /\ a < b /\ backup' = b /\ mba' = b + 1 /\ b < BlockCount - 1
            /\ \/ prot' \in BOOLEAN /\ GoTo("idle")
               \/ Loads(b, a) /\ prot' = FALSE /\ Write(a, b, "singleMain", a)
               \/ prot' = FALSE /\ Write(b, top', "singleBackup", b)
      BY <1>27, LoadTwoFinds
    <2>2. PICK c \in Blocks : Loads(c, a)
      BY <2>1
    <2>3. \A lb \in LogicBlocks : map'[lb] < MgmtStart \/ (map'[lb] > top' /\ map'[lb] > c)
      BY <2>2 DEF Loads
    <2>4. pc' \notin {"off", "sign", "create"}
      BY <2>1
    <2> QED
      BY <2>3, <2>4
  <1>28. CASE SingleMainWritten
    BY <1>28 DEF SingleMainWritten, LoadReturns
  <1>29. CASE SingleMainFails
    BY <1>29 DEF SingleMainFails, BackupBecomesMain
  <1>30. CASE SingleBackupWritten
    BY <1>30 DEF SingleBackupWritten, LoadReturns
  <1>31. CASE SingleBackupFails
    BY <1>31 DEF SingleBackupFails, LoadReturns
  <1>32. CASE FrontWritten
    BY <1>32 DEF FrontWritten
  <1>33. CASE FrontCleaned
    BY <1>33 DEF FrontCleaned, LoadReturns
  <1>34. CASE FrontFails
    BY <1>34, ReserveRange DEF FrontFails, LoadReturns
  <1>35. CASE NextWritten
    BY <1>35 DEF NextWritten
  <1>36. CASE NextCleaned
    BY <1>36 DEF NextCleaned, LoadReturns
  <1>37. CASE NextFails
    BY <1>37 DEF NextFails, LoadReturns
  <1>38. CASE CreateNew
    <2>1. PICK rej : ScanChip(rej)
      BY <1>38 DEF CreateNew
    <2> QED
      BY <2>1, ScanChipMaps
  <1>39. CASE CreateAgain
    <2>1. PICK rej : ScanChip(rej)
      BY <1>39 DEF CreateAgain
    <2> QED
      BY <2>1, ScanChipMaps
  <1>40. CASE SignSkip
    BY <1>40 DEF SignSkip
  <1>41. CASE SignWrite
    BY <1>41 DEF SignWrite
  <1>42. CASE SignFails
    BY <1>42 DEF SignFails, Fault
  <1>43. CASE CreateInfoTable
    <2>1. CASE \E t \in Blocks : WalkDesc(t, 1, sig, MgmtStart) /\ top' = t /\ RebuildFrom(t)
      <3>1. PICK t \in Blocks : WalkDesc(t, 1, sig, MgmtStart) /\ top' = t /\ RebuildFrom(t)
        BY <2>1
      <3>2. MgmtStart + 1 <= t
        BY <3>1, WalkDescRange
      <3> QED
        BY <1>43, <3>1, <3>2 DEF CreateInfoTable, RebuildFrom, Generate, Table
    <2>2. CASE GoTo("failed") /\ UNCHANGED <<main, backup, mba, top>>
      BY <1>43, <2>2 DEF CreateInfoTable, Generate, Table
    <2> QED
      BY <1>43, <2>1, <2>2 DEF CreateInfoTable
  <1>44. CASE MapTail
    <2>1. dbc \in LogicBlocks /\ MapTo(dbc, bad) /\ pc' = "tail" /\ map \in Mappings /\ mba >= MgmtStart
      BY <1>44 DEF MapTail, PlacesOK, StepPcs, LogicBlocks
    <2>2. MapsOne(dbc)
      BY <2>1, MapToTakes DEF MapsOne
    <2> QED
      BY <2>1, <2>2, MapsOneClear
  <1>45. CASE TailOver
    BY <1>45 DEF TailOver
  <1>46. CASE MoveBlock
    BY <1>46 DEF MoveBlock
  <1>47. CASE MoveFails
    BY <1>47 DEF MoveFails, Fault
  <1>48. CASE MarkOld
    BY <1>48 DEF MarkOld
  <1>49. CASE WriteBlock
    BY <1>49 DEF WriteBlock
  <1>50. CASE WriteBlockFails
    <2>1. PICK lb \in LogicBlocks, copy \in BOOLEAN, mk \in BOOLEAN : Remap(lb, copy, mk)
      BY <1>50 DEF WriteBlockFails, Loses
    <2>2. mba >= MgmtStart /\ map \in Mappings /\ pc' \notin {"off", "sign", "create"}
      BY <2>1, RemapDoes DEF PlacesOK, StepPcs
    <2>3. UNCHANGED <<map, top, disorder>> \/ MapsOne(lb)
      BY <2>1, RemapDoes DEF MapsOne
    <2>4. CASE UNCHANGED <<map, top, disorder>>
      BY <2>2, <2>4
    <2>5. CASE MapsOne(lb)
      BY <2>2, <2>5, MapsOneClear
    <2> QED
      BY <2>3, <2>4, <2>5
  <1>51. CASE ReadBlockWeak
    <2>1. PICK lb \in LogicBlocks, copy \in BOOLEAN, mk \in BOOLEAN : Remap(lb, copy, mk)
      BY <1>51 DEF ReadBlockWeak
    <2>2. mba >= MgmtStart /\ map \in Mappings /\ pc' \notin {"off", "sign", "create"}
      BY <2>1, RemapDoes DEF PlacesOK, StepPcs
    <2>3. UNCHANGED <<map, top, disorder>> \/ MapsOne(lb)
      BY <2>1, RemapDoes DEF MapsOne
    <2>4. CASE UNCHANGED <<map, top, disorder>>
      BY <2>2, <2>4
    <2>5. CASE MapsOne(lb)
      BY <2>2, <2>5, MapsOneClear
    <2> QED
      BY <2>3, <2>4, <2>5
  <1>52. CASE MarkBad
    <2>1. PICK lb \in LogicBlocks, copy \in BOOLEAN, mk \in BOOLEAN : Remap(lb, copy, mk)
      BY <1>52 DEF MarkBad
    <2>2. mba >= MgmtStart /\ map \in Mappings /\ pc' \notin {"off", "sign", "create"}
      BY <2>1, RemapDoes DEF PlacesOK, StepPcs
    <2>3. UNCHANGED <<map, top, disorder>> \/ MapsOne(lb)
      BY <2>1, RemapDoes DEF MapsOne
    <2>4. CASE UNCHANGED <<map, top, disorder>>
      BY <2>2, <2>4
    <2>5. CASE MapsOne(lb)
      BY <2>2, <2>5, MapsOneClear
    <2> QED
      BY <2>3, <2>4, <2>5
  <1>53. CASE IsBad
    <2>1. PICK lb \in LogicBlocks, copy \in BOOLEAN, mk \in BOOLEAN : Remap(lb, copy, mk)
      BY <1>53 DEF IsBad
    <2>2. mba >= MgmtStart /\ map \in Mappings /\ pc' \notin {"off", "sign", "create"}
      BY <2>1, RemapDoes DEF PlacesOK, StepPcs
    <2>3. UNCHANGED <<map, top, disorder>> \/ MapsOne(lb)
      BY <2>1, RemapDoes DEF MapsOne
    <2>4. CASE UNCHANGED <<map, top, disorder>>
      BY <2>2, <2>4
    <2>5. CASE MapsOne(lb)
      BY <2>2, <2>5, MapsOneClear
    <2> QED
      BY <2>3, <2>4, <2>5
  <1>54. CASE PowerLoss
    <2>1. \A lb \in LogicBlocks : map'[lb] < MgmtStart
      BY <1>54, NmbmConstants DEF PowerLoss, NoMapping
    <2> QED
      BY <2>1
  <1>55. CASE WritePageFails
    <2>1. PICK lb \in LogicBlocks, copy \in BOOLEAN, mk \in BOOLEAN : Remap(lb, copy, mk)
      BY <1>55 DEF WritePageFails
    <2>2. mba >= MgmtStart /\ map \in Mappings /\ pc' \notin {"off", "sign", "create"}
      BY <2>1, RemapDoes DEF PlacesOK, StepPcs
    <2>3. UNCHANGED <<map, top, disorder>> \/ MapsOne(lb)
      BY <2>1, RemapDoes DEF MapsOne
    <2>4. CASE UNCHANGED <<map, top, disorder>>
      BY <2>2, <2>4
    <2>5. CASE MapsOne(lb)
      BY <2>2, <2>5, MapsOneClear
    <2> QED
      BY <2>3, <2>4, <2>5
  <1>56. CASE ReadBlockFails
    <2>1. PICK lb \in LogicBlocks, copy \in BOOLEAN, mk \in BOOLEAN : Remap(lb, copy, mk)
      BY <1>56 DEF ReadBlockFails, Loses
    <2>2. mba >= MgmtStart /\ map \in Mappings /\ pc' \notin {"off", "sign", "create"}
      BY <2>1, RemapDoes DEF PlacesOK, StepPcs
    <2>3. UNCHANGED <<map, top, disorder>> \/ MapsOne(lb)
      BY <2>1, RemapDoes DEF MapsOne
    <2>4. CASE UNCHANGED <<map, top, disorder>>
      BY <2>2, <2>4
    <2>5. CASE MapsOne(lb)
      BY <2>2, <2>5, MapsOneClear
    <2> QED
      BY <2>3, <2>4, <2>5
  <1> QED
    BY <1>1, <1>2, <1>3, <1>4, <1>5, <1>6, <1>7, <1>8, <1>9, <1>10, <1>11, <1>12,
       <1>13, <1>14, <1>15, <1>16, <1>17, <1>18, <1>19, <1>20, <1>21, <1>22, <1>23, <1>24,
       <1>25, <1>26, <1>27, <1>28, <1>29, <1>30, <1>31, <1>32, <1>33, <1>34, <1>35, <1>36,
       <1>37, <1>38, <1>39, <1>40, <1>41, <1>42, <1>43, <1>44, <1>45, <1>46, <1>47, <1>48,
       <1>49, <1>50, <1>51, <1>52, <1>53, <1>54, <1>55, <1>56
       DEF Next, Driver, WriteRange, ErasingRange, Rebuild, Update, Rescue, Load,
           RescueSingle, Create, RemapRest, Users

LEMMA ClearStep ==
  ASSUME TypeOK, JobOK, PlacesOK, MapOK, JobClear, Next
  PROVE  JobClear'
  <1> USE NmbmConstants DEF phys, mem, loc, ctl, ghost, bounds, GoTo, Write, EraseRange,
             Written, NoRoom, RangeOver, Job, Advance, TypeOK, PlaceType, MapOK, JobClear, JobPcs, JobOK
  <1>0. /\ \A lb \in LogicBlocks : map[lb] \in Int
        /\ job.ba \in Int /\ job.limit \in Int /\ job.wba \in Int
    BY DEF MemoryType, ControlType, Mappings
  <1> USE <1>0
  <1>1. CASE WriteSkip
    BY <1>1 DEF WriteSkip
  <1>2. CASE WriteErase
    BY <1>2 DEF WriteErase
  <1>3. CASE WriteProgram
    BY <1>3 DEF WriteProgram
  <1>4. CASE WriteFails
    BY <1>4 DEF WriteFails, Fault
  <1>5. CASE WriteNoRoom
    BY <1>5 DEF WriteNoRoom
  <1>6. CASE RangeSkip
    BY <1>6 DEF RangeSkip
  <1>7. CASE RangeErase
    BY <1>7 DEF RangeErase
  <1>8. CASE RangeFails
    BY <1>8 DEF RangeFails, Fault
  <1>9. CASE RebuildMainWritten
    BY <1>9, ReserveRange DEF RebuildMainWritten, RebuildReturns
  <1>10. CASE RebuildMainFails
    BY <1>10 DEF RebuildMainFails
  <1>11. CASE RebuildBackupWritten
    BY <1>11 DEF RebuildBackupWritten
  <1>12. CASE RebuildBackupFails
    BY <1>12 DEF RebuildBackupFails, RebuildReturns
  <1>13. CASE Rebuilt
    BY <1>13 DEF Rebuilt, RebuildReturns
  <1>14. CASE UpdateOver
    BY <1>14 DEF UpdateOver
  <1>15. CASE UpdateOnce
    BY <1>15 DEF UpdateOnce, Generate, Table
  <1>16. CASE OnceBackupWritten
    BY <1>16 DEF OnceBackupWritten
  <1>17. CASE OnceBackupFails
    BY <1>17 DEF OnceBackupFails
  <1>18. CASE OnceMainWritten
    BY <1>18 DEF OnceMainWritten
  <1>19. CASE OnceMainFailsAlone
    BY <1>19 DEF OnceMainFailsAlone, RebuildFrom
  <1>20. CASE Updated
    BY <1>20 DEF Updated, AfterOp
  <1>21. CASE RescueMain
    BY <1>21, ReserveRange DEF RescueMain, BackupBecomesMain
  <1>22. CASE RescueTmpWritten
    BY <1>22 DEF RescueTmpWritten
  <1>23. CASE RescueTmpFails
    BY <1>23 DEF RescueTmpFails, BackupBecomesMain
  <1>24. CASE RescueMainWritten
    BY <1>24 DEF RescueMainWritten
  <1>25. CASE RescueMainFails
    BY <1>25 DEF RescueMainFails
  <1>26. CASE LoadOne
    <2>1. PICK a \in Blocks : Loads(a, a) /\ backup' = 0 /\ mba' = a + 1 /\ prot' = FALSE
                                  /\ Write(MgmtStart, a, "front", MgmtStart)
      BY <1>26, LoadOneFinds
    <2>2. \A lb \in LogicBlocks : map'[lb] < MgmtStart \/ (map'[lb] > top' /\ map'[lb] > a)
      BY <2>1 DEF Loads
    <2>3. \A lb \in LogicBlocks : map'[lb] \in Int
      BY <2>1 DEF Loads, TableType, Mappings
    <2> QED
      BY <2>1, <2>2, <2>3 DEF Blocks
  <1>27. CASE LoadTwo
    <2>1. PICK a \in Blocks, b \in Blocks :
            /\ Loads(a, a) \/ Loads(b, a)
            /\ a < b /\ backup' = b /\ mba' = b + 1 /\ b < BlockCount - 1
            /\ \/ prot' \in BOOLEAN /\ GoTo("idle")
               \/ Loads(b, a) /\ prot' = FALSE /\ Write(a, b, "singleMain", a)
               \/ prot' = FALSE /\ Write(b, top', "singleBackup", b)
      BY <1>27, LoadTwoFinds
    <2>2. PICK c \in Blocks : Loads(c, a)
      BY <2>1
    <2>3. \A lb \in LogicBlocks : map'[lb] < MgmtStart \/ map'[lb] > top'
      BY <2>2 DEF Loads
    <2>4. Loads(b, a) => \A lb \in LogicBlocks : map'[lb] < MgmtStart \/ map'[lb] > b
      BY DEF Loads
    <2>5. top' \in Blocks /\ \A lb \in LogicBlocks : map'[lb] \in Int
      BY <2>2 DEF Loads, TableType, Mappings
    <2>6. CASE GoTo("idle")
      BY <2>6
    <2>7. CASE Loads(b, a) /\ Write(a, b, "singleMain", a)
      BY <2>4, <2>5, <2>7 DEF Blocks
    <2>8. CASE Write(b, top', "singleBackup", b)
      BY <2>3, <2>5, <2>8 DEF Blocks
    <2> QED
      BY <2>1, <2>6, <2>7, <2>8
  <1>28. CASE SingleMainWritten
    BY <1>28 DEF SingleMainWritten, LoadReturns
  <1>29. CASE SingleMainFails
    BY <1>29 DEF SingleMainFails, BackupBecomesMain
  <1>30. CASE SingleBackupWritten
    BY <1>30 DEF SingleBackupWritten, LoadReturns
  <1>31. CASE SingleBackupFails
    BY <1>31 DEF SingleBackupFails, LoadReturns
  <1>32. CASE FrontWritten
    BY <1>32 DEF FrontWritten
  <1>33. CASE FrontCleaned
    BY <1>33 DEF FrontCleaned, LoadReturns
  <1>34. CASE FrontFails
    BY <1>34, ReserveRange DEF FrontFails, LoadReturns
  <1>35. CASE NextWritten
    BY <1>35 DEF NextWritten
  <1>36. CASE NextCleaned
    BY <1>36 DEF NextCleaned, LoadReturns
  <1>37. CASE NextFails
    BY <1>37 DEF NextFails, LoadReturns
  <1>38. CASE CreateNew
    BY <1>38 DEF CreateNew, ScanChip
  <1>39. CASE CreateAgain
    BY <1>39 DEF CreateAgain, ScanChip
  <1>40. CASE SignSkip
    BY <1>40 DEF SignSkip
  <1>41. CASE SignWrite
    BY <1>41 DEF SignWrite
  <1>42. CASE SignFails
    BY <1>42 DEF SignFails, Fault
  <1>43. CASE CreateInfoTable
    <2>1. \A lb \in LogicBlocks : map[lb] < MgmtStart
      BY <1>43 DEF CreateInfoTable
    <2>2. map' = map
      BY <1>43 DEF CreateInfoTable
    <2> QED
      BY <2>1, <2>2
  <1>44. CASE MapTail
    BY <1>44 DEF MapTail, MapTo, Unmapped
  <1>45. CASE TailOver
    BY <1>45 DEF TailOver
  <1>46. CASE MoveBlock
    BY <1>46 DEF MoveBlock
  <1>47. CASE MoveFails
    BY <1>47 DEF MoveFails, Fault
  <1>48. CASE MarkOld
    BY <1>48 DEF MarkOld
  <1>49. CASE WriteBlock
    BY <1>49 DEF WriteBlock
  <1>50. CASE WriteBlockFails
    <2>1. pc' \notin JobPcs
      BY <1>50 DEF WriteBlockFails, Loses, Remap, AfterOp
    <2> QED
      BY <2>1
  <1>51. CASE ReadBlockWeak
    <2>1. pc' \notin JobPcs
      BY <1>51 DEF ReadBlockWeak, Remap, AfterOp
    <2> QED
      BY <2>1
  <1>52. CASE MarkBad
    <2>1. pc' \notin JobPcs
      BY <1>52 DEF MarkBad, Remap, AfterOp
    <2> QED
      BY <2>1
  <1>53. CASE IsBad
    <2>1. pc' \notin JobPcs
      BY <1>53 DEF IsBad, Remap, AfterOp
    <2> QED
      BY <2>1
  <1>54. CASE PowerLoss
    BY <1>54 DEF PowerLoss
  <1>55. CASE WritePageFails
    <2>1. pc' \notin JobPcs
      BY <1>55 DEF WritePageFails, Remap, AfterOp
    <2> QED
      BY <2>1
  <1>56. CASE ReadBlockFails
    <2>1. pc' \notin JobPcs
      BY <1>56 DEF ReadBlockFails, Loses, Remap, AfterOp
    <2> QED
      BY <2>1
  <1> QED
    BY <1>1, <1>2, <1>3, <1>4, <1>5, <1>6, <1>7, <1>8, <1>9, <1>10, <1>11, <1>12,
       <1>13, <1>14, <1>15, <1>16, <1>17, <1>18, <1>19, <1>20, <1>21, <1>22, <1>23, <1>24,
       <1>25, <1>26, <1>27, <1>28, <1>29, <1>30, <1>31, <1>32, <1>33, <1>34, <1>35, <1>36,
       <1>37, <1>38, <1>39, <1>40, <1>41, <1>42, <1>43, <1>44, <1>45, <1>46, <1>47, <1>48,
       <1>49, <1>50, <1>51, <1>52, <1>53, <1>54, <1>55, <1>56
       DEF Next, Driver, WriteRange, ErasingRange, Rebuild, Update, Rescue, Load,
           RescueSingle, Create, RemapRest, Users

LEMMA DistinctStep ==
  ASSUME TypeOK, JobOK, PlacesOK, MapOK, DistinctOK, Next
  PROVE  DistinctOK'
  <1> USE NmbmConstants DEF TypeOK
  <1>1. CASE WriteSkip
    BY <1>1 DEF WriteSkip, phys, mem, ghost, DistinctOK
  <1>2. CASE WriteErase
    <2>1. flash' = [flash EXCEPT ![job.ba] = Erased] /\ UNCHANGED <<map, cache, disorder>>
      BY <1>2 DEF WriteErase, phys, mem, ghost
    <2> QED
      BY <2>1, DistinctBlock, Kinds
  <1>3. CASE WriteProgram
    <2>1. flash' = [flash EXCEPT ![job.ba] = cache] /\ UNCHANGED <<map, cache, disorder>>
      BY <1>3 DEF WriteProgram, phys, mem, ghost
    <2> QED
      BY <2>1, DistinctBlock DEF DistinctOK
  <1>4. CASE WriteFails
    <2>1. flash' = [flash EXCEPT ![job.ba] = Torn] /\ UNCHANGED <<map, cache, disorder>>
      BY <1>4 DEF WriteFails, phys, mem, ghost
    <2> QED
      BY <2>1, DistinctBlock, Kinds
  <1>5. CASE WriteNoRoom
    BY <1>5 DEF WriteNoRoom, phys, mem, ghost, DistinctOK
  <1>6. CASE RangeSkip
    BY <1>6 DEF RangeSkip, phys, mem, ghost, DistinctOK
  <1>7. CASE RangeErase
    <2>1. flash' = [flash EXCEPT ![job.ba] = Erased] /\ UNCHANGED <<map, cache, disorder>>
      BY <1>7 DEF RangeErase, phys, mem, ghost
    <2> QED
      BY <2>1, DistinctBlock, Kinds
  <1>8. CASE RangeFails
    <2>1. flash' = [flash EXCEPT ![job.ba] = Torn] /\ UNCHANGED <<map, cache, disorder>>
      BY <1>8 DEF RangeFails, phys, mem, ghost
    <2> QED
      BY <2>1, DistinctBlock, Kinds
  <1>9. CASE RebuildMainWritten
    BY <1>9 DEF RebuildMainWritten, phys, mem, ghost, DistinctOK
  <1>10. CASE RebuildMainFails
    BY <1>10 DEF RebuildMainFails, phys, mem, ghost, DistinctOK
  <1>11. CASE RebuildBackupWritten
    BY <1>11 DEF RebuildBackupWritten, phys, mem, ghost, DistinctOK
  <1>12. CASE RebuildBackupFails
    BY <1>12 DEF RebuildBackupFails, phys, mem, ghost, DistinctOK
  <1>13. CASE Rebuilt
    BY <1>13 DEF Rebuilt, phys, mem, ghost, DistinctOK
  <1>14. CASE UpdateOver
    BY <1>14 DEF UpdateOver, phys, mem, ghost, DistinctOK
  <1>15. CASE UpdateOnce
    <2>1. UNCHANGED <<flash, map, disorder>> /\ cache' = Table(wc', bad, map)
      BY <1>15 DEF UpdateOnce, phys, ghost, Generate
    <2> QED
      BY <2>1 DEF DistinctOK, Table
  <1>16. CASE OnceBackupWritten
    BY <1>16 DEF OnceBackupWritten, phys, mem, ghost, DistinctOK
  <1>17. CASE OnceBackupFails
    BY <1>17 DEF OnceBackupFails, phys, mem, ghost, DistinctOK
  <1>18. CASE OnceMainWritten
    BY <1>18 DEF OnceMainWritten, phys, mem, ghost, DistinctOK
  <1>19. CASE OnceMainFailsAlone
    BY <1>19 DEF OnceMainFailsAlone, phys, mem, ghost, DistinctOK
  <1>20. CASE Updated
    <2>1. UNCHANGED <<flash, map, cache>> /\ (disorder => disorder')
      BY <1>20 DEF Updated, phys, mem
    <2> QED
      BY <2>1 DEF DistinctOK
  <1>21. CASE RescueMain
    BY <1>21 DEF RescueMain, phys, mem, ghost, DistinctOK
  <1>22. CASE RescueTmpWritten
    BY <1>22 DEF RescueTmpWritten, phys, mem, ghost, DistinctOK
  <1>23. CASE RescueTmpFails
    BY <1>23 DEF RescueTmpFails, phys, mem, ghost, DistinctOK
  <1>24. CASE RescueMainWritten
    BY <1>24 DEF RescueMainWritten, phys, mem, ghost, DistinctOK
  <1>25. CASE RescueMainFails
    BY <1>25 DEF RescueMainFails, phys, mem, ghost, DistinctOK
  <1>26. CASE LoadOne
    <2>1. PICK a \in Blocks : Loads(a, a) /\ backup' = 0 /\ mba' = a + 1 /\ prot' = FALSE
                                  /\ Write(MgmtStart, a, "front", MgmtStart)
      BY <1>26, LoadOneFinds
    <2> QED
      BY <2>1 DEF Loads, DistinctOK
  <1>27. CASE LoadTwo
    <2>1. PICK a \in Blocks, b \in Blocks :
            /\ Loads(a, a) \/ Loads(b, a)
            /\ a < b /\ backup' = b /\ mba' = b + 1 /\ b < BlockCount - 1
            /\ \/ prot' \in BOOLEAN /\ GoTo("idle")
               \/ Loads(b, a) /\ prot' = FALSE /\ Write(a, b, "singleMain", a)
               \/ prot' = FALSE /\ Write(b, top', "singleBackup", b)
      BY <1>27, LoadTwoFinds
    <2>2. PICK c \in Blocks : Loads(c, a)
      BY <2>1
    <2> QED
      BY <2>2 DEF Loads, DistinctOK
  <1>28. CASE SingleMainWritten
    BY <1>28 DEF SingleMainWritten, phys, mem, ghost, DistinctOK
  <1>29. CASE SingleMainFails
    BY <1>29 DEF SingleMainFails, phys, mem, ghost, DistinctOK
  <1>30. CASE SingleBackupWritten
    BY <1>30 DEF SingleBackupWritten, phys, mem, ghost, DistinctOK
  <1>31. CASE SingleBackupFails
    BY <1>31 DEF SingleBackupFails, phys, mem, ghost, DistinctOK
  <1>32. CASE FrontWritten
    BY <1>32 DEF FrontWritten, phys, mem, ghost, DistinctOK
  <1>33. CASE FrontCleaned
    BY <1>33 DEF FrontCleaned, phys, mem, ghost, DistinctOK
  <1>34. CASE FrontFails
    BY <1>34 DEF FrontFails, phys, mem, ghost, DistinctOK
  <1>35. CASE NextWritten
    BY <1>35 DEF NextWritten, phys, mem, ghost, DistinctOK
  <1>36. CASE NextCleaned
    BY <1>36 DEF NextCleaned, phys, mem, ghost, DistinctOK
  <1>37. CASE NextFails
    BY <1>37 DEF NextFails, phys, mem, ghost, DistinctOK
  <1>38. CASE CreateNew
    <2>1. PICK rej : ScanChip(rej)
      BY <1>38 DEF CreateNew
    <2>2. UNCHANGED <<flash, cache, disorder>> /\ Distinct(map')
      BY <2>1, ScanChipMaps DEF ScanChip, phys, ghost
    <2> QED
      BY <2>2 DEF DistinctOK
  <1>39. CASE CreateAgain
    <2>1. PICK rej : ScanChip(rej)
      BY <1>39 DEF CreateAgain
    <2>2. UNCHANGED <<flash, cache, disorder>> /\ Distinct(map')
      BY <2>1, ScanChipMaps DEF ScanChip, phys, ghost
    <2> QED
      BY <2>2 DEF DistinctOK
  <1>40. CASE SignSkip
    BY <1>40 DEF SignSkip, phys, mem, ghost, DistinctOK
  <1>41. CASE SignWrite
    <2>1. flash' = [flash EXCEPT ![job.ba] = Signature] /\ UNCHANGED <<map, cache, disorder>>
      BY <1>41 DEF SignWrite, phys, mem, ghost
    <2> QED
      BY <2>1, DistinctBlock, Kinds
  <1>42. CASE SignFails
    <2>1. flash' = [flash EXCEPT ![job.ba] = Torn] /\ UNCHANGED <<map, cache, disorder>>
      BY <1>42 DEF SignFails, phys, mem, ghost
    <2> QED
      BY <2>1, DistinctBlock, Kinds
  <1>43. CASE CreateInfoTable
    <2>1. UNCHANGED <<flash, map, disorder>> /\ cache' = Table(wc', bad, map)
      BY <1>43 DEF CreateInfoTable, phys, ghost, Generate
    <2> QED
      BY <2>1 DEF DistinctOK, Table
  <1>44. CASE MapTail
    <2>1. dbc \in LogicBlocks /\ MapTo(dbc, bad) /\ map \in Mappings /\ mba >= MgmtStart
      BY <1>44, NmbmConstants DEF MapTail, PlacesOK, StepPcs, LogicBlocks, MemoryType
    <2>2. MapsOne(dbc) /\ UNCHANGED <<flash, cache>>
      BY <1>44, <2>1, MapToTakes DEF MapsOne, MapTail, phys
    <2> QED
      BY <2>1, <2>2, MapsOneDistinct
  <1>45. CASE TailOver
    BY <1>45 DEF TailOver, phys, mem, ghost, DistinctOK
  <1>46. CASE MoveBlock
    <2>1. flash' = [flash EXCEPT ![map[op.lb]] = (IF op.copy THEN flash[op.src] ELSE Erased)] /\ UNCHANGED <<map, cache, disorder>>
      BY <1>46 DEF MoveBlock, phys, mem, ghost
    <2> QED
      BY <2>1, DistinctBlock, Kinds DEF ControlType, DistinctOK
  <1>47. CASE MoveFails
    <2>1. flash' = [flash EXCEPT ![map[op.lb]] = Torn] /\ UNCHANGED <<map, cache, disorder>>
      BY <1>47 DEF MoveFails, phys, mem, ghost
    <2> QED
      BY <2>1, DistinctBlock, Kinds
  <1>48. CASE MarkOld
    BY <1>48 DEF MarkOld, phys, mem, ghost, DistinctOK
  <1>49. CASE WriteBlock
    <2>1. PICK lb \in LogicBlocks : flash' = [flash EXCEPT ![map[lb]] = Data(lb)]
      BY <1>49 DEF WriteBlock
    <2>2. UNCHANGED <<map, cache, disorder>>
      BY <1>49 DEF WriteBlock, mem
    <2> QED
      BY <2>1, <2>2, DistinctBlock, Kinds
  <1>50. CASE WriteBlockFails
    <2>1. PICK lb \in LogicBlocks, copy \in BOOLEAN, mk \in BOOLEAN : Remap(lb, copy, mk)
      BY <1>50 DEF WriteBlockFails, Loses
    <2>2. mba >= MgmtStart
      BY <2>1, RemapDoes DEF PlacesOK, StepPcs
    <2>3. \A b \in Blocks : flash'[b].kind = "table" => flash'[b] = flash[b]
      BY <1>50, Kinds DEF WriteBlockFails, Loses, TableType
    <2>4. cache' = cache
      BY <2>1, RemapDoes
    <2>5. CASE UNCHANGED <<map, top, disorder>>
      BY <2>3, <2>4, <2>5 DEF DistinctOK
    <2>6. CASE MapsOne(lb)
      BY <2>2, <2>3, <2>4, <2>6, MapsOneDistinct
    <2> QED
      BY <2>1, <2>5, <2>6, RemapDoes DEF MapsOne
  <1>51. CASE ReadBlockWeak
    <2>1. PICK lb \in LogicBlocks, copy \in BOOLEAN, mk \in BOOLEAN : Remap(lb, copy, mk)
      BY <1>51 DEF ReadBlockWeak
    <2>2. mba >= MgmtStart
      BY <2>1, RemapDoes DEF PlacesOK, StepPcs
    <2>3. \A b \in Blocks : flash'[b].kind = "table" => flash'[b] = flash[b]
      BY <1>51 DEF ReadBlockWeak, phys
    <2>4. cache' = cache
      BY <2>1, RemapDoes
    <2>5. CASE UNCHANGED <<map, top, disorder>>
      BY <2>3, <2>4, <2>5 DEF DistinctOK
    <2>6. CASE MapsOne(lb)
      BY <2>2, <2>3, <2>4, <2>6, MapsOneDistinct
    <2> QED
      BY <2>1, <2>5, <2>6, RemapDoes DEF MapsOne
  <1>52. CASE MarkBad
    <2>1. PICK lb \in LogicBlocks, copy \in BOOLEAN, mk \in BOOLEAN : Remap(lb, copy, mk)
      BY <1>52 DEF MarkBad
    <2>2. mba >= MgmtStart
      BY <2>1, RemapDoes DEF PlacesOK, StepPcs
    <2>3. \A b \in Blocks : flash'[b].kind = "table" => flash'[b] = flash[b]
      BY <1>52 DEF MarkBad, phys
    <2>4. cache' = cache
      BY <2>1, RemapDoes
    <2>5. CASE UNCHANGED <<map, top, disorder>>
      BY <2>3, <2>4, <2>5 DEF DistinctOK
    <2>6. CASE MapsOne(lb)
      BY <2>2, <2>3, <2>4, <2>6, MapsOneDistinct
    <2> QED
      BY <2>1, <2>5, <2>6, RemapDoes DEF MapsOne
  <1>53. CASE IsBad
    <2>1. PICK lb \in LogicBlocks, copy \in BOOLEAN, mk \in BOOLEAN : Remap(lb, copy, mk)
      BY <1>53 DEF IsBad
    <2>2. mba >= MgmtStart
      BY <2>1, RemapDoes DEF PlacesOK, StepPcs
    <2>3. \A b \in Blocks : flash'[b].kind = "table" => flash'[b] = flash[b]
      BY <1>53 DEF IsBad, phys
    <2>4. cache' = cache
      BY <2>1, RemapDoes
    <2>5. CASE UNCHANGED <<map, top, disorder>>
      BY <2>3, <2>4, <2>5 DEF DistinctOK
    <2>6. CASE MapsOne(lb)
      BY <2>2, <2>3, <2>4, <2>6, MapsOneDistinct
    <2> QED
      BY <2>1, <2>5, <2>6, RemapDoes DEF MapsOne
  <1>54. CASE PowerLoss
    <2>1. Distinct(NoMapping)
      BY DEF Distinct, NoMapping
    <2>2. cache' = Table(0, {}, NoMapping) /\ map' = NoMapping /\ disorder' = disorder
      BY <1>54 DEF PowerLoss, ghost
    <2>3. Distinct(map') /\ Distinct(cache'.map)
      BY <2>1, <2>2 DEF Table
    <2>4. UNCHANGED flash \/ \E x : flash' = [flash EXCEPT ![x] = Torn]
      BY <1>54 DEF PowerLoss
    <2>5. \A b \in Blocks : flash'[b].kind = "table" => flash'[b] = flash[b]
      BY <2>4, Kinds DEF TableType
    <2> QED
      BY <2>2, <2>3, <2>5 DEF DistinctOK
  <1>55. CASE WritePageFails
    <2>1. PICK lb \in LogicBlocks, copy \in BOOLEAN, mk \in BOOLEAN : Remap(lb, copy, mk)
      BY <1>55 DEF WritePageFails
    <2>2. mba >= MgmtStart
      BY <2>1, RemapDoes DEF PlacesOK, StepPcs
    <2>3. \A b \in Blocks : flash'[b].kind = "table" => flash'[b] = flash[b]
      BY <1>55 DEF WritePageFails, phys
    <2>4. cache' = cache
      BY <2>1, RemapDoes
    <2>5. CASE UNCHANGED <<map, top, disorder>>
      BY <2>3, <2>4, <2>5 DEF DistinctOK
    <2>6. CASE MapsOne(lb)
      BY <2>2, <2>3, <2>4, <2>6, MapsOneDistinct
    <2> QED
      BY <2>1, <2>5, <2>6, RemapDoes DEF MapsOne
  <1>56. CASE ReadBlockFails
    <2>1. PICK lb \in LogicBlocks, copy \in BOOLEAN, mk \in BOOLEAN : Remap(lb, copy, mk)
      BY <1>56 DEF ReadBlockFails, Loses
    <2>2. mba >= MgmtStart
      BY <2>1, RemapDoes DEF PlacesOK, StepPcs
    <2>3. \A b \in Blocks : flash'[b].kind = "table" => flash'[b] = flash[b]
      BY <1>56, Kinds DEF ReadBlockFails, Loses, TableType
    <2>4. cache' = cache
      BY <2>1, RemapDoes
    <2>5. CASE UNCHANGED <<map, top, disorder>>
      BY <2>3, <2>4, <2>5 DEF DistinctOK
    <2>6. CASE MapsOne(lb)
      BY <2>2, <2>3, <2>4, <2>6, MapsOneDistinct
    <2> QED
      BY <2>1, <2>5, <2>6, RemapDoes DEF MapsOne
  <1> QED
    BY <1>1, <1>2, <1>3, <1>4, <1>5, <1>6, <1>7, <1>8, <1>9, <1>10, <1>11, <1>12,
       <1>13, <1>14, <1>15, <1>16, <1>17, <1>18, <1>19, <1>20, <1>21, <1>22, <1>23, <1>24,
       <1>25, <1>26, <1>27, <1>28, <1>29, <1>30, <1>31, <1>32, <1>33, <1>34, <1>35, <1>36,
       <1>37, <1>38, <1>39, <1>40, <1>41, <1>42, <1>43, <1>44, <1>45, <1>46, <1>47, <1>48,
       <1>49, <1>50, <1>51, <1>52, <1>53, <1>54, <1>55, <1>56
       DEF Next, Driver, WriteRange, ErasingRange, Rebuild, Update, Rescue, Load,
           RescueSingle, Create, RemapRest, Users

-----------------------------------------------------------------------------
(* What keeps a table on the chip *)

Attached == {"create"} \cup JobPcs \cup StepPcs

ControlOK ==
  /\ pc \in {"off", "failed", "sign"} \cup Attached
  /\ wc \in Nat /\ cache.wc \in Nat
  /\ \A b \in Blocks : flash[b].kind = "table" => flash[b].wc \in Nat
  /\ pc \in JobPcs => job.k \notin {"none", "sign"}
  /\ pc = "sign" => marked \subseteq bad

\* There is one signature, above MgmtStart and never marked bad.
SigOK ==
  /\ \A b \in Blocks : flash[b] = Signature => b > MgmtStart /\ b \notin marked /\ pc # "sign"
  /\ \A b, c \in Blocks : flash[b] = Signature /\ flash[c] = Signature => b = c
  /\ pc \in Attached => flash[sig] = Signature

\* From below: main table, backup table, end of the tables, and the top of
\* the spare area below the signature.
BoundsOK ==
  /\ pc \in JobPcs \cup StepPcs => top < sig /\ main < mba /\ main <= top
  /\ pc \in JobPcs \cup StepPcs /\ backup # 0 => main < backup /\ backup < mba
  /\ pc \in JobPcs => job.limit <= top
  /\ pc \in Attached => \A lb \in LogicBlocks : map[lb] # sig
  /\ pc \in Attached => op.src # sig
  /\ pc \in JobPcs \cup StepPcs => op.src < MgmtStart \/ op.src > top
  /\ pc \in {"off", "sign", "create"} => op.src = 0
  /\ pc \in {"off", "sign", "create", "failed"} => backup = 0

\* The writes and erases that start behind the main table.
AboveMain ==
  \/ job.k \in {"rebuildBackup", "rebuilt", "onceBackup", "singleBackup", "next"}
  \/ job.k = "front" /\ pc = "range"

\* On which side of the tables the running job works.
PlanOK ==
  pc \in JobPcs =>
    /\ job.k \in {"rebuildMain", "rebuildBackup", "next"} => backup = 0
    /\ job.k = "rebuildMain" => main = 0
    /\ job.k = "front" /\ pc # "range" => backup = 0
    /\ AboveMain => job.ba > main
    /\ job.k = "next" => job.limit > main
    /\ job.k = "onceMain" /\ backup # 0 => job.limit = backup
    /\ job.k = "tmp" => job.ba > backup /\ backup <= top
    /\ job.k = "rescueMain" => job.limit = job.wba /\ job.wba < mba

\* The table about to be written has the mapping of the memory, and the block
\* it goes to is good.
CacheOK ==
  pc \in JobPcs => /\ cache.map = map /\ cache.bad \subseteq bad
                   /\ pc = "program" => job.ba \notin bad \cup marked

\* The tables the next attach accepts.
SoundTables == {x \in Blocks : MgmtStart <= x /\ x < sig - 1 /\ Loadable(x, sig, {})}

\* Which of them no step of the running job touches.
KeptOK ==
  /\ pc \in StepPcs /\ main # 0 => main \in SoundTables
  /\ pc \in JobPcs =>
       /\ AboveMain \/ job.k = "front" => main \in SoundTables
       /\ backup # 0 /\ job.k \in {"onceMain", "tmp", "singleMain"} => backup \in SoundTables
       /\ job.k = "rescueMain" => job.wba \in SoundTables
       /\ pc = "written" => job.ba \in SoundTables

TablesInv == /\ ControlOK /\ CacheOK
             /\ ~disorder => SigOK /\ BoundsOK /\ PlanOK /\ KeptOK

-----------------------------------------------------------------------------

\* Control stays in the model and write counts stay natural numbers.
LEMMA CountStep ==
  ASSUME TypeOK, ControlOK, Next
  PROVE  ControlOK'
  <1> USE NmbmConstants DEF phys, mem, loc, ctl, ghost, bounds, GoTo, Write, EraseRange, Written,
             NoRoom, RangeOver, Job, Advance, ControlOK, JobPcs, StepPcs, Attached
  <1>1. CASE WriteSkip
    BY <1>1 DEF WriteSkip
  <1>2. CASE WriteErase
    <2>1. flash' = [flash EXCEPT ![job.ba] = Erased] /\ UNCHANGED <<wc, cache>>
      BY <1>2 DEF WriteErase, mem
    <2>2. \A b \in Blocks : flash'[b].kind = "table" => flash'[b] = flash[b]
      BY <2>1, Kinds DEF TypeOK, TableType
    <2> QED
      BY <1>2, <2>1, <2>2 DEF WriteErase
  <1>3. CASE WriteProgram
    <2>1. flash' = [flash EXCEPT ![job.ba] = cache] /\ UNCHANGED <<wc, cache>>
      BY <1>3 DEF WriteProgram, mem
    <2>2. \A b \in Blocks : flash'[b].kind = "table" => flash'[b] = flash[b] \/ flash'[b] = cache
      BY <2>1 DEF TypeOK, TableType
    <2> QED
      BY <1>3, <2>1, <2>2 DEF WriteProgram, GoTo
  <1>4. CASE WriteFails
    <2>1. flash' = [flash EXCEPT ![job.ba] = Torn] /\ UNCHANGED <<wc, cache>>
      BY <1>4 DEF WriteFails, mem
    <2>2. \A b \in Blocks : flash'[b].kind = "table" => flash'[b] = flash[b]
      BY <2>1, Kinds DEF TypeOK, TableType
    <2> QED
      BY <1>4, <2>1, <2>2 DEF WriteFails
  <1>5. CASE WriteNoRoom
    BY <1>5 DEF WriteNoRoom
  <1>6. CASE RangeSkip
    BY <1>6 DEF RangeSkip
  <1>7. CASE RangeErase
    <2>1. flash' = [flash EXCEPT ![job.ba] = Erased] /\ UNCHANGED <<wc, cache>>
      BY <1>7 DEF RangeErase, mem
    <2>2. \A b \in Blocks : flash'[b].kind = "table" => flash'[b] = flash[b]
      BY <2>1, Kinds DEF TypeOK, TableType
    <2> QED
      BY <1>7, <2>1, <2>2 DEF RangeErase
  <1>8. CASE RangeFails
    <2>1. flash' = [flash EXCEPT ![job.ba] = Torn] /\ UNCHANGED <<wc, cache>>
      BY <1>8 DEF RangeFails, mem
    <2>2. \A b \in Blocks : flash'[b].kind = "table" => flash'[b] = flash[b]
      BY <2>1, Kinds DEF TypeOK, TableType
    <2> QED
      BY <1>8, <2>1, <2>2 DEF RangeFails
  <1>9. CASE RebuildMainWritten
    BY <1>9 DEF RebuildMainWritten, RebuildReturns
  <1>10. CASE RebuildMainFails
    BY <1>10 DEF RebuildMainFails
  <1>11. CASE RebuildBackupWritten
    BY <1>11 DEF RebuildBackupWritten
  <1>12. CASE RebuildBackupFails
    BY <1>12 DEF RebuildBackupFails, RebuildReturns
  <1>13. CASE Rebuilt
    BY <1>13 DEF Rebuilt, RebuildReturns
  <1>14. CASE UpdateOver
    BY <1>14 DEF UpdateOver
  <1>15. CASE UpdateOnce
    <2>1. flash' = flash /\ wc' \in Nat /\ cache' = Table(wc', bad, map)
      BY <1>15 DEF UpdateOnce, phys, Generate
    <2>2. cache'.wc = wc'
      BY <2>1 DEF Table
    <2>3. pc' \in JobPcs /\ job'.k \in {"onceMain", "onceBackup"}
      BY <1>15 DEF UpdateOnce, Write, Job
    <2> QED
      BY <2>1, <2>2, <2>3
  <1>16. CASE OnceBackupWritten
    BY <1>16 DEF OnceBackupWritten
  <1>17. CASE OnceBackupFails
    BY <1>17 DEF OnceBackupFails
  <1>18. CASE OnceMainWritten
    BY <1>18 DEF OnceMainWritten
  <1>19. CASE OnceMainFailsAlone
    BY <1>19 DEF OnceMainFailsAlone, RebuildFrom
  <1>20. CASE Updated
    BY <1>20 DEF Updated, AfterOp
  <1>21. CASE RescueMain
    BY <1>21 DEF RescueMain, BackupBecomesMain
  <1>22. CASE RescueTmpWritten
    BY <1>22 DEF RescueTmpWritten
  <1>23. CASE RescueTmpFails
    BY <1>23 DEF RescueTmpFails, BackupBecomesMain
  <1>24. CASE RescueMainWritten
    BY <1>24 DEF RescueMainWritten
  <1>25. CASE RescueMainFails
    BY <1>25 DEF RescueMainFails
  <1>26. CASE LoadOne
    <2>1. PICK a \in Blocks : Loads(a, a) /\ backup' = 0 /\ mba' = a + 1 /\ prot' = FALSE
                                  /\ Write(MgmtStart, a, "front", MgmtStart)
      BY <1>26, LoadOneFinds
    <2>2. wc' \in Nat /\ cache'.wc = wc' /\ flash' = flash
      BY <2>1 DEF Loads, Table
    <2> QED
      BY <2>1, <2>2 DEF Write, Job
  <1>27. CASE LoadTwo
    <2>1. PICK a \in Blocks, b \in Blocks :
            /\ Loads(a, a) \/ Loads(b, a)
            /\ Loadable(b, sig', {}) /\ b < sig' - 1
            /\ a < b /\ backup' = b /\ mba' = b + 1 /\ b < BlockCount - 1
            /\ \/ prot' \in BOOLEAN /\ GoTo("idle")
               \/ Loads(b, a) /\ prot' = FALSE /\ Write(a, b, "singleMain", a)
               \/ prot' = FALSE /\ Write(b, top', "singleBackup", b)
      BY <1>27, LoadTwoFinds
    <2>2. PICK c \in Blocks : Loads(c, a)
      BY <2>1
    <2>3. wc' \in Nat /\ cache'.wc = wc' /\ flash' = flash
      BY <2>2 DEF Loads, Table
    <2>4. pc' \in Attached /\ (pc' \in JobPcs => job'.k \notin {"none", "sign"})
      BY <2>1 DEF GoTo, Write, Job
    <2> QED
      BY <2>3, <2>4
  <1>28. CASE SingleMainWritten
    BY <1>28 DEF SingleMainWritten, LoadReturns
  <1>29. CASE SingleMainFails
    BY <1>29 DEF SingleMainFails, BackupBecomesMain
  <1>30. CASE SingleBackupWritten
    BY <1>30 DEF SingleBackupWritten, LoadReturns
  <1>31. CASE SingleBackupFails
    BY <1>31 DEF SingleBackupFails, LoadReturns
  <1>32. CASE FrontWritten
    BY <1>32 DEF FrontWritten
  <1>33. CASE FrontCleaned
    BY <1>33 DEF FrontCleaned, LoadReturns
  <1>34. CASE FrontFails
    BY <1>34 DEF FrontFails, LoadReturns
  <1>35. CASE NextWritten
    BY <1>35 DEF NextWritten
  <1>36. CASE NextCleaned
    BY <1>36 DEF NextCleaned, LoadReturns
  <1>37. CASE NextFails
    BY <1>37 DEF NextFails, LoadReturns
  <1>38. CASE CreateNew
    BY <1>38 DEF CreateNew, ScanChip
  <1>39. CASE CreateAgain
    BY <1>39 DEF CreateAgain, ScanChip
  <1>40. CASE SignSkip
    BY <1>40 DEF SignSkip
  <1>41. CASE SignWrite
    <2>1. flash' = [flash EXCEPT ![job.ba] = Signature] /\ UNCHANGED <<wc, cache>>
      BY <1>41 DEF SignWrite, mem
    <2>2. \A b \in Blocks : flash'[b].kind = "table" => flash'[b] = flash[b]
      BY <2>1, Kinds DEF TypeOK, TableType
    <2> QED
      BY <1>41, <2>1, <2>2 DEF SignWrite
  <1>42. CASE SignFails
    <2>1. flash' = [flash EXCEPT ![job.ba] = Torn] /\ UNCHANGED <<wc, cache>>
      BY <1>42 DEF SignFails, mem
    <2>2. \A b \in Blocks : flash'[b].kind = "table" => flash'[b] = flash[b]
      BY <2>1, Kinds DEF TypeOK, TableType
    <2> QED
      BY <1>42, <2>1, <2>2 DEF SignFails
  <1>43. CASE CreateInfoTable
    <2>1. flash' = flash /\ wc' \in Nat /\ cache' = Table(wc', bad, map)
      BY <1>43 DEF CreateInfoTable, phys, Generate
    <2>2. cache'.wc = wc'
      BY <2>1 DEF Table
    <2>3. pc' \in JobPcs \cup {"failed"} /\ (pc' \in JobPcs => job'.k = "rebuildMain")
      BY <1>43 DEF CreateInfoTable, RebuildFrom, Write, Job, GoTo
    <2> QED
      BY <2>1, <2>2, <2>3
  <1>44. CASE MapTail
    BY <1>44 DEF MapTail, MapTo, Unmapped
  <1>45. CASE TailOver
    BY <1>45 DEF TailOver
  <1>46. CASE MoveBlock
    <2>1. flash' = [flash EXCEPT ![map[op.lb]] = (IF op.copy THEN flash[op.src] ELSE Erased)] /\ UNCHANGED <<wc, cache>>
      BY <1>46 DEF MoveBlock, mem
    <2>2. op.src \in Blocks
      BY DEF TypeOK, ControlType
    <2>3. \A b \in Blocks : flash'[b].kind = "table" => flash'[b] = flash[b] \/ flash'[b] = flash[op.src]
      BY <2>1, Kinds DEF TypeOK, TableType
    <2> QED
      BY <1>46, <2>1, <2>2, <2>3 DEF MoveBlock, GoTo
  <1>47. CASE MoveFails
    <2>1. flash' = [flash EXCEPT ![map[op.lb]] = Torn] /\ UNCHANGED <<wc, cache>>
      BY <1>47 DEF MoveFails, mem
    <2>2. \A b \in Blocks : flash'[b].kind = "table" => flash'[b] = flash[b]
      BY <2>1, Kinds DEF TypeOK, TableType
    <2> QED
      BY <1>47, <2>1, <2>2 DEF MoveFails
  <1>48. CASE MarkOld
    BY <1>48 DEF MarkOld
  <1>49. CASE WriteBlock
    <2>1. PICK lb \in LogicBlocks : flash' = [flash EXCEPT ![map[lb]] = Data(lb)]
      BY <1>49 DEF WriteBlock
    <2>2. \A b \in Blocks : flash'[b].kind = "table" => flash'[b] = flash[b]
      BY <2>1, Kinds DEF TypeOK, TableType
    <2> QED
      BY <1>49, <2>2 DEF WriteBlock, mem
  <1>50. CASE WriteBlockFails
    <2>1. PICK lb \in LogicBlocks, copy \in BOOLEAN, mk \in BOOLEAN : Remap(lb, copy, mk)
      BY <1>50 DEF WriteBlockFails, Loses
    <2>2. UNCHANGED <<wc, cache>> /\ pc' \in {"move", "update", "mark", "idle"}
      BY <2>1 DEF Remap, AfterOp, GoTo
    <2>3. \A b \in Blocks : flash'[b].kind = "table" => flash'[b] = flash[b]
      BY <1>50, Kinds DEF WriteBlockFails, Loses, phys, TypeOK, TableType
    <2> QED
      BY <2>2, <2>3
  <1>51. CASE ReadBlockWeak
    <2>1. PICK lb \in LogicBlocks, copy \in BOOLEAN, mk \in BOOLEAN : Remap(lb, copy, mk)
      BY <1>51 DEF ReadBlockWeak
    <2>2. UNCHANGED <<wc, cache>> /\ pc' \in {"move", "update", "mark", "idle"}
      BY <2>1 DEF Remap, AfterOp, GoTo
    <2>3. \A b \in Blocks : flash'[b].kind = "table" => flash'[b] = flash[b]
      BY <1>51, Kinds DEF ReadBlockWeak, phys, TypeOK, TableType
    <2> QED
      BY <2>2, <2>3
  <1>52. CASE MarkBad
    <2>1. PICK lb \in LogicBlocks, copy \in BOOLEAN, mk \in BOOLEAN : Remap(lb, copy, mk)
      BY <1>52 DEF MarkBad
    <2>2. UNCHANGED <<wc, cache>> /\ pc' \in {"move", "update", "mark", "idle"}
      BY <2>1 DEF Remap, AfterOp, GoTo
    <2>3. \A b \in Blocks : flash'[b].kind = "table" => flash'[b] = flash[b]
      BY <1>52, Kinds DEF MarkBad, phys, TypeOK, TableType
    <2> QED
      BY <2>2, <2>3
  <1>53. CASE IsBad
    <2>1. PICK lb \in LogicBlocks, copy \in BOOLEAN, mk \in BOOLEAN : Remap(lb, copy, mk)
      BY <1>53 DEF IsBad
    <2>2. UNCHANGED <<wc, cache>> /\ pc' \in {"move", "update", "mark", "idle"}
      BY <2>1 DEF Remap, AfterOp, GoTo
    <2>3. \A b \in Blocks : flash'[b].kind = "table" => flash'[b] = flash[b]
      BY <1>53, Kinds DEF IsBad, phys, TypeOK, TableType
    <2> QED
      BY <2>2, <2>3
  <1>54. CASE PowerLoss
    <2>1. UNCHANGED flash \/ \E x : flash' = [flash EXCEPT ![x] = Torn]
      BY <1>54 DEF PowerLoss
    <2>2. \A b \in Blocks : flash'[b].kind = "table" => flash'[b] = flash[b]
      BY <2>1, Kinds DEF TypeOK, TableType
    <2>3. pc' = "off" /\ wc' = 0 /\ cache' = Table(0, {}, NoMapping)
      BY <1>54 DEF PowerLoss
    <2>4. cache'.wc = 0
      BY <2>3 DEF Table
    <2> QED
      BY <2>2, <2>3, <2>4
  <1>55. CASE WritePageFails
    <2>1. PICK lb \in LogicBlocks, copy \in BOOLEAN, mk \in BOOLEAN : Remap(lb, copy, mk)
      BY <1>55 DEF WritePageFails
    <2>2. UNCHANGED <<wc, cache>> /\ pc' \in {"move", "update", "mark", "idle"}
      BY <2>1 DEF Remap, AfterOp, GoTo
    <2>3. \A b \in Blocks : flash'[b].kind = "table" => flash'[b] = flash[b]
      BY <1>55, Kinds DEF WritePageFails, phys, TypeOK, TableType
    <2> QED
      BY <2>2, <2>3
  <1>56. CASE ReadBlockFails
    <2>1. PICK lb \in LogicBlocks, copy \in BOOLEAN, mk \in BOOLEAN : Remap(lb, copy, mk)
      BY <1>56 DEF ReadBlockFails, Loses
    <2>2. UNCHANGED <<wc, cache>> /\ pc' \in {"move", "update", "mark", "idle"}
      BY <2>1 DEF Remap, AfterOp, GoTo
    <2>3. \A b \in Blocks : flash'[b].kind = "table" => flash'[b] = flash[b]
      BY <1>56, Kinds DEF ReadBlockFails, Loses, phys, TypeOK, TableType
    <2> QED
      BY <2>2, <2>3
  <1> QED
    BY <1>1, <1>2, <1>3, <1>4, <1>5, <1>6, <1>7, <1>8, <1>9, <1>10, <1>11, <1>12,
       <1>13, <1>14, <1>15, <1>16, <1>17, <1>18, <1>19, <1>20, <1>21, <1>22, <1>23, <1>24,
       <1>25, <1>26, <1>27, <1>28, <1>29, <1>30, <1>31, <1>32, <1>33, <1>34, <1>35, <1>36,
       <1>37, <1>38, <1>39, <1>40, <1>41, <1>42, <1>43, <1>44, <1>45, <1>46, <1>47, <1>48,
       <1>49, <1>50, <1>51, <1>52, <1>53, <1>54, <1>55, <1>56
       DEF Next, Driver, WriteRange, ErasingRange, Rebuild, Update, Rescue, Load,
           RescueSingle, Create, RemapRest, Users

\* The cache is generated from the memory, and a block found bad later is only
\* added to the memory.
LEMMA CacheStep ==
  ASSUME CacheOK, TypeOK, Next
  PROVE  CacheOK'
  <1> USE NmbmConstants DEF phys, mem, loc, ctl, ghost, bounds, GoTo, Write, EraseRange, Written,
             NoRoom, RangeOver, Job, Advance, CacheOK, JobPcs, StepPcs
  <1>1. CASE WriteSkip
    BY <1>1 DEF WriteSkip
  <1>2. CASE WriteErase
    BY <1>2 DEF WriteErase
  <1>3. CASE WriteProgram
    BY <1>3 DEF WriteProgram
  <1>4. CASE WriteFails
    BY <1>4 DEF WriteFails, Fault
  <1>5. CASE WriteNoRoom
    BY <1>5 DEF WriteNoRoom
  <1>6. CASE RangeSkip
    BY <1>6 DEF RangeSkip
  <1>7. CASE RangeErase
    BY <1>7 DEF RangeErase
  <1>8. CASE RangeFails
    BY <1>8 DEF RangeFails, Fault
  <1>9. CASE RebuildMainWritten
    BY <1>9 DEF RebuildMainWritten, RebuildReturns
  <1>10. CASE RebuildMainFails
    BY <1>10 DEF RebuildMainFails
  <1>11. CASE RebuildBackupWritten
    BY <1>11 DEF RebuildBackupWritten
  <1>12. CASE RebuildBackupFails
    BY <1>12 DEF RebuildBackupFails, RebuildReturns
  <1>13. CASE Rebuilt
    BY <1>13 DEF Rebuilt, RebuildReturns
  <1>14. CASE UpdateOver
    BY <1>14 DEF UpdateOver
  <1>15. CASE UpdateOnce
    BY <1>15 DEF UpdateOnce, Generate, Table
  <1>16. CASE OnceBackupWritten
    BY <1>16 DEF OnceBackupWritten
  <1>17. CASE OnceBackupFails
    BY <1>17 DEF OnceBackupFails
  <1>18. CASE OnceMainWritten
    BY <1>18 DEF OnceMainWritten
  <1>19. CASE OnceMainFailsAlone
    BY <1>19 DEF OnceMainFailsAlone, RebuildFrom
  <1>20. CASE Updated
    BY <1>20 DEF Updated, AfterOp
  <1>21. CASE RescueMain
    BY <1>21 DEF RescueMain, BackupBecomesMain
  <1>22. CASE RescueTmpWritten
    BY <1>22 DEF RescueTmpWritten
  <1>23. CASE RescueTmpFails
    BY <1>23 DEF RescueTmpFails, BackupBecomesMain
  <1>24. CASE RescueMainWritten
    BY <1>24 DEF RescueMainWritten
  <1>25. CASE RescueMainFails
    BY <1>25 DEF RescueMainFails
  <1>26. CASE LoadOne
    <2>1. PICK a \in Blocks : Loads(a, a) /\ backup' = 0 /\ mba' = a + 1 /\ prot' = FALSE
                                  /\ Write(MgmtStart, a, "front", MgmtStart)
      BY <1>26, LoadOneFinds
    <2> QED
      BY <2>1 DEF Loads, Table
  <1>27. CASE LoadTwo
    <2>1. PICK a \in Blocks, b \in Blocks :
            /\ Loads(a, a) \/ Loads(b, a)
            /\ Loadable(b, sig', {}) /\ b < sig' - 1
            /\ a < b /\ backup' = b /\ mba' = b + 1 /\ b < BlockCount - 1
            /\ \/ prot' \in BOOLEAN /\ GoTo("idle")
               \/ Loads(b, a) /\ prot' = FALSE /\ Write(a, b, "singleMain", a)
               \/ prot' = FALSE /\ Write(b, top', "singleBackup", b)
      BY <1>27, LoadTwoFinds
    <2>2. PICK c \in Blocks : Loads(c, a)
      BY <2>1
    <2>3. cache'.map = map' /\ cache'.bad = bad'
      BY <2>2 DEF Loads, Table
    <2>4. pc' # "program"
      BY <2>1
    <2> QED
      BY <2>3, <2>4
  <1>28. CASE SingleMainWritten
    BY <1>28 DEF SingleMainWritten, LoadReturns
  <1>29. CASE SingleMainFails
    BY <1>29 DEF SingleMainFails, BackupBecomesMain
  <1>30. CASE SingleBackupWritten
    BY <1>30 DEF SingleBackupWritten, LoadReturns
  <1>31. CASE SingleBackupFails
    BY <1>31 DEF SingleBackupFails, LoadReturns
  <1>32. CASE FrontWritten
    BY <1>32 DEF FrontWritten
  <1>33. CASE FrontCleaned
    BY <1>33 DEF FrontCleaned, LoadReturns
  <1>34. CASE FrontFails
    BY <1>34 DEF FrontFails, LoadReturns
  <1>35. CASE NextWritten
    BY <1>35 DEF NextWritten
  <1>36. CASE NextCleaned
    BY <1>36 DEF NextCleaned, LoadReturns
  <1>37. CASE NextFails
    BY <1>37 DEF NextFails, LoadReturns
  <1>38. CASE CreateNew
    BY <1>38 DEF CreateNew, ScanChip
  <1>39. CASE CreateAgain
    BY <1>39 DEF CreateAgain, ScanChip
  <1>40. CASE SignSkip
    BY <1>40 DEF SignSkip
  <1>41. CASE SignWrite
    BY <1>41 DEF SignWrite
  <1>42. CASE SignFails
    BY <1>42 DEF SignFails, Fault
  <1>43. CASE CreateInfoTable
    BY <1>43 DEF CreateInfoTable, RebuildFrom, Generate, Table
  <1>44. CASE MapTail
    BY <1>44 DEF MapTail, MapTo, Unmapped
  <1>45. CASE TailOver
    BY <1>45 DEF TailOver
  <1>46. CASE MoveBlock
    BY <1>46 DEF MoveBlock
  <1>47. CASE MoveFails
    BY <1>47 DEF MoveFails, Fault
  <1>48. CASE MarkOld
    BY <1>48 DEF MarkOld
  <1>49. CASE WriteBlock
    BY <1>49 DEF WriteBlock
  <1>50. CASE WriteBlockFails
    <2>1. PICK lb \in LogicBlocks, copy \in BOOLEAN, mk \in BOOLEAN : Remap(lb, copy, mk)
      BY <1>50 DEF WriteBlockFails, Loses
    <2> QED
      BY <2>1 DEF Remap, AfterOp
  <1>51. CASE ReadBlockWeak
    <2>1. PICK lb \in LogicBlocks, copy \in BOOLEAN, mk \in BOOLEAN : Remap(lb, copy, mk)
      BY <1>51 DEF ReadBlockWeak
    <2> QED
      BY <2>1 DEF Remap, AfterOp
  <1>52. CASE MarkBad
    <2>1. PICK lb \in LogicBlocks, copy \in BOOLEAN, mk \in BOOLEAN : Remap(lb, copy, mk)
      BY <1>52 DEF MarkBad
    <2> QED
      BY <2>1 DEF Remap, AfterOp
  <1>53. CASE IsBad
    <2>1. PICK lb \in LogicBlocks, copy \in BOOLEAN, mk \in BOOLEAN : Remap(lb, copy, mk)
      BY <1>53 DEF IsBad
    <2> QED
      BY <2>1 DEF Remap, AfterOp
  <1>54. CASE PowerLoss
    BY <1>54 DEF PowerLoss, NoJob, NoOp, NoMapping, Table
  <1>55. CASE WritePageFails
    <2>1. PICK lb \in LogicBlocks, copy \in BOOLEAN, mk \in BOOLEAN : Remap(lb, copy, mk)
      BY <1>55 DEF WritePageFails
    <2> QED
      BY <2>1 DEF Remap, AfterOp
  <1>56. CASE ReadBlockFails
    <2>1. PICK lb \in LogicBlocks, copy \in BOOLEAN, mk \in BOOLEAN : Remap(lb, copy, mk)
      BY <1>56 DEF ReadBlockFails, Loses
    <2> QED
      BY <2>1 DEF Remap, AfterOp
  <1> QED
    BY <1>1, <1>2, <1>3, <1>4, <1>5, <1>6, <1>7, <1>8, <1>9, <1>10, <1>11, <1>12,
       <1>13, <1>14, <1>15, <1>16, <1>17, <1>18, <1>19, <1>20, <1>21, <1>22, <1>23, <1>24,
       <1>25, <1>26, <1>27, <1>28, <1>29, <1>30, <1>31, <1>32, <1>33, <1>34, <1>35, <1>36,
       <1>37, <1>38, <1>39, <1>40, <1>41, <1>42, <1>43, <1>44, <1>45, <1>46, <1>47, <1>48,
       <1>49, <1>50, <1>51, <1>52, <1>53, <1>54, <1>55, <1>56
       DEF Next, Driver, WriteRange, ErasingRange, Rebuild, Update, Rescue, Load,
           RescueSingle, Create, RemapRest, Users

\* Once spare blocks were handed out of order, that stays so.
LEMMA OrderKept ==
  ASSUME TypeOK, PlacesOK, Next, ~disorder'
  PROVE  ~disorder
  <1> USE DEF ghost
  <1>1. CASE WriteSkip
    BY <1>1 DEF WriteSkip
  <1>2. CASE WriteErase
    BY <1>2 DEF WriteErase
  <1>3. CASE WriteProgram
    BY <1>3 DEF WriteProgram
  <1>4. CASE WriteFails
    BY <1>4 DEF WriteFails, Fault
  <1>5. CASE WriteNoRoom
    BY <1>5 DEF WriteNoRoom
  <1>6. CASE RangeSkip
    BY <1>6 DEF RangeSkip
  <1>7. CASE RangeErase
    BY <1>7 DEF RangeErase
  <1>8. CASE RangeFails
    BY <1>8 DEF RangeFails, Fault
  <1>9. CASE RebuildMainWritten
    BY <1>9 DEF RebuildMainWritten, RebuildReturns
  <1>10. CASE RebuildMainFails
    BY <1>10 DEF RebuildMainFails
  <1>11. CASE RebuildBackupWritten
    BY <1>11 DEF RebuildBackupWritten
  <1>12. CASE RebuildBackupFails
    BY <1>12 DEF RebuildBackupFails, RebuildReturns
  <1>13. CASE Rebuilt
    BY <1>13 DEF Rebuilt, RebuildReturns
  <1>14. CASE UpdateOver
    BY <1>14 DEF UpdateOver
  <1>15. CASE UpdateOnce
    BY <1>15 DEF UpdateOnce, Generate, Table
  <1>16. CASE OnceBackupWritten
    BY <1>16 DEF OnceBackupWritten
  <1>17. CASE OnceBackupFails
    BY <1>17 DEF OnceBackupFails
  <1>18. CASE OnceMainWritten
    BY <1>18 DEF OnceMainWritten
  <1>19. CASE OnceMainFailsAlone
    BY <1>19 DEF OnceMainFailsAlone, RebuildFrom
  <1>20. CASE Updated
    BY <1>20 DEF Updated, AfterOp
  <1>21. CASE RescueMain
    BY <1>21 DEF RescueMain, BackupBecomesMain
  <1>22. CASE RescueTmpWritten
    BY <1>22 DEF RescueTmpWritten
  <1>23. CASE RescueTmpFails
    BY <1>23 DEF RescueTmpFails, BackupBecomesMain
  <1>24. CASE RescueMainWritten
    BY <1>24 DEF RescueMainWritten
  <1>25. CASE RescueMainFails
    BY <1>25 DEF RescueMainFails
  <1>26. CASE LoadOne
    BY <1>26, LoadOneFinds DEF Loads
  <1>27. CASE LoadTwo
    BY <1>27, LoadTwoFinds DEF Loads
  <1>28. CASE SingleMainWritten
    BY <1>28 DEF SingleMainWritten, LoadReturns
  <1>29. CASE SingleMainFails
    BY <1>29 DEF SingleMainFails, BackupBecomesMain
  <1>30. CASE SingleBackupWritten
    BY <1>30 DEF SingleBackupWritten, LoadReturns
  <1>31. CASE SingleBackupFails
    BY <1>31 DEF SingleBackupFails, LoadReturns
  <1>32. CASE FrontWritten
    BY <1>32 DEF FrontWritten
  <1>33. CASE FrontCleaned
    BY <1>33 DEF FrontCleaned, LoadReturns
  <1>34. CASE FrontFails
    BY <1>34 DEF FrontFails, LoadReturns
  <1>35. CASE NextWritten
    BY <1>35 DEF NextWritten
  <1>36. CASE NextCleaned
    BY <1>36 DEF NextCleaned, LoadReturns
  <1>37. CASE NextFails
    BY <1>37 DEF NextFails, LoadReturns
  <1>38. CASE CreateNew
    BY <1>38 DEF CreateNew, ScanChip
  <1>39. CASE CreateAgain
    BY <1>39 DEF CreateAgain, ScanChip
  <1>40. CASE SignSkip
    BY <1>40 DEF SignSkip
  <1>41. CASE SignWrite
    BY <1>41 DEF SignWrite
  <1>42. CASE SignFails
    BY <1>42 DEF SignFails, Fault
  <1>43. CASE CreateInfoTable
    BY <1>43 DEF CreateInfoTable, RebuildFrom, Generate, Table
  <1>44. CASE MapTail
    BY <1>44 DEF MapTail, MapTo, Unmapped
  <1>45. CASE TailOver
    BY <1>45 DEF TailOver
  <1>46. CASE MoveBlock
    BY <1>46 DEF MoveBlock
  <1>47. CASE MoveFails
    BY <1>47 DEF MoveFails, Fault
  <1>48. CASE MarkOld
    BY <1>48 DEF MarkOld
  <1>49. CASE WriteBlock
    BY <1>49 DEF WriteBlock
  <1>50. CASE WriteBlockFails
    BY <1>50, RemapDoes DEF WriteBlockFails, Loses
  <1>51. CASE ReadBlockWeak
    BY <1>51, RemapDoes DEF ReadBlockWeak
  <1>52. CASE MarkBad
    BY <1>52, RemapDoes DEF MarkBad
  <1>53. CASE IsBad
    BY <1>53, RemapDoes DEF IsBad
  <1>54. CASE PowerLoss
    BY <1>54 DEF PowerLoss, NoJob, NoOp, NoMapping, Table
  <1>55. CASE WritePageFails
    BY <1>55, RemapDoes DEF WritePageFails
  <1>56. CASE ReadBlockFails
    BY <1>56, RemapDoes DEF ReadBlockFails, Loses
  <1> QED
    BY <1>1, <1>2, <1>3, <1>4, <1>5, <1>6, <1>7, <1>8, <1>9, <1>10, <1>11, <1>12,
       <1>13, <1>14, <1>15, <1>16, <1>17, <1>18, <1>19, <1>20, <1>21, <1>22, <1>23, <1>24,
       <1>25, <1>26, <1>27, <1>28, <1>29, <1>30, <1>31, <1>32, <1>33, <1>34, <1>35, <1>36,
       <1>37, <1>38, <1>39, <1>40, <1>41, <1>42, <1>43, <1>44, <1>45, <1>46, <1>47, <1>48,
       <1>49, <1>50, <1>51, <1>52, <1>53, <1>54, <1>55, <1>56
       DEF Next, Driver, WriteRange, ErasingRange, Rebuild, Update, Rescue, Load,
           RescueSingle, Create, RemapRest, Users

\* Nothing but the writes of nmbm_write_signature and bad block marks on the
\* signature itself could break SigOK.
LEMMA SigKept ==
  ASSUME SigOK, pc' = "sign" => pc = "sign", pc' \in Attached => flash'[sig'] = Signature,
         \A b \in Blocks : flash'[b] = Signature =>
                             flash[b] = Signature /\ (b \in marked' => b \in marked)
  PROVE  SigOK'
  BY DEF SigOK, Attached, JobPcs, StepPcs

LEMMA SigBlock ==
  ASSUME SigOK, TypeOK, NEW x, NEW v, v # Signature, flash' = [flash EXCEPT ![x] = v],
         marked' \subseteq marked \cup {x}, pc \in Attached, x # sig,
         pc' # "sign", pc' \in Attached => sig' = sig
  PROVE  SigOK'
  <1>1. sig \in Blocks /\ DOMAIN flash = Blocks
    BY DEF TypeOK, PlaceType, TableType
  <1>2. flash'[sig] = Signature
    BY <1>1 DEF SigOK
  <1>3. \A b \in Blocks : flash'[b] = Signature => b # x /\ flash[b] = Signature
    BY <1>1
  <1> QED
    BY <1>2, <1>3, SigKept

LEMMA SigSame ==
  ASSUME SigOK, UNCHANGED <<flash, marked, sig>>, pc \in Attached, pc' \in Attached \cup {"failed"}
  PROVE  SigOK'
  BY DEF SigOK, Attached, JobPcs, StepPcs

\* No step writes, erases or marks the block of the signature.
LEMMA SigStep ==
  ASSUME TypeOK, JobOK, ControlOK, SigOK, BoundsOK, Next
  PROVE  SigOK'
  <1> USE NmbmConstants
  <1>1. CASE WriteSkip
    <2>1. pc \in Attached /\ pc' \in Attached \cup {"failed"} /\ UNCHANGED <<flash, marked, sig>>
      BY <1>1 DEF WriteSkip, phys, loc, GoTo, Write, EraseRange, Written, NoRoom, RangeOver, Attached, JobPcs, StepPcs
    <2> QED
      BY <2>1, SigSame
  <1>2. CASE WriteErase
    <2>1. job.ba < sig
      BY <1>2 DEF WriteErase, BoundsOK, JobPcs, TypeOK, ControlType, PlaceType, JobOK, Blocks
    <2>2. pc \in JobPcs /\ flash' = [flash EXCEPT ![job.ba] = Erased] /\ sig' = sig /\ pc' \in JobPcs
      BY <1>2 DEF WriteErase, JobPcs, GoTo, loc
    <2>3. marked' \subseteq marked \cup {job.ba}
      BY <1>2 DEF WriteErase
    <2>4. Erased # Signature /\ pc \in Attached /\ job.ba # sig /\ pc' # "sign"
      BY <2>1, <2>2 DEF Attached, JobPcs, Erased, Torn, Signature, TypeOK, TableType, ControlType, PlaceType, Blocks
    <2> QED
      BY <2>2, <2>3, <2>4, SigBlock
  <1>3. CASE WriteProgram
    <2>1. job.ba < sig
      BY <1>3 DEF WriteProgram, BoundsOK, JobPcs, TypeOK, ControlType, PlaceType, JobOK, Blocks
    <2>2. pc \in JobPcs /\ flash' = [flash EXCEPT ![job.ba] = cache] /\ sig' = sig /\ pc' \in JobPcs
      BY <1>3 DEF WriteProgram, JobPcs, GoTo, loc
    <2>3. marked' \subseteq marked \cup {job.ba}
      BY <1>3 DEF WriteProgram
    <2>4. cache # Signature /\ pc \in Attached /\ job.ba # sig /\ pc' # "sign"
      BY <2>1, <2>2 DEF Attached, JobPcs, Erased, Torn, Signature, TypeOK, TableType, ControlType, PlaceType, Blocks
    <2> QED
      BY <2>2, <2>3, <2>4, SigBlock
  <1>4. CASE WriteFails
    <2>1. job.ba < sig
      BY <1>4 DEF WriteFails, BoundsOK, JobPcs, TypeOK, ControlType, PlaceType, JobOK, Blocks
    <2>2. pc \in JobPcs /\ flash' = [flash EXCEPT ![job.ba] = Torn] /\ sig' = sig /\ pc' \in JobPcs
      BY <1>4 DEF WriteFails, JobPcs, GoTo, loc
    <2>3. marked' \subseteq marked \cup {job.ba}
      BY <1>4 DEF WriteFails
    <2>4. Torn # Signature /\ pc \in Attached /\ job.ba # sig /\ pc' # "sign"
      BY <2>1, <2>2 DEF Attached, JobPcs, Erased, Torn, Signature, TypeOK, TableType, ControlType, PlaceType, Blocks
    <2> QED
      BY <2>2, <2>3, <2>4, SigBlock
  <1>5. CASE WriteNoRoom
    <2>1. pc \in Attached /\ pc' \in Attached \cup {"failed"} /\ UNCHANGED <<flash, marked, sig>>
      BY <1>5 DEF WriteNoRoom, phys, loc, GoTo, Write, EraseRange, Written, NoRoom, RangeOver, Attached, JobPcs, StepPcs
    <2> QED
      BY <2>1, SigSame
  <1>6. CASE RangeSkip
    <2>1. pc \in Attached /\ pc' \in Attached \cup {"failed"} /\ UNCHANGED <<flash, marked, sig>>
      BY <1>6 DEF RangeSkip, phys, loc, GoTo, Write, EraseRange, Written, NoRoom, RangeOver, Attached, JobPcs, StepPcs
    <2> QED
      BY <2>1, SigSame
  <1>7. CASE RangeErase
    <2>1. job.ba < sig
      BY <1>7 DEF RangeErase, BoundsOK, JobPcs, TypeOK, ControlType, PlaceType, JobOK, Blocks
    <2>2. pc \in JobPcs /\ flash' = [flash EXCEPT ![job.ba] = Erased] /\ sig' = sig /\ pc' \in JobPcs
      BY <1>7 DEF RangeErase, JobPcs, GoTo, loc
    <2>3. marked' \subseteq marked \cup {job.ba}
      BY <1>7 DEF RangeErase
    <2>4. Erased # Signature /\ pc \in Attached /\ job.ba # sig /\ pc' # "sign"
      BY <2>1, <2>2 DEF Attached, JobPcs, Erased, Torn, Signature, TypeOK, TableType, ControlType, PlaceType, Blocks
    <2> QED
      BY <2>2, <2>3, <2>4, SigBlock
  <1>8. CASE RangeFails
    <2>1. job.ba < sig
      BY <1>8 DEF RangeFails, BoundsOK, JobPcs, TypeOK, ControlType, PlaceType, JobOK, Blocks
    <2>2. pc \in JobPcs /\ flash' = [flash EXCEPT ![job.ba] = Torn] /\ sig' = sig /\ pc' \in JobPcs
      BY <1>8 DEF RangeFails, JobPcs, GoTo, loc
    <2>3. marked' \subseteq marked \cup {job.ba}
      BY <1>8 DEF RangeFails
    <2>4. Torn # Signature /\ pc \in Attached /\ job.ba # sig /\ pc' # "sign"
      BY <2>1, <2>2 DEF Attached, JobPcs, Erased, Torn, Signature, TypeOK, TableType, ControlType, PlaceType, Blocks
    <2> QED
      BY <2>2, <2>3, <2>4, SigBlock
  <1>9. CASE RebuildMainWritten
    <2>1. pc \in Attached /\ pc' \in Attached \cup {"failed"} /\ UNCHANGED <<flash, marked, sig>>
      BY <1>9 DEF RebuildMainWritten, RebuildReturns, phys, loc, GoTo, Write, EraseRange, Written, NoRoom, RangeOver, Attached, JobPcs, StepPcs
    <2> QED
      BY <2>1, SigSame
  <1>10. CASE RebuildMainFails
    <2>1. pc \in Attached /\ pc' \in Attached \cup {"failed"} /\ UNCHANGED <<flash, marked, sig>>
      BY <1>10 DEF RebuildMainFails, phys, loc, GoTo, Write, EraseRange, Written, NoRoom, RangeOver, Attached, JobPcs, StepPcs
    <2> QED
      BY <2>1, SigSame
  <1>11. CASE RebuildBackupWritten
    <2>1. pc \in Attached /\ pc' \in Attached \cup {"failed"} /\ UNCHANGED <<flash, marked, sig>>
      BY <1>11 DEF RebuildBackupWritten, phys, loc, GoTo, Write, EraseRange, Written, NoRoom, RangeOver, Attached, JobPcs, StepPcs
    <2> QED
      BY <2>1, SigSame
  <1>12. CASE RebuildBackupFails
    <2>1. pc \in Attached /\ pc' \in Attached \cup {"failed"} /\ UNCHANGED <<flash, marked, sig>>
      BY <1>12 DEF RebuildBackupFails, RebuildReturns, phys, loc, GoTo, Write, EraseRange, Written, NoRoom, RangeOver, Attached, JobPcs, StepPcs
    <2> QED
      BY <2>1, SigSame
  <1>13. CASE Rebuilt
    <2>1. pc \in Attached /\ pc' \in Attached \cup {"failed"} /\ UNCHANGED <<flash, marked, sig>>
      BY <1>13 DEF Rebuilt, RebuildReturns, phys, loc, GoTo, Write, EraseRange, Written, NoRoom, RangeOver, Attached, JobPcs, StepPcs
    <2> QED
      BY <2>1, SigSame
  <1>14. CASE UpdateOver
    <2>1. pc \in Attached /\ pc' \in Attached \cup {"failed"} /\ UNCHANGED <<flash, marked, sig>>
      BY <1>14 DEF UpdateOver, phys, loc, GoTo, Write, EraseRange, Written, NoRoom, RangeOver, Attached, JobPcs, StepPcs
    <2> QED
      BY <2>1, SigSame
  <1>15. CASE UpdateOnce
    <2>1. pc \in Attached /\ pc' \in Attached \cup {"failed"} /\ UNCHANGED <<flash, marked, sig>>
      BY <1>15 DEF UpdateOnce, Generate, Table, phys, loc, GoTo, Write, EraseRange, Written, NoRoom, RangeOver, Attached, JobPcs, StepPcs
    <2> QED
      BY <2>1, SigSame
  <1>16. CASE OnceBackupWritten
    <2>1. pc \in Attached /\ pc' \in Attached \cup {"failed"} /\ UNCHANGED <<flash, marked, sig>>
      BY <1>16 DEF OnceBackupWritten, phys, loc, GoTo, Write, EraseRange, Written, NoRoom, RangeOver, Attached, JobPcs, StepPcs
    <2> QED
      BY <2>1, SigSame
  <1>17. CASE OnceBackupFails
    <2>1. pc \in Attached /\ pc' \in Attached \cup {"failed"} /\ UNCHANGED <<flash, marked, sig>>
      BY <1>17 DEF OnceBackupFails, phys, loc, GoTo, Write, EraseRange, Written, NoRoom, RangeOver, Attached, JobPcs, StepPcs
    <2> QED
      BY <2>1, SigSame
  <1>18. CASE OnceMainWritten
    <2>1. pc \in Attached /\ pc' \in Attached \cup {"failed"} /\ UNCHANGED <<flash, marked, sig>>
      BY <1>18 DEF OnceMainWritten, phys, loc, GoTo, Write, EraseRange, Written, NoRoom, RangeOver, Attached, JobPcs, StepPcs
    <2> QED
      BY <2>1, SigSame
  <1>19. CASE OnceMainFailsAlone
    <2>1. pc \in Attached /\ pc' \in Attached \cup {"failed"} /\ UNCHANGED <<flash, marked, sig>>
      BY <1>19 DEF OnceMainFailsAlone, RebuildFrom, phys, loc, GoTo, Write, EraseRange, Written, NoRoom, RangeOver, Attached, JobPcs, StepPcs
    <2> QED
      BY <2>1, SigSame
  <1>20. CASE Updated
    <2>1. pc \in Attached /\ pc' \in Attached \cup {"failed"} /\ UNCHANGED <<flash, marked, sig>>
      BY <1>20 DEF Updated, AfterOp, phys, loc, GoTo, Write, EraseRange, Written, NoRoom, RangeOver, Attached, JobPcs, StepPcs
    <2> QED
      BY <2>1, SigSame
  <1>21. CASE RescueMain
    <2>1. pc \in Attached /\ pc' \in Attached \cup {"failed"} /\ UNCHANGED <<flash, marked, sig>>
      BY <1>21 DEF RescueMain, BackupBecomesMain, phys, loc, GoTo, Write, EraseRange, Written, NoRoom, RangeOver, Attached, JobPcs, StepPcs
    <2> QED
      BY <2>1, SigSame
  <1>22. CASE RescueTmpWritten
    <2>1. pc \in Attached /\ pc' \in Attached \cup {"failed"} /\ UNCHANGED <<flash, marked, sig>>
      BY <1>22 DEF RescueTmpWritten, phys, loc, GoTo, Write, EraseRange, Written, NoRoom, RangeOver, Attached, JobPcs, StepPcs
    <2> QED
      BY <2>1, SigSame
  <1>23. CASE RescueTmpFails
    <2>1. pc \in Attached /\ pc' \in Attached \cup {"failed"} /\ UNCHANGED <<flash, marked, sig>>
      BY <1>23 DEF RescueTmpFails, BackupBecomesMain, phys, loc, GoTo, Write, EraseRange, Written, NoRoom, RangeOver, Attached, JobPcs, StepPcs
    <2> QED
      BY <2>1, SigSame
  <1>24. CASE RescueMainWritten
    <2>1. pc \in Attached /\ pc' \in Attached \cup {"failed"} /\ UNCHANGED <<flash, marked, sig>>
      BY <1>24 DEF RescueMainWritten, phys, loc, GoTo, Write, EraseRange, Written, NoRoom, RangeOver, Attached, JobPcs, StepPcs
    <2> QED
      BY <2>1, SigSame
  <1>25. CASE RescueMainFails
    <2>1. pc \in Attached /\ pc' \in Attached \cup {"failed"} /\ UNCHANGED <<flash, marked, sig>>
      BY <1>25 DEF RescueMainFails, phys, loc, GoTo, Write, EraseRange, Written, NoRoom, RangeOver, Attached, JobPcs, StepPcs
    <2> QED
      BY <2>1, SigSame
  <1>26. CASE LoadOne
    <2>1. PICK a \in Blocks : Loads(a, a) /\ backup' = 0 /\ mba' = a + 1 /\ prot' = FALSE
                                  /\ Write(MgmtStart, a, "front", MgmtStart)
      BY <1>26, LoadOneFinds
    <2>2. SignatureAt(sig') /\ UNCHANGED <<flash, marked>> /\ pc' = "write"
      BY <2>1 DEF Loads, Write
    <2> QED
      BY <2>2, SigKept DEF SignatureAt
  <1>27. CASE LoadTwo
    <2>1. PICK a \in Blocks, b \in Blocks :
            /\ Loads(a, a) \/ Loads(b, a)
            /\ Loadable(b, sig', {}) /\ b < sig' - 1
            /\ a < b /\ backup' = b /\ mba' = b + 1 /\ b < BlockCount - 1
            /\ \/ prot' \in BOOLEAN /\ GoTo("idle")
               \/ Loads(b, a) /\ prot' = FALSE /\ Write(a, b, "singleMain", a)
               \/ prot' = FALSE /\ Write(b, top', "singleBackup", b)
      BY <1>27, LoadTwoFinds
    <2>2. PICK c \in Blocks : Loads(c, a)
      BY <2>1
    <2>3. SignatureAt(sig') /\ UNCHANGED <<flash, marked>> /\ pc' # "sign"
      BY <2>1, <2>2 DEF Loads, Write, GoTo
    <2> QED
      BY <2>3, SigKept DEF SignatureAt
  <1>28. CASE SingleMainWritten
    <2>1. pc \in Attached /\ pc' \in Attached \cup {"failed"} /\ UNCHANGED <<flash, marked, sig>>
      BY <1>28 DEF SingleMainWritten, LoadReturns, phys, loc, GoTo, Write, EraseRange, Written, NoRoom, RangeOver, Attached, JobPcs, StepPcs
    <2> QED
      BY <2>1, SigSame
  <1>29. CASE SingleMainFails
    <2>1. pc \in Attached /\ pc' \in Attached \cup {"failed"} /\ UNCHANGED <<flash, marked, sig>>
      BY <1>29 DEF SingleMainFails, BackupBecomesMain, phys, loc, GoTo, Write, EraseRange, Written, NoRoom, RangeOver, Attached, JobPcs, StepPcs
    <2> QED
      BY <2>1, SigSame
  <1>30. CASE SingleBackupWritten
    <2>1. pc \in Attached /\ pc' \in Attached \cup {"failed"} /\ UNCHANGED <<flash, marked, sig>>
      BY <1>30 DEF SingleBackupWritten, LoadReturns, phys, loc, GoTo, Write, EraseRange, Written, NoRoom, RangeOver, Attached, JobPcs, StepPcs
    <2> QED
      BY <2>1, SigSame
  <1>31. CASE SingleBackupFails
    <2>1. pc \in Attached /\ pc' \in Attached \cup {"failed"} /\ UNCHANGED <<flash, marked, sig>>
      BY <1>31 DEF SingleBackupFails, LoadReturns, phys, loc, GoTo, Write, EraseRange, Written, NoRoom, RangeOver, Attached, JobPcs, StepPcs
    <2> QED
      BY <2>1, SigSame
  <1>32. CASE FrontWritten
    <2>1. pc \in Attached /\ pc' \in Attached \cup {"failed"} /\ UNCHANGED <<flash, marked, sig>>
      BY <1>32 DEF FrontWritten, phys, loc, GoTo, Write, EraseRange, Written, NoRoom, RangeOver, Attached, JobPcs, StepPcs
    <2> QED
      BY <2>1, SigSame
  <1>33. CASE FrontCleaned
    <2>1. pc \in Attached /\ pc' \in Attached \cup {"failed"} /\ UNCHANGED <<flash, marked, sig>>
      BY <1>33 DEF FrontCleaned, LoadReturns, phys, loc, GoTo, Write, EraseRange, Written, NoRoom, RangeOver, Attached, JobPcs, StepPcs
    <2> QED
      BY <2>1, SigSame
  <1>34. CASE FrontFails
    <2>1. pc \in Attached /\ pc' \in Attached \cup {"failed"} /\ UNCHANGED <<flash, marked, sig>>
      BY <1>34 DEF FrontFails, LoadReturns, phys, loc, GoTo, Write, EraseRange, Written, NoRoom, RangeOver, Attached, JobPcs, StepPcs
    <2> QED
      BY <2>1, SigSame
  <1>35. CASE NextWritten
    <2>1. pc \in Attached /\ pc' \in Attached \cup {"failed"} /\ UNCHANGED <<flash, marked, sig>>
      BY <1>35 DEF NextWritten, phys, loc, GoTo, Write, EraseRange, Written, NoRoom, RangeOver, Attached, JobPcs, StepPcs
    <2> QED
      BY <2>1, SigSame
  <1>36. CASE NextCleaned
    <2>1. pc \in Attached /\ pc' \in Attached \cup {"failed"} /\ UNCHANGED <<flash, marked, sig>>
      BY <1>36 DEF NextCleaned, LoadReturns, phys, loc, GoTo, Write, EraseRange, Written, NoRoom, RangeOver, Attached, JobPcs, StepPcs
    <2> QED
      BY <2>1, SigSame
  <1>37. CASE NextFails
    <2>1. pc \in Attached /\ pc' \in Attached \cup {"failed"} /\ UNCHANGED <<flash, marked, sig>>
      BY <1>37 DEF NextFails, LoadReturns, phys, loc, GoTo, Write, EraseRange, Written, NoRoom, RangeOver, Attached, JobPcs, StepPcs
    <2> QED
      BY <2>1, SigSame
  <1>38. CASE CreateNew
    <2>1. UNCHANGED <<flash, marked>> /\ pc' \in {"sign", "failed"}
      BY <1>38 DEF CreateNew, ScanChip, phys
    <2>2. \A b \in Blocks : flash[b] # Signature
      BY <1>38 DEF CreateNew, SignatureAt, SigOK, Blocks
    <2> QED
      BY <2>1, <2>2 DEF SigOK, Attached, JobPcs, StepPcs
  <1>39. CASE CreateAgain
    <2>1. UNCHANGED <<flash, marked>> /\ SignatureAt(sig') /\ pc' # "sign"
      BY <1>39 DEF CreateAgain, ScanChip, phys, GoTo
    <2> QED
      BY <2>1, SigKept DEF SignatureAt
  <1>40. CASE SignSkip
    BY <1>40, SigKept DEF SignSkip, phys, GoTo, Attached, JobPcs, StepPcs
  <1>41. CASE SignWrite
    <2>1. \A b \in Blocks : flash[b] # Signature
      BY <1>41 DEF SignWrite, SigOK
    <2>2. job.ba \in Blocks /\ job.limit = MgmtStart /\ job.ba > MgmtStart
      BY <1>41 DEF SignWrite, JobOK
    <2>3. \A b \in Blocks : flash'[b] = Signature <=> b = job.ba
      BY <1>41, <2>1, <2>2 DEF SignWrite, TypeOK, TableType
    <2>4. job.ba \notin marked /\ marked' = marked /\ sig' = job.ba /\ pc' = "create"
      BY <1>41 DEF SignWrite, GoTo, ControlOK
    <2> QED
      BY <2>2, <2>3, <2>4 DEF SigOK
  <1>42. CASE SignFails
    <2>1. \A b \in Blocks : flash[b] # Signature
      BY <1>42 DEF SignFails, SigOK
    <2>2. \A b \in Blocks : flash'[b] # Signature
      BY <1>42, <2>1 DEF SignFails, TypeOK, TableType, Torn, Signature
    <2> QED
      BY <1>42, <2>2 DEF SignFails, SigOK, Attached, JobPcs, StepPcs
  <1>43. CASE CreateInfoTable
    <2>1. pc \in Attached /\ pc' \in Attached \cup {"failed"} /\ UNCHANGED <<flash, marked, sig>>
      BY <1>43 DEF CreateInfoTable, RebuildFrom, Generate, Table, phys, loc, GoTo, Write, EraseRange, Written, NoRoom, RangeOver, Attached, JobPcs, StepPcs
    <2> QED
      BY <2>1, SigSame
  <1>44. CASE MapTail
    <2>1. pc \in Attached /\ pc' \in Attached \cup {"failed"} /\ UNCHANGED <<flash, marked, sig>>
      BY <1>44 DEF MapTail, MapTo, Unmapped, phys, loc, GoTo, Write, EraseRange, Written, NoRoom, RangeOver, Attached, JobPcs, StepPcs
    <2> QED
      BY <2>1, SigSame
  <1>45. CASE TailOver
    <2>1. pc \in Attached /\ pc' \in Attached \cup {"failed"} /\ UNCHANGED <<flash, marked, sig>>
      BY <1>45 DEF TailOver, phys, loc, GoTo, Write, EraseRange, Written, NoRoom, RangeOver, Attached, JobPcs, StepPcs
    <2> QED
      BY <2>1, SigSame
  <1>46. CASE MoveBlock
    <2>1. pc \in Attached /\ pc' \in Attached /\ pc' # "sign" /\ UNCHANGED <<marked, sig>>
      BY <1>46 DEF MoveBlock, loc, Attached, StepPcs, JobPcs, GoTo
    <2>2. op.lb \in LogicBlocks /\ map[op.lb] # sig
      BY <2>1 DEF BoundsOK, TypeOK, ControlType
    <2>3. (IF op.copy THEN flash[op.src] ELSE Erased) # Signature
      BY <2>1 DEF BoundsOK, SigOK, TypeOK, ControlType, PlaceType, Erased, Torn, Signature
    <2>4. flash' = [flash EXCEPT ![map[op.lb]] = (IF op.copy THEN flash[op.src] ELSE Erased)]
      BY <1>46 DEF MoveBlock
    <2> QED
      BY <2>1, <2>2, <2>3, <2>4, SigBlock
  <1>47. CASE MoveFails
    <2>1. pc \in Attached /\ pc' \in Attached /\ pc' # "sign" /\ UNCHANGED <<marked, sig>>
      BY <1>47 DEF MoveFails, loc, Attached, StepPcs, JobPcs, GoTo
    <2>2. op.lb \in LogicBlocks /\ map[op.lb] # sig
      BY <2>1 DEF BoundsOK, TypeOK, ControlType
    <2>3. Torn # Signature
      BY <2>1 DEF BoundsOK, SigOK, TypeOK, ControlType, PlaceType, Erased, Torn, Signature
    <2>4. flash' = [flash EXCEPT ![map[op.lb]] = Torn]
      BY <1>47 DEF MoveFails
    <2> QED
      BY <2>1, <2>2, <2>3, <2>4, SigBlock
  <1>48. CASE MarkOld
    <2>1. pc = "mark" /\ pc' = "idle" /\ UNCHANGED <<flash, sig>> /\ marked' = marked \cup {op.src}
      BY <1>48 DEF MarkOld, loc, GoTo
    <2>2. flash[sig] = Signature /\ op.src # sig /\ sig \in Blocks
      BY <2>1 DEF SigOK, BoundsOK, Attached, StepPcs, TypeOK, PlaceType
    <2>3. \A b \in Blocks : flash[b] = Signature => b = sig
      BY <2>2 DEF SigOK
    <2> QED
      BY <2>1, <2>2, <2>3, SigKept
  <1>49. CASE WriteBlock
    <2>1. PICK lb \in LogicBlocks : flash' = [flash EXCEPT ![map[lb]] = Data(lb)] /\ UNCHANGED <<marked, sig>>
      BY <1>49 DEF WriteBlock, loc
    <2>2. pc = "idle" /\ pc' \in {"move", "update", "mark", "idle"}
      BY <1>49 DEF WriteBlock, loc, AfterOp, GoTo
    <2>3. pc \in Attached /\ map[lb] # sig /\ pc' # "sign"
      BY <2>2 DEF BoundsOK, Attached, StepPcs
    <2>4. Data(lb) # Signature
      BY DEF Data, Torn, Signature
    <2> QED
      BY <2>1, <2>3, <2>4, SigBlock
  <1>50. CASE WriteBlockFails
    <2>1. PICK lb \in LogicBlocks : flash' = [flash EXCEPT ![map[lb]] = Torn] /\ UNCHANGED <<marked, sig>>
      BY <1>50 DEF WriteBlockFails, Loses, Remap
    <2>2. pc = "idle" /\ pc' \in {"move", "update", "mark", "idle"}
      BY <1>50 DEF WriteBlockFails, Loses, Remap, AfterOp, GoTo
    <2>3. pc \in Attached /\ map[lb] # sig /\ pc' # "sign"
      BY <2>2 DEF BoundsOK, Attached, StepPcs
    <2>4. Torn # Signature
      BY DEF Data, Torn, Signature
    <2> QED
      BY <2>1, <2>3, <2>4, SigBlock
  <1>51. CASE ReadBlockWeak
    <2>1. pc = "idle" /\ pc' \in {"move", "update", "mark", "idle"} /\ UNCHANGED <<flash, marked, sig>>
      BY <1>51 DEF ReadBlockWeak, Remap, AfterOp, GoTo, phys
    <2> QED
      BY <2>1, SigSame DEF Attached, StepPcs
  <1>52. CASE MarkBad
    <2>1. pc = "idle" /\ pc' \in {"move", "update", "mark", "idle"} /\ UNCHANGED <<flash, marked, sig>>
      BY <1>52 DEF MarkBad, Remap, AfterOp, GoTo, phys
    <2> QED
      BY <2>1, SigSame DEF Attached, StepPcs
  <1>53. CASE IsBad
    <2>1. pc = "idle" /\ pc' \in {"move", "update", "mark", "idle"} /\ UNCHANGED <<flash, marked, sig>>
      BY <1>53 DEF IsBad, Remap, AfterOp, GoTo, phys
    <2> QED
      BY <2>1, SigSame DEF Attached, StepPcs
  <1>54. CASE PowerLoss
    <2>1. UNCHANGED flash \/ \E x : flash' = [flash EXCEPT ![x] = Torn]
      BY <1>54 DEF PowerLoss
    <2>2. \A b \in Blocks : flash'[b] = Signature => flash[b] = Signature
      BY <2>1 DEF TypeOK, TableType, Torn, Signature
    <2>3. pc' = "off" /\ marked' = marked
      BY <1>54 DEF PowerLoss
    <2> QED
      BY <2>2, <2>3, SigKept DEF Attached, JobPcs, StepPcs
  <1>55. CASE WritePageFails
    <2>1. pc = "idle" /\ pc' \in {"move", "update", "mark", "idle"} /\ UNCHANGED <<flash, marked, sig>>
      BY <1>55 DEF WritePageFails, Remap, AfterOp, GoTo, phys
    <2> QED
      BY <2>1, SigSame DEF Attached, StepPcs
  <1>56. CASE ReadBlockFails
    <2>1. PICK lb \in LogicBlocks : flash' = [flash EXCEPT ![map[lb]] = Torn] /\ UNCHANGED <<marked, sig>>
      BY <1>56 DEF ReadBlockFails, Loses, Remap
    <2>2. pc = "idle" /\ pc' \in {"move", "update", "mark", "idle"}
      BY <1>56 DEF ReadBlockFails, Loses, Remap, AfterOp, GoTo
    <2>3. pc \in Attached /\ map[lb] # sig /\ pc' # "sign"
      BY <2>2 DEF BoundsOK, Attached, StepPcs
    <2>4. Torn # Signature
      BY DEF Data, Torn, Signature
    <2> QED
      BY <2>1, <2>3, <2>4, SigBlock
  <1> QED
    BY <1>1, <1>2, <1>3, <1>4, <1>5, <1>6, <1>7, <1>8, <1>9, <1>10, <1>11, <1>12,
       <1>13, <1>14, <1>15, <1>16, <1>17, <1>18, <1>19, <1>20, <1>21, <1>22, <1>23, <1>24,
       <1>25, <1>26, <1>27, <1>28, <1>29, <1>30, <1>31, <1>32, <1>33, <1>34, <1>35, <1>36,
       <1>37, <1>38, <1>39, <1>40, <1>41, <1>42, <1>43, <1>44, <1>45, <1>46, <1>47, <1>48,
       <1>49, <1>50, <1>51, <1>52, <1>53, <1>54, <1>55, <1>56
       DEF Next, Driver, WriteRange, ErasingRange, Rebuild, Update, Rescue, Load,
           RescueSingle, Create, RemapRest, Users

\* The block with one good block above it up to start lies below start.
LEMMA WalkDescBelow ==
  ASSUME NEW b, NEW start \in Int, NEW limit \in Int, WalkDesc(b, 1, start, limit)
  PROVE  b < start
  <1> DEFINE good == GoodIn(limit + 1, start)
  <1>1. b \in good /\ Cardinality({g \in good : g > b}) = 1
    BY DEF WalkDesc
  <1>2. {g \in good : g > b} # {}
    BY <1>1, FS_EmptySet
  <1>3. PICK g \in good : g > b
    BY <1>2
  <1>4. g <= start /\ g \in Int /\ b \in Int
    BY <1>1, <1>3, NmbmConstants DEF GoodIn, Blocks
  <1> QED
    BY <1>3, <1>4

\* A remap marks the block in memory that it moves away from.
LEMMA RemapSource ==
  ASSUME NEW lb, NEW copy, NEW mk, Remap(lb, copy, mk)
  PROVE  op'.src = map[lb]
  BY DEF Remap

LEMMA RemapBounds ==
  ASSUME TypeOK, PlacesOK, MapOK, BoundsOK, NEW lb \in LogicBlocks, NEW copy \in BOOLEAN,
         NEW mk \in BOOLEAN, Remap(lb, copy, mk), ~disorder
  PROVE  BoundsOK'
  <1> USE NmbmConstants DEF TypeOK, MemoryType, PlaceType
  <1>1. /\ pc = "idle" /\ pc' \in {"move", "update", "mark", "idle"}
        /\ UNCHANGED <<main, backup, mba, sig>>
    BY RemapDoes
  <1>2. top' = top \/ (mba < top /\ top' = top - 1)
    BY RemapTop
  <1>3. op'.src = map[lb] /\ (map[lb] < MgmtStart \/ map[lb] > top) /\ map[lb] # sig /\ map[lb] \in Int
    BY <1>1, RemapSource DEF MapOK, BoundsOK, Attached, StepPcs, Mappings
  <1>4. top < sig
    BY <1>1 DEF BoundsOK, StepPcs
  <1>5. \A x \in LogicBlocks : map'[x] # sig
    <2>1. \A x \in LogicBlocks : map[x] # sig
      BY <1>1 DEF BoundsOK, Attached, StepPcs
    <2>2. ASSUME NEW p \in Blocks, p <= top, map' = [map EXCEPT ![lb] = p] PROVE \A x \in LogicBlocks : map'[x] # sig
      BY <1>4, <2>1, <2>2 DEF Mappings, Blocks
    <2> QED
      BY <2>1, <2>2, RemapDoes
  <1>6. /\ main < mba /\ main <= top /\ main \in Int /\ mba \in Int /\ top \in Int
        /\ sig \in Int /\ (backup # 0 => main < backup /\ backup < mba)
    BY <1>1 DEF BoundsOK, StepPcs, Blocks
  <1>7. top' < sig /\ main <= top' /\ (map[lb] < MgmtStart \/ map[lb] > top')
    BY SMTT(30), <1>2, <1>3, <1>4, <1>6
  <1> QED
    BY <1>1, <1>3, <1>5, <1>6, <1>7 DEF BoundsOK, Attached, JobPcs, StepPcs

\* The tables, the spare area and the signature keep their order.
LEMMA BoundsStep ==
  ASSUME TypeOK, JobOK, PlacesOK, MapOK, SigOK, BoundsOK, PlanOK, SigOK',
         ~disorder, ~disorder', Next
  PROVE  BoundsOK'
  <1> USE NmbmConstants DEF phys, mem, loc, ctl, ghost, bounds, GoTo, Write, EraseRange, Written,
             NoRoom, RangeOver, Job, Advance, TypeOK, MemoryType, PlaceType, ControlType, JobOK, PlacesOK,
             JobPcs, StepPcs, Attached, Blocks, LogicBlocks, BoundsOK, PlanOK, AboveMain
  <1>1. CASE WriteSkip
    BY <1>1 DEF WriteSkip
  <1>2. CASE WriteErase
    BY <1>2 DEF WriteErase
  <1>3. CASE WriteProgram
    BY <1>3 DEF WriteProgram
  <1>4. CASE WriteFails
    BY <1>4 DEF WriteFails, Fault
  <1>5. CASE WriteNoRoom
    BY <1>5 DEF WriteNoRoom
  <1>6. CASE RangeSkip
    BY <1>6 DEF RangeSkip
  <1>7. CASE RangeErase
    BY <1>7 DEF RangeErase
  <1>8. CASE RangeFails
    BY <1>8 DEF RangeFails, Fault
  <1>9. CASE RebuildMainWritten
    BY <1>9, ReserveRange DEF RebuildMainWritten, RebuildReturns
  <1>10. CASE RebuildMainFails
    BY <1>10 DEF RebuildMainFails
  <1>11. CASE RebuildBackupWritten
    BY <1>11 DEF RebuildBackupWritten
  <1>12. CASE RebuildBackupFails
    BY <1>12 DEF RebuildBackupFails, RebuildReturns
  <1>13. CASE Rebuilt
    BY <1>13 DEF Rebuilt, RebuildReturns
  <1>14. CASE UpdateOver
    BY <1>14 DEF UpdateOver
  <1>15. CASE UpdateOnce
    BY <1>15 DEF UpdateOnce, Generate, Table
  <1>16. CASE OnceBackupWritten
    BY <1>16 DEF OnceBackupWritten
  <1>17. CASE OnceBackupFails
    BY <1>17 DEF OnceBackupFails
  <1>18. CASE OnceMainWritten
    BY <1>18 DEF OnceMainWritten
  <1>19. CASE OnceMainFailsAlone
    BY <1>19 DEF OnceMainFailsAlone, RebuildFrom
  <1>20. CASE Updated
    <2>1. /\ pc = "updated" /\ pc' \in {"update", "idle", "mark"}
          /\ UNCHANGED <<map, main, backup, mba, sig, op>>
      BY <1>20 DEF Updated, AfterOp
    <2>2. top' \in {top, mba} /\ ~(top' > top)
      BY <1>20 DEF Updated
    <2>3. top' <= top /\ main <= top'
      BY <2>1, <2>2
    <2> QED
      BY <2>1, <2>2, <2>3
  <1>21. CASE RescueMain
    BY <1>21, ReserveRange DEF RescueMain, BackupBecomesMain
  <1>22. CASE RescueTmpWritten
    BY <1>22 DEF RescueTmpWritten
  <1>23. CASE RescueTmpFails
    BY <1>23 DEF RescueTmpFails, BackupBecomesMain
  <1>24. CASE RescueMainWritten
    BY <1>24 DEF RescueMainWritten
  <1>25. CASE RescueMainFails
    BY <1>25 DEF RescueMainFails
  <1>26. CASE LoadOne
    <2>1. PICK a \in Blocks : Loads(a, a) /\ backup' = 0 /\ mba' = a + 1 /\ prot' = FALSE
                                  /\ Write(MgmtStart, a, "front", MgmtStart)
      BY <1>26, LoadOneFinds
    <2>2. /\ top' < sig' /\ top' >= a /\ main' = a /\ op' = op /\ top' \in Blocks /\ sig' \in Blocks
          /\ \A lb \in LogicBlocks : map'[lb] # sig'
      BY <2>1 DEF Loads
    <2>3. op.src = 0 /\ sig' > MgmtStart /\ pc' = "write"
      BY <1>26, <2>1, <2>2 DEF LoadOne, BoundsOK, SigOK, Attached, JobPcs, Write
    <2> QED
      BY <2>1, <2>2, <2>3
  <1>27. CASE LoadTwo
    <2>1. PICK a \in Blocks, b \in Blocks :
            /\ Loads(a, a) \/ Loads(b, a)
            /\ Loadable(b, sig', {}) /\ b < sig' - 1
            /\ a < b /\ backup' = b /\ mba' = b + 1 /\ b < BlockCount - 1
            /\ \/ prot' \in BOOLEAN /\ GoTo("idle")
               \/ Loads(b, a) /\ prot' = FALSE /\ Write(a, b, "singleMain", a)
               \/ prot' = FALSE /\ Write(b, top', "singleBackup", b)
      BY <1>27, LoadTwoFinds
    <2>2. PICK c \in {a, b} : Loads(c, a)
      BY <2>1
    <2>3. /\ top' < sig' /\ top' >= c /\ main' = a /\ op' = op /\ top' \in Blocks /\ sig' \in Blocks
          /\ \A lb \in LogicBlocks : map'[lb] # sig'
      BY <2>2 DEF Loads
    <2>4. pc' \in JobPcs \cup StepPcs
      BY <2>1 DEF JobPcs, StepPcs, GoTo, Write
    <2>5. op.src = 0 /\ sig' > MgmtStart
      BY <1>27, <2>3, <2>4 DEF LoadTwo, BoundsOK, SigOK, Attached, JobPcs, StepPcs
    <2>6. pc' \in JobPcs => job'.limit <= top'
      <3>1. Loads(b, a) => top' >= b
        BY DEF Loads
      <3> QED
        BY <2>1, <2>3, <3>1
    <2>7. top' >= a
      BY <2>1, <2>3
    <2>8. pc' \notin {"off", "sign", "create", "failed"}
      BY <2>4
    <2> QED
      BY <2>1, <2>3, <2>5, <2>6, <2>7, <2>8
  <1>28. CASE SingleMainWritten
    BY <1>28 DEF SingleMainWritten, LoadReturns
  <1>29. CASE SingleMainFails
    BY <1>29 DEF SingleMainFails, BackupBecomesMain
  <1>30. CASE SingleBackupWritten
    BY <1>30 DEF SingleBackupWritten, LoadReturns
  <1>31. CASE SingleBackupFails
    BY <1>31 DEF SingleBackupFails, LoadReturns
  <1>32. CASE FrontWritten
    BY <1>32 DEF FrontWritten
  <1>33. CASE FrontCleaned
    BY <1>33 DEF FrontCleaned, LoadReturns
  <1>34. CASE FrontFails
    BY <1>34, ReserveRange DEF FrontFails, LoadReturns
  <1>35. CASE NextWritten
    BY <1>35 DEF NextWritten
  <1>36. CASE NextCleaned
    BY <1>36 DEF NextCleaned, LoadReturns
  <1>37. CASE NextFails
    BY <1>37 DEF NextFails, LoadReturns
  <1>38. CASE CreateNew
    <2>1. op' = op /\ backup' = 0 /\ pc' \in {"sign", "failed"} /\ pc = "off"
      BY <1>38 DEF CreateNew, ScanChip, ctl
    <2> QED
      BY <2>1
  <1>39. CASE CreateAgain
    <2>1. op' = op /\ backup' = 0 /\ pc' \in {"create", "failed"} /\ pc = "off"
      BY <1>39 DEF CreateAgain, ScanChip, ctl, GoTo
    <2>2. \A lb \in LogicBlocks : map'[lb] < MgmtStart
      BY <1>39, ScanChipMaps DEF CreateAgain
    <2>3. sig' \in Blocks /\ (pc' = "create" => sig' > MgmtStart)
      BY <1>39 DEF CreateAgain, SigOK, Attached, Blocks
    <2> QED
      BY <2>1, <2>2, <2>3
  <1>40. CASE SignSkip
    BY <1>40 DEF SignSkip
  <1>41. CASE SignWrite
    <2>1. pc = "sign" /\ pc' = "create" /\ sig' = job.ba /\ job.ba > MgmtStart /\ UNCHANGED <<map, backup, op>>
      BY <1>41 DEF SignWrite
    <2>2. \A lb \in LogicBlocks : map[lb] < MgmtStart /\ map[lb] \in Int
      BY <2>1 DEF MapOK, Mappings
    <2> QED
      BY <2>1, <2>2
  <1>42. CASE SignFails
    BY <1>42 DEF SignFails, Fault
  <1>43. CASE CreateInfoTable
    <2>1. CASE \E t \in Blocks : WalkDesc(t, 1, sig, MgmtStart) /\ top' = t /\ RebuildFrom(t)
      <3>1. PICK t \in Blocks : WalkDesc(t, 1, sig, MgmtStart) /\ top' = t /\ RebuildFrom(t)
        BY <2>1
      <3>2. MgmtStart + 1 <= t /\ t < sig
        BY <3>1, WalkDescRange, WalkDescBelow
      <3>3. pc = "create" /\ UNCHANGED <<map, sig, op>>
        BY <1>43 DEF CreateInfoTable
      <3> QED
        BY <3>1, <3>2, <3>3 DEF RebuildFrom
    <2>2. CASE GoTo("failed") /\ UNCHANGED <<main, backup, mba, top>>
      BY <1>43, <2>2 DEF CreateInfoTable
    <2> QED
      BY <1>43, <2>1, <2>2 DEF CreateInfoTable
  <1>44. CASE MapTail
    <2>1. PICK p \in Blocks : /\ mba < p /\ p <= top /\ map' = [map EXCEPT ![dbc] = p]
                               /\ top' = top - 1
      <3>1. dbc \in LogicBlocks
        BY <1>44 DEF MapTail
      <3> QED
        BY <1>44, <3>1, MapToTakes DEF MapTail
    <2>2. pc = "tail" /\ UNCHANGED <<main, backup, mba, sig, pc, job, op>>
      BY <1>44 DEF MapTail
    <2>3. \A lb \in LogicBlocks : map'[lb] # sig
      BY SMTT(30), <2>1, <2>2 DEF Mappings
    <2> QED
      BY <2>1, <2>2, <2>3
  <1>45. CASE TailOver
    BY <1>45 DEF TailOver
  <1>46. CASE MoveBlock
    BY <1>46 DEF MoveBlock
  <1>47. CASE MoveFails
    BY <1>47 DEF MoveFails, Fault
  <1>48. CASE MarkOld
    BY <1>48 DEF MarkOld
  <1>49. CASE WriteBlock
    BY <1>49 DEF WriteBlock
  <1>50. CASE WriteBlockFails
    <2>1. PICK lb \in LogicBlocks, copy \in BOOLEAN, mk \in BOOLEAN : Remap(lb, copy, mk)
      BY <1>50 DEF WriteBlockFails, Loses
    <2> QED
      BY <2>1, RemapBounds
  <1>51. CASE ReadBlockWeak
    <2>1. PICK lb \in LogicBlocks, copy \in BOOLEAN, mk \in BOOLEAN : Remap(lb, copy, mk)
      BY <1>51 DEF ReadBlockWeak
    <2> QED
      BY <2>1, RemapBounds
  <1>52. CASE MarkBad
    <2>1. PICK lb \in LogicBlocks, copy \in BOOLEAN, mk \in BOOLEAN : Remap(lb, copy, mk)
      BY <1>52 DEF MarkBad
    <2> QED
      BY <2>1, RemapBounds
  <1>53. CASE IsBad
    <2>1. PICK lb \in LogicBlocks, copy \in BOOLEAN, mk \in BOOLEAN : Remap(lb, copy, mk)
      BY <1>53 DEF IsBad
    <2> QED
      BY <2>1, RemapBounds
  <1>54. CASE PowerLoss
    BY <1>54 DEF PowerLoss, NoJob, NoOp, NoMapping, Table
  <1>55. CASE WritePageFails
    <2>1. PICK lb \in LogicBlocks, copy \in BOOLEAN, mk \in BOOLEAN : Remap(lb, copy, mk)
      BY <1>55 DEF WritePageFails
    <2> QED
      BY <2>1, RemapBounds
  <1>56. CASE ReadBlockFails
    <2>1. PICK lb \in LogicBlocks, copy \in BOOLEAN, mk \in BOOLEAN : Remap(lb, copy, mk)
      BY <1>56 DEF ReadBlockFails, Loses
    <2> QED
      BY <2>1, RemapBounds
  <1> QED
    BY <1>1, <1>2, <1>3, <1>4, <1>5, <1>6, <1>7, <1>8, <1>9, <1>10, <1>11, <1>12,
       <1>13, <1>14, <1>15, <1>16, <1>17, <1>18, <1>19, <1>20, <1>21, <1>22, <1>23, <1>24,
       <1>25, <1>26, <1>27, <1>28, <1>29, <1>30, <1>31, <1>32, <1>33, <1>34, <1>35, <1>36,
       <1>37, <1>38, <1>39, <1>40, <1>41, <1>42, <1>43, <1>44, <1>45, <1>46, <1>47, <1>48,
       <1>49, <1>50, <1>51, <1>52, <1>53, <1>54, <1>55, <1>56
       DEF Next, Driver, WriteRange, ErasingRange, Rebuild, Update, Rescue, Load,
           RescueSingle, Create, RemapRest, Users

\* Each job starts on its side of the tables it must leave alone.
LEMMA PlanStep ==
  ASSUME TypeOK, JobOK, PlacesOK, BoundsOK, PlanOK, Next
  PROVE  PlanOK'
  <1> USE NmbmConstants DEF phys, mem, loc, ctl, ghost, bounds, GoTo, Write, EraseRange, Written,
             NoRoom, RangeOver, Job, Advance, TypeOK, PlaceType, ControlType, JobOK, PlacesOK,
             JobPcs, StepPcs, Blocks, LogicBlocks, BoundsOK, PlanOK, AboveMain
  <1>1. CASE WriteSkip
    BY <1>1 DEF WriteSkip
  <1>2. CASE WriteErase
    BY <1>2 DEF WriteErase
  <1>3. CASE WriteProgram
    BY <1>3 DEF WriteProgram
  <1>4. CASE WriteFails
    BY <1>4 DEF WriteFails, Fault
  <1>5. CASE WriteNoRoom
    BY <1>5 DEF WriteNoRoom
  <1>6. CASE RangeSkip
    BY <1>6 DEF RangeSkip
  <1>7. CASE RangeErase
    BY <1>7 DEF RangeErase
  <1>8. CASE RangeFails
    BY <1>8 DEF RangeFails, Fault
  <1>9. CASE RebuildMainWritten
    BY <1>9, ReserveRange DEF RebuildMainWritten, RebuildReturns
  <1>10. CASE RebuildMainFails
    BY <1>10 DEF RebuildMainFails
  <1>11. CASE RebuildBackupWritten
    BY <1>11 DEF RebuildBackupWritten
  <1>12. CASE RebuildBackupFails
    BY <1>12 DEF RebuildBackupFails, RebuildReturns
  <1>13. CASE Rebuilt
    BY <1>13 DEF Rebuilt, RebuildReturns
  <1>14. CASE UpdateOver
    BY <1>14 DEF UpdateOver
  <1>15. CASE UpdateOnce
    BY <1>15 DEF UpdateOnce, Generate, Table
  <1>16. CASE OnceBackupWritten
    BY <1>16 DEF OnceBackupWritten
  <1>17. CASE OnceBackupFails
    BY <1>17 DEF OnceBackupFails
  <1>18. CASE OnceMainWritten
    BY <1>18 DEF OnceMainWritten
  <1>19. CASE OnceMainFailsAlone
    BY <1>19 DEF OnceMainFailsAlone, RebuildFrom
  <1>20. CASE Updated
    BY <1>20 DEF Updated, AfterOp
  <1>21. CASE RescueMain
    BY <1>21, ReserveRange DEF RescueMain, BackupBecomesMain
  <1>22. CASE RescueTmpWritten
    BY <1>22 DEF RescueTmpWritten
  <1>23. CASE RescueTmpFails
    BY <1>23 DEF RescueTmpFails, BackupBecomesMain
  <1>24. CASE RescueMainWritten
    BY <1>24 DEF RescueMainWritten
  <1>25. CASE RescueMainFails
    BY <1>25 DEF RescueMainFails
  <1>26. CASE LoadOne
    <2>1. PICK a \in Blocks : Loads(a, a) /\ backup' = 0 /\ mba' = a + 1 /\ prot' = FALSE
                                  /\ Write(MgmtStart, a, "front", MgmtStart)
      BY <1>26, LoadOneFinds
    <2> QED
      BY <2>1
  <1>27. CASE LoadTwo
    <2>1. PICK a \in Blocks, b \in Blocks :
            /\ Loads(a, a) \/ Loads(b, a)
            /\ Loadable(b, sig', {}) /\ b < sig' - 1
            /\ a < b /\ backup' = b /\ mba' = b + 1 /\ b < BlockCount - 1
            /\ \/ prot' \in BOOLEAN /\ GoTo("idle")
               \/ Loads(b, a) /\ prot' = FALSE /\ Write(a, b, "singleMain", a)
               \/ prot' = FALSE /\ Write(b, top', "singleBackup", b)
      BY <1>27, LoadTwoFinds
    <2>2. main' = a
      BY <2>1 DEF Loads
    <2> QED
      BY <2>1, <2>2
  <1>28. CASE SingleMainWritten
    BY <1>28 DEF SingleMainWritten, LoadReturns
  <1>29. CASE SingleMainFails
    BY <1>29 DEF SingleMainFails, BackupBecomesMain
  <1>30. CASE SingleBackupWritten
    BY <1>30 DEF SingleBackupWritten, LoadReturns
  <1>31. CASE SingleBackupFails
    BY <1>31 DEF SingleBackupFails, LoadReturns
  <1>32. CASE FrontWritten
    BY <1>32 DEF FrontWritten
  <1>33. CASE FrontCleaned
    BY <1>33 DEF FrontCleaned, LoadReturns
  <1>34. CASE FrontFails
    BY <1>34, ReserveRange DEF FrontFails, LoadReturns
  <1>35. CASE NextWritten
    BY <1>35 DEF NextWritten
  <1>36. CASE NextCleaned
    BY <1>36 DEF NextCleaned, LoadReturns
  <1>37. CASE NextFails
    BY <1>37 DEF NextFails, LoadReturns
  <1>38. CASE CreateNew
    BY <1>38 DEF CreateNew, ScanChip
  <1>39. CASE CreateAgain
    BY <1>39 DEF CreateAgain, ScanChip
  <1>40. CASE SignSkip
    BY <1>40 DEF SignSkip
  <1>41. CASE SignWrite
    BY <1>41 DEF SignWrite
  <1>42. CASE SignFails
    BY <1>42 DEF SignFails, Fault
  <1>43. CASE CreateInfoTable
    BY <1>43 DEF CreateInfoTable, RebuildFrom, Generate, Table
  <1>44. CASE MapTail
    BY <1>44 DEF MapTail, MapTo, Unmapped
  <1>45. CASE TailOver
    BY <1>45 DEF TailOver
  <1>46. CASE MoveBlock
    BY <1>46 DEF MoveBlock
  <1>47. CASE MoveFails
    BY <1>47 DEF MoveFails, Fault
  <1>48. CASE MarkOld
    BY <1>48 DEF MarkOld
  <1>49. CASE WriteBlock
    BY <1>49 DEF WriteBlock
  <1>50. CASE WriteBlockFails
    <2>1. PICK lb \in LogicBlocks, copy \in BOOLEAN, mk \in BOOLEAN : Remap(lb, copy, mk)
      BY <1>50 DEF WriteBlockFails, Loses
    <2> QED
      BY <2>1, RemapDoes
  <1>51. CASE ReadBlockWeak
    <2>1. PICK lb \in LogicBlocks, copy \in BOOLEAN, mk \in BOOLEAN : Remap(lb, copy, mk)
      BY <1>51 DEF ReadBlockWeak
    <2> QED
      BY <2>1, RemapDoes
  <1>52. CASE MarkBad
    <2>1. PICK lb \in LogicBlocks, copy \in BOOLEAN, mk \in BOOLEAN : Remap(lb, copy, mk)
      BY <1>52 DEF MarkBad
    <2> QED
      BY <2>1, RemapDoes
  <1>53. CASE IsBad
    <2>1. PICK lb \in LogicBlocks, copy \in BOOLEAN, mk \in BOOLEAN : Remap(lb, copy, mk)
      BY <1>53 DEF IsBad
    <2> QED
      BY <2>1, RemapDoes
  <1>54. CASE PowerLoss
    BY <1>54 DEF PowerLoss, NoJob, NoOp, NoMapping, Table
  <1>55. CASE WritePageFails
    <2>1. PICK lb \in LogicBlocks, copy \in BOOLEAN, mk \in BOOLEAN : Remap(lb, copy, mk)
      BY <1>55 DEF WritePageFails
    <2> QED
      BY <2>1, RemapDoes
  <1>56. CASE ReadBlockFails
    <2>1. PICK lb \in LogicBlocks, copy \in BOOLEAN, mk \in BOOLEAN : Remap(lb, copy, mk)
      BY <1>56 DEF ReadBlockFails, Loses
    <2> QED
      BY <2>1, RemapDoes
  <1> QED
    BY <1>1, <1>2, <1>3, <1>4, <1>5, <1>6, <1>7, <1>8, <1>9, <1>10, <1>11, <1>12,
       <1>13, <1>14, <1>15, <1>16, <1>17, <1>18, <1>19, <1>20, <1>21, <1>22, <1>23, <1>24,
       <1>25, <1>26, <1>27, <1>28, <1>29, <1>30, <1>31, <1>32, <1>33, <1>34, <1>35, <1>36,
       <1>37, <1>38, <1>39, <1>40, <1>41, <1>42, <1>43, <1>44, <1>45, <1>46, <1>47, <1>48,
       <1>49, <1>50, <1>51, <1>52, <1>53, <1>54, <1>55, <1>56
       DEF Next, Driver, WriteRange, ErasingRange, Rebuild, Update, Rescue, Load,
           RescueSingle, Create, RemapRest, Users

\* Whatever happens to block y, the sound tables elsewhere stay sound.
LEMMA SoundFrame ==
  ASSUME NEW y, sig' = sig,
         \A x \in Blocks : x # y => flash'[x] = flash[x] /\ (x \in marked' => x \in marked)
  PROVE  SoundTables \ {y} \subseteq SoundTables'
  BY DEF SoundTables, Loadable

LEMMA SoundSame ==
  ASSUME UNCHANGED <<flash, marked, sig>>
  PROVE  SoundTables' = SoundTables
  BY DEF SoundTables, Loadable

\* nmbm_write_mgmt_range leaves a table that nmbm_check_info_table accepts.
LEMMA SoundWritten ==
  ASSUME TypeOK, JobOK, JobClear, BoundsOK, CacheOK, ~disorder, WriteProgram
  PROVE  job.ba \in SoundTables'
  <1> USE NmbmConstants
  <1>1. /\ pc = "program" /\ flash' = [flash EXCEPT ![job.ba] = cache]
        /\ marked' = marked /\ sig' = sig
    BY DEF WriteProgram, loc
  <1>2. /\ job.ba < job.limit /\ job.ba >= MgmtStart /\ job.limit <= top /\ top < sig
        /\ \A lb \in LogicBlocks : map[lb] < MgmtStart \/ map[lb] >= job.limit
        /\ \A lb \in LogicBlocks : map[lb] # sig
    BY <1>1 DEF JobOK, JobClear, BoundsOK, JobPcs, Attached
  <1>3. /\ job.ba \in Int /\ job.limit \in Int /\ top \in Int /\ sig \in Blocks
        /\ \A lb \in LogicBlocks : map[lb] \in Int
    BY DEF TypeOK, ControlType, PlaceType, MemoryType, Mappings
  <1>4. job.ba \in Blocks /\ job.ba < sig - 1
    BY <1>2, <1>3 DEF Blocks
  <1>5. flash'[job.ba] = cache
    BY <1>1, <1>4 DEF TypeOK, TableType
  <1>6. cache.map = map /\ job.ba \notin cache.bad /\ job.ba \notin marked /\ cache.kind = "table"
    BY <1>1 DEF CacheOK, JobPcs, TypeOK, TableType
  <1>7. \A lb \in LogicBlocks : ~(map[lb] >= MgmtStart /\ map[lb] <= job.ba)
    BY <1>2, <1>3
  <1> QED
    BY <1>1, <1>2, <1>4, <1>5, <1>6, <1>7 DEF SoundTables, Loadable

\* The block the running job works on is none of the tables it must keep.
KeptTables ==
  (IF AboveMain \/ job.k = "front" THEN {main} ELSE {})
    \cup (IF backup # 0 /\ job.k \in {"onceMain", "tmp", "singleMain"} THEN {backup} ELSE {})
    \cup (IF job.k = "rescueMain" THEN {job.wba} ELSE {})

LEMMA JobAvoidsKept ==
  ASSUME TypeOK, JobOK, PlanOK, pc \in JobPcs, job.ba < job.limit
  PROVE  job.ba \notin KeptTables
  BY DEF KeptTables, TypeOK, ControlType, PlaceType, JobOK, PlanOK, AboveMain, JobPcs, Blocks

\* A step of a job that touches only its own block keeps what must be kept.
LEMMA TouchesOthers ==
  ASSUME TypeOK, JobOK, PlanOK, KeptOK, pc \in JobPcs, job.ba < job.limit,
         pc' \in JobPcs, pc' = "written" => job'.ba \in SoundTables',
         pc = "range" <=> pc' = "range", UNCHANGED <<main, backup>>,
         job'.k = job.k, job'.wba = job.wba,
         SoundTables \ {job.ba} \subseteq SoundTables'
  PROVE  KeptOK'
  <1>1. job.ba \notin KeptTables
    BY JobAvoidsKept
  <1>2. KeptTables \subseteq SoundTables
    BY DEF KeptTables, KeptOK
  <1>3. KeptTables \subseteq SoundTables'
    BY <1>1, <1>2
  <1> QED
    BY <1>3 DEF KeptTables, KeptOK, AboveMain, JobPcs, StepPcs

\* While no job runs, only data blocks and mapped spare blocks are touched.
LEMMA DataStep ==
  ASSUME TypeOK, BoundsOK, KeptOK, NEW y, y \in Int, y < MgmtStart \/ y > top,
         pc \in StepPcs, pc' \in StepPcs, UNCHANGED <<main, backup, sig>>,
         \A x \in Blocks : x # y => flash'[x] = flash[x] /\ (x \in marked' => x \in marked)
  PROVE  KeptOK'
  <1>1. SoundTables \ {y} \subseteq SoundTables'
    BY SoundFrame
  <1>2. main # 0 => main \in SoundTables /\ main # y
    <2>1. main # 0 => main \in SoundTables /\ main >= MgmtStart /\ main <= top
      BY DEF KeptOK, SoundTables, BoundsOK
    <2> QED
      BY <2>1, NmbmConstants DEF TypeOK, PlaceType, Blocks
  <1> QED
    BY <1>1, <1>2 DEF KeptOK, JobPcs, StepPcs

\* Every step leaves the table it must keep, and a finished write a new one.
LEMMA KeptStep ==
  ASSUME TypeOK, JobOK, PlacesOK, MapOK, JobClear, BoundsOK, PlanOK, CacheOK, KeptOK,
         ~disorder, Next
  PROVE  KeptOK'
  <1> USE SoundSame DEF phys, mem, loc, ctl, ghost, bounds, GoTo, Write, EraseRange, Written,
             NoRoom, RangeOver, Job, Advance, JobPcs, StepPcs, JobOK, PlanOK, AboveMain, KeptOK
  <1>1. CASE WriteSkip
    BY <1>1 DEF WriteSkip
  <1>2. CASE WriteErase
    <2>1. /\ flash' = [flash EXCEPT ![job.ba] = Erased] /\ marked' \subseteq marked \cup {job.ba}
          /\ UNCHANGED <<sig, main, backup>> /\ job'.k = job.k /\ job'.wba = job.wba
          /\ pc \in JobPcs /\ pc' \in JobPcs \ {"written"} /\ (pc = "range" <=> pc' = "range")
          /\ job.ba < job.limit
      BY <1>2 DEF WriteErase, loc, GoTo, Advance, Job, JobPcs, JobOK
    <2>2. SoundTables \ {job.ba} \subseteq SoundTables'
      BY <2>1, SoundFrame DEF TypeOK, TableType
    <2> QED
      BY <2>1, <2>2, TouchesOthers
  <1>3. CASE WriteProgram
    <2>1. /\ flash' = [flash EXCEPT ![job.ba] = cache]
          /\ UNCHANGED <<marked, sig, main, backup, job>> /\ pc = "program" /\ pc' = "written"
          /\ job.ba < job.limit
      BY <1>3 DEF WriteProgram, loc, GoTo, JobOK
    <2>2. SoundTables \ {job.ba} \subseteq SoundTables'
      BY <2>1, SoundFrame DEF TypeOK, TableType
    <2>3. job.ba \in SoundTables'
      BY <1>3, SoundWritten
    <2> QED
      BY <2>1, <2>2, <2>3, TouchesOthers DEF JobPcs
  <1>4. CASE WriteFails
    <2>1. /\ flash' = [flash EXCEPT ![job.ba] = Torn] /\ marked' \subseteq marked \cup {job.ba}
          /\ UNCHANGED <<sig, main, backup>> /\ job'.k = job.k /\ job'.wba = job.wba
          /\ pc \in JobPcs /\ pc' \in JobPcs \ {"written"} /\ (pc = "range" <=> pc' = "range")
          /\ job.ba < job.limit
      BY <1>4 DEF WriteFails, Fault, loc, GoTo, Advance, Job, JobPcs, JobOK
    <2>2. SoundTables \ {job.ba} \subseteq SoundTables'
      BY <2>1, SoundFrame DEF TypeOK, TableType
    <2> QED
      BY <2>1, <2>2, TouchesOthers
  <1>5. CASE WriteNoRoom
    BY <1>5 DEF WriteNoRoom
  <1>6. CASE RangeSkip
    BY <1>6 DEF RangeSkip
  <1>7. CASE RangeErase
    <2>1. /\ flash' = [flash EXCEPT ![job.ba] = Erased] /\ marked' \subseteq marked \cup {job.ba}
          /\ UNCHANGED <<sig, main, backup>> /\ job'.k = job.k /\ job'.wba = job.wba
          /\ pc \in JobPcs /\ pc' \in JobPcs \ {"written"} /\ (pc = "range" <=> pc' = "range")
          /\ job.ba < job.limit
      BY <1>7 DEF RangeErase, loc, GoTo, Advance, Job, JobPcs, JobOK
    <2>2. SoundTables \ {job.ba} \subseteq SoundTables'
      BY <2>1, SoundFrame DEF TypeOK, TableType
    <2> QED
      BY <2>1, <2>2, TouchesOthers
  <1>8. CASE RangeFails
    <2>1. /\ flash' = [flash EXCEPT ![job.ba] = Torn] /\ marked' \subseteq marked \cup {job.ba}
          /\ UNCHANGED <<sig, main, backup>> /\ job'.k = job.k /\ job'.wba = job.wba
          /\ pc \in JobPcs /\ pc' \in JobPcs \ {"written"} /\ (pc = "range" <=> pc' = "range")
          /\ job.ba < job.limit
      BY <1>8 DEF RangeFails, Fault, loc, GoTo, Advance, Job, JobPcs, JobOK
    <2>2. SoundTables \ {job.ba} \subseteq SoundTables'
      BY <2>1, SoundFrame DEF TypeOK, TableType
    <2> QED
      BY <2>1, <2>2, TouchesOthers
  <1>9. CASE RebuildMainWritten
    BY <1>9 DEF RebuildMainWritten, RebuildReturns
  <1>10. CASE RebuildMainFails
    BY <1>10 DEF RebuildMainFails
  <1>11. CASE RebuildBackupWritten
    BY <1>11 DEF RebuildBackupWritten
  <1>12. CASE RebuildBackupFails
    BY <1>12 DEF RebuildBackupFails, RebuildReturns
  <1>13. CASE Rebuilt
    BY <1>13 DEF Rebuilt, RebuildReturns
  <1>14. CASE UpdateOver
    BY <1>14 DEF UpdateOver
  <1>15. CASE UpdateOnce
    <2>1. pc = "update" /\ ~prot /\ pc' = "write" /\ job'.k \in {"onceMain", "onceBackup"}
      BY <1>15 DEF UpdateOnce
    <2>2. UNCHANGED <<flash, marked, sig, main, backup>> /\ (job'.k = "onceMain" => backup = 0)
      BY <1>15 DEF UpdateOnce
    <2>3. main \in SoundTables'
      BY <2>1, <2>2 DEF PlacesOK
    <2> QED
      BY <2>1, <2>2, <2>3
  <1>16. CASE OnceBackupWritten
    BY <1>16 DEF OnceBackupWritten
  <1>17. CASE OnceBackupFails
    BY <1>17 DEF OnceBackupFails
  <1>18. CASE OnceMainWritten
    BY <1>18 DEF OnceMainWritten
  <1>19. CASE OnceMainFailsAlone
    BY <1>19 DEF OnceMainFailsAlone, RebuildFrom
  <1>20. CASE Updated
    BY <1>20 DEF Updated, AfterOp
  <1>21. CASE RescueMain
    BY <1>21 DEF RescueMain, BackupBecomesMain
  <1>22. CASE RescueTmpWritten
    BY <1>22 DEF RescueTmpWritten
  <1>23. CASE RescueTmpFails
    BY <1>23 DEF RescueTmpFails, BackupBecomesMain
  <1>24. CASE RescueMainWritten
    BY <1>24 DEF RescueMainWritten
  <1>25. CASE RescueMainFails
    BY <1>25 DEF RescueMainFails
  <1>26. CASE LoadOne
    <2>1. PICK a \in Blocks : Loads(a, a) /\ backup' = 0 /\ mba' = a + 1 /\ prot' = FALSE
                                  /\ Write(MgmtStart, a, "front", MgmtStart)
      BY <1>26, LoadOneFinds
    <2>2. a \in SoundTables' /\ main' = a
      BY <2>1 DEF Loads, SoundTables, Loadable
    <2> QED
      BY <2>1, <2>2 DEF KeptOK, Write, Job, JobPcs, StepPcs
  <1>27. CASE LoadTwo
    <2>1. PICK a \in Blocks, b \in Blocks :
            /\ Loads(a, a) \/ Loads(b, a)
            /\ Loadable(b, sig', {}) /\ b < sig' - 1
            /\ a < b /\ backup' = b /\ mba' = b + 1 /\ b < BlockCount - 1
            /\ \/ prot' \in BOOLEAN /\ GoTo("idle")
               \/ Loads(b, a) /\ prot' = FALSE /\ Write(a, b, "singleMain", a)
               \/ prot' = FALSE /\ Write(b, top', "singleBackup", b)
      BY <1>27, LoadTwoFinds
    <2>2. PICK c \in Blocks : Loads(c, a)
      BY <2>1
    <2>3. a \in SoundTables' /\ main' = a
      BY <2>2 DEF Loads, SoundTables, Loadable
    <2>4. b \in SoundTables'
      <3>1. UNCHANGED <<flash, marked>> /\ MgmtStart <= b
        BY <2>1, <2>2, NmbmConstants DEF Loads, Blocks
      <3> QED
        BY <2>1, <3>1 DEF SoundTables, Loadable
    <2> QED
      BY <2>1, <2>3, <2>4 DEF KeptOK, GoTo, Write, Job, JobPcs, StepPcs, AboveMain
  <1>28. CASE SingleMainWritten
    BY <1>28 DEF SingleMainWritten, LoadReturns
  <1>29. CASE SingleMainFails
    BY <1>29 DEF SingleMainFails, BackupBecomesMain
  <1>30. CASE SingleBackupWritten
    BY <1>30 DEF SingleBackupWritten, LoadReturns
  <1>31. CASE SingleBackupFails
    BY <1>31 DEF SingleBackupFails, LoadReturns
  <1>32. CASE FrontWritten
    BY <1>32 DEF FrontWritten
  <1>33. CASE FrontCleaned
    BY <1>33 DEF FrontCleaned, LoadReturns
  <1>34. CASE FrontFails
    BY <1>34 DEF FrontFails, LoadReturns
  <1>35. CASE NextWritten
    BY <1>35 DEF NextWritten
  <1>36. CASE NextCleaned
    BY <1>36 DEF NextCleaned, LoadReturns
  <1>37. CASE NextFails
    BY <1>37 DEF NextFails, LoadReturns
  <1>38. CASE CreateNew
    BY <1>38 DEF CreateNew, GoTo, Advance, KeptOK, JobPcs, StepPcs
  <1>39. CASE CreateAgain
    BY <1>39 DEF CreateAgain, GoTo, Advance, KeptOK, JobPcs, StepPcs
  <1>40. CASE SignSkip
    BY <1>40 DEF SignSkip, GoTo, Advance, KeptOK, JobPcs, StepPcs
  <1>41. CASE SignWrite
    BY <1>41 DEF SignWrite, GoTo, Advance, KeptOK, JobPcs, StepPcs
  <1>42. CASE SignFails
    BY <1>42 DEF SignFails, GoTo, Advance, KeptOK, JobPcs, StepPcs
  <1>43. CASE CreateInfoTable
    BY <1>43 DEF CreateInfoTable, RebuildFrom, Generate, Table
  <1>44. CASE MapTail
    BY <1>44 DEF MapTail, MapTo, Unmapped
  <1>45. CASE TailOver
    BY <1>45 DEF TailOver
  <1>46. CASE MoveBlock
    <2>1. /\ pc = "move" /\ pc' = "update" /\ UNCHANGED <<marked, main, backup, sig>>
          /\ flash' = [flash EXCEPT ![map[op.lb]] = IF op.copy THEN flash[op.src] ELSE Erased]
      BY <1>46 DEF MoveBlock, loc, GoTo
    <2>2. map[op.lb] \in Int /\ (map[op.lb] < MgmtStart \/ map[op.lb] > top)
      BY DEF MapOK, TypeOK, ControlType, MemoryType, Mappings
    <2>3. \A x \in Blocks : x # map[op.lb] => flash'[x] = flash[x]
      BY <2>1 DEF TypeOK, TableType
    <2> QED
      BY <2>1, <2>2, <2>3, DataStep DEF StepPcs
  <1>47. CASE MoveFails
    <2>1. /\ pc = "move" /\ pc' = "update" /\ UNCHANGED <<marked, main, backup, sig>>
          /\ flash' = [flash EXCEPT ![map[op.lb]] = Torn]
      BY <1>47 DEF MoveFails, loc, GoTo
    <2>2. map[op.lb] \in Int /\ (map[op.lb] < MgmtStart \/ map[op.lb] > top)
      BY DEF MapOK, TypeOK, ControlType, MemoryType, Mappings
    <2>3. \A x \in Blocks : x # map[op.lb] => flash'[x] = flash[x]
      BY <2>1 DEF TypeOK, TableType
    <2> QED
      BY <2>1, <2>2, <2>3, DataStep DEF StepPcs
  <1>48. CASE MarkOld
    <2>1. pc = "mark" /\ pc' = "idle" /\ UNCHANGED <<flash, main, backup, sig>> /\ marked' = marked \cup {op.src}
      BY <1>48 DEF MarkOld, loc, GoTo
    <2>2. op.src \in Int /\ (op.src < MgmtStart \/ op.src > top)
      BY <2>1 DEF BoundsOK, StepPcs, TypeOK, ControlType, Blocks
    <2> QED
      BY <2>1, <2>2, DataStep DEF StepPcs
  <1>49. CASE WriteBlock
    <2>1. PICK lb \in LogicBlocks : flash' = [flash EXCEPT ![map[lb]] = Data(lb)] /\ UNCHANGED <<marked, main, backup, sig>>
      BY <1>49 DEF WriteBlock, loc
    <2>2. pc = "idle" /\ pc' \in {"move", "update", "mark", "idle"}
      BY <1>49 DEF WriteBlock, loc, AfterOp, GoTo
    <2>3. map[lb] \in Int /\ (map[lb] < MgmtStart \/ map[lb] > top)
      BY DEF MapOK, TypeOK, MemoryType, Mappings
    <2>4. \A x \in Blocks : x # map[lb] => flash'[x] = flash[x]
      BY <2>1 DEF TypeOK, TableType
    <2> QED
      BY <2>1, <2>2, <2>3, <2>4, DataStep DEF StepPcs
  <1>50. CASE WriteBlockFails
    <2>1. PICK lb \in LogicBlocks : flash' = [flash EXCEPT ![map[lb]] = Torn] /\ UNCHANGED <<marked, main, backup, sig>>
      BY <1>50 DEF WriteBlockFails, Loses, Remap
    <2>2. pc = "idle" /\ pc' \in {"move", "update", "mark", "idle"}
      BY <1>50 DEF WriteBlockFails, Loses, Remap, AfterOp, GoTo
    <2>3. map[lb] \in Int /\ (map[lb] < MgmtStart \/ map[lb] > top)
      BY DEF MapOK, TypeOK, MemoryType, Mappings
    <2>4. \A x \in Blocks : x # map[lb] => flash'[x] = flash[x]
      BY <2>1 DEF TypeOK, TableType
    <2> QED
      BY <2>1, <2>2, <2>3, <2>4, DataStep DEF StepPcs
  <1>51. CASE ReadBlockWeak
    <2>1. /\ pc = "idle" /\ pc' \in {"move", "update", "mark", "idle"}
          /\ UNCHANGED <<flash, marked, sig, main, backup>>
      BY <1>51 DEF ReadBlockWeak, Remap, AfterOp, GoTo, phys
    <2> QED
      BY <2>1, SoundSame DEF KeptOK, JobPcs, StepPcs
  <1>52. CASE MarkBad
    <2>1. /\ pc = "idle" /\ pc' \in {"move", "update", "mark", "idle"}
          /\ UNCHANGED <<flash, marked, sig, main, backup>>
      BY <1>52 DEF MarkBad, Remap, AfterOp, GoTo, phys
    <2> QED
      BY <2>1, SoundSame DEF KeptOK, JobPcs, StepPcs
  <1>53. CASE IsBad
    <2>1. /\ pc = "idle" /\ pc' \in {"move", "update", "mark", "idle"}
          /\ UNCHANGED <<flash, marked, sig, main, backup>>
      BY <1>53 DEF IsBad, Remap, AfterOp, GoTo, phys
    <2> QED
      BY <2>1, SoundSame DEF KeptOK, JobPcs, StepPcs
  <1>54. CASE PowerLoss
    BY <1>54 DEF PowerLoss, KeptOK, JobPcs, StepPcs
  <1>55. CASE WritePageFails
    <2>1. /\ pc = "idle" /\ pc' \in {"move", "update", "mark", "idle"}
          /\ UNCHANGED <<flash, marked, sig, main, backup>>
      BY <1>55 DEF WritePageFails, Remap, AfterOp, GoTo, phys
    <2> QED
      BY <2>1, SoundSame DEF KeptOK, JobPcs, StepPcs
  <1>56. CASE ReadBlockFails
    <2>1. PICK lb \in LogicBlocks : flash' = [flash EXCEPT ![map[lb]] = Torn] /\ UNCHANGED <<marked, main, backup, sig>>
      BY <1>56 DEF ReadBlockFails, Loses, Remap
    <2>2. pc = "idle" /\ pc' \in {"move", "update", "mark", "idle"}
      BY <1>56 DEF ReadBlockFails, Loses, Remap, AfterOp, GoTo
    <2>3. map[lb] \in Int /\ (map[lb] < MgmtStart \/ map[lb] > top)
      BY DEF MapOK, TypeOK, MemoryType, Mappings
    <2>4. \A x \in Blocks : x # map[lb] => flash'[x] = flash[x]
      BY <2>1 DEF TypeOK, TableType
    <2> QED
      BY <2>1, <2>2, <2>3, <2>4, DataStep DEF StepPcs
  <1> QED
    BY <1>1, <1>2, <1>3, <1>4, <1>5, <1>6, <1>7, <1>8, <1>9, <1>10, <1>11, <1>12,
       <1>13, <1>14, <1>15, <1>16, <1>17, <1>18, <1>19, <1>20, <1>21, <1>22, <1>23, <1>24,
       <1>25, <1>26, <1>27, <1>28, <1>29, <1>30, <1>31, <1>32, <1>33, <1>34, <1>35, <1>36,
       <1>37, <1>38, <1>39, <1>40, <1>41, <1>42, <1>43, <1>44, <1>45, <1>46, <1>47, <1>48,
       <1>49, <1>50, <1>51, <1>52, <1>53, <1>54, <1>55, <1>56
       DEF Next, Driver, WriteRange, ErasingRange, Rebuild, Update, Rescue, Load,
           RescueSingle, Create, RemapRest, Users

-----------------------------------------------------------------------------
(* The theorems *)

LEMMA InvInit == Init => Inv
  <1> SUFFICES ASSUME Init PROVE Inv
    OBVIOUS
  <1> USE NmbmConstants DEF Init
  <1>1. NoMapping \in Mappings /\ Distinct(NoMapping) /\ \A lb \in LogicBlocks : NoMapping[lb] < MgmtStart
    BY DEF NoMapping, Mappings, Distinct
  <1>2. PICK b \in Budgets : marked = b.factoryBad
    OBVIOUS
  <1>3. MemoryType
    <2>1. marked \subseteq Blocks
      <3>1. b \in [factoryBad : SUBSET Blocks, faults : Nat, crashes : Nat]
        BY <1>2
      <3> QED
        BY <1>2, <3>1
    <2>2. /\ bad \subseteq Blocks /\ stored \subseteq LogicBlocks
          /\ map \in Mappings /\ left \in Mappings /\ dbc \in 0..MgmtStart
      BY <1>1
    <2>3. prot \in BOOLEAN /\ disorder \in BOOLEAN
      OBVIOUS
    <2> QED
      BY <2>1, <2>2, <2>3 DEF MemoryType
  <1>4. 0 \in Blocks /\ 0 \in LogicBlocks
    BY DEF Blocks, LogicBlocks
  <1>5. PlaceType
    BY <1>4 DEF PlaceType
  <1>6. TableType
    BY <1>1, Kinds DEF TableType, Table
  <1>7. ControlType
    BY <1>4 DEF ControlType, NoJob, NoOp, Job, Jobs
  <1>8. JobOK /\ PlacesOK /\ JobClear
    BY DEF JobOK, PlacesOK, JobClear, JobPcs, StepPcs
  <1>9. MapOK
    BY <1>1 DEF MapOK
  <1>10. DistinctOK
    BY <1>1, Kinds DEF DistinctOK, Table
  <1> QED
    BY <1>3, <1>5, <1>6, <1>7, <1>8, <1>9, <1>10 DEF Inv, TypeOK

LEMMA InvNext == Inv /\ [Next]_vars => Inv'
  <1> SUFFICES ASSUME Inv, [Next]_vars PROVE Inv'
    OBVIOUS
  <1>1. CASE Next
    <2>1. TypeOK'
      BY <1>1, MemoryStep, PlaceStep, TableStep, ControlStep DEF Inv, TypeOK
    <2>2. JobOK' /\ PlacesOK' /\ MapOK' /\ JobClear' /\ DistinctOK'
      BY <1>1, JobStep, PlacesStep, MapStep, ClearStep, DistinctStep DEF Inv
    <2> QED
      BY <2>1, <2>2 DEF Inv
  <1>2. CASE UNCHANGED vars
    BY <1>2 DEF vars, phys, mem, loc, ctl, ghost, bounds, Inv, TypeOK, MemoryType, PlaceType,
       TableType, ControlType, JobOK, PlacesOK, MapOK, JobClear, DistinctOK, Distinct
  <1> QED
    BY <1>1, <1>2

LEMMA Invariance == Spec => []Inv
  BY InvInit, InvNext, PTL DEF Spec

LEMMA TablesInit == Init => TablesInv
  <1> SUFFICES ASSUME Init PROVE TablesInv
    OBVIOUS
  <1> USE NmbmConstants DEF Init
  <1>1. pc = "off" /\ backup = 0 /\ op.src = 0
    BY DEF NoOp
  <1>2. \A b \in Blocks : flash[b].kind # "table" /\ flash[b] # Signature
    BY Kinds DEF Erased, Signature
  <1>3. wc = 0 /\ cache.wc = 0
    BY DEF Table
  <1>4. ControlOK
    BY <1>1, <1>2, <1>3 DEF ControlOK, JobPcs
  <1>5. SigOK /\ BoundsOK /\ PlanOK /\ CacheOK /\ KeptOK
    BY <1>1, <1>2 DEF SigOK, BoundsOK, PlanOK, CacheOK, KeptOK, Attached, JobPcs, StepPcs
  <1> QED
    BY <1>4, <1>5 DEF TablesInv

LEMMA TablesNext == Inv /\ TablesInv /\ [Next]_vars => TablesInv'
  <1> SUFFICES ASSUME Inv, TablesInv, [Next]_vars PROVE TablesInv'
    OBVIOUS
  <1>1. CASE Next
    <2>1. ControlOK' /\ CacheOK'
      BY <1>1, CountStep, CacheStep DEF Inv, TablesInv
    <2>2. ASSUME ~disorder' PROVE SigOK' /\ BoundsOK' /\ PlanOK' /\ KeptOK'
      <3>1. ~disorder /\ SigOK /\ BoundsOK /\ PlanOK /\ KeptOK /\ CacheOK
        BY <1>1, <2>2, OrderKept DEF Inv, TablesInv
      <3>2. SigOK'
        BY <1>1, <3>1, SigStep DEF Inv, TablesInv
      <3> QED
        BY <1>1, <2>2, <3>1, <3>2, BoundsStep, PlanStep, KeptStep DEF Inv
    <2> QED
      BY <2>1, <2>2 DEF TablesInv
  <1>2. CASE UNCHANGED vars
    BY <1>2, SoundSame DEF vars, phys, mem, loc, ctl, ghost, bounds, TablesInv, ControlOK, CacheOK,
       SigOK, BoundsOK, PlanOK, AboveMain, KeptOK
  <1> QED
    BY <1>1, <1>2

\* The least loadable table is the one a search from MgmtStart finds first.
LEMMA LeastTable ==
  ASSUME NEW s \in Blocks, NEW x \in Blocks, MgmtStart <= x, x < s - 1, Loadable(x, s, {})
  PROVE  \E a \in Blocks : FirstLoadable(a, MgmtStart, s, {})
  <1> DEFINE S == {y \in Blocks : MgmtStart <= y /\ y < s - 1 /\ Loadable(y, s, {})}
  <1>1. S \subseteq Nat /\ x \in S
    BY NmbmConstants DEF Blocks
  <1> HIDE DEF S
  <1>2. IsWellFoundedOn(OpToRel(<, Nat), Nat)
    BY NatLessThanWellFounded
  <1>3. PICK a \in S : \A y \in S : ~(y < a)
    <2>1. PICK a \in S : \A y \in S : ~(<<y, a>> \in OpToRel(<, Nat))
      BY <1>1, <1>2, WFMin
    <2> QED
      BY <1>1, <2>1 DEF OpToRel
  <1>4. ASSUME NEW y \in Blocks, MgmtStart <= y /\ y < a, Loadable(y, s, {}) PROVE FALSE
    <2>1. y < s - 1
      BY <1>3, <1>4, NmbmConstants DEF S, Blocks
    <2> QED
      BY <1>3, <1>4, <2>1 DEF S
  <1> QED
    BY <1>3, <1>4 DEF S, FirstLoadable

\* With a loadable table on the chip the next attach has one to load.
LEMMA LoadableIsNext ==
  ASSUME ControlOK, NEW s \in Blocks, SignatureAt(s),
         NEW x \in Blocks, MgmtStart <= x, x < s - 1, Loadable(x, s, {})
  PROVE  NextTables # {}
  <1>1. PICK a \in Blocks : FirstLoadable(a, MgmtStart, s, {})
    BY LeastTable
  <1>2. flash[a].kind = "table" /\ flash[a].wc \in Nat
    BY <1>1 DEF FirstLoadable, Loadable, ControlOK
  <1>3. CASE \A b \in Blocks : FirstLoadable(b, a + 1, s, flash[a].bad) => flash[b].wc <= flash[a].wc
    <2>1. a \in NextTables
      BY <1>1, <1>2, <1>3 DEF NextTables
    <2> QED
      BY <2>1
  <1>4. ASSUME NEW b \in Blocks, FirstLoadable(b, a + 1, s, flash[a].bad), ~(flash[b].wc <= flash[a].wc)
        PROVE  NextTables # {}
    <2>1. flash[b].kind = "table" /\ flash[b].wc \in Nat
      BY <1>4 DEF FirstLoadable, Loadable, ControlOK
    <2>2. flash[b].wc > flash[a].wc
      BY <1>2, <1>4, <2>1
    <2>3. b \in NextTables
      BY <1>1, <1>4, <2>1, <2>2 DEF NextTables
    <2> QED
      BY <2>3
  <1> QED
    BY <1>3, <1>4

LEMMA TablesInvariance == Spec => [](Inv /\ TablesInv)
  <1>1. Init => Inv /\ TablesInv
    BY InvInit, TablesInit
  <1>2. (Inv /\ TablesInv) /\ [Next]_vars => (Inv /\ TablesInv)'
    BY InvNext, TablesNext
  <1> QED
    BY <1>1, <1>2, PTL DEF Spec

\* Every table position, job and mapping of the driver stays inside the chip,
\* whatever blocks fail and whenever power is lost.
THEOREM TypeCorrect == Spec => []TypeOK
  <1>1. Inv => TypeOK
    BY DEF Inv
  <1> QED
    BY <1>1, Invariance, PTL

\* Two logic blocks never share a physical block on a chip whose spare blocks
\* were handed out downwards: nmbm_map_block, over any number of attaches.
THEOREM NoSharing == Spec => []NoSharedBlocks
  <1>1. Inv => NoSharedBlocks
    BY DEF Inv, DistinctOK, Distinct, NoSharedBlocks
  <1> QED
    BY <1>1, Invariance, PTL

\* Neither nmbm_write_mgmt_range nor nmbm_erase_range ever reaches a mapped
\* block.
THEOREM TablesAvoidData == Spec => []WritesAvoidMapped
  <1>1. Inv => WritesAvoidMapped
    <2> SUFFICES ASSUME Inv, ~disorder, pc \in {"write", "program", "range"}, NEW lb \in LogicBlocks
                 PROVE  ~(job.ba <= map[lb] /\ map[lb] < job.limit)
      BY DEF WritesAvoidMapped
    <2>1. map[lb] < MgmtStart \/ map[lb] >= job.limit
      BY DEF Inv, JobClear, JobPcs
    <2>2. job.ba >= MgmtStart
      BY DEF Inv, JobOK, JobPcs
    <2>3. map[lb] \in Int /\ job.ba \in Int /\ job.limit \in Int
      BY DEF Inv, TypeOK, MemoryType, ControlType, Mappings
    <2> QED
      BY <2>1, <2>2, <2>3, NmbmConstants
  <1> QED
    BY <1>1, Invariance, PTL

-----------------------------------------------------------------------------
(* What leads from the tables on the chip to the data.  A step that could  *)
(* hide the data is one that leaves a table with an old mapping which the   *)
(* next attach prefers; so the invariant says where tables can be, that an  *)
(* older one is superseded (write count, bad blocks, mapping), and which of *)
(* them the running job will still replace.                                 *)

Working == JobPcs \cup StepPcs

InfoTables == {b \in Blocks : flash[b].kind = "table"}

\* Every block from MgmtStart up to hi is bad in bd or marked bad.
Unusable(hi, bd) == \A x \in Blocks : MgmtStart <= x /\ x < hi => x \in bd \cup marked

\* The mapping leads to the data area or above block t.
Clear(m, t) == \A lb \in LogicBlocks : m[lb] < MgmtStart \/ m[lb] > t

\* Mapping m reaches at least as far down into the spare blocks as mapping n.
Reaches(m, n) ==
  \A lb \in LogicBlocks : n[lb] >= MgmtStart =>
    \E x \in LogicBlocks : m[x] >= MgmtStart /\ m[x] <= n[lb]

\* The mapping leads to all acknowledged data.
Good(m) == \A lb \in stored : m[lb] \in Blocks /\ flash[m[lb]] = Data(lb)

\* Seen from mapping m, no other logic block uses the block in which a copy
\* left the data of lb, and the spare blocks are used up to it.
Beyond(lb, m) ==
  /\ \A x \in LogicBlocks : x # lb => m[x] # left[lb]
  /\ left[lb] < MgmtStart \/ (MgmtStart <= m[lb] /\ m[lb] <= left[lb])

\* The tables are records of nmbm_generate_info_table_cache.
ShapeOK ==
  \A t \in InfoTables : flash[t] = Table(flash[t].wc, flash[t].bad, flash[t].map)

\* What a running job relies on besides JobOK and PlanOK.
OrderOK ==
  /\ pc \in Working => mba <= top /\ cache = Table(wc, cache.bad, cache.map)
  /\ pc \in JobPcs /\ job.k \in {"onceBackup", "singleBackup"} => job.ba >= backup /\ job.limit = top
  /\ pc \in JobPcs /\ job.k \in {"onceMain", "singleMain"} => job.ba >= main
  /\ pc \in JobPcs /\ job.k = "onceMain" /\ backup = 0 => job.limit = top
  /\ pc \in JobPcs /\ job.k = "rescueMain" => backup < job.wba
  /\ pc = "noRoom" => job.ba >= job.limit
  /\ pc = "range" => job.limit < top /\ job.k \in {"rebuilt", "front", "next"}
  /\ pc \in JobPcs /\ job.k = "rebuilt" => pc = "range"
  /\ pc \in JobPcs /\ job.k = "rebuildMain" => main = 0
  /\ pc = "written" => flash[job.ba] = cache
  /\ pc \in {"sign", "create", "tail"} => ~prot
  /\ pc \in JobPcs /\ job.k \in {"rebuildMain", "rebuildBackup", "rebuilt", "onceBackup", "onceMain"} => ~prot

\* Where a table can be while a job runs: one that the job has not reached
\* yet, one behind it, or the one it has just written.
MayHold(t) ==
  \/ t = main /\ job.k \in {"rebuildBackup", "rebuilt", "onceBackup", "singleBackup", "front", "next"}
  \/ t = main /\ job.k \in {"onceMain", "singleMain"} /\ job.ba <= main
  \/ t = backup /\ (job.k \in {"rebuilt", "onceMain", "singleMain", "tmp"} \/ (job.k = "front" /\ pc = "range"))
  \/ t = backup /\ job.k \in {"onceBackup", "singleBackup", "rescueMain"} /\ job.ba <= backup
  \/ t = job.wba /\ job.k = "rescueMain"
  \/ t = job.limit /\ job.k = "next" /\ pc = "range"
  \/ t = job.ba /\ pc = "written"

WhereOK ==
  /\ pc \in {"sign", "create"} => InfoTables = {}
  /\ pc \in StepPcs => InfoTables \subseteq {main, backup}
  /\ pc \in JobPcs => \A t \in InfoTables : MayHold(t)

\* There is no room for a table in front of the first one.
PrefixOK ==
  /\ pc \in StepPcs => Unusable(main, bad)
  /\ pc \in JobPcs =>
       /\ AboveMain => Unusable(main, bad)
       /\ job.k \in {"tmp", "rescueMain"} => Unusable(backup, bad)
       /\ job.k \in {"rebuildMain", "onceMain", "singleMain", "rescueMain"} => Unusable(job.ba, bad)
       /\ job.k = "front" /\ pc # "range" => Unusable(job.ba, bad)

\* A table on the chip against the memory: not newer, its own block good, its
\* bad blocks known and its mapping above the spare area.
AgesOK ==
  /\ pc \in Working => \A t \in InfoTables :
       /\ t \notin bad /\ flash[t].bad \subseteq bad \cup marked
       /\ flash[t].wc <= cache.wc /\ (flash[t].wc = cache.wc => flash[t] = cache)
       /\ Clear(flash[t].map, top) /\ Reaches(map, flash[t].map)
  /\ pc \in JobPcs => bad \subseteq cache.bad \cup marked

\* The tables on the chip: nmbm_check_info_table accepts them, and there are
\* at most two.
ChipOK ==
  /\ \A t \in InfoTables : /\ MgmtStart <= t /\ t \notin marked
                           /\ \E s \in Blocks : flash[s] = Signature
                           /\ \A s \in Blocks : flash[s] = Signature =>
                                t < s - 1 /\ \A lb \in LogicBlocks : flash[t].map[lb] # s
  /\ \A x, y, z \in InfoTables : ~(x < y /\ y < z)

\* Two tables on the chip: the newer one knows the bad blocks and the mapped
\* blocks of the older one, and equal write counts mean equal contents.
PairOK ==
  \A s, t \in InfoTables :
    /\ s \notin flash[t].bad /\ Clear(flash[s].map, t + 1)
    /\ flash[s].wc = flash[t].wc => flash[s] = flash[t]
    /\ flash[s].wc <= flash[t].wc => /\ flash[s].bad \subseteq flash[t].bad \cup marked
                                     /\ Reaches(flash[t].map, flash[s].map)
    /\ s < t => Unusable(s, IF flash[t].wc > flash[s].wc THEN flash[t].bad ELSE flash[s].bad)

\* What a failed copy left behind is still there, and nothing will reuse it.
LeftOK ==
  /\ \A lb \in LogicBlocks : left[lb] >= 0 =>
       /\ flash[left[lb]] = Data(lb)
       /\ \A t \in InfoTables : Beyond(lb, flash[t].map)
       /\ pc \in Working => Beyond(lb, map)
       /\ pc = "move" /\ op.lb = lb => map[lb] # left[lb]
  /\ pc = "move" => /\ \A x \in LogicBlocks : x # op.lb => map[x] # op.src
                    /\ op.src < MgmtStart \/ (MgmtStart <= map[op.lb] /\ map[op.lb] <= op.src)

\* A chip without tables, about to get new ones, has no acknowledged data.
AckOK ==
  /\ pc \in {"sign", "create"} => Acknowledged = {}
  /\ pc = "off" /\ Acknowledged # {} => InfoTables # {}

\* Every table on the chip leads to the acknowledged data, and so does the
\* memory, unless a block is just being moved.
LeadOK ==
  /\ LeftOK
  /\ \A t \in InfoTables : Good(flash[t].map)
  /\ pc \in Working => \A lb \in stored : lb < dbc
  /\ pc \in Working \ {"move"} => Good(map)
  /\ pc = "move" => /\ Good([map EXCEPT ![op.lb] = op.src])
                    /\ op.lb \in stored => op.copy
                    /\ map[op.lb] # op.src /\ map[op.lb] \in Blocks

\* A table that the running job will still overwrite.
Stale(t) ==
  \/ job.k = "onceBackup" /\ t \in {main, backup}
  \/ job.k \in {"onceMain", "singleMain"} /\ t = main
  \/ job.k = "singleBackup" /\ t = backup

\* Every other table has the mapping of the memory, unless an update is due.
SavedOK ==
  /\ pc \in {"idle", "mark", "updated"} => \A t \in InfoTables : flash[t].map = map
  /\ pc \in {"tail", "update"} => (dirty /\ ~prot) \/ \A t \in InfoTables : flash[t].map = map
  /\ pc \in JobPcs => \A t \in InfoTables : Stale(t) \/ flash[t].map = map
  /\ pc = "move" => /\ dirty /\ ~prot
                    /\ \A t \in InfoTables : flash[t].map = [map EXCEPT ![op.lb] = op.src]

LeadsInv == ~disorder => /\ ShapeOK /\ OrderOK /\ WhereOK /\ PrefixOK /\ AgesOK /\ ChipOK /\ PairOK
                         /\ ~unsaved => SavedOK /\ (~bare => AckOK /\ LeadOK)

\* The invariants of a chip whose spare blocks were handed out downwards.
TablesOK ==
  /\ Inv /\ ShapeOK /\ ControlOK /\ CacheOK /\ SigOK /\ BoundsOK /\ PlanOK /\ KeptOK
  /\ OrderOK /\ WhereOK /\ PrefixOK /\ AgesOK /\ ChipOK /\ PairOK

-----------------------------------------------------------------------------
(* How a step changes the tables on the chip *)

\* No table appears or changes.
TablesStay == InfoTables' \subseteq InfoTables /\ \A t \in InfoTables' : flash'[t] = flash[t]

LEMMA StaySame ==
  ASSUME flash' = flash
  PROVE  TablesStay
  BY DEF TablesStay, InfoTables

LEMMA StayBlock ==
  ASSUME TypeOK, NEW x, NEW v, v.kind # "table", flash' = [flash EXCEPT ![x] = v]
  PROVE  TablesStay /\ x \notin InfoTables'
  BY DEF TablesStay, InfoTables, TypeOK, TableType

\* While the driver is attached, all tables lie below the top of the spare
\* blocks.
LEMMA TablesLow ==
  ASSUME TablesOK, pc \in Working
  PROVE  \A t \in InfoTables : t \in Blocks /\ MgmtStart <= t /\ t < top
  <1> USE NmbmConstants DEF TablesOK, Inv
  <1> SUFFICES ASSUME NEW t \in InfoTables PROVE t < top
    BY DEF ChipOK, InfoTables
  <1>1. /\ t \in Int /\ t >= MgmtStart /\ top \in Int /\ mba \in Int /\ main \in Int /\ backup \in Int
        /\ job.ba \in Int /\ job.limit \in Int /\ job.wba \in Int
    BY DEF InfoTables, ChipOK, TypeOK, PlaceType, ControlType, Blocks
  <1>2. mba <= top /\ main < mba /\ (backup # 0 => backup < mba)
    BY <1>1 DEF OrderOK, BoundsOK, Working
  <1>3. CASE t = main \/ t = backup
    BY <1>1, <1>2, <1>3
  <1>4. CASE pc \in JobPcs /\ t = job.wba /\ job.k = "rescueMain"
    BY <1>1, <1>2, <1>4 DEF PlanOK
  <1>5. CASE t = job.limit /\ pc = "range"
    BY <1>5 DEF OrderOK
  <1>6. CASE t = job.ba /\ pc = "written"
    BY <1>1, <1>6 DEF JobOK, BoundsOK, JobPcs
  <1> QED
    BY <1>3, <1>4, <1>5, <1>6 DEF Working, WhereOK, MayHold

\* Only nmbm_write_mgmt_range writes tables.
LEMMA StayStep ==
  ASSUME TablesOK, Next
  PROVE  TablesStay \/ (pc = "program" /\ pc' = "written")
  <1> TypeOK
    BY DEF TablesOK, Inv
  <1>1. CASE WriteSkip
    BY <1>1, StaySame DEF WriteSkip, phys
  <1>2. CASE WriteErase
    BY <1>2, Kinds, StayBlock DEF WriteErase
  <1>3. CASE WriteProgram
    BY <1>3 DEF WriteProgram, GoTo
  <1>4. CASE WriteFails
    BY <1>4, Kinds, StayBlock DEF WriteFails
  <1>5. CASE WriteNoRoom
    BY <1>5, StaySame DEF WriteNoRoom, phys
  <1>6. CASE RangeSkip
    BY <1>6, StaySame DEF RangeSkip, phys
  <1>7. CASE RangeErase
    BY <1>7, Kinds, StayBlock DEF RangeErase
  <1>8. CASE RangeFails
    BY <1>8, Kinds, StayBlock DEF RangeFails
  <1>9. CASE RebuildMainWritten
    BY <1>9, StaySame DEF RebuildMainWritten, phys
  <1>10. CASE RebuildMainFails
    BY <1>10, StaySame DEF RebuildMainFails, phys
  <1>11. CASE RebuildBackupWritten
    BY <1>11, StaySame DEF RebuildBackupWritten, phys
  <1>12. CASE RebuildBackupFails
    BY <1>12, StaySame DEF RebuildBackupFails, phys
  <1>13. CASE Rebuilt
    BY <1>13, StaySame DEF Rebuilt, phys
  <1>14. CASE UpdateOver
    BY <1>14, StaySame DEF UpdateOver, phys
  <1>15. CASE UpdateOnce
    BY <1>15, StaySame DEF UpdateOnce, phys
  <1>16. CASE OnceBackupWritten
    BY <1>16, StaySame DEF OnceBackupWritten, phys
  <1>17. CASE OnceBackupFails
    BY <1>17, StaySame DEF OnceBackupFails, phys
  <1>18. CASE OnceMainWritten
    BY <1>18, StaySame DEF OnceMainWritten, phys
  <1>19. CASE OnceMainFailsAlone
    BY <1>19, StaySame DEF OnceMainFailsAlone, phys
  <1>20. CASE Updated
    BY <1>20, StaySame DEF Updated, phys
  <1>21. CASE RescueMain
    BY <1>21, StaySame DEF RescueMain, phys
  <1>22. CASE RescueTmpWritten
    BY <1>22, StaySame DEF RescueTmpWritten, phys
  <1>23. CASE RescueTmpFails
    BY <1>23, StaySame DEF RescueTmpFails, phys
  <1>24. CASE RescueMainWritten
    BY <1>24, StaySame DEF RescueMainWritten, phys
  <1>25. CASE RescueMainFails
    BY <1>25, StaySame DEF RescueMainFails, phys
  <1>26. CASE LoadOne
    BY <1>26, StaySame DEF LoadOne, LoadTable, phys
  <1>27. CASE LoadTwo
    BY <1>27, StaySame DEF LoadTwo, LoadPair, LoadTable, phys
  <1>28. CASE SingleMainWritten
    BY <1>28, StaySame DEF SingleMainWritten, phys
  <1>29. CASE SingleMainFails
    BY <1>29, StaySame DEF SingleMainFails, phys
  <1>30. CASE SingleBackupWritten
    BY <1>30, StaySame DEF SingleBackupWritten, phys
  <1>31. CASE SingleBackupFails
    BY <1>31, StaySame DEF SingleBackupFails, phys
  <1>32. CASE FrontWritten
    BY <1>32, StaySame DEF FrontWritten, phys
  <1>33. CASE FrontCleaned
    BY <1>33, StaySame DEF FrontCleaned, phys
  <1>34. CASE FrontFails
    BY <1>34, StaySame DEF FrontFails, phys
  <1>35. CASE NextWritten
    BY <1>35, StaySame DEF NextWritten, phys
  <1>36. CASE NextCleaned
    BY <1>36, StaySame DEF NextCleaned, phys
  <1>37. CASE NextFails
    BY <1>37, StaySame DEF NextFails, phys
  <1>38. CASE CreateNew
    BY <1>38, StaySame DEF CreateNew, phys, ScanChip
  <1>39. CASE CreateAgain
    BY <1>39, StaySame DEF CreateAgain, phys, ScanChip
  <1>40. CASE SignSkip
    BY <1>40, StaySame DEF SignSkip, phys
  <1>41. CASE SignWrite
    BY <1>41, Kinds, StayBlock DEF SignWrite
  <1>42. CASE SignFails
    BY <1>42, Kinds, StayBlock DEF SignFails
  <1>43. CASE CreateInfoTable
    BY <1>43, StaySame DEF CreateInfoTable, phys
  <1>44. CASE MapTail
    BY <1>44, StaySame DEF MapTail, phys
  <1>45. CASE TailOver
    BY <1>45, StaySame DEF TailOver, phys
  <1>46. CASE MoveBlock
    <2>1. pc \in Working /\ op.src \in Blocks /\ (op.src < MgmtStart \/ op.src > top)
      BY <1>46 DEF MoveBlock, Working, StepPcs, TablesOK, BoundsOK, Inv, TypeOK, ControlType
    <2>2. op.src \notin InfoTables
      BY <2>1, TablesLow, NmbmConstants DEF TablesOK, Inv, TypeOK, PlaceType, Blocks
    <2>3. (IF op.copy THEN flash[op.src] ELSE Erased).kind # "table"
      BY <2>1, <2>2, Kinds DEF InfoTables
    <2> QED
      BY <1>46, <2>3, StayBlock DEF MoveBlock
  <1>47. CASE MoveFails
    BY <1>47, Kinds, StayBlock DEF MoveFails
  <1>48. CASE MarkOld
    BY <1>48, StaySame DEF MarkOld, phys
  <1>49. CASE WriteBlock
    <2>1. PICK lb \in LogicBlocks : flash' = [flash EXCEPT ![map[lb]] = Data(lb)]
      BY <1>49 DEF WriteBlock
    <2> QED
      BY <2>1, Kinds, StayBlock
  <1>50. CASE WriteBlockFails
    BY <1>50, Kinds, StayBlock DEF WriteBlockFails, Loses
  <1>51. CASE ReadBlockWeak
    BY <1>51, StaySame DEF ReadBlockWeak, phys
  <1>52. CASE MarkBad
    BY <1>52, StaySame DEF MarkBad, phys
  <1>53. CASE IsBad
    BY <1>53, StaySame DEF IsBad, phys
  <1>54. CASE PowerLoss
    BY <1>54, Kinds, StaySame, StayBlock DEF PowerLoss
  <1>55. CASE WritePageFails
    BY <1>55, StaySame DEF WritePageFails, phys
  <1>56. CASE ReadBlockFails
    BY <1>56, Kinds, StayBlock DEF ReadBlockFails, Loses
  <1> QED
    BY <1>1, <1>2, <1>3, <1>4, <1>5, <1>6, <1>7, <1>8, <1>9, <1>10, <1>11, <1>12,
       <1>13, <1>14, <1>15, <1>16, <1>17, <1>18, <1>19, <1>20, <1>21, <1>22, <1>23, <1>24,
       <1>25, <1>26, <1>27, <1>28, <1>29, <1>30, <1>31, <1>32, <1>33, <1>34, <1>35, <1>36,
       <1>37, <1>38, <1>39, <1>40, <1>41, <1>42, <1>43, <1>44, <1>45, <1>46, <1>47, <1>48,
       <1>49, <1>50, <1>51, <1>52, <1>53, <1>54, <1>55, <1>56
       DEF Next, Driver, WriteRange, ErasingRange, Rebuild, Update, Rescue, Load,
           RescueSingle, Create, RemapRest, Users

\* A block is marked bad while it holds no table.
LEMMA MarkStep ==
  ASSUME TablesOK, Next
  PROVE  marked' = marked \/ \E x : marked' = marked \cup {x} /\ x \notin InfoTables'
  <1> TypeOK
    BY DEF TablesOK, Inv
  <1>1. CASE WriteSkip
    BY <1>1 DEF WriteSkip, phys
  <1>2. CASE WriteErase
    BY <1>2 DEF WriteErase, phys
  <1>3. CASE WriteProgram
    BY <1>3 DEF WriteProgram, phys
  <1>4. CASE WriteFails
    BY <1>4, Kinds, StayBlock DEF WriteFails
  <1>5. CASE WriteNoRoom
    BY <1>5 DEF WriteNoRoom, phys
  <1>6. CASE RangeSkip
    BY <1>6 DEF RangeSkip, phys
  <1>7. CASE RangeErase
    BY <1>7 DEF RangeErase, phys
  <1>8. CASE RangeFails
    BY <1>8, Kinds, StayBlock DEF RangeFails
  <1>9. CASE RebuildMainWritten
    BY <1>9 DEF RebuildMainWritten, phys
  <1>10. CASE RebuildMainFails
    BY <1>10 DEF RebuildMainFails, phys
  <1>11. CASE RebuildBackupWritten
    BY <1>11 DEF RebuildBackupWritten, phys
  <1>12. CASE RebuildBackupFails
    BY <1>12 DEF RebuildBackupFails, phys
  <1>13. CASE Rebuilt
    BY <1>13 DEF Rebuilt, phys
  <1>14. CASE UpdateOver
    BY <1>14 DEF UpdateOver, phys
  <1>15. CASE UpdateOnce
    BY <1>15 DEF UpdateOnce, phys
  <1>16. CASE OnceBackupWritten
    BY <1>16 DEF OnceBackupWritten, phys
  <1>17. CASE OnceBackupFails
    BY <1>17 DEF OnceBackupFails, phys
  <1>18. CASE OnceMainWritten
    BY <1>18 DEF OnceMainWritten, phys
  <1>19. CASE OnceMainFailsAlone
    BY <1>19 DEF OnceMainFailsAlone, phys
  <1>20. CASE Updated
    BY <1>20 DEF Updated, phys
  <1>21. CASE RescueMain
    BY <1>21 DEF RescueMain, phys
  <1>22. CASE RescueTmpWritten
    BY <1>22 DEF RescueTmpWritten, phys
  <1>23. CASE RescueTmpFails
    BY <1>23 DEF RescueTmpFails, phys
  <1>24. CASE RescueMainWritten
    BY <1>24 DEF RescueMainWritten, phys
  <1>25. CASE RescueMainFails
    BY <1>25 DEF RescueMainFails, phys
  <1>26. CASE LoadOne
    BY <1>26 DEF LoadOne, LoadTable, phys
  <1>27. CASE LoadTwo
    BY <1>27 DEF LoadTwo, LoadPair, LoadTable, phys
  <1>28. CASE SingleMainWritten
    BY <1>28 DEF SingleMainWritten, phys
  <1>29. CASE SingleMainFails
    BY <1>29 DEF SingleMainFails, phys
  <1>30. CASE SingleBackupWritten
    BY <1>30 DEF SingleBackupWritten, phys
  <1>31. CASE SingleBackupFails
    BY <1>31 DEF SingleBackupFails, phys
  <1>32. CASE FrontWritten
    BY <1>32 DEF FrontWritten, phys
  <1>33. CASE FrontCleaned
    BY <1>33 DEF FrontCleaned, phys
  <1>34. CASE FrontFails
    BY <1>34 DEF FrontFails, phys
  <1>35. CASE NextWritten
    BY <1>35 DEF NextWritten, phys
  <1>36. CASE NextCleaned
    BY <1>36 DEF NextCleaned, phys
  <1>37. CASE NextFails
    BY <1>37 DEF NextFails, phys
  <1>38. CASE CreateNew
    BY <1>38 DEF CreateNew, phys, ScanChip
  <1>39. CASE CreateAgain
    BY <1>39 DEF CreateAgain, phys, ScanChip
  <1>40. CASE SignSkip
    BY <1>40 DEF SignSkip, phys
  <1>41. CASE SignWrite
    BY <1>41 DEF SignWrite, phys
  <1>42. CASE SignFails
    BY <1>42, Kinds, StayBlock DEF SignFails
  <1>43. CASE CreateInfoTable
    BY <1>43 DEF CreateInfoTable, phys
  <1>44. CASE MapTail
    BY <1>44 DEF MapTail, phys
  <1>45. CASE TailOver
    BY <1>45 DEF TailOver, phys
  <1>46. CASE MoveBlock
    BY <1>46 DEF MoveBlock, phys
  <1>47. CASE MoveFails
    BY <1>47 DEF MoveFails, phys
  <1>48. CASE MarkOld
    <2>1. pc \in Working /\ op.src \in Blocks /\ (op.src < MgmtStart \/ op.src > top)
      BY <1>48 DEF MarkOld, Working, StepPcs, TablesOK, BoundsOK, Inv, TypeOK, ControlType
    <2>2. op.src \notin InfoTables
      BY <2>1, TablesLow, NmbmConstants DEF TablesOK, Inv, TypeOK, PlaceType, Blocks
    <2>3. op.src \notin InfoTables'
      BY <1>48, <2>2, StaySame DEF MarkOld, TablesStay
    <2> QED
      BY <1>48, <2>3 DEF MarkOld
  <1>49. CASE WriteBlock
    BY <1>49 DEF WriteBlock, phys
  <1>50. CASE WriteBlockFails
    BY <1>50 DEF WriteBlockFails, Loses, phys
  <1>51. CASE ReadBlockWeak
    BY <1>51 DEF ReadBlockWeak, phys
  <1>52. CASE MarkBad
    BY <1>52 DEF MarkBad, phys
  <1>53. CASE IsBad
    BY <1>53 DEF IsBad, phys
  <1>54. CASE PowerLoss
    BY <1>54 DEF PowerLoss, phys
  <1>55. CASE WritePageFails
    BY <1>55 DEF WritePageFails, phys
  <1>56. CASE ReadBlockFails
    BY <1>56 DEF ReadBlockFails, Loses, phys
  <1> QED
    BY <1>1, <1>2, <1>3, <1>4, <1>5, <1>6, <1>7, <1>8, <1>9, <1>10, <1>11, <1>12,
       <1>13, <1>14, <1>15, <1>16, <1>17, <1>18, <1>19, <1>20, <1>21, <1>22, <1>23, <1>24,
       <1>25, <1>26, <1>27, <1>28, <1>29, <1>30, <1>31, <1>32, <1>33, <1>34, <1>35, <1>36,
       <1>37, <1>38, <1>39, <1>40, <1>41, <1>42, <1>43, <1>44, <1>45, <1>46, <1>47, <1>48,
       <1>49, <1>50, <1>51, <1>52, <1>53, <1>54, <1>55, <1>56
       DEF Next, Driver, WriteRange, ErasingRange, Rebuild, Update, Rescue, Load,
           RescueSingle, Create, RemapRest, Users

\* The block a job leaves behind holds no table.
LEMMA JobBlock ==
  ASSUME TablesOK, WriteSkip \/ WriteFails \/ RangeSkip \/ RangeErase \/ RangeFails
  PROVE  job.ba \notin InfoTables'
  <1>1. TypeOK
    BY DEF TablesOK, Inv
  <1>2. CASE WriteSkip \/ RangeSkip
    <2>1. job.ba \in bad \cup marked /\ flash' = flash /\ pc \in Working
      BY <1>2 DEF WriteSkip, RangeSkip, phys, Working, JobPcs
    <2>2. job.ba \notin InfoTables
      BY <2>1 DEF TablesOK, AgesOK, ChipOK
    <2> QED
      BY <2>1, <2>2 DEF InfoTables
  <1>3. CASE WriteFails \/ RangeErase \/ RangeFails
    BY <1>1, <1>3, Kinds, StayBlock DEF WriteFails, RangeErase, RangeFails
  <1> QED
    BY <1>2, <1>3

-----------------------------------------------------------------------------
(* What an attach finds *)

\* nmbm_check_info_table accepts every table on the chip.
LEMMA TablesLoad ==
  ASSUME TablesOK, NEW s \in Blocks, SignatureAt(s), NEW t \in InfoTables, NEW bd, t \notin bd
  PROVE  Loadable(t, s, bd) /\ t < s - 1 /\ MgmtStart <= t /\ t \in Blocks
  <1>1. flash[s] = Signature
    BY DEF SignatureAt
  <1>2. /\ t \in Blocks /\ flash[t].kind = "table" /\ t \notin marked /\ MgmtStart <= t
        /\ t < s - 1 /\ \A lb \in LogicBlocks : flash[t].map[lb] # s
    BY <1>1 DEF TablesOK, ChipOK, InfoTables
  <1>3. t \notin flash[t].bad /\ Clear(flash[t].map, t + 1)
    BY DEF TablesOK, PairOK
  <1>4. \A lb \in LogicBlocks : flash[t].map[lb] \in Int
    BY <1>2 DEF TablesOK, Inv, TypeOK, TableType, Mappings
  <1>5. \A lb \in LogicBlocks : ~(flash[t].map[lb] >= MgmtStart /\ flash[t].map[lb] <= t)
    BY <1>2, <1>3, <1>4, NmbmConstants DEF Clear, Blocks
  <1> QED
    BY <1>2, <1>3, <1>5 DEF Loadable

\* No signature or no loadable table: there is no table.
LEMMA CreateEmpty ==
  ASSUME TablesOK, CreateNew \/ CreateAgain
  PROVE  InfoTables = {} /\ InfoTables' = {}
  <1>1. flash' = flash
    BY DEF CreateNew, CreateAgain, ScanChip, phys
  <1>2. CASE CreateNew
    <2>1. \A s \in Blocks : flash[s] # Signature
      BY <1>2, NmbmConstants DEF CreateNew, SignatureAt, TablesOK, SigOK, Blocks
    <2> QED
      BY <1>1, <2>1 DEF TablesOK, ChipOK, InfoTables
  <1>3. CASE CreateAgain
    <2>1. PICK s \in Blocks : SignatureAt(s) /\ NoneLoadable(MgmtStart, s, {})
      BY <1>3 DEF CreateAgain
    <2>2. InfoTables = {}
      BY <2>1, TablesLoad DEF NoneLoadable
    <2> QED
      BY <1>1, <2>2 DEF InfoTables
  <1> QED
    BY <1>2, <1>3

\* The memory after an attach that chose the table at block c.
Attaches(c) ==
  /\ pc = "off" /\ c \in InfoTables /\ UNCHANGED <<flash, marked, op, stored, left, disorder, unsaved>>
  /\ map' = flash[c].map /\ cache' = Table(wc', bad', map')
  /\ wc' = flash[c].wc + 1 \/ (wc' = flash[c].wc /\ bad' = flash[c].bad)
  /\ \A lb \in LogicBlocks : lb >= dbc' => map'[lb] < 0
  /\ \A t \in InfoTables :
       /\ t \notin bad' /\ t + 1 <= top' /\ flash[t].bad \subseteq bad' \cup marked
       /\ flash[t].wc <= flash[c].wc /\ (flash[t].wc = flash[c].wc => flash[t] = flash[c])
       /\ Clear(flash[t].map, top') /\ Reaches(map', flash[t].map)

LEMMA LoadAttaches ==
  ASSUME TablesOK, pc = "off", NEW s \in Blocks, SignatureAt(s), NEW c \in InfoTables,
         NEW b, NEW d \in BOOLEAN, LoadTable(c, s, b, d),
         flash[c].bad \subseteq b, b \cap InfoTables \subseteq flash[c].bad \cup marked, ~d => b = flash[c].bad,
         \A t \in InfoTables : flash[t].wc <= flash[c].wc
  PROVE  Attaches(c)
  <1> USE NmbmConstants
  <1>1. /\ bad' = b /\ map' = flash[c].map /\ UNCHANGED <<flash, marked, op, stored, left, disorder, unsaved>>
        /\ wc' = (IF d THEN flash[c].wc + 1 ELSE flash[c].wc) /\ cache' = Table(wc', bad', map')
    BY DEF LoadTable, Generate, phys, ctl, ghost
  <1>2. c \in Blocks /\ Loadable(c, s, {}) /\ c < s - 1 /\ MgmtStart <= c
    BY TablesLoad
  <1>3. PICK t \in Blocks : TopBelow(t, c, flash[c].map, s) /\ top' = t
    BY DEF LoadTable
  <1>4. \A lb \in LogicBlocks : flash[c].map[lb] < MgmtStart \/ flash[c].map[lb] > t
    BY <1>2, <1>3, LoadedClear DEF TablesOK, Inv, TypeOK
  <1>5. \A lb \in LogicBlocks : lb >= dbc' => map'[lb] < 0
    <2>1. PICK n \in 1..MgmtStart : LastMapped(n, flash[c].map) /\ dbc' = n
      BY DEF LoadTable
    <2> QED
      BY <1>1, <2>1 DEF LastMapped, LogicBlocks
  <1>6. ASSUME NEW x \in InfoTables
        PROVE  /\ x \notin bad' /\ x + 1 <= top' /\ flash[x].bad \subseteq bad' \cup marked
               /\ flash[x].wc = flash[c].wc => flash[x] = flash[c]
               /\ Clear(flash[x].map, top') /\ Reaches(map', flash[x].map)
    <2>1. /\ x \notin flash[c].bad /\ Clear(flash[c].map, x + 1)
          /\ flash[x].wc = flash[c].wc => flash[x] = flash[c]
          /\ flash[x].bad \subseteq flash[c].bad \cup marked /\ Reaches(flash[c].map, flash[x].map)
      BY DEF TablesOK, PairOK
    <2>2. x \in Blocks /\ x < s - 1 /\ MgmtStart <= x /\ x \notin marked
      BY TablesLoad DEF Loadable
    <2>3. x \notin bad'
      BY <1>1, <2>1, <2>2
    <2>4. x + 1 <= top'
      <3>1. t + 1 = s \/ \E lb \in LogicBlocks : t + 1 = flash[c].map[lb] /\ flash[c].map[lb] > c
        BY <1>3 DEF TopBelow
      <3>2. ASSUME NEW lb \in LogicBlocks, t + 1 = flash[c].map[lb], flash[c].map[lb] > c
            PROVE  flash[c].map[lb] > x + 1
        BY <1>2, <2>1, <3>2 DEF Clear, Blocks
      <3> QED
        BY <1>3, <2>2, <3>1, <3>2 DEF Blocks
    <2>5. Clear(flash[x].map, top')
      <3> SUFFICES ASSUME NEW lb \in LogicBlocks, ~(flash[x].map[lb] < MgmtStart) PROVE flash[x].map[lb] > t
        BY <1>3 DEF Clear
      <3>1. /\ flash[x].map[lb] \in Int /\ flash[x].map[lb] >= MgmtStart
            /\ \A y \in LogicBlocks : flash[c].map[y] \in Int
        BY DEF TablesOK, Inv, TypeOK, TableType, Mappings, InfoTables
      <3>2. PICK y \in LogicBlocks : flash[c].map[y] >= MgmtStart /\ flash[c].map[y] <= flash[x].map[lb]
        BY <2>1, <3>1 DEF Reaches
      <3> QED
        BY <1>4, <3>1, <3>2 DEF Blocks
    <2> QED
      BY <1>1, <2>1, <2>3, <2>4, <2>5
  <1>7. wc' = flash[c].wc + 1 \/ (wc' = flash[c].wc /\ bad' = flash[c].bad)
    BY <1>1
  <1> QED
    BY <1>1, <1>5, <1>6, <1>7 DEF Attaches

\* nmbm_load_info_table with one table on the chip.
LoadsOne(a) ==
  /\ InfoTables = {a} /\ Attaches(a)
  /\ main' = a /\ backup' = 0 /\ mba' = a + 1 /\ prot' = FALSE
  /\ Write(MgmtStart, a, "front", MgmtStart)

LEMMA RejectedNoTable ==
  ASSUME NEW lo, NEW hi, NEW ecc \in EccErrors, NEW bd
  PROVE  Rejected(lo, hi, ecc, bd) \cap InfoTables \subseteq marked
  BY Kinds DEF Rejected, EccErrors, InfoTables

LEMMA LoadOneDoes ==
  ASSUME TablesOK, LoadOne
  PROVE  \E a \in Blocks : LoadsOne(a)
  <1>1. PICK s \in Blocks, a \in Blocks, ecc \in EccErrors :
          /\ SignatureAt(s) /\ FirstLoadable(a, MgmtStart, s, {})
          /\ NoneLoadable(a + 1, s, flash[a].bad)
          /\ LET rej == Rejected(a + 1, s - 2, ecc, flash[a].bad)
                 d == rej # {} \/ Rejected(MgmtStart, a - 1, ecc, {}) # {}
             IN  LoadTable(a, s, flash[a].bad \cup rej, d)
          /\ main' = a /\ backup' = 0 /\ mba' = a + 1 /\ prot' = FALSE
          /\ Write(MgmtStart, a, "front", MgmtStart)
    BY DEF LoadOne
  <1> DEFINE rej == Rejected(a + 1, s - 2, ecc, flash[a].bad)
             d == rej # {} \/ Rejected(MgmtStart, a - 1, ecc, {}) # {}
  <1>2. a \in InfoTables
    BY <1>1 DEF FirstLoadable, Loadable, InfoTables
  <1>3. ASSUME NEW t \in InfoTables, t # a PROVE FALSE
    <2>1. t \in Blocks /\ MgmtStart <= t /\ t < s - 1 /\ Loadable(t, s, {})
      BY <1>1, TablesLoad
    <2>2. t > a
      BY <1>1, <1>3, <2>1, NmbmConstants DEF FirstLoadable, Blocks
    <2>3. t \notin flash[a].bad
      BY <1>2 DEF TablesOK, PairOK
    <2>4. Loadable(t, s, flash[a].bad)
      BY <1>1, <2>3, TablesLoad
    <2> QED
      BY <1>1, <2>1, <2>2, <2>4, NmbmConstants DEF NoneLoadable, Blocks
  <1>4. InfoTables = {a}
    BY <1>2, <1>3
  <1>5. flash[a].wc <= flash[a].wc
    BY <1>2, NmbmConstants DEF TablesOK, ControlOK, InfoTables
  <1>6. pc = "off" /\ LoadTable(a, s, flash[a].bad \cup rej, d)
    BY <1>1 DEF LoadOne
  <1>7. rej \cap InfoTables \subseteq marked
    BY RejectedNoTable
  <1>8. ~d => flash[a].bad \cup rej = flash[a].bad
    OBVIOUS
  <1> HIDE DEF rej, d
  <1>9. d \in BOOLEAN
    BY DEF d
  <1>10. (flash[a].bad \cup rej) \cap InfoTables \subseteq flash[a].bad \cup marked
    BY <1>7
  <1>11. \A t \in InfoTables : flash[t].wc <= flash[a].wc
    BY <1>4, <1>5
  <1>12. Attaches(a)
    BY <1>1, <1>2, <1>6, <1>8, <1>9, <1>10, <1>11, LoadAttaches
  <1> QED
    BY <1>1, <1>4, <1>12 DEF LoadsOne

\* With two tables: the newer one counts, and the older one is rewritten.
LoadsTwo(a, b) ==
  /\ InfoTables = {a, b} /\ MgmtStart <= a /\ a < b
  /\ main' = a /\ backup' = b /\ mba' = b + 1
  /\ Unusable(a, bad')
  /\ \/ flash[a].wc = flash[b].wc /\ Attaches(a) /\ GoTo("idle")
     \/ Attaches(b) /\ prot' = FALSE /\ Write(a, b, "singleMain", a)
     \/ Attaches(a) /\ prot' = FALSE /\ Write(b, top', "singleBackup", b)

LEMMA LoadTwoDoes ==
  ASSUME TablesOK, LoadTwo
  PROVE  \E a, b \in Blocks : LoadsTwo(a, b)
  <1> USE NmbmConstants
  <1>1. PICK s \in Blocks, a \in Blocks, b \in Blocks, ecc \in EccErrors :
          /\ SignatureAt(s) /\ FirstLoadable(a, MgmtStart, s, {})
          /\ FirstLoadable(b, a + 1, s, flash[a].bad) /\ LoadPair(s, a, b, ecc)
    BY DEF LoadTwo
  <1> DEFINE rej == Rejected(a + 1, b - 1, ecc, flash[a].bad)
             d == rej # {} \/ Rejected(MgmtStart, a - 1, ecc, {}) # {}
             newer == flash[b].wc > flash[a].wc
  <1>2. /\ a \in InfoTables /\ b \in InfoTables /\ MgmtStart <= a /\ a < b
        /\ flash[a].wc \in Nat /\ flash[b].wc \in Nat
    BY <1>1 DEF FirstLoadable, Loadable, InfoTables, Blocks, TablesOK, ControlOK
  <1>3. InfoTables = {a, b}
    <2>1. ASSUME NEW t \in InfoTables, t # a, t # b PROVE FALSE
      <3>1. t \in Blocks /\ MgmtStart <= t /\ t < s - 1 /\ Loadable(t, s, {})
        BY <1>1, TablesLoad
      <3>2. t > a
        BY <1>1, <2>1, <3>1 DEF FirstLoadable, Blocks
      <3>3. t \notin flash[a].bad
        BY <1>2 DEF TablesOK, PairOK
      <3>4. Loadable(t, s, flash[a].bad)
        BY <1>1, <3>3, TablesLoad
      <3>5. t > b
        BY <1>1, <2>1, <3>1, <3>2, <3>4 DEF FirstLoadable, Blocks
      <3> QED
        BY <1>2, <3>5 DEF TablesOK, ChipOK
    <2> QED
      BY <1>2, <2>1
  <1>4. /\ LoadTable(IF newer THEN b ELSE a, s, IF newer THEN flash[b].bad ELSE flash[a].bad \cup rej, d)
        /\ main' = a /\ backup' = b /\ mba' = b + 1 /\ pc = "off"
        /\ IF flash[a].wc = flash[b].wc
           THEN GoTo("idle")
           ELSE /\ prot' = FALSE
                /\ IF newer THEN Write(a, b, "singleMain", a)
                            ELSE Write(b, top', "singleBackup", b)
    BY <1>1 DEF LoadPair, LoadReturns, LoadTwo
  <1>5. rej \cap InfoTables \subseteq marked
    BY RejectedNoTable
  <1>6. ~d => flash[a].bad \cup rej = flash[a].bad
    OBVIOUS
  <1> HIDE DEF rej, d
  <1>7. d \in BOOLEAN
    BY DEF d
  <1>8. CASE newer
    <2>1. \A t \in InfoTables : flash[t].wc <= flash[b].wc
      BY <1>2, <1>3, <1>8
    <2>2. LoadTable(b, s, flash[b].bad, d) /\ flash[b].bad \cap InfoTables \subseteq flash[b].bad \cup marked
      BY <1>4, <1>8
    <2>3. Attaches(b)
      BY <1>1, <1>2, <1>4, <1>7, <2>1, <2>2, LoadAttaches
    <2>4. bad' = flash[b].bad /\ marked' = marked
      BY <2>2 DEF LoadTable, phys
    <2>5. Unusable(a, bad')
      BY <1>2, <1>8, <2>4 DEF TablesOK, PairOK, Unusable
    <2> QED
      BY <1>2, <1>3, <1>4, <1>8, <2>3, <2>5 DEF LoadsTwo
  <1>9. CASE ~newer
    <2>1. \A t \in InfoTables : flash[t].wc <= flash[a].wc
      BY <1>2, <1>3, <1>9
    <2>2. /\ LoadTable(a, s, flash[a].bad \cup rej, d)
          /\ (flash[a].bad \cup rej) \cap InfoTables \subseteq flash[a].bad \cup marked
      BY <1>4, <1>5, <1>9
    <2>3. Attaches(a)
      BY <1>1, <1>2, <1>4, <1>6, <1>7, <2>1, <2>2, LoadAttaches
    <2>4. flash[a].bad \subseteq bad'
      BY <2>2 DEF LoadTable
    <2>5. Unusable(a, bad')
      BY <1>2, <1>9, <2>4 DEF TablesOK, PairOK, Unusable
    <2> QED
      BY <1>2, <1>3, <1>4, <1>9, <2>3, <2>5 DEF LoadsTwo
  <1> QED
    BY <1>8, <1>9

-----------------------------------------------------------------------------
(* The invariant *)

\* Jobs move upwards, and below the top.
LEMMA OrderStep ==
  ASSUME TablesOK, ~disorder, ~disorder', Next
  PROVE  OrderOK'
  <1> TypeOK /\ JobOK /\ PlacesOK /\ BoundsOK /\ PlanOK /\ OrderOK
    BY DEF TablesOK, Inv
  <1> USE NmbmConstants DEF phys, mem, loc, ctl, ghost, bounds, GoTo, Write, EraseRange, Written,
             NoRoom, RangeOver, Job, Advance, TypeOK, MemoryType, PlaceType, ControlType, JobOK, PlacesOK,
             JobPcs, StepPcs, Working, Blocks, LogicBlocks, BoundsOK, PlanOK, AboveMain, OrderOK, Table
  <1>1. CASE WriteSkip
    BY <1>1 DEF WriteSkip
  <1>2. CASE WriteErase
    BY <1>2 DEF WriteErase
  <1>3. CASE WriteProgram
    <2>1. job.ba \in DOMAIN flash
      BY SMTT(30), <1>3 DEF WriteProgram, TableType
    <2> QED
      BY <1>3, <2>1 DEF WriteProgram
  <1>4. CASE WriteFails
    BY <1>4 DEF WriteFails, Fault
  <1>5. CASE WriteNoRoom
    BY <1>5 DEF WriteNoRoom
  <1>6. CASE RangeSkip
    BY <1>6 DEF RangeSkip
  <1>7. CASE RangeErase
    BY <1>7 DEF RangeErase
  <1>8. CASE RangeFails
    BY <1>8 DEF RangeFails, Fault
  <1>9. CASE RebuildMainWritten
    BY <1>9, ReserveRange DEF RebuildMainWritten, RebuildReturns
  <1>10. CASE RebuildMainFails
    BY <1>10 DEF RebuildMainFails
  <1>11. CASE RebuildBackupWritten
    BY <1>11 DEF RebuildBackupWritten
  <1>12. CASE RebuildBackupFails
    BY <1>12 DEF RebuildBackupFails, RebuildReturns
  <1>13. CASE Rebuilt
    BY <1>13 DEF Rebuilt, RebuildReturns
  <1>14. CASE UpdateOver
    BY <1>14 DEF UpdateOver
  <1>15. CASE UpdateOnce
    BY <1>15 DEF UpdateOnce, Generate, Table
  <1>16. CASE OnceBackupWritten
    BY <1>16 DEF OnceBackupWritten
  <1>17. CASE OnceBackupFails
    BY <1>17 DEF OnceBackupFails
  <1>18. CASE OnceMainWritten
    BY <1>18 DEF OnceMainWritten
  <1>19. CASE OnceMainFailsAlone
    BY <1>19 DEF OnceMainFailsAlone, RebuildFrom
  <1>20. CASE Updated
    <2>1. /\ pc = "updated" /\ pc' \in {"update", "idle", "mark"}
          /\ UNCHANGED <<mba, wc, cache>> /\ top' \in {mba, top}
      BY <1>20 DEF Updated, AfterOp
    <2> QED
      BY <2>1
  <1>21. CASE RescueMain
    BY <1>21, ReserveRange DEF RescueMain, BackupBecomesMain
  <1>22. CASE RescueTmpWritten
    BY <1>22 DEF RescueTmpWritten
  <1>23. CASE RescueTmpFails
    BY <1>23 DEF RescueTmpFails, BackupBecomesMain
  <1>24. CASE RescueMainWritten
    BY <1>24 DEF RescueMainWritten
  <1>25. CASE RescueMainFails
    BY <1>25 DEF RescueMainFails
  <1>26. CASE LoadOne
    <2>1. PICK a \in Blocks : LoadsOne(a)
      BY <1>26, LoadOneDoes
    <2>2. a + 1 <= top' /\ mba' = a + 1 /\ cache' = Table(wc', bad', map') /\ pc' = "write" /\ job'.k = "front"
      BY <2>1 DEF LoadsOne, Attaches, Table
    <2> QED
      BY <2>2
  <1>27. CASE LoadTwo
    <2>1. PICK a, b \in Blocks : LoadsTwo(a, b)
      BY <1>27, LoadTwoDoes
    <2>2. b + 1 <= top' /\ mba' = b + 1 /\ cache' = Table(wc', bad', map') /\ main' = a /\ backup' = b
      BY <2>1 DEF LoadsTwo, Attaches, Table
    <2>3. \/ pc' = "idle"
          \/ pc' = "write" /\ job'.k = "singleMain" /\ job'.ba = a
          \/ pc' = "write" /\ job'.k = "singleBackup" /\ job'.ba = b /\ job'.limit = top'
      BY <2>1 DEF LoadsTwo
    <2> QED
      BY <2>2, <2>3
  <1>28. CASE SingleMainWritten
    BY <1>28 DEF SingleMainWritten, LoadReturns
  <1>29. CASE SingleMainFails
    BY <1>29 DEF SingleMainFails, BackupBecomesMain
  <1>30. CASE SingleBackupWritten
    BY <1>30 DEF SingleBackupWritten, LoadReturns
  <1>31. CASE SingleBackupFails
    BY <1>31 DEF SingleBackupFails, LoadReturns
  <1>32. CASE FrontWritten
    BY <1>32 DEF FrontWritten
  <1>33. CASE FrontCleaned
    BY <1>33 DEF FrontCleaned, LoadReturns
  <1>34. CASE FrontFails
    BY <1>34, ReserveRange DEF FrontFails, LoadReturns
  <1>35. CASE NextWritten
    BY <1>35 DEF NextWritten
  <1>36. CASE NextCleaned
    BY <1>36 DEF NextCleaned, LoadReturns
  <1>37. CASE NextFails
    BY <1>37 DEF NextFails, LoadReturns
  <1>38. CASE CreateNew
    <2>1. pc' \notin Working /\ prot' = FALSE
      BY <1>38 DEF CreateNew, ScanChip
    <2> QED
      BY <2>1
  <1>39. CASE CreateAgain
    <2>1. pc' \notin Working /\ prot' = FALSE
      BY <1>39 DEF CreateAgain, ScanChip
    <2> QED
      BY <2>1
  <1>40. CASE SignSkip
    BY <1>40 DEF SignSkip
  <1>41. CASE SignWrite
    BY <1>41 DEF SignWrite
  <1>42. CASE SignFails
    BY <1>42 DEF SignFails, Fault
  <1>43. CASE CreateInfoTable
    BY <1>43 DEF CreateInfoTable, RebuildFrom, Generate, Table
  <1>44. CASE MapTail
    <2>1. dbc \in LogicBlocks /\ pc = "tail" /\ UNCHANGED <<pc, mba, wc, cache, prot>>
      BY <1>44 DEF MapTail
    <2>2. PICK p \in Blocks : mba < p /\ p <= top /\ top' = top - 1
      BY <1>44, <2>1, MapToTakes DEF MapTail
    <2> QED
      BY <2>1, <2>2
  <1>45. CASE TailOver
    BY <1>45 DEF TailOver
  <1>46. CASE MoveBlock
    BY <1>46 DEF MoveBlock
  <1>47. CASE MoveFails
    BY <1>47 DEF MoveFails, Fault
  <1>48. CASE MarkOld
    BY <1>48 DEF MarkOld
  <1>49. CASE WriteBlock
    BY <1>49 DEF WriteBlock
  <1>50. CASE WriteBlockFails
    <2>1. PICK lb \in LogicBlocks, copy \in BOOLEAN, mk \in BOOLEAN : Remap(lb, copy, mk)
      BY <1>50 DEF WriteBlockFails, Loses
    <2>2. /\ pc = "idle" /\ pc' \in {"move", "update", "mark", "idle"}
          /\ UNCHANGED <<mba, cache>> /\ wc' = wc
      BY <2>1, RemapDoes DEF Remap
    <2>3. top' = top \/ (mba < top /\ top' = top - 1)
      BY <2>1, RemapTop
    <2> QED
      BY <2>2, <2>3
  <1>51. CASE ReadBlockWeak
    <2>1. PICK lb \in LogicBlocks, copy \in BOOLEAN, mk \in BOOLEAN : Remap(lb, copy, mk)
      BY <1>51 DEF ReadBlockWeak
    <2>2. /\ pc = "idle" /\ pc' \in {"move", "update", "mark", "idle"}
          /\ UNCHANGED <<mba, cache>> /\ wc' = wc
      BY <2>1, RemapDoes DEF Remap
    <2>3. top' = top \/ (mba < top /\ top' = top - 1)
      BY <2>1, RemapTop
    <2> QED
      BY <2>2, <2>3
  <1>52. CASE MarkBad
    <2>1. PICK lb \in LogicBlocks, copy \in BOOLEAN, mk \in BOOLEAN : Remap(lb, copy, mk)
      BY <1>52 DEF MarkBad
    <2>2. /\ pc = "idle" /\ pc' \in {"move", "update", "mark", "idle"}
          /\ UNCHANGED <<mba, cache>> /\ wc' = wc
      BY <2>1, RemapDoes DEF Remap
    <2>3. top' = top \/ (mba < top /\ top' = top - 1)
      BY <2>1, RemapTop
    <2> QED
      BY <2>2, <2>3
  <1>53. CASE IsBad
    <2>1. PICK lb \in LogicBlocks, copy \in BOOLEAN, mk \in BOOLEAN : Remap(lb, copy, mk)
      BY <1>53 DEF IsBad
    <2>2. /\ pc = "idle" /\ pc' \in {"move", "update", "mark", "idle"}
          /\ UNCHANGED <<mba, cache>> /\ wc' = wc
      BY <2>1, RemapDoes DEF Remap
    <2>3. top' = top \/ (mba < top /\ top' = top - 1)
      BY <2>1, RemapTop
    <2> QED
      BY <2>2, <2>3
  <1>54. CASE PowerLoss
    <2>1. pc' = "off"
      BY <1>54 DEF PowerLoss
    <2> QED
      BY <2>1
  <1>55. CASE WritePageFails
    <2>1. PICK lb \in LogicBlocks, copy \in BOOLEAN, mk \in BOOLEAN : Remap(lb, copy, mk)
      BY <1>55 DEF WritePageFails
    <2>2. /\ pc = "idle" /\ pc' \in {"move", "update", "mark", "idle"}
          /\ UNCHANGED <<mba, cache>> /\ wc' = wc
      BY <2>1, RemapDoes DEF Remap
    <2>3. top' = top \/ (mba < top /\ top' = top - 1)
      BY <2>1, RemapTop
    <2> QED
      BY <2>2, <2>3
  <1>56. CASE ReadBlockFails
    <2>1. PICK lb \in LogicBlocks, copy \in BOOLEAN, mk \in BOOLEAN : Remap(lb, copy, mk)
      BY <1>56 DEF ReadBlockFails, Loses
    <2>2. /\ pc = "idle" /\ pc' \in {"move", "update", "mark", "idle"}
          /\ UNCHANGED <<mba, cache>> /\ wc' = wc
      BY <2>1, RemapDoes DEF Remap
    <2>3. top' = top \/ (mba < top /\ top' = top - 1)
      BY <2>1, RemapTop
    <2> QED
      BY <2>2, <2>3
  <1> QED
    BY <1>1, <1>2, <1>3, <1>4, <1>5, <1>6, <1>7, <1>8, <1>9, <1>10, <1>11, <1>12,
       <1>13, <1>14, <1>15, <1>16, <1>17, <1>18, <1>19, <1>20, <1>21, <1>22, <1>23, <1>24,
       <1>25, <1>26, <1>27, <1>28, <1>29, <1>30, <1>31, <1>32, <1>33, <1>34, <1>35, <1>36,
       <1>37, <1>38, <1>39, <1>40, <1>41, <1>42, <1>43, <1>44, <1>45, <1>46, <1>47, <1>48,
       <1>49, <1>50, <1>51, <1>52, <1>53, <1>54, <1>55, <1>56
       DEF Next, Driver, WriteRange, ErasingRange, Rebuild, Update, Rescue, Load,
           RescueSingle, Create, RemapRest, Users

\* A table is where the driver expects one.
LEMMA WhereStep ==
  ASSUME TablesOK, ~disorder, ~disorder', Next
  PROVE  WhereOK'
  <1> TypeOK /\ JobOK /\ PlacesOK /\ BoundsOK /\ PlanOK /\ OrderOK /\ WhereOK
    BY DEF TablesOK, Inv
  <1> TablesStay \/ (pc = "program" /\ pc' = "written")
    BY StayStep
  <1> \A t \in InfoTables : t \in Int /\ t >= MgmtStart
    BY NmbmConstants DEF TablesOK, ChipOK, InfoTables, Blocks
  <1> USE NmbmConstants DEF phys, mem, loc, ctl, ghost, bounds, GoTo, Write, EraseRange, Written,
             NoRoom, RangeOver, Job, Advance, TypeOK, PlaceType, ControlType, JobOK, PlacesOK,
             JobPcs, StepPcs, Working, Blocks, BoundsOK, PlanOK, AboveMain, OrderOK, WhereOK, MayHold, TablesStay
  <1>1. CASE WriteSkip
    BY <1>1, JobBlock DEF WriteSkip
  <1>2. CASE WriteErase
    BY <1>2 DEF WriteErase
  <1>3. CASE WriteProgram
    <2>1. InfoTables' \subseteq InfoTables \cup {job.ba}
      BY <1>3 DEF WriteProgram, InfoTables, TableType
    <2> QED
      BY <1>3, <2>1 DEF WriteProgram
  <1>4. CASE WriteFails
    BY <1>4, JobBlock DEF WriteFails, Fault
  <1>5. CASE WriteNoRoom
    BY <1>5 DEF WriteNoRoom
  <1>6. CASE RangeSkip
    BY <1>6, JobBlock DEF RangeSkip
  <1>7. CASE RangeErase
    BY <1>7, JobBlock DEF RangeErase
  <1>8. CASE RangeFails
    BY <1>8, JobBlock DEF RangeFails, Fault
  <1>9. CASE RebuildMainWritten
    BY <1>9 DEF RebuildMainWritten, RebuildReturns
  <1>10. CASE RebuildMainFails
    BY <1>10 DEF RebuildMainFails
  <1>11. CASE RebuildBackupWritten
    BY <1>11 DEF RebuildBackupWritten
  <1>12. CASE RebuildBackupFails
    BY <1>12 DEF RebuildBackupFails, RebuildReturns
  <1>13. CASE Rebuilt
    BY <1>13 DEF Rebuilt, RebuildReturns
  <1>14. CASE UpdateOver
    BY <1>14 DEF UpdateOver
  <1>15. CASE UpdateOnce
    BY <1>15 DEF UpdateOnce, Generate, Table
  <1>16. CASE OnceBackupWritten
    BY <1>16 DEF OnceBackupWritten
  <1>17. CASE OnceBackupFails
    BY <1>17 DEF OnceBackupFails
  <1>18. CASE OnceMainWritten
    BY <1>18 DEF OnceMainWritten
  <1>19. CASE OnceMainFailsAlone
    BY <1>19 DEF OnceMainFailsAlone, RebuildFrom
  <1>20. CASE Updated
    <2>1. pc = "updated" /\ pc' \in {"update", "mark", "idle"} /\ UNCHANGED <<main, backup>>
      BY <1>20 DEF Updated, AfterOp
    <2> QED
      BY <2>1
  <1>21. CASE RescueMain
    BY <1>21 DEF RescueMain, BackupBecomesMain
  <1>22. CASE RescueTmpWritten
    BY <1>22 DEF RescueTmpWritten
  <1>23. CASE RescueTmpFails
    BY <1>23 DEF RescueTmpFails, BackupBecomesMain
  <1>24. CASE RescueMainWritten
    <2>1. job.ba \in InfoTables /\ job.ba >= MgmtStart
      BY <1>24 DEF RescueMainWritten, InfoTables, TableType
    <2>2. job.ba \notin bad \cup marked
      BY <1>24, <2>1 DEF RescueMainWritten, TablesOK, AgesOK, ChipOK
    <2>3. ~(job.ba < backup)
      BY <1>24, <2>1, <2>2 DEF RescueMainWritten, TablesOK, PrefixOK, Unusable, InfoTables
    <2> QED
      BY <1>24, <2>3 DEF RescueMainWritten
  <1>25. CASE RescueMainFails
    BY <1>25 DEF RescueMainFails
  <1>26. CASE LoadOne
    <2>1. PICK a \in Blocks : LoadsOne(a)
      BY <1>26, LoadOneDoes
    <2>2. InfoTables' = {a} /\ main' = a /\ pc' = "write" /\ job'.k = "front"
      BY <2>1 DEF LoadsOne, Attaches, InfoTables
    <2> QED
      BY <2>2
  <1>27. CASE LoadTwo
    <2>1. PICK a, b \in Blocks : LoadsTwo(a, b)
      BY <1>27, LoadTwoDoes
    <2>2. InfoTables' = {a, b} /\ main' = a /\ backup' = b
      BY <2>1 DEF LoadsTwo, Attaches, InfoTables
    <2>3. \/ pc' = "idle"
          \/ pc' = "write" /\ job'.k = "singleMain" /\ job'.ba = a
          \/ pc' = "write" /\ job'.k = "singleBackup" /\ job'.ba = b
      BY <2>1 DEF LoadsTwo
    <2> QED
      BY <2>2, <2>3
  <1>28. CASE SingleMainWritten
    BY <1>28 DEF SingleMainWritten, LoadReturns
  <1>29. CASE SingleMainFails
    BY <1>29 DEF SingleMainFails, BackupBecomesMain
  <1>30. CASE SingleBackupWritten
    BY <1>30 DEF SingleBackupWritten, LoadReturns
  <1>31. CASE SingleBackupFails
    BY <1>31 DEF SingleBackupFails, LoadReturns
  <1>32. CASE FrontWritten
    BY <1>32 DEF FrontWritten
  <1>33. CASE FrontCleaned
    BY <1>33 DEF FrontCleaned, LoadReturns
  <1>34. CASE FrontFails
    BY <1>34 DEF FrontFails, LoadReturns
  <1>35. CASE NextWritten
    BY <1>35 DEF NextWritten
  <1>36. CASE NextCleaned
    BY <1>36 DEF NextCleaned, LoadReturns
  <1>37. CASE NextFails
    BY <1>37 DEF NextFails, LoadReturns
  <1>38. CASE CreateNew
    <2>1. pc' \notin Working
      BY <1>38 DEF CreateNew
    <2> QED
      BY <1>38, <2>1, CreateEmpty
  <1>39. CASE CreateAgain
    <2>1. pc' \notin Working
      BY <1>39 DEF CreateAgain
    <2> QED
      BY <1>39, <2>1, CreateEmpty
  <1>40. CASE SignSkip
    BY <1>40 DEF SignSkip
  <1>41. CASE SignWrite
    BY <1>41 DEF SignWrite
  <1>42. CASE SignFails
    BY <1>42 DEF SignFails, Fault
  <1>43. CASE CreateInfoTable
    BY <1>43 DEF CreateInfoTable, RebuildFrom, Generate, Table
  <1>44. CASE MapTail
    BY <1>44 DEF MapTail, MapTo, Unmapped
  <1>45. CASE TailOver
    BY <1>45 DEF TailOver
  <1>46. CASE MoveBlock
    BY <1>46 DEF MoveBlock
  <1>47. CASE MoveFails
    BY <1>47 DEF MoveFails, Fault
  <1>48. CASE MarkOld
    BY <1>48 DEF MarkOld
  <1>49. CASE WriteBlock
    BY <1>49 DEF WriteBlock
  <1>50. CASE WriteBlockFails
    <2>1. pc = "idle" /\ pc' \in {"move", "update", "mark", "idle"} /\ UNCHANGED <<main, backup>>
      BY <1>50 DEF WriteBlockFails, Loses, Remap, AfterOp
    <2> QED
      BY <2>1
  <1>51. CASE ReadBlockWeak
    <2>1. pc = "idle" /\ pc' \in {"move", "update", "mark", "idle"} /\ UNCHANGED <<main, backup>>
      BY <1>51 DEF ReadBlockWeak, Remap, AfterOp
    <2> QED
      BY <2>1
  <1>52. CASE MarkBad
    <2>1. pc = "idle" /\ pc' \in {"move", "update", "mark", "idle"} /\ UNCHANGED <<main, backup>>
      BY <1>52 DEF MarkBad, Remap, AfterOp
    <2> QED
      BY <2>1
  <1>53. CASE IsBad
    <2>1. pc = "idle" /\ pc' \in {"move", "update", "mark", "idle"} /\ UNCHANGED <<main, backup>>
      BY <1>53 DEF IsBad, Remap, AfterOp
    <2> QED
      BY <2>1
  <1>54. CASE PowerLoss
    <2>1. pc' = "off"
      BY <1>54 DEF PowerLoss
    <2> QED
      BY <2>1
  <1>55. CASE WritePageFails
    <2>1. pc = "idle" /\ pc' \in {"move", "update", "mark", "idle"} /\ UNCHANGED <<main, backup>>
      BY <1>55 DEF WritePageFails, Remap, AfterOp
    <2> QED
      BY <2>1
  <1>56. CASE ReadBlockFails
    <2>1. pc = "idle" /\ pc' \in {"move", "update", "mark", "idle"} /\ UNCHANGED <<main, backup>>
      BY SMTT(30), <1>56 DEF ReadBlockFails, Loses, Remap, AfterOp
    <2> QED
      BY <2>1
  <1> QED
    BY <1>1, <1>2, <1>3, <1>4, <1>5, <1>6, <1>7, <1>8, <1>9, <1>10, <1>11, <1>12,
       <1>13, <1>14, <1>15, <1>16, <1>17, <1>18, <1>19, <1>20, <1>21, <1>22, <1>23, <1>24,
       <1>25, <1>26, <1>27, <1>28, <1>29, <1>30, <1>31, <1>32, <1>33, <1>34, <1>35, <1>36,
       <1>37, <1>38, <1>39, <1>40, <1>41, <1>42, <1>43, <1>44, <1>45, <1>46, <1>47, <1>48,
       <1>49, <1>50, <1>51, <1>52, <1>53, <1>54, <1>55, <1>56
       DEF Next, Driver, WriteRange, ErasingRange, Rebuild, Update, Rescue, Load,
           RescueSingle, Create, RemapRest, Users

\* The first table stays the first.
LEMMA PrefixStep ==
  ASSUME TablesOK, ~disorder, ~disorder', Next
  PROVE  PrefixOK'
  <1> TypeOK /\ JobOK /\ PlacesOK /\ PlanOK /\ OrderOK /\ PrefixOK
    BY DEF TablesOK, Inv
  <1> marked \subseteq marked'
    BY MarkStep
  <1> USE NmbmConstants DEF phys, mem, loc, ctl, ghost, bounds, GoTo, Write, EraseRange, Written,
             NoRoom, RangeOver, Job, Advance, TypeOK, PlaceType, ControlType, JobOK, PlacesOK,
             JobPcs, StepPcs, Blocks, PlanOK, AboveMain, OrderOK, PrefixOK, Unusable
  <1>1. CASE WriteSkip
    BY <1>1 DEF WriteSkip
  <1>2. CASE WriteErase
    BY <1>2 DEF WriteErase
  <1>3. CASE WriteProgram
    BY <1>3 DEF WriteProgram
  <1>4. CASE WriteFails
    BY <1>4 DEF WriteFails, Fault
  <1>5. CASE WriteNoRoom
    BY <1>5 DEF WriteNoRoom
  <1>6. CASE RangeSkip
    BY <1>6 DEF RangeSkip
  <1>7. CASE RangeErase
    BY <1>7 DEF RangeErase
  <1>8. CASE RangeFails
    BY <1>8 DEF RangeFails, Fault
  <1>9. CASE RebuildMainWritten
    BY <1>9 DEF RebuildMainWritten, RebuildReturns
  <1>10. CASE RebuildMainFails
    BY <1>10 DEF RebuildMainFails
  <1>11. CASE RebuildBackupWritten
    BY <1>11 DEF RebuildBackupWritten
  <1>12. CASE RebuildBackupFails
    BY <1>12 DEF RebuildBackupFails, RebuildReturns
  <1>13. CASE Rebuilt
    BY <1>13 DEF Rebuilt, RebuildReturns
  <1>14. CASE UpdateOver
    BY <1>14 DEF UpdateOver
  <1>15. CASE UpdateOnce
    BY <1>15 DEF UpdateOnce, Generate, Table
  <1>16. CASE OnceBackupWritten
    BY <1>16 DEF OnceBackupWritten
  <1>17. CASE OnceBackupFails
    BY <1>17 DEF OnceBackupFails
  <1>18. CASE OnceMainWritten
    BY <1>18 DEF OnceMainWritten
  <1>19. CASE OnceMainFailsAlone
    BY <1>19 DEF OnceMainFailsAlone, RebuildFrom
  <1>20. CASE Updated
    <2>1. pc = "updated" /\ pc' \in {"update", "mark", "idle"} /\ UNCHANGED <<main, bad>>
      BY <1>20 DEF Updated, AfterOp
    <2> QED
      BY <2>1
  <1>21. CASE RescueMain
    BY <1>21 DEF RescueMain, BackupBecomesMain
  <1>22. CASE RescueTmpWritten
    BY <1>22 DEF RescueTmpWritten
  <1>23. CASE RescueTmpFails
    BY <1>23 DEF RescueTmpFails, BackupBecomesMain
  <1>24. CASE RescueMainWritten
    BY <1>24 DEF RescueMainWritten
  <1>25. CASE RescueMainFails
    BY <1>25 DEF RescueMainFails
  <1>26. CASE LoadOne
    <2>1. PICK a \in Blocks : LoadsOne(a)
      BY <1>26, LoadOneDoes
    <2>2. pc' = "write" /\ job'.k = "front" /\ job'.ba = MgmtStart
      BY <2>1 DEF LoadsOne
    <2> QED
      BY <2>2
  <1>27. CASE LoadTwo
    <2>1. PICK a, b \in Blocks : LoadsTwo(a, b)
      BY <1>27, LoadTwoDoes
    <2>2. Unusable(a, bad') /\ main' = a
      BY <2>1 DEF LoadsTwo
    <2>3. \/ pc' = "idle"
          \/ pc' = "write" /\ job'.k = "singleMain" /\ job'.ba = a
          \/ pc' = "write" /\ job'.k = "singleBackup"
      BY <2>1 DEF LoadsTwo
    <2> QED
      BY <2>2, <2>3
  <1>28. CASE SingleMainWritten
    BY <1>28 DEF SingleMainWritten, LoadReturns
  <1>29. CASE SingleMainFails
    BY <1>29 DEF SingleMainFails, BackupBecomesMain
  <1>30. CASE SingleBackupWritten
    BY <1>30 DEF SingleBackupWritten, LoadReturns
  <1>31. CASE SingleBackupFails
    BY <1>31 DEF SingleBackupFails, LoadReturns
  <1>32. CASE FrontWritten
    BY <1>32 DEF FrontWritten
  <1>33. CASE FrontCleaned
    BY <1>33 DEF FrontCleaned, LoadReturns
  <1>34. CASE FrontFails
    BY <1>34 DEF FrontFails, LoadReturns
  <1>35. CASE NextWritten
    BY <1>35 DEF NextWritten
  <1>36. CASE NextCleaned
    BY <1>36 DEF NextCleaned, LoadReturns
  <1>37. CASE NextFails
    BY <1>37 DEF NextFails, LoadReturns
  <1>38. CASE CreateNew
    <2>1. pc' \notin Working
      BY <1>38 DEF CreateNew, Working
    <2> QED
      BY <2>1 DEF Working
  <1>39. CASE CreateAgain
    <2>1. pc' \notin Working
      BY <1>39 DEF CreateAgain, Working
    <2> QED
      BY <2>1 DEF Working
  <1>40. CASE SignSkip
    BY <1>40 DEF SignSkip
  <1>41. CASE SignWrite
    BY <1>41 DEF SignWrite
  <1>42. CASE SignFails
    BY <1>42 DEF SignFails, Fault
  <1>43. CASE CreateInfoTable
    BY <1>43 DEF CreateInfoTable, RebuildFrom, Generate, Table
  <1>44. CASE MapTail
    BY <1>44 DEF MapTail, MapTo, Unmapped
  <1>45. CASE TailOver
    BY <1>45 DEF TailOver
  <1>46. CASE MoveBlock
    BY <1>46 DEF MoveBlock
  <1>47. CASE MoveFails
    BY <1>47 DEF MoveFails, Fault
  <1>48. CASE MarkOld
    BY <1>48 DEF MarkOld
  <1>49. CASE WriteBlock
    BY <1>49 DEF WriteBlock
  <1>50. CASE WriteBlockFails
    <2>1. pc = "idle" /\ pc' \in {"move", "update", "mark", "idle"} /\ main' = main /\ bad \subseteq bad'
      BY <1>50 DEF WriteBlockFails, Loses, Remap, AfterOp
    <2> QED
      BY <2>1
  <1>51. CASE ReadBlockWeak
    <2>1. pc = "idle" /\ pc' \in {"move", "update", "mark", "idle"} /\ main' = main /\ bad \subseteq bad'
      BY <1>51 DEF ReadBlockWeak, Remap, AfterOp
    <2> QED
      BY <2>1
  <1>52. CASE MarkBad
    <2>1. pc = "idle" /\ pc' \in {"move", "update", "mark", "idle"} /\ main' = main /\ bad \subseteq bad'
      BY <1>52 DEF MarkBad, Remap, AfterOp
    <2> QED
      BY <2>1
  <1>53. CASE IsBad
    <2>1. pc = "idle" /\ pc' \in {"move", "update", "mark", "idle"} /\ main' = main /\ bad \subseteq bad'
      BY <1>53 DEF IsBad, Remap, AfterOp
    <2> QED
      BY <2>1
  <1>54. CASE PowerLoss
    <2>1. pc' \notin Working
      BY <1>54 DEF PowerLoss, Working
    <2> QED
      BY <2>1 DEF Working
  <1>55. CASE WritePageFails
    <2>1. pc = "idle" /\ pc' \in {"move", "update", "mark", "idle"} /\ main' = main /\ bad \subseteq bad'
      BY <1>55 DEF WritePageFails, Remap, AfterOp
    <2> QED
      BY <2>1
  <1>56. CASE ReadBlockFails
    <2>1. pc = "idle" /\ pc' \in {"move", "update", "mark", "idle"} /\ main' = main /\ bad \subseteq bad'
      BY <1>56 DEF ReadBlockFails, Loses, Remap, AfterOp
    <2> QED
      BY <2>1
  <1> QED
    BY <1>1, <1>2, <1>3, <1>4, <1>5, <1>6, <1>7, <1>8, <1>9, <1>10, <1>11, <1>12,
       <1>13, <1>14, <1>15, <1>16, <1>17, <1>18, <1>19, <1>20, <1>21, <1>22, <1>23, <1>24,
       <1>25, <1>26, <1>27, <1>28, <1>29, <1>30, <1>31, <1>32, <1>33, <1>34, <1>35, <1>36,
       <1>37, <1>38, <1>39, <1>40, <1>41, <1>42, <1>43, <1>44, <1>45, <1>46, <1>47, <1>48,
       <1>49, <1>50, <1>51, <1>52, <1>53, <1>54, <1>55, <1>56
       DEF Next, Driver, WriteRange, ErasingRange, Rebuild, Update, Rescue, Load,
           RescueSingle, Create, RemapRest, Users

\* nmbm_map_block only reaches further down.
LEMMA MapReaches ==
  ASSUME Inv, NEW lb \in LogicBlocks, MapsOne(lb), ~disorder', mba >= MgmtStart
  PROVE  Reaches(map', map) /\ top' <= top /\ top' \in Int
  <1> USE NmbmConstants DEF Inv, TypeOK
  <1>1. \A x \in LogicBlocks : map'[x] = IF x = lb THEN top ELSE map[x]
    BY MapsOneClear
  <1>2. top' = top - 1 /\ top \in Int /\ mba \in Int /\ mba < top
    <2>1. PICK p \in Blocks : mba < p /\ p <= top /\ top' = top - 1
      BY DEF MapsOne
    <2> QED
      BY <2>1 DEF PlaceType, Blocks
  <1>3. \A x \in LogicBlocks : map[x] \in Int /\ (map[x] < MgmtStart \/ map[x] > top)
    <2>1. ~disorder
      BY MapsOneClear
    <2> QED
      BY <2>1 DEF MapOK, MemoryType, Mappings
  <1>4. ASSUME NEW x \in LogicBlocks, map[x] >= MgmtStart
        PROVE  \E y \in LogicBlocks : map'[y] >= MgmtStart /\ map'[y] <= map[x]
    <2>1. map'[x] >= MgmtStart /\ map'[x] <= map[x]
      BY <1>1, <1>2, <1>3, <1>4
    <2> QED
      BY <2>1
  <1> QED
    BY <1>2, <1>4 DEF Reaches

TablesAged ==
  \A t \in InfoTables :
    /\ t \notin bad /\ flash[t].bad \subseteq bad \cup marked
    /\ flash[t].wc <= cache.wc /\ (flash[t].wc = cache.wc => flash[t] = cache)
    /\ Clear(flash[t].map, top) /\ Reaches(map, flash[t].map)

\* The memory may learn of bad blocks, map more blocks and age.
LEMMA AgesFrame ==
  ASSUME TablesOK, pc \in Working, TablesStay, bad \subseteq bad', marked \subseteq marked',
         \A t \in InfoTables' : t \in bad' => t \in bad,
         cache' = cache \/ (cache'.wc \in Int /\ cache'.wc > cache.wc),
         top' \in Int, top' <= top,
         map' = map \/ Reaches(map', map), map' \in Mappings
  PROVE  TablesAged'
  <1> SUFFICES ASSUME NEW t \in InfoTables'
               PROVE  /\ t \notin bad' /\ flash'[t].bad \subseteq bad' \cup marked'
                      /\ flash'[t].wc <= cache'.wc /\ (flash'[t].wc = cache'.wc => flash'[t] = cache')
                      /\ Clear(flash'[t].map, top') /\ Reaches(map', flash'[t].map)
    BY DEF TablesAged, Clear, Reaches
  <1>1. t \in InfoTables /\ flash'[t] = flash[t]
    BY DEF TablesStay
  <1>2. /\ t \notin bad /\ flash[t].bad \subseteq bad \cup marked
        /\ flash[t].wc <= cache.wc /\ (flash[t].wc = cache.wc => flash[t] = cache)
        /\ Clear(flash[t].map, top) /\ Reaches(map, flash[t].map)
    BY <1>1 DEF TablesOK, AgesOK
  <1>3. /\ flash[t].wc \in Int /\ cache.wc \in Int /\ top \in Int
        /\ \A lb \in LogicBlocks : flash[t].map[lb] \in Int /\ map[lb] \in Int /\ map'[lb] \in Int
    BY <1>1 DEF TablesOK, Inv, ControlOK, TypeOK, TableType, PlaceType, MemoryType, Mappings, InfoTables
  <1>4. flash[t].wc <= cache'.wc /\ (flash[t].wc = cache'.wc => flash[t] = cache')
    BY <1>2, <1>3
  <1>5. Clear(flash[t].map, top')
    BY <1>2, <1>3 DEF Clear
  <1>6. Reaches(map', flash[t].map)
    <2>1. CASE map' = map
      BY <1>2, <2>1
    <2>2. CASE Reaches(map', map)
      <3> SUFFICES ASSUME NEW lb \in LogicBlocks, flash[t].map[lb] >= MgmtStart
                   PROVE  \E x \in LogicBlocks : map'[x] >= MgmtStart /\ map'[x] <= flash[t].map[lb]
        BY DEF Reaches
      <3>1. PICK x \in LogicBlocks : map[x] >= MgmtStart /\ map[x] <= flash[t].map[lb]
        BY <1>2 DEF Reaches
      <3>2. PICK y \in LogicBlocks : map'[y] >= MgmtStart /\ map'[y] <= map[x]
        BY <2>2, <3>1 DEF Reaches
      <3> QED
        BY <1>3, <3>1, <3>2
    <2> QED
      BY <2>1, <2>2
  <1> QED
    BY <1>1, <1>2, <1>4, <1>5, <1>6

LEMMA AgesQuiet ==
  ASSUME TablesOK, pc \in Working, TablesStay, marked \subseteq marked',
         UNCHANGED <<bad, cache, map, top>>, pc' \in JobPcs => pc \in JobPcs
  PROVE  TablesAged' /\ (pc' \in JobPcs => bad' \subseteq cache'.bad \cup marked')
  <1>1. map \in Mappings /\ top \in Int /\ top <= top
    BY DEF TablesOK, Inv, TypeOK, MemoryType, PlaceType
  <1>2. TablesAged'
    BY <1>1, AgesFrame
  <1> QED
    BY <1>2 DEF TablesOK, AgesOK

LEMMA AttachAges ==
  ASSUME TablesOK, NEW c \in Blocks, Attaches(c)
  PROVE  TablesAged' /\ bad' \subseteq cache'.bad
  <1>1. /\ cache' = Table(wc', bad', map') /\ cache'.wc = wc' /\ cache'.bad = bad'
        /\ UNCHANGED <<flash, marked>> /\ InfoTables' = InfoTables /\ map' = flash[c].map /\ c \in InfoTables
    BY DEF Attaches, Table, InfoTables
  <1>2. \A t \in InfoTables : flash[t].wc \in Int
    BY DEF TablesOK, ControlOK, InfoTables
  <1>3. \A t \in InfoTables :
          /\ t \notin bad' /\ flash[t].bad \subseteq bad' \cup marked
          /\ flash[t].wc <= flash[c].wc /\ (flash[t].wc = flash[c].wc => flash[t] = flash[c])
          /\ Clear(flash[t].map, top') /\ Reaches(map', flash[t].map)
    BY DEF Attaches
  <1>4. wc' = flash[c].wc => flash[c] = cache'
    <2>1. wc' = flash[c].wc => bad' = flash[c].bad
      BY <1>1, <1>2 DEF Attaches
    <2>2. flash[c] = Table(flash[c].wc, flash[c].bad, flash[c].map)
      BY <1>1 DEF TablesOK, ShapeOK
    <2> QED
      BY <1>1, <2>1, <2>2
  <1>5. wc' = flash[c].wc \/ wc' = flash[c].wc + 1
    BY DEF Attaches
  <1>6. \A t \in InfoTables : flash[t].wc <= wc' /\ (flash[t].wc = wc' => flash[t] = cache')
    BY <1>1, <1>2, <1>3, <1>4, <1>5
  <1> QED
    BY <1>1, <1>3, <1>6 DEF TablesAged, Clear, Reaches

LEMMA RemapAges ==
  ASSUME TablesOK, NEW lb \in LogicBlocks, NEW copy \in BOOLEAN, NEW mk \in BOOLEAN,
         Remap(lb, copy, mk), ~disorder, ~disorder', TablesStay, marked \subseteq marked'
  PROVE  TablesAged' /\ pc' \notin JobPcs
  <1> USE NmbmConstants DEF TablesOK, Inv, TypeOK
  <1>1. /\ pc = "idle" /\ pc' \in {"move", "update", "mark", "idle"} /\ cache' = cache
        /\ map' \in Mappings /\ bad' = bad \cup {map[lb]}
    BY RemapDoes DEF Remap
  <1>2. UNCHANGED <<map, top>> \/ MapsOne(lb)
    BY RemapDoes DEF MapsOne
  <1>3. top' \in Int /\ top' <= top /\ (map' = map \/ Reaches(map', map))
    BY <1>1, <1>2, MapReaches DEF PlacesOK, StepPcs, PlaceType
  <1>4. map[lb] \notin InfoTables
    <2>1. map[lb] \in Int /\ (map[lb] < MgmtStart \/ map[lb] > top) /\ top \in Int
      BY DEF MapOK, MemoryType, Mappings, PlaceType
    <2> QED
      BY <1>1, <2>1, TablesLow DEF Working, StepPcs, Blocks
  <1>5. bad \subseteq bad' /\ \A t \in InfoTables' : t \in bad' => t \in bad
    BY <1>1, <1>4 DEF TablesStay
  <1>6. TablesAged'
    BY <1>1, <1>3, <1>5, AgesFrame DEF Working, StepPcs
  <1> QED
    BY <1>1, <1>6 DEF JobPcs

\* No table gets ahead of the memory.
LEMMA AgesStep ==
  ASSUME TablesOK, ~disorder, ~disorder', Next
  PROVE  AgesOK'
  <1> TypeOK /\ MapOK /\ PlacesOK /\ AgesOK /\ MemoryType /\ TableType /\ PlaceType /\ Inv
    BY DEF TablesOK, Inv, TypeOK
  <1> (TablesStay \/ (pc = "program" /\ pc' = "written")) /\ marked \subseteq marked'
    BY StayStep, MarkStep
  <1> (pc' \in Working => TablesAged') /\ (pc' \in JobPcs => bad' \subseteq cache'.bad \cup marked') => AgesOK'
    BY DEF AgesOK, TablesAged
  <1> SUFFICES (pc' \in Working => TablesAged') /\ (pc' \in JobPcs => bad' \subseteq cache'.bad \cup marked')
    OBVIOUS
  <1> map \in Mappings /\ top \in Int /\ top <= top
    BY DEF MemoryType, PlaceType
  <1>1. CASE WriteSkip
    <2>1. /\ pc \in JobPcs /\ UNCHANGED <<cache, map, top>> /\ bad' = bad \cup {job.ba}
          /\ job.ba \in bad \cup marked'
      BY <1>1 DEF WriteSkip, phys, loc, JobPcs
    <2>2. job.ba \notin InfoTables'
      BY <1>1, JobBlock
    <2>3. bad \subseteq bad' /\ \A t \in InfoTables' : t \in bad' => t \in bad
      BY <2>1, <2>2
    <2>4. TablesStay
      BY <1>1 DEF WriteSkip, GoTo, Advance
    <2>5. TablesAged'
      BY <2>1, <2>3, <2>4, AgesFrame DEF Working
    <2>6. bad' \subseteq cache'.bad \cup marked'
      BY <2>1 DEF AgesOK
    <2> QED
      BY <2>5, <2>6
  <1>2. CASE WriteErase
    <2>1. /\ pc \in Working /\ UNCHANGED <<bad, cache, map, top>>
          /\ pc' \in JobPcs => pc \in JobPcs
          /\ ~(pc = "program" /\ pc' = "written")
      BY <1>2 DEF WriteErase, phys, mem, loc, GoTo, Write, EraseRange, Written, NoRoom, RangeOver, Advance, Job, JobPcs, StepPcs, Working
    <2> QED
      BY <2>1, AgesQuiet
  <1>3. CASE WriteProgram
    <2>1. /\ pc \in Working /\ pc = "program" /\ UNCHANGED <<marked, bad, cache, map, top>>
          /\ flash' = [flash EXCEPT ![job.ba] = cache]
      BY <1>3 DEF WriteProgram, mem, loc, Working, JobPcs
    <2>2. job.ba \notin bad /\ cache.bad \subseteq bad /\ cache.map = map
      BY <2>1 DEF TablesOK, CacheOK, JobPcs
    <2>3. Clear(map, top)
      BY DEF MapOK, Clear
    <2>4. Reaches(map, map) /\ cache.wc <= cache.wc
      <3>1. cache.wc \in Int /\ \A lb \in LogicBlocks : map[lb] \in Int
        BY DEF TablesOK, ControlOK, MemoryType, Mappings
      <3> QED
        BY <3>1 DEF Reaches
    <2>5. \A t \in InfoTables' : (t \in InfoTables /\ flash'[t] = flash[t]) \/ (t = job.ba /\ flash'[t] = cache)
      BY <2>1 DEF InfoTables, TableType
    <2>6. TablesAged'
      BY <2>1, <2>2, <2>3, <2>4, <2>5 DEF TablesAged, AgesOK, Clear, Reaches
    <2> QED
      BY <2>1, <2>6 DEF AgesOK, JobPcs
  <1>4. CASE WriteFails
    <2>1. /\ pc \in JobPcs /\ UNCHANGED <<cache, map, top>> /\ bad' = bad \cup {job.ba}
          /\ job.ba \in bad \cup marked'
      BY <1>4 DEF WriteFails, phys, loc, JobPcs
    <2>2. job.ba \notin InfoTables'
      BY <1>4, JobBlock
    <2>3. bad \subseteq bad' /\ \A t \in InfoTables' : t \in bad' => t \in bad
      BY <2>1, <2>2
    <2>4. TablesStay
      BY <1>4 DEF WriteFails, GoTo, Advance
    <2>5. TablesAged'
      BY <2>1, <2>3, <2>4, AgesFrame DEF Working
    <2>6. bad' \subseteq cache'.bad \cup marked'
      BY <2>1 DEF AgesOK
    <2> QED
      BY <2>5, <2>6
  <1>5. CASE WriteNoRoom
    <2>1. /\ pc \in Working /\ UNCHANGED <<bad, cache, map, top>>
          /\ pc' \in JobPcs => pc \in JobPcs
          /\ ~(pc = "program" /\ pc' = "written")
      BY <1>5 DEF WriteNoRoom, phys, mem, loc, GoTo, Write, EraseRange, Written, NoRoom, RangeOver, Advance, Job, JobPcs, StepPcs, Working
    <2> QED
      BY <2>1, AgesQuiet
  <1>6. CASE RangeSkip
    <2>1. /\ pc \in JobPcs /\ UNCHANGED <<cache, map, top>> /\ bad' = bad \cup {job.ba}
          /\ job.ba \in bad \cup marked'
      BY <1>6 DEF RangeSkip, phys, loc, JobPcs
    <2>2. job.ba \notin InfoTables'
      BY <1>6, JobBlock
    <2>3. bad \subseteq bad' /\ \A t \in InfoTables' : t \in bad' => t \in bad
      BY <2>1, <2>2
    <2>4. TablesStay
      BY <1>6 DEF RangeSkip, GoTo, Advance
    <2>5. TablesAged'
      BY <2>1, <2>3, <2>4, AgesFrame DEF Working
    <2>6. bad' \subseteq cache'.bad \cup marked'
      BY <2>1 DEF AgesOK
    <2> QED
      BY <2>5, <2>6
  <1>7. CASE RangeErase
    <2>1. /\ pc \in Working /\ UNCHANGED <<bad, cache, map, top>>
          /\ pc' \in JobPcs => pc \in JobPcs
          /\ ~(pc = "program" /\ pc' = "written")
      BY <1>7 DEF RangeErase, phys, mem, loc, GoTo, Write, EraseRange, Written, NoRoom, RangeOver, Advance, Job, JobPcs, StepPcs, Working
    <2> QED
      BY <2>1, AgesQuiet
  <1>8. CASE RangeFails
    <2>1. /\ pc \in JobPcs /\ UNCHANGED <<cache, map, top>> /\ bad' = bad \cup {job.ba}
          /\ job.ba \in bad \cup marked'
      BY <1>8 DEF RangeFails, phys, loc, JobPcs
    <2>2. job.ba \notin InfoTables'
      BY <1>8, JobBlock
    <2>3. bad \subseteq bad' /\ \A t \in InfoTables' : t \in bad' => t \in bad
      BY <2>1, <2>2
    <2>4. TablesStay
      BY <1>8 DEF RangeFails, GoTo, Advance
    <2>5. TablesAged'
      BY <2>1, <2>3, <2>4, AgesFrame DEF Working
    <2>6. bad' \subseteq cache'.bad \cup marked'
      BY <2>1 DEF AgesOK
    <2> QED
      BY <2>5, <2>6
  <1>9. CASE RebuildMainWritten
    <2>1. /\ pc \in Working /\ UNCHANGED <<bad, cache, map, top>>
          /\ pc' \in JobPcs => pc \in JobPcs
          /\ ~(pc = "program" /\ pc' = "written")
      BY <1>9 DEF RebuildMainWritten, RebuildReturns, phys, mem, loc, GoTo, Write, EraseRange, Written, NoRoom, RangeOver, Advance, Job, JobPcs, StepPcs, Working
    <2> QED
      BY <2>1, AgesQuiet
  <1>10. CASE RebuildMainFails
    <2>1. /\ pc \in Working /\ UNCHANGED <<bad, cache, map, top>>
          /\ pc' \in JobPcs => pc \in JobPcs
          /\ ~(pc = "program" /\ pc' = "written")
      BY <1>10 DEF RebuildMainFails, phys, mem, loc, GoTo, Write, EraseRange, Written, NoRoom, RangeOver, Advance, Job, JobPcs, StepPcs, Working
    <2> QED
      BY <2>1, AgesQuiet
  <1>11. CASE RebuildBackupWritten
    <2>1. /\ pc \in Working /\ UNCHANGED <<bad, cache, map, top>>
          /\ pc' \in JobPcs => pc \in JobPcs
          /\ ~(pc = "program" /\ pc' = "written")
      BY <1>11 DEF RebuildBackupWritten, phys, mem, loc, GoTo, Write, EraseRange, Written, NoRoom, RangeOver, Advance, Job, JobPcs, StepPcs, Working
    <2> QED
      BY <2>1, AgesQuiet
  <1>12. CASE RebuildBackupFails
    <2>1. /\ pc \in Working /\ UNCHANGED <<bad, cache, map, top>>
          /\ pc' \in JobPcs => pc \in JobPcs
          /\ ~(pc = "program" /\ pc' = "written")
      BY <1>12 DEF RebuildBackupFails, RebuildReturns, phys, mem, loc, GoTo, Write, EraseRange, Written, NoRoom, RangeOver, Advance, Job, JobPcs, StepPcs, Working
    <2> QED
      BY <2>1, AgesQuiet
  <1>13. CASE Rebuilt
    <2>1. /\ pc \in Working /\ UNCHANGED <<bad, cache, map, top>>
          /\ pc' \in JobPcs => pc \in JobPcs
          /\ ~(pc = "program" /\ pc' = "written")
      BY <1>13 DEF Rebuilt, RebuildReturns, phys, mem, loc, GoTo, Write, EraseRange, Written, NoRoom, RangeOver, Advance, Job, JobPcs, StepPcs, Working
    <2> QED
      BY <2>1, AgesQuiet
  <1>14. CASE UpdateOver
    <2>1. /\ pc \in Working /\ UNCHANGED <<bad, cache, map, top>>
          /\ pc' \in JobPcs => pc \in JobPcs
          /\ ~(pc = "program" /\ pc' = "written")
      BY <1>14 DEF UpdateOver, phys, mem, loc, GoTo, Write, EraseRange, Written, NoRoom, RangeOver, Advance, Job, JobPcs, StepPcs, Working
    <2> QED
      BY <2>1, AgesQuiet
  <1>15. CASE UpdateOnce
    <2>1. /\ pc = "update" /\ UNCHANGED <<bad, map, top>>
          /\ wc' = wc + 1 /\ cache'.wc = wc' /\ cache'.bad = bad
      BY <1>15 DEF UpdateOnce, Generate, Table, loc
    <2>2. cache.wc = wc /\ wc \in Nat
      BY <2>1 DEF TablesOK, OrderOK, ControlOK, Working, StepPcs, Table
    <2>3. TablesAged'
      BY <2>1, <2>2, AgesFrame DEF Working, StepPcs
    <2> QED
      BY <2>1, <2>3
  <1>16. CASE OnceBackupWritten
    <2>1. /\ pc \in Working /\ UNCHANGED <<bad, cache, map, top>>
          /\ pc' \in JobPcs => pc \in JobPcs
          /\ ~(pc = "program" /\ pc' = "written")
      BY <1>16 DEF OnceBackupWritten, phys, mem, loc, GoTo, Write, EraseRange, Written, NoRoom, RangeOver, Advance, Job, JobPcs, StepPcs, Working
    <2> QED
      BY <2>1, AgesQuiet
  <1>17. CASE OnceBackupFails
    <2>1. /\ pc \in Working /\ UNCHANGED <<bad, cache, map, top>>
          /\ pc' \in JobPcs => pc \in JobPcs
          /\ ~(pc = "program" /\ pc' = "written")
      BY <1>17 DEF OnceBackupFails, phys, mem, loc, GoTo, Write, EraseRange, Written, NoRoom, RangeOver, Advance, Job, JobPcs, StepPcs, Working
    <2> QED
      BY <2>1, AgesQuiet
  <1>18. CASE OnceMainWritten
    <2>1. /\ pc \in Working /\ UNCHANGED <<bad, cache, map, top>>
          /\ pc' \in JobPcs => pc \in JobPcs
          /\ ~(pc = "program" /\ pc' = "written")
      BY <1>18 DEF OnceMainWritten, phys, mem, loc, GoTo, Write, EraseRange, Written, NoRoom, RangeOver, Advance, Job, JobPcs, StepPcs, Working
    <2> QED
      BY <2>1, AgesQuiet
  <1>19. CASE OnceMainFailsAlone
    <2>1. /\ pc \in Working /\ UNCHANGED <<bad, cache, map, top>>
          /\ pc' \in JobPcs => pc \in JobPcs
          /\ ~(pc = "program" /\ pc' = "written")
      BY <1>19 DEF OnceMainFailsAlone, RebuildFrom, phys, mem, loc, GoTo, Write, EraseRange, Written, NoRoom, RangeOver, Advance, Job, JobPcs, StepPcs, Working
    <2> QED
      BY <2>1, AgesQuiet
  <1>20. CASE Updated
    <2>1. /\ pc = "updated" /\ pc' \in {"update", "mark", "idle"} /\ UNCHANGED <<bad, map, cache>>
          /\ top' \in {mba, top}
      BY <1>20 DEF Updated, AfterOp, GoTo, mem
    <2>2. top' \in Int /\ top' <= top
      BY <2>1 DEF TablesOK, OrderOK, Working, StepPcs, PlaceType
    <2>3. TablesAged'
      BY <2>1, <2>2, AgesFrame DEF Working, StepPcs
    <2> QED
      BY <2>1, <2>3 DEF JobPcs
  <1>21. CASE RescueMain
    <2>1. /\ pc \in Working /\ UNCHANGED <<bad, cache, map, top>>
          /\ pc' \in JobPcs => pc \in JobPcs
          /\ ~(pc = "program" /\ pc' = "written")
      BY <1>21 DEF RescueMain, BackupBecomesMain, phys, mem, loc, GoTo, Write, EraseRange, Written, NoRoom, RangeOver, Advance, Job, JobPcs, StepPcs, Working
    <2> QED
      BY <2>1, AgesQuiet
  <1>22. CASE RescueTmpWritten
    <2>1. /\ pc \in Working /\ UNCHANGED <<bad, cache, map, top>>
          /\ pc' \in JobPcs => pc \in JobPcs
          /\ ~(pc = "program" /\ pc' = "written")
      BY <1>22 DEF RescueTmpWritten, phys, mem, loc, GoTo, Write, EraseRange, Written, NoRoom, RangeOver, Advance, Job, JobPcs, StepPcs, Working
    <2> QED
      BY <2>1, AgesQuiet
  <1>23. CASE RescueTmpFails
    <2>1. /\ pc \in Working /\ UNCHANGED <<bad, cache, map, top>>
          /\ pc' \in JobPcs => pc \in JobPcs
          /\ ~(pc = "program" /\ pc' = "written")
      BY <1>23 DEF RescueTmpFails, BackupBecomesMain, phys, mem, loc, GoTo, Write, EraseRange, Written, NoRoom, RangeOver, Advance, Job, JobPcs, StepPcs, Working
    <2> QED
      BY <2>1, AgesQuiet
  <1>24. CASE RescueMainWritten
    <2>1. /\ pc \in Working /\ UNCHANGED <<bad, cache, map, top>>
          /\ pc' \in JobPcs => pc \in JobPcs
          /\ ~(pc = "program" /\ pc' = "written")
      BY <1>24 DEF RescueMainWritten, phys, mem, loc, GoTo, Write, EraseRange, Written, NoRoom, RangeOver, Advance, Job, JobPcs, StepPcs, Working
    <2> QED
      BY <2>1, AgesQuiet
  <1>25. CASE RescueMainFails
    <2>1. /\ pc \in Working /\ UNCHANGED <<bad, cache, map, top>>
          /\ pc' \in JobPcs => pc \in JobPcs
          /\ ~(pc = "program" /\ pc' = "written")
      BY <1>25 DEF RescueMainFails, phys, mem, loc, GoTo, Write, EraseRange, Written, NoRoom, RangeOver, Advance, Job, JobPcs, StepPcs, Working
    <2> QED
      BY <2>1, AgesQuiet
  <1>26. CASE LoadOne
    <2>1. PICK a \in Blocks : LoadsOne(a)
      BY <1>26, LoadOneDoes
    <2>2. Attaches(a)
      BY <2>1 DEF LoadsOne
    <2> QED
      BY <2>2, AttachAges
  <1>27. CASE LoadTwo
    <2>1. PICK a, b \in Blocks : LoadsTwo(a, b)
      BY <1>27, LoadTwoDoes
    <2>2. PICK c \in Blocks : Attaches(c)
      BY <2>1 DEF LoadsTwo
    <2> QED
      BY <2>2, AttachAges
  <1>28. CASE SingleMainWritten
    <2>1. /\ pc \in Working /\ UNCHANGED <<bad, cache, map, top>>
          /\ pc' \in JobPcs => pc \in JobPcs
          /\ ~(pc = "program" /\ pc' = "written")
      BY <1>28 DEF SingleMainWritten, LoadReturns, phys, mem, loc, GoTo, Write, EraseRange, Written, NoRoom, RangeOver, Advance, Job, JobPcs, StepPcs, Working
    <2> QED
      BY <2>1, AgesQuiet
  <1>29. CASE SingleMainFails
    <2>1. /\ pc \in Working /\ UNCHANGED <<bad, cache, map, top>>
          /\ pc' \in JobPcs => pc \in JobPcs
          /\ ~(pc = "program" /\ pc' = "written")
      BY <1>29 DEF SingleMainFails, BackupBecomesMain, phys, mem, loc, GoTo, Write, EraseRange, Written, NoRoom, RangeOver, Advance, Job, JobPcs, StepPcs, Working
    <2> QED
      BY <2>1, AgesQuiet
  <1>30. CASE SingleBackupWritten
    <2>1. /\ pc \in Working /\ UNCHANGED <<bad, cache, map, top>>
          /\ pc' \in JobPcs => pc \in JobPcs
          /\ ~(pc = "program" /\ pc' = "written")
      BY <1>30 DEF SingleBackupWritten, LoadReturns, phys, mem, loc, GoTo, Write, EraseRange, Written, NoRoom, RangeOver, Advance, Job, JobPcs, StepPcs, Working
    <2> QED
      BY <2>1, AgesQuiet
  <1>31. CASE SingleBackupFails
    <2>1. /\ pc \in Working /\ UNCHANGED <<bad, cache, map, top>>
          /\ pc' \in JobPcs => pc \in JobPcs
          /\ ~(pc = "program" /\ pc' = "written")
      BY <1>31 DEF SingleBackupFails, LoadReturns, phys, mem, loc, GoTo, Write, EraseRange, Written, NoRoom, RangeOver, Advance, Job, JobPcs, StepPcs, Working
    <2> QED
      BY <2>1, AgesQuiet
  <1>32. CASE FrontWritten
    <2>1. /\ pc \in Working /\ UNCHANGED <<bad, cache, map, top>>
          /\ pc' \in JobPcs => pc \in JobPcs
          /\ ~(pc = "program" /\ pc' = "written")
      BY <1>32 DEF FrontWritten, phys, mem, loc, GoTo, Write, EraseRange, Written, NoRoom, RangeOver, Advance, Job, JobPcs, StepPcs, Working
    <2> QED
      BY <2>1, AgesQuiet
  <1>33. CASE FrontCleaned
    <2>1. /\ pc \in Working /\ UNCHANGED <<bad, cache, map, top>>
          /\ pc' \in JobPcs => pc \in JobPcs
          /\ ~(pc = "program" /\ pc' = "written")
      BY <1>33 DEF FrontCleaned, LoadReturns, phys, mem, loc, GoTo, Write, EraseRange, Written, NoRoom, RangeOver, Advance, Job, JobPcs, StepPcs, Working
    <2> QED
      BY <2>1, AgesQuiet
  <1>34. CASE FrontFails
    <2>1. /\ pc \in Working /\ UNCHANGED <<bad, cache, map, top>>
          /\ pc' \in JobPcs => pc \in JobPcs
          /\ ~(pc = "program" /\ pc' = "written")
      BY <1>34 DEF FrontFails, LoadReturns, phys, mem, loc, GoTo, Write, EraseRange, Written, NoRoom, RangeOver, Advance, Job, JobPcs, StepPcs, Working
    <2> QED
      BY <2>1, AgesQuiet
  <1>35. CASE NextWritten
    <2>1. /\ pc \in Working /\ UNCHANGED <<bad, cache, map, top>>
          /\ pc' \in JobPcs => pc \in JobPcs
          /\ ~(pc = "program" /\ pc' = "written")
      BY <1>35 DEF NextWritten, phys, mem, loc, GoTo, Write, EraseRange, Written, NoRoom, RangeOver, Advance, Job, JobPcs, StepPcs, Working
    <2> QED
      BY <2>1, AgesQuiet
  <1>36. CASE NextCleaned
    <2>1. /\ pc \in Working /\ UNCHANGED <<bad, cache, map, top>>
          /\ pc' \in JobPcs => pc \in JobPcs
          /\ ~(pc = "program" /\ pc' = "written")
      BY <1>36 DEF NextCleaned, LoadReturns, phys, mem, loc, GoTo, Write, EraseRange, Written, NoRoom, RangeOver, Advance, Job, JobPcs, StepPcs, Working
    <2> QED
      BY <2>1, AgesQuiet
  <1>37. CASE NextFails
    <2>1. /\ pc \in Working /\ UNCHANGED <<bad, cache, map, top>>
          /\ pc' \in JobPcs => pc \in JobPcs
          /\ ~(pc = "program" /\ pc' = "written")
      BY <1>37 DEF NextFails, LoadReturns, phys, mem, loc, GoTo, Write, EraseRange, Written, NoRoom, RangeOver, Advance, Job, JobPcs, StepPcs, Working
    <2> QED
      BY <2>1, AgesQuiet
  <1>38. CASE CreateNew
    <2>1. pc' \notin Working
      BY <1>38 DEF CreateNew, GoTo, Working, JobPcs, StepPcs
    <2> QED
      BY <2>1 DEF Working
  <1>39. CASE CreateAgain
    <2>1. pc' \notin Working
      BY <1>39 DEF CreateAgain, GoTo, Working, JobPcs, StepPcs
    <2> QED
      BY <2>1 DEF Working
  <1>40. CASE SignSkip
    <2>1. pc' \notin Working
      BY <1>40 DEF SignSkip, GoTo, Working, JobPcs, StepPcs
    <2> QED
      BY <2>1 DEF Working
  <1>41. CASE SignWrite
    <2>1. pc' \notin Working
      BY <1>41 DEF SignWrite, GoTo, Working, JobPcs, StepPcs
    <2> QED
      BY <2>1 DEF Working
  <1>42. CASE SignFails
    <2>1. pc' \notin Working
      BY <1>42 DEF SignFails, GoTo, Working, JobPcs, StepPcs
    <2> QED
      BY <2>1 DEF Working
  <1>43. CASE CreateInfoTable
    <2>1. pc = "create" /\ UNCHANGED <<flash, bad>> /\ cache'.bad = bad
      BY <1>43 DEF CreateInfoTable, Generate, Table, phys
    <2>2. InfoTables' = {}
      BY <2>1 DEF TablesOK, WhereOK, InfoTables
    <2> QED
      BY <2>1, <2>2 DEF TablesAged
  <1>44. CASE MapTail
    <2>1. /\ dbc \in LogicBlocks /\ pc = "tail" /\ UNCHANGED <<pc, bad, cache>> /\ MapTo(dbc, bad)
      BY <1>44, NmbmConstants DEF MapTail, MemoryType, LogicBlocks
    <2>2. MapsOne(dbc) /\ map' \in Mappings
      BY <2>1, MapToTakes DEF MapsOne, MemoryType
    <2>3. Reaches(map', map) /\ top' <= top /\ top' \in Int
      BY <2>1, <2>2, MapReaches DEF PlacesOK, StepPcs
    <2>4. TablesAged'
      BY <2>1, <2>2, <2>3, AgesFrame DEF Working, StepPcs
    <2> QED
      BY <2>1, <2>4 DEF JobPcs
  <1>45. CASE TailOver
    <2>1. /\ pc \in Working /\ UNCHANGED <<bad, cache, map, top>>
          /\ pc' \in JobPcs => pc \in JobPcs
          /\ ~(pc = "program" /\ pc' = "written")
      BY <1>45 DEF TailOver, phys, mem, loc, GoTo, Write, EraseRange, Written, NoRoom, RangeOver, Advance, Job, JobPcs, StepPcs, Working
    <2> QED
      BY <2>1, AgesQuiet
  <1>46. CASE MoveBlock
    <2>1. /\ pc \in Working /\ UNCHANGED <<bad, cache, map, top>>
          /\ pc' \in JobPcs => pc \in JobPcs
          /\ ~(pc = "program" /\ pc' = "written")
      BY <1>46 DEF MoveBlock, phys, mem, loc, GoTo, Write, EraseRange, Written, NoRoom, RangeOver, Advance, Job, JobPcs, StepPcs, Working
    <2> QED
      BY <2>1, AgesQuiet
  <1>47. CASE MoveFails
    <2>1. /\ pc \in Working /\ UNCHANGED <<bad, cache, map, top>>
          /\ pc' \in JobPcs => pc \in JobPcs
          /\ ~(pc = "program" /\ pc' = "written")
      BY <1>47 DEF MoveFails, Fault, phys, mem, loc, GoTo, Write, EraseRange, Written, NoRoom, RangeOver, Advance, Job, JobPcs, StepPcs, Working
    <2> QED
      BY <2>1, AgesQuiet
  <1>48. CASE MarkOld
    <2>1. /\ pc \in Working /\ UNCHANGED <<bad, cache, map, top>>
          /\ pc' \in JobPcs => pc \in JobPcs
          /\ ~(pc = "program" /\ pc' = "written")
      BY <1>48 DEF MarkOld, phys, mem, loc, GoTo, Write, EraseRange, Written, NoRoom, RangeOver, Advance, Job, JobPcs, StepPcs, Working
    <2> QED
      BY <2>1, AgesQuiet
  <1>49. CASE WriteBlock
    <2>1. /\ pc \in Working /\ UNCHANGED <<bad, cache, map, top>>
          /\ pc' \in JobPcs => pc \in JobPcs
          /\ ~(pc = "program" /\ pc' = "written")
      BY <1>49 DEF WriteBlock, phys, mem, loc, GoTo, Write, EraseRange, Written, NoRoom, RangeOver, Advance, Job, JobPcs, StepPcs, Working
    <2> QED
      BY <2>1, AgesQuiet
  <1>50. CASE WriteBlockFails
    <2>1. PICK lb \in LogicBlocks, copy \in BOOLEAN, mk \in BOOLEAN : Remap(lb, copy, mk)
      BY <1>50 DEF WriteBlockFails, Loses
    <2>2. TablesStay
      BY <2>1 DEF Remap
    <2> QED
      BY <2>1, <2>2, RemapAges
  <1>51. CASE ReadBlockWeak
    <2>1. PICK lb \in LogicBlocks, copy \in BOOLEAN, mk \in BOOLEAN : Remap(lb, copy, mk)
      BY <1>51 DEF ReadBlockWeak
    <2>2. TablesStay
      BY <2>1 DEF Remap
    <2> QED
      BY <2>1, <2>2, RemapAges
  <1>52. CASE MarkBad
    <2>1. PICK lb \in LogicBlocks, copy \in BOOLEAN, mk \in BOOLEAN : Remap(lb, copy, mk)
      BY <1>52 DEF MarkBad
    <2>2. TablesStay
      BY <2>1 DEF Remap
    <2> QED
      BY <2>1, <2>2, RemapAges
  <1>53. CASE IsBad
    <2>1. PICK lb \in LogicBlocks, copy \in BOOLEAN, mk \in BOOLEAN : Remap(lb, copy, mk)
      BY <1>53 DEF IsBad
    <2>2. TablesStay
      BY <2>1 DEF Remap
    <2> QED
      BY <2>1, <2>2, RemapAges
  <1>54. CASE PowerLoss
    <2>1. pc' \notin Working
      BY <1>54 DEF PowerLoss, GoTo, Working, JobPcs, StepPcs
    <2> QED
      BY <2>1 DEF Working
  <1>55. CASE WritePageFails
    <2>1. PICK lb \in LogicBlocks, copy \in BOOLEAN, mk \in BOOLEAN : Remap(lb, copy, mk)
      BY <1>55 DEF WritePageFails
    <2>2. TablesStay
      BY <2>1 DEF Remap
    <2> QED
      BY <2>1, <2>2, RemapAges
  <1>56. CASE ReadBlockFails
    <2>1. PICK lb \in LogicBlocks, copy \in BOOLEAN, mk \in BOOLEAN : Remap(lb, copy, mk)
      BY <1>56 DEF ReadBlockFails, Loses
    <2>2. TablesStay
      BY <2>1 DEF Remap
    <2> QED
      BY <2>1, <2>2, RemapAges
  <1> QED
    BY <1>1, <1>2, <1>3, <1>4, <1>5, <1>6, <1>7, <1>8, <1>9, <1>10, <1>11, <1>12,
       <1>13, <1>14, <1>15, <1>16, <1>17, <1>18, <1>19, <1>20, <1>21, <1>22, <1>23, <1>24,
       <1>25, <1>26, <1>27, <1>28, <1>29, <1>30, <1>31, <1>32, <1>33, <1>34, <1>35, <1>36,
       <1>37, <1>38, <1>39, <1>40, <1>41, <1>42, <1>43, <1>44, <1>45, <1>46, <1>47, <1>48,
       <1>49, <1>50, <1>51, <1>52, <1>53, <1>54, <1>55, <1>56
       DEF Next, Driver, WriteRange, ErasingRange, Rebuild, Update, Rescue, Load,
           RescueSingle, Create, RemapRest, Users

SigsStay == \A s \in Blocks : flash'[s] = Signature <=> flash[s] = Signature

LEMMA SigsBlock ==
  ASSUME TypeOK, SigOK, NEW x, NEW v, v # Signature, flash' = [flash EXCEPT ![x] = v],
         x # sig, flash[sig] = Signature
  PROVE  SigsStay
  <1>1. sig \in Blocks /\ \A s \in Blocks : flash[s] = Signature => s = sig
    BY DEF SigOK, TypeOK, PlaceType
  <1>2. \A s \in Blocks : flash'[s] = IF s = x THEN v ELSE flash[s]
    BY DEF TypeOK, TableType
  <1> QED
    BY <1>1, <1>2 DEF SigsStay

\* A signature is written to a chip without tables only.
LEMMA SigsStep ==
  ASSUME TablesOK, Next
  PROVE  SigsStay \/ InfoTables' = {}
  <1> TypeOK /\ JobOK /\ SigOK /\ BoundsOK /\ WhereOK
    BY DEF TablesOK, Inv
  <1> TablesStay \/ (pc = "program" /\ pc' = "written")
    BY StayStep
  <1> USE NmbmConstants
  <1>1. CASE WriteSkip
    BY <1>1 DEF WriteSkip, phys, SigsStay
  <1>2. CASE WriteErase
    <2>1. pc \in JobPcs /\ job.ba < job.limit /\ flash' = [flash EXCEPT ![job.ba] = Erased]
      BY <1>2 DEF WriteErase, JobPcs, JobOK
    <2>2. job.ba # sig /\ flash[sig] = Signature
      BY <2>1 DEF BoundsOK, SigOK, Attached, TypeOK, PlaceType, ControlType, Blocks
    <2>3. Erased # Signature
      BY DEF Erased, Torn, Signature, TypeOK, TableType
    <2> QED
      BY <2>1, <2>2, <2>3, SigsBlock
  <1>3. CASE WriteProgram
    <2>1. pc \in JobPcs /\ job.ba < job.limit /\ flash' = [flash EXCEPT ![job.ba] = cache]
      BY <1>3 DEF WriteProgram, JobPcs, JobOK
    <2>2. job.ba # sig /\ flash[sig] = Signature
      BY <2>1 DEF BoundsOK, SigOK, Attached, TypeOK, PlaceType, ControlType, Blocks
    <2>3. cache # Signature
      BY DEF Erased, Torn, Signature, TypeOK, TableType
    <2> QED
      BY <2>1, <2>2, <2>3, SigsBlock
  <1>4. CASE WriteFails
    <2>1. pc \in JobPcs /\ job.ba < job.limit /\ flash' = [flash EXCEPT ![job.ba] = Torn]
      BY <1>4 DEF WriteFails, JobPcs, JobOK
    <2>2. job.ba # sig /\ flash[sig] = Signature
      BY <2>1 DEF BoundsOK, SigOK, Attached, TypeOK, PlaceType, ControlType, Blocks
    <2>3. Torn # Signature
      BY DEF Erased, Torn, Signature, TypeOK, TableType
    <2> QED
      BY <2>1, <2>2, <2>3, SigsBlock
  <1>5. CASE WriteNoRoom
    BY <1>5 DEF WriteNoRoom, phys, SigsStay
  <1>6. CASE RangeSkip
    BY <1>6 DEF RangeSkip, phys, SigsStay
  <1>7. CASE RangeErase
    <2>1. pc \in JobPcs /\ job.ba < job.limit /\ flash' = [flash EXCEPT ![job.ba] = Erased]
      BY <1>7 DEF RangeErase, JobPcs, JobOK
    <2>2. job.ba # sig /\ flash[sig] = Signature
      BY <2>1 DEF BoundsOK, SigOK, Attached, TypeOK, PlaceType, ControlType, Blocks
    <2>3. Erased # Signature
      BY DEF Erased, Torn, Signature, TypeOK, TableType
    <2> QED
      BY <2>1, <2>2, <2>3, SigsBlock
  <1>8. CASE RangeFails
    <2>1. pc \in JobPcs /\ job.ba < job.limit /\ flash' = [flash EXCEPT ![job.ba] = Torn]
      BY <1>8 DEF RangeFails, JobPcs, JobOK
    <2>2. job.ba # sig /\ flash[sig] = Signature
      BY <2>1 DEF BoundsOK, SigOK, Attached, TypeOK, PlaceType, ControlType, Blocks
    <2>3. Torn # Signature
      BY DEF Erased, Torn, Signature, TypeOK, TableType
    <2> QED
      BY <2>1, <2>2, <2>3, SigsBlock
  <1>9. CASE RebuildMainWritten
    BY <1>9 DEF RebuildMainWritten, phys, SigsStay
  <1>10. CASE RebuildMainFails
    BY <1>10 DEF RebuildMainFails, phys, SigsStay
  <1>11. CASE RebuildBackupWritten
    BY <1>11 DEF RebuildBackupWritten, phys, SigsStay
  <1>12. CASE RebuildBackupFails
    BY <1>12 DEF RebuildBackupFails, phys, SigsStay
  <1>13. CASE Rebuilt
    BY <1>13 DEF Rebuilt, phys, SigsStay
  <1>14. CASE UpdateOver
    BY <1>14 DEF UpdateOver, phys, SigsStay
  <1>15. CASE UpdateOnce
    BY <1>15 DEF UpdateOnce, phys, SigsStay
  <1>16. CASE OnceBackupWritten
    BY <1>16 DEF OnceBackupWritten, phys, SigsStay
  <1>17. CASE OnceBackupFails
    BY <1>17 DEF OnceBackupFails, phys, SigsStay
  <1>18. CASE OnceMainWritten
    BY <1>18 DEF OnceMainWritten, phys, SigsStay
  <1>19. CASE OnceMainFailsAlone
    BY <1>19 DEF OnceMainFailsAlone, phys, SigsStay
  <1>20. CASE Updated
    BY <1>20 DEF Updated, phys, SigsStay
  <1>21. CASE RescueMain
    BY <1>21 DEF RescueMain, phys, SigsStay
  <1>22. CASE RescueTmpWritten
    BY <1>22 DEF RescueTmpWritten, phys, SigsStay
  <1>23. CASE RescueTmpFails
    BY <1>23 DEF RescueTmpFails, phys, SigsStay
  <1>24. CASE RescueMainWritten
    BY <1>24 DEF RescueMainWritten, phys, SigsStay
  <1>25. CASE RescueMainFails
    BY <1>25 DEF RescueMainFails, phys, SigsStay
  <1>26. CASE LoadOne
    BY <1>26 DEF LoadOne, LoadTable, phys, SigsStay
  <1>27. CASE LoadTwo
    BY <1>27 DEF LoadTwo, LoadPair, LoadTable, phys, SigsStay
  <1>28. CASE SingleMainWritten
    BY <1>28 DEF SingleMainWritten, phys, SigsStay
  <1>29. CASE SingleMainFails
    BY <1>29 DEF SingleMainFails, phys, SigsStay
  <1>30. CASE SingleBackupWritten
    BY <1>30 DEF SingleBackupWritten, phys, SigsStay
  <1>31. CASE SingleBackupFails
    BY <1>31 DEF SingleBackupFails, phys, SigsStay
  <1>32. CASE FrontWritten
    BY <1>32 DEF FrontWritten, phys, SigsStay
  <1>33. CASE FrontCleaned
    BY <1>33 DEF FrontCleaned, phys, SigsStay
  <1>34. CASE FrontFails
    BY <1>34 DEF FrontFails, phys, SigsStay
  <1>35. CASE NextWritten
    BY <1>35 DEF NextWritten, phys, SigsStay
  <1>36. CASE NextCleaned
    BY <1>36 DEF NextCleaned, phys, SigsStay
  <1>37. CASE NextFails
    BY <1>37 DEF NextFails, phys, SigsStay
  <1>38. CASE CreateNew
    BY <1>38 DEF CreateNew, phys, ScanChip, SigsStay
  <1>39. CASE CreateAgain
    BY <1>39 DEF CreateAgain, phys, ScanChip, SigsStay
  <1>40. CASE SignSkip
    BY <1>40 DEF SignSkip, phys, SigsStay
  <1>41. CASE SignWrite
    <2>1. pc = "sign" /\ pc' # "written"
      BY <1>41 DEF SignWrite, GoTo
    <2> QED
      BY <2>1 DEF WhereOK, TablesStay
  <1>42. CASE SignFails
    <2>1. pc = "sign" /\ pc' # "written"
      BY <1>42 DEF SignFails, GoTo
    <2> QED
      BY <2>1 DEF WhereOK, TablesStay
  <1>43. CASE CreateInfoTable
    BY <1>43 DEF CreateInfoTable, phys, SigsStay
  <1>44. CASE MapTail
    BY <1>44 DEF MapTail, phys, SigsStay
  <1>45. CASE TailOver
    BY <1>45 DEF TailOver, phys, SigsStay
  <1>46. CASE MoveBlock
    <2>1. pc = "move" /\ flash' = [flash EXCEPT ![map[op.lb]] = (IF op.copy THEN flash[op.src] ELSE Erased)]
      BY <1>46 DEF MoveBlock
    <2>2. map[op.lb] # sig /\ flash[sig] = Signature /\ op.src # sig /\ op.src \in Blocks
      BY <2>1 DEF BoundsOK, SigOK, Attached, StepPcs, TypeOK, ControlType
    <2>3. (IF op.copy THEN flash[op.src] ELSE Erased) # Signature
      BY <2>2 DEF Erased, Torn, Signature, SigOK, TypeOK, PlaceType
    <2> QED
      BY <2>1, <2>2, <2>3, SigsBlock
  <1>47. CASE MoveFails
    <2>1. pc = "move" /\ flash' = [flash EXCEPT ![map[op.lb]] = Torn]
      BY <1>47 DEF MoveFails
    <2>2. map[op.lb] # sig /\ flash[sig] = Signature /\ op.src # sig /\ op.src \in Blocks
      BY <2>1 DEF BoundsOK, SigOK, Attached, StepPcs, TypeOK, ControlType
    <2>3. Torn # Signature
      BY <2>2 DEF Erased, Torn, Signature, SigOK, TypeOK, PlaceType
    <2> QED
      BY <2>1, <2>2, <2>3, SigsBlock
  <1>48. CASE MarkOld
    BY <1>48 DEF MarkOld, phys, SigsStay
  <1>49. CASE WriteBlock
    <2>1. PICK lb \in LogicBlocks : pc = "idle" /\ flash' = [flash EXCEPT ![map[lb]] = Data(lb)]
      BY <1>49 DEF WriteBlock, Remap
    <2>2. map[lb] # sig /\ flash[sig] = Signature
      BY <2>1 DEF BoundsOK, SigOK, Attached, StepPcs
    <2>3. Data(lb) # Signature
      BY DEF Data, Torn, Signature
    <2> QED
      BY <2>1, <2>2, <2>3, SigsBlock
  <1>50. CASE WriteBlockFails
    <2>1. PICK lb \in LogicBlocks : pc = "idle" /\ flash' = [flash EXCEPT ![map[lb]] = Torn]
      BY <1>50 DEF WriteBlockFails, Loses, Remap
    <2>2. map[lb] # sig /\ flash[sig] = Signature
      BY <2>1 DEF BoundsOK, SigOK, Attached, StepPcs
    <2>3. Torn # Signature
      BY DEF Data, Torn, Signature
    <2> QED
      BY <2>1, <2>2, <2>3, SigsBlock
  <1>51. CASE ReadBlockWeak
    BY <1>51 DEF ReadBlockWeak, phys, SigsStay
  <1>52. CASE MarkBad
    BY <1>52 DEF MarkBad, phys, SigsStay
  <1>53. CASE IsBad
    BY <1>53 DEF IsBad, phys, SigsStay
  <1>54. CASE PowerLoss
    <2>1. CASE flash' = flash
      BY <2>1 DEF SigsStay
    <2>2. CASE Busy /\ flash' = [flash EXCEPT ![job.ba] = Torn]
      <3>1. job.ba # sig /\ flash[sig] = Signature /\ Torn # Signature
        BY <2>2 DEF Busy, BoundsOK, SigOK, Attached, JobPcs, JobOK, TypeOK, PlaceType, ControlType, Blocks, Torn, Signature
      <3> QED
        BY <2>2, <3>1, SigsBlock
    <2>3. CASE pc = "move" /\ flash' = [flash EXCEPT ![map[op.lb]] = Torn]
      <3>1. map[op.lb] # sig /\ flash[sig] = Signature /\ Torn # Signature
        BY <2>3 DEF BoundsOK, SigOK, Attached, StepPcs, TypeOK, ControlType, Torn, Signature
      <3> QED
        BY <2>3, <3>1, SigsBlock
    <2> QED
      BY <1>54, <2>1, <2>2, <2>3 DEF PowerLoss
  <1>55. CASE WritePageFails
    BY <1>55 DEF WritePageFails, phys, SigsStay
  <1>56. CASE ReadBlockFails
    <2>1. PICK lb \in LogicBlocks : pc = "idle" /\ flash' = [flash EXCEPT ![map[lb]] = Torn]
      BY <1>56 DEF ReadBlockFails, Loses, Remap
    <2>2. map[lb] # sig /\ flash[sig] = Signature
      BY <2>1 DEF BoundsOK, SigOK, Attached, StepPcs
    <2>3. Torn # Signature
      BY DEF Data, Torn, Signature
    <2> QED
      BY <2>1, <2>2, <2>3, SigsBlock
  <1> QED
    BY <1>1, <1>2, <1>3, <1>4, <1>5, <1>6, <1>7, <1>8, <1>9, <1>10, <1>11, <1>12,
       <1>13, <1>14, <1>15, <1>16, <1>17, <1>18, <1>19, <1>20, <1>21, <1>22, <1>23, <1>24,
       <1>25, <1>26, <1>27, <1>28, <1>29, <1>30, <1>31, <1>32, <1>33, <1>34, <1>35, <1>36,
       <1>37, <1>38, <1>39, <1>40, <1>41, <1>42, <1>43, <1>44, <1>45, <1>46, <1>47, <1>48,
       <1>49, <1>50, <1>51, <1>52, <1>53, <1>54, <1>55, <1>56
       DEF Next, Driver, WriteRange, ErasingRange, Rebuild, Update, Rescue, Load,
           RescueSingle, Create, RemapRest, Users

\* Besides the table being written there is at most the one at block y, and
\* no room in front of the first of the two.
Other(y) == /\ InfoTables \subseteq {y, job.ba}
            /\ y < job.ba => Unusable(y, bad)
            /\ job.ba < y => Unusable(job.ba, bad)

LEMMA OneOther ==
  ASSUME TablesOK, pc = "program"
  PROVE  \E y \in Blocks : Other(y)
  <1> USE NmbmConstants DEF JobPcs, Other
  <1>1. /\ TypeOK /\ JobOK /\ BoundsOK /\ PlanOK /\ OrderOK /\ PrefixOK
        /\ \A t \in InfoTables : MayHold(t) /\ t \in Blocks /\ t >= MgmtStart
    BY DEF TablesOK, Inv, WhereOK, ChipOK, InfoTables
  <1>2. /\ main \in Blocks /\ backup \in Blocks /\ job.ba \in Int /\ job.limit \in Int /\ job.wba \in Int
        /\ job.ba < job.limit /\ job.limit <= top /\ top \in Int /\ job.ba >= MgmtStart
        /\ sig \in Blocks /\ top < sig
    BY <1>1 DEF TypeOK, PlaceType, ControlType, JobOK, BoundsOK
  <1>3. job.ba \in Blocks
    BY <1>2 DEF Blocks
  <1>4. job.ba \notin bad \cup marked
    BY DEF TablesOK, CacheOK
  <1>5. job.k \in Jobs \ {"none", "sign", "rebuilt"}
    BY <1>1 DEF TablesOK, ControlOK, OrderOK, TypeOK, ControlType
  <1>6. CASE job.k = "rebuildMain"
    BY <1>1, <1>2, <1>3, <1>6 DEF MayHold, Blocks
  <1>7. CASE job.k \in {"rebuildBackup", "next"}
    BY <1>1, <1>2, <1>7 DEF MayHold, PrefixOK, AboveMain, PlanOK, Blocks
  <1>8. CASE job.k \in {"onceBackup", "singleBackup"}
    <2>1. \A t \in InfoTables : t = main \/ t = job.ba
      BY <1>1, <1>2, <1>8 DEF MayHold, OrderOK, Blocks
    <2>2. main < job.ba /\ Unusable(main, bad)
      BY <1>1, <1>8 DEF PlanOK, AboveMain, PrefixOK
    <2> QED
      BY <1>2, <2>1, <2>2 DEF Blocks
  <1>9. CASE job.k \in {"onceMain", "singleMain"} /\ backup # 0
    <2>1. \A t \in InfoTables : t = backup \/ t = job.ba
      BY <1>1, <1>2, <1>9 DEF MayHold, OrderOK, Blocks
    <2>2. job.ba < backup /\ Unusable(job.ba, bad)
      BY <1>1, <1>2, <1>9 DEF PlanOK, JobOK, PrefixOK
    <2> QED
      BY <1>2, <2>1, <2>2 DEF Blocks
  <1>10. CASE job.k \in {"onceMain", "singleMain"} /\ backup = 0
    <2>1. \A t \in InfoTables : t = job.ba
      BY <1>1, <1>2, <1>10 DEF MayHold, OrderOK, Blocks
    <2> QED
      BY <1>2, <1>3, <2>1 DEF Blocks
  <1>11. CASE job.k = "tmp"
    BY <1>1, <1>2, <1>11 DEF MayHold, PrefixOK, PlanOK, Blocks
  <1>12. CASE job.k = "rescueMain"
    <2>1. ~(job.ba < backup)
      BY <1>1, <1>2, <1>3, <1>4, <1>12 DEF PrefixOK, Unusable
    <2>2. \A t \in InfoTables : t = job.wba \/ t = job.ba
      BY <1>1, <1>2, <1>12, <2>1 DEF MayHold, Blocks
    <2>3. job.ba < job.wba /\ Unusable(job.ba, bad) /\ job.wba \in Blocks
      BY <1>1, <1>2, <1>12 DEF PlanOK, JobOK, PrefixOK
    <2> QED
      BY <1>2, <2>2, <2>3 DEF Blocks
  <1>13. CASE job.k = "front"
    BY <1>1, <1>2, <1>13 DEF MayHold, PrefixOK, JobOK, Blocks
  <1> QED
    BY <1>5, <1>6, <1>7, <1>8, <1>9, <1>10, <1>11, <1>12, <1>13 DEF Jobs

\* A finished program adds the table in the cache at the block of the job.
LEMMA Programmed ==
  ASSUME TablesOK, WriteProgram
  PROVE  /\ pc = "program" /\ pc' = "written" /\ UNCHANGED <<marked, bad, map, cache, top, stored, job>>
         /\ job.ba \in Blocks /\ flash' = [flash EXCEPT ![job.ba] = cache]
         /\ InfoTables' = InfoTables \cup {job.ba} /\ flash'[job.ba] = cache
         /\ \A b \in Blocks : b # job.ba => flash'[b] = flash[b]
  <1>1. /\ pc = "program" /\ pc' = "written" /\ UNCHANGED <<marked, bad, map, cache, top, stored, job>>
        /\ flash' = [flash EXCEPT ![job.ba] = cache]
    BY DEF WriteProgram, GoTo, mem, loc, ghost
  <1>2. DOMAIN flash = Blocks /\ cache.kind = "table"
    BY DEF TablesOK, Inv, TypeOK, TableType
  <1>3. job.ba \in Blocks
    BY <1>1, NmbmConstants DEF TablesOK, Inv, TypeOK, ControlType, JobOK, BoundsOK, PlaceType, JobPcs, Blocks
  <1> QED
    BY <1>1, <1>2, <1>3 DEF InfoTables

LEMMA StayOrProgram ==
  ASSUME TablesOK, Next
  PROVE  TablesStay \/ WriteProgram
  <1>1. CASE pc = "program" /\ pc' = "written"
    <2>1. Next => WriteProgram
      BY <1>1 DEF Next, Driver, WriteRange, ErasingRange, Rebuild, Update, Rescue, Load,
           RescueSingle, Create, RemapRest, Users,
           WriteSkip, WriteErase, WriteFails, WriteNoRoom, RangeSkip, RangeErase, RangeFails,
           RebuildMainWritten, RebuildMainFails, RebuildBackupWritten, RebuildBackupFails, Rebuilt,
           UpdateOver, UpdateOnce, OnceBackupWritten, OnceBackupFails, OnceMainWritten, OnceMainFailsAlone,
           Updated, RescueMain, RescueTmpWritten, RescueTmpFails, RescueMainWritten, RescueMainFails,
           LoadOne, LoadTwo, SingleMainWritten, SingleMainFails, SingleBackupWritten, SingleBackupFails,
           FrontWritten, FrontCleaned, FrontFails, NextWritten, NextCleaned, NextFails,
           CreateNew, CreateAgain, SignSkip, SignWrite, SignFails, CreateInfoTable, MapTail, TailOver,
           MoveBlock, MoveFails, MarkOld, WriteBlock, WriteBlockFails, Loses, WritePageFails, ReadBlockWeak,
           ReadBlockFails, MarkBad, IsBad,
           Remap, PowerLoss, Written, NoRoom, RangeOver, GoTo
    <2> QED
      BY <2>1
  <1> QED
    BY <1>1, StayStep

LEMMA ShapeStep ==
  ASSUME TablesOK, Next
  PROVE  ShapeOK'
  <1>1. CASE TablesStay
    BY <1>1 DEF TablesStay, TablesOK, ShapeOK
  <1>2. CASE WriteProgram
    <2>1. cache = Table(cache.wc, cache.bad, cache.map)
      <3>1. cache = Table(wc, cache.bad, cache.map)
        BY <1>2, Programmed DEF TablesOK, OrderOK, Working, JobPcs
      <3>2. cache.wc = wc
        BY <3>1 DEF Table
      <3> QED
        BY <3>1, <3>2
    <2> QED
      BY <1>2, <2>1, Programmed DEF TablesOK, ShapeOK, InfoTables
  <1> QED
    BY <1>1, <1>2, StayOrProgram

\* The tables on the chip stay acceptable, and there are never three.
LEMMA ChipStep ==
  ASSUME TablesOK, Next, ~disorder
  PROVE  ChipOK'
  <1> USE NmbmConstants
  <1>1. CASE TablesStay
    <2>1. \A t \in InfoTables' : t \in InfoTables /\ flash'[t] = flash[t] /\ t \notin marked'
      BY <1>1, MarkStep DEF TablesStay, TablesOK, ChipOK
    <2>2. InfoTables' # {} => SigsStay
      BY SigsStep
    <2> QED
      BY <2>1, <2>2 DEF TablesOK, ChipOK, SigsStay
  <1>2. CASE WriteProgram
    <2>1. /\ pc = "program" /\ InfoTables' = InfoTables \cup {job.ba} /\ job.ba \in Blocks
          /\ flash'[job.ba] = cache /\ \A b \in Blocks : b # job.ba => flash'[b] = flash[b]
          /\ marked' = marked
      BY <1>2, Programmed
    <2>2. SigsStay
      BY <2>1, SigsStep
    <2>3. job.ba \in SoundTables' /\ sig' = sig
      <3>1. sig' = sig
        BY <1>2 DEF WriteProgram, loc
      <3> QED
        BY <1>2, <3>1, SoundWritten DEF TablesOK, Inv
    <2>4. flash[sig] = Signature /\ sig \in Blocks /\ \A s \in Blocks : flash[s] = Signature => s = sig
      BY <2>1 DEF TablesOK, SigOK, Attached, JobPcs, Inv, TypeOK, PlaceType
    <2>5. /\ MgmtStart <= job.ba /\ job.ba \notin marked /\ job.ba < sig - 1
          /\ \A lb \in LogicBlocks : cache.map[lb] # sig
      BY <2>1, <2>3 DEF SoundTables, Loadable
    <2>6. \A x, y, z \in InfoTables' : ~(x < y /\ y < z)
      <3>1. PICK y \in Blocks : Other(y)
        BY <2>1, OneOther
      <3> QED
        BY <2>1, <3>1 DEF Other, Blocks
    <2>7. ASSUME NEW t \in InfoTables'
          PROVE  /\ MgmtStart <= t /\ t \notin marked'
                 /\ \E s \in Blocks : flash'[s] = Signature
                 /\ \A s \in Blocks : flash'[s] = Signature =>
                      t < s - 1 /\ \A lb \in LogicBlocks : flash'[t].map[lb] # s
      <3>1. CASE t = job.ba
        BY <2>1, <2>2, <2>4, <2>5, <3>1 DEF SigsStay
      <3>2. CASE t # job.ba
        <4>1. t \in InfoTables /\ flash'[t] = flash[t]
          BY <2>1, <3>2 DEF InfoTables
        <4> QED
          BY <2>1, <2>2, <4>1 DEF TablesOK, ChipOK, SigsStay
      <3> QED
        BY <3>1, <3>2
    <2> QED
      BY <2>6, <2>7 DEF ChipOK
  <1> QED
    BY <1>1, <1>2, StayOrProgram

\* The newer of two tables knows what the older one knows.
LEMMA PairStep ==
  ASSUME TablesOK, Next, ~disorder
  PROVE  PairOK'
  <1> USE NmbmConstants
  <1>0. marked \subseteq marked'
    BY MarkStep
  <1>1. CASE TablesStay
    <2>1. \A t \in InfoTables' : t \in InfoTables /\ flash'[t] = flash[t]
      BY <1>1 DEF TablesStay
    <2> QED
      BY <1>0, <2>1 DEF TablesOK, PairOK, Unusable, Clear, Reaches
  <1>2. CASE WriteProgram
    <2>1. /\ pc = "program" /\ InfoTables' = InfoTables \cup {job.ba} /\ job.ba \in Blocks
          /\ flash'[job.ba] = cache /\ \A b \in Blocks : b # job.ba => flash'[b] = flash[b]
          /\ marked' = marked
      BY <1>2, Programmed
    <2>2. /\ pc \in Working /\ pc \in JobPcs /\ cache.map = map /\ cache.bad \subseteq bad
          /\ job.ba \notin bad \cup marked /\ bad \subseteq cache.bad \cup marked
      BY <2>1 DEF Working, JobPcs, TablesOK, CacheOK, AgesOK
    <2>3. Clear(map, top) /\ job.ba + 1 <= top /\ top \in Int
      <3>1. Clear(map, top)
        BY DEF TablesOK, Inv, MapOK, Clear
      <3> QED
        BY <2>1, <2>2, <3>1 DEF TablesOK, Inv, JobOK, BoundsOK, TypeOK, PlaceType, ControlType, Blocks
    <2>4. Reaches(map, map) /\ cache.wc \in Int
      BY DEF TablesOK, Inv, ControlOK, TypeOK, MemoryType, Mappings, Reaches
    <2>5. PICK y \in Blocks : Other(y)
      BY <2>1, OneOther
    <2>6. \A t \in InfoTables :
            /\ t \in Blocks /\ t < top /\ t \notin bad /\ flash[t].bad \subseteq bad \cup marked
            /\ flash[t].wc \in Int /\ flash[t].wc <= cache.wc /\ (flash[t].wc = cache.wc => flash[t] = cache)
            /\ Clear(flash[t].map, top) /\ Reaches(map, flash[t].map)
      BY <2>2, TablesLow DEF TablesOK, AgesOK, ControlOK, InfoTables
    <2>7. \A m \in Mappings, t \in Int : t <= top /\ Clear(m, top) => Clear(m, t)
      BY <2>3 DEF Clear, Mappings
    <2>8. map \in Mappings /\ \A t \in InfoTables : flash[t].map \in Mappings
      BY DEF TablesOK, Inv, TypeOK, MemoryType, TableType, InfoTables
    <2>9. ASSUME NEW t \in InfoTables, t # job.ba
          PROVE  /\ job.ba \notin flash[t].bad /\ t \notin cache.bad
                 /\ Clear(flash[t].map, job.ba + 1) /\ Clear(map, t + 1)
                 /\ flash[t].bad \subseteq cache.bad \cup marked
                 /\ cache.wc <= flash[t].wc => flash[t] = cache
                 /\ t < job.ba => Unusable(t, cache.bad)
                 /\ job.ba < t => Unusable(job.ba, cache.bad)
      <3>1. job.ba \notin flash[t].bad /\ t \notin cache.bad /\ flash[t].bad \subseteq cache.bad \cup marked
        BY <2>2, <2>6
      <3>2. Clear(flash[t].map, job.ba + 1) /\ Clear(map, t + 1)
        BY <2>1, <2>3, <2>6, <2>7, <2>8 DEF Blocks
      <3>3. cache.wc <= flash[t].wc => flash[t] = cache
        BY <2>4, <2>6
      <3>4. t = y
        BY <2>5, <2>9 DEF Other
      <3>5. /\ t < job.ba => Unusable(t, cache.bad)
            /\ job.ba < t => Unusable(job.ba, cache.bad)
        BY <2>2, <2>5, <3>4 DEF Other, Unusable
      <3> QED
        BY <3>1, <3>2, <3>3, <3>5
    <2>10. job.ba \notin cache.bad /\ Clear(map, job.ba + 1)
      BY <2>1, <2>2, <2>3, <2>7, <2>8 DEF Blocks
    <2> SUFFICES ASSUME NEW s \in InfoTables', NEW t \in InfoTables'
                 PROVE  /\ s \notin flash'[t].bad /\ Clear(flash'[s].map, t + 1)
                        /\ flash'[s].wc = flash'[t].wc => flash'[s] = flash'[t]
                        /\ flash'[s].wc <= flash'[t].wc => /\ flash'[s].bad \subseteq flash'[t].bad \cup marked
                                                           /\ Reaches(flash'[t].map, flash'[s].map)
                        /\ s < t => Unusable(s, IF flash'[t].wc > flash'[s].wc THEN flash'[t].bad ELSE flash'[s].bad)
      BY <2>1 DEF PairOK, Clear, Reaches, Unusable
    <2>11. CASE s = job.ba /\ t = job.ba
      <3>1. ~(s < t)
        BY <2>1, <2>11 DEF Blocks
      <3> QED
        BY <2>1, <2>2, <2>4, <2>10, <2>11, <3>1
    <2>12. CASE s # job.ba /\ t # job.ba
      <3>1. s \in InfoTables /\ t \in InfoTables /\ flash'[s] = flash[s] /\ flash'[t] = flash[t]
        BY <2>1, <2>12 DEF InfoTables
      <3> QED
        BY <3>1 DEF TablesOK, PairOK
    <2>13. CASE s = job.ba /\ t # job.ba
      <3>1. t \in InfoTables /\ flash'[t] = flash[t] /\ flash'[s] = cache
        BY <2>1, <2>13 DEF InfoTables
      <3>2. ~(flash[t].wc > cache.wc)
        BY <2>4, <2>6, <3>1
      <3>3. cache.wc <= flash[t].wc => flash[t] = cache
        BY <2>9, <2>13, <3>1
      <3>4. cache.wc <= flash[t].wc => cache.bad \subseteq flash[t].bad \cup marked /\ Reaches(flash[t].map, cache.map)
        BY <2>2, <2>4, <3>3
      <3>5. cache.wc = flash[t].wc => cache = flash[t]
        BY <2>6, <3>1
      <3> QED
        BY <2>2, <2>9, <2>13, <3>1, <3>2, <3>4, <3>5
    <2>14. CASE s # job.ba /\ t = job.ba
      <3>1. s \in InfoTables /\ flash'[s] = flash[s] /\ flash'[t] = cache
        BY <2>1, <2>14 DEF InfoTables
      <3>2. ~(cache.wc > flash[s].wc) => flash[s].bad = cache.bad
        BY <2>4, <2>6, <3>1
      <3> QED
        BY <2>2, <2>6, <2>9, <2>14, <3>1, <3>2
    <2> QED
      BY <2>11, <2>12, <2>13, <2>14
  <1> QED
    BY <1>1, <1>2, StayOrProgram

-----------------------------------------------------------------------------
(* The data *)

\* Good in the next state, of a mapping from this one.
GoodNext(m) == \A lb \in stored' : m[lb] \in Blocks /\ flash'[m[lb]] = Data(lb)

\* A mapping that avoids the one block touched stays good.
LEMMA GoodFrame ==
  ASSUME NEW m, NEW y, Good(m), stored' \subseteq stored, \A lb \in stored' : m[lb] # y,
         \A b \in Blocks : b # y => flash'[b] = flash[b]
  PROVE  GoodNext(m)
  BY DEF Good, GoodNext

\* What copies left behind, through a step that touches none of it and leaves
\* the mappings as they are.
LEMMA LeftFrame ==
  ASSUME LeftOK, pc' # "move",
         \A lb \in LogicBlocks : left'[lb] >= 0 => left'[lb] = left[lb] /\ flash'[left[lb]] = flash[left[lb]],
         \A t \in InfoTables' : \/ t \in InfoTables /\ flash'[t] = flash[t]
                                \/ pc \in Working /\ flash'[t].map = map,
         pc' \in Working => \/ pc \in Working /\ map' = map
                           \/ \E c \in InfoTables : map' = flash[c].map
  PROVE  LeftOK'
  BY DEF LeftOK, Beyond

\* A block that a copy left behind lies in the data area or above the top.
LEMMA LeftHigh ==
  ASSUME TypeOK, MapOK, LeftOK, ~disorder, pc \in Working, NEW lb \in LogicBlocks, left[lb] >= 0
  PROVE  left[lb] \in Blocks /\ (left[lb] < MgmtStart \/ left[lb] > top)
  <1>1. left[lb] \in Int /\ left[lb] < BlockCount /\ map[lb] \in Int /\ top \in Int
    BY NmbmConstants DEF TypeOK, MemoryType, PlaceType, Mappings
  <1>2. map[lb] < MgmtStart \/ map[lb] > top
    BY DEF MapOK
  <1>3. left[lb] < MgmtStart \/ (MgmtStart <= map[lb] /\ map[lb] <= left[lb])
    BY DEF LeftOK, Beyond
  <1> QED
    BY <1>1, <1>2, <1>3, NmbmConstants DEF Blocks

\* No job reaches such a block.
LEMMA JobLeft ==
  ASSUME TablesOK, LeftOK, ~disorder, pc \in JobPcs, job.ba < job.limit,
         \A b \in Blocks : b # job.ba => flash'[b] = flash[b],
         UNCHANGED left, pc' # "move", pc' \in Working => map' = map,
         \A t \in InfoTables' : (t \in InfoTables /\ flash'[t] = flash[t]) \/ flash'[t].map = map
  PROVE  LeftOK'
  <1>1. /\ job.ba \in Int /\ job.ba >= MgmtStart /\ job.ba < top /\ top \in Int /\ pc \in Working
        /\ TypeOK /\ MapOK
    BY NmbmConstants DEF TablesOK, Inv, JobOK, BoundsOK, TypeOK, PlaceType, ControlType, Working
  <1>2. \A lb \in LogicBlocks : left[lb] >= 0 => left[lb] \in Blocks /\ left[lb] # job.ba
    BY <1>1, LeftHigh, NmbmConstants DEF Blocks
  <1> QED
    BY <1>1, <1>2, LeftFrame

\* nmbm_map_block takes the block below everything that was left behind.
LEMMA MapLeft ==
  ASSUME TablesOK, LeftOK, ~disorder, ~disorder', pc \in Working, NEW lb \in LogicBlocks, MapsOne(lb),
         NEW x \in LogicBlocks, left'[x] = left[x], left[x] >= 0
  PROVE  Beyond(x, map)' /\ left[x] # top /\ map'[lb] = top
  <1>1. TypeOK /\ MapOK /\ mba >= MgmtStart
    BY DEF TablesOK, Inv, PlacesOK, Working
  <1>2. /\ \A y \in LogicBlocks : map'[y] = IF y = lb THEN top ELSE map[y]
        /\ top \in Int /\ top >= MgmtStart
    BY <1>1, MapsOneClear, NmbmConstants DEF TypeOK, PlaceType, TablesOK, Inv, PlacesOK, Working
  <1>3. left[x] \in Int /\ (left[x] < MgmtStart \/ left[x] > top)
    BY <1>1, LeftHigh DEF Blocks
  <1>4. left[x] # top
    BY <1>2, <1>3, NmbmConstants
  <1>5. Beyond(x, map)
    BY DEF LeftOK
  <1>6. \A y \in LogicBlocks : y # x => map'[y] # left'[x]
    BY <1>2, <1>4, <1>5 DEF Beyond
  <1>7. left'[x] < MgmtStart \/ (MgmtStart <= map'[x] /\ map'[x] <= left'[x])
    BY <1>2, <1>3, <1>5, NmbmConstants DEF Beyond
  <1> QED
    BY <1>2, <1>4, <1>6, <1>7 DEF Beyond

\* Nothing on the chip and nothing in the mapping changes.
LEMMA LeadSame ==
  ASSUME LeadOK, UNCHANGED <<flash, stored, left, map, dbc>>, pc \in Working \ {"move"},
         pc' \in Working \cup {"failed"}, pc' # "move"
  PROVE  LeadOK'
  <1>1. InfoTables' = InfoTables
    BY DEF InfoTables
  <1>2. LeftOK'
    BY <1>1, LeftFrame DEF LeadOK
  <1> QED
    BY <1>1, <1>2 DEF LeadOK, Good, Working, JobPcs, StepPcs

\* What a job touches no mapping leads to.
LEMMA JobGood ==
  ASSUME TablesOK, LeadOK, ~disorder, pc \in JobPcs, job.ba < job.limit, stored' = stored,
         \A b \in Blocks : b # job.ba => flash'[b] = flash[b]
  PROVE  GoodNext(map) /\ \A t \in InfoTables : GoodNext(flash[t].map)
  <1> USE NmbmConstants
  <1>1. /\ job.ba \in Int /\ job.ba >= MgmtStart /\ job.ba < top /\ top \in Int
    BY DEF TablesOK, Inv, JobOK, BoundsOK, TypeOK, PlaceType, ControlType
  <1>2. /\ Good(map) /\ Clear(map, top) /\ \A lb \in stored : map[lb] \in Int /\ lb \in LogicBlocks
    BY DEF LeadOK, Working, JobPcs, TablesOK, Inv, MapOK, Clear, TypeOK, MemoryType, Mappings
  <1>3. GoodNext(map)
    <2>1. \A lb \in stored' : map[lb] # job.ba
      BY <1>1, <1>2 DEF Clear
    <2> QED
      BY <1>2, <2>1, GoodFrame
  <1>4. ASSUME NEW t \in InfoTables PROVE GoodNext(flash[t].map)
    <2>1. /\ Good(flash[t].map) /\ Clear(flash[t].map, top)
          /\ \A lb \in LogicBlocks : flash[t].map[lb] \in Int
      BY DEF LeadOK, TablesOK, AgesOK, Working, Inv, TypeOK, TableType, Mappings, InfoTables
    <2>2. \A lb \in stored' : flash[t].map[lb] # job.ba
      BY <1>1, <1>2, <2>1 DEF Clear
    <2> QED
      BY <2>1, <2>2, GoodFrame
  <1> QED
    BY <1>3, <1>4

\* While a block is moved, only the block it moves to is touched.
LEMMA MoveGood ==
  ASSUME TablesOK, LeadOK, SavedOK, ~disorder, pc = "move", stored' \subseteq stored,
         \A b \in Blocks : b # map[op.lb] => flash'[b] = flash[b]
  PROVE  /\ \A t \in InfoTables : GoodNext(flash[t].map)
         /\ \A lb \in stored' : lb # op.lb => map[lb] \in Blocks /\ flash'[map[lb]] = Data(lb)
  <1> DEFINE E == [map EXCEPT ![op.lb] = op.src]
  <1>1. /\ Good(E) /\ map[op.lb] # op.src /\ map[op.lb] \in Blocks
        /\ \A t \in InfoTables : flash[t].map = E
    BY DEF LeadOK, SavedOK
  <1>2. op.lb \in LogicBlocks /\ map \in Mappings /\ stored \subseteq LogicBlocks
    BY DEF TablesOK, Inv, TypeOK, ControlType, MemoryType
  <1>3. \A lb \in LogicBlocks : E[lb] = IF lb = op.lb THEN op.src ELSE map[lb]
    BY <1>2 DEF Mappings
  <1>4. \A lb \in LogicBlocks : lb # op.lb => map[lb] # map[op.lb]
    BY <1>1, <1>2, NmbmConstants DEF TablesOK, Inv, DistinctOK, Distinct, Blocks
  <1> HIDE DEF E
  <1>5. \A lb \in stored' : E[lb] # map[op.lb]
    BY <1>1, <1>2, <1>3, <1>4
  <1>6. GoodNext(E)
    BY <1>1, <1>5, GoodFrame
  <1> QED
    BY <1>1, <1>2, <1>3, <1>6 DEF GoodNext

LEMMA MoveLeft ==
  ASSUME TablesOK, LeftOK, ~disorder, pc = "move",
         \A b \in Blocks : b # map[op.lb] => flash'[b] = flash[b]
  PROVE  \A lb \in LogicBlocks : left[lb] >= 0 => flash'[left[lb]] = flash[left[lb]]
  <1> SUFFICES ASSUME NEW lb \in LogicBlocks, left[lb] >= 0 PROVE left[lb] \in Blocks /\ left[lb] # map[op.lb]
    OBVIOUS
  <1>1. left[lb] \in Blocks /\ op.lb \in LogicBlocks
    BY LeftHigh DEF TablesOK, Inv, TypeOK, ControlType, Working, StepPcs
  <1>2. left[lb] # map[op.lb]
    BY <1>1 DEF LeftOK, Beyond, Working, StepPcs
  <1> QED
    BY <1>1, <1>2

\* The two kinds of remap: the old block is intact, or the data is given up.
LEMMA RemapLeft ==
  ASSUME TablesOK, LeftOK, ~disorder, ~disorder', TablesStay,
         NEW lb \in LogicBlocks, NEW copy \in BOOLEAN, NEW mk \in BOOLEAN, Remap(lb, copy, mk),
         Loses(lb) \/ UNCHANGED <<flash, left>>
  PROVE  LeftOK'
  <1>1. /\ pc \in Working /\ pc' \in Working
        /\ (pc' # "move" /\ map' = map) \/ (pc' = "move" /\ MapsOne(lb))
        /\ op'.lb = lb /\ op'.src = map[lb] /\ map[lb] \in Blocks
    <2>1. \/ pc' = "move" /\ MapTo(lb, bad \cup {map[lb]})
          \/ pc' # "move" /\ map' = map
      BY DEF Remap, GoTo, AfterOp
    <2>2. MapTo(lb, bad \cup {map[lb]}) => MapsOne(lb)
      BY MapToTakes DEF MapsOne, TablesOK, Inv, TypeOK, MemoryType
    <2> QED
      BY <2>1, <2>2, RemapDoes DEF Remap, TablesOK, Inv, Working, StepPcs
  <1>2. \A x \in LogicBlocks : left[x] >= 0 => left[x] \in Blocks /\ Beyond(x, map)
    BY <1>1, LeftHigh DEF LeftOK, TablesOK, Inv
  <1>3. ASSUME NEW x \in LogicBlocks, left'[x] >= 0
        PROVE  left'[x] = left[x] /\ flash'[left[x]] = flash[left[x]]
    <2>1. CASE UNCHANGED <<flash, left>>
      BY <2>1
    <2>2. CASE Loses(lb) /\ x = lb
      <3>1. left[lb] # map[lb] /\ left'[lb] = left[lb]
        BY <1>3, <2>2 DEF Loses, TablesOK, Inv, TypeOK, MemoryType, Mappings
      <3> QED
        BY <1>2, <1>3, <2>2, <3>1 DEF Loses, TablesOK, Inv, TypeOK, TableType
    <2>3. CASE Loses(lb) /\ x # lb
      <3>1. left'[x] = left[x]
        BY <2>3 DEF Loses, TablesOK, Inv, TypeOK, MemoryType, Mappings
      <3>2. left[x] # map[lb] /\ left[x] \in Blocks
        BY <1>2, <1>3, <2>3, <3>1 DEF Beyond
      <3> QED
        BY <2>3, <3>1, <3>2 DEF Loses, TablesOK, Inv, TypeOK, TableType
    <2> QED
      BY <2>1, <2>2, <2>3
  <1>4. CASE pc' # "move"
    BY <1>1, <1>3, <1>4, LeftFrame DEF TablesStay
  <1>5. CASE pc' = "move"
    <2>1. ASSUME NEW x \in LogicBlocks, left'[x] >= 0
          PROVE  Beyond(x, map)' /\ (x = lb => map'[x] # left'[x])
      BY <1>1, <1>3, <1>5, <2>1, MapLeft
    <2>2. ASSUME NEW x \in LogicBlocks, left'[x] >= 0, NEW u \in InfoTables'
          PROVE  (Beyond(x, flash[u].map))'
      BY <1>3, <2>2 DEF TablesStay, LeftOK, Beyond
    <2>3. \A x \in LogicBlocks : left'[x] >= 0 => flash'[left'[x]] = Data(x)
      BY <1>3 DEF LeftOK
    <2>4. /\ \A y \in LogicBlocks : map'[y] = IF y = lb THEN top ELSE map[y]
          /\ top \in Int /\ top >= MgmtStart
      BY <1>1, <1>5, MapsOneClear, NmbmConstants DEF TypeOK, PlaceType, TablesOK, Inv, PlacesOK, Working
    <2>5. \A y \in LogicBlocks : y # lb => map'[y] # map[lb]
      BY <1>1, <2>4, NmbmConstants DEF TablesOK, Inv, DistinctOK, Distinct, Blocks
    <2>6. map[lb] < MgmtStart \/ (MgmtStart <= map'[lb] /\ map'[lb] <= map[lb])
      BY <1>1, <2>4, NmbmConstants DEF TablesOK, Inv, MapOK, Blocks
    <2> QED
      BY <1>1, <1>5, <2>1, <2>2, <2>3, <2>5, <2>6 DEF LeftOK
  <1> QED
    BY <1>4, <1>5

LEMMA RemapLead ==
  ASSUME TablesOK, LeadOK, SavedOK, ~disorder, ~disorder', TablesStay,
         NEW lb \in LogicBlocks, NEW copy \in BOOLEAN, NEW mk \in BOOLEAN, Remap(lb, copy, mk),
         Loses(lb) \/ (copy /\ UNCHANGED <<flash, stored, left>>)
  PROVE  LeadOK'
  <1> USE NmbmConstants
  <1>1. /\ pc = "idle" /\ pc' \in {"move", "update", "mark", "idle"} /\ dbc' = dbc
        /\ map' = map \/ (pc' = "move" /\ MapsOne(lb))
        /\ pc' = "move" => MapsOne(lb)
        /\ op'.lb = lb /\ op'.src = map[lb] /\ op'.copy = copy /\ map[lb] \in Blocks
    <2>1. \/ pc' = "move" /\ MapTo(lb, bad \cup {map[lb]})
          \/ pc' # "move" /\ map' = map
      BY DEF Remap, GoTo, AfterOp
    <2>2. MapTo(lb, bad \cup {map[lb]}) => MapsOne(lb)
      BY MapToTakes DEF MapsOne, TablesOK, Inv, TypeOK, MemoryType
    <2> QED
      BY <2>1, <2>2, RemapDoes DEF Remap, TablesOK, Inv
  <1>2. /\ Good(map) /\ (\A x \in stored : x < dbc) /\ \A t \in InfoTables : flash[t].map = map
    BY <1>1 DEF LeadOK, SavedOK, Working, StepPcs
  <1>3. map \in Mappings /\ stored \subseteq LogicBlocks /\ Distinct(map)
    BY DEF TablesOK, Inv, TypeOK, MemoryType, DistinctOK
  <1>4. GoodNext(map)
    <2>1. \A x \in LogicBlocks : x # lb => map[x] # map[lb]
      BY <1>1, <1>3 DEF Distinct, Blocks
    <2>2. /\ stored' \subseteq stored /\ (lb \in stored' => copy /\ flash' = flash)
          /\ \A b \in Blocks : b # map[lb] => flash'[b] = flash[b]
      BY DEF Loses, TablesOK, Inv, TypeOK, TableType
    <2> QED
      BY <1>2, <1>3, <2>1, <2>2 DEF Good, GoodNext
  <1>5. \A t \in InfoTables' : GoodNext(flash'[t].map)
    BY <1>2, <1>4 DEF TablesStay
  <1>6. CASE pc' = "move"
    <2>1. /\ \A x \in LogicBlocks : map'[x] = IF x = lb THEN top ELSE map[x]
          /\ \A x \in LogicBlocks : map[x] # top
      BY <1>1, <1>6, MapsOneClear DEF TablesOK, Inv, TypeOK, PlacesOK, StepPcs
    <2>2. PICK p \in Blocks : map' = [map EXCEPT ![lb] = p]
      BY <1>1, <1>6 DEF MapsOne
    <2>3. [map' EXCEPT ![lb] = map[lb]] = map
      BY <1>3, <2>2 DEF Mappings
    <2>4. map'[lb] # map[lb] /\ map'[lb] \in Blocks
      BY <1>3, <2>1, <2>2 DEF Mappings
    <2>5. LeftOK' /\ \A x \in stored' : x < dbc'
      BY <1>1, <1>2, RemapLeft DEF LeadOK, Loses
    <2>6. (Good([map EXCEPT ![op.lb] = op.src]))'
      BY <1>1, <1>4, <2>3 DEF Good, GoodNext
    <2>7. lb \in stored' => copy
      BY DEF Loses
    <2> QED
      BY <1>1, <1>5, <1>6, <2>4, <2>5, <2>6, <2>7 DEF LeadOK, Good, GoodNext
  <1>7. CASE pc' # "move"
    <2>1. map' = map /\ LeftOK' /\ \A x \in stored' : x < dbc'
      BY <1>1, <1>2, <1>7, RemapLeft DEF LeadOK, Loses
    <2> QED
      BY <1>4, <1>5, <1>7, <2>1 DEF LeadOK, Good, GoodNext
  <1> QED
    BY <1>6, <1>7

LEMMA AttachLead ==
  ASSUME LeadOK, TypeOK, TypeOK', NEW c, Attaches(c), pc' \in Working \ {"move"}
  PROVE  LeadOK'
  <1>1. /\ UNCHANGED <<flash, stored, left>> /\ InfoTables' = InfoTables /\ c \in InfoTables
        /\ map' = flash[c].map /\ Good(flash[c].map) /\ \A t \in InfoTables : Good(flash[t].map)
    BY DEF Attaches, InfoTables, LeadOK
  <1>2. LeftOK'
    BY <1>1, LeftFrame DEF LeadOK
  <1>3. ASSUME NEW lb \in stored PROVE lb < dbc'
    <2>1. lb \in LogicBlocks /\ map'[lb] \in Blocks
      BY <1>1 DEF Good, TypeOK, MemoryType
    <2>2. ~(lb >= dbc')
      BY <2>1, NmbmConstants DEF Attaches, Blocks
    <2>3. dbc' \in Int /\ lb \in Int
      BY <2>1 DEF TypeOK, MemoryType, LogicBlocks
    <2> QED
      BY <2>2, <2>3
  <1> QED
    BY <1>1, <1>2, <1>3 DEF LeadOK, Good

\* A chip without tables and without acknowledged data.
LEMMA NoneLeft ==
  ASSUME InfoTables' = {}, Acknowledged' = {}, pc' # "move"
  PROVE  LeadOK'
  <1>1. stored' = {} /\ \A lb \in LogicBlocks : ~(left'[lb] >= 0)
    BY DEF Acknowledged
  <1> QED
    BY <1>1 DEF LeadOK, LeftOK, Good

\* No step loses acknowledged data.
LEMMA LeadStep ==
  ASSUME TablesOK, AckOK, LeadOK, SavedOK, TypeOK', ~disorder, ~disorder', Next
  PROVE  LeadOK'
  <1> Inv /\ TypeOK /\ JobOK
    BY DEF TablesOK, Inv
  <1> TablesStay \/ (pc = "program" /\ pc' = "written")
    BY StayStep
  <1>1. CASE WriteSkip
    <2>1. /\ UNCHANGED <<flash, stored, left, map, dbc>> /\ pc \in Working \ {"move"}
          /\ pc' \in Working \cup {"failed"} /\ pc' # "move"
      BY <1>1 DEF WriteSkip, phys, mem, loc, ghost, GoTo, Write, EraseRange, Written, NoRoom, RangeOver, Job, JobPcs, StepPcs, Working
    <2> QED
      BY <2>1, LeadSame
  <1>2. CASE WriteErase
    <2>1. /\ flash' = [flash EXCEPT ![job.ba] = Erased] /\ UNCHANGED <<stored, left, map, dbc>>
          /\ pc \in JobPcs /\ pc' \in JobPcs /\ job.ba < job.limit /\ TablesStay
      BY <1>2 DEF WriteErase, mem, ghost, JobPcs, JobOK, GoTo, Advance
    <2>2. \A b \in Blocks : b # job.ba => flash'[b] = flash[b]
      BY <2>1 DEF TypeOK, TableType
    <2>3. GoodNext(map) /\ \A t \in InfoTables : GoodNext(flash[t].map)
      BY <2>1, <2>2, JobGood
    <2>4. Good(map)'
      BY <2>1, <2>3 DEF Good, GoodNext
    <2>5. \A t \in InfoTables' : GoodNext(flash'[t].map)
      BY <2>1, <2>3 DEF TablesStay
    <2>6. LeftOK'
      BY <2>1, <2>2, JobLeft DEF TablesStay, LeadOK, JobPcs
    <2> QED
      BY <2>1, <2>4, <2>5, <2>6 DEF LeadOK, JobPcs, Working, Good, GoodNext
  <1>3. CASE WriteProgram
    <2>1. /\ pc = "program" /\ pc' = "written" /\ UNCHANGED <<map, stored, left>> /\ dbc' = dbc
          /\ InfoTables' = InfoTables \cup {job.ba} /\ flash'[job.ba] = cache
          /\ \A b \in Blocks : b # job.ba => flash'[b] = flash[b]
      BY <1>3, Programmed DEF WriteProgram, mem, ghost
    <2>2. job.ba < job.limit /\ cache.map = map
      BY <2>1 DEF JobOK, TablesOK, CacheOK, JobPcs
    <2>3. GoodNext(map) /\ \A t \in InfoTables : GoodNext(flash[t].map)
      BY <2>1, <2>2, JobGood DEF JobPcs
    <2>4. Good(map)'
      BY <2>1, <2>3 DEF Good, GoodNext
    <2>5. \A t \in InfoTables' : GoodNext(flash'[t].map)
      BY <2>1, <2>2, <2>3 DEF InfoTables
    <2>6. \A t \in InfoTables' : (t \in InfoTables /\ flash'[t] = flash[t]) \/ flash'[t].map = map
      BY <2>1, <2>2 DEF InfoTables
    <2>7. LeftOK'
      BY <2>1, <2>2, <2>6, JobLeft DEF LeadOK, JobPcs
    <2> QED
      BY <2>1, <2>4, <2>5, <2>7 DEF LeadOK, JobPcs, Working, Good, GoodNext
  <1>4. CASE WriteFails
    <2>1. /\ flash' = [flash EXCEPT ![job.ba] = Torn] /\ UNCHANGED <<stored, left, map, dbc>>
          /\ pc \in JobPcs /\ pc' \in JobPcs /\ job.ba < job.limit /\ TablesStay
      BY <1>4 DEF WriteFails, Fault, mem, ghost, JobPcs, JobOK, GoTo, Advance
    <2>2. \A b \in Blocks : b # job.ba => flash'[b] = flash[b]
      BY <2>1 DEF TypeOK, TableType
    <2>3. GoodNext(map) /\ \A t \in InfoTables : GoodNext(flash[t].map)
      BY <2>1, <2>2, JobGood
    <2>4. Good(map)'
      BY <2>1, <2>3 DEF Good, GoodNext
    <2>5. \A t \in InfoTables' : GoodNext(flash'[t].map)
      BY <2>1, <2>3 DEF TablesStay
    <2>6. LeftOK'
      BY <2>1, <2>2, JobLeft DEF TablesStay, LeadOK, JobPcs
    <2> QED
      BY <2>1, <2>4, <2>5, <2>6 DEF LeadOK, JobPcs, Working, Good, GoodNext
  <1>5. CASE WriteNoRoom
    <2>1. /\ UNCHANGED <<flash, stored, left, map, dbc>> /\ pc \in Working \ {"move"}
          /\ pc' \in Working \cup {"failed"} /\ pc' # "move"
      BY <1>5 DEF WriteNoRoom, phys, mem, loc, ghost, GoTo, Write, EraseRange, Written, NoRoom, RangeOver, Job, JobPcs, StepPcs, Working
    <2> QED
      BY <2>1, LeadSame
  <1>6. CASE RangeSkip
    <2>1. /\ UNCHANGED <<flash, stored, left, map, dbc>> /\ pc \in Working \ {"move"}
          /\ pc' \in Working \cup {"failed"} /\ pc' # "move"
      BY <1>6 DEF RangeSkip, phys, mem, loc, ghost, GoTo, Write, EraseRange, Written, NoRoom, RangeOver, Job, JobPcs, StepPcs, Working
    <2> QED
      BY <2>1, LeadSame
  <1>7. CASE RangeErase
    <2>1. /\ flash' = [flash EXCEPT ![job.ba] = Erased] /\ UNCHANGED <<stored, left, map, dbc>>
          /\ pc \in JobPcs /\ pc' \in JobPcs /\ job.ba < job.limit /\ TablesStay
      BY <1>7 DEF RangeErase, mem, ghost, JobPcs, JobOK, GoTo, Advance
    <2>2. \A b \in Blocks : b # job.ba => flash'[b] = flash[b]
      BY <2>1 DEF TypeOK, TableType
    <2>3. GoodNext(map) /\ \A t \in InfoTables : GoodNext(flash[t].map)
      BY <2>1, <2>2, JobGood
    <2>4. Good(map)'
      BY <2>1, <2>3 DEF Good, GoodNext
    <2>5. \A t \in InfoTables' : GoodNext(flash'[t].map)
      BY <2>1, <2>3 DEF TablesStay
    <2>6. LeftOK'
      BY <2>1, <2>2, JobLeft DEF TablesStay, LeadOK, JobPcs
    <2> QED
      BY <2>1, <2>4, <2>5, <2>6 DEF LeadOK, JobPcs, Working, Good, GoodNext
  <1>8. CASE RangeFails
    <2>1. /\ flash' = [flash EXCEPT ![job.ba] = Torn] /\ UNCHANGED <<stored, left, map, dbc>>
          /\ pc \in JobPcs /\ pc' \in JobPcs /\ job.ba < job.limit /\ TablesStay
      BY <1>8 DEF RangeFails, Fault, mem, ghost, JobPcs, JobOK, GoTo, Advance
    <2>2. \A b \in Blocks : b # job.ba => flash'[b] = flash[b]
      BY <2>1 DEF TypeOK, TableType
    <2>3. GoodNext(map) /\ \A t \in InfoTables : GoodNext(flash[t].map)
      BY <2>1, <2>2, JobGood
    <2>4. Good(map)'
      BY <2>1, <2>3 DEF Good, GoodNext
    <2>5. \A t \in InfoTables' : GoodNext(flash'[t].map)
      BY <2>1, <2>3 DEF TablesStay
    <2>6. LeftOK'
      BY <2>1, <2>2, JobLeft DEF TablesStay, LeadOK, JobPcs
    <2> QED
      BY <2>1, <2>4, <2>5, <2>6 DEF LeadOK, JobPcs, Working, Good, GoodNext
  <1>9. CASE RebuildMainWritten
    <2>1. /\ UNCHANGED <<flash, stored, left, map, dbc>> /\ pc \in Working \ {"move"}
          /\ pc' \in Working \cup {"failed"} /\ pc' # "move"
      BY <1>9 DEF RebuildMainWritten, RebuildReturns, phys, mem, loc, ghost, GoTo, Write, EraseRange, Written, NoRoom, RangeOver, Job, JobPcs, StepPcs, Working
    <2> QED
      BY <2>1, LeadSame
  <1>10. CASE RebuildMainFails
    <2>1. /\ UNCHANGED <<flash, stored, left, map, dbc>> /\ pc \in Working \ {"move"}
          /\ pc' \in Working \cup {"failed"} /\ pc' # "move"
      BY <1>10 DEF RebuildMainFails, phys, mem, loc, ghost, GoTo, Write, EraseRange, Written, NoRoom, RangeOver, Job, JobPcs, StepPcs, Working
    <2> QED
      BY <2>1, LeadSame
  <1>11. CASE RebuildBackupWritten
    <2>1. /\ UNCHANGED <<flash, stored, left, map, dbc>> /\ pc \in Working \ {"move"}
          /\ pc' \in Working \cup {"failed"} /\ pc' # "move"
      BY <1>11 DEF RebuildBackupWritten, phys, mem, loc, ghost, GoTo, Write, EraseRange, Written, NoRoom, RangeOver, Job, JobPcs, StepPcs, Working
    <2> QED
      BY <2>1, LeadSame
  <1>12. CASE RebuildBackupFails
    <2>1. /\ UNCHANGED <<flash, stored, left, map, dbc>> /\ pc \in Working \ {"move"}
          /\ pc' \in Working \cup {"failed"} /\ pc' # "move"
      BY <1>12 DEF RebuildBackupFails, RebuildReturns, phys, mem, loc, ghost, GoTo, Write, EraseRange, Written, NoRoom, RangeOver, Job, JobPcs, StepPcs, Working
    <2> QED
      BY <2>1, LeadSame
  <1>13. CASE Rebuilt
    <2>1. /\ UNCHANGED <<flash, stored, left, map, dbc>> /\ pc \in Working \ {"move"}
          /\ pc' \in Working \cup {"failed"} /\ pc' # "move"
      BY <1>13 DEF Rebuilt, RebuildReturns, phys, mem, loc, ghost, GoTo, Write, EraseRange, Written, NoRoom, RangeOver, Job, JobPcs, StepPcs, Working
    <2> QED
      BY <2>1, LeadSame
  <1>14. CASE UpdateOver
    <2>1. /\ UNCHANGED <<flash, stored, left, map, dbc>> /\ pc \in Working \ {"move"}
          /\ pc' \in Working \cup {"failed"} /\ pc' # "move"
      BY <1>14 DEF UpdateOver, phys, mem, loc, ghost, GoTo, Write, EraseRange, Written, NoRoom, RangeOver, Job, JobPcs, StepPcs, Working
    <2> QED
      BY <2>1, LeadSame
  <1>15. CASE UpdateOnce
    <2>1. /\ UNCHANGED <<flash, stored, left, map, dbc>> /\ pc \in Working \ {"move"}
          /\ pc' \in Working \cup {"failed"} /\ pc' # "move"
      BY <1>15 DEF UpdateOnce, Generate, Table, phys, mem, loc, ghost, GoTo, Write, EraseRange, Written, NoRoom, RangeOver, Job, JobPcs, StepPcs, Working
    <2> QED
      BY <2>1, LeadSame
  <1>16. CASE OnceBackupWritten
    <2>1. /\ UNCHANGED <<flash, stored, left, map, dbc>> /\ pc \in Working \ {"move"}
          /\ pc' \in Working \cup {"failed"} /\ pc' # "move"
      BY <1>16 DEF OnceBackupWritten, phys, mem, loc, ghost, GoTo, Write, EraseRange, Written, NoRoom, RangeOver, Job, JobPcs, StepPcs, Working
    <2> QED
      BY <2>1, LeadSame
  <1>17. CASE OnceBackupFails
    <2>1. /\ UNCHANGED <<flash, stored, left, map, dbc>> /\ pc \in Working \ {"move"}
          /\ pc' \in Working \cup {"failed"} /\ pc' # "move"
      BY <1>17 DEF OnceBackupFails, phys, mem, loc, ghost, GoTo, Write, EraseRange, Written, NoRoom, RangeOver, Job, JobPcs, StepPcs, Working
    <2> QED
      BY <2>1, LeadSame
  <1>18. CASE OnceMainWritten
    <2>1. /\ UNCHANGED <<flash, stored, left, map, dbc>> /\ pc \in Working \ {"move"}
          /\ pc' \in Working \cup {"failed"} /\ pc' # "move"
      BY <1>18 DEF OnceMainWritten, phys, mem, loc, ghost, GoTo, Write, EraseRange, Written, NoRoom, RangeOver, Job, JobPcs, StepPcs, Working
    <2> QED
      BY <2>1, LeadSame
  <1>19. CASE OnceMainFailsAlone
    <2>1. /\ UNCHANGED <<flash, stored, left, map, dbc>> /\ pc \in Working \ {"move"}
          /\ pc' \in Working \cup {"failed"} /\ pc' # "move"
      BY <1>19 DEF OnceMainFailsAlone, RebuildFrom, phys, mem, loc, ghost, GoTo, Write, EraseRange, Written, NoRoom, RangeOver, Job, JobPcs, StepPcs, Working
    <2> QED
      BY <2>1, LeadSame
  <1>20. CASE Updated
    <2>1. /\ UNCHANGED <<flash, stored, left, map, dbc>> /\ pc = "updated"
          /\ pc' \in {"update", "idle", "mark"}
      BY <1>20 DEF Updated, AfterOp, GoTo, phys, mem
    <2> QED
      BY <2>1, LeadSame DEF Working, StepPcs
  <1>21. CASE RescueMain
    <2>1. /\ UNCHANGED <<flash, stored, left, map, dbc>> /\ pc \in Working \ {"move"}
          /\ pc' \in Working \cup {"failed"} /\ pc' # "move"
      BY <1>21 DEF RescueMain, BackupBecomesMain, phys, mem, loc, ghost, GoTo, Write, EraseRange, Written, NoRoom, RangeOver, Job, JobPcs, StepPcs, Working
    <2> QED
      BY <2>1, LeadSame
  <1>22. CASE RescueTmpWritten
    <2>1. /\ UNCHANGED <<flash, stored, left, map, dbc>> /\ pc \in Working \ {"move"}
          /\ pc' \in Working \cup {"failed"} /\ pc' # "move"
      BY <1>22 DEF RescueTmpWritten, phys, mem, loc, ghost, GoTo, Write, EraseRange, Written, NoRoom, RangeOver, Job, JobPcs, StepPcs, Working
    <2> QED
      BY <2>1, LeadSame
  <1>23. CASE RescueTmpFails
    <2>1. /\ UNCHANGED <<flash, stored, left, map, dbc>> /\ pc \in Working \ {"move"}
          /\ pc' \in Working \cup {"failed"} /\ pc' # "move"
      BY <1>23 DEF RescueTmpFails, BackupBecomesMain, phys, mem, loc, ghost, GoTo, Write, EraseRange, Written, NoRoom, RangeOver, Job, JobPcs, StepPcs, Working
    <2> QED
      BY <2>1, LeadSame
  <1>24. CASE RescueMainWritten
    <2>1. /\ UNCHANGED <<flash, stored, left, map, dbc>> /\ pc \in Working \ {"move"}
          /\ pc' \in Working \cup {"failed"} /\ pc' # "move"
      BY <1>24 DEF RescueMainWritten, phys, mem, loc, ghost, GoTo, Write, EraseRange, Written, NoRoom, RangeOver, Job, JobPcs, StepPcs, Working
    <2> QED
      BY <2>1, LeadSame
  <1>25. CASE RescueMainFails
    <2>1. /\ UNCHANGED <<flash, stored, left, map, dbc>> /\ pc \in Working \ {"move"}
          /\ pc' \in Working \cup {"failed"} /\ pc' # "move"
      BY <1>25 DEF RescueMainFails, phys, mem, loc, ghost, GoTo, Write, EraseRange, Written, NoRoom, RangeOver, Job, JobPcs, StepPcs, Working
    <2> QED
      BY <2>1, LeadSame
  <1>26. CASE LoadOne
    <2>1. PICK a \in Blocks : LoadsOne(a)
      BY <1>26, LoadOneDoes
    <2>2. Attaches(a) /\ pc' \in Working \ {"move"}
      BY <2>1 DEF LoadsOne, Write, Working, JobPcs
    <2> QED
      BY <2>2, AttachLead
  <1>27. CASE LoadTwo
    <2>1. PICK a, b \in Blocks : LoadsTwo(a, b)
      BY <1>27, LoadTwoDoes
    <2>2. (Attaches(a) \/ Attaches(b)) /\ pc' \in Working \ {"move"}
      BY <2>1 DEF LoadsTwo, Write, GoTo, Working, JobPcs, StepPcs
    <2> QED
      BY <2>2, AttachLead
  <1>28. CASE SingleMainWritten
    <2>1. /\ UNCHANGED <<flash, stored, left, map, dbc>> /\ pc \in Working \ {"move"}
          /\ pc' \in Working \cup {"failed"} /\ pc' # "move"
      BY <1>28 DEF SingleMainWritten, LoadReturns, phys, mem, loc, ghost, GoTo, Write, EraseRange, Written, NoRoom, RangeOver, Job, JobPcs, StepPcs, Working
    <2> QED
      BY <2>1, LeadSame
  <1>29. CASE SingleMainFails
    <2>1. /\ UNCHANGED <<flash, stored, left, map, dbc>> /\ pc \in Working \ {"move"}
          /\ pc' \in Working \cup {"failed"} /\ pc' # "move"
      BY <1>29 DEF SingleMainFails, BackupBecomesMain, phys, mem, loc, ghost, GoTo, Write, EraseRange, Written, NoRoom, RangeOver, Job, JobPcs, StepPcs, Working
    <2> QED
      BY <2>1, LeadSame
  <1>30. CASE SingleBackupWritten
    <2>1. /\ UNCHANGED <<flash, stored, left, map, dbc>> /\ pc \in Working \ {"move"}
          /\ pc' \in Working \cup {"failed"} /\ pc' # "move"
      BY <1>30 DEF SingleBackupWritten, LoadReturns, phys, mem, loc, ghost, GoTo, Write, EraseRange, Written, NoRoom, RangeOver, Job, JobPcs, StepPcs, Working
    <2> QED
      BY <2>1, LeadSame
  <1>31. CASE SingleBackupFails
    <2>1. /\ UNCHANGED <<flash, stored, left, map, dbc>> /\ pc \in Working \ {"move"}
          /\ pc' \in Working \cup {"failed"} /\ pc' # "move"
      BY <1>31 DEF SingleBackupFails, LoadReturns, phys, mem, loc, ghost, GoTo, Write, EraseRange, Written, NoRoom, RangeOver, Job, JobPcs, StepPcs, Working
    <2> QED
      BY <2>1, LeadSame
  <1>32. CASE FrontWritten
    <2>1. /\ UNCHANGED <<flash, stored, left, map, dbc>> /\ pc \in Working \ {"move"}
          /\ pc' \in Working \cup {"failed"} /\ pc' # "move"
      BY <1>32 DEF FrontWritten, phys, mem, loc, ghost, GoTo, Write, EraseRange, Written, NoRoom, RangeOver, Job, JobPcs, StepPcs, Working
    <2> QED
      BY <2>1, LeadSame
  <1>33. CASE FrontCleaned
    <2>1. /\ UNCHANGED <<flash, stored, left, map, dbc>> /\ pc \in Working \ {"move"}
          /\ pc' \in Working \cup {"failed"} /\ pc' # "move"
      BY <1>33 DEF FrontCleaned, LoadReturns, phys, mem, loc, ghost, GoTo, Write, EraseRange, Written, NoRoom, RangeOver, Job, JobPcs, StepPcs, Working
    <2> QED
      BY <2>1, LeadSame
  <1>34. CASE FrontFails
    <2>1. /\ UNCHANGED <<flash, stored, left, map, dbc>> /\ pc \in Working \ {"move"}
          /\ pc' \in Working \cup {"failed"} /\ pc' # "move"
      BY <1>34 DEF FrontFails, LoadReturns, phys, mem, loc, ghost, GoTo, Write, EraseRange, Written, NoRoom, RangeOver, Job, JobPcs, StepPcs, Working
    <2> QED
      BY <2>1, LeadSame
  <1>35. CASE NextWritten
    <2>1. /\ UNCHANGED <<flash, stored, left, map, dbc>> /\ pc \in Working \ {"move"}
          /\ pc' \in Working \cup {"failed"} /\ pc' # "move"
      BY <1>35 DEF NextWritten, phys, mem, loc, ghost, GoTo, Write, EraseRange, Written, NoRoom, RangeOver, Job, JobPcs, StepPcs, Working
    <2> QED
      BY <2>1, LeadSame
  <1>36. CASE NextCleaned
    <2>1. /\ UNCHANGED <<flash, stored, left, map, dbc>> /\ pc \in Working \ {"move"}
          /\ pc' \in Working \cup {"failed"} /\ pc' # "move"
      BY <1>36 DEF NextCleaned, LoadReturns, phys, mem, loc, ghost, GoTo, Write, EraseRange, Written, NoRoom, RangeOver, Job, JobPcs, StepPcs, Working
    <2> QED
      BY <2>1, LeadSame
  <1>37. CASE NextFails
    <2>1. /\ UNCHANGED <<flash, stored, left, map, dbc>> /\ pc \in Working \ {"move"}
          /\ pc' \in Working \cup {"failed"} /\ pc' # "move"
      BY <1>37 DEF NextFails, LoadReturns, phys, mem, loc, ghost, GoTo, Write, EraseRange, Written, NoRoom, RangeOver, Job, JobPcs, StepPcs, Working
    <2> QED
      BY <2>1, LeadSame
  <1>38. CASE CreateNew
    <2>1. pc = "off" /\ pc' \notin Working /\ UNCHANGED <<stored, left>>
      BY <1>38 DEF CreateNew, ScanChip, ghost, GoTo, Working, JobPcs, StepPcs
    <2>2. InfoTables' = {} /\ Acknowledged' = {}
      BY <1>38, <2>1, CreateEmpty DEF AckOK, Acknowledged
    <2> QED
      BY <2>1, <2>2, NoneLeft DEF Working, StepPcs
  <1>39. CASE CreateAgain
    <2>1. pc = "off" /\ pc' \notin Working /\ UNCHANGED <<stored, left>>
      BY <1>39 DEF CreateAgain, ScanChip, ghost, GoTo, Working, JobPcs, StepPcs
    <2>2. InfoTables' = {} /\ Acknowledged' = {}
      BY <1>39, <2>1, CreateEmpty DEF AckOK, Acknowledged
    <2> QED
      BY <2>1, <2>2, NoneLeft DEF Working, StepPcs
  <1>40. CASE SignSkip
    <2>1. pc = "sign" /\ pc' \notin Working /\ UNCHANGED <<stored, left>>
      BY <1>40 DEF SignSkip, GoTo, ghost, Working, JobPcs, StepPcs
    <2>2. InfoTables' = {} /\ Acknowledged' = {}
      BY <2>1 DEF WhereOK, TablesOK, TablesStay, AckOK, Acknowledged
    <2> QED
      BY <2>1, <2>2, NoneLeft DEF Working, StepPcs
  <1>41. CASE SignWrite
    <2>1. pc = "sign" /\ pc' \notin Working /\ UNCHANGED <<stored, left>>
      BY <1>41 DEF SignWrite, GoTo, ghost, Working, JobPcs, StepPcs
    <2>2. InfoTables' = {} /\ Acknowledged' = {}
      BY <2>1 DEF WhereOK, TablesOK, TablesStay, AckOK, Acknowledged
    <2> QED
      BY <2>1, <2>2, NoneLeft DEF Working, StepPcs
  <1>42. CASE SignFails
    <2>1. pc = "sign" /\ pc' \notin Working /\ UNCHANGED <<stored, left>>
      BY <1>42 DEF SignFails, Fault, GoTo, ghost, Working, JobPcs, StepPcs
    <2>2. InfoTables' = {} /\ Acknowledged' = {}
      BY <2>1 DEF WhereOK, TablesOK, TablesStay, AckOK, Acknowledged
    <2> QED
      BY <2>1, <2>2, NoneLeft DEF Working, StepPcs
  <1>43. CASE CreateInfoTable
    <2>1. pc = "create" /\ pc' \in {"write", "failed"} /\ UNCHANGED <<stored, left>>
      BY <1>43 DEF CreateInfoTable, RebuildFrom, Write, GoTo, phys, ghost
    <2>2. InfoTables' = {} /\ Acknowledged' = {}
      BY <2>1 DEF WhereOK, TablesOK, TablesStay, AckOK, Acknowledged
    <2> QED
      BY <2>1, <2>2, NoneLeft DEF Working, StepPcs
  <1>44. CASE MapTail
    <2>1. /\ dbc \in LogicBlocks /\ pc = "tail" /\ UNCHANGED <<pc, flash, stored, left>>
          /\ dbc' = dbc + 1 /\ \E p \in Blocks : map' = [map EXCEPT ![dbc] = p]
      BY <1>44, MapToTakes, NmbmConstants DEF MapTail, TypeOK, MemoryType, LogicBlocks, phys
    <2>2. map \in Mappings /\ stored \subseteq LogicBlocks /\ dbc \in Int
      BY <2>1, NmbmConstants DEF TypeOK, MemoryType, LogicBlocks
    <2>3. Good(map) /\ \A lb \in stored : lb < dbc /\ lb \in Int
      BY <2>1, <2>2, NmbmConstants DEF LeadOK, Working, StepPcs, LogicBlocks
    <2>4. \A lb \in stored : map'[lb] = map[lb]
      BY <2>1, <2>2, <2>3 DEF Mappings
    <2>5. Good(map)'
      BY <2>1, <2>3, <2>4 DEF Good
    <2>6. \A lb \in stored' : lb < dbc'
      BY <2>1, <2>2, <2>3
    <2>7. \A t \in InfoTables' : Good(flash[t].map) /\ flash'[t] = flash[t]
      BY <2>1 DEF InfoTables, LeadOK
    <2>8. LeftOK'
      <3>1. MapsOne(dbc)
        BY <1>44, <2>1, <2>2, MapToTakes DEF MapTail, MapsOne
      <3>2. \A x \in LogicBlocks : left[x] >= 0 => Beyond(x, map)'
        BY <2>1, <3>1, MapLeft DEF LeadOK, Working, StepPcs
      <3>3. \A t \in InfoTables' : t \in InfoTables
        BY <2>1 DEF InfoTables
      <3> QED
        BY <2>1, <3>2, <3>3 DEF LeadOK, LeftOK, Beyond
    <2> QED
      BY <2>1, <2>5, <2>6, <2>7, <2>8 DEF LeadOK, Good
  <1>45. CASE TailOver
    <2>1. /\ UNCHANGED <<flash, stored, left, map, dbc>> /\ pc \in Working \ {"move"}
          /\ pc' \in Working \cup {"failed"} /\ pc' # "move"
      BY <1>45 DEF TailOver, phys, mem, loc, ghost, GoTo, Write, EraseRange, Written, NoRoom, RangeOver, Job, JobPcs, StepPcs, Working
    <2> QED
      BY <2>1, LeadSame
  <1>46. CASE MoveBlock
    <2>1. /\ pc = "move" /\ pc' = "update" /\ UNCHANGED <<map, dbc, stored, left>> /\ TablesStay
          /\ flash' = [flash EXCEPT ![map[op.lb]] = IF op.copy THEN flash[op.src] ELSE Erased]
      BY <1>46 DEF MoveBlock, GoTo, mem, ghost
    <2>2. /\ DOMAIN flash = Blocks /\ map \in Mappings /\ op.lb \in LogicBlocks /\ stored \subseteq LogicBlocks
      BY DEF TypeOK, TableType, MemoryType, ControlType
    <2>3. \A b \in Blocks : b # map[op.lb] => flash'[b] = flash[b]
      BY <2>1, <2>2
    <2>4. /\ \A t \in InfoTables : GoodNext(flash[t].map)
          /\ \A lb \in stored' : lb # op.lb => map[lb] \in Blocks /\ flash'[map[lb]] = Data(lb)
      BY <2>1, <2>3, MoveGood
    <2>5. op.lb \in stored => map[op.lb] \in Blocks /\ flash'[map[op.lb]] = Data(op.lb)
      <3>1. Good([map EXCEPT ![op.lb] = op.src]) /\ map[op.lb] \in Blocks /\ (op.lb \in stored => op.copy)
        BY <2>1 DEF LeadOK
      <3>2. op.lb \in stored => flash[op.src] = Data(op.lb)
        BY <2>2, <3>1 DEF Good, Mappings
      <3> QED
        BY <2>1, <2>2, <3>1, <3>2
    <2>6. GoodNext(map)
      BY <2>1, <2>4, <2>5 DEF GoodNext
    <2>7. \A t \in InfoTables' : GoodNext(flash'[t].map)
      BY <2>1, <2>4 DEF TablesStay
    <2>8. \A x \in stored' : x < dbc'
      BY <2>1 DEF LeadOK, Working, StepPcs
    <2>9. LeftOK'
      BY <2>1, <2>3, MoveLeft, LeftFrame DEF LeadOK, TablesStay, Working, StepPcs
    <2> QED
      BY <2>1, <2>6, <2>7, <2>8, <2>9 DEF LeadOK, Good, GoodNext
  <1>47. CASE MoveFails
    <2>1. /\ pc = "move" /\ pc' = "update" /\ UNCHANGED <<map, dbc>> /\ TablesStay
          /\ flash' = [flash EXCEPT ![map[op.lb]] = Torn] /\ stored' = stored \ {op.lb}
      BY <1>47 DEF MoveFails, GoTo, mem
    <2>2. \A b \in Blocks : b # map[op.lb] => flash'[b] = flash[b]
      BY <2>1 DEF TypeOK, TableType
    <2>3. /\ \A t \in InfoTables : GoodNext(flash[t].map)
          /\ \A lb \in stored' : lb # op.lb => map[lb] \in Blocks /\ flash'[map[lb]] = Data(lb)
      BY <2>1, <2>2, MoveGood
    <2>4. GoodNext(map)
      BY <2>1, <2>3 DEF GoodNext
    <2>5. \A t \in InfoTables' : GoodNext(flash'[t].map)
      BY <2>1, <2>3 DEF TablesStay
    <2>6. \A x \in stored' : x < dbc'
      BY <2>1 DEF LeadOK, Working, StepPcs
    <2>7. LeftOK'
      <3>1. left' = IF op.lb \in stored THEN [left EXCEPT ![op.lb] = op.src] ELSE left
        BY <1>47 DEF MoveFails
      <3>2. CASE op.lb \notin stored
        BY <2>1, <2>2, <3>1, <3>2, MoveLeft, LeftFrame DEF LeadOK, TablesStay, Working, StepPcs
      <3>3. CASE op.lb \in stored
        <4>1. /\ Good([map EXCEPT ![op.lb] = op.src]) /\ map[op.lb] # op.src
              /\ \A t \in InfoTables : flash[t].map = [map EXCEPT ![op.lb] = op.src]
          BY <2>1 DEF LeadOK, SavedOK
        <4>2. map \in Mappings /\ left \in Mappings /\ op.lb \in LogicBlocks /\ op.src \in Blocks
          BY DEF TypeOK, MemoryType, ControlType
        <4>3. \A x \in LogicBlocks : left'[x] = IF x = op.lb THEN op.src ELSE left[x]
          BY <3>1, <3>3, <4>2 DEF Mappings
        <4>4. flash[op.src] = Data(op.lb) /\ flash'[op.src] = flash[op.src]
          BY <2>2, <3>3, <4>1, <4>2 DEF Good, Mappings
        <4>5. Beyond(op.lb, map)' /\ \A t \in InfoTables' : (Beyond(op.lb, flash[t].map))'
          <5>1. /\ \A x \in LogicBlocks : x # op.lb => map[x] # op.src
                /\ op.src < MgmtStart \/ (MgmtStart <= map[op.lb] /\ map[op.lb] <= op.src)
            BY <2>1 DEF LeadOK, LeftOK
          <5>2. op' = op
            BY <1>47 DEF MoveFails
          <5>3. Beyond(op.lb, map)'
            BY <2>1, <4>2, <4>3, <5>1, <5>2 DEF Beyond
          <5>4. ASSUME NEW t \in InfoTables' PROVE (Beyond(op.lb, flash[t].map))'
            <6>1. flash'[t].map = [map EXCEPT ![op.lb] = op.src]
              BY <2>1, <4>1 DEF TablesStay
            <6>2. \A x \in LogicBlocks : flash'[t].map[x] = IF x = op.lb THEN op.src ELSE map[x]
              BY <4>2, <6>1 DEF Mappings
            <6>3. op.src \in Int /\ op.src <= op.src
              BY <4>2 DEF Blocks
            <6> QED
              BY <4>2, <4>3, <5>1, <5>2, <6>2, <6>3, NmbmConstants DEF Beyond
          <5> QED
            BY <5>3, <5>4
        <4>6. ASSUME NEW x \in LogicBlocks, x # op.lb, left'[x] >= 0
              PROVE  /\ flash'[left'[x]] = Data(x) /\ Beyond(x, map)'
                     /\ \A t \in InfoTables' : (Beyond(x, flash[t].map))'
          <5>1. left'[x] = left[x] /\ left[x] >= 0 /\ pc \in Working
            BY <2>1, <4>3, <4>6 DEF Working, StepPcs
          <5>2. flash'[left[x]] = flash[left[x]]
            BY <2>1, <2>2, <5>1, MoveLeft DEF LeadOK
          <5> QED
            BY <2>1, <5>1, <5>2 DEF LeadOK, LeftOK, Beyond, TablesStay
        <4>7. op' = op
          BY <1>47 DEF MoveFails
        <4> QED
          BY <2>1, <4>2, <4>3, <4>4, <4>5, <4>6, <4>7 DEF LeftOK
      <3> QED
        BY <3>2, <3>3
    <2> QED
      BY <2>1, <2>4, <2>5, <2>6, <2>7 DEF LeadOK, Good, GoodNext
  <1>48. CASE MarkOld
    <2>1. UNCHANGED <<flash, stored, left, map, dbc>> /\ pc = "mark" /\ pc' = "idle"
      BY <1>48 DEF MarkOld, GoTo, mem, ghost
    <2> QED
      BY <2>1, LeadSame DEF Working, StepPcs
  <1>49. CASE WriteBlock
    <2>1. PICK lb \in LogicBlocks :
            /\ lb < dbc /\ map[lb] \in Blocks
            /\ flash' = [flash EXCEPT ![map[lb]] = Data(lb)] /\ stored' = stored \cup {lb}
            /\ left' = [left EXCEPT ![lb] = -1]
      BY <1>49 DEF WriteBlock
    <2>2. pc = "idle" /\ pc' = "idle" /\ UNCHANGED <<map, dbc>> /\ TablesStay
      BY <1>49 DEF WriteBlock, mem
    <2>3. /\ Good(map) /\ (\A x \in stored : x < dbc) /\ \A t \in InfoTables : flash[t].map = map
      BY <2>2 DEF LeadOK, SavedOK, Working, StepPcs
    <2>4. stored \subseteq LogicBlocks /\ Distinct(map) /\ DOMAIN flash = Blocks
      BY DEF Inv, TypeOK, MemoryType, TableType, DistinctOK
    <2>5. \A x \in stored : x # lb => map[x] # map[lb]
      BY <2>1, <2>4, NmbmConstants DEF Distinct, Blocks
    <2>6. GoodNext(map)
      BY <2>1, <2>3, <2>4, <2>5 DEF Good, GoodNext
    <2>7. \A t \in InfoTables' : GoodNext(flash'[t].map)
      BY <2>2, <2>3, <2>6 DEF TablesStay
    <2>8. \A x \in stored' : x < dbc'
      BY <2>1, <2>2, <2>3
    <2>9. ASSUME NEW x \in LogicBlocks, left'[x] >= 0
          PROVE  left'[x] = left[x] /\ flash'[left[x]] = flash[left[x]]
      <3>1. x # lb /\ left'[x] = left[x]
        BY <2>1, <2>9 DEF TypeOK, MemoryType, Mappings
      <3>2. left[x] \in Blocks /\ Beyond(x, map)
        BY <2>2, <2>9, <3>1, LeftHigh DEF LeadOK, LeftOK, Inv, Working, StepPcs
      <3> QED
        BY <2>1, <2>4, <3>1, <3>2 DEF Beyond
    <2>10. LeftOK'
      BY <2>2, <2>9, LeftFrame DEF LeadOK, TablesStay, Working, StepPcs
    <2> QED
      BY <2>2, <2>6, <2>7, <2>8, <2>10 DEF LeadOK, Good, GoodNext
  <1>50. CASE WriteBlockFails
    <2>1. PICK lb \in LogicBlocks : Remap(lb, FALSE, FALSE) /\ Loses(lb)
      BY <1>50 DEF WriteBlockFails
    <2>2. TablesStay
      BY <2>1 DEF Remap
    <2> QED
      BY <2>1, <2>2, RemapLead
  <1>51. CASE ReadBlockWeak
    <2>1. PICK lb \in LogicBlocks : Remap(lb, TRUE, FALSE) /\ UNCHANGED <<flash, stored, left>>
      BY <1>51 DEF ReadBlockWeak, phys
    <2>2. TablesStay /\ TRUE \in BOOLEAN /\ FALSE \in BOOLEAN
      BY <2>1 DEF Remap
    <2> QED
      BY <2>1, <2>2, RemapLead
  <1>52. CASE MarkBad
    <2>1. PICK lb \in LogicBlocks : Remap(lb, TRUE, TRUE) /\ UNCHANGED <<flash, stored, left>>
      BY <1>52 DEF MarkBad, phys
    <2>2. TablesStay /\ TRUE \in BOOLEAN /\ FALSE \in BOOLEAN
      BY <2>1 DEF Remap
    <2> QED
      BY <2>1, <2>2, RemapLead
  <1>53. CASE IsBad
    <2>1. PICK lb \in LogicBlocks : Remap(lb, TRUE, FALSE) /\ UNCHANGED <<flash, stored, left>>
      BY <1>53 DEF IsBad, phys
    <2>2. TablesStay /\ TRUE \in BOOLEAN /\ FALSE \in BOOLEAN
      BY <2>1 DEF Remap
    <2> QED
      BY <2>1, <2>2, RemapLead
  <1>54. CASE PowerLoss
    <2>1. pc' = "off" /\ UNCHANGED <<stored, left>> /\ TablesStay /\ pc' \notin Working
      BY <1>54 DEF PowerLoss, Working, JobPcs, StepPcs
    <2>2. (\A t \in InfoTables : GoodNext(flash[t].map)) /\ LeftOK'
      <3>1. CASE flash' = flash
        BY <2>1, <3>1, LeftFrame DEF LeadOK, Good, GoodNext, TablesStay
      <3>2. CASE Busy /\ flash' = [flash EXCEPT ![job.ba] = Torn]
        <4>1. \A b \in Blocks : b # job.ba => flash'[b] = flash[b]
          BY <3>2 DEF TypeOK, TableType
        <4>2. pc \in JobPcs /\ job.ba < job.limit
          BY <3>2 DEF Busy, JobPcs, JobOK
        <4>3. LeftOK'
          BY <2>1, <4>1, <4>2, JobLeft DEF LeadOK, TablesStay
        <4> QED
          BY <2>1, <4>1, <4>2, <4>3, JobGood
      <3>3. CASE pc = "move" /\ flash' = [flash EXCEPT ![map[op.lb]] = Torn]
        <4>1. \A b \in Blocks : b # map[op.lb] => flash'[b] = flash[b]
          BY <3>3 DEF TypeOK, TableType
        <4>2. LeftOK'
          BY <2>1, <3>3, <4>1, MoveLeft, LeftFrame DEF LeadOK, TablesStay
        <4> QED
          BY <2>1, <3>3, <4>1, <4>2, MoveGood
      <3> QED
        BY <1>54, <3>1, <3>2, <3>3 DEF PowerLoss
    <2>3. \A t \in InfoTables' : GoodNext(flash'[t].map)
      BY <2>1, <2>2 DEF TablesStay
    <2> QED
      BY <2>1, <2>2, <2>3 DEF LeadOK, Good, GoodNext
  <1>55. CASE WritePageFails
    <2>1. PICK lb \in LogicBlocks : Remap(lb, TRUE, FALSE) /\ UNCHANGED <<flash, stored, left>>
      BY <1>55 DEF WritePageFails, phys
    <2>2. TablesStay /\ TRUE \in BOOLEAN /\ FALSE \in BOOLEAN
      BY <2>1 DEF Remap
    <2> QED
      BY <2>1, <2>2, RemapLead
  <1>56. CASE ReadBlockFails
    <2>1. PICK lb \in LogicBlocks : Remap(lb, TRUE, FALSE) /\ Loses(lb)
      BY <1>56 DEF ReadBlockFails
    <2>2. TablesStay
      BY <2>1 DEF Remap
    <2> QED
      BY <2>1, <2>2, RemapLead
  <1> QED
    BY <1>1, <1>2, <1>3, <1>4, <1>5, <1>6, <1>7, <1>8, <1>9, <1>10, <1>11, <1>12,
       <1>13, <1>14, <1>15, <1>16, <1>17, <1>18, <1>19, <1>20, <1>21, <1>22, <1>23, <1>24,
       <1>25, <1>26, <1>27, <1>28, <1>29, <1>30, <1>31, <1>32, <1>33, <1>34, <1>35, <1>36,
       <1>37, <1>38, <1>39, <1>40, <1>41, <1>42, <1>43, <1>44, <1>45, <1>46, <1>47, <1>48,
       <1>49, <1>50, <1>51, <1>52, <1>53, <1>54, <1>55, <1>56
       DEF Next, Driver, WriteRange, ErasingRange, Rebuild, Update, Rescue, Load,
           RescueSingle, Create, RemapRest, Users

-----------------------------------------------------------------------------
(* A table for the next attach *)

\* A driver that is Secured has a table on the chip, and while a job erases
\* and programs blocks, one that the job does not touch.
LEMMA SecuredKept ==
  ASSUME TablesOK, Secured
  PROVE  /\ pc \in Working
         /\ \E x \in InfoTables : pc \in JobPcs /\ pc # "written" => x # job.ba \/ job.ba >= job.limit
  <1> TypeOK /\ JobOK /\ PlanOK /\ OrderOK /\ KeptOK /\ ControlOK
    BY DEF TablesOK, Inv
  <1>1. pc \in Working
    BY DEF Secured, ControlOK, Attached, Working, JobPcs, StepPcs
  <1>2. \A x \in SoundTables : x \in InfoTables
    BY DEF SoundTables, Loadable, InfoTables
  <1>3. CASE pc \in StepPcs
    BY <1>1, <1>2, <1>3 DEF Secured, KeptOK, StepPcs, JobPcs
  <1>4. CASE pc = "written"
    BY <1>1, <1>2, <1>4 DEF KeptOK, JobPcs
  <1>5. CASE pc \in JobPcs /\ pc # "written"
    <2>1. KeptTables \subseteq SoundTables
      BY <1>5 DEF KeptTables, KeptOK
    <2>2. KeptTables # {}
      <3>1. job.k \in Jobs \ {"none", "sign"}
        BY <1>5 DEF ControlOK, TypeOK, ControlType
      <3>2. job.k # "rebuildMain"
        BY <1>5 DEF Secured, PlanOK
      <3>3. job.k = "onceMain" => backup # 0
        BY <1>5 DEF Secured, OrderOK, JobPcs
      <3>4. job.k \in {"tmp", "singleMain"} => backup # 0
        BY <1>5 DEF JobOK
      <3> QED
        BY <3>1, <3>2, <3>3, <3>4 DEF Jobs, KeptTables, AboveMain
    <2>3. job.ba \notin KeptTables \/ ~(job.ba < job.limit)
      BY <1>5, JobAvoidsKept
    <2>4. job.ba \in Int /\ job.limit \in Int
      BY DEF TypeOK, ControlType
    <2>5. PICK x : x \in KeptTables
      BY <2>2
    <2>6. x \in InfoTables /\ (x # job.ba \/ job.ba >= job.limit)
      BY <1>2, <2>1, <2>3, <2>4, <2>5
    <2> QED
      BY <1>1, <2>6
  <1> QED
    BY <1>1, <1>3, <1>4, <1>5 DEF Working

\* Power loss leaves a driver that is Secured with a table.
LEMMA SecuredKeeps ==
  ASSUME TablesOK, ~disorder, Secured, PowerLoss
  PROVE  InfoTables' # {}
  <1> TypeOK /\ JobOK
    BY DEF TablesOK, Inv
  <1>1. pc \in Working
    BY SecuredKept
  <1>2. PICK x \in InfoTables : pc \in JobPcs /\ pc # "written" => x # job.ba \/ job.ba >= job.limit
    BY SecuredKept
  <1>3. x \in Blocks /\ MgmtStart <= x /\ x < top
    BY <1>1, TablesLow
  <1>4. flash'[x] = flash[x]
    <2>1. CASE flash' = flash
      BY <2>1
    <2>2. CASE Busy /\ flash' = [flash EXCEPT ![job.ba] = Torn]
      <3>1. pc \in JobPcs /\ pc # "written" /\ job.ba < job.limit
        BY <2>2 DEF Busy, JobPcs, JobOK
      <3>2. job.ba \in Int /\ job.limit \in Int
        BY DEF TypeOK, ControlType
      <3> QED
        BY <1>2, <1>3, <2>2, <3>1, <3>2 DEF TypeOK, TableType
    <2>3. CASE pc = "move" /\ flash' = [flash EXCEPT ![map[op.lb]] = Torn]
      <3>1. op.lb \in LogicBlocks /\ map[op.lb] \in Int /\ top \in Int
        BY DEF TypeOK, ControlType, MemoryType, PlaceType, Mappings
      <3>2. map[op.lb] < MgmtStart \/ map[op.lb] > top
        BY <3>1 DEF TablesOK, Inv, MapOK
      <3>3. x # map[op.lb]
        BY <1>3, <3>1, <3>2, NmbmConstants DEF Blocks
      <3> QED
        BY <1>3, <2>3, <3>3 DEF TypeOK, TableType
    <2> QED
      BY <2>1, <2>2, <2>3 DEF PowerLoss
  <1>5. x \in InfoTables'
    BY <1>3, <1>4 DEF InfoTables
  <1> QED
    BY <1>5

\* The next attach loads one of the tables, if there are any.
LEMMA TablesAreNext ==
  ASSUME TablesOK, InfoTables # {}
  PROVE  NextTables # {}
  <1>1. PICK t : t \in InfoTables
    OBVIOUS
  <1>2. PICK s \in Blocks : flash[s] = Signature
    BY <1>1 DEF TablesOK, ChipOK
  <1>3. SignatureAt(s)
    <2>1. s \notin marked /\ \A b \in Blocks : flash[b] = Signature => b = s
      BY <1>2 DEF TablesOK, SigOK
    <2> QED
      BY <1>2, <2>1, NmbmConstants DEF SignatureAt, Blocks
  <1>4. Loadable(t, s, {}) /\ t < s - 1 /\ MgmtStart <= t /\ t \in Blocks
    BY <1>1, <1>3, TablesLoad
  <1> QED
    BY <1>3, <1>4, LoadableIsNext DEF TablesOK

\* How the driver gets to a chip that has no tables yet.
LEMMA StartsFrom ==
  ASSUME Next, pc' \in {"off", "sign", "create"}
  PROVE  PowerLoss \/ CreateNew \/ CreateAgain \/ SignSkip \/ SignWrite \/ SignFails
  <1> USE DEF GoTo, Write, EraseRange, AfterOp, LoadReturns
  <1>1. ~(WriteRange \/ ErasingRange)
    BY DEF WriteRange, ErasingRange, WriteSkip, WriteErase, WriteProgram, WriteFails, WriteNoRoom,
       RangeSkip, RangeErase, RangeFails
  <1>2. ~Rebuild
    BY DEF Rebuild, RebuildMainWritten, RebuildMainFails, RebuildBackupWritten, RebuildBackupFails,
       Rebuilt, RebuildReturns
  <1>3. ~Update
    BY DEF Update, UpdateOver, UpdateOnce, OnceBackupWritten, OnceBackupFails, OnceMainWritten,
       OnceMainFailsAlone, RebuildFrom, Updated
  <1>4. ~Rescue
    BY DEF Rescue, RescueMain, RescueTmpWritten, RescueTmpFails, RescueMainWritten, RescueMainFails
  <1>5. ~Load
    <2>1. \A s, a, b, ecc : LoadPair(s, a, b, ecc) => pc' \in {"idle", "write"}
      BY DEF LoadPair
    <2>2. ~LoadTwo
      BY <2>1 DEF LoadTwo
    <2>3. ~LoadOne
      BY DEF LoadOne
    <2> QED
      BY <2>2, <2>3 DEF Load, SingleMainWritten, SingleMainFails, SingleBackupWritten, SingleBackupFails
  <1>6. ~RescueSingle
    BY DEF RescueSingle, FrontWritten, FrontCleaned, FrontFails, NextWritten, NextCleaned, NextFails
  <1>7. ~(CreateInfoTable \/ MapTail \/ TailOver)
    BY DEF CreateInfoTable, RebuildFrom, MapTail, TailOver
  <1>8. ~RemapRest
    BY DEF RemapRest, MoveBlock, MoveFails, MarkOld
  <1>9. ~Users
    BY DEF Users, WriteBlock, WriteBlockFails, WritePageFails, ReadBlockWeak, ReadBlockFails, MarkBad, IsBad, Remap
  <1> QED
    BY <1>1, <1>2, <1>3, <1>4, <1>5, <1>6, <1>7, <1>8, <1>9 DEF Next, Driver, Create

\* New tables are created only where there is no acknowledged data.
LEMMA AckStep ==
  ASSUME TablesOK, AckOK, ~disorder, ~bare', Next
  PROVE  AckOK'
  <1> SUFFICES ASSUME pc' \in {"off", "sign", "create"}
               PROVE  AckOK'
    BY DEF AckOK
  <1>1. CASE PowerLoss
    <2>1. pc' = "off" /\ Acknowledged' = Acknowledged /\ (Secured \/ Acknowledged = {})
      BY <1>1 DEF PowerLoss, Acknowledged
    <2> QED
      BY <1>1, <2>1, SecuredKeeps DEF AckOK
  <1>2. CASE CreateNew \/ CreateAgain
    <2>1. pc = "off" /\ pc' # "off" /\ Acknowledged' = Acknowledged
      BY <1>2 DEF CreateNew, CreateAgain, ScanChip, GoTo, ghost, Acknowledged
    <2>2. Acknowledged = {}
      BY <1>2, <2>1, CreateEmpty DEF AckOK
    <2> QED
      BY <2>1, <2>2 DEF AckOK
  <1>3. CASE SignSkip \/ SignWrite \/ SignFails
    <2>1. pc = "sign" /\ pc' # "off" /\ Acknowledged' = Acknowledged
      BY <1>3 DEF SignSkip, SignWrite, SignFails, GoTo, ghost, Acknowledged
    <2> QED
      BY <2>1 DEF AckOK
  <1> QED
    BY <1>1, <1>2, <1>3, StartsFrom

-----------------------------------------------------------------------------
(* The tables and the mapping in memory *)

\* A remap leaves the tables with the mapping that it changes, and marks them
\* as not up to date.
LEMMA RemapSaved ==
  ASSUME TablesOK, SavedOK, TablesStay, ~unsaved',
         NEW lb \in LogicBlocks, NEW copy \in BOOLEAN, NEW mk \in BOOLEAN, Remap(lb, copy, mk)
  PROVE  SavedOK'
  <1>1. /\ pc = "idle" /\ prot' = prot /\ prot \in BOOLEAN /\ map \in Mappings
        /\ op'.lb = lb /\ op'.src = map[lb]
    BY DEF Remap, TablesOK, Inv, TypeOK, MemoryType
  <1>2. \A t \in InfoTables' : flash'[t].map = map
    BY <1>1 DEF SavedOK, TablesStay
  <1>3. CASE pc' = "move" /\ MapTo(lb, bad \cup {map[lb]}) /\ unsaved' = (unsaved \/ prot)
    <2>1. PICK p : map' = [map EXCEPT ![lb] = p]
      BY <1>3 DEF MapTo
    <2>2. dirty' /\ ~prot'
      BY <1>1, <1>3 DEF MapTo
    <2>3. [map' EXCEPT ![lb] = map[lb]] = map
      BY <1>1, <2>1 DEF Mappings
    <2> QED
      BY <1>1, <1>2, <1>3, <2>2, <2>3 DEF SavedOK, JobPcs
  <1>4. CASE pc' \in {"update", "mark", "idle"} /\ map' = map
    BY <1>2, <1>4 DEF SavedOK, JobPcs
  <1> QED
    BY <1>3, <1>4 DEF Remap, GoTo, AfterOp

\* The tables follow the mapping in memory.
LEMMA SavedStep ==
  ASSUME TablesOK, SavedOK, ~disorder, ~disorder', ~unsaved', Next
  PROVE  SavedOK'
  <1> TypeOK /\ JobOK /\ BoundsOK /\ PlanOK /\ OrderOK /\ WhereOK /\ CacheOK
    BY DEF TablesOK, Inv
  <1> TablesStay \/ (pc = "program" /\ pc' = "written")
    BY StayStep
  <1> \A t \in InfoTables : t \in Int /\ t >= MgmtStart
    BY NmbmConstants DEF TablesOK, ChipOK, InfoTables, Blocks
  <1> USE NmbmConstants DEF phys, mem, loc, ctl, ghost, bounds, GoTo, Write, EraseRange, Written,
             NoRoom, RangeOver, Job, Advance, TypeOK, PlaceType, ControlType, JobOK,
             JobPcs, StepPcs, Working, Blocks, BoundsOK, PlanOK, AboveMain, OrderOK, WhereOK, MayHold, TablesStay,
             SavedOK, Stale, CacheOK
  <1>1. CASE WriteSkip
    BY <1>1 DEF WriteSkip
  <1>2. CASE WriteErase
    BY <1>2 DEF WriteErase
  <1>3. CASE WriteProgram
    <2>1. /\ pc = "program" /\ pc' = "written" /\ UNCHANGED <<map, main, backup, job>>
          /\ InfoTables' = InfoTables \cup {job.ba} /\ flash'[job.ba] = cache
          /\ \A b \in Blocks : b # job.ba => flash'[b] = flash[b]
      BY <1>3, Programmed DEF WriteProgram
    <2>2. cache.map = map /\ \A t \in InfoTables : t \in Blocks /\ (Stale(t) \/ flash[t].map = map)
      BY <2>1 DEF InfoTables
    <2> QED
      BY <2>1, <2>2
  <1>4. CASE WriteFails
    BY <1>4 DEF WriteFails, Fault
  <1>5. CASE WriteNoRoom
    BY <1>5 DEF WriteNoRoom
  <1>6. CASE RangeSkip
    BY <1>6 DEF RangeSkip
  <1>7. CASE RangeErase
    BY <1>7 DEF RangeErase
  <1>8. CASE RangeFails
    BY <1>8 DEF RangeFails, Fault
  <1>9. CASE RebuildMainWritten
    BY <1>9 DEF RebuildMainWritten, RebuildReturns
  <1>10. CASE RebuildMainFails
    BY <1>10 DEF RebuildMainFails
  <1>11. CASE RebuildBackupWritten
    BY <1>11 DEF RebuildBackupWritten
  <1>12. CASE RebuildBackupFails
    BY <1>12 DEF RebuildBackupFails, RebuildReturns
  <1>13. CASE Rebuilt
    BY <1>13 DEF Rebuilt, RebuildReturns
  <1>14. CASE UpdateOver
    BY <1>14 DEF UpdateOver
  <1>15. CASE UpdateOnce
    BY <1>15 DEF UpdateOnce, Generate, Table
  <1>16. CASE OnceBackupWritten
    BY <1>16 DEF OnceBackupWritten
  <1>17. CASE OnceBackupFails
    BY <1>17 DEF OnceBackupFails
  <1>18. CASE OnceMainWritten
    BY <1>18 DEF OnceMainWritten
  <1>19. CASE OnceMainFailsAlone
    BY <1>19 DEF OnceMainFailsAlone, RebuildFrom
  <1>20. CASE Updated
    <2>1. pc = "updated" /\ pc' \in {"update", "mark", "idle"} /\ UNCHANGED <<map, flash>>
      BY <1>20 DEF Updated, AfterOp
    <2> QED
      BY <2>1
  <1>21. CASE RescueMain
    BY <1>21 DEF RescueMain, BackupBecomesMain
  <1>22. CASE RescueTmpWritten
    BY <1>22 DEF RescueTmpWritten
  <1>23. CASE RescueTmpFails
    BY <1>23 DEF RescueTmpFails, BackupBecomesMain
  <1>24. CASE RescueMainWritten
    BY <1>24 DEF RescueMainWritten
  <1>25. CASE RescueMainFails
    BY <1>25 DEF RescueMainFails
  <1>26. CASE LoadOne
    <2>1. PICK a \in Blocks : LoadsOne(a)
      BY <1>26, LoadOneDoes
    <2>2. InfoTables' = {a} /\ flash' = flash /\ map' = flash[a].map /\ pc' = "write"
      BY <2>1 DEF LoadsOne, Attaches, InfoTables
    <2> QED
      BY <2>2
  <1>27. CASE LoadTwo
    <2>1. PICK a, b \in Blocks : LoadsTwo(a, b)
      BY <1>27, LoadTwoDoes
    <2>2. InfoTables' = {a, b} /\ flash' = flash /\ main' = a /\ backup' = b
      BY <2>1 DEF LoadsTwo, Attaches, InfoTables
    <2>3. \/ pc' = "idle" /\ \A t \in InfoTables' : flash[t].map = map'
          \/ pc' = "write" /\ job'.k = "singleMain" /\ flash[b].map = map'
          \/ pc' = "write" /\ job'.k = "singleBackup" /\ flash[a].map = map'
      BY <2>1, <2>2 DEF LoadsTwo, Attaches
    <2> QED
      BY <2>2, <2>3
  <1>28. CASE SingleMainWritten
    BY <1>28 DEF SingleMainWritten, LoadReturns
  <1>29. CASE SingleMainFails
    BY <1>29 DEF SingleMainFails, BackupBecomesMain
  <1>30. CASE SingleBackupWritten
    BY <1>30 DEF SingleBackupWritten, LoadReturns
  <1>31. CASE SingleBackupFails
    BY <1>31 DEF SingleBackupFails, LoadReturns
  <1>32. CASE FrontWritten
    BY <1>32 DEF FrontWritten
  <1>33. CASE FrontCleaned
    BY <1>33 DEF FrontCleaned, LoadReturns
  <1>34. CASE FrontFails
    BY <1>34 DEF FrontFails, LoadReturns
  <1>35. CASE NextWritten
    BY <1>35 DEF NextWritten
  <1>36. CASE NextCleaned
    BY <1>36 DEF NextCleaned, LoadReturns
  <1>37. CASE NextFails
    BY <1>37 DEF NextFails, LoadReturns
  <1>38. CASE CreateNew
    <2>1. pc' \notin Working
      BY <1>38 DEF CreateNew
    <2> QED
      BY <2>1
  <1>39. CASE CreateAgain
    <2>1. pc' \notin Working
      BY <1>39 DEF CreateAgain
    <2> QED
      BY <2>1
  <1>40. CASE SignSkip
    BY <1>40 DEF SignSkip
  <1>41. CASE SignWrite
    BY <1>41 DEF SignWrite
  <1>42. CASE SignFails
    BY <1>42 DEF SignFails, Fault
  <1>43. CASE CreateInfoTable
    <2>1. pc = "create" /\ flash' = flash /\ pc' \in {"write", "failed"}
      BY <1>43 DEF CreateInfoTable, RebuildFrom
    <2>2. InfoTables' = {}
      BY <2>1
    <2> QED
      BY <2>1, <2>2
  <1>44. CASE MapTail
    <2>1. pc = "tail" /\ pc' = "tail" /\ dirty' /\ prot' = prot
      BY <1>44 DEF MapTail, MapTo
    <2> QED
      BY <2>1
  <1>45. CASE TailOver
    BY <1>45 DEF TailOver
  <1>46. CASE MoveBlock
    BY <1>46 DEF MoveBlock
  <1>47. CASE MoveFails
    BY <1>47 DEF MoveFails, Fault
  <1>48. CASE MarkOld
    BY <1>48 DEF MarkOld
  <1>49. CASE WriteBlock
    BY <1>49 DEF WriteBlock
  <1>50. CASE WriteBlockFails
    <2>1. PICK lb \in LogicBlocks : Remap(lb, FALSE, FALSE)
      BY <1>50 DEF WriteBlockFails, Loses
    <2> QED
      BY <2>1, RemapSaved DEF Remap
  <1>51. CASE ReadBlockWeak
    <2>1. PICK lb \in LogicBlocks : Remap(lb, TRUE, FALSE)
      BY <1>51 DEF ReadBlockWeak
    <2> QED
      BY <2>1, RemapSaved DEF Remap
  <1>52. CASE MarkBad
    <2>1. PICK lb \in LogicBlocks : Remap(lb, TRUE, TRUE)
      BY <1>52 DEF MarkBad
    <2> QED
      BY <2>1, RemapSaved DEF Remap
  <1>53. CASE IsBad
    <2>1. PICK lb \in LogicBlocks : Remap(lb, TRUE, FALSE)
      BY <1>53 DEF IsBad
    <2> QED
      BY <2>1, RemapSaved DEF Remap
  <1>54. CASE PowerLoss
    <2>1. pc' = "off"
      BY <1>54 DEF PowerLoss
    <2> QED
      BY <2>1
  <1>55. CASE WritePageFails
    <2>1. PICK lb \in LogicBlocks : Remap(lb, TRUE, FALSE)
      BY <1>55 DEF WritePageFails
    <2> QED
      BY <2>1, RemapSaved DEF Remap
  <1>56. CASE ReadBlockFails
    <2>1. PICK lb \in LogicBlocks : Remap(lb, TRUE, FALSE)
      BY <1>56 DEF ReadBlockFails, Loses
    <2> QED
      BY <2>1, RemapSaved DEF Remap
  <1> QED
    BY <1>1, <1>2, <1>3, <1>4, <1>5, <1>6, <1>7, <1>8, <1>9, <1>10, <1>11, <1>12,
       <1>13, <1>14, <1>15, <1>16, <1>17, <1>18, <1>19, <1>20, <1>21, <1>22, <1>23, <1>24,
       <1>25, <1>26, <1>27, <1>28, <1>29, <1>30, <1>31, <1>32, <1>33, <1>34, <1>35, <1>36,
       <1>37, <1>38, <1>39, <1>40, <1>41, <1>42, <1>43, <1>44, <1>45, <1>46, <1>47, <1>48,
       <1>49, <1>50, <1>51, <1>52, <1>53, <1>54, <1>55, <1>56
       DEF Next, Driver, WriteRange, ErasingRange, Rebuild, Update, Rescue, Load,
           RescueSingle, Create, RemapRest, Users

-----------------------------------------------------------------------------
(* The theorems about the data *)

\* Once remapped while protected, or without power at the wrong moment, a chip
\* stays one that was.
LEMMA GhostsKept ==
  ASSUME Next
  PROVE  (~unsaved' => ~unsaved) /\ (~bare' => ~bare)
  <1> USE DEF ghost
  <1>1. ASSUME WriteRange \/ ErasingRange PROVE unsaved' = unsaved /\ bare' = bare
    BY <1>1 DEF WriteRange, ErasingRange, WriteSkip, WriteErase, WriteProgram, WriteFails, WriteNoRoom,
       RangeSkip, RangeErase, RangeFails
  <1>2. ASSUME Rebuild PROVE unsaved' = unsaved /\ bare' = bare
    BY <1>2 DEF Rebuild, RebuildMainWritten, RebuildMainFails, RebuildBackupWritten, RebuildBackupFails, Rebuilt
  <1>3. ASSUME Update PROVE unsaved' = unsaved /\ bare' = bare
    BY <1>3 DEF Update, UpdateOver, UpdateOnce, OnceBackupWritten, OnceBackupFails, OnceMainWritten,
       OnceMainFailsAlone, Updated
  <1>4. ASSUME Rescue PROVE unsaved' = unsaved /\ bare' = bare
    BY <1>4 DEF Rescue, RescueMain, RescueTmpWritten, RescueTmpFails, RescueMainWritten, RescueMainFails
  <1>5. ASSUME Load PROVE unsaved' = unsaved /\ bare' = bare
    <2>1. CASE LoadOne \/ LoadTwo
      <3>1. \A c, s, b, d : LoadTable(c, s, b, d) => unsaved' = unsaved /\ bare' = bare
        BY DEF LoadTable
      <3>2. CASE LoadOne
        BY <3>1, <3>2, Zenon DEF LoadOne
      <3>3. CASE LoadTwo
        <4>1. PICK s, a, b, ecc : LoadPair(s, a, b, ecc)
          BY <3>3 DEF LoadTwo
        <4>2. \E c, x, d : LoadTable(c, s, x, d)
          BY <4>1 DEF LoadPair
        <4> QED
          BY <3>1, <4>2
      <3> QED
        BY <2>1, <3>2, <3>3
    <2> QED
      BY <1>5, <2>1 DEF Load, SingleMainWritten, SingleMainFails, SingleBackupWritten, SingleBackupFails
  <1>6. ASSUME RescueSingle PROVE unsaved' = unsaved /\ bare' = bare
    BY <1>6 DEF RescueSingle, FrontWritten, FrontCleaned, FrontFails, NextWritten, NextCleaned, NextFails
  <1>7. ASSUME Create PROVE unsaved' = unsaved /\ bare' = bare
    BY <1>7 DEF Create, CreateNew, CreateAgain, ScanChip, SignSkip, SignWrite, SignFails, CreateInfoTable,
       MapTail, TailOver
  <1>8. ASSUME RemapRest PROVE unsaved' = unsaved /\ bare' = bare
    BY <1>8 DEF RemapRest, MoveBlock, MoveFails, MarkOld
  <1>9. CASE Users
    <2> USE <1>9 DEF Users, WriteBlock, WriteBlockFails, WritePageFails, ReadBlockWeak, ReadBlockFails, MarkBad,
                   IsBad, Remap
    <2>1. bare' = bare
      OBVIOUS
    <2>2. ASSUME ~unsaved' PROVE ~unsaved
      BY <2>2
    <2> QED
      BY <2>1, <2>2
  <1>10. CASE PowerLoss
    BY <1>10 DEF PowerLoss
  <1> QED
    BY <1>1, <1>2, <1>3, <1>4, <1>5, <1>6, <1>7, <1>8, <1>9, <1>10 DEF Next, Driver

LEMMA LeadsInit == Init => LeadsInv
  <1> SUFFICES ASSUME Init PROVE LeadsInv
    OBVIOUS
  <1>1. pc = "off"
    BY DEF Init
  <1>2. InfoTables = {}
    BY Kinds DEF Init, InfoTables
  <1>3. pc \notin Working /\ pc \notin JobPcs /\ pc \notin StepPcs
    BY <1>1 DEF Working, JobPcs, StepPcs
  <1>4. ShapeOK /\ ChipOK /\ PairOK
    BY <1>2 DEF ShapeOK, ChipOK, PairOK
  <1>5. OrderOK /\ WhereOK /\ PrefixOK /\ AgesOK
    BY <1>1, <1>3 DEF OrderOK, WhereOK, PrefixOK, AgesOK, JobPcs
  <1>6. Acknowledged = {}
    BY DEF Init, Acknowledged, NoMapping
  <1>7. AckOK /\ LeadOK /\ SavedOK
    BY <1>1, <1>2, <1>3, <1>6 DEF AckOK, LeadOK, LeftOK, Acknowledged, SavedOK
  <1> QED
    BY <1>4, <1>5, <1>7 DEF LeadsInv

LEMMA LeadsNext == Inv /\ TablesInv /\ LeadsInv /\ [Next]_vars => LeadsInv'
  <1> SUFFICES ASSUME Inv, TablesInv, LeadsInv, [Next]_vars, ~disorder'
               PROVE  (/\ ShapeOK /\ OrderOK /\ WhereOK /\ PrefixOK /\ AgesOK /\ ChipOK /\ PairOK
                       /\ ~unsaved => SavedOK /\ (~bare => AckOK /\ LeadOK))'
    BY DEF LeadsInv
  <1>1. CASE Next
    <2>1. ~disorder
      BY <1>1, OrderKept DEF Inv
    <2>2. TablesOK
      BY <2>1 DEF LeadsInv, TablesInv, TablesOK
    <2>3. TypeOK'
      BY <1>1, InvNext DEF Inv
    <2>4. ShapeOK' /\ ChipOK' /\ PairOK'
      BY <1>1, <2>1, <2>2, ShapeStep, ChipStep, PairStep
    <2>5. OrderOK' /\ WhereOK' /\ PrefixOK' /\ AgesOK'
      BY <1>1, <2>1, <2>2, OrderStep, WhereStep, PrefixStep, AgesStep
    <2>6. ASSUME ~unsaved' PROVE SavedOK
      BY <1>1, <2>1, <2>6, GhostsKept DEF LeadsInv
    <2>7. ASSUME ~unsaved' PROVE SavedOK'
      BY <1>1, <2>1, <2>2, <2>6, <2>7, SavedStep
    <2>8. ASSUME ~unsaved', ~bare' PROVE AckOK' /\ LeadOK'
      <3>1. AckOK /\ LeadOK
        BY <1>1, <2>1, <2>8, GhostsKept DEF LeadsInv
      <3> QED
        BY <1>1, <2>1, <2>2, <2>3, <2>6, <2>8, <3>1, AckStep, LeadStep
    <2> QED
      BY <2>4, <2>5, <2>7, <2>8
  <1>2. CASE UNCHANGED vars
    <2>1. UNCHANGED <<flash, marked, bad, map, dbc, wc, dirty, cache, main, backup, mba, top, prot,
                      pc, job, op, stored, left, disorder, unsaved, bare>>
      BY <1>2 DEF vars, phys, mem, loc, ctl, ghost
    <2>2. InfoTables' = InfoTables /\ Acknowledged' = Acknowledged
      BY <2>1 DEF InfoTables, Acknowledged
    <2>3. ShapeOK /\ OrderOK /\ WhereOK /\ PrefixOK /\ AgesOK /\ ChipOK /\ PairOK
      BY <2>1 DEF LeadsInv
    <2>4. ShapeOK' /\ ChipOK' /\ PairOK'
      BY <2>1, <2>2, <2>3 DEF ShapeOK, ChipOK, PairOK, Unusable, Clear, Reaches
    <2>5. OrderOK' /\ WhereOK' /\ PrefixOK' /\ AgesOK'
      BY <2>1, <2>2, <2>3 DEF OrderOK, WhereOK, MayHold, PrefixOK, AboveMain, AgesOK, Unusable, Clear, Reaches
    <2>6. ASSUME ~unsaved' PROVE SavedOK'
      BY <2>1, <2>2, <2>6 DEF LeadsInv, SavedOK, Stale
    <2>7. ASSUME ~unsaved', ~bare' PROVE AckOK' /\ LeadOK'
      BY <2>1, <2>2, <2>7 DEF LeadsInv, AckOK, LeadOK, LeftOK, Beyond, Good
    <2> QED
      BY <2>4, <2>5, <2>6, <2>7
  <1> QED
    BY <1>1, <1>2

LEMMA LeadsInvariance == Spec => [](Inv /\ TablesInv /\ LeadsInv)
  <1>1. Init => Inv /\ TablesInv /\ LeadsInv
    BY InvInit, TablesInit, LeadsInit
  <1>2. (Inv /\ TablesInv /\ LeadsInv) /\ [Next]_vars => (Inv /\ TablesInv /\ LeadsInv)'
    BY InvNext, TablesNext, LeadsNext
  <1> QED
    BY <1>1, <1>2, PTL DEF Spec

LEMMA InOrder ==
  ASSUME Inv, TablesInv, LeadsInv, ~disorder
  PROVE  TablesOK
  BY DEF TablesInv, LeadsInv, TablesOK

\* Wherever power goes off, the next attach finds a table: no erase or program
\* of nmbm_update_info_table, of a rescue, a rebuild or an attach touches the
\* table the chip depends on, unless it is the only one.
THEOREM TablesSurvive == Spec => []TableSurvives
  <1>1. Inv /\ TablesInv /\ LeadsInv => TableSurvives
    <2> SUFFICES ASSUME Inv, TablesInv, LeadsInv, ~disorder, Secured
                 PROVE  NextTables # {}
      BY DEF TableSurvives
    <2>1. TablesOK
      BY InOrder
    <2>2. InfoTables # {}
      BY <2>1, SecuredKept
    <2> QED
      BY <2>1, <2>2, TablesAreNext
  <1> QED
    BY <1>1, LeadsInvariance, PTL

\* Acknowledged data outlives failing blocks and power losses, unless power is
\* lost while the driver is not Secured: remap_block_nmbm copies it before
\* nmbm_update_info_table hides the old block, every table that an attach
\* could choose leads to one of the two, there is such a table, and the block
\* that a failed copy left the data in is never used for anything else.
THEOREM DataSurvives == Spec => []DurableData
  <1>1. Inv /\ TablesInv /\ LeadsInv => DurableData
    <2> SUFFICES ASSUME Inv, TablesInv, LeadsInv, ~disorder, ~unsaved, ~bare
                 PROVE  /\ (pc = "off" \/ Secured) /\ Acknowledged # {} => NextTables # {}
                        /\ \A b \in NextTables : \A lb \in stored :
                             flash[b].map[lb] \in Blocks /\ flash[flash[b].map[lb]] = Data(lb)
                        /\ \A lb \in LogicBlocks : left[lb] >= 0 => flash[left[lb]] = Data(lb)
      BY DEF DurableData
    <2>1. TablesOK /\ AckOK /\ LeadOK
      BY InOrder DEF LeadsInv
    <2>2. ASSUME pc = "off" \/ Secured, Acknowledged # {} PROVE NextTables # {}
      <3>1. InfoTables # {}
        BY <2>1, <2>2, SecuredKept DEF AckOK
      <3> QED
        BY <2>1, <3>1, TablesAreNext
    <2>3. ASSUME NEW b \in NextTables, NEW lb \in stored
          PROVE  flash[b].map[lb] \in Blocks /\ flash[flash[b].map[lb]] = Data(lb)
      <3>1. b \in InfoTables
        BY DEF NextTables, InfoTables
      <3>2. Good(flash[b].map)
        BY <2>1, <3>1 DEF LeadOK
      <3> QED
        BY <3>2 DEF Good
    <2>4. \A lb \in LogicBlocks : left[lb] >= 0 => flash[left[lb]] = Data(lb)
      BY <2>1 DEF LeadOK, LeftOK
    <2> QED
      BY <2>2, <2>3, <2>4
  <1> QED
    BY <1>1, LeadsInvariance, PTL

\* When an operation is over, every table that the next attach could choose
\* has the mapping of the memory: the loop of nmbm_update_info_table, the
\* rescues and the rebuild leave no older table behind, as long as the spare
\* blocks were handed out downwards.
THEOREM UpdatesSave == Spec => [](~disorder => UpdateSaves)
  <1>1. LeadsInv => (~disorder => UpdateSaves)
    BY DEF LeadsInv, SavedOK, UpdateSaves, NextTables, InfoTables
  <1> QED
    BY <1>1, LeadsInvariance, PTL

\* nmbm_map_block, when it found no block, moves mapping_blocks_top_ba down to
\* mapping_blocks_ba and never up.
THEOREM TopStays == Spec => TopNeverRises
  <1>1. (Inv /\ TablesInv /\ LeadsInv) /\ [Next]_vars
          => [pc = "updated" /\ pc' # "off" /\ ~disorder => top' <= top]_vars
    <2> SUFFICES ASSUME Inv, LeadsInv, Next, pc = "updated", pc' # "off", ~disorder
                 PROVE  top' <= top
      OBVIOUS
    <2>1. mba <= top /\ mba \in Int /\ top \in Int
      BY NmbmConstants DEF LeadsInv, OrderOK, Working, StepPcs, Inv, TypeOK, PlaceType
    <2>2. Updated
      BY DEF Next, Driver, WriteRange, ErasingRange, Rebuild, Update, Rescue, Load,
           RescueSingle, Create, RemapRest, Users,
           WriteSkip, WriteErase, WriteProgram, WriteFails, WriteNoRoom, RangeSkip, RangeErase, RangeFails,
           RebuildMainWritten, RebuildMainFails, RebuildBackupWritten, RebuildBackupFails, Rebuilt,
           UpdateOver, UpdateOnce, OnceBackupWritten, OnceBackupFails, OnceMainWritten, OnceMainFailsAlone,
           RescueMain, RescueTmpWritten, RescueTmpFails, RescueMainWritten, RescueMainFails,
           LoadOne, LoadTwo, SingleMainWritten, SingleMainFails, SingleBackupWritten, SingleBackupFails,
           FrontWritten, FrontCleaned, FrontFails, NextWritten, NextCleaned, NextFails,
           CreateNew, CreateAgain, SignSkip, SignWrite, SignFails, CreateInfoTable, MapTail, TailOver,
           MoveBlock, MoveFails, MarkOld, WriteBlock, WriteBlockFails, Loses, WritePageFails, ReadBlockWeak,
           ReadBlockFails, MarkBad, IsBad,
           Remap, PowerLoss, Written, NoRoom, RangeOver
    <2> QED
      BY <2>1, <2>2 DEF Updated
  <1> QED
    BY <1>1, LeadsInvariance, PTL DEF Spec, TopNeverRises

=============================================================================
